------------------------- MODULE CompilerProperties -------------------------
(* What is expected of the compiler, stated without its algorithms.          *)
EXTENDS Compiler, Grammar

CONSTANT Meant(_, _)   \* the run that the documentation defines: Meaning

VARIABLE written   \* file -> the imports and the program that its author means

(* CodeMeansProgram: the code emitted for an accepted program is well formed *)
(* LLVM without undefined behaviour, and running it calls the same builtins  *)
(* with the same arguments in the same order, leaves the same globals and    *)
(* stops with the same run-time error as docs/language.md defines.           *)
SameRun(ran, meant) ==
    /\ ran.status = IF meant.status = "running" THEN "returned" ELSE meant.status
    /\ ran.status # "fuel" => /\ ran.trace = meant.trace
                              /\ \A g \in DOMAIN meant.globals : ran.memory[g] = meant.globals[g]
    /\ ran.status \in Hooks => ran.value = meant.value
CodeMeansProgram == stage = "ran" => SameRun(outcome, Meant(checked, <<"start">>))

(* FoldingAgrees: an expression that the analysis evaluates, as a global's   *)
(* initial value, has the value that its code computes when it runs.         *)
FoldingAgrees ==
    stage = "ran" /\ outcome.status = "returned" /\ {<<"folded">>, <<"computed">>} \subseteq DOMAIN outcome.memory
        => outcome.memory[<<"computed">>] = checked.initial[<<"folded">>]
-----------------------------------------------------------------------------
(* A constant's value by plain recursion: the constants it depends on, the   *)
(* lengths in its type included, must have values, and not depend on it.     *)
RECURSIVE PlainValue(_, _, _, _)
RECURSIVE PlainConstant(_, _, _)
PlainLength(n, program, above) ==
    IF n.k = "literal" THEN n.i
    ELSE LET v == PlainConstant(n.name, program, above)
         IN  IF n.name \in Names(program.constants) /\ Declared(program.constants, n.name).ty # I32 THEN 0
             ELSE IF v.k = "i32" THEN v.i ELSE 0
RECURSIVE PlainType(_, _, _)
PlainType(ty, program, above) ==
    IF ty.k # "array" THEN ty
    ELSE ArrayOf(PlainType(ty.el, program, above), Resolved(PlainLength(ty.n, program, above)))
PlainFields(struct, program, above) ==
    [struct EXCEPT !.fields = [i \in DOMAIN @ |-> Typed(@[i].name, PlainType(@[i].ty, program, above))]]
PlainConstant(name, program, above) ==
    LET d == Declared(program.constants, name)
        below == above \cup {name}
        inside == {s \in Range(program.structs) : s.name \in Reached(ElementStruct(d.ty), program.structs)}
        lengths == UNION ({Range(Lengths(d.ty))} \cup {UNION {Range(Lengths(f.ty)) : f \in Range(s.fields)} : s \in inside})
        ty == PlainType(d.ty, program, below)
        v == PlainValue(d.e, ty, program, below)
    IN  CASE name \in DOMAIN Predefined -> Predefined[name]
          [] name \notin Names(program.constants) \/ name \in above -> Failed
          [] \E n \in lengths : PlainLength(n, program, below) <= 0 -> Failed
          [] OTHER -> IF IsValue(v) /\ TypeOf(v) = ty /\ Depth(v) <= MaxAggregateDepth THEN v ELSE Failed
PlainValue(e, want, program, above) ==
    LET Sub(x) == PlainValue(x, Untyped, program, above)
        Both(l, r) == IF IsValue(l) /\ IsValue(r) THEN EvaluateBinary(l, e.op, r) ELSE Failed
        elements == [i \in DOMAIN e.es |-> PlainValue(e.es[i], want.el, program, above)]
        fields == PlainFields(Declared(program.structs, e.name), program, above).fields
        members == [i \in DOMAIN fields |->
                       PlainValue(Declared(e.fields, fields[i].name).e, fields[i].ty, program, above)]
        base == Sub(e.base)
    IN  CASE e.k = "var" -> PlainConstant(e.name, program, above)
          [] e.k = "binary" -> Both(Sub(e.l), Sub(e.r))
          [] e.k = "index" -> IF IsValue(base) /\ IsValue(Sub(e.ix)) THEN IndexValue(base, Sub(e.ix)) ELSE Failed
          [] e.k = "field" ->
                IF base.k # "struct" THEN Failed
                ELSE base.vs[Position(Declared(program.structs, base.name).fields, e.name)]
          [] e.k = "list" ->
                IF want.k = "array" /\ Len(e.es) = want.n.i /\ \A i \in DOMAIN elements : IsValue(elements[i])
                THEN ArrayValue(want.el, elements) ELSE Failed
          [] e.k = "new" ->
                IF want = StructOf(e.name) /\ \A i \in DOMAIN members : IsValue(members[i])
                THEN StructValue(e.name, members) ELSE Failed
          [] e.k = "int" -> IntOrOverflow(e.i)
          [] e.k = "truth" -> Truth(e.b)

(* DeclarationsResolve: whatever the order of declarations, every constant   *)
(* has the value that plain recursion gives it, or fails with everything     *)
(* that depends on it; and the structs reported as recursive are exactly     *)
(* those that contain themselves.                                            *)
ContainsItself(struct, structs) ==
    struct.name \in Reached(UNION {ElementStruct(f.ty) : f \in Range(struct.fields)}, structs)
DeclarationsResolve ==
    stage \in {"checked", "rejected"} /\ checked # Undef =>
        LET source == loaded.program IN
        /\ \A name \in Names(source.constants) :
              LET v == PlainConstant(name, source, {})
              IN  IF IsValue(v) THEN name \notin checked.failures /\ checked.values[name] = v
                  ELSE name \in checked.failures /\ name \notin DOMAIN checked.values
        /\ RecursiveStructs(source.structs) =
              {s.name : s \in {s \in Range(source.structs) : ContainsItself(s, source.structs)}}
-----------------------------------------------------------------------------
(* ParseInverts: what is written with the fewest parentheses and without     *)
(* semicolons is read back as it was meant: operators group as documented,   *)
(* a brace after a name opens a struct literal or a block as it should.      *)
(* Only a program that nests deeper than the limit is refused.               *)
ParseInverts ==
    stage \in {"loaded", "rejected"} /\ loaded.read =>
        /\ loaded.parsed <=> \A file \in Range(loaded.modules) : DeepestProgram(written[file].program) <= MaxNesting
        /\ loaded.parsed /\ Len(loaded.modules) = 1 => loaded.program = written[loaded.modules[1]].program

(* Paths that begin at the entry file and follow imports. *)
ImportedBy(path) ==
    IF path \in DOMAIN disk.paths THEN {i.path : i \in Range(written[disk.paths[path]].imports)} ELSE {}
Chain[n \in 1..MaxImportDepth + 1] ==
    IF n = 1 THEN {<<Entry>>} ELSE UNION {{Append(c, p) : p \in ImportedBy(Last(c))} : c \in Chain[n - 1]}
Reachable == UNION {{Last(c) : c \in Chain[n]} : n \in 1..MaxImportDepth}

(* LoaderAcceptsExactly: in whatever order files are discovered, a program   *)
(* is read iff no chain of imports is longer than the limit (so none is a    *)
(* cycle) and every file on one can be read and gives its imports different  *)
(* aliases; then each of its files is a module once.  The sources recorded,  *)
(* of a failed load too, are enough to tell that a later load would differ.  *)
LoaderAcceptsExactly ==
    stage \in {"loaded", "rejected"} =>
        /\ loaded.read <=> /\ Chain[MaxImportDepth + 1] = {}
                           /\ \A path \in Reachable :
                                 /\ path \in DOMAIN disk.paths
                                 /\ LET imports == written[disk.paths[path]].imports
                                    IN  \A i, j \in DOMAIN imports : imports[i].alias = imports[j].alias => i = j
        /\ loaded.read => /\ Range(loaded.modules) = {disk.paths[path] : path \in Reachable}
                          /\ Cardinality(Range(loaded.modules)) = Len(loaded.modules)
        /\ ~(DOMAIN disk.paths \subseteq loaded.sources) =>
              Loading([disk EXCEPT !.paths = [p \in loaded.sources \cap DOMAIN @ |-> @[p]]], Entry) = loaded
=============================================================================
