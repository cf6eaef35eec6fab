---------------------------- MODULE Declarations ----------------------------
(* What the analysis finds out about declarations before it looks at any     *)
(* function: the scheduler of constant initializers                          *)
(* (src/sema/constants/dependencies.rs), the lengths of array types          *)
(* (src/sema/type_resolution.rs) and the structs that contain themselves     *)
(* (src/sema/struct_graph.rs).                                               *)
EXTENDS Constants

(* Types. *)
RECURSIVE Lengths(_)
Lengths(ty) == IF ty.k = "array" THEN Append(Lengths(ty.el), ty.n) ELSE <<>>

RECURSIVE ElementStruct(_)
ElementStruct(ty) == IF ty.k = "array" THEN ElementStruct(ty.el)
                     ELSE IF ty.k = "struct" THEN {ty.name} ELSE {}

RECURSIVE HasInvalidLength(_)
HasInvalidLength(ty) == ty.k = "array" /\ (ty.n.k = "invalid" \/ HasInvalidLength(ty.el))

PositiveLength(n) == n > 0 /\ n <= MaxInt

(* A length that is known: the constant it names, evaluated and positive. *)
KnownLength(n, cache, constants) ==
    CASE n.k = "literal" -> IF PositiveLength(n.i) THEN Resolved(n.i) ELSE InvalidLength
      [] n.k = "name" ->
            LET v == Lookup(cache, n.name) IN
            CASE n.name \in Names(constants) /\ Declared(constants, n.name).ty # I32 -> InvalidLength
              [] v.k = "needs" -> v
              [] v.k = "i32" /\ PositiveLength(v.i) -> Resolved(v.i)
              [] OTHER -> InvalidLength
      [] OTHER -> n

RECURSIVE ResolveType(_, _, _)
ResolveType(ty, cache, constants) ==
    IF ty.k # "array" THEN ty
    ELSE ArrayOf(ResolveType(ty.el, cache, constants), KnownLength(ty.n, cache, constants))

ResolveFields(struct, cache, constants) ==
    [struct EXCEPT !.fields = [i \in DOMAIN @ |-> Typed(@[i].name, ResolveType(@[i].ty, cache, constants))]]

TypesOf(ds) == [i \in DOMAIN ds |-> ds[i].ty]

(* The structs a type is made of. *)
RECURSIVE Reached(_, _)
Reached(names, structs) ==
    LET more == names \cup UNION {UNION {ElementStruct(f.ty) : f \in Range(Declared(structs, n).fields)} :
                                  n \in names \cap Names(structs)}
    IN  IF more = names THEN names ELSE Reached(more, structs)
-----------------------------------------------------------------------------
(* An initializer under evaluation.  For an array length the types it is     *)
(* made of are prepared first, one length after the other, and never again.  *)
(* The types still to look through are a stack: fields before what is left.  *)
RECURSIVE LengthsFrom(_, _, _)
LengthsFrom(pending, seen, structs) ==
    IF pending = <<>> THEN <<>>
    ELSE LET new == ElementStruct(Head(pending)) \ seen
             fields == {TypesOf(Declared(structs, n).fields) : n \in new \cap Names(structs)}
         IN  Lengths(Head(pending))
                 \o LengthsFrom(FlattenSeq(SetToSeq(fields)) \o Tail(pending), seen \cup new, structs)

Prepared(ty, structs) == LengthsFrom(<<ty>>, {}, structs)

Begin(definition, structs, phase) ==
    [lengths |-> IF phase = "length" THEN Prepared(definition.ty, structs) ELSE <<>>,
     ev |-> Evaluation(definition.e, Untyped), fresh |-> TRUE, result |-> Task("running")]

RECURSIVE Prepare(_, _, _)
Prepare(state, cache, constants) ==
    IF state.lengths = <<>> THEN [state EXCEPT !.result = Task("running")]
    ELSE LET n == KnownLength(Head(state.lengths), cache, constants)
         IN  CASE n.k = "needs" -> [state EXCEPT !.result = n]
               [] n.k = "invalid" -> [state EXCEPT !.result = Failed]
               [] OTHER -> Prepare([state EXCEPT !.lengths = Tail(@)], cache, constants)

ValidateType(v, ty) == IF IsValue(v) /\ TypeOf(v) # ty THEN Failed ELSE v

Advance(state, cache, program, definition) ==
    LET ready == Prepare(state, cache, program.constants)
        ty == ResolveType(definition.ty, cache, program.constants)
        structs == [s \in DOMAIN program.structs |-> ResolveFields(program.structs[s], cache, program.constants)]
        begun == IF state.fresh THEN Evaluation(definition.e, ty) ELSE Resumed(state.ev)
        ended == Resume(begun, structs, cache)
    IN  IF ready.result.k # "running" THEN ready
        ELSE [ready EXCEPT !.ev = ended, !.fresh = FALSE, !.result = ValidateType(ended.result, ty)]

(* Deviation: only the declaration that met the failure remembers it. *)
BlameLast(cache, pending) == [cache EXCEPT !.failures = @ \cup {Last(pending).name}]

(* Every suspended initializer depends on the failure. *)
Blame(cache, pending) == [cache EXCEPT !.failures = @ \cup Names(pending)]

(* The last suspended initializer goes on, with what it needs above it. *)
RECURSIVE Demand(_, _, _, _)
Demand(cache, pending, program, phase) ==
    IF pending = <<>> THEN cache
    ELSE LET top == Last(pending)
             known == top.name \in Names(program.constants)
             definition == Declared(program.constants, top.name)
             state == IF top.state = <<>> THEN Begin(definition, program.structs, phase) ELSE top.state[1]
             next == Advance(state, cache, program, definition)
             r == IF known THEN next.result ELSE Failed
             suspended == Append(Front(pending), [name |-> top.name, state |-> <<next>>])
         IN  CASE IsValue(r) -> Demand(Learn(cache, top.name, r), Front(pending), program, phase)
               [] r.k = "needs" /\ r.name \notin Names(pending) ->
                     Demand(cache, Append(suspended, [name |-> r.name, state |-> <<>>]), program, phase)
               [] OTHER -> Blame(cache, pending)

Evaluate(cache, name, program, phase) ==
    IF Lookup(cache, name).k # "needs" THEN cache
    ELSE Demand(cache, <<[name |-> name, state |-> <<>>]>>, program, phase)
-----------------------------------------------------------------------------
(* Every declared type of the program, in the order they are resolved. *)
RECURSIVE BlockTypes(_)
BlockTypes(block) ==
    FlattenSeq([i \in DOMAIN block |->
        LET s == block[i] IN
        CASE s.k = "let" -> <<s.ty>>
          [] s.k = "if" -> BlockTypes(s.then) \o FlattenSeq([j \in DOMAIN s.elses |-> BlockTypes(s.elses[j])])
          [] s.k \in {"while", "for"} -> BlockTypes(s.body)
          [] OTHER -> <<>>])
FunctionTypes(f) == TypesOf(f.params) \o <<f.ret>> \o BlockTypes(f.body)
DeclaredTypes(program) ==
    FlattenSeq([i \in DOMAIN program.structs |-> TypesOf(program.structs[i].fields)])
        \o TypesOf(program.constants) \o TypesOf(program.globals)
        \o FlattenSeq([i \in DOMAIN program.functions |-> FunctionTypes(program.functions[i])])

(* The constants demanded as lengths, in order; what is known afterwards. *)
LengthCache(program) ==
    LET types == DeclaredTypes(program)
        lengths == FlattenSeq([i \in DOMAIN types |-> Lengths(types[i])])
        DemandLength(cache, n) ==
            IF n.k = "name" /\ KnownLength(n, cache, program.constants).k = "needs"
            THEN Evaluate(cache, n.name, program, "length") ELSE cache
    IN  FoldLeft(DemandLength, NoValues({}), lengths)

RECURSIVE ResolveBlock(_, _, _)
ResolveBlock(block, cache, constants) ==
    [i \in DOMAIN block |->
        LET s == block[i] IN
        CASE s.k = "let" -> [s EXCEPT !.ty = ResolveType(@, cache, constants)]
          [] s.k = "if" -> [s EXCEPT !.then = ResolveBlock(@, cache, constants),
                                     !.elses = [j \in DOMAIN @ |-> ResolveBlock(@[j], cache, constants)]]
          [] s.k \in {"while", "for"} -> [s EXCEPT !.body = ResolveBlock(@, cache, constants)]
          [] OTHER -> s]

ResolveProgramTypes(program, cache) ==
    LET cs == program.constants
        Ty(ty) == ResolveType(ty, cache, cs)
        Tys(ds) == [i \in DOMAIN ds |-> [ds[i] EXCEPT !.ty = Ty(@)]]
    IN  [structs |-> [i \in DOMAIN program.structs |-> ResolveFields(program.structs[i], cache, cs)],
         constants |-> Tys(cs), globals |-> Tys(program.globals),
         functions |-> [i \in DOMAIN program.functions |->
             [program.functions[i] EXCEPT !.params = Tys(@), !.ret = Ty(@),
                                          !.body = ResolveBlock(@, cache, cs)]]]
-----------------------------------------------------------------------------
(* The graph of structs, by position. *)
Dependencies(structs) ==
    [i \in DOMAIN structs |->
        FlattenSeq([f \in DOMAIN structs[i].fields |->
            SetToSeq({Position(structs, n) : n \in ElementStruct(structs[i].fields[f].ty) \cap Names(structs)})])]

(* First pass: depth first, a frame is a node and its next edge. *)
RECURSIVE FinishOrder(_, _, _, _)
FinishOrder(deps, stack, visited, finished) ==
    LET roots == DOMAIN deps \ visited IN
    IF stack = <<>>
    THEN IF roots = {} THEN finished
         ELSE FinishOrder(deps, <<<<Min(roots), 1>>>>, visited \cup {Min(roots)}, finished)
    ELSE LET node == Last(stack)[1]  edge == Last(stack)[2]
             advanced == Append(Front(stack), <<node, edge + 1>>)
         IN  IF edge > Len(deps[node]) THEN FinishOrder(deps, Front(stack), visited, Append(finished, node))
             ELSE IF deps[node][edge] \in visited THEN FinishOrder(deps, advanced, visited, finished)
             ELSE FinishOrder(deps, Append(advanced, <<deps[node][edge], 1>>),
                              visited \cup {deps[node][edge]}, finished)

Dependents(deps, i) == {j \in DOMAIN deps : i \in Range(deps[j])}
RECURSIVE Component(_, _, _)
Component(deps, component, visited) ==
    LET more == component \cup (UNION {Dependents(deps, i) : i \in component} \ visited)
    IN  IF more = component THEN component ELSE Component(deps, more, visited)

(* Second pass: components of the reversed graph, the last finished first. *)
RecursiveMembers(deps) ==
    LET Collect(acc, root) ==
            LET component == Component(deps, {root}, acc.visited) IN
            IF root \in acc.visited THEN acc
            ELSE [visited |-> acc.visited \cup component,
                  recursive |-> IF Cardinality(component) > 1 \/ root \in Range(deps[root])
                                THEN acc.recursive \cup component ELSE acc.recursive]
    IN  FoldLeft(Collect, [visited |-> {}, recursive |-> {}],
                 Reverse(FinishOrder(deps, <<>>, {}, <<>>))).recursive

RecursiveStructs(structs) == {structs[i].name : i \in RecursiveMembers(Dependencies(structs))}

(* Failed array lengths spread to every struct that contains them. *)
InvalidStructs(structs) ==
    LET own == {s.name : s \in {s \in Range(structs) : \E f \in Range(s.fields) : HasInvalidLength(f.ty)}}
    IN  {n \in Names(structs) : Reached({n}, structs) \cap own # {}}
ResolutionFailed(ty, structs) == HasInvalidLength(ty) \/ ElementStruct(ty) \cap InvalidStructs(structs) # {}
=============================================================================
