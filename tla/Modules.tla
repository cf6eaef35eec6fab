------------------------------- MODULE Modules -------------------------------
(* Loading the files of a program (src/modules.rs) and giving every name in  *)
(* them the name of its declaration in the flattened program                 *)
(* (src/modules/resolve.rs).  A name is a sequence: <<x>>, or <<alias, x>>   *)
(* in a source file and <<file, x>> once it is resolved.                     *)
(*                                                                           *)
(* disk.paths maps the paths that can be read to the files they stand for,   *)
(* disk.tokens a file to its tokens.                                         *)
EXTENDS Sema, Parser

CONSTANT MaxImportDepth   \* MAX_IMPORT_DEPTH

(* The loader: a module has height 0 until the imports of its file are done. *)
NewLoader == [modules |-> <<>>, active |-> <<>>, sources |-> {}, failed |-> FALSE, found |-> 0]
Unfinished(file) == [file |-> file, height |-> 0, imports |-> <<>>]
Loaded(l, file) == {i \in DOMAIN l.modules : l.modules[i].file = file}
Stop(l) == [l EXCEPT !.failed = TRUE]
Height(l, imports) == 1 + Max({l.modules[imports[i].target].height : i \in DOMAIN imports} \cup {0})

(* Deviation: a file that is already loaded counts as one. *)
KnownHeightFlat(l, file) == 1
KnownHeight(l, file) == Max({l.modules[i].height : i \in Loaded(l, file)} \cup {1})

RECURSIVE Visit(_, _, _)
Visit(l, path, disk) ==
    LET seen == [l EXCEPT !.sources = @ \cup {path}]
        file == disk.paths[path]
        index == Len(l.modules) + 1
        headers == ImportHeaders(disk.tokens[file])
        opened == [seen EXCEPT !.modules = Append(@, Unfinished(file)), !.active = Append(@, file)]
        VisitImport(at, import) ==
            LET visited == Visit(at, import.path, disk)
            IN  CASE at.failed -> at
                  [] import.alias \in {i.alias : i \in Range(at.modules[index].imports)} -> Stop(at)
                  [] visited.failed -> visited
                  [] OTHER -> [visited EXCEPT !.modules[index].imports =
                                  Append(@, [alias |-> import.alias, target |-> visited.found])]
        done == FoldLeft(VisitImport, opened, headers.v)
    IN  CASE path \notin DOMAIN disk.paths -> Stop(seen)
          [] file \in Range(l.active) -> Stop(seen)                      \* import cycle
          [] Len(l.active) + KnownHeight(l, file) > MaxImportDepth -> Stop(seen)
          [] Loaded(l, file) # {} -> [seen EXCEPT !.found = CHOOSE i \in Loaded(l, file) : TRUE]
          [] ~headers.s.ok -> Stop(seen)
          [] done.failed -> done
          [] OTHER -> [done EXCEPT !.modules[index].height = Height(done, done.modules[index].imports),
                                   !.active = Front(@), !.found = index]
-----------------------------------------------------------------------------
(* A resolver r is at one of the loaded modules.  What it cannot resolve it  *)
(* reports; the name that is left is no declaration's, so that the analysis  *)
(* rejects the program.                                                      *)
Unresolved == <<>>
Qualify(modules, i, name) == IF i = 1 THEN name ELSE <<modules[i].file>> \o name
Declares(modules, i) == Names(TopLevel(modules[i].program))
IsBuiltin(name) == name \in Names(Builtins) \cup DOMAIN Predefined

(* A name that is declared, or that the language predefines. *)
ResolveName(name, r, locals) ==
    LET targets == {i \in Range(r.modules[r.at].imports) : i.alias = name[1]}
        target == (CHOOSE i \in targets : TRUE).target
    IN  CASE name \in locals -> name
          [] name \notin locals /\ Len(name) = 2 ->
                IF targets # {} /\ <<name[2]>> \in Declares(r.modules, target)
                THEN Qualify(r.modules, target, <<name[2]>>) ELSE Unresolved
          [] name \notin locals /\ Len(name) = 1 ->
                IF name \in Declares(r.modules, r.at) THEN Qualify(r.modules, r.at, name)
                ELSE IF IsBuiltin(name) THEN name ELSE Unresolved

RECURSIVE ResolveTypeNames(_, _)
ResolveTypeNames(ty, r) ==
    CASE ty.k = "struct" -> StructOf(ResolveName(ty.name, r, {}))
      [] ty.k = "array" -> ArrayOf(ResolveTypeNames(ty.el, r),
                                   IF ty.n.k = "name" THEN LengthOf(ResolveName(ty.n.name, r, {})) ELSE ty.n)
      [] OTHER -> ty

RECURSIVE ResolveExpr(_, _, _)
ResolveExpr(e, r, locals) ==
    LET All(es) == [i \in DOMAIN es |-> ResolveExpr(es[i], r, locals)]
        Sub(x) == ResolveExpr(x, r, locals)
    IN  CASE e.k = "var" -> V(ResolveName(e.name, r, locals))
          [] e.k = "call" -> Call(ResolveName(e.name, r, {}), All(e.args))
          [] e.k = "new" -> New(ResolveName(e.name, r, {}),
                                [i \in DOMAIN e.fields |-> Named(e.fields[i].name, Sub(e.fields[i].e))])
          [] e.k = "list" -> Arr(All(e.es))
          [] e.k = "index" -> Ix(Sub(e.base), Sub(e.ix))
          [] e.k = "field" -> Fld(Sub(e.base), e.name)
          [] e.k = "unary" -> Un(e.op, Sub(e.e))
          [] e.k = "binary" -> Bin(Sub(e.l), e.op, Sub(e.r))
          [] e.k = "conv" -> Conv(e.to, All(e.args))
          [] OTHER -> e

(* Deviation: a variable is in scope in its own initializer. *)
InitializerScopeWithItself(locals, name) == locals \cup {name}
InitializerScope(locals, name) == locals

RECURSIVE ResolveStatements(_, _, _)
ResolveStatements(block, r, locals) ==
    LET Nested(b, scope) == ResolveStatements(b, r, scope)
        Next(acc, s) ==
            LET E(e) == ResolveExpr(e, r, acc.locals)
                done == CASE s.k = "let" -> Let(s.name, ResolveTypeNames(s.ty, r),
                                                ResolveExpr(s.e, r, InitializerScope(acc.locals, s.name)))
                          [] s.k = "assign" -> Assign(E(s.target), s.op, E(s.e))
                          [] s.k = "expr" -> Do(E(s.e))
                          [] s.k = "if" -> If(E(s.c), Nested(s.then, acc.locals),
                                              [i \in DOMAIN s.elses |-> Nested(s.elses[i], acc.locals)])
                          [] s.k = "while" -> While(E(s.c), Nested(s.body, acc.locals))
                          [] s.k = "for" -> For(s.name, E(s.lo), E(s.hi), Nested(s.body, acc.locals \cup {s.name}))
                          [] s.k = "return" -> Return([i \in DOMAIN s.es |-> E(s.es[i])])
            IN  [out |-> Append(acc.out, done),
                 locals |-> IF s.k = "let" THEN acc.locals \cup {s.name} ELSE acc.locals]
    IN  FoldLeft(Next, [out |-> <<>>, locals |-> locals], block).out

ResolveModule(modules, at) ==
    LET r == [modules |-> modules, at |-> at]
        p == modules[at].program
        Own(name) == Qualify(modules, at, name)
        Types(ds) == [i \in DOMAIN ds |-> Typed(ds[i].name, ResolveTypeNames(ds[i].ty, r))]
        Values(ds) == [i \in DOMAIN ds |-> Defined(Own(ds[i].name), ResolveTypeNames(ds[i].ty, r),
                                                   ResolveExpr(ds[i].e, r, {}))]
    IN  [structs |-> [i \in DOMAIN p.structs |-> Struct(Own(p.structs[i].name), Types(p.structs[i].fields))],
         constants |-> Values(p.constants), globals |-> Values(p.globals),
         functions |-> [i \in DOMAIN p.functions |->
             LET f == p.functions[i] IN
             Function(IF f.kind = "named" THEN Own(f.name) ELSE f.name, f.kind, Types(f.params),
                      ResolveTypeNames(f.ret, r), ResolveStatements(f.body, r, Names(f.params)))]]

NamespacesFit(modules) ==
    \A i \in DOMAIN modules :
        /\ Unique(TopLevel(modules[i].program))
        /\ \A name \in Declares(modules, i) : ~IsBuiltin(name)
        /\ \A j \in DOMAIN modules[i].imports :
              LET alias == <<modules[i].imports[j].alias>>
              IN  alias \notin Declares(modules, i) /\ ~IsBuiltin(alias)

(* load: the flattened program, the entry file's declarations first, and the *)
(* paths it was read from.                                                   *)
LoadModules(disk, entry) ==
    LET l == Visit(NewLoader, entry, disk)
        Tokens(i) == disk.tokens[l.modules[i].file]
        ImportedStructs(i) ==
            UNION {{<<import.alias, name>> : name \in DeclaredStructNames(Tokens(import.target))} :
                   import \in Range(l.modules[i].imports)}
        parsed == [i \in DOMAIN l.modules |-> ParseFile(Tokens(i), i = 1, ImportedStructs(i))]
        wellFormed == ~l.failed /\ \A i \in DOMAIN parsed : parsed[i].s.ok
        modules == [i \in DOMAIN l.modules |-> [file |-> l.modules[i].file, imports |-> l.modules[i].imports,
                                                program |-> parsed[i].v]]
        alone == Len(modules) = 1 /\ modules[1].imports = <<>>
        resolved == IF alone THEN <<modules[1].program>> ELSE [i \in DOMAIN modules |-> ResolveModule(modules, i)]
        All(field) == FlattenSeq([i \in DOMAIN resolved |-> resolved[i][field]])
    IN  [read |-> ~l.failed, parsed |-> wellFormed, ok |-> wellFormed /\ (alone \/ NamespacesFit(modules)),
         sources |-> l.sources, modules |-> [i \in DOMAIN l.modules |-> l.modules[i].file],
         program |-> IF ~wellFormed THEN <<>> ELSE [k \in {"structs", "constants", "globals", "functions"} |-> All(k)]]
=============================================================================
