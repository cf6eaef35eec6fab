----------------------------- MODULE MCCompiler -----------------------------
(* Small programs for the compiler: expressions and statements in a game     *)
(* with a bit of everything, declarations that depend on each other, import  *)
(* graphs, and names that are declared in several places.  And graphs for    *)
(* the compiler's searches, each run by itself.                              *)
EXTENDS CompilerProperties, Searches

VARIABLES expected,  \* the flattened program, where it is known beforehand
          focus      \* what runs: "compiler", "structs", "constants", "imports"

programVars == <<compilerVars, written, expected>>
mcVars == <<programVars, focus, searchVars, scheduleVars, walkVars>>

PredefinedValues == (<<"SCREEN_W">> :> Num(2))
PrintBuiltin == <<[name |-> <<"print_i32">>, params |-> <<Typed(<<"v">>, I32)>>, ret |-> Void]>>

Var(s) == V(<<s>>)
Invoke(s, args) == Call(<<s>>, args)
Member(e, s) == Fld(e, <<s>>)
Show(e) == Do(Invoke("print_i32", <<e>>))
Minus(e) == Un("-", e)
Smallest32 == Minus(N(MaxInt + 1))
Pair == ArrayOf(I32, LengthIs(2))
Point == StructOf(<<"P">>)
PointOf(xs, n) == New(<<"P">>, <<Named(<<"xs">>, xs), Named(<<"n">>, n)>>)   \* not in the order of the fields

Hook(kind, body) == Function(<<kind>>, kind, IF kind = "update" THEN <<Typed(<<"dt">>, F32)>> ELSE <<>>, Void, body)
Hooked(body) == <<Hook("start", body), Hook("update", <<>>), Hook("draw", <<>>)>>
Fn(name, params, ret, body) == Function(<<name>>, "named", params, ret, body)
Program(structs, constants, globals, functions) ==
    [structs |-> structs, constants |-> constants, globals |-> globals, functions |-> functions]
Import(alias, path) == [alias |-> alias, path |-> path]
File(imports, program) == [imports |-> imports, program |-> program]
(* The files as they are written; a further path leads to one of them. *)
OnDisk(files, links) ==
    /\ written = files
    /\ disk = [paths |-> [path \in DOMAIN files \cup DOMAIN links |->
                            IF path \in DOMAIN links THEN links[path] ELSE path],
               tokens |-> [file \in DOMAIN files |->
                             WriteFile(files[file].imports, files[file].program, file = Entry)]]

SomeConstants == <<Defined(<<"K">>, Pair, Arr(<<Var("C"), N(3)>>)), Defined(<<"C">>, I32, N(1))>>
(* A game with a struct, constants, globals and functions with effects. *)
Game(start, g0, globals, functions) == Program(
    <<Struct(<<"P">>, <<Typed(<<"n">>, I32), Typed(<<"xs">>, Pair)>>)>>,
    SomeConstants,
    <<Defined(<<"g">>, I32, g0), Defined(<<"h">>, F32, X(10)), Defined(<<"ok">>, Bool, T(TRUE)),
      Defined(<<"arr">>, Pair, Arr(<<N(1), N(2)>>)),
      Defined(<<"p">>, Point, PointOf(Arr(<<N(2), Var("C")>>), N(1)))>> \o globals,
    Hooked(start) \o <<
      Fn("f", <<Typed(<<"x">>, I32)>>, I32, <<Assign(Var("g"), "+", Var("x")), Show(Var("g")), Return(<<Var("g")>>)>>),
      Fn("t", <<Typed(<<"x">>, Bool)>>, Bool, <<Show(N(3)), Return(<<Var("x")>>)>>),
      Fn("q", <<Typed(<<"x">>, I32)>>, Point,
         <<Show(Var("x")), Return(<<PointOf(Arr(<<Var("x"), Var("g")>>), Var("x"))>>)>>),
      Fn("r", <<>>, Pair, <<Assign(Var("g"), "-", N(1)), Return(<<Arr(<<Var("g"), N(0)>>)>>)>>)>> \o functions)
Start(program) == OnDisk("game" :> File(<<>>, program), <<>>) /\ expected = Undef
Plain(start, g0) == Game(start, g0, <<>>, <<>>)

Effect == Invoke("f", <<N(1)>>)
Starts == {N(0), N(1), N(MaxInt), Smallest32, Minus(N(1))}
IntAtoms ==
    {N(0), N(MaxInt), Var("g"), Var("C"), Smallest32, Minus(Var("g")), Effect,
     Ix(Var("arr"), Var("g")), Ix(Var("K"), Var("g")), Ix(Invoke("r", <<>>), Var("g")),
     Ix(Member(Var("p"), "xs"), Effect), Ix(Member(Invoke("q", <<N(2)>>), "xs"), N(1)),
     Member(Var("p"), "n"), Member(Invoke("q", <<Effect>>), "n"), Conv(I32, <<Var("h")>>),
     Member(PointOf(Arr(<<Effect, N(0)>>), Effect), "n")}
RightAtoms ==
    {N(0), Minus(N(1)), Var("g"), Smallest32, Effect, Ix(Var("arr"), Var("g")), Ix(Invoke("r", <<>>), Var("g"))}
IntExprs == IntAtoms \cup {Bin(a, op, b) : a \in IntAtoms, b \in RightAtoms, op \in Arithmetic}
FloatAtoms == {X(0), X(1), X(8), X(10), Var("h"), Minus(Var("h")), Conv(F32, <<Var("g")>>)}
FloatExprs == {Bin(a, op, b) : a, b \in FloatAtoms, op \in Arithmetic \ {"%"}}
Comparisons == Orderings \cup {"==", "!="}
BoolAtoms ==
    {Var("ok"), Invoke("t", <<T(FALSE)>>), Un("!", Var("ok")), Bin(Effect, "<", Ix(Var("arr"), Var("g"))),
     Bin(Bin(N(1), "%", Var("g")), "==", N(0)), Bin(Var("ok"), "!=", Invoke("t", <<T(TRUE)>>)),
     Bin(Conv(I32, <<Bin(Var("h"), "/", X(0))>>), ">=", Var("g"))}
FewBools == {Var("ok"), Invoke("t", <<T(FALSE)>>), Bin(Bin(N(1), "%", Var("g")), "==", N(0))}
BoolExprs ==
    {Bin(a, op, b) : a, b \in BoolAtoms, op \in Logical}
        \cup {Bin(a, "&&", Bin(b, "||", c)) : a, b \in BoolAtoms, c \in FewBools}
        \cup {Bin(a, "||", Bin(b, "&&", c)) : a, b \in FewBools, c \in BoolAtoms}
        \cup {Bin(Bin(a, "&&", b), "||", c) : a, b, c \in FewBools} \cup {Bin(Bin(a, "||", b), "&&", c) : a, b, c \in FewBools}
        \cup {Bin(a, op, b) : a, b \in {X(1), Var("h"), Bin(X(0), "/", X(0)), Bin(X(1), "/", X(0))}, op \in Comparisons}
(* Operands whose types do not fit, and indices known to be outside. *)
MixedAtoms == {Var("g"), Var("h"), Var("ok"), Var("p"), Var("arr"), Invoke("print_i32", <<Var("g")>>),
               Ix(Var("arr"), N(2)), Ix(Var("K"), Var("C")), Invoke("f", <<Var("h")>>)}
MixedExprs == {Bin(a, op, b) : a, b \in MixedAtoms, op \in {"+", "%", "<", "==", "&&"}}
                 \cup {Un(op, a) : a \in MixedAtoms, op \in {"-", "!"}}
                 \cup {Conv(ty, <<a>>) : a \in MixedAtoms, ty \in {I32, F32}}
ExpressionPrograms ==
    \/ \E e \in IntExprs, g0 \in {N(0), Smallest32} : Start(Plain(<<Assign(Var("g"), "=", e)>>, g0))
    \/ \E e \in FloatExprs : Start(Plain(<<Assign(Var("h"), "=", e)>>, N(0)))
    \/ \E e \in BoolExprs, g0 \in {N(0), N(1)} : Start(Plain(<<Assign(Var("ok"), "=", e)>>, g0))
    \/ \E e \in MixedExprs, to \in {"g", "ok"} : Start(Plain(<<Assign(Var(to), "=", e)>>, N(1)))

(* Statements. *)
Places == {Var("g"), Ix(Var("arr"), Var("g")), Ix(Member(Var("p"), "xs"), Effect), Member(Var("p"), "n"), Var("C"),
           Ix(Var("K"), N(0)), Ix(Invoke("r", <<>>), N(0))}
Values == {Effect, N(0), Minus(N(1)), Ix(Invoke("r", <<>>), Var("g"))}
WholeAssignments ==
    {Assign(Var("arr"), "=", e) : e \in {Arr(<<Effect, Effect>>), Arr(<<Effect>>), Invoke("r", <<>>), Var("K")}}
        \cup {Assign(Var("p"), "=", e) : e \in {PointOf(Arr(<<Effect, Var("g")>>), Effect), Invoke("q", <<Effect>>),
                                                PointOf(Var("arr"), Ix(Var("arr"), Var("g"))), Arr(<<N(1)>>)}}
        \cup {Assign(Member(Var("p"), "xs"), "=", Invoke("r", <<>>)), Assign(Var("p"), "+", Var("p"))}
Conditions == {Var("ok"), Un("!", Var("ok")), Bin(Var("g"), "<", N(2)), Bin(Effect, "<", N(3))}
Bodies ==
    {<<Show(Var("i"))>>, <<Assign(Var("g"), "+", N(1)), Let(<<"w">>, I32, Var("g")), Show(Var("w"))>>,
     <<Show(N(0)), Return(<<>>), Show(N(1))>>, <<Assign(Var("i"), "+", N(1))>>,
     <<If(Bin(Var("g"), "==", N(2)), <<Return(<<>>)>>, <<>>), Assign(Var("g"), "=", N(2))>>,
     <<Let(<<"i">>, I32, Bin(Var("i"), "*", N(2))), Show(Var("i"))>>}
Bounds == {N(0), N(2), Var("g"), Effect, Smallest32}
(* A variable i around the statement: a nested one hides it and ends. *)
Within(s) == <<Let(<<"i">>, I32, N(2)), s, Assign(Var("g"), "=", Var("i"))>>
Returning == {<<>>, <<Return(<<N(1)>>)>>, <<Return(<<>>)>>, <<Return(<<Var("ok")>>)>>,
              <<If(Var("ok"), <<Return(<<N(1)>>)>>, <<>>)>>}
Nest(c, a, b) == If(c, a, <<b>>)
FunctionBodies ==
    {<<Nest(c, a, b)>> : c \in {Var("x"), Un("!", Var("x"))}, a, b \in Returning}
        \cup {<<Nest(Var("x"), a, b), Show(N(2))>> \o a : a, b \in Returning}
        \cup {<<While(Var("x"), a)>> \o b : a, b \in Returning}
        \cup {<<If(Var("x"), a, <<>>)>> \o b : a, b \in Returning}
StatementPrograms ==
    \/ \E place \in Places, op \in Arithmetic \cup {"="}, e \in Values, g0 \in {N(0), N(1), Smallest32} :
          Start(Plain(<<Assign(place, op, e)>>, g0))
    \/ \E s \in WholeAssignments, g0 \in {N(0), N(1)} : Start(Plain(<<s, Show(Member(Var("p"), "n"))>>, g0))
    \/ \E c \in Conditions, a, b \in Bodies : Start(Plain(Within(Nest(c, a, b)), N(0)))
    \/ \E c \in Conditions, a \in Bodies, g0 \in {N(0), N(2)} : Start(Plain(Within(While(c, a)), g0))
    \/ \E lo, hi \in Bounds, a \in Bodies, g0 \in {N(0), N(1)} : Start(Plain(Within(For(<<"i">>, lo, hi, a)), g0))
    \/ \E body \in FunctionBodies, ok \in BOOLEAN :
          Start(Game(<<Assign(Var("g"), "=", Invoke("w", <<T(ok)>>))>>, N(0), <<>>,
                     <<Fn("w", <<Typed(<<"x">>, Bool)>>, I32, body)>>))

(* Variables with the name of the struct P, where a brace follows them, and  *)
(* programs that nest up to the limit and beyond.                            *)
P == Var("P")
Silent == Show(N(1))
Brace(c) == <<If(c, <<Silent>>, <<>>), Assign(Var("g"), "=", N(1))>>
BraceConditions == {P, Un("!", P), Bin(P, "&&", P), Bin(Var("ok"), "||", P), Ix(Arr(<<P>>), N(0)), Invoke("t", <<P>>)}
Build(Over(_), e, n) == LET up[k \in 0..n] == IF k = 0 THEN e ELSE Over(up[k - 1]) IN up[n]
Deep(n) ==
    {Build(LAMBDA e : Minus(e), Var("g"), n), Build(LAMBDA e : Bin(e, "-", Var("g")), Var("g"), n),
     Build(LAMBDA e : Bin(Var("g"), "-", e), Var("g"), n), Build(LAMBDA e : Minus(Bin(e, "*", N(1))), Var("g"), n),
     Build(LAMBDA e : Invoke("f", <<e>>), N(0), n), Build(LAMBDA e : Ix(Var("arr"), e), N(0), n),
     Build(LAMBDA e : Ix(Arr(<<e>>), N(0)), N(0), n), Build(LAMBDA e : Member(PointOf(Var("arr"), e), "n"), N(0), n),
     Build(LAMBDA e : Conv(I32, <<Conv(F32, <<e>>)>>), N(0), n), Build(LAMBDA e : Bin(e, "+", Bin(Var("g"), "*", e)), N(0), n)}
ShapePrograms ==
    \/ \E c \in BraceConditions :
          \/ Start(Plain(<<If(T(TRUE), <<Let(<<"P">>, Bool, T(TRUE))>> \o Brace(c), <<>>),
                            Assign(Var("p"), "=", PointOf(Var("arr"), N(3))), Let(<<"P">>, Bool, T(TRUE)), While(c, <<Return(<<>>)>>)>>, N(0)))
          \/ Start(Game(<<Do(Invoke("w", <<T(TRUE)>>))>>, N(0), <<>>, <<Fn("w", <<Typed(<<"P">>, Bool)>>, Void, Brace(c))>>))
    \/ \E c \in {Bin(P, "<", P), Bin(N(1), "<", P)} :
          Start(Plain(<<For(<<"P">>, N(0), N(2), Brace(c) \o <<For(<<"i">>, N(0), P, <<Silent>>)>>),
                        Let(<<"P">>, Point, PointOf(Var("arr"), N(2))), For(<<"i">>, N(0), Member(P, "n"), <<Silent>>)>>, N(0)))
    \/ \E n \in 0..MaxNesting : \E e \in Deep(n) : Start(Plain(<<Assign(Var("g"), "=", e)>>, N(0)))
    \/ \E n \in 0..MaxNesting : Start(Plain(<<Build(LAMBDA s : If(Var("ok"), <<s>>, <<<<Silent>>>>), Silent, n)>>, N(0)))
    \/ \E n \in 0..MaxNesting :
          Start(Game(<<Let(<<"w">>, Build(LAMBDA ty : ArrayOf(ty, LengthIs(1)), I32, n), Build(LAMBDA e : Arr(<<e>>), N(1), n))>>,
                     N(0), <<>>, <<>>))

(* A constant expression, folded and computed. *)
FoldInts == {N(0), N(1), N(MaxInt), Smallest32, Var("C"), Ix(Var("K"), N(1)), Minus(N(2))}
                \cup {Conv(I32, <<X(f)>>) : f \in {1, 7, 8, 10}} \cup {Conv(I32, <<Minus(X(f))>>) : f \in {3, 8, 10}}
FoldFloats == {X(0), X(1), X(5), X(10), Minus(X(10)), Conv(F32, <<Smallest32>>)}
FoldBools == {T(TRUE), Un("!", T(TRUE)), Bin(N(1), "==", Bin(N(1), "/", N(0)))}
Folded(ty, e, zero) ==
    Start(Program(<<>>, SomeConstants, <<Defined(<<"folded">>, ty, e), Defined(<<"computed">>, ty, zero)>>,
                  Hooked(<<Assign(Var("computed"), "=", e)>>)))
FoldPrograms ==
    \/ \E a, b \in FoldInts, op \in Arithmetic : Folded(I32, Bin(a, op, b), N(0))
    \/ \E a, b \in FoldFloats, op \in Arithmetic \ {"%"} :
          \/ Folded(F32, Bin(a, op, b), X(0))
          \/ Folded(I32, Conv(I32, <<Bin(a, op, b)>>), N(0))
    \/ \E a, b \in FoldFloats, op \in Comparisons : Folded(Bool, Bin(a, op, b), T(TRUE))
    \/ \E a, b \in FoldInts, op \in {"<=", "!="} : Folded(Bool, Bin(a, op, b), T(TRUE))
    \/ \E a, b \in FoldBools, op \in Logical \cup {"==", "!="} : Folded(Bool, Bin(a, op, b), T(FALSE))

(* Constants that need each other, as values and as lengths. *)
Scalars(names) == {<<I32, e>> : e \in {N(1), N(0)} \cup {Var(c) : c \in names} \cup {Bin(Var(c), "+", N(1)) : c \in names}
                                        \cup {Ix(Var(c), N(0)) : c \in names}}
Arrays(names) == {<<ArrayOf(I32, LengthOf(<<c>>)), Arr(<<e>>)>> : c \in names, e \in {N(2)} \cup {Var(d) : d \in names}}
DeclarationProgram(structs, constants) == Start(Program(structs, constants, <<>>, Hooked(<<>>)))
Constant(name, d) == Defined(<<name>>, d[1], d[2])
Nested == ArrayOf(ArrayOf(I32, LengthIs(1)), LengthIs(1))
ConstantPrograms ==
    \/ \E a, b \in Scalars({"A", "B", "D"}) \cup Arrays({"A", "B"}), d \in Scalars({"A", "B"}) :
          DeclarationProgram(<<>>, <<Constant("A", a), Constant("B", b), Constant("D", d)>>)
    \/ \E inner \in {Var("B"), Arr(<<Arr(<<N(1)>>)>>)} :
          DeclarationProgram(<<>>, <<Defined(<<"A">>, ArrayOf(Nested, LengthIs(1)), Arr(<<inner>>)),
                                     Defined(<<"B">>, Nested, Arr(<<Arr(<<N(1)>>)>>))>>)
    \/ \E length \in {N(1), Var("B"), Ix(Member(Var("Q"), "xs"), N(0)), Member(Var("Q"), "n")}, b \in {N(1), Var("A"), Member(Var("Q"), "n")} :
          DeclarationProgram(<<Struct(<<"S">>, <<Typed(<<"n">>, I32), Typed(<<"xs">>, ArrayOf(I32, LengthOf(<<"A">>)))>>)>>,
              <<Defined(<<"Q">>, StructOf(<<"S">>), New(<<"S">>, <<Named(<<"xs">>, Arr(<<N(1)>>)), Named(<<"n">>, Var("B"))>>)),
                Defined(<<"A">>, I32, length), Defined(<<"B">>, I32, b)>>)

(* Structs that contain each other, some through arrays. *)
Fields(targets) == [k \in DOMAIN targets |-> Typed(<<IF k = 1 THEN "m" ELSE "n">>, targets[k])]
FieldTypes == {StructOf(<<"S">>), StructOf(<<"T">>), ArrayOf(StructOf(<<"U">>), LengthIs(1))}
StructPrograms ==
    \E a, b, c \in UNION {[1..k -> FieldTypes] : k \in 0..2} :
        DeclarationProgram(<<Struct(<<"S">>, Fields(a)), Struct(<<"T">>, Fields(b)), Struct(<<"U">>, Fields(c))>>, <<>>)

(* Import graphs.  "link" is another path to c, "gone" cannot be read. *)
NoDeclarations == Program(<<>>, <<>>, <<>>, <<>>)
Importing(paths) == [k \in DOMAIN paths |-> Import(paths[k], paths[k])]
UpToTwo(paths) == {Importing(<<>>)} \cup {Importing(<<a>>) : a \in paths}
                     \cup {Importing(ab) : ab \in {ab \in paths \X paths : ab[1] # ab[2]}}
SameAlias == <<Import("m", "c"), Import("m", "d")>>
GraphPrograms ==
    \E game \in UpToTwo({"b", "c", "d"}), b \in UpToTwo({"game", "c", "d", "link", "gone"}) \cup {SameAlias},
       c \in UpToTwo({"b", "d", "c"}), d \in UpToTwo({"b"}) :
        /\ expected = Undef
        /\ OnDisk([f \in {"game", "b", "c", "d"} |->
                      CASE f = "game" -> File(game, Program(<<>>, <<>>, <<>>, Hooked(<<>>)))
                        [] f = "b" -> File(b, NoDeclarations) [] f = "c" -> File(c, NoDeclarations)
                        [] f = "d" -> File(d, NoDeclarations)],
                  "link" :> "c")

(* One name, used at one place of a function of the game or of its library.  *)
(* The library imports base as b, the game the library as b.                 *)
Uses == {<<"x">>, <<"y">>, <<"b", "x">>, <<"b", "z">>, <<"SCREEN_W">>}
Home(file, name) ==
    CASE name = <<"SCREEN_W">> -> name
      [] name = <<"x">> -> IF file = "game" THEN name ELSE <<"lib", "x">>
      [] name = <<"y">> -> IF file = "game" THEN name ELSE Unresolved
      [] name = <<"b", "x">> -> IF file = "game" THEN <<"lib", "x">> ELSE <<"base", "x">>
      [] name = <<"b", "z">> -> IF file = "game" THEN Unresolved ELSE <<"base", "z">>
(* The variables that a place of the function can see. *)
Visible(place, l) ==
    CASE place = "first" -> {l.param} [] place = "nested" -> {l.param, l.a, l.b} [] place = "body" -> {l.param, l.a, l.i}
      [] place \in {"inner", "lower", "upper", "last"} -> {l.param, l.a} [] place = "length" -> {}
UsingFunction(name, l, global, place, used) ==
    LET Use(here) == IF here = place THEN V(used) ELSE N(1)
        length == IF place = "length" THEN LengthOf(used) ELSE LengthIs(1)
        Put(here) == Assign(V(global), "=", Use(here))
    IN  Function(name, "named", <<Typed(l.param, I32)>>, Void,
            <<Let(l.a, I32, Use("first")), If(T(TRUE), <<Let(l.b, I32, Use("inner")), Put("nested")>>, <<>>),
              For(l.i, Use("lower"), Use("upper"), <<Put("body")>>), Put("last"),
              Let(<<"xs">>, ArrayOf(I32, length), Arr(<<N(1)>>))>>)
Declaring(names) == [k \in DOMAIN names |-> Defined(names[k], I32, N(1))]
NamePrograms ==
    \E user \in {"game", "lib"}, used \in Uses, param, a, b, i \in {<<"x">>, <<"v">>},
       place \in {"first", "inner", "nested", "lower", "upper", "body", "last", "length"} :
        LET l == [param |-> param, a |-> a, b |-> b, i |-> i]
            home == IF used \in Visible(place, l) THEN used ELSE Home(user, used)
            Act(file, name, global, target) ==
                IF file = user THEN UsingFunction(name, l, global, place, target)
                ELSE UsingFunction(name, l, global, "none", target)
        IN  /\ OnDisk([f \in {"game", "lib", "base"} |->
                         CASE f = "game" -> File(<<Import("b", "lib")>>,
                                Program(<<>>, <<>>, Declaring(<<<<"x">>, <<"y">>, <<"k">>>>),
                                        Hooked(<<>>) \o <<Act("game", <<"act">>, <<"k">>, used)>>))
                           [] f = "lib" -> File(<<Import("b", "base")>>,
                                Program(<<>>, Declaring(<<<<"x">>>>), Declaring(<<<<"k">>>>),
                                        <<Act("lib", <<"act">>, <<"k">>, used)>>))
                           [] f = "base" -> File(<<>>, Program(<<>>, Declaring(<<<<"x">>, <<"z">>>>), <<>>, <<>>))], <<>>)
            /\ expected = [found |-> home # Unresolved, program |-> Program(<<>>, Declaring(<<<<"lib", "x">>, <<"base", "x">>, <<"base", "z">>>>),
                   Declaring(<<<<"x">>, <<"y">>, <<"k">>, <<"lib", "k">>>>),
                   Hooked(<<>>) \o <<Act("game", <<"act">>, <<"k">>, home),
                                      Act("lib", <<"lib", "act">>, <<"lib", "k">>, home)>>)]

(* NamesStayHome: in the flattened program every name is the variable that   *)
(* is visible at its place, or else the declaration of the file it is written*)
(* in or of the file its alias imports; a name that has none is rejected,    *)
(* and never becomes the entry file's.                                       *)
NamesStayHome ==
    expected # Undef =>
        /\ stage # "files" => loaded.read /\ loaded.program = expected.program
        /\ stage \notin {"files", "loaded", "rejected"} => expected.found

(* Graphs of three or four structs; three constants and a name that is not   *)
(* declared, or that the language predefines; four files.                    *)
SomeGraphs == [1..3 -> {<<>>, <<2>>, <<3>>, <<1, 2>>, <<3, 1>>}] \cup [1..4 -> {<<>>, <<3, 4>>, <<4, 1>>}]
SomeUses == {("A" :> a) @@ ("B" :> b) @@ ("D" :> d) @@ ("x" :> <<>>) :
                a, b, d \in {<<>>, <<"B">>, <<"A", "D">>, <<"D", "x">>}}
SomeImports == {("game" :> game) @@ ("b" :> b) @@ ("c" :> c) @@ ("d" :> d) :
                   game \in {<<"b">>, <<"b", "c">>, <<"c", "b">>}, b \in {<<>>, <<"c">>, <<"c", "d">>, <<"game">>},
                   c \in {<<>>, <<"d">>, <<"d", "b">>}, d \in {<<>>, <<"b">>, <<"d">>}}
StructGraphs == {<<>>} \cup SomeGraphs
ConstantGraphs == {<<>>} \cup SomeUses
FileGraphs == {"game" :> <<>>} \cup SomeImports

CompilerPrograms ==
    \/ ExpressionPrograms \/ StatementPrograms \/ ShapePrograms \/ FoldPrograms
    \/ ConstantPrograms \/ StructPrograms \/ GraphPrograms \/ NamePrograms
(* What does not run has the smallest input. *)
Init ==
    /\ focus \in {"compiler", "structs", "constants", "imports"}
    /\ stage = "files" /\ loaded = Undef /\ checked = Undef /\ code = Undef /\ outcome = Undef
    /\ IF focus = "compiler" THEN CompilerPrograms ELSE Start(Plain(<<>>, N(0)))
    /\ focus = "structs" \/ graph = <<>>
    /\ SearchInit
    /\ focus = "constants" \/ uses = <<>>
    /\ ScheduleInit
    /\ focus = "imports" \/ importGraph = ("game" :> <<>>)
    /\ focus = "imports" \/ broken = {}
    /\ WalkInit
Next ==
    /\ UNCHANGED <<written, expected, focus>>
    /\ \/ focus = "compiler" /\ CompilerNext /\ UNCHANGED <<searchVars, scheduleVars, walkVars>>
       \/ focus = "structs" /\ SearchNext /\ UNCHANGED <<compilerVars, scheduleVars, walkVars>>
       \/ focus = "constants" /\ ScheduleNext /\ UNCHANGED <<compilerVars, searchVars, walkVars>>
       \/ focus = "imports" /\ WalkNext /\ UNCHANGED <<compilerVars, searchVars, scheduleVars>>
Spec == Init /\ [][Next]_mcVars
=============================================================================
