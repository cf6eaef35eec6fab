------------------------------ MODULE Language ------------------------------
(* The abstract specification of the compiler: what a checked program means, *)
(* as docs/language.md defines it.  It never looks at the emitted code.  The *)
(* state st holds the globals, the local scopes, the calls of builtins so    *)
(* far, and whether the program still runs.                                  *)
EXTENDS Machine

CONSTANT LanguageFuel   \* bound on statements and expressions

Res(st, v) == [st |-> st, v |-> v]
Ends(st, status, v) == [st EXCEPT !.status = status, !.value = v]
Trap(st, hook, values) == Res(Ends(st, hook, ArrayValue(I32, values)), Undef)
Running(st) == st.status = "running"

(* Variables: the innermost local, then a global, then a constant. *)
Locals(st) == FlattenSeq(st.scopes)
LocalScope(st, name) == Max({i \in DOMAIN st.scopes : name \in Names(st.scopes[i])})
Holds(st, name) == name \in Names(Locals(st))
Contents(st, name) ==
    CASE Holds(st, name) -> Declared(st.scopes[LocalScope(st, name)], name).v
      [] ~Holds(st, name) /\ name \in DOMAIN st.globals -> st.globals[name]
      [] OTHER -> st.program.values[name]
Update(st, place, v) ==
    LET new == WritePath(Contents(st, place.name), place.path, v)
        level == LocalScope(st, place.name)
    IN  IF Holds(st, place.name)
        THEN [st EXCEPT !.scopes[level][Position(st.scopes[level], place.name)].v = new]
        ELSE [st EXCEPT !.globals[place.name] = new]
BindLocal(st, name, v) ==
    [st EXCEPT !.scopes = Append(Front(@), Append(Last(@), [name |-> name, v |-> v]))]
StructFields(st, name) == Declared(st.program.program.structs, name).fields

Inside(st, index, length) == 0 <= index.i /\ index.i < length

(* Arithmetic at run time: i32 wraps, invalid division stops the program,    *)
(* f32 follows IEEE 754 with ordered comparisons.                            *)
Apply(st, l, op, r) ==
    CASE l.k = "i32" /\ op \in {"/", "%"} /\ (r.i = 0 \/ (l.i = MinInt /\ r.i = -1)) ->
            Trap(st, IF op = "/" THEN "division_fail" ELSE "remainder_fail", <<l, r>>)
      [] l.k = "i32" /\ op \in Arithmetic
            /\ ~(op \in {"/", "%"} /\ (r.i = 0 \/ (l.i = MinInt /\ r.i = -1))) ->
            Res(st, Num(Wrap(Integer(op, l.i, r.i))))
      [] l.k = "f32" /\ op \in Arithmetic -> Res(st, Flt(Float(op, l.f, r.f)))
      [] l.k = "i32" /\ op \notin Arithmetic -> Res(st, Truth(Compare(op, l.i, r.i)))
      [] l.k = "f32" /\ op \notin Arithmetic -> Res(st, Truth(NaN \notin {l.f, r.f} /\ Compare(op, l.f, r.f)))
      [] l.k = "bool" -> Res(st, Truth((l.b = r.b) = (op = "==")))

Saturated(x) == IF x = NaN THEN 0 ELSE Max({MinInt, Min({MaxInt, Quotient(x, 2)})})
Converted(to, v) ==
    CASE to = TypeOf(v) -> v [] to = F32 -> Flt(2 * v.i) [] OTHER -> Num(Saturated(v.f))

RECURSIVE ValueOf(_, _, _)
RECURSIVE RunBlock(_, _, _)
RECURSIVE CallFunction(_, _, _)

(* Expressions evaluated one after the other, each at its declared type. *)
RECURSIVE ValuesOf(_, _, _)
ValuesOf(st, es, wants) ==
    IF es = <<>> THEN Res(st, <<>>)
    ELSE LET first == ValueOf(st, Head(es), Head(wants))
             rest == ValuesOf(first.st, Tail(es), Tail(wants))
         IN  Res(rest.st, <<first.v>> \o rest.v)

(* A place: the variable and the checked path into it. *)
IsPlace(e) == e.k \in {"var", "index", "field"}
RECURSIVE HasPlace(_, _)
HasPlace(st, e) == IF e.k = "var" THEN Holds(st, e.name) \/ e.name \in DOMAIN st.globals
                                       \/ Aggregate(st.program.values[e.name])
                   ELSE e.k \in {"index", "field"} /\ HasPlace(st, e.base)
RECURSIVE Locate(_, _)
Locate(st, e) ==
    IF e.k = "var" THEN Res(st, [name |-> e.name, path |-> <<>>])
    ELSE LET base == Locate(st, e.base)
             place == base.v
             whole == ReadPath(Contents(base.st, place.name), place.path)
             index == ValueOf(base.st, e.ix, I32)
             field == Position(StructFields(base.st, whole.name), e.name) - 1
         IN  CASE ~Running(base.st) -> base
               [] e.k = "field" -> Res(base.st, [place EXCEPT !.path = Append(@, field)])
               [] ~Running(index.st) -> Res(index.st, place)
               [] Inside(index.st, index.v, Len(whole.vs)) ->
                     Res(index.st, [place EXCEPT !.path = Append(@, index.v.i)])
               [] OTHER -> Res(Trap(index.st, "bounds_fail", <<index.v>>).st, place)

EvalField(st, e) ==
    LET base == ValueOf(st, e.base, Untyped)
    IN  IF ~Running(base.st) THEN base
        ELSE Res(base.st, base.v.vs[Position(StructFields(base.st, base.v.name), e.name)])

EvalIndex(st, e) ==
    LET base == ValueOf(st, e.base, Untyped)
        index == ValueOf(base.st, e.ix, I32)
    IN  CASE ~Running(index.st) -> index
          [] Inside(index.st, index.v, Len(base.v.vs)) -> Res(index.st, base.v.vs[index.v.i + 1])
          [] OTHER -> Trap(index.st, "bounds_fail", <<index.v>>)

(* Initializers run in the order they are written. *)
EvalStruct(st, e) ==
    LET fields == StructFields(st, e.name)
        all == ValuesOf(st, Operands(e), [i \in DOMAIN e.fields |-> Declared(fields, e.fields[i].name).ty])
    IN  Res(all.st, StructValue(e.name, [i \in DOMAIN fields |-> all.v[Position(e.fields, fields[i].name)]]))

EvalBinary(st, e) ==
    LET l == ValueOf(st, e.l, Untyped)
        r == ValueOf(l.st, e.r, Untyped)
    IN  CASE ~Running(l.st) \/ (e.op \in Logical /\ l.v = Truth(e.op = "||")) -> l
          [] e.op \in Logical \/ ~Running(r.st) -> r
          [] OTHER -> Apply(r.st, l.v, e.op, r.v)

EvalCall(st, e) ==
    LET f == Declared(Builtins \o NamedFunctions(st.program.program), e.name)
        args == ValuesOf(st, e.args, [i \in DOMAIN e.args |-> f.params[i].ty])
    IN  CASE ~Running(args.st) -> args
          [] e.name \in Names(Builtins) ->
                Res([args.st EXCEPT !.trace = Append(@, <<e.name, args.v>>)], Undef)
          [] OTHER -> CallFunction(args.st, f, args.v)

EvalUnary(st, e) ==
    LET x == ValueOf(st, e.e, Untyped)
    IN  CASE Smallest(e) -> Res(st, Num(MinInt))
          [] ~Running(x.st) -> x
          [] e.op = "!" -> Res(x.st, Truth(~x.v.b))
          [] x.v.k = "i32" -> Res(x.st, Num(Wrap(-x.v.i)))
          [] OTHER -> Res(x.st, Flt(FloatNegate(x.v.f)))

ValueOf(st0, e, want) ==
    LET st == [st0 EXCEPT !.fuel = @ - 1]
        place == Locate(st, e)
        inner == ValueOf(st, e.args[1], Untyped)
    IN  CASE ~Running(st0) -> Res(st0, Undef)
          [] st0.fuel = 0 -> Res(Ends(st0, "fuel", Undef), Undef)
          [] e.k = "int" -> Res(st, Num(e.i))
          [] e.k = "float" -> Res(st, Flt(e.f))
          [] e.k = "truth" -> Res(st, Truth(e.b))
          [] e.k = "var" -> Res(st, Contents(st, e.name))
          [] e.k \in {"index", "field"} /\ HasPlace(st, e) ->
                IF ~Running(place.st) THEN place
                ELSE Res(place.st, ReadPath(Contents(place.st, place.v.name), place.v.path))
          [] e.k = "index" /\ ~HasPlace(st, e) -> EvalIndex(st, e)
          [] e.k = "field" /\ ~HasPlace(st, e) -> EvalField(st, e)
          [] e.k = "list" ->
                LET all == ValuesOf(st, e.es, [i \in DOMAIN e.es |-> want.el])
                IN  Res(all.st, ArrayValue(want.el, all.v))
          [] e.k = "new" -> EvalStruct(st, e)
          [] e.k = "unary" -> EvalUnary(st, e)
          [] e.k = "binary" -> EvalBinary(st, e)
          [] e.k = "call" -> EvalCall(st, e)
          [] e.k = "conv" -> IF ~Running(inner.st) THEN inner ELSE Res(inner.st, Converted(e.to, inner.v))
-----------------------------------------------------------------------------
(* A function sees its parameters and none of its caller's locals. *)
CallFunction(st, f, args) ==
    LET scope == [i \in DOMAIN args |-> [name |-> f.params[i].name, v |-> args[i]]]
        ended == RunBlock([st EXCEPT !.scopes = <<>>, !.ret = f.ret], scope, f.body)
    IN  IF ended.status \notin {"running", "returned"} THEN Res(ended, Undef)
        ELSE Res([ended EXCEPT !.status = "running", !.scopes = st.scopes, !.ret = st.ret, !.value = Undef],
                 ended.value)

AssignTo(st, s) ==
    LET place == Locate(st, s.target)
        old == ReadPath(Contents(place.st, place.v.name), place.v.path)
        right == ValueOf(place.st, s.e, TypeOf(old))
        result == IF s.op = "=" THEN right ELSE Apply(right.st, old, s.op, right.v)
    IN  CASE ~Running(place.st) -> place.st
          [] ~Running(right.st) -> right.st
          [] ~Running(result.st) -> result.st
          [] OTHER -> Update(result.st, place.v, result.v)

RECURSIVE RunWhile(_, _)
RunWhile(st, s) ==
    LET c == ValueOf(st, s.c, Bool)
        body == RunBlock(c.st, <<>>, s.body)
    IN  CASE ~Running(c.st) -> c.st
          [] ~c.v.b -> c.st
          [] OTHER -> IF Running(body) THEN RunWhile(body, s) ELSE body

(* The loop variable takes each value from the lower bound up to and not     *)
(* including the upper one.                                                  *)
RECURSIVE RunFor(_, _, _, _)
RunFor(st, s, i, hi) ==
    LET body == RunBlock(st, <<[name |-> s.name, v |-> Num(i)]>>, s.body)
    IN  IF i >= hi \/ ~Running(st) THEN st ELSE RunFor(body, s, i + 1, hi)

RunStatement(st, s) ==
    LET value == ValueOf(st, s.e, IF s.k = "let" THEN s.ty ELSE Untyped)
        c == ValueOf(st, s.c, Bool)
        bounds == ValuesOf(st, <<s.lo, s.hi>>, <<I32, I32>>)
        result == ValueOf(st, s.es[1], st.ret)
    IN  CASE ~Running(st) -> st
          [] s.k = "let" -> IF Running(value.st) THEN BindLocal(value.st, s.name, value.v) ELSE value.st
          [] s.k = "assign" -> AssignTo(st, s)
          [] s.k = "expr" -> value.st
          [] s.k = "if" -> IF ~Running(c.st) THEN c.st
                           ELSE IF c.v.b THEN RunBlock(c.st, <<>>, s.then)
                           ELSE IF s.elses = <<>> THEN c.st ELSE RunBlock(c.st, <<>>, s.elses[1])
          [] s.k = "while" -> RunWhile(st, s)
          [] s.k = "for" -> IF ~Running(bounds.st) THEN bounds.st
                            ELSE RunFor(bounds.st, s, bounds.v[1].i, bounds.v[2].i)
          [] s.k = "return" -> IF s.es = <<>> THEN Ends(st, "returned", Undef)
                               ELSE IF Running(result.st) THEN Ends(result.st, "returned", result.v)
                               ELSE result.st

RunBlock(st, scope, block) ==
    LET ended == FoldLeft(RunStatement, [st EXCEPT !.scopes = Append(@, scope)], block)
    IN  [ended EXCEPT !.scopes = IF @ = <<>> THEN @ ELSE Front(@)]

(* The program's run from a function without parameters. *)
Meaning(checked, name) ==
    LET f == CHOOSE g \in Range(checked.program.functions) : g.name = name
    IN  RunBlock([globals |-> checked.initial, scopes |-> <<>>, trace |-> <<>>, fuel |-> LanguageFuel,
                  status |-> "running", value |-> Undef, ret |-> f.ret, program |-> checked], <<>>, f.body)
=============================================================================
