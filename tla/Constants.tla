------------------------------ MODULE Constants ------------------------------
(* Compile-time evaluation (src/sema/constants.rs and its modules): an       *)
(* expression is evaluated by a stack of tasks that can be suspended at a    *)
(* constant whose value is not known yet and is resumed once it is.          *)
EXTENDS Syntax, SequencesExt

CONSTANTS Predefined,         \* predefined constant -> value
          MaxAggregateDepth   \* MAX_CONSTANT_AGGREGATE_DEPTH

Failed == [k |-> "failed"]
Needs(name) == [k |-> "needs", name |-> name]
IsValue(r) == r.k \notin {"failed", "needs"}

(* Checked arithmetic. *)
IntOrOverflow(n) == IF Fits(n) THEN Num(n) ELSE Failed
FloatOrOverflow(x) == IF Finite(x) THEN Flt(x) ELSE Failed

EvaluateBinary(l, op, r) ==
    CASE l.k = "i32" /\ r.k = "i32" ->
            CASE op \in {"/", "%"} -> IF r.i = 0 \/ (l.i = MinInt /\ r.i = -1) THEN Failed
                                      ELSE Num(Integer(op, l.i, r.i))
              [] op \in Arithmetic -> IntOrOverflow(Integer(op, l.i, r.i))
              [] op \in Logical -> Failed
              [] OTHER -> Truth(Compare(op, l.i, r.i))
      [] l.k = "f32" /\ r.k = "f32" ->
            CASE op = "%" \/ (op = "/" /\ r.f = 0) -> Failed
              [] op \in Arithmetic -> FloatOrOverflow(Float(op, l.f, r.f))
              [] op \in Logical -> Failed
              [] OTHER -> Truth(Compare(op, l.f, r.f))
      [] l.k = "bool" /\ r.k = "bool" ->
            CASE op = "==" -> Truth(l.b = r.b)
              [] op = "!=" -> Truth(l.b # r.b)
              [] OTHER -> Failed
      [] OTHER -> Failed

UnaryValue(op, v) ==
    CASE op = "-" /\ v.k = "i32" -> IntOrOverflow(-v.i)
      [] op = "-" /\ v.k = "f32" /\ Finite(v.f) -> Flt(FloatNegate(v.f))
      [] op = "!" /\ v.k = "bool" -> Truth(~v.b)
      [] OTHER -> Failed

(* Deviation: the upper limit itself is converted. *)
SafeFloatToIntInclusive(x) ==
    CASE x = NaN -> 0 [] x > 2 * (MaxInt + 1) -> MaxInt
      [] x <= 2 * MinInt -> MinInt [] OTHER -> Wrap(Quotient(x, 2))

SafeFloatToInt(x) ==
    CASE x = NaN -> 0
      [] x >= 2 * (MaxInt + 1) -> MaxInt
      [] x <= 2 * MinInt -> MinInt
      [] OTHER -> Quotient(x, 2)

ConvertConstant(to, v) ==
    CASE to = TypeOf(v) /\ Numeric(to) -> v
      [] to = F32 /\ v.k = "i32" -> Flt(2 * v.i)
      [] to = I32 /\ v.k = "f32" -> Num(SafeFloatToInt(v.f))
      [] OTHER -> Failed

IndexValue(base, index) ==
    IF index.k = "i32" /\ base.k = "array" /\ 0 <= index.i /\ index.i < Len(base.vs)
    THEN base.vs[index.i + 1] ELSE Failed

RECURSIVE Depth(_)
Depth(v) == IF ~Aggregate(v) THEN 0
            ELSE 1 + Max({Depth(v.vs[i]) : i \in DOMAIN v.vs} \cup {0})
(* check_aggregate_depth, before the parent is constructed. *)
TooDeep(children) == \E i \in DOMAIN children : Depth(children[i]) >= MaxAggregateDepth
-----------------------------------------------------------------------------
(* The task stack.  "want" is the declared type an expression is given.      *)
Untyped == [k |-> "untyped"]
Eval(e, want) == [k |-> "eval", e |-> e, want |-> want]
Task(k) == [k |-> k]
Evaluation(e, want) == [tasks |-> <<Eval(e, want)>>, values |-> <<>>, result |-> Task("running")]

Push(ev, tasks) == [ev EXCEPT !.tasks = @ \o tasks]
Value(ev, v) == IF IsValue(v) THEN [ev EXCEPT !.values = Append(@, v)] ELSE [ev EXCEPT !.result = v]
Fails(ev) == [ev EXCEPT !.result = Failed]
Drop(ev, n) == [ev EXCEPT !.values = SubSeq(@, 1, Len(@) - n)]

(* The tasks of an expression; the last one pushed runs first. *)
Expand(ev, e, want, structs) ==
    CASE e.k = "int" -> Value(ev, IntOrOverflow(e.i))
      [] e.k = "float" -> Value(ev, FloatOrOverflow(e.f))
      [] e.k = "truth" -> Value(ev, Truth(e.b))
      [] e.k = "list" ->
            IF ResolvedArray(want) /\ Len(e.es) = want.n.i
            THEN Push(ev, <<[k |-> "array", el |-> want.el, start |-> Len(ev.values)]>>
                          \o Reverse([i \in DOMAIN e.es |-> Eval(e.es[i], want.el)]))
            ELSE Fails(ev)
      [] e.k = "new" ->
            IF /\ want = StructOf(e.name) /\ e.name \in Names(structs)
               /\ Names(Declared(structs, e.name).fields) \subseteq Names(e.fields)
            THEN LET fields == Declared(structs, e.name).fields
                     Given(name) == e.fields[CHOOSE i \in DOMAIN e.fields :
                                        /\ e.fields[i].name = name
                                        /\ \A j \in 1..i - 1 : e.fields[j].name # name].e
                 IN  Push(ev, <<[k |-> "struct", name |-> e.name, start |-> Len(ev.values)]>>
                              \o Reverse([i \in DOMAIN fields |-> Eval(Given(fields[i].name), fields[i].ty)]))
            ELSE Fails(ev)
      [] e.k = "index" -> Push(ev, <<Task("index"), Eval(e.ix, Untyped), Eval(e.base, Untyped)>>)
      [] e.k = "field" -> Push(ev, <<[k |-> "field", name |-> e.name], Eval(e.base, Untyped)>>)
      [] e.k = "call" -> Fails(ev)
      [] e.k = "conv" -> IF Len(e.args) # 1 THEN Fails(ev)
                         ELSE Push(ev, <<[k |-> "conv", to |-> e.to], Eval(e.args[1], Untyped)>>)
      [] e.k = "unary" -> IF Smallest(e) THEN Value(ev, Num(MinInt))
                          ELSE Push(ev, <<[k |-> "unary", op |-> e.op], Eval(e.e, Untyped)>>)
      [] e.k = "binary" -> Push(ev, <<[k |-> "left", op |-> e.op, r |-> e.r], Eval(e.l, Untyped)>>)

(* What is known of the constants: values, failures, and names that are      *)
(* mutable globals.                                                          *)
NoValues(globals) == [values |-> Predefined, failures |-> {}, globals |-> globals]
Lookup(cache, name) ==
    IF name \in cache.globals THEN Failed
    ELSE IF name \in DOMAIN cache.values THEN cache.values[name]
    ELSE IF name \in cache.failures THEN Failed ELSE Needs(name)
Learn(cache, name, v) ==
    [cache EXCEPT !.values = [n \in DOMAIN @ \cup {name} |-> IF n = name THEN v ELSE @[n]]]

(* One task.  A constant that is not known yet suspends the evaluation. *)
RunTask(ev0, structs, cache) ==
    LET task == Last(ev0.tasks)
        ev == [ev0 EXCEPT !.tasks = Front(@)]
        n == Len(ev.values)
        top == ev.values[n]
        From(start) == SubSeq(ev.values, start + 1, n)
        Built(start, v) == IF TooDeep(From(start)) THEN Fails(ev) ELSE Value(Drop(ev, n - start), v)
    IN  CASE task.k = "eval" /\ task.e.k = "var" ->
                LET v == Lookup(cache, task.e.name)
                IN  IF v.k = "needs" THEN [ev0 EXCEPT !.result = v] ELSE Value(ev, v)
          [] task.k = "eval" /\ task.e.k # "var" -> Expand(ev, task.e, task.want, structs)
          [] task.k = "array" -> Built(task.start, ArrayValue(task.el, From(task.start)))
          [] task.k = "struct" -> Built(task.start, StructValue(task.name, From(task.start)))
          [] task.k = "index" -> Value(Drop(ev, 2), IndexValue(ev.values[n - 1], top))
          [] task.k = "field" ->
                IF top.k = "struct" /\ task.name \in Names(Declared(structs, top.name).fields)
                THEN Value(Drop(ev, 1), top.vs[Position(Declared(structs, top.name).fields, task.name)])
                ELSE Fails(ev)
          [] task.k = "unary" -> Value(Drop(ev, 1), UnaryValue(task.op, top))
          [] task.k = "conv" -> Value(Drop(ev, 1), ConvertConstant(task.to, top))
          [] task.k = "left" /\ task.op \notin Logical ->
                Push(ev, <<[k |-> "finish", op |-> task.op], Eval(task.r, Untyped)>>)
          [] task.k = "left" /\ task.op \in Logical ->
                IF top.k # "bool" THEN Fails(ev)
                ELSE IF top.b = (task.op = "||") THEN ev
                ELSE Push(Drop(ev, 1), <<Task("right"), Eval(task.r, Untyped)>>)
          [] task.k = "finish" -> Value(Drop(ev, 2), EvaluateBinary(ev.values[n - 1], task.op, top))
          [] task.k = "right" -> IF top.k = "bool" THEN ev ELSE Fails(ev)

RECURSIVE Resume(_, _, _)
Resume(ev, structs, cache) ==
    IF ev.result.k # "running" THEN ev
    ELSE IF ev.tasks = <<>> THEN [ev EXCEPT !.result = Last(ev.values)]
    ELSE Resume(RunTask(ev, structs, cache), structs, cache)

Resumed(ev) == [ev EXCEPT !.result = Task("running")]
=============================================================================
