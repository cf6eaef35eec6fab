------------------------------- MODULE Codegen -------------------------------
(* The LLVM code of a checked program (src/codegen/llvm.rs).  The emitter's  *)
(* state is a record: the lines so far, the stack slots moved to the entry   *)
(* block, the counters of temporaries and labels, the block being filled,    *)
(* whether it is terminated, and the scopes of local variables.              *)
EXTENDS Sema

Temp(n) == [k |-> "temp", n |-> n]
Global(name) == [k |-> "ptr", global |-> TRUE, cell |-> name, path |-> <<>>]
Undef == [k |-> "undef"]
None == [k |-> "none"]
Instr(op, args) == [op |-> op, d |-> -1, args |-> args, to |-> <<>>, name |-> ""]
Jump(args, labels) == [Instr("br", args) EXCEPT !.to = labels]

(* What an emitting step returns: the emitter, an operand and its type. *)
Out(s, v, ty) == [s |-> s, v |-> v, ty |-> ty]
Emit(s, instr) == [s EXCEPT !.lines = Append(@, instr)]
Define(s, instr, ty) ==
    Out([Emit(s, [instr EXCEPT !.d = s.temps]) EXCEPT !.temps = @ + 1], Temp(s.temps), ty)
Operate(s, op, args, ty) == Define(s, Instr(op, args), ty)
Load(s, place) == Operate(s, "load", <<place.v>>, place.ty)
Store(s, v, p) == Emit(s, Instr("store", <<v, p>>))
Terminate(s, instr) == [Emit(s, instr) EXCEPT !.terminated = TRUE]
Place(s, label) == [Emit(s, [Instr("label", <<>>) EXCEPT !.to = <<label>>])
                        EXCEPT !.block = label, !.terminated = FALSE]
Labels(s, n) == [s EXCEPT !.labels = @ + n]   \* labels s.labels..s.labels + n - 1
EndBlock(s, label) == IF s.terminated THEN s ELSE Terminate(s, Jump(<<>>, <<label>>))
EntryAlloca(s, ty) ==
    Out([s EXCEPT !.allocas = Append(@, [Instr("alloca", <<>>) EXCEPT !.d = s.temps]), !.temps = @ + 1],
        Temp(s.temps), ty)

(* Local scopes, then globals and aggregate constants. *)
Slots(s) == s.ctx.globals \o FlattenSeq(s.scopes)
HasSlot(s, name) == name \in Names(Slots(s))
Slot(s, name) == Declared(Slots(s), name)
Local(s, name, ty, v) ==
    [s EXCEPT !.scopes = Append(Front(@), Append(Last(@), [name |-> name, ty |-> ty, v |-> v]))]
FieldIndex(s, struct, name) == Position(Declared(s.ctx.structs, struct.name).fields, name) - 1
FieldOf(s, struct, name) == FieldType(struct, name, s.ctx.structs)
UndefOf(s, ty) ==
    IF ty.k = "array" THEN ArrayValue(ty.el, [i \in 1..ty.n.i |-> Undef])
    ELSE StructValue(ty.name, [i \in DOMAIN Declared(s.ctx.structs, ty.name).fields |-> Undef])
-----------------------------------------------------------------------------
BoundsCheck(s, index, length) ==
    LET low == Operate(s, "sge", <<index, Num(0)>>, Bool)
        high == Operate(low.s, "slt", <<index, Num(length)>>, Bool)
        valid == Operate(high.s, "and", <<low.v, high.v>>, Bool)
        l == s.labels
        failing == Place(Terminate(Labels(valid.s, 2), Jump(<<valid.v>>, <<l, l + 1>>)), l + 1)
    IN  Place(Terminate(Emit(failing, Instr("bounds_fail", <<index>>)), Instr("unreachable", <<>>)), l)

CheckedDivision(s, l, op, r) ==
    LET zero == Operate(s, "eq", <<r, Num(0)>>, Bool)
        minimum == Operate(zero.s, "eq", <<l, Num(MinInt)>>, Bool)
        minusOne == Operate(minimum.s, "eq", <<r, Num(-1)>>, Bool)
        overflows == Operate(minusOne.s, "and", <<minimum.v, minusOne.v>>, Bool)
        invalid == Operate(overflows.s, "or", <<zero.v, overflows.v>>, Bool)
        fail == s.labels  valid == s.labels + 1
        failing == Place(Terminate(Labels(invalid.s, 2), Jump(<<invalid.v>>, <<fail, valid>>)), fail)
        hook == IF op = "/" THEN "division_fail" ELSE "remainder_fail"
        after == Place(Terminate(Emit(failing, Instr(hook, <<l, r>>)), Instr("unreachable", <<>>)), valid)
    IN  Operate(after, IF op = "/" THEN "sdiv" ELSE "srem", <<l, r>>, I32)

IntOpcode == [o \in Arithmetic \cup Orderings \cup {"==", "!="} |->
    CASE o = "+" -> "add" [] o = "-" -> "sub" [] o = "*" -> "mul" [] o = "==" -> "eq" [] o = "!=" -> "ne"
      [] o = "<" -> "slt" [] o = "<=" -> "sle" [] o = ">" -> "sgt" [] o = ">=" -> "sge" [] OTHER -> "none"]
FloatOpcode == [o \in Arithmetic \cup Orderings \cup {"==", "!="} |->
    CASE o = "+" -> "fadd" [] o = "-" -> "fsub" [] o = "*" -> "fmul" [] o = "/" -> "fdiv"
      [] o = "==" -> "oeq" [] o = "!=" -> "one" [] o = "<" -> "olt" [] o = "<=" -> "ole"
      [] o = ">" -> "ogt" [] o = ">=" -> "oge" [] OTHER -> "none"]
Binary(s, l, op, r, ty) ==
    IF op \in {"/", "%"} /\ ty # F32 THEN CheckedDivision(s, l, op, r)
    ELSE Operate(s, IF ty = F32 THEN FloatOpcode[op] ELSE IntOpcode[op], <<l, r>>,
                 IF op \in Arithmetic THEN ty ELSE Bool)

(* NaN, then the two limits, then the conversion, merged by a phi. *)
SafeFloatToIntCode(s, x) ==
    LET L(i) == s.labels + i   \* nan, high check, high, low check, low, convert, merge
        nan == Operate(Labels(s, 7), "uno", <<x, x>>, Bool)
        n == EndBlock(Place(Terminate(nan.s, Jump(<<nan.v>>, <<L(0), L(1)>>)), L(0)), L(6))
        high == Operate(Place(n, L(1)), "oge", <<x, Flt(2 * (MaxInt + 1))>>, Bool)
        h == EndBlock(Place(Terminate(high.s, Jump(<<high.v>>, <<L(2), L(3)>>)), L(2)), L(6))
        low == Operate(Place(h, L(3)), "ole", <<x, Flt(2 * MinInt)>>, Bool)
        o == EndBlock(Place(Terminate(low.s, Jump(<<low.v>>, <<L(4), L(5)>>)), L(4)), L(6))
        converted == Operate(Place(o, L(5)), "fptosi", <<x>>, I32)
        merged == Place(EndBlock(converted.s, L(6)), L(6))
    IN  Define(merged, [Instr("phi", <<Num(0), Num(MaxInt), Num(MinInt), converted.v>>)
                            EXCEPT !.to = <<L(0), L(2), L(4), L(5)>>], I32)
-----------------------------------------------------------------------------
RECURSIVE Expression(_, _)
RECURSIVE ExpressionAs(_, _, _)

(* Operands in order, each inserted into the aggregate at its index. *)
Insert(out, e, want, index) ==
    LET value == ExpressionAs(out.s, e, want)
    IN  Define(value.s, [Instr("insertvalue", <<out.v, value.v>>) EXCEPT !.to = <<index>>], out.ty)

ExpressionAs(s, e, want) ==
    IF e.k # "list" THEN Expression(s, e)
    ELSE LET Element(out, i) == Insert(out, e.es[i], want.el, i - 1)
         IN  FoldLeft(Element, Out(s, UndefOf(s, want), want), [i \in DOMAIN e.es |-> i])

StructLiteral(s, e) ==
    LET ty == StructOf(e.name)
        Field(out, f) == Insert(out, f.e, FieldOf(s, ty, f.name), FieldIndex(s, ty, f.name))
    IN  FoldLeft(Field, Out(s, UndefOf(s, ty), ty), e.fields)

(* The address of a place, None for any other expression. *)
RECURSIVE Lvalue(_, _)
Lvalue(s, e) ==
    CASE e.k = "var" -> IF HasSlot(s, e.name) THEN Out(s, Slot(s, e.name).v, Slot(s, e.name).ty)
                        ELSE Out(s, None, Void)
      [] e.k = "index" ->
            LET base == Lvalue(s, e.base)
                index == Expression(base.s, e.ix)
                checked == BoundsCheck(index.s, index.v, base.ty.n.i)
            IN  IF base.v = None THEN base
                ELSE Operate(checked, "getelementptr", <<base.v, index.v>>, base.ty.el)
      [] e.k = "field" ->
            LET base == Lvalue(s, e.base)
            IN  IF base.v = None THEN base
                ELSE Operate(base.s, "getelementptr", <<base.v, Num(FieldIndex(s, base.ty, e.name))>>,
                             FieldOf(s, base.ty, e.name))
      [] OTHER -> Out(s, None, Void)

(* An element of a value without an address: the value gets a slot. *)
IndexedValue(s, e) ==
    LET base == Expression(s, e.base)
        slot == EntryAlloca(base.s, base.ty)
        index == Expression(Store(slot.s, base.v, slot.v), e.ix)
        checked == BoundsCheck(index.s, index.v, base.ty.n.i)
        element == Operate(checked, "getelementptr", <<slot.v, index.v>>, base.ty.el)
    IN  Load(element.s, element)

(* Deviation: the merge names the block the right operand began in. *)
RightPredecessorAtStart(right, label) == label
(* The block the right operand ended in: it may have opened others. *)
RightPredecessor(right, label) == right.s.block

LogicalExpression(s, e) ==
    LET left == Expression(s, e.l)
        rhs == left.s.labels  short == rhs + 1  merge == rhs + 2
        jump == Jump(<<left.v>>, IF e.op = "&&" THEN <<rhs, short>> ELSE <<short, rhs>>)
        shorted == EndBlock(Place(Terminate(Labels(left.s, 3), jump), short), merge)
        right == Expression(Place(shorted, rhs), e.r)
        merged == Place(EndBlock(right.s, merge), merge)
    IN  Define(merged, [Instr("phi", <<Truth(e.op = "||"), right.v>>)
                            EXCEPT !.to = <<short, RightPredecessor(right, rhs)>>], Bool)

CallExpression(s, e) ==
    LET f == Declared(s.ctx.functions, e.name)
        Argument(acc, i) == LET out == ExpressionAs(acc.s, e.args[i], f.params[i].ty)
                            IN  [s |-> out.s, vs |-> Append(acc.vs, out.v)]
        args == FoldLeft(Argument, [s |-> s, vs |-> <<>>], [i \in DOMAIN e.args |-> i])
        call == [Instr("call", args.vs) EXCEPT !.name = e.name]
    IN  IF f.ret = Void THEN Out(Emit(args.s, call), None, Void) ELSE Define(args.s, call, f.ret)

UnaryExpression(s, e) ==
    LET x == Expression(s, e.e)
    IN  CASE Smallest(e) -> Out(s, Num(MinInt), I32)
          [] e.op = "!" -> Operate(x.s, "xor", <<x.v, Truth(TRUE)>>, Bool)
          [] x.ty = I32 -> Operate(x.s, "sub", <<Num(0), x.v>>, I32)
          [] OTHER -> Operate(x.s, "fneg", <<x.v>>, x.ty)

Conversion(s, e) ==
    LET x == Expression(s, e.args[1])
    IN  CASE x.ty = e.to -> x
          [] e.to = F32 -> Operate(x.s, "sitofp", <<x.v>>, F32)
          [] OTHER -> SafeFloatToIntCode(x.s, x.v)

Expression(s, e) ==
    CASE e.k = "int" -> Out(s, Num(e.i), I32)
      [] e.k = "float" -> Out(s, Flt(e.f), F32)
      [] e.k = "truth" -> Out(s, Truth(e.b), Bool)
      [] e.k = "new" -> StructLiteral(s, e)
      [] e.k = "var" -> IF HasSlot(s, e.name) THEN Load(s, Slot(s, e.name))
                        ELSE Out(s, s.ctx.constants[e.name], TypeOf(s.ctx.constants[e.name]))
      [] e.k = "index" -> LET place == Lvalue(s, e)
                          IN  IF place.v = None THEN IndexedValue(s, e) ELSE Load(place.s, place)
      [] e.k = "field" ->
            LET place == Lvalue(s, e)
                base == Expression(s, e.base)
            IN  IF place.v # None THEN Load(place.s, place)
                ELSE Define(base.s, [Instr("extractvalue", <<base.v>>) EXCEPT
                                        !.to = <<FieldIndex(s, base.ty, e.name)>>], FieldOf(s, base.ty, e.name))
      [] e.k = "unary" -> UnaryExpression(s, e)
      [] e.k = "binary" -> LET l == Expression(s, e.l)
                               r == Expression(l.s, e.r)
                           IN  IF e.op \in Logical THEN LogicalExpression(s, e)
                               ELSE Binary(r.s, l.v, e.op, r.v, l.ty)
      [] e.k = "call" -> CallExpression(s, e)
      [] e.k = "conv" -> Conversion(s, e)
-----------------------------------------------------------------------------
RECURSIVE Statements(_, _)
InScope(s, scope, block) ==
    [Statements([s EXCEPT !.scopes = Append(@, scope)], block) EXCEPT !.scopes = Front(@)]

LetStatement(s, t) ==
    LET value == ExpressionAs(s, t.e, t.ty)
        slot == EntryAlloca(value.s, t.ty)
    IN  Local(Store(slot.s, value.v, slot.v), t.name, t.ty, slot.v)

(* The place first; a compound assignment reads it before the right operand. *)
AssignStatement(s, t) ==
    LET place == Lvalue(s, t.target)
        old == Load(place.s, place)
        right == Expression(old.s, t.e)
        value == IF t.op = "=" THEN ExpressionAs(place.s, t.e, place.ty)
                 ELSE Binary(right.s, old.v, t.op, right.v, place.ty)
    IN  Store(value.s, value.v, place.v)

IfStatement(s, t) ==
    LET c == Expression(s, t.c)
        then == c.s.labels  end == then + 1  else == then + 2
        plain == t.elses = <<>>
        opened == Terminate(Labels(c.s, IF plain THEN 2 ELSE 3),
                            Jump(<<c.v>>, <<then, IF plain THEN end ELSE else>>))
        taken == InScope(Place(opened, then), <<>>, t.then)
        other == InScope(Place(EndBlock(taken, end), else), <<>>, t.elses[1])
        closed == Place(EndBlock(other, end), end)
    IN  IF plain THEN Place(EndBlock(taken, end), end)
        ELSE IF taken.terminated /\ other.terminated THEN Terminate(closed, Instr("unreachable", <<>>))
        ELSE closed

WhileStatement(s, t) ==
    LET cond == s.labels  body == cond + 1  end == cond + 2
        c == Expression(Place(Terminate(Labels(s, 3), Jump(<<>>, <<cond>>)), cond), t.c)
        inner == InScope(Place(Terminate(c.s, Jump(<<c.v>>, <<body, end>>)), body), <<>>, t.body)
    IN  Place(EndBlock(inner, cond), end)

(* Both bounds are evaluated once, before the loop. *)
ForStatement(s, t) ==
    LET lo == Expression(s, t.lo)
        hi == Expression(lo.s, t.hi)
        slot == EntryAlloca(hi.s, I32)
        cond == slot.s.labels  body == cond + 1  end == cond + 2
        start == Terminate(Labels(Store(slot.s, lo.v, slot.v), 3), Jump(<<>>, <<cond>>))
        i == Load(Place(start, cond), slot)
        test == Operate(i.s, "slt", <<i.v, hi.v>>, Bool)
        inner == InScope(Place(Terminate(test.s, Jump(<<test.v>>, <<body, end>>)), body),
                         <<[name |-> t.name, ty |-> I32, v |-> slot.v]>>, t.body)
        j == Load(inner, slot)
        next == Operate(j.s, "add", <<j.v, Num(1)>>, I32)
        again == Terminate(Store(next.s, next.v, slot.v), Jump(<<>>, <<cond>>))
    IN  Place(IF inner.terminated THEN inner ELSE again, end)

ReturnStatement(s, t) ==
    LET value == ExpressionAs(s, t.es[1], s.ctx.ret)
    IN  IF t.es = <<>> THEN Terminate(s, Instr("ret", <<>>)) ELSE Terminate(value.s, Instr("ret", <<value.v>>))

Statement(s, t) ==
    CASE s.terminated -> s     \* nothing after a return is emitted
      [] t.k = "let" -> LetStatement(s, t)
      [] t.k = "assign" -> AssignStatement(s, t)
      [] t.k = "expr" -> Expression(s, t.e).s
      [] t.k = "if" -> IfStatement(s, t)
      [] t.k = "while" -> WhileStatement(s, t)
      [] t.k = "for" -> ForStatement(s, t)
      [] t.k = "return" -> ReturnStatement(s, t)

Statements(s, block) == FoldLeft(Statement, s, block)
-----------------------------------------------------------------------------
(* A parameter gets a slot; its temporary is the argument's number. *)
EmitFunction(f, ctx) ==
    LET entry == [lines |-> <<>>, allocas |-> <<>>, temps |-> Len(f.params), labels |-> 1, block |-> 0,
                  terminated |-> FALSE, scopes |-> <<<<>>>>, ctx |-> [ctx EXCEPT !.ret = f.ret]]
        Param(s, i) == LET slot == Operate(s, "alloca", <<>>, f.params[i].ty)
                       IN  Local(Store(slot.s, Temp(i - 1), slot.v), f.params[i].name, f.params[i].ty, slot.v)
        body == Statements(FoldLeft(Param, entry, [i \in DOMAIN f.params |-> i]), f.body)
        closed == IF body.terminated THEN body
                  ELSE Terminate(body, Instr(IF f.ret = Void THEN "ret" ELSE "unreachable", <<>>))
    IN  <<[Instr("label", <<>>) EXCEPT !.to = <<0>>]>> \o closed.allocas \o closed.lines

(* emit_program: scalar constants are inlined; aggregate ones have storage. *)
EmitProgram(checked) ==
    LET program == checked.program
        stored == SelectSeq(program.constants, LAMBDA c : Aggregate(checked.values[c.name]))
        Slotted(ds) == [i \in DOMAIN ds |-> [name |-> ds[i].name, ty |-> ds[i].ty, v |-> Global(ds[i].name)]]
        ctx == [globals |-> Slotted(program.globals) \o Slotted(stored), constants |-> checked.values,
                structs |-> program.structs, functions |-> Builtins \o NamedFunctions(program), ret |-> Void]
    IN  [functions |-> [i \in DOMAIN program.functions |->
             [name |-> program.functions[i].name, lines |-> EmitFunction(program.functions[i], ctx)]],
         memory |-> [n \in Names(program.globals) \cup Names(stored) |->
                        IF n \in Names(program.globals) THEN checked.initial[n] ELSE checked.values[n]]]
=============================================================================
