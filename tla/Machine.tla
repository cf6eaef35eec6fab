------------------------------- MODULE Machine -------------------------------
(* External: what LLVM makes of the emitted lines, and the runtime's hooks.  *)
(* An instruction with undefined behaviour, an operand of the wrong kind, a  *)
(* label placed twice or never, and a phi without the block control came     *)
(* from are all "stuck".                                                     *)
EXTENDS Codegen

CONSTANT MachineFuel   \* bound on executed instructions

Stuck == [k |-> "stuck"]
Kinds(args) == [i \in DOMAIN args |-> args[i].k]
IntResult == [add |-> "+", sub |-> "-", mul |-> "*", sdiv |-> "/", srem |-> "%"]
FloatResult == [fadd |-> "+", fsub |-> "-", fmul |-> "*", fdiv |-> "/"]
IntTest == [slt |-> "<", sle |-> "<=", sgt |-> ">", sge |-> ">="]
FloatTest == [oeq |-> "==", one |-> "!=", olt |-> "<", ole |-> "<=", ogt |-> ">", oge |-> ">="]

(* Instructions that compute a value from values. *)
IntInstruction(op, a, b) ==
    CASE op \in {"sdiv", "srem"} /\ (b = 0 \/ (a = MinInt /\ b = -1)) -> Stuck
      [] op \in DOMAIN IntResult -> Num(Wrap(Integer(IntResult[op], a, b)))
      [] op \in DOMAIN IntTest -> Truth(Compare(IntTest[op], a, b))
      [] op \in {"eq", "ne"} -> Truth((a = b) = (op = "eq"))
      [] OTHER -> Stuck
FloatInstruction(op, a, b) ==
    CASE op \in DOMAIN FloatResult -> Flt(Float(FloatResult[op], a, b))
      [] op \in DOMAIN FloatTest -> Truth(NaN \notin {a, b} /\ Compare(FloatTest[op], a, b))
      [] op = "uno" -> Truth(NaN \in {a, b})
      [] OTHER -> Stuck
BoolInstruction(op, a, b) ==
    CASE op = "and" -> Truth(a /\ b) [] op = "or" -> Truth(a \/ b) [] op = "xor" -> Truth(a # b)
      [] op \in {"eq", "ne"} -> Truth((a = b) = (op = "eq"))
      [] OTHER -> Stuck
Element(v, i) == IF Aggregate(v) /\ i \in 0..Len(v.vs) - 1 THEN v.vs[i + 1] ELSE Stuck
Replaced(v, i, w) == IF Aggregate(v) /\ i \in 0..Len(v.vs) - 1 THEN [v EXCEPT !.vs[i + 1] = w] ELSE Stuck
Compute(instr, args) ==
    CASE Kinds(args) = <<"i32", "i32">> -> IntInstruction(instr.op, args[1].i, args[2].i)
      [] Kinds(args) = <<"f32", "f32">> -> FloatInstruction(instr.op, args[1].f, args[2].f)
      [] Kinds(args) = <<"bool", "bool">> -> BoolInstruction(instr.op, args[1].b, args[2].b)
      [] instr.op = "fneg" /\ Kinds(args) = <<"f32">> -> Flt(FloatNegate(args[1].f))
      [] instr.op = "sitofp" /\ Kinds(args) = <<"i32">> -> Flt(2 * args[1].i)
      [] instr.op = "fptosi" /\ Kinds(args) = <<"f32">> ->
            IF Finite(args[1].f) /\ Fits(Quotient(args[1].f, 2)) THEN Num(Quotient(args[1].f, 2)) ELSE Stuck
      [] instr.op = "insertvalue" -> Replaced(args[1], instr.to[1], args[2])
      [] instr.op = "extractvalue" -> Element(args[1], instr.to[1])
      [] instr.op = "getelementptr" /\ Kinds(args) = <<"ptr", "i32">> ->
            [args[1] EXCEPT !.path = Append(@, args[2].i)]
      [] OTHER -> Stuck

(* Memory: an aggregate is a tree, a pointer a path into it. *)
RECURSIVE ReadPath(_, _)
ReadPath(v, path) == IF path = <<>> \/ v = Stuck THEN v ELSE ReadPath(Element(v, Head(path)), Tail(path))
RECURSIVE WritePath(_, _, _)
WritePath(v, path, w) ==
    IF path = <<>> THEN w
    ELSE IF Element(v, Head(path)) = Stuck THEN Stuck
    ELSE Replaced(v, Head(path), WritePath(Element(v, Head(path)), Tail(path), w))

(* A frame: the lines, where it is, its temporaries and stack slots. *)
Frame(lines, args) == [lines |-> lines, pc |-> 1, block |-> 0, from |-> 0,
                       temps |-> [i \in 0..Len(args) - 1 |-> args[i + 1]], slots |-> <<>>]
Extend(f, d, v) == [n \in DOMAIN f \cup {d} |-> IF n = d THEN v ELSE f[n]]
Operand(fr, a) == IF a.k # "temp" THEN a ELSE IF a.n \in DOMAIN fr.temps THEN fr.temps[a.n] ELSE Stuck
Where(fr, label) == {i \in DOMAIN fr.lines : fr.lines[i].op = "label" /\ fr.lines[i].to[1] = label}

(* The world outside a frame. *)
Halt(w, status) == [w EXCEPT !.status = status]
Hooks == {"bounds_fail", "division_fail", "remainder_fail"}

RECURSIVE Execute(_, _, _)
Execute(fr, w, code) ==
    LET instr == fr.lines[fr.pc]
        args == [i \in DOMAIN instr.args |-> Operand(fr, instr.args[i])]
        next == [fr EXCEPT !.pc = @ + 1]
        spent == [w EXCEPT !.fuel = @ - 1]
        Defines(v) == [next EXCEPT !.temps = Extend(@, instr.d, v)]
        Goes(label) == [fr EXCEPT !.pc = CHOOSE i \in Where(fr, label) : TRUE,
                                  !.from = fr.block, !.block = label]
        taken == instr.to[IF args = <<>> \/ args[1] = Truth(TRUE) THEN 1 ELSE 2]
        cell == IF args[Len(args)].global THEN w.memory[args[Len(args)].cell] ELSE fr.slots[args[Len(args)].cell]
        stored == WritePath(cell, args[2].path, args[1])
        result == Compute(instr, args)
        arrived == {i \in DOMAIN instr.to : instr.to[i] = fr.from}
        f == code.functions[CHOOSE i \in DOMAIN code.functions : code.functions[i].name = instr.name]
        called == Execute(Frame(f.lines, args), spent, code)
        GoOn(fr2, w2) == Execute(fr2, w2, code)
    IN  CASE w.fuel = 0 -> Halt(w, "fuel")
          [] Stuck \in Range(args) /\ instr.op # "phi" -> Halt(w, "stuck")
          [] instr.op = "label" -> GoOn(next, w)
          [] instr.op = "br" ->
                IF Cardinality(Where(fr, taken)) = 1 THEN GoOn(Goes(taken), spent) ELSE Halt(w, "stuck")
          [] instr.op = "phi" ->
                IF Cardinality(arrived) = 1 /\ args[CHOOSE i \in arrived : TRUE] # Stuck
                THEN GoOn(Defines(args[CHOOSE i \in arrived : TRUE]), spent) ELSE Halt(w, "stuck")
          [] instr.op = "alloca" ->
                GoOn([Defines([k |-> "ptr", global |-> FALSE, cell |-> instr.d, path |-> <<>>])
                        EXCEPT !.slots = Extend(@, instr.d, Undef)], spent)
          [] instr.op = "load" ->
                LET v == ReadPath(cell, args[1].path)
                IN  IF v.k \in {"stuck", "undef"} THEN Halt(w, "stuck") ELSE GoOn(Defines(v), spent)
          [] instr.op = "store" ->
                IF stored = Stuck THEN Halt(w, "stuck")
                ELSE IF args[2].global THEN GoOn(next, [spent EXCEPT !.memory[args[2].cell] = stored])
                ELSE GoOn([next EXCEPT !.slots[args[2].cell] = stored], spent)
          [] instr.op = "call" /\ instr.name \in Names(Builtins) ->
                GoOn(next, [spent EXCEPT !.trace = Append(@, <<instr.name, args>>)])
          [] instr.op = "call" /\ instr.name \notin Names(Builtins) ->
                IF called.status # "returned" THEN called
                ELSE GoOn(IF instr.d = -1 THEN next ELSE Defines(called.value), Halt(called, "running"))
          [] instr.op = "ret" -> [spent EXCEPT !.status = "returned", !.value = IF args = <<>> THEN Undef ELSE args[1]]
          [] instr.op \in Hooks -> Halt([w EXCEPT !.value = ArrayValue(I32, args)], instr.op)
          [] instr.op = "unreachable" -> Halt(w, "stuck")
          [] OTHER -> IF result = Stuck THEN Halt(w, "stuck") ELSE GoOn(Defines(result), spent)

(* One temporary, one instruction. *)
SingleAssignment(lines) ==
    \A i, j \in DOMAIN lines : lines[i].d # -1 /\ lines[i].d = lines[j].d => i = j
Started(memory, fuel) ==
    [memory |-> memory, trace |-> <<>>, fuel |-> fuel, status |-> "running", value |-> Undef]
RunProgram(code, name) ==
    LET f == code.functions[CHOOSE i \in DOMAIN code.functions : code.functions[i].name = name]
    IN  IF \E g \in Range(code.functions) : ~SingleAssignment(g.lines) THEN Halt(Started(code.memory, 0), "stuck")
        ELSE Execute(Frame(f.lines, <<>>), Started(code.memory, MachineFuel), code)
=============================================================================
