------------------------------- MODULE Syntax -------------------------------
(* The abstract syntax of a Speck program (src/ast.rs), its values, and the  *)
(* arithmetic of i32 at Width bits.  Floating point is a toy format in half  *)
(* units with infinities and NaN: what folding and generated code must agree *)
(* on is which operation they apply and where the limits are.                *)
EXTENDS Integers, Sequences, FiniteSets

CONSTANT Width   \* bits of an i32

ASSUME WidthAssumption == Width \in Nat \ {0, 1}

MinInt == -(2 ^ (Width - 1))
MaxInt == 2 ^ (Width - 1) - 1
Fits(n) == MinInt <= n /\ n <= MaxInt
Wrap(n) == ((n - MinInt) % (2 ^ Width)) + MinInt
Sign(n) == IF n < 0 THEN -1 ELSE 1
Abs(n) == n * Sign(n)
Quotient(a, b) == Sign(a) * Sign(b) * (Abs(a) \div Abs(b))
Remainder(a, b) == a - b * Quotient(a, b)

(* External: the floating point unit. *)
FloatMax == 2 * MaxInt + 4          \* half units, beyond the limits of i32
Inf == FloatMax + 1
NaN == FloatMax + 2
Finite(x) == Abs(x) <= FloatMax
Rounded(n) == IF Abs(n) > FloatMax THEN Sign(n) * Inf ELSE n
FloatNegate(x) == IF x = NaN THEN NaN ELSE -x
FloatOp(op, a, b) ==
    CASE NaN \in {a, b} -> NaN
      [] op = "+" -> IF Finite(a) /\ Finite(b) THEN Rounded(a + b)
                     ELSE IF Finite(a) THEN b ELSE IF Finite(b) \/ a = b THEN a ELSE NaN
      [] op = "*" -> IF Finite(a) /\ Finite(b) THEN Rounded(Quotient(a * b, 2))
                     ELSE IF 0 \in {a, b} THEN NaN ELSE Sign(a) * Sign(b) * Inf
      [] op = "/" -> IF Finite(a) /\ Finite(b)
                     THEN IF b # 0 THEN Rounded(Quotient(2 * a, b))
                          ELSE IF a = 0 THEN NaN ELSE Sign(a) * Inf
                     ELSE IF Finite(b) THEN Sign(a) * Sign(b) * Inf
                     ELSE IF Finite(a) THEN 0 ELSE NaN
Float(op, a, b) == IF op = "-" THEN FloatOp("+", a, FloatNegate(b)) ELSE FloatOp(op, a, b)

Arithmetic == {"+", "-", "*", "/", "%"}
Orderings == {"<", "<=", ">", ">="}
Logical == {"&&", "||"}
Compare(op, a, b) == CASE op = "==" -> a = b [] op = "!=" -> a # b
                       [] op = "<" -> a < b [] op = "<=" -> a <= b
                       [] op = ">" -> a > b [] op = ">=" -> a >= b
Integer(op, a, b) == CASE op = "+" -> a + b [] op = "-" -> a - b [] op = "*" -> a * b
                       [] op = "/" -> Quotient(a, b) [] op = "%" -> Remainder(a, b)
-----------------------------------------------------------------------------
(* Types; a function may return void. *)
I32 == [k |-> "i32"]
F32 == [k |-> "f32"]
Bool == [k |-> "bool"]
Void == [k |-> "void"]
StructOf(name) == [k |-> "struct", name |-> name]
ArrayOf(element, length) == [k |-> "array", el |-> element, n |-> length]
LengthIs(i) == [k |-> "literal", i |-> i]
LengthOf(name) == [k |-> "name", name |-> name]
Resolved(i) == [k |-> "resolved", i |-> i]
InvalidLength == [k |-> "invalid"]
Numeric(ty) == ty \in {I32, F32}
Scalar(ty) == ty \in {I32, F32, Bool}
ResolvedArray(ty) == ty.k = "array" /\ ty.n.k = "resolved"

(* Values. *)
Num(n) == [k |-> "i32", i |-> n]
Flt(x) == [k |-> "f32", f |-> x]
Truth(b) == [k |-> "bool", b |-> b]
ArrayValue(element, vs) == [k |-> "array", el |-> element, vs |-> vs]
StructValue(name, vs) == [k |-> "struct", name |-> name, vs |-> vs]
TypeOf(v) == CASE v.k = "array" -> ArrayOf(v.el, Resolved(Len(v.vs)))
               [] v.k = "struct" -> StructOf(v.name)
               [] OTHER -> [k |-> v.k]
Aggregate(v) == v.k \in {"array", "struct"}

(* Expressions. *)
N(i) == [k |-> "int", i |-> i]
X(f) == [k |-> "float", f |-> f]
T(b) == [k |-> "truth", b |-> b]
V(name) == [k |-> "var", name |-> name]
Un(op, e) == [k |-> "unary", op |-> op, e |-> e]
Bin(l, op, r) == [k |-> "binary", l |-> l, op |-> op, r |-> r]
Ix(base, index) == [k |-> "index", base |-> base, ix |-> index]
Fld(base, name) == [k |-> "field", base |-> base, name |-> name]
Call(name, args) == [k |-> "call", name |-> name, args |-> args]
Conv(to, args) == [k |-> "conv", to |-> to, args |-> args]
Arr(es) == [k |-> "list", es |-> es]
New(name, fields) == [k |-> "new", name |-> name, fields |-> fields]
Named(name, e) == [name |-> name, e |-> e]

(* Statements. *)
Let(name, ty, e) == [k |-> "let", name |-> name, ty |-> ty, e |-> e]
Assign(target, op, e) == [k |-> "assign", target |-> target, op |-> op, e |-> e]
Do(e) == [k |-> "expr", e |-> e]
If(c, then, elses) == [k |-> "if", c |-> c, then |-> then, elses |-> elses]
While(c, body) == [k |-> "while", c |-> c, body |-> body]
For(name, lo, hi, body) == [k |-> "for", name |-> name, lo |-> lo, hi |-> hi, body |-> body]
Return(es) == [k |-> "return", es |-> es]

(* Declarations. *)
Typed(name, ty) == [name |-> name, ty |-> ty]
Struct(name, fields) == [name |-> name, fields |-> fields]
Defined(name, ty, e) == [name |-> name, ty |-> ty, e |-> e]
Function(name, kind, params, ret, body) ==
    [name |-> name, kind |-> kind, params |-> params, ret |-> ret, body |-> body]

(* Lookup of a declaration by its name; the last one declared wins. *)
Names(ds) == {ds[i].name : i \in DOMAIN ds}
Position(ds, name) == CHOOSE i \in DOMAIN ds : ds[i].name = name /\ \A j \in i + 1..Len(ds) : ds[j].name # name
Declared(ds, name) == ds[Position(ds, name)]
Unique(ds) == \A i, j \in DOMAIN ds : ds[i].name = ds[j].name => i = j

(* Subexpressions in evaluation order. *)
Operands(e) ==
    CASE e.k \in {"int", "float", "truth", "var"} -> <<>>
      [] e.k = "unary" -> <<e.e>>
      [] e.k = "binary" -> <<e.l, e.r>>
      [] e.k = "index" -> <<e.base, e.ix>>
      [] e.k = "field" -> <<e.base>>
      [] e.k \in {"call", "conv"} -> e.args
      [] e.k = "list" -> e.es
      [] e.k = "new" -> [i \in DOMAIN e.fields |-> e.fields[i].e]

Smallest(e) == e.k = "unary" /\ e.op = "-" /\ e.e.k = "int" /\ e.e.i = MaxInt + 1
=============================================================================
