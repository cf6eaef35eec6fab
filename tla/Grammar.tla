------------------------------- MODULE Grammar -------------------------------
(* How a program is written, as docs/language.md describes it: the tokens of *)
(* a syntax tree, with the fewest parentheses and no optional semicolon, and *)
(* how deeply it nests.  It is what the parser is compared with.             *)
EXTENDS Syntax, SequencesExt

Tok(kind) == <<[k |-> kind]>>
Word(name) == <<[k |-> "id", name |-> name]>>
Text(text) == <<[k |-> "string", text |-> text]>>
Spelled(name) == IF Len(name) = 2 THEN Word(name[1]) \o Tok("::") \o Word(name[2]) ELSE Word(name[1])
Listed(parts, separator) ==
    FlattenSeq([i \in DOMAIN parts |-> IF i = 1 THEN parts[i] ELSE separator \o parts[i]])

Tightness(e) ==
    CASE e.k = "binary" ->
            (CASE e.op = "||" -> 1 [] e.op = "&&" -> 2 [] e.op \in {"==", "!="} -> 3
               [] e.op \in Orderings -> 4 [] e.op \in {"+", "-"} -> 5 [] OTHER -> 6)
      [] e.k = "unary" -> 7
      [] OTHER -> 8

RECURSIVE Write(_)
WriteAs(e, least) == IF Tightness(e) < least THEN Tok("(") \o Write(e) \o Tok(")") ELSE Write(e)
WriteAll(es) == Listed([i \in DOMAIN es |-> Write(es[i])], Tok(","))
Write(e) ==
    CASE e.k = "int" -> <<[k |-> "int", i |-> e.i]>>
      [] e.k = "float" -> <<[k |-> "float", f |-> e.f]>>
      [] e.k = "truth" -> Tok(IF e.b THEN "true" ELSE "false")
      [] e.k = "var" -> Spelled(e.name)
      [] e.k = "unary" -> Tok(e.op) \o WriteAs(e.e, 7)
      [] e.k = "binary" -> WriteAs(e.l, Tightness(e)) \o Tok(e.op) \o WriteAs(e.r, Tightness(e) + 1)
      [] e.k = "index" -> WriteAs(e.base, 8) \o Tok("[") \o Write(e.ix) \o Tok("]")
      [] e.k = "field" -> WriteAs(e.base, 8) \o Tok(".") \o Spelled(e.name)
      [] e.k = "call" -> Spelled(e.name) \o Tok("(") \o WriteAll(e.args) \o Tok(")")
      [] e.k = "conv" -> Tok(e.to.k) \o Tok("(") \o WriteAll(e.args) \o Tok(")")
      [] e.k = "list" -> Tok("[") \o WriteAll(e.es) \o Tok("]")
      [] e.k = "new" -> Spelled(e.name) \o Tok("{") \o
            Listed([i \in DOMAIN e.fields |-> Spelled(e.fields[i].name) \o Tok(":") \o Write(e.fields[i].e)], Tok(","))
            \o Tok("}")

RECURSIVE WriteType(_)
WriteType(ty) ==
    CASE ty.k = "struct" -> Spelled(ty.name)
      [] ty.k = "array" -> Tok("[") \o WriteType(ty.el) \o Tok(";") \o
            (IF ty.n.k = "name" THEN Spelled(ty.n.name) ELSE <<[k |-> "int", i |-> ty.n.i]>>) \o Tok("]")
      [] OTHER -> Tok(ty.k)
WriteTyped(d) == Spelled(d.name) \o Tok(":") \o WriteType(d.ty)
WriteDefined(d) == WriteTyped(d) \o Tok("=") \o Write(d.e)

RECURSIVE WriteBlock(_)
WriteBlock(block) ==
    Tok("{") \o FlattenSeq([i \in DOMAIN block |->
        LET s == block[i] IN
        CASE s.k = "let" -> Tok("let") \o WriteDefined(s)
          [] s.k = "assign" -> Write(s.target) \o Tok(IF s.op = "=" THEN "=" ELSE s.op \o "=") \o Write(s.e)
          [] s.k = "expr" -> Write(s.e)
          [] s.k = "if" -> Tok("if") \o Write(s.c) \o WriteBlock(s.then) \o
                           (IF s.elses = <<>> THEN <<>> ELSE Tok("else") \o WriteBlock(s.elses[1]))
          [] s.k = "while" -> Tok("while") \o Write(s.c) \o WriteBlock(s.body)
          [] s.k = "for" -> Tok("for") \o Spelled(s.name) \o Tok("in") \o Write(s.lo) \o Tok("..") \o Write(s.hi)
                            \o WriteBlock(s.body)
          [] s.k = "return" -> Tok("return") \o (IF s.es = <<>> THEN Tok(";") ELSE Write(s.es[1]))])
    \o Tok("}")

WriteFunction(f) ==
    LET params == Tok("(") \o Listed([i \in DOMAIN f.params |-> WriteTyped(f.params[i])], Tok(",")) \o Tok(")")
    IN  (CASE f.kind = "named" -> Tok("fn") \o Spelled(f.name) \o params \o Tok("->") \o WriteType(f.ret)
           [] f.kind = "update" -> Tok("update") \o params
           [] OTHER -> Tok(f.kind)) \o WriteBlock(f.body)
WriteStruct(s) ==
    Tok("struct") \o Spelled(s.name) \o Tok("{") \o
        Listed([i \in DOMAIN s.fields |-> WriteTyped(s.fields[i])], Tok(",")) \o Tok("}")
WriteFile(imports, program, root) ==
    (IF root THEN Tok("game") \o Text("title") ELSE <<>>)
        \o FlattenSeq([i \in DOMAIN program.functions |-> WriteFunction(program.functions[i])])
        \o FlattenSeq([i \in DOMAIN imports |->
               Tok("import") \o Text(imports[i].path) \o Tok("as") \o Word(imports[i].alias)])
        \o FlattenSeq([i \in DOMAIN program.globals |-> Tok("let") \o WriteDefined(program.globals[i])])
        \o FlattenSeq([i \in DOMAIN program.constants |-> Tok("const") \o WriteDefined(program.constants[i])])
        \o FlattenSeq([i \in DOMAIN program.structs |-> WriteStruct(program.structs[i])])
        \o Tok("eof")
-----------------------------------------------------------------------------
(* The depth of an expression that begins at depth d, and of what holds it.  *)
(* Parentheses after a unary operator are a level of their own; elsewhere    *)
(* they are the level of the operand they enclose.                           *)
RECURSIVE Deepest(_, _)
Deepest(e, d) ==
    LET extra == IF e.k = "unary" /\ Tightness(e.e) < 7 THEN 2 ELSE 1
    IN  Max({d} \cup {Deepest(Operands(e)[i], d + extra) : i \in DOMAIN Operands(e)})
RECURSIVE DeepestType(_, _)
DeepestType(ty, d) == IF ty.k = "array" THEN DeepestType(ty.el, d + 1) ELSE d
DeepestDefined(t, d) == Max({DeepestType(t.ty, d), Deepest(t.e, d)})
RECURSIVE DeepestBlock(_, _)
DeepestBlock(block, d) ==
    Max({d} \cup UNION {
        LET s == block[i] IN
        CASE s.k = "let" -> {DeepestDefined(s, d + 1)}
          [] s.k = "assign" -> {Deepest(s.target, d + 1), Deepest(s.e, d + 1)}
          [] s.k = "expr" -> {Deepest(s.e, d + 1)}
          [] s.k = "if" -> {Deepest(s.c, d + 1), DeepestBlock(s.then, d + 1)}
                              \cup {DeepestBlock(s.elses[j], d + 1) : j \in DOMAIN s.elses}
          [] s.k = "while" -> {Deepest(s.c, d + 1), DeepestBlock(s.body, d + 1)}
          [] s.k = "for" -> {Deepest(s.lo, d + 1), Deepest(s.hi, d + 1), DeepestBlock(s.body, d + 1)}
          [] s.k = "return" -> {Deepest(s.es[j], d + 1) : j \in DOMAIN s.es} : i \in DOMAIN block})
DeepestProgram(program) ==
    Max({DeepestBlock(f.body, 1) : f \in Range(program.functions)}
        \cup UNION {{DeepestType(t.ty, 1) : t \in Range(f.params)} \cup {DeepestType(f.ret, 1)} : f \in Range(program.functions)}
        \cup {DeepestDefined(t, 1) : t \in Range(program.constants) \cup Range(program.globals)}
        \cup UNION {{DeepestType(t.ty, 1) : t \in Range(s.fields)} : s \in Range(program.structs)} \cup {0})
=============================================================================
