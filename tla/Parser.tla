-------------------------------- MODULE Parser --------------------------------
(* The parser (src/parser.rs, src/parser/expression.rs, src/parser/limits.rs) *)
(* of the tokens of one file.  A token is a record: its kind, and the name,   *)
(* number or text it carries.  The title, the resolution and sound            *)
(* declarations are left out.                                                 *)
EXTENDS Syntax, SequencesExt

CONSTANT MaxNesting   \* MAX_NESTING

DeclaredStructNames(tokens) ==
    {tokens[i + 1].name : i \in {i \in 1..Len(tokens) - 1 : tokens[i].k = "struct" /\ tokens[i + 1].k = "id"}}

(* The parser's state.  After an error it stays at the end of the file. *)
NewParser(tokens, importedStructs) ==
    [tokens |-> tokens, at |-> 1, nesting |-> 0, scopes |-> <<>>, ok |-> TRUE,
     structs |-> {<<name>> : name \in DeclaredStructNames(tokens)} \cup importedStructs]
Parsed(s, v) == [s |-> s, v |-> v]
Nothing == [k |-> "nothing"]
Current(s) == s.tokens[s.at]
At(s, kind) == Current(s).k = kind
Skip(s) == IF At(s, "eof") THEN s ELSE [s EXCEPT !.at = @ + 1]
SyntaxError(s) == [s EXCEPT !.ok = FALSE, !.at = Len(s.tokens)]
Expect(s, kind) == IF s.ok /\ At(s, kind) THEN Skip(s) ELSE SyntaxError(s)
Optional(s, kind) == IF At(s, kind) THEN Skip(s) ELSE s
Identifier(s) == IF s.ok /\ At(s, "id") THEN Parsed(Skip(s), <<Current(s).name>>) ELSE Parsed(SyntaxError(s), <<>>)
QualifiedName(out) ==
    LET member == Identifier(Skip(out.s))
    IN  IF ~At(out.s, "::") THEN out
        ELSE IF At(member.s, "::") THEN Parsed(SyntaxError(member.s), <<>>)
        ELSE Parsed(member.s, out.v \o member.v)

(* nested: around an expression, a block, a type and a unary operand. *)
Deeper(s) == IF s.nesting = MaxNesting THEN SyntaxError(s) ELSE [s EXCEPT !.nesting = @ + 1]
Shallower(out) == [out EXCEPT !.s.nesting = @ - 1]
RECURSIVE TreeHeight(_)
TreeHeight(e) == 1 + Max({TreeHeight(operand) : operand \in Range(Operands(e))} \cup {0})
Checked(s, e) ==
    IF ~s.ok THEN Parsed(s, Nothing)
    ELSE IF s.nesting + TreeHeight(e) - 1 > MaxNesting THEN Parsed(SyntaxError(s), Nothing) ELSE Parsed(s, e)
-----------------------------------------------------------------------------
(* Deviation: both logical operators bind alike. *)
LevelsMerged == <<Logical, {"==", "!="}, Orderings, {"+", "-"}, {"*", "/", "%"}>>
(* Binary operators from the loosest to the tightest; all group to the left. *)
Levels == <<{"||"}, {"&&"}, {"==", "!="}, Orderings, {"+", "-"}, {"*", "/", "%"}>>

RECURSIVE ParseLevel(_, _)
ParseExpression(s) == Shallower(ParseLevel(Deeper(s), 1))

RECURSIVE ParseList(_, _, _)
ParseList(s, close, es) ==   \* an array literal may end in a comma
    LET e == ParseExpression(s)
        all == Append(es, e.v)
    IN  IF At(s, close) /\ (es = <<>> \/ close = "]") THEN Parsed(Skip(s), es)
        ELSE IF ~e.s.ok THEN e
        ELSE IF At(e.s, ",") THEN ParseList(Skip(e.s), close, all)
        ELSE Parsed(Expect(e.s, close), all)

RECURSIVE ParseInitializers(_, _)
ParseInitializers(s, fields) ==
    LET name == Identifier(s)
        value == ParseExpression(Expect(name.s, ":"))
    IN  IF At(s, "}") \/ At(s, "eof") THEN Parsed(Expect(s, "}"), fields)
        ELSE ParseInitializers(Optional(value.s, ","), Append(fields, Named(name.v, value.v)))

(* A name before a brace: a struct literal, unless a variable has the name. *)
IsValueBinding(s, name) == \E i \in DOMAIN s.scopes : name \in s.scopes[i]
LooksLikeStructLiteral(s, name) ==
    /\ At(s, "{") /\ ~IsValueBinding(s, name)
    /\ \/ name \in s.structs
       \/ s.at + 2 <= Len(s.tokens) /\ s.tokens[s.at + 1].k = "id" /\ s.tokens[s.at + 2].k = ":"

ParseNamed(s) ==
    LET name == QualifiedName(Identifier(s))
        fields == ParseInitializers(Skip(name.s), <<>>)
        args == ParseList(Skip(name.s), ")", <<>>)
    IN  CASE ~name.s.ok -> name
          [] LooksLikeStructLiteral(name.s, name.v) -> Checked(fields.s, New(name.v, fields.v))
          [] At(name.s, "(") -> Checked(args.s, Call(name.v, args.v))
          [] OTHER -> Checked(name.s, V(name.v))

ParsePrimary(s) ==
    LET token == Current(s)
        elements == ParseList(Skip(s), "]", <<>>)
        args == ParseList(Expect(Skip(s), "("), ")", <<>>)
        inner == ParseExpression(Skip(s))
    IN  CASE token.k = "int" -> Checked(Skip(s), N(token.i))
          [] token.k = "float" -> Checked(Skip(s), X(token.f))
          [] token.k \in {"true", "false"} -> Checked(Skip(s), T(token.k = "true"))
          [] token.k = "[" -> Checked(elements.s, Arr(elements.v))
          [] token.k = "id" -> ParseNamed(s)
          [] token.k \in {"i32", "f32"} -> Checked(args.s, Conv([k |-> token.k], args.v))
          [] token.k = "(" -> Parsed(Expect(inner.s, ")"), inner.v)
          [] OTHER -> Parsed(SyntaxError(s), Nothing)

RECURSIVE ParsePostfix(_)
ParsePostfix(out) ==
    LET index == ParseExpression(Skip(out.s))
        field == Identifier(Skip(out.s))
    IN  CASE ~out.s.ok \/ Current(out.s).k \notin {"[", "."} -> out
          [] At(out.s, "[") -> ParsePostfix(Checked(Expect(index.s, "]"), Ix(out.v, index.v)))
          [] At(out.s, ".") -> ParsePostfix(Checked(field.s, Fld(out.v, field.v)))

RECURSIVE ParseUnary(_)
ParseUnary(s) ==
    LET operand == Shallower(ParseUnary(Deeper(Skip(s))))
    IN  IF s.ok /\ Current(s).k \in {"-", "!"} THEN Checked(operand.s, Un(Current(s).k, operand.v))
        ELSE ParsePostfix(ParsePrimary(s))

RECURSIVE ParseChain(_, _)
ParseChain(left, n) ==
    LET right == ParseLevel(Skip(left.s), n + 1)
        op == Current(left.s).k
    IN  IF ~left.s.ok \/ op \notin Levels[n] THEN left
        ELSE ParseChain(Checked(right.s, Bin(left.v, op, right.v)), n)
ParseLevel(s, n) ==
    CASE ~s.ok -> Parsed(s, Nothing)
      [] n > Len(Levels) -> ParseUnary(s)
      [] OTHER -> ParseChain(ParseLevel(s, n + 1), n)
-----------------------------------------------------------------------------
RECURSIVE ParseType(_)
ParseLength(s) ==
    LET token == Current(s)
        name == QualifiedName(Identifier(s))
    IN  CASE token.k = "-" /\ At(Skip(s), "int") -> Parsed(Skip(Skip(s)), LengthIs(-Current(Skip(s)).i))
          [] token.k = "int" -> Parsed(Skip(s), LengthIs(token.i))
          [] OTHER -> Parsed(name.s, LengthOf(name.v))
ParseArrayType(s) ==
    LET element == ParseType(s)
        length == ParseLength(Expect(element.s, ";"))
    IN  Parsed(Expect(length.s, "]"), ArrayOf(element.v, length.v))
ParseType(s0) ==
    LET s == Deeper(s0)
        name == QualifiedName(Identifier(s))
    IN  Shallower(CASE ~s.ok -> Parsed(s, Nothing)
                    [] Current(s).k \in {"i32", "f32", "bool"} -> Parsed(Skip(s), [k |-> Current(s).k])
                    [] At(s, "[") -> ParseArrayType(Skip(s))
                    [] OTHER -> Parsed(name.s, StructOf(name.v)))

(* name : type *)
ParseTyped(s) ==
    LET name == Identifier(s)
        ty == ParseType(Expect(name.s, ":"))
    IN  Parsed(ty.s, Typed(name.v, ty.v))
(* name : type = initializer, with its semicolon. *)
ParseDefined(s) ==
    LET typed == ParseTyped(s)
        e == ParseExpression(Expect(typed.s, "="))
    IN  Parsed(Optional(e.s, ";"), Defined(typed.v.name, typed.v.ty, e.v))
-----------------------------------------------------------------------------
RECURSIVE ParseStatements(_, _)
Scope(s, names) == [s EXCEPT !.scopes = Append(@, names)]
Unscope(out) == [out EXCEPT !.s.scopes = Front(@)]
ParseBlock(s) ==
    Shallower(Unscope(ParseStatements(Scope(Expect(Deeper(s), "{"), {}), <<>>)))
BlockWithBindings(s, names) == Unscope(ParseBlock(Scope(s, names)))

AssignOps == [o \in {"=", "+=", "-=", "*=", "/=", "%="} |->
    CASE o = "=" -> "=" [] o = "+=" -> "+" [] o = "-=" -> "-" [] o = "*=" -> "*" [] o = "/=" -> "/" [] o = "%=" -> "%"]

(* The variable is bound after its initializer. *)
ParseLet(s) ==
    LET d == ParseDefined(s)
    IN  Parsed([d.s EXCEPT !.scopes = Append(Front(@), Last(@) \cup {d.v.name})], Let(d.v.name, d.v.ty, d.v.e))
ParseIf(s) ==
    LET c == ParseExpression(s)
        then == ParseBlock(c.s)
        else == ParseBlock(Skip(then.s))
    IN  IF At(then.s, "else") THEN Parsed(else.s, If(c.v, then.v, <<else.v>>))
        ELSE Parsed(then.s, If(c.v, then.v, <<>>))
ParseFor(s) ==
    LET name == Identifier(s)
        lo == ParseExpression(Expect(name.s, "in"))
        hi == ParseExpression(Expect(lo.s, ".."))
        body == BlockWithBindings(hi.s, {name.v})
    IN  Parsed(body.s, For(name.v, lo.v, hi.v, body.v))
ParseReturn(s) ==
    LET e == ParseExpression(s)
    IN  IF At(s, "}") \/ At(s, ";") THEN Parsed(Optional(s, ";"), Return(<<>>))
        ELSE Parsed(Optional(e.s, ";"), Return(<<e.v>>))
ParseSimple(s) ==
    LET e == ParseExpression(s)
        right == ParseExpression(Skip(e.s))
    IN  IF Current(e.s).k \in DOMAIN AssignOps
        THEN Parsed(Optional(right.s, ";"), Assign(e.v, AssignOps[Current(e.s).k], right.v))
        ELSE Parsed(Optional(e.s, ";"), Do(e.v))
ParseStatement(s) ==
    LET kind == Current(s).k
        c == ParseExpression(Skip(s))
        body == ParseBlock(c.s)
    IN  CASE kind = "let" -> ParseLet(Skip(s)) [] kind = "if" -> ParseIf(Skip(s))
          [] kind = "while" -> Parsed(body.s, While(c.v, body.v))
          [] kind = "for" -> ParseFor(Skip(s)) [] kind = "return" -> ParseReturn(Skip(s))
          [] OTHER -> ParseSimple(s)
ParseStatements(s, block) ==
    LET statement == ParseStatement(s)
    IN  IF At(s, "}") \/ At(s, "eof") THEN Parsed(Expect(s, "}"), block)
        ELSE ParseStatements(statement.s, Append(block, statement.v))
-----------------------------------------------------------------------------
RECURSIVE ParseFields(_, _)
ParseFields(s, fields) ==
    LET field == ParseTyped(s)
    IN  IF At(s, "}") \/ At(s, "eof") THEN Parsed(Expect(s, "}"), fields)
        ELSE ParseFields(Optional(field.s, ","), Append(fields, field.v))
ParseStruct(s) ==
    LET name == Identifier(s)
        fields == ParseFields(Expect(name.s, "{"), <<>>)
    IN  Parsed(fields.s, Struct(name.v, fields.v))

RECURSIVE ParseParams(_, _)
ParseParams(s, params) ==
    LET param == ParseTyped(s)
        all == Append(params, param.v)
    IN  IF params = <<>> /\ At(s, ")") THEN Parsed(Skip(s), params)
        ELSE IF At(param.s, ",") THEN ParseParams(Skip(param.s), all)
        ELSE Parsed(Expect(param.s, ")"), all)
ParseNamedFunction(s) ==
    LET name == Identifier(s)
        params == ParseParams(Expect(name.s, "("), <<>>)
        arrow == Expect(params.s, "->")
        ret == IF At(arrow, "void") THEN Parsed(Skip(arrow), Void) ELSE ParseType(arrow)
        body == BlockWithBindings(ret.s, Names(params.v))
    IN  Parsed(body.s, Function(name.v, "named", params.v, ret.v, body.v))
ParseHook(s, kind) ==
    LET param == ParseTyped(Expect(s, "("))
        head == IF kind = "update" THEN Parsed(Expect(param.s, ")"), <<param.v>>) ELSE Parsed(s, <<>>)
        body == BlockWithBindings(head.s, Names(head.v))
    IN  Parsed(body.s, Function(<<kind>>, kind, head.v, Void, body.v))

(* import "path" as alias *)
ParseImport(s) ==
    LET alias == Identifier(Expect(Expect(s, "string"), "as"))
    IN  IF ~alias.s.ok THEN alias
        ELSE Parsed(Optional(alias.s, ";"), [alias |-> alias.v[1], path |-> Current(s).text])

EntryKinds == {"start", "update", "draw"}
RECURSIVE ParseItems(_, _, _)
ParseItems(s, program, root) ==
    LET kind == Current(s).k
        rest == Skip(s)
        With(field, out) == ParseItems(out.s, [program EXCEPT ![field] = Append(@, out.v)], root)
    IN  CASE ~s.ok \/ kind = "eof" -> Parsed(s, program)
          [] kind = "import" -> ParseItems(ParseImport(rest).s, program, root)
          [] kind = "struct" -> With("structs", ParseStruct(rest))
          [] kind = "const" -> With("constants", ParseDefined(rest))
          [] kind = "let" -> With("globals", ParseDefined(rest))
          [] kind = "fn" -> With("functions", ParseNamedFunction(rest))
          [] kind \in EntryKinds /\ root -> With("functions", ParseHook(rest, kind))
          [] OTHER -> Parsed(SyntaxError(s), program)

ParseFile(tokens, root, importedStructs) ==
    LET s == NewParser(tokens, importedStructs)
        header == IF root THEN Optional(Expect(Expect(s, "game"), "string"), ";") ELSE s
    IN  ParseItems(header, [structs |-> <<>>, constants |-> <<>>, globals |-> <<>>, functions |-> <<>>], root)

(* import_headers: the imports outside braces, before anything is parsed. *)
RECURSIVE ScanImports(_, _, _)
ScanImports(s, depth, imports) ==
    LET import == ParseImport(Skip(s))
    IN  CASE ~s.ok \/ At(s, "eof") -> Parsed(s, imports)
          [] depth = 0 /\ At(s, "import") -> ScanImports(import.s, depth, Append(imports, import.v))
          [] OTHER -> ScanImports(Skip(s), IF At(s, "{") THEN depth + 1
                                           ELSE IF At(s, "}") /\ depth > 0 THEN depth - 1 ELSE depth, imports)
ImportHeaders(tokens) == ScanImports(NewParser(tokens, {}), 0, <<>>)
=============================================================================
