-------------------------------- MODULE Sema --------------------------------
(* The semantic analysis of a program (src/sema.rs).  A diagnostic rejects   *)
(* the program; which diagnostics there are is left out: Bad stands for an   *)
(* expression or a statement that has one.                                   *)
EXTENDS Declarations

CONSTANT Builtins   \* predefined functions: name, params, ret

Bad == [k |-> "bad"]

(* The innermost binding of a name: local scopes, then globals, then         *)
(* constants.                                                                *)
Bindings(env) == env.constants \o env.globals \o FlattenSeq(env.scopes)
Bound(env, name) == name \in Names(Bindings(env))
Binding(env, name) == Declared(Bindings(env), name)
Bind(name, ty, mutability) == [name |-> name, ty |-> ty, mut |-> mutability]

(* An index that folds to a constant must be in range. *)
IndexFits(index, length, env) ==
    LET known == {n \in DOMAIN env.values : Bound(env, n) /\ Binding(env, n).mut = "constant"}
        cache == [values |-> [n \in known |-> env.values[n]], failures |-> {}, globals |-> {}]
        r == Resume(Evaluation(index, Untyped), <<>>, cache).result
    IN  r.k = "i32" => 0 <= r.i /\ r.i < length

HasField(struct, name, structs) ==
    struct.k = "struct" /\ struct.name \in Names(structs)
    /\ name \in Names(Declared(structs, struct.name).fields)
FieldType(struct, name, structs) == Declared(Declared(structs, struct.name).fields, name).ty

BinaryType(l, op, r) ==
    CASE Bad \in {l, r} -> Bad
      [] op \in Logical -> IF l = Bool /\ r = Bool THEN Bool ELSE Bad
      [] l # r -> Bad
      [] op = "%" -> IF l = I32 THEN l ELSE Bad
      [] op \in Arithmetic -> IF Numeric(l) THEN l ELSE Bad
      [] op \in Orderings -> IF Numeric(l) THEN Bool ELSE Bad
      [] OTHER -> IF Scalar(l) THEN Bool ELSE Bad

UnaryType(op, ty) ==
    CASE op = "-" /\ Numeric(ty) -> ty [] op = "!" /\ ty = Bool -> Bool [] OTHER -> Bad

RECURSIVE InferExpr(_, _)
RequireValue(e, env) == LET ty == InferExpr(e, env) IN IF ty = Void THEN Bad ELSE ty

(* An array literal takes the type that is declared for it. *)
RECURSIVE RequireValueAs(_, _, _)
RequireValueAs(e, want, env) ==
    CASE HasInvalidLength(want) -> want
      [] e.k = "list" ->
            IF /\ ResolvedArray(want) /\ Len(e.es) = want.n.i
               /\ \A i \in DOMAIN e.es : RequireValueAs(e.es[i], want.el, env) = want.el
            THEN want ELSE Bad
      [] OTHER -> RequireValue(e, env)

InferIndex(base, index, env) ==
    IF base.k = "array" /\ ~HasInvalidLength(base) /\ RequireValue(index, env) = I32
       /\ IndexFits(index, base.n.i, env)
    THEN base.el ELSE Bad

InferStructLiteral(e, env) ==
    IF /\ e.name \in Names(env.structs) /\ Unique(e.fields)
       /\ LET fields == Declared(env.structs, e.name).fields IN
          /\ Names(e.fields) = Names(fields)
          /\ \A i \in DOMAIN e.fields :
                RequireValueAs(e.fields[i].e, Declared(fields, e.fields[i].name).ty, env)
                    = Declared(fields, e.fields[i].name).ty
    THEN StructOf(e.name) ELSE Bad

InferCall(e, env) ==
    IF /\ e.name \in Names(env.functions)
       /\ LET params == Declared(env.functions, e.name).params IN
          /\ Len(e.args) = Len(params)
          /\ \A i \in DOMAIN params : RequireValueAs(e.args[i], params[i].ty, env) = params[i].ty
    THEN Declared(env.functions, e.name).ret ELSE Bad

InferExpr(e, env) ==
    CASE e.k = "int" -> IF Fits(e.i) THEN I32 ELSE Bad
      [] e.k = "float" -> IF Finite(e.f) THEN F32 ELSE Bad
      [] e.k = "truth" -> Bool
      [] e.k = "list" -> Bad
      [] e.k = "new" -> InferStructLiteral(e, env)
      [] e.k = "var" -> IF Bound(env, e.name) THEN Binding(env, e.name).ty ELSE Bad
      [] e.k = "index" -> InferIndex(RequireValue(e.base, env), e.ix, env)
      [] e.k = "field" -> LET base == RequireValue(e.base, env)
                          IN  IF HasField(base, e.name, env.structs)
                              THEN FieldType(base, e.name, env.structs) ELSE Bad
      [] e.k = "unary" -> IF Smallest(e) THEN I32 ELSE UnaryType(e.op, RequireValue(e.e, env))
      [] e.k = "binary" -> BinaryType(RequireValue(e.l, env), e.op, RequireValue(e.r, env))
      [] e.k = "call" -> InferCall(e, env)
      [] e.k = "conv" -> IF Len(e.args) = 1 /\ Numeric(InferExpr(e.args[1], env)) THEN e.to ELSE Bad

(* A place that is assigned to: its type and the mutability of its root. *)
RECURSIVE InferLvalue(_, _)
InferLvalue(e, env) ==
    CASE e.k = "var" -> IF Bound(env, e.name) THEN Binding(env, e.name) ELSE Bind("", Bad, "none")
      [] e.k = "index" -> LET root == InferLvalue(e.base, env)
                          IN  [root EXCEPT !.ty = InferIndex(root.ty, e.ix, env)]
      [] e.k = "field" -> LET root == InferLvalue(e.base, env)
                          IN  [root EXCEPT !.ty = IF HasField(root.ty, e.name, env.structs)
                                                  THEN FieldType(root.ty, e.name, env.structs) ELSE Bad]
      [] OTHER -> Bind("", Bad, "none")

AssignmentFits(s, env) ==
    LET place == InferLvalue(s.target, env)
        actual == IF s.op = "=" THEN RequireValueAs(s.e, place.ty, env) ELSE RequireValue(s.e, env)
    IN  /\ place.ty # Bad /\ place.mut = "mutable" /\ actual = place.ty
        /\ s.op # "=" => Numeric(place.ty)
        /\ s.op = "%" => place.ty = I32

ReturnFits(s, env) ==
    IF env.ret = Void \/ s.es = <<>> THEN env.ret = Void /\ s.es = <<>>
    ELSE env.ret = IF s.es[1].k = "list" THEN RequireValueAs(s.es[1], env.ret, env)
                   ELSE InferExpr(s.es[1], env)
-----------------------------------------------------------------------------
(* Statements: the scopes after one, or no scopes when it has a diagnostic.  *)
Declare(env, binding) == [env EXCEPT !.scopes = Append(Front(@), Append(Last(@), binding))]
Enter(env, scope) == [env EXCEPT !.scopes = Append(@, scope)]
Reject(env) == [env EXCEPT !.ok = FALSE]
Require(env, condition) == IF condition THEN env ELSE Reject(env)

RECURSIVE CheckStatements(_, _)
NestedFits(block, env, scope) == CheckStatements(block, Enter(env, scope)).ok

CheckStatement(env, s) ==
    CASE s.k = "let" ->
            Declare(Require(env, /\ s.name \notin DOMAIN Predefined
                                 /\ RequireValueAs(s.e, s.ty, env) = s.ty
                                 /\ s.name \notin Names(Last(env.scopes))),
                    Bind(s.name, s.ty, "mutable"))
      [] s.k = "assign" -> Require(env, AssignmentFits(s, env))
      [] s.k = "expr" -> Require(env, InferExpr(s.e, env) # Bad)
      [] s.k = "if" -> Require(env, /\ RequireValue(s.c, env) = Bool
                                    /\ NestedFits(s.then, env, <<>>)
                                    /\ \A i \in DOMAIN s.elses : NestedFits(s.elses[i], env, <<>>))
      [] s.k = "while" -> Require(env, RequireValue(s.c, env) = Bool /\ NestedFits(s.body, env, <<>>))
      [] s.k = "for" -> Require(env, /\ RequireValue(s.lo, env) = I32 /\ RequireValue(s.hi, env) = I32
                                     /\ s.name \notin DOMAIN Predefined
                                     /\ NestedFits(s.body, env, <<Bind(s.name, I32, "loop")>>))
      [] s.k = "return" -> Require(env, ReturnFits(s, env))

CheckStatements(block, env) == FoldLeft(CheckStatement, env, block)

RECURSIVE BlockReturns(_)
BlockReturns(block) ==
    \E i \in DOMAIN block :
        \/ block[i].k = "return"
        \/ /\ block[i].k = "if" /\ block[i].elses # <<>>
           /\ BlockReturns(block[i].then) /\ BlockReturns(block[i].elses[1])

CheckFunction(f, env) ==
    /\ Unique(f.params) /\ Names(f.params) \cap DOMAIN Predefined = {}
    /\ CheckStatements(f.body,
          [env EXCEPT !.ret = f.ret,
                      !.scopes = <<[i \in DOMAIN f.params |-> Bind(f.params[i].name, f.params[i].ty, "mutable")]>>]).ok
    /\ f.ret = Void \/ BlockReturns(f.body)
    /\ f.kind = "update" => Len(f.params) = 1 /\ f.params[1].ty = F32
-----------------------------------------------------------------------------
RECURSIVE CompileTime(_, _)
CompileTime(e, globals) ==
    /\ e.k # "call" /\ ~(e.k = "var" /\ e.name \in globals)
    /\ \A i \in DOMAIN Operands(e) : CompileTime(Operands(e)[i], globals)

NamedFunctions(program) == SelectSeq(program.functions, LAMBDA f : f.kind = "named")
TopLevel(program) ==
    [i \in DOMAIN program.structs |-> [name |-> program.structs[i].name]]
        \o [i \in DOMAIN program.constants |-> [name |-> program.constants[i].name]]
        \o [i \in DOMAIN program.globals |-> [name |-> program.globals[i].name]]
        \o [i \in DOMAIN NamedFunctions(program) |-> [name |-> NamedFunctions(program)[i].name]]
NamesFit(program) ==
    /\ Unique(TopLevel(program))
    /\ Names(TopLevel(program)) \cap (Names(Builtins) \cup DOMAIN Predefined) = {}
    /\ \A s \in Range(program.structs) : Unique(s.fields)
    /\ \A kind \in {"start", "update", "draw"} :
          Cardinality({i \in DOMAIN program.functions : program.functions[i].kind = kind}) = 1
TypesKnown(program) ==
    /\ \A ty \in Range(DeclaredTypes(program)) :
          ElementStruct(ty) \subseteq Names(program.structs) /\ ~HasInvalidLength(ty)
    /\ RecursiveStructs(program.structs) = {}

(* check: the program with its types resolved, whether it is accepted, and   *)
(* the values of its constants and globals.                                  *)
Check(source) ==
    LET lengths == LengthCache(source)
        program == ResolveProgramTypes(source, lengths)
        globals == Names(program.globals)
        predefined == SetToSeq({Bind(n, TypeOf(Predefined[n]), "constant") : n \in DOMAIN Predefined})
        Binds(ds, mutability) == [i \in DOMAIN ds |-> Bind(ds[i].name, ds[i].ty, mutability)]
        env == [structs |-> program.structs, constants |-> predefined \o Binds(program.constants, "constant"),
                globals |-> Binds(program.globals, "mutable"), values |-> Predefined,
                functions |-> Builtins \o NamedFunctions(program), ret |-> Void, scopes |-> <<<<>>>>, ok |-> TRUE]
        Structured(d) == CompileTime(d.e, globals) /\ ~ResolutionFailed(d.ty, program.structs)
        invalid == lengths.failures \cup {d.name : d \in {d \in Range(program.constants) : ~Structured(d)}}
        Name(cache, d) == Evaluate(cache, d.name, program, "constant")
        cache == FoldLeft(Name, [NoValues(globals) EXCEPT !.failures = invalid], program.constants)
        Initial(d) == Resume(Evaluation(d.e, d.ty), program.structs, cache).result
        Fit(d) == Structured(d) /\ RequireValueAs(d.e, d.ty, env) = d.ty
    IN  [program |-> program, values |-> cache.values, failures |-> cache.failures,
         initial |-> [g \in globals |-> Initial(Declared(program.globals, g))],
         ok |-> /\ NamesFit(program) /\ TypesKnown(program)
                /\ cache.failures = {} /\ \A d \in Range(program.constants) : Fit(d)
                /\ \A d \in Range(program.globals) : Fit(d) /\ IsValue(Initial(d)) /\ TypeOf(Initial(d)) = d.ty
                /\ \A f \in Range(program.functions) :
                      CheckFunction(f, [env EXCEPT !.values = cache.values])]
=============================================================================
