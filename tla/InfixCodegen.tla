----------------------------- MODULE InfixCodegen -----------------------------
(***************************************************************************)
(* CodeGenerator in Expr mode: an analysed infix program becomes postfix   *)
(* tokens.  Functions have no code of their own, every call copies the     *)
(* body with its variables and labels renamed.                             *)
(*                                                                         *)
(* What is generated, G: the code, the calls and the labels counted so far.*)
(* Where it is generated, C: the function, the number of its call, the     *)
(* arguments put in place of Clip and Literal parameters, and the names    *)
(* that other variables have at run time.  A name at run time is           *)
(* <<function, call, name>>; keywords of the language name internal ones.  *)
(***************************************************************************)
EXTENDS InfixAnalysis, ArrayTokens, TLC

Pixel(clip, offset) == [Tok("pixel", 0, 1) EXCEPT !.name = clip, !.value = offset]
VarLoad(name) == [Tok("var_load", 0, 1) EXCEPT !.name = name]
VarStore(name) == [Tok("var_store", 1, -1) EXCEPT !.name = name]
ArrayLoad(name) == [Tok("load", 0, 1) EXCEPT !.name = name]
ArrayStore(name) == [Tok("store", 1, -1) EXCEPT !.name = name]
Binary(operator) == Tok(operator, 2, -1)
\* The operators on n values, or on n and the top.
Counted(operator, n, needs, effect) == [Tok(operator, needs, effect) EXCEPT !.value = n]
UnconditionalJump(l) == <<Num(1), Goto(l)>>
JumpIfZero(l) == <<Num(0), Binary("eq"), Goto(l)>>

Nothing == [code |-> <<>>, calls |-> 0, labels |-> 0]
Emit(G, tokens) == [G EXCEPT !.code = @ \o tokens]

AtTop == [fn |-> Main, call |-> 0, subst |-> <<>>, names |-> <<>>]
\* Faulty: variables keep their names.
NameAsWritten(C, x) == <<"", 0, x>>
Name(C, x) == IF x \in DOMAIN C.names THEN C.names[x] ELSE <<"", 0, x>>
\* prefixLabels: the labels of a function are told apart by its calls.
Label(C, l) == <<C.fn.x, C.call, l>>
\* resolveParamSubstitution
Substituted(C, e) == IF e.expr = "variable" /\ e.x \in DOMAIN C.subst THEN C.subst[e.x] ELSE e
Resolved(resolved, C, e) == (CHOOSE r \in resolved : r[1] = C.fn /\ r[2] = e)[3]

OfType(f, types) == {i \in 1 .. Len(f.params) : f.params[i].type \in types}
ParamIndex(f, x) == CHOOSE i \in 1 .. Len(f.params) : f.params[i].x = x
\* The body of call number n of f, called in C with args.  Variables assigned in
\* the body are its own; an Array parameter is another name of its argument.
Inside(C, f, args, n) ==
    LET constants == {f.params[i].x : i \in OfType(f, {"Clip", "Literal"})}
        arrays == {f.params[i].x : i \in OfType(f, {"Array"})}
        values == {f.params[i].x : i \in OfType(f, {"Value"})}
    IN  [fn |-> f, call |-> n,
         subst |-> [x \in constants |-> Substituted(C, args[ParamIndex(f, x)])],
         names |-> [x \in arrays \cup values \cup Assigned(f) |->
                       IF x \in arrays THEN Name(C, args[ParamIndex(f, x)].x) ELSE <<f.x, n, x>>]]

ReturnLabel(C) == <<C.fn.x, C.call, "function">>
ReturnVariable(C) == <<C.fn.x, C.call, "return">>

RECURSIVE Expression(_, _, _, _), Arguments(_, _, _, _, _), Statements(_, _, _, _)

\* inlineFunctionCall: the values of the arguments first, in their order.
Arguments(R, C, inner, G, args) ==
    LET Stored[i \in 0 .. Len(args)] ==
            IF i = 0 THEN G
            ELSE LET before == Stored[i - 1]
                 IN  IF inner.fn.params[i].type # "Value" THEN before
                     ELSE Emit(Expression(R, C, before, args[i]), <<VarStore(Name(inner, inner.fn.params[i].x))>>)
    IN  Stored[Len(args)]
InlineFunctionCall(R, C, G, e) ==
    LET inner == Inside(C, Resolved(R, C, e), e.args, G.calls)
        stored == Arguments(R, C, inner, [G EXCEPT !.calls = @ + 1], e.args)
    IN  Emit(Statements(R, inner, stored, inner.fn.body),
             <<Here(ReturnLabel(inner))>> \o
             IF ReturnsValue(inner.fn) THEN <<VarLoad(ReturnVariable(inner))>> ELSE <<>>)

\* Sorted, the n-th smallest of the k values is n-1 below the top.
Nth(n, k) == <<Counted("sort", k, k, 0), Counted("drop", n - 1, n - 1, 1 - n),
               Counted("swap", k - n, k - n + 1, 0), Counted("drop", k - n, k - n, n - k)>>

Expression(R, C, G, e) ==
    CASE e.expr = "none" -> G
      [] e.expr = "number" -> Emit(G, <<Num(e.n)>>)
      [] e.expr = "clip" -> Emit(G, <<Pixel(e.x, 0)>>)
      [] e.expr = "variable" ->
             IF e.x \in DOMAIN C.subst THEN Expression(R, C, G, C.subst[e.x]) ELSE Emit(G, <<VarLoad(Name(C, e.x))>>)
      [] e.expr = "pixel" -> Emit(G, <<Pixel(Substituted(C, e.clip).x, 1)>>)
      [] e.expr = "element" -> Emit(G, <<ArrayLoad(Name(C, e.x))>>)
      [] e.expr = "binary" -> Emit(Expression(R, C, Expression(R, C, G, e.l), e.r), <<Binary("sub")>>)
      [] e.expr = "nth" ->
             Emit(FoldLeft(LAMBDA H, a : Expression(R, C, H, a), G, e.args), Nth(e.n, Len(e.args)))
      [] e.expr = "call" -> InlineFunctionCall(R, C, G, e)

BlockLabel(n, kind) == <<"", n, kind>>
\* What is written before the expression of a statement, and after it; n labels were counted before.
BeforeOperand(G, s) ==
    CASE s.stmt = "if" -> [G EXCEPT !.labels = @ + 2]
      [] s.stmt = "while" -> Emit([G EXCEPT !.labels = @ + 2], <<Here(BlockLabel(G.labels, "while"))>>)
      [] OTHER -> G
Else(R, C, G, n, body) ==
    IF body = <<>> THEN Emit(G, <<Here(BlockLabel(n, "else"))>>)
    ELSE Emit(Statements(R, C, Emit(G, UnconditionalJump(BlockLabel(n + 1, "if")) \o <<Here(BlockLabel(n, "else"))>>), body),
              <<Here(BlockLabel(n + 1, "if"))>>)
AfterGenerated(R, C, G, n, s) ==
    CASE s.stmt = "assign" -> Emit(G, <<VarStore(Name(C, s.x))>>)
      [] s.stmt = "new" -> Emit(G, <<AllocStatic(Name(C, s.x), 1)>>)
      [] s.stmt = "element" -> Emit(G, <<ArrayStore(Name(C, s.x))>>)
      [] s.stmt = "if" ->
             Else(R, C, Statements(R, C, Emit(G, JumpIfZero(BlockLabel(n, "else"))), s.then), n, s.else)
      [] s.stmt = "while" ->
             Emit(Statements(R, C, Emit(G, JumpIfZero(BlockLabel(n + 1, "while"))), s.body),
                  UnconditionalJump(BlockLabel(n, "while")) \o <<Here(BlockLabel(n + 1, "while"))>>)
      [] s.stmt = "return" ->
             Emit(G, (IF s.e = NoExpr THEN <<>> ELSE <<VarStore(ReturnVariable(C))>>) \o UnconditionalJump(ReturnLabel(C)))
      [] s.stmt = "label" -> Emit(G, <<Here(Label(C, s.l))>>)
      [] s.stmt = "goto" -> Emit(G, UnconditionalJump(Label(C, s.l)))
      [] s.stmt \in {"expr", "function"} -> G
Statement(R, C, G, s) == AfterGenerated(R, C, Expression(R, C, BeforeOperand(G, s), Operand(s)), G.labels, s)

Statements(R, C, G, body) == FoldLeft(LAMBDA H, s : Statement(R, C, H, s), G, body)

================================================================================
