-------------------------------- MODULE MCInfix --------------------------------
(***************************************************************************)
(* Small infix programs, put together from phrases: jumps, blocks and      *)
(* loops at the top and in a function that is called twice; overloads and  *)
(* every type of parameter; functions that read globals.                   *)
(***************************************************************************)
EXTENDS Infix

MCSamples == [c \in {"x", "y"} |-> IF c = "x" THEN (0 :> 1 @@ 1 :> 2) ELSE (0 :> 2 @@ 1 :> 0)]

One == NumberExpr(1)
Two == NumberExpr(2)
X == ClipExpr("x")
Y == ClipExpr("y")
V(x) == VariableExpr(x)
Minus(l, r) == BinaryExpr(l, r)
Call1(f, a) == CallExpr(f, <<a>>)
Call2(f, a, b) == CallExpr(f, <<a, b>>)
Result(e) == AssignStmt("RESULT", e)
Value1(f, body) == FunctionDef(f, <<Param("v", "Value")>>, {}, body)
Function1(f, type, body) == FunctionDef(f, <<Param("v", type)>>, {}, body)

Less(x) == AssignStmt(x, Minus(V(x), One))
\* Ways to jump around two statements, P and Q; v is what is counted down.
Shapes(v, P, Q) == {
    <<P, Q>>,
    <<GotoStmt("l"), P, LabelStmt("l"), Q>>,
    <<LabelStmt("l"), P, IfStmt(V(v), <<Less(v), GotoStmt("l")>>, <<>>), Q>>,
    <<IfStmt(V(v), <<P, GotoStmt("l")>>, <<Q>>), LabelStmt("l")>>,
    <<IfStmt(V(v), <<P>>, <<Q, LabelStmt("l")>>), LabelStmt("k")>>,
    <<WhileStmt(V(v), <<Less(v), P>>), Q>>,
    <<WhileStmt(V(v), <<Less(v), P, IfStmt(V("a"), <<GotoStmt("l")>>, <<Q>>)>>), LabelStmt("l")>>,
    <<WhileStmt(V(v), <<P, LabelStmt("l"), Q, Less(v)>>), IfStmt(V("a"), <<Less("a"), GotoStmt("l")>>, <<>>)>>}
Lines == {AssignStmt("a", X), AssignStmt("b", Minus(V("a"), One)), AssignStmt("a", V("b")), LabelStmt("k")}
TopPrograms ==
    {<<AssignStmt("u", One)>> \o i \o s \o <<Result(V(r))>> :
        i \in {<<>>, <<AssignStmt("a", Two)>>}, s \in UNION {Shapes("u", P, Q) : P, Q \in Lines}, r \in {"a", "b"}}

\* In a function that is called twice.
Body == Lines \cup
    {AssignStmt("a", Minus(V("v"), Call1("g", V("v")))), AssignStmt("v", Call1("g", V("v"))), ReturnStmt(V("v"))}
G == Value1("g", <<IfStmt(V("v"), <<ReturnStmt(Minus(V("v"), One))>>, <<>>), AssignStmt("a", Two), ReturnStmt(V("a"))>>)
BodyPrograms ==
    {<<G, Value1("f", i \o s \o <<ReturnStmt(V(r))>>), Result(Minus(Call1("f", X), Call1("f", Two)))>> :
        i \in {<<>>, <<AssignStmt("a", V("v"))>>}, s \in UNION {Shapes("v", P, Q) : P, Q \in Body}, r \in {"a", "b"}}
    \cup {<<Value1("f", <<IfStmt(V("v"), <<GotoStmt("l")>>, <<>>), ReturnStmt(V("v")), LabelStmt("l")>>), Result(Call1("f", X))>>}

\* Overloads, and parameters of every type.
Overloads == {
    Function1("g", "Clip", <<ReturnStmt(Minus(PixelExpr(V("v")), V("v")))>>),
    Function1("g", "Clip", <<AssignStmt("v", Two), ReturnStmt(V("v"))>>),
    Function1("g", "Value", <<AssignStmt("v", Minus(V("v"), One)), ReturnStmt(V("v"))>>),
    Function1("g", "Literal", <<ReturnStmt(Minus(V("v"), X))>>),
    Function1("g", "Array", <<ArrayAssignStmt("v", Minus(ArrayAccessExpr("v"), One)), ReturnStmt(Two)>>),
    Function1("g", "Array", <<ArrayAssignStmt("v", Two)>>),
    FunctionDef("g", <<Param("v", "Value"), Param("w", "Clip")>>, {}, <<ReturnStmt(Minus(V("v"), Call1("g", V("w"))))>>),
    FunctionDef("g", <<Param("v", "Value"), Param("w", "Clip")>>, {}, <<ReturnStmt(Minus(V("v"), PixelExpr(V("w"))))>>),
    FunctionDef("g", <<Param("v", "Clip"), Param("w", "Value")>>, {}, <<ReturnStmt(Minus(V("w"), PixelExpr(V("v"))))>>)}
Callers == {
    Value1("h", <<NewArray("t"), ArrayAssignStmt("t", V("v")), AssignStmt("v", Call1("g", V("t"))),
                  ReturnStmt(Minus(ArrayAccessExpr("t"), V("v")))>>),
    Function1("h", "Clip", <<ReturnStmt(Call1("g", V("v")))>>),
    Function1("h", "Literal", <<ReturnStmt(Call2("g", V("v"), Y))>>),
    Function1("h", "Array", <<ReturnStmt(Call1("g", V("v")))>>),
    Function1("h", "Array", <<ExprStmt(Call1("g", V("v"))), ReturnStmt(ArrayAccessExpr("v"))>>),
    FunctionDef("h", <<Param("v", "Value")>>, {"u"}, <<ReturnStmt(Minus(V("u"), Call1("g", V("v"))))>>),
    FunctionDef("h", <<Param("v", "Value")>>, {"u"}, <<AssignStmt("u", Minus(V("u"), V("v"))), ReturnStmt(V("u"))>>)}
Calls == {
    Result(Call1("g", Two)), Result(Call1("g", X)), Result(Call2("g", X, Y)), Result(Call2("g", Two, X)),
    Result(Call1("h", X)), Result(Minus(Call1("h", Two), Call1("h", Y))), Result(Call1("h", V("a"))),
    Result(Minus(ArrayAccessExpr("a"), Call1("g", V("a")))),
    Result(NthExpr(2, <<Call1("h", One), X, Call1("g", One)>>)),
    Result(NthExpr(1, <<Y, Call1("h", V("a"))>>))}
Setup == <<AssignStmt("u", Two), NewArray("a"), ArrayAssignStmt("a", X)>>
CallPrograms ==
    {<<g1, g2, h>> \o Setup \o <<r>> : g1, g2 \in Overloads, h \in Callers, r \in Calls}
    \cup {<<g, h, r, AssignStmt("u", One)>> : g \in Overloads, h \in Callers, r \in Calls}
    \cup {<<g, h>> \o Setup \o <<r, WhileStmt(V("u"), <<Less("u"), c>>)>> :
            g \in Overloads, h \in Callers, r \in {Result(One)}, c \in Calls}

MCPrograms == TopPrograms \cup BodyPrograms \cup CallPrograms

================================================================================
