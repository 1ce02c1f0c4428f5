------------------------------ MODULE MCSingleExpr ------------------------------
(* Instances of SingleExpr: calls of all filters, and SingleExpr programs of three phrases. *)
EXTENDS SingleExpr

MCLabels == {"l", "k"}
MCProps == {"p", "q"}
MCArrays == {"a"}
MCIndices == {0, 1}

Clip(planes, sub, size, constant) == [planes |-> planes, sub |-> sub, size |-> size, constant |-> constant]
Formats == {NoFormat, [planes |-> 1, fits |-> TRUE], [planes |-> 3, fits |-> FALSE]}
Exprs == {<<>>, <<<<"good">>>>, <<<<"good">>, <<"empty">>>>, <<<<"good">>, <<"good">>, <<"unconvertible">>>>,
          <<<<"empty">>, <<"bad">>>>, <<<<"good", "good">>>>, <<<<"good", "empty">>>>,
          <<<<"good">>, <<"good">>, <<"good">>, <<"good">>>>}
Given(filter, clips, format, exprs, program, params) ==
    [filter |-> filter, clips |-> clips, format |-> format, exprs |-> exprs, program |-> program, params |-> params]
ClipLists ==
    {<<>>} \cup {<<Clip(n, s, 1, c)>> : n \in {1, 3}, s \in {0, 1}, c \in BOOLEAN}
        \cup {<<Clip(3, 1, 1, TRUE), Clip(1, 0, z, c)>> : z \in {1, 2}, c \in BOOLEAN}
CallsOfAll ==
    {Given(f, c, v, e, <<>>, b) : f \in {"Expr", "VkExpr", "SingleExpr"}, c \in ClipLists, v \in Formats,
                                  e \in Exprs, b \in BOOLEAN}

Phrases ==
    {<<Num(3), Set("p", t)>> : t \in {"int", "auto_int", "auto_float"}}
        \cup {<<Unset("p")>>, <<ReadProp(0, "p"), Set("q", "float")>>, <<ReadProp(1, "p"), Set("p", "int")>>,
              <<ReadProp(0, "q"), Set("p", "int")>>,
              <<PropExists(0, "p"), Set("q", "int")>>,
              <<PropExists(0, "q"), Goto("l")>>, <<Here("l")>>, <<Num(0), Num(0), ClipAbs, Drop1>>, <<Num(2)>>,
              <<PropExists(0, "p"), Goto("l"), Num(2), AllocDyn("a")>>,
              <<Num(2), AllocDyn("a")>>, <<Num(4), AllocDyn("a")>>, <<AllocStatic("a", 2)>>,
              <<Num(3), Num(0), Store("a")>>, <<Num(2), Load("a"), Set("q", "float")>>,
              <<Num(0), Load("a"), Set("p", "auto_float")>>,
              <<Num(2), AllocDyn("a"), Here("k"), Num(3), Num(0), Store("a")>>,
              <<Num(4), AllocDyn("a"), PropExists(0, "p"), Unset("p"), Goto("k")>>}
Programs == {a \o b \o c : a, b, c \in Phrases \cup {<<>>}}
One == <<Clip(3, 1, 1, TRUE), Clip(3, 1, 1, TRUE)>>
MCCalls == CallsOfAll \cup {Given("SingleExpr", One, NoFormat, <<>>, g, TRUE) : g \in Programs}

Property == {Absent, <<"int", Number(2)>>, <<"float", Number(5)>>, <<"empty", Zero>>}
MCSources == {[c \in 0 .. 1 |-> IF c = 0 THEN [p \in Props |-> IF p = "p" THEN x ELSE y]
                                ELSE [p \in Props |-> <<"data", Number(4)>>]] :
                 x \in Property, y \in {Absent, <<"float", Number(5)>>}}
================================================================================
