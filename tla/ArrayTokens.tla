------------------------------ MODULE ArrayTokens ------------------------------
(***************************************************************************)
(* Tokens with values and arrays, and what ValidationPass requires of the  *)
(* arrays of a program, stated over its paths: an access is behind an      *)
(* allocation, and nothing allocates again what is allocated statically.   *)
(***************************************************************************)
EXTENDS PostfixCFG, FiniteSets

NoName == "none"

\* name: an array, or whatever else the token is about.
Tok(kind, arity, effect) ==
    [kind |-> kind, label |-> "", name |-> NoName, value |-> 0, arity |-> arity, effect |-> effect]
Num(n) == [Tok("num", 0, 1) EXCEPT !.value = n]
Drop1 == Tok("drop", 1, -1)
AllocDyn(a) == [Tok("alloc_dyn", 1, -1) EXCEPT !.name = a]
AllocStatic(a, n) == [Tok("alloc_static", 0, 0) EXCEPT !.name = a, !.value = n]
Here(l) == [Tok("label", 0, 0) EXCEPT !.label = l]
Goto(l) == [Tok("jump", 1, -1) EXCEPT !.label = l]

Allocates(t) == t.kind \in {"alloc_static", "alloc_dyn"}
AccessTo(a, t) == t.kind \in {"access", "load", "store"} /\ t.name = a

NextOf(p, i) == {Successors(p, i)[k] : k \in 1 .. Len(Successors(p, i))}
\* The tokens of p that can be reached from some, but not through others, in n steps or fewer.
Reached(p, from, stops) ==
    LET reached[n \in Nat] ==
            IF n = 0 THEN from
            ELSE LET before == reached[n - 1]
                 IN  before \cup UNION {NextOf(p, i) : i \in before \ stops}
    IN  reached
ReachableFrom(p, from, stops) == Reached(p, from, stops)[Len(p)]

AllocationsOf(p, a) == {i \in 1 .. Len(p) : Allocates(p[i]) /\ p[i].name = a}
AccessesTo(p, a) == {i \in 1 .. Len(p) : AccessTo(a, p[i])}
Accessed(p) == {p[i].name : i \in {k \in 1 .. Len(p) : AccessTo(p[k].name, p[k])}}

Initialised(p) ==
    \A a \in Accessed(p) :
        ReachableFrom(p, {1}, AllocationsOf(p, a)) \cap AccessesTo(p, a) = {}

\* Paths through the first token are left out: the solver forgets them.
AllocatedOnce(p) ==
    \A i \in 1 .. Len(p) : p[i].kind = "alloc_static" =>
        AllocationsOf(p, p[i].name) \cap ReachableFrom(p, NextOf(p, i) \ {1}, {1}) \subseteq {1}

================================================================================
