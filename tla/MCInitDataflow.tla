----------------------------- MODULE MCInitDataflow -----------------------------
(* Instances of InitDataflow for TLC: every program up to a length. *)
EXTENDS InitDataflow

MCLabels == {"l", "m"}
MCNames == {"x", "y"}
UpTo(n, alphabet) == UNION {[1 .. k -> alphabet] : k \in 0 .. n}

\* One name for a variable and an array, two labels.
Variables == UpTo(5, {Store("x"), Load("x"), AllocDyn("x"), Here("l"), Goto("l"), Here("m"), Goto("m")})
\* Static and dynamic allocations of one array.
Arrays ==
    UpTo(5, {AllocStatic("x"), AllocDyn("x"), Access("x"), Here("l"), Goto("l"), Here("m"), Goto("m")})
Either == Variables \cup Arrays
================================================================================
