------------------------------- MODULE MCArrayOpt -------------------------------
(* Instances of ArrayOpt for TLC: every program of a few phrases. *)
EXTENDS ArrayOpt

Joined(texts) == {p \o q : p, q \in texts}
\* The programs of at most four phrases (bound).
ProgramsOf(phrases) == Joined(Joined(phrases \cup {<<>>}))

MCLabels == {"k", "l", "m", "n"}
MCArrays == {"a", "b", "c"}
MCSizes == {0, 2}

\* Values, operators, allocations and accesses, two labels and the jumps to them, arguments
\* that come from the block before, two allocations of which a jump leaves one out, a value
\* that depends on the path, a loop, and one and two allocations that are made static,
\* because their sizes come from the block before.
MCPhrases ==
    {<<Num(1)>>, <<Num(0), Num(0), Modulo>>, <<Plus>>, <<AllocDyn("a")>>, <<Opaque, AllocDyn("a")>>,
     <<Opaque, Access("a"), Drop1>>,
     <<Here("m"), Opaque, Access("a"), Drop1>>,
     <<Here("l")>>, <<Opaque, Goto("l")>>, <<Here("m")>>, <<Opaque, Goto("m")>>,
     <<Num(2), Num(1), Here("l"), Plus>>, <<Opaque, Opaque, AllocDyn("a"), Goto("m")>>,
     <<Opaque, AllocDyn("a"), Opaque, Access("a"), Drop1, Opaque, Opaque, AllocDyn("a"), Goto("m")>>,
     <<Num(1), Opaque, Goto("l"), Drop1, Num(2)>>,
     <<Here("l"), Opaque, Access("a"), Drop1, Opaque, AllocDyn("a"), Opaque, Goto("l")>>,
     <<Num(1), Here("k"), AllocDyn("b")>>,
     <<Num(1), Here("k"), AllocDyn("b"), Num(1), Here("n"), AllocDyn("c")>>}

LoopPhrases ==
    {<<Opaque, AllocDyn("a")>>, <<Here("m"), Opaque, Access("a"), Drop1>>,
     <<Opaque, Opaque, AllocDyn("a"), Goto("m")>>}
MCPrograms == ProgramsOf(MCPhrases)
LoopPrograms == ProgramsOf(LoopPhrases)
================================================================================
