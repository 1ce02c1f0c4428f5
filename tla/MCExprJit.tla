------------------------------- MODULE MCExprJit -------------------------------
(* Instances of ExprJit for TLC: filters that share expressions and sizes. *)
EXTENDS ExprJit

MCFrames == {"f1", "f2", "f3"}
MCFilters == {"d1", "d2"}
\* Two requests for the first filter, one for the second.
MCFilterOf == [f \in MCFrames |-> IF f = "f3" THEN "d2" ELSE "d1"]
\* Plane 3 is copied.  The first filter has one expression on planes 1 and 2, the
\* second has another one on plane 1 and the same on plane 2.
MCProcessed == [d \in MCFilters |-> {1, 2}]
MCKey == [d \in MCFilters |-> [p \in 1 .. 3 |-> IF d = "d2" /\ p = 1 THEN "other" ELSE "k"]]
MCTiles == 1 .. 2
\* The first filter tunes, the second has a tile.
MixedTiles == [d \in MCFilters |-> IF d = "d1" THEN 0 ELSE 2]
================================================================================
