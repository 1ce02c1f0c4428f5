----------------------------- MODULE MCStreamPool -----------------------------
(* Instances of StreamPool for TLC: more callers than streams. *)
EXTENDS StreamPool, TLC

CallerSymmetry == Permutations(Callers)
===============================================================================
