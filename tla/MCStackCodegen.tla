----------------------------- MODULE MCStackCodegen -----------------------------
(* Instances of StackCodegen for TLC: every program up to a length. *)
EXTENDS StackCodegen

MCLabels == {"a", "b"}
Operators == {Op(0, 1), Op(2, -1)}
Jumps == {LabelDef("a"), Jump("a"), Jump("b"), LabelDef("b")}
UpTo(alphabet, n) == UNION {[1 .. k -> alphabet] : k \in 0 .. n}
EndsWithJump(p) == Len(p) > 0 /\ p[Len(p)].kind = "jump"

LoopAlphabet == Operators \cup {Dup(0), Swap(1), LabelDef("a"), Jump("a")}
Has(p, t) == \E i \in DOMAIN p : p[i] = t
\* Six tokens that start with a value and go to their label.
Loops == {p \in {Op(0, 1)} \X LoopAlphabet \X LoopAlphabet \X LoopAlphabet \X LoopAlphabet
                    \X (LoopAlphabet \ {Jump("a")}) :
             Has(p, Jump("a")) /\ Has(p, LabelDef("a"))}

\* Two labels and drop for the analysis; dup, swap and loops for the generated code.
MCPrograms == UpTo(Operators \cup Jumps \cup {Drop(1)}, 5) \cup UpTo(LoopAlphabet, 4) \cup Loops
Jumping == {p \in UpTo(Operators \cup {LabelDef("a"), Jump("a")}, 4) : EndsWithJump(p)}
================================================================================
