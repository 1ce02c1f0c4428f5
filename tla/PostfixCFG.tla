------------------------------ MODULE PostfixCFG ------------------------------
(***************************************************************************)
(* Postfix programs and their control-flow graph, as BuildCFGPass builds   *)
(* it.  A program is a sequence of tokens; what an operator computes is    *)
(* left out, its arity and its stack effect are kept.  A block is named by *)
(* the index of its first token.                                           *)
(***************************************************************************)
EXTENDS Integers, Sequences

CONSTANT Labels  \* the label names of the programs

\* get_token_behavior: what a token needs on the stack and what it adds to it.
\* Only labels and jumps have a name.
Op(needs, adds) == [kind |-> "op", label |-> "", arity |-> needs, effect |-> adds]
LabelDef(l) == [kind |-> "label", label |-> l, arity |-> 0, effect |-> 0]
Jump(l) == [kind |-> "jump", label |-> l, arity |-> 1, effect |-> -1]

Dup(n) == [Op(n + 1, 1) EXCEPT !.kind = "dup"]
Drop(n) == Op(n, -n)
Swap(n) == [Op(n + 1, 0) EXCEPT !.kind = "swap"]
SortN(n) == Op(n, 0)
ArgMinMax(n) == Op(n, 1 - n)
PropStore(deletes) == IF deletes THEN Op(0, 0) ELSE Op(1, -1)

Token == [kind : {"op", "dup", "swap", "label", "jump"}, label : Labels \cup {""}, arity : Nat, effect : Int]

\* A block starts the program, at a label, or after a jump.
IsStart(p, i) ==
    \/ i = 1
    \/ p[i].kind = "label"
    \/ p[i - 1].kind = "jump"

Defines(p, i, l) == p[i].kind = "label" /\ p[i].label = l

DuplicateLabel(p) ==
    \E i, j \in 1 .. Len(p) : i # j /\ p[i].kind = "label" /\ Defines(p, j, p[i].label)

UndefinedLabel(p) ==
    \E i \in 1 .. Len(p) :
        p[i].kind = "jump" /\ \A j \in 1 .. Len(p) : ~Defines(p, j, p[i].label)

TargetOf(p, i) == CHOOSE j \in 1 .. Len(p) : Defines(p, j, p[i].label)

\* The successors of the block whose last token is i: the target of a jump, then
\* the next block; a jump that ends the program has no next block.
Successors(p, i) ==
    LET jumps == p[i].kind = "jump"
        falls == i < Len(p)
    IN  CASE jumps /\ falls   -> <<TargetOf(p, i), i + 1>>
          [] jumps /\ ~falls  -> <<TargetOf(p, i)>>
          [] ~jumps /\ falls  -> <<i + 1>>
          [] ~jumps /\ ~falls -> <<>>

===============================================================================
