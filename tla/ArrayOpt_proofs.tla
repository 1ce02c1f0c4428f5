---------------------------- MODULE ArrayOpt_proofs ----------------------------
(***************************************************************************)
(* Proofs about constant propagation and the optimisations of arrays, for  *)
(* any set of programs.                                                    *)
(*                                                                         *)
(* ConstFacts says what constant propagation has of the blocks it has      *)
(* looked at: their stacks are what their predecessors and their tokens    *)
(* give, at the depths of the paths, so a second round finds nothing new.  *)
(* PassTokens says what the tokens are after each pass; the paths and      *)
(* depths of both programs correspond (TypedForward, TypedBackward,        *)
(* ReachBack).  Executing is a simulation: the stack of the execution      *)
(* agrees with the stacks both passes have at the token.  SizesInv says    *)
(* where the sizes of an array may differ: between a removed allocation    *)
(* and the next one, a region no path leaves without an allocation.        *)
(***************************************************************************)
EXTENDS ArrayOpt, ArrayTokens_proofs, SequenceTheorems

-------------------------------------------------------------------------------
(* Tokens and blocks *)

\* A program whose labels BuildCFGPass accepts.
ProgramInv == program \in Programs /\ ~DuplicateLabel(program) /\ ~UndefinedLabel(program)

\* What the tokens of a kind are like.
LEMMA TokenFacts ==
    ASSUME NEW t \in TokenRecord, IsToken(t)
    PROVE  /\ t.arity \in Nat /\ t.effect \in Int /\ t.arity + t.effect \in Nat
           /\ t.kind = "num" => t.value \in Nat
           /\ t.kind \in {"add", "mod"} => t.arity = 2 /\ t.effect = -1
           /\ t.kind = "label" => t.arity = 0 /\ t.effect = 0
           /\ t.kind = "jump" => t.arity = 1 /\ t.effect = -1
           /\ t.kind = "alloc_dyn" => t.arity = 1 /\ t.effect = -1 /\ t.name \in Arrays
           /\ t.kind = "alloc_static" => t.arity = 0 /\ t.effect = 0 /\ t.name \in Arrays /\ t.value \in Nat
           /\ t.kind = "access" => t.name \in Arrays
           /\ t.kind \notin {"load", "store"}
<1> DEFINE Is(kind, arity, effect) == t.kind = kind /\ t.arity = arity /\ t.effect = effect
<1>0. t.value \in Nat
  BY DEF TokenRecord
<1>1. CASE t = Num(t.value) \/ t \in {Opaque, Plus, Modulo, Drop1}
  <2>1. t = Num(t.value) => Is("num", 0, 1)
    BY DEF Tok, Num
  <2>2. /\ Opaque.kind = "op" /\ Opaque.arity = 0 /\ Opaque.effect = 1
        /\ Plus.kind = "add" /\ Plus.arity = 2 /\ Plus.effect = -1
        /\ Modulo.kind = "mod" /\ Modulo.arity = 2 /\ Modulo.effect = -1
        /\ Drop1.kind = "drop" /\ Drop1.arity = 1 /\ Drop1.effect = -1
    BY DEF Tok, Opaque, Plus, Modulo, Drop1
  <2>3. Is("num", 0, 1) \/ Is("op", 0, 1) \/ Is("add", 2, -1) \/ Is("mod", 2, -1) \/ Is("drop", 1, -1)
    BY <1>1, <2>1, <2>2
  <2>4. QED
    BY <1>0, <2>3
<1>2. CASE t.label \in Labels /\ t \in {Here(t.label), Goto(t.label)}
  <2>1. Is("label", 0, 0) \/ Is("jump", 1, -1)
    BY <1>2 DEF Tok, Here, Goto
  <2>2. QED
    BY <2>1
<1>3. CASE t.name \in Arrays /\ t \in {Access(t.name), AllocDyn(t.name), AllocStatic(t.name, t.value)}
  <2>1. Is("access", 1, 0) \/ Is("alloc_dyn", 1, -1) \/ Is("alloc_static", 0, 0)
    BY <1>3 DEF Tok, Access, AllocDyn, AllocStatic
  <2>2. QED
    BY <1>0, <1>3, <2>1
<1>4. QED
  BY <1>1, <1>2, <1>3 DEF IsToken

LEMMA ProgramFacts ==
    ASSUME ProgramInv
    PROVE  /\ Len(program) \in Nat /\ Linked(program) /\ program \in Seq(TokenRecord)
           /\ \A i \in 1 .. Len(program) : program[i] \in TokenRecord /\ IsToken(program[i])
           /\ \A i \in 1 .. Len(program) : NextOf(program, i) \subseteq 1 .. Len(program)
<1>1. program \in Seq(TokenRecord) /\ \A i \in 1 .. Len(program) : IsToken(program[i])
  BY ProgramsAssumption DEF ProgramInv
<1>2. Len(program) \in Nat
  BY <1>1, LenProperties
<1>3. Linked(program)
  BY <1>2, JumpsLinked DEF ProgramInv
<1>4. QED
  BY <1>1, <1>2, <1>3, ElementOfSeq DEF Linked

\* Where the jumps and the other tokens lead.
LEMMA NextFacts ==
    ASSUME ProgramInv, NEW i \in 1 .. Len(program)
    PROVE  /\ program[i].kind = "jump" =>
                  /\ TargetOf(program, i) \in 1 .. Len(program)
                  /\ program[TargetOf(program, i)].kind = "label"
                  /\ program[TargetOf(program, i)].label = program[i].label
           /\ NextOf(program, i) = (IF program[i].kind = "jump" THEN {TargetOf(program, i)} ELSE {})
                                       \cup (IF i < Len(program) THEN {i + 1} ELSE {})
<1>0. Len(program) \in Nat
  BY ProgramFacts
<1>1. program[i].kind = "jump" =>
          /\ TargetOf(program, i) \in 1 .. Len(program)
          /\ program[TargetOf(program, i)].kind = "label"
          /\ program[TargetOf(program, i)].label = program[i].label
  <2> SUFFICES ASSUME program[i].kind = "jump"
               PROVE  /\ TargetOf(program, i) \in 1 .. Len(program)
                      /\ Defines(program, TargetOf(program, i), program[i].label)
    BY DEF Defines
  <2>1. \E j \in 1 .. Len(program) : Defines(program, j, program[i].label)
    BY DEF UndefinedLabel, ProgramInv
  <2>2. QED
    BY <2>1 DEF TargetOf
<1>2. \A k \in NextOf(program, i) : k = i + 1 \/ (program[i].kind = "jump" /\ k = TargetOf(program, i))
  BY <1>0, JumpsLinked DEF ProgramInv
<1>3. NextOf(program, i) \subseteq 1 .. Len(program)
  BY ProgramFacts
<1>4. /\ i < Len(program) => i + 1 \in NextOf(program, i)
      /\ program[i].kind = "jump" => TargetOf(program, i) \in NextOf(program, i)
  BY <1>0, JumpsLinked DEF ProgramInv
<1>5. i + 1 \in 1 .. Len(program) => i < Len(program)
  BY <1>0
<1>6. QED
  BY <1>1, <1>2, <1>3, <1>4, <1>5

LEMMA BlockEnd ==
    ASSUME ProgramInv, NEW b \in Blocks
    PROVE  /\ LastOf(b) \in b .. Len(program) /\ b \in 1 .. Len(program) /\ LastOf(b) \in 1 .. Len(program)
           /\ LastOf(b) = Len(program) \/ (LastOf(b) < Len(program) /\ LastOf(b) + 1 \in Blocks)
           /\ \A k \in b + 1 .. LastOf(b) : k \notin Blocks
<1>0. Len(program) \in Nat /\ b \in 1 .. Len(program)
  BY ProgramFacts DEF Blocks
<1> DEFINE Ends(i) == i = Len(program) \/ IsStart(program, i + 1)
           T == {i \in b .. Len(program) : Ends(i)}
<1>1. \E m \in T : \A k \in T : m <= k
  <2>1. Len(program) \in T /\ T \in SUBSET Nat
    BY <1>0
  <2> HIDE DEF T
  <2>2. QED
    BY <2>1, LeastOf
<1>2. PICK m \in T : \A k \in T : m <= k
  BY <1>1
<1>3. ASSUME NEW k \in b + 1 .. m PROVE ~IsStart(program, k)
  <2>1. k - 1 \in b .. Len(program) /\ (k - 1) + 1 = k /\ ~(m <= k - 1)
    BY <1>0, <1>2, <1>3
  <2>2. k - 1 \notin T
    BY <1>2, <2>1
  <2>3. QED
    BY <2>1, <2>2
<1>4. /\ LastOf(b) \in b .. Len(program)
      /\ LastOf(b) = Len(program) \/ IsStart(program, LastOf(b) + 1)
      /\ \A k \in b + 1 .. LastOf(b) : ~IsStart(program, k)
  <2>1. \E i \in b .. Len(program) : /\ i = Len(program) \/ IsStart(program, i + 1)
                                     /\ \A k \in b + 1 .. i : ~IsStart(program, k)
    BY <1>2, <1>3
  <2> HIDE DEF T
  <2>2. QED
    BY <2>1 DEF LastOf
<1>5. QED
  BY <1>0, <1>4 DEF Blocks

\* Tokens of a block follow each other, and its last one leads to blocks.
LEMMA InBlock ==
    ASSUME ProgramInv, NEW b \in Blocks
    PROVE  /\ \A k \in b .. LastOf(b) : k < LastOf(b) => program[k].kind # "jump" /\ NextOf(program, k) = {k + 1}
           /\ NextOf(program, LastOf(b)) \subseteq Blocks
<1>0. /\ Len(program) \in Nat /\ b \in 1 .. Len(program) /\ LastOf(b) \in b .. Len(program)
      /\ LastOf(b) \in 1 .. Len(program)
  BY ProgramFacts, BlockEnd
<1>1. ASSUME NEW k \in b .. LastOf(b), k < LastOf(b)
      PROVE  program[k].kind # "jump" /\ NextOf(program, k) = {k + 1}
  <2>1. k \in 1 .. Len(program) /\ k < Len(program) /\ k + 1 \in b + 1 .. LastOf(b) /\ k + 1 \in 1 .. Len(program)
        /\ (k + 1) - 1 = k
    BY <1>0, <1>1
  <2>2. k + 1 \notin Blocks
    BY <2>1, BlockEnd
  <2>3. program[k].kind # "jump"
    BY <2>1, <2>2 DEF Blocks, IsStart
  <2>4. QED
    BY <2>1, <2>3, NextFacts
<1>2. ASSUME NEW k \in NextOf(program, LastOf(b)) PROVE k \in Blocks
  <2>1. (k = LastOf(b) + 1 /\ LastOf(b) < Len(program)) \/ (k \in 1 .. Len(program) /\ program[k].kind = "label")
    BY <1>0, <1>2, NextFacts
  <2>2. CASE k = LastOf(b) + 1 /\ LastOf(b) < Len(program)
    BY <1>0, <2>2, BlockEnd
  <2>3. CASE k \in 1 .. Len(program) /\ program[k].kind = "label"
    BY <2>3 DEF Blocks, IsStart
  <2>4. QED
    BY <2>1, <2>2, <2>3
<1>3. QED
  BY <1>1, <1>2

\* Every token is in one block.
LEMMA OneBlock ==
    ASSUME ProgramInv, NEW i \in 1 .. Len(program)
    PROVE  /\ BlockOf(i) \in Blocks /\ BlockOf(i) <= i /\ i <= LastOf(BlockOf(i))
           /\ \A b \in Blocks : b <= i /\ i <= LastOf(b) => b = BlockOf(i)
<1>0. Len(program) \in Nat
  BY ProgramFacts
<1> DEFINE T == {m \in 0 .. i - 1 : i - m \in Blocks}
<1>1. \E m \in T : \A k \in T : m <= k
  <2>1. i - 1 \in T /\ T \in SUBSET Nat
    BY <1>0 DEF Blocks, IsStart
  <2> HIDE DEF T
  <2>2. QED
    BY <2>1, LeastOf
<1>2. PICK m \in T : \A k \in T : m <= k
  BY <1>1
<1>3. i - m \in Blocks /\ i - m <= i /\ m \in 0 .. i - 1
  BY <1>2
<1>4. LastOf(i - m) \in i - m .. Len(program)
  BY <1>3, BlockEnd
<1>5. i <= LastOf(i - m)
  <2> SUFFICES ASSUME ~(i <= LastOf(i - m)) PROVE FALSE
    OBVIOUS
  <2> DEFINE c == LastOf(i - m) + 1
  <2>1. c \in Blocks /\ c \in Int /\ c <= i /\ c > i - m
    <3>1. LastOf(i - m) # Len(program)
      BY <1>0, <1>4
    <3>2. QED
      BY <1>0, <1>3, <1>4, <3>1, BlockEnd
  <2>2. i - c \in T
    <3>1. i - (i - c) = c /\ i - c \in 0 .. i - 1
      BY <1>3, <2>1
    <3>2. QED
      BY <2>1, <3>1
  <2>3. QED
    BY <1>2, <1>3, <2>1, <2>2
<1>6. \E b \in Blocks : b <= i /\ i <= LastOf(b)
  BY <1>3, <1>5
<1>7. BlockOf(i) \in Blocks /\ BlockOf(i) <= i /\ i <= LastOf(BlockOf(i))
  BY <1>6 DEF BlockOf
<1>8. ASSUME NEW b \in Blocks, NEW c \in Blocks, b <= i, i <= LastOf(b), c <= i, i <= LastOf(c), b < c PROVE FALSE
  <2>1. b \in Nat /\ c \in Nat /\ LastOf(b) \in Nat
    BY BlockEnd, <1>0
  <2>2. c \in b + 1 .. LastOf(b)
    BY <1>8, <2>1
  <2>3. QED
    BY <2>2, BlockEnd
<1>9. ASSUME NEW b \in Blocks, b <= i, i <= LastOf(b) PROVE b = BlockOf(i)
  <2>1. b \in Nat /\ BlockOf(i) \in Nat
    BY <1>0, <1>7 DEF Blocks
  <2>2. ~(b < BlockOf(i)) /\ ~(BlockOf(i) < b)
    BY <1>7, <1>8, <1>9
  <2>3. QED
    BY <2>1, <2>2
<1>10. QED
  BY <1>7, <1>9

-------------------------------------------------------------------------------
(* What Depths computes *)

\* A program whose paths and depths can be followed.
Shaped(p) == Linked(p) /\ \A i \in 1 .. Len(p) : p[i].arity \in Nat /\ p[i].effect \in Int

\* Where a path can be, at a depth.
Points(p) == (1 .. Len(p) + 1) \X Int
StepsOf(p, T) == UNION {StepsFrom(p, x) : x \in T}

LEMMA StepsArePoints ==
    ASSUME NEW p, Shaped(p), NEW x \in Points(p)
    PROVE  StepsFrom(p, x) \subseteq Points(p)
<1>1. CASE x[1] > Len(p)
  BY <1>1 DEF StepsFrom
<1>2. CASE ~(x[1] > Len(p))
  <2>0. Len(p) \in Nat
    BY DEF Shaped, Linked
  <2>1. x[1] \in 1 .. Len(p) /\ x[2] \in Int /\ Len(p) \in Nat
    BY <1>2, <2>0 DEF Points
  <2>2. Following(p, x[1]) \subseteq 1 .. Len(p) + 1
    BY <2>1 DEF Following, Shaped, Linked
  <2>3. x[2] + p[x[1]].effect \in Int
    BY <2>1 DEF Shaped
  <2>4. QED
    BY <2>2, <2>3 DEF StepsFrom, Points
<1>3. QED
  BY <1>1, <1>2

LEMMA DepthStages ==
    ASSUME NEW p, Shaped(p)
    PROVE  \E r \in [0 .. Len(p) + 1 -> SUBSET Points(p)] :
               /\ r[0] = {<<1, 0>>} /\ Depths(p) = r[Len(p) + 1]
               /\ \A n \in 1 .. Len(p) + 1 : r[n] = r[n - 1] \cup StepsOf(p, r[n - 1])
<1>0. Len(p) \in Nat /\ 0 <= Len(p) + 1 /\ 0 \in Int /\ Len(p) + 1 \in Int
  BY DEF Shaped, Linked
<1> DEFINE hi == Len(p) + 1
           S == SUBSET Points(p)
           step == [y \in (0 .. hi) \X S |-> y[2] \cup StepsOf(p, y[2])]
           Solves(g) == g = [n \in 0 .. hi |->
               IF n = 0 THEN {<<1, 0>>} ELSE g[n - 1] \cup UNION {StepsFrom(p, x) : x \in g[n - 1]}]
<1>1. step \in [(0 .. hi) \X S -> S]
  <2>1. ASSUME NEW y \in (0 .. hi) \X S PROVE y[2] \cup StepsOf(p, y[2]) \in S
    BY StepsArePoints DEF StepsOf
  <2>2. QED
    BY <2>1
<1>2. {<<1, 0>>} \in S
  BY <1>0 DEF Points
<1>3. \E g : Unfolds(g, S, {<<1, 0>>}, 0, hi, step)
  <2>1. hi \in Int /\ 0 <= hi /\ 0 \in Int /\ hi <= hi
    BY <1>0
  <2> HIDE DEF S, step, hi
  <2>2. QED
    BY <1>1, <1>2, <2>1, RecursionExists
<1>4. PICK g \in [0 .. hi -> S] : g[0] = {<<1, 0>>} /\ \A i \in 0 + 1 .. hi : g[i] = step[<<i, g[i - 1]>>]
  <2> HIDE DEF S, step
  <2>1. QED
    BY <1>3 DEF Unfolds
<1>5. ASSUME NEW i \in 1 .. hi PROVE g[i] = g[i - 1] \cup StepsOf(p, g[i - 1])
  <2>1. i - 1 \in 0 .. hi /\ i \in 0 .. hi /\ i \in 0 + 1 .. hi
    BY <1>0
  <2>2. g[i - 1] \in S /\ <<i, g[i - 1]>> \in (0 .. hi) \X S
    BY <2>1
  <2>3. g[i] = step[<<i, g[i - 1]>>]
    BY <1>4, <2>1
  <2>4. QED
    BY <2>2, <2>3
<1>6. Solves(g)
  <2>1. ASSUME NEW n \in 0 .. hi
        PROVE  g[n] = IF n = 0 THEN {<<1, 0>>} ELSE g[n - 1] \cup UNION {StepsFrom(p, x) : x \in g[n - 1]}
    <3>1. n = 0 \/ n \in 1 .. hi
      BY <1>0
    <3>2. QED
      BY <1>4, <1>5, <3>1 DEF StepsOf
  <2>2. QED
    BY <2>1
<1>7. Depths(p) = (CHOOSE f : Solves(f))[hi]
  BY DEF Depths
<1>8. PICK r : Solves(r) /\ Depths(p) = r[hi]
  <2> HIDE DEF Solves
  <2>1. QED
    BY <1>6, <1>7
<1>9. /\ r = [n \in 0 .. hi |-> r[n]] /\ r[0] = {<<1, 0>>}
      /\ \A n \in 0 + 1 .. hi : r[n] = r[n - 1] \cup StepsOf(p, r[n - 1])
  <2>1. r = [n \in 0 .. hi |-> IF n = 0 THEN {<<1, 0>>} ELSE r[n - 1] \cup StepsOf(p, r[n - 1])]
    BY <1>8 DEF StepsOf
  <2>2. 0 \in 0 .. hi /\ \A n \in 0 + 1 .. hi : n \in 0 .. hi /\ n # 0
    BY <1>0
  <2>3. QED
    BY <2>1, <2>2
<1>10. Unfolds(r, S, {<<1, 0>>}, 0, hi, step)
  <2>1. ASSUME NEW n \in 0 + 1 .. hi, r[n - 1] \in S PROVE r[n] = step[<<n, r[n - 1]>>]
    <3>1. <<n, r[n - 1]>> \in (0 .. hi) \X S
      BY <1>0, <2>1
    <3>2. QED
      BY <1>9, <3>1
  <2> HIDE DEF S, step, hi
  <2>2. hi \in Int /\ 0 <= hi /\ hi <= hi
    BY <1>0 DEF hi
  <2>3. QED
    BY <1>0, <1>1, <1>2, <1>9, <2>1, <2>2, IsUnfolding
<1>11. r \in [0 .. hi -> S] /\ \A n \in 1 .. hi : r[n] = r[n - 1] \cup StepsOf(p, r[n - 1])
  BY <1>9, <1>10 DEF Unfolds
<1>12. QED
  BY <1>8, <1>9, <1>11

\* It is contained in every set that has the start and is closed under the steps.
LEMMA DepthsLeast ==
    ASSUME NEW p, Shaped(p), NEW T, <<1, 0>> \in T, \A x \in T : StepsFrom(p, x) \subseteq T
    PROVE  Depths(p) \subseteq T
<1>1. PICK r \in [0 .. Len(p) + 1 -> SUBSET Points(p)] :
          /\ r[0] = {<<1, 0>>} /\ Depths(p) = r[Len(p) + 1]
          /\ \A n \in 1 .. Len(p) + 1 : r[n] = r[n - 1] \cup StepsOf(p, r[n - 1])
  BY DepthStages
<1>2. Len(p) \in Nat
  BY DEF Shaped, Linked
<1> DEFINE bad == {k \in 0 .. Len(p) + 1 : ~(r[k] \subseteq T)}
<1>3. bad = {}
  <2> SUFFICES ASSUME bad # {} PROVE FALSE
    OBVIOUS
  <2>1. PICK m \in bad : \A k \in bad : m <= k
    <3> bad \in SUBSET Nat
      BY <1>2
    <3> HIDE DEF bad
    <3> QED
      BY LeastOf
  <2>2. m \in 1 .. Len(p) + 1 /\ ~(r[m] \subseteq T)
    BY <1>1, <1>2, <2>1
  <2>3. m - 1 \in 0 .. Len(p) + 1 /\ ~(m <= m - 1)
    BY <1>2, <2>2
  <2>4. r[m - 1] \subseteq T
    BY <2>1, <2>3
  <2>5. QED
    BY <1>1, <2>2, <2>4 DEF StepsOf
<1>4. Len(p) + 1 \in 0 .. Len(p) + 1
  BY <1>2
<1>5. QED
  BY <1>1, <1>3, <1>4

\* If no place is reached at two depths, it is itself closed: it has no more points than the program
\* has places, and it has grown at every stage before.
LEMMA DepthsClosed ==
    ASSUME NEW p, Shaped(p), Typed(p)
    PROVE  /\ <<1, 0>> \in Depths(p) /\ Depths(p) \subseteq Points(p)
           /\ \A x \in Depths(p) : StepsFrom(p, x) \subseteq Depths(p)
<1>0. Len(p) \in Nat
  BY DEF Shaped, Linked
<1>1. PICK r \in [0 .. Len(p) + 1 -> SUBSET Points(p)] :
          /\ r[0] = {<<1, 0>>} /\ Depths(p) = r[Len(p) + 1]
          /\ \A n \in 1 .. Len(p) + 1 : r[n] = r[n - 1] \cup StepsOf(p, r[n - 1])
  BY DepthStages
<1> DEFINE hi == Len(p) + 1
           Closed(T) == \A x \in T : StepsFrom(p, x) \subseteq T
           first == [x \in Depths(p) |-> x[1]]
<1>2. Depths(p) \in SUBSET Points(p)
  BY <1>0, <1>1
<1>3. IsFiniteSet(Depths(p)) /\ Cardinality(Depths(p)) \in Nat /\ Cardinality(Depths(p)) <= hi
  <2>1. first \in Injection(Depths(p), 1 .. hi)
    <3>1. first \in [Depths(p) -> 1 .. hi]
      BY <1>2 DEF Points
    <3>2. ASSUME NEW x \in Depths(p), NEW y \in Depths(p), first[x] = first[y] PROVE x = y
      <4>1. x[1] = y[1] /\ x \in (1 .. hi) \X Int /\ y \in (1 .. hi) \X Int
        BY <1>2, <3>2 DEF Points
      <4>2. x[2] = y[2]
        BY <4>1 DEF Typed
      <4>3. QED
        BY <4>1, <4>2
    <3>3. QED
      BY <3>1, <3>2 DEF Injection, IsInjective
  <2>2. IsFiniteSet(1 .. hi) /\ Cardinality(1 .. hi) = hi
    <3>1. IsFiniteSet(1 .. hi) /\ Cardinality(1 .. hi) = IF 1 > hi THEN 0 ELSE hi - 1 + 1
      BY <1>0, FS_Interval
    <3>2. QED
      BY <1>0, <3>1
  <2>3. IsFiniteSet(Depths(p)) /\ Cardinality(Depths(p)) <= Cardinality(1 .. hi)
    BY <2>1, <2>2, FS_Injection
  <2>4. QED
    BY <2>2, <2>3, FS_CardinalityType
<1>4. ASSUME NEW n \in 0 .. hi PROVE r[n] \subseteq r[hi] /\ (Closed(r[n]) => r[n] = r[hi])
  <2> DEFINE bad == {k \in 0 .. hi : ~(r[hi - k] \subseteq r[hi] /\ (Closed(r[hi - k]) => r[hi - k] = r[hi]))}
  <2> SUFFICES ASSUME bad # {} PROVE FALSE
    <3> DEFINE k == hi - n
    <3>1. k \in 0 .. hi /\ hi - k = n
      BY <1>0
    <3> HIDE DEF k, Closed
    <3>2. QED
      BY <3>1
  <2>1. PICK m \in bad : \A k \in bad : m <= k
    <3> bad \in SUBSET Nat
      BY <1>0
    <3> HIDE DEF bad
    <3> QED
      BY LeastOf
  <2> DEFINE i == hi - m
  <2>2. m \in 1 .. hi
    <3>1. hi - 0 = hi
      BY <1>0
    <3>2. m # 0
      BY <2>1, <3>1
    <3>3. QED
      BY <1>0, <2>1, <3>2
  <2>3. i + 1 \in 1 .. hi /\ (i + 1) - 1 = i /\ hi - (m - 1) = i + 1 /\ m - 1 \in 0 .. hi /\ ~(m <= m - 1)
    BY <1>0, <2>2
  <2>4. r[i + 1] \subseteq r[hi] /\ (Closed(r[i + 1]) => r[i + 1] = r[hi])
    BY <2>1, <2>3
  <2>5. r[i + 1] = r[i] \cup StepsOf(p, r[i])
    BY <1>1, <2>3
  <2>6. Closed(r[i]) => r[i + 1] = r[i]
    BY <2>5 DEF StepsOf
  <2>7. r[i] \subseteq r[hi] /\ (Closed(r[i]) => r[i] = r[hi])
    BY <2>4, <2>5, <2>6
  <2>8. QED
    BY <2>1, <2>7
<1>5. Closed(r[hi])
  <2> SUFFICES ASSUME ~Closed(r[hi]) PROVE FALSE
    OBVIOUS
  <2> HIDE DEF Closed
  <2>0. hi \in Nat /\ Depths(p) = r[hi]
    BY <1>0, <1>1
  <2> DEFINE bad == {k \in 0 .. hi : ~(Cardinality(r[k]) > k)}
  <2>1. bad # {}
    <3>1. hi \in 0 .. hi /\ ~(Cardinality(r[hi]) > hi)
      BY <1>3, <2>0
    <3>2. QED
      BY <3>1
  <2>2. PICK m \in bad : \A k \in bad : m <= k
    <3> bad \in SUBSET Nat
      BY <2>0
    <3> HIDE DEF bad
    <3> QED
      BY <2>1, LeastOf
  <2>3. m # 0
    <3>1. Cardinality(r[0]) = 1
      BY <1>1, FS_Singleton
    <3>2. QED
      BY <2>2, <3>1
  <2>4. m \in 1 .. hi /\ m - 1 \in 0 .. hi /\ ~(m <= m - 1) /\ m \in 0 .. hi
    BY <2>0, <2>2, <2>3
  <2>5. Cardinality(r[m - 1]) > m - 1
    BY <2>2, <2>4
  <2>6. r[m] = r[m - 1] \cup StepsOf(p, r[m - 1])
    BY <1>1, <2>4
  <2>7. ~Closed(r[m - 1])
    BY <1>4, <2>4
  <2>8. r[m] # r[m - 1]
    BY <2>6, <2>7 DEF Closed, StepsOf
  <2>9. IsFiniteSet(r[m]) /\ IsFiniteSet(r[m - 1])
    BY <1>3, <1>4, <2>0, <2>4, FS_Subset
  <2>10. Cardinality(r[m - 1]) <= Cardinality(r[m]) /\ Cardinality(r[m - 1]) # Cardinality(r[m])
    BY <2>6, <2>8, <2>9, FS_Subset
  <2>11. Cardinality(r[m]) \in Nat /\ Cardinality(r[m - 1]) \in Nat
    BY <2>9, FS_CardinalityType
  <2>12. Cardinality(r[m]) > m
    BY <2>4, <2>5, <2>10, <2>11
  <2>13. QED
    BY <2>2, <2>12
<1>6. <<1, 0>> \in Depths(p)
  BY <1>0, <1>1, <1>4
<1>7. QED
  BY <1>1, <1>2, <1>5, <1>6

\* The depth at which the paths reach a place.
DepthAt(p, i) == CHOOSE d \in Int : <<i, d>> \in Depths(p)

LEMMA TypedDepths ==
    ASSUME NEW p, Shaped(p), Typed(p)
    PROVE  /\ \A i \in 1 .. Len(p) : /\ <<i, DepthAt(p, i)>> \in Depths(p)
                                     /\ DepthAt(p, i) \in Nat /\ DepthAt(p, i) >= p[i].arity
           /\ \A i \in 1 .. Len(p) : \A k \in Following(p, i) :
                  <<k, DepthAt(p, i) + p[i].effect>> \in Depths(p)
           /\ \A i \in 1 .. Len(p) + 1 : \A d : <<i, d>> \in Depths(p) => d = DepthAt(p, i)
<1>0. Len(p) \in Nat /\ \A i \in 1 .. Len(p) : p[i].arity \in Nat /\ p[i].effect \in Int
  BY DEF Shaped, Linked
<1>1. /\ <<1, 0>> \in Depths(p) /\ Depths(p) \subseteq Points(p)
      /\ \A x \in Depths(p) : StepsFrom(p, x) \subseteq Depths(p)
  BY DepthsClosed
<1>2. ASSUME NEW i \in 1 .. Len(p) + 1, NEW d, <<i, d>> \in Depths(p)
      PROVE  d = DepthAt(p, i) /\ d \in Int /\ <<i, DepthAt(p, i)>> \in Depths(p)
  <2>1. d \in Int
    BY <1>1, <1>2 DEF Points
  <2>2. <<i, DepthAt(p, i)>> \in Depths(p)
    BY <1>2, <2>1 DEF DepthAt
  <2>3. <<i, d>>[1] = <<i, DepthAt(p, i)>>[1] => <<i, d>>[2] = <<i, DepthAt(p, i)>>[2]
    BY <1>2, <2>2 DEF Typed
  <2>4. QED
    BY <2>1, <2>2, <2>3
<1>3. ASSUME NEW i \in 1 .. Len(p), NEW d, <<i, d>> \in Depths(p) PROVE d \in Int /\ d >= p[i].arity
  <2>1. ~(i > Len(p))
    BY <1>0
  <2>2. IF <<i, d>>[1] > Len(p) THEN <<i, d>>[2] = 0 ELSE <<i, d>>[2] >= p[<<i, d>>[1]].arity
    BY <1>3 DEF Typed
  <2>3. d \in Int
    BY <1>1, <1>3 DEF Points
  <2>4. QED
    BY <2>1, <2>2, <2>3
<1>4. ASSUME NEW i \in 1 .. Len(p), NEW d, <<i, d>> \in Depths(p), NEW k \in Following(p, i)
      PROVE  <<k, d + p[i].effect>> \in Depths(p)
  <2>1. StepsFrom(p, <<i, d>>) \subseteq Depths(p)
    BY <1>1, <1>4
  <2>2. ~(i > Len(p)) /\ ~(d < p[i].arity)
    BY <1>0, <1>3, <1>4
  <2>3. StepsFrom(p, <<i, d>>) = {<<j, d + p[i].effect>> : j \in Following(p, i)}
    BY <2>2 DEF StepsFrom
  <2>4. QED
    BY <1>4, <2>1, <2>3
<1>5. ASSUME NEW i \in 1 .. Len(p) PROVE \E d : <<i, d>> \in Depths(p)
  <2> DEFINE bad == {k \in 1 .. Len(p) : ~ \E d : <<k, d>> \in Depths(p)}
  <2> SUFFICES ASSUME bad # {} PROVE FALSE
    OBVIOUS
  <2>1. PICK m \in bad : \A k \in bad : m <= k
    <3> bad \in SUBSET Nat
      BY <1>0
    <3> HIDE DEF bad
    <3> QED
      BY LeastOf
  <2>2. m # 1
    BY <1>1, <2>1
  <2>3. m - 1 \in 1 .. Len(p) /\ ~(m <= m - 1) /\ (m - 1) + 1 = m /\ m - 1 < Len(p) /\ m \in 1 .. Len(p)
    BY <1>0, <2>1, <2>2
  <2>4. PICK d : <<m - 1, d>> \in Depths(p)
    BY <2>1, <2>3
  <2>5. m \in Following(p, m - 1)
    <3>1. m \in NextOf(p, m - 1)
      <4>1. p[m - 1].kind = "jump" => Successors(p, m - 1) = <<TargetOf(p, m - 1), (m - 1) + 1>>
        BY <2>3 DEF Successors
      <4>2. p[m - 1].kind # "jump" => Successors(p, m - 1) = <<(m - 1) + 1>>
        BY <2>3 DEF Successors
      <4>3. QED
        BY <2>3, <4>1, <4>2 DEF NextOf
    <3>2. QED
      BY <2>3, <3>1 DEF Following
  <2>6. QED
    BY <1>4, <2>1, <2>3, <2>4, <2>5
<1>6. ASSUME NEW i \in 1 .. Len(p)
      PROVE  <<i, DepthAt(p, i)>> \in Depths(p) /\ DepthAt(p, i) \in Nat /\ DepthAt(p, i) >= p[i].arity
  <2>1. i \in 1 .. Len(p) + 1
    BY <1>0
  <2>2. <<i, DepthAt(p, i)>> \in Depths(p)
    BY <1>2, <1>5, <2>1
  <2>3. QED
    BY <1>0, <1>3, <2>2
<1>7. QED
  BY <1>2, <1>4, <1>6

-------------------------------------------------------------------------------
(* Stacks of constants *)

\* What constant propagation may have on a stack, and what a stack of the execution has.
Entry == Value \cup {Unknown}
IsTok(t) == t \in TokenRecord /\ IsToken(t)

\* A stack agrees with one of an execution: it has the same values, where it knows any.
Agree(c, s) == Len(c) = Len(s) /\ \A k \in 1 .. Len(s) : c[k] \in {Unknown, s[k]}

\* What is left of a stack, with other values on top.
Replaced(s, n, f) == SubSeq(s, 1, Len(s) - n) \o f

IsReplaced(r, S, s, a, m, f) ==
    /\ r \in Seq(S) /\ Len(r) = (Len(s) - a) + m
    /\ \A k \in 1 .. Len(s) - a : r[k] = s[k]
    /\ \A k \in 1 .. m : r[(Len(s) - a) + k] = f[k]

LEMMA Topped ==
    ASSUME NEW S, NEW s, NEW a, NEW m, NEW f, s \in Seq(S), a \in Nat, a <= Len(s), m \in Nat, f \in [1 .. m -> S]
    PROVE  IsReplaced(Replaced(s, a, f), S, s, a, m, f)
<1> DEFINE n == Len(s) - a
           r == SubSeq(s, 1, n)
<1>1. n \in Nat /\ n <= Len(s) /\ Len(s) \in Nat
  OBVIOUS
<1>2. \A i \in 1 .. n : s[i] \in S
  BY <1>1, ElementOfSeq
<1>3. r \in Seq(S) /\ Len(r) = n /\ \A i \in 1 .. n : r[i] = s[i]
  <2>1. /\ r \in Seq(S) /\ Len(r) = (IF 1 <= n THEN n - 1 + 1 ELSE 0)
        /\ \A i \in 1 .. n - 1 + 1 : r[i] = s[1 + i - 1]
    <3> HIDE DEF n
    <3>1. QED
      BY <1>1, <1>2, SubSeqProperties
  <2>2. n - 1 + 1 = n /\ \A i \in 1 .. n : 1 + i - 1 = i
    BY <1>1
  <2>3. QED
    BY <1>1, <2>1, <2>2
<1> HIDE DEF r, n
<1>4. f \in Seq(S) /\ Len(f) = m
  OBVIOUS
<1>5. /\ r \o f \in Seq(S) /\ Len(r \o f) = n + m
      /\ \A i \in 1 .. n + m : (r \o f)[i] = IF i <= n THEN r[i] ELSE f[i - n]
  BY <1>3, <1>4, ConcatProperties
<1>6. \A k \in 1 .. n : k \in 1 .. n + m /\ k <= n
  BY <1>1
<1>7. \A k \in 1 .. m : n + k \in 1 .. n + m /\ ~(n + k <= n) /\ (n + k) - n = k
  BY <1>1
<1>8. QED
  BY <1>3, <1>5, <1>6, <1>7 DEF n, r, Replaced, IsReplaced

LEMMA PaddedFacts ==
    ASSUME NEW S, NEW s \in Seq(S), Unknown \in S, NEW t, t.arity \in Nat
    PROVE  /\ Padded(s, t) \in Seq(S) /\ Fill(s, t.arity) \in Seq(S)
           /\ Len(Fill(s, t.arity)) >= t.arity
           /\ t.arity <= Len(s) => Padded(s, t) = s /\ Fill(s, t.arity) = s
<1>0. Len(s) \in Nat
  OBVIOUS
<1> DEFINE missing == IF Len(s) < t.arity THEN t.arity - Len(s) ELSE 0
           half == (missing + 1) \div 2
<1>1. missing \in Nat /\ half \in Nat /\ (t.arity <= Len(s) => missing = 0) /\ missing + Len(s) >= t.arity
  BY <1>0
<1>2. t.arity <= Len(s) => half = 0
  BY <1>1
<1>3. ASSUME NEW n \in Nat
      PROVE  /\ [k \in 1 .. n |-> Unknown] \o s \in Seq(S) /\ Len([k \in 1 .. n |-> Unknown] \o s) = n + Len(s)
             /\ n = 0 => [k \in 1 .. n |-> Unknown] \o s = s
  <2> DEFINE f == [k \in 1 .. n |-> Unknown]
  <2>1. f \in Seq(S) /\ Len(f) = n
    OBVIOUS
  <2> HIDE DEF f
  <2>2. f \o s \in Seq(S) /\ Len(f \o s) = n + Len(s)
    BY <2>1, ConcatProperties
  <2>3. n = 0 => f \o s = s
    <3>1. n = 0 => f = <<>>
      BY <2>1, EmptySeq
    <3>2. QED
      BY <3>1, ConcatEmptySeq
  <2>4. QED
    BY <2>2, <2>3 DEF f
<1>4. Padded(s, t) = [k \in 1 .. half |-> Unknown] \o s
  BY DEF Padded
<1>5. Fill(s, t.arity) = [k \in 1 .. missing |-> Unknown] \o s
  BY DEF Fill
<1> HIDE DEF missing, half
<1>6. QED
  BY <1>0, <1>1, <1>2, <1>3, <1>4, <1>5

LEMMA ComputesType ==
    ASSUME NEW t, IsTok(t), NEW s \in Seq(Entry), t.arity <= Len(s)
    PROVE  Computes(t, s) \in Entry
<1>0. ArrayAssumption
  BY ArrayAssumption
<1>1. Len(s) \in Nat /\ \A k \in 1 .. Len(s) : s[k] \in Entry
  OBVIOUS
<1>2. CASE t.kind = "num"
  BY <1>2, TokenFacts DEF Computes, IsTok, Entry, Value
<1>3. CASE t.kind \in {"add", "mod"}
  <2> DEFINE y == s[Len(s)]
             x == s[Len(s) - 1]
  <2>1. x \in Entry /\ y \in Entry
    <3>1. t.arity = 2
      BY <1>3, TokenFacts DEF IsTok
    <3>2. Len(s) \in 1 .. Len(s) /\ Len(s) - 1 \in 1 .. Len(s)
      BY <1>1, <3>1
    <3>3. QED
      BY <1>1, <3>2
  <2>2. CASE t.kind = "add"
    <3>1. Computes(t, s) = IF Unknown \in {x, y} THEN Unknown ELSE IF NaN \in {x, y} THEN NaN ELSE x + y
      BY <2>2 DEF Computes
    <3>2. QED
      BY <2>1, <3>1 DEF Entry, Value
  <2>3. CASE t.kind = "mod"
    <3>1. Computes(t, s) = IF Unknown \in {x, y} THEN Unknown ELSE IF NaN \in {x, y} \/ y = 0 THEN NaN ELSE x % y
      BY <2>3 DEF Computes
    <3>2. CASE Unknown \in {x, y} \/ NaN \in {x, y} \/ y = 0
      BY <3>1, <3>2 DEF Entry, Value
    <3>3. CASE ~(Unknown \in {x, y} \/ NaN \in {x, y} \/ y = 0)
      <4>1. x \in Nat /\ y \in Nat /\ y > 0
        BY <2>1, <3>3 DEF Entry, Value
      <4> HIDE DEF x, y
      <4>2. (x % y) \in Nat
        BY <4>1
      <4>3. QED
        BY <3>1, <3>3, <4>2 DEF Entry, Value
    <3>4. QED
      BY <3>2, <3>3
  <2>4. QED
    BY <1>3, <2>2, <2>3
<1>4. CASE t.kind \notin {"num", "add", "mod"}
  BY <1>4 DEF Computes, Entry
<1>5. QED
  BY <1>2, <1>3, <1>4

\* The results of a token, all of the same value.
Results(t, v) == [k \in 1 .. t.arity + t.effect |-> v]

LEMMA AfterFacts ==
    ASSUME NEW t, IsTok(t), NEW s \in Seq(Entry), t.arity <= Len(s)
    PROVE  /\ After(s, t) = Replaced(s, t.arity, Results(t, Computes(t, s)))
           /\ After(s, t) \in Seq(Entry) /\ Len(After(s, t)) = Len(s) + t.effect
           /\ Walked(s, t) = Replaced(s, t.arity, Results(t, Unknown))
           /\ Walked(s, t) \in Seq(Entry) /\ Len(Walked(s, t)) = Len(s) + t.effect
<1>1. t.arity \in Nat /\ t.effect \in Int /\ t.arity + t.effect \in Nat /\ Len(s) \in Nat
  BY TokenFacts DEF IsTok
<1>2. Computes(t, s) \in Entry /\ Unknown \in Entry
  BY ComputesType DEF Entry
<1>3. ASSUME NEW v \in Entry PROVE Results(t, v) \in [1 .. t.arity + t.effect -> Entry]
  BY DEF Results
<1>4. ASSUME NEW v \in Entry
      PROVE  /\ Replaced(s, t.arity, Results(t, v)) \in Seq(Entry)
             /\ Len(Replaced(s, t.arity, Results(t, v))) = Len(s) + t.effect
  <2>1. /\ Replaced(s, t.arity, Results(t, v)) \in Seq(Entry)
        /\ Len(Replaced(s, t.arity, Results(t, v))) = (Len(s) - t.arity) + (t.arity + t.effect)
    <3> DEFINE m == t.arity + t.effect
               f == Results(t, v)
               a == t.arity
    <3>1. f \in [1 .. m -> Entry] /\ m \in Nat /\ a \in Nat /\ a <= Len(s) /\ s \in Seq(Entry)
      BY <1>1, <1>3
    <3> HIDE DEF m, f, a
    <3>2. IsReplaced(Replaced(s, a, f), Entry, s, a, m, f)
      BY <3>1, Topped
    <3>3. QED
      BY <3>2 DEF m, f, a, IsReplaced
  <2>2. QED
    BY <1>1, <2>1
<1>5. After(s, t) = Replaced(s, t.arity, Results(t, Computes(t, s)))
  BY DEF After, Results, Replaced
<1>6. Walked(s, t) = Replaced(s, t.arity, Results(t, Unknown))
  <2>1. Fill(s, t.arity) = s
    BY <1>1, <1>2, PaddedFacts
  <2>2. QED
    BY <2>1 DEF Walked, Results, Replaced
<1>7. QED
  BY <1>2, <1>4, <1>5, <1>6

\* Both walks keep up with an execution.
LEMMA AgreeStep ==
    ASSUME NEW t, IsTok(t), NEW c \in Seq(Entry), NEW s \in Seq(Value), Agree(c, s), t.arity <= Len(s),
           NEW v \in Value, Computes(t, s) \in {Unknown, v}
    PROVE  LET new == Replaced(s, t.arity, Results(t, v))
           IN  /\ new \in Seq(Value) /\ Len(new) = Len(s) + t.effect
               /\ Agree(After(c, t), new) /\ Agree(Walked(c, t), new)
<1> DEFINE n == Len(s) - t.arity
           m == t.arity + t.effect
           new == Replaced(s, t.arity, Results(t, v))
<1>0. ArrayAssumption
  BY ArrayAssumption
<1>1. /\ t.arity \in Nat /\ t.effect \in Int /\ m \in Nat /\ Len(s) \in Nat /\ n \in Nat /\ n <= Len(s)
      /\ Len(c) = Len(s) /\ Len(s) + t.effect = n + m
  BY TokenFacts DEF IsTok, Agree
<1>2. Value \subseteq Entry /\ Unknown \in Entry /\ Unknown \notin Value /\ Computes(t, c) \in Entry
  BY <1>1, ComputesType DEF Entry, Value, Unknown, NaN
<1>3. /\ new \in Seq(Value) /\ Len(new) = n + m /\ \A k \in 1 .. n : new[k] = s[k]
      /\ \A k \in 1 .. m : new[n + k] = v
  <2> DEFINE f == Results(t, v)
             a == t.arity
  <2>1. f \in [1 .. m -> Value] /\ a \in Nat /\ a <= Len(s) /\ m \in Nat /\ \A k \in 1 .. m : f[k] = v
    BY <1>1 DEF Results
  <2> HIDE DEF f, a, m, n
  <2>2. IsReplaced(Replaced(s, a, f), Value, s, a, m, f)
    BY <2>1, Topped
  <2>3. QED
    BY <2>1, <2>2 DEF f, a, n, IsReplaced
<1>4. ASSUME NEW w \in Entry, w \in {Unknown, v}
      PROVE  Agree(Replaced(c, t.arity, Results(t, w)), new)
  <2> DEFINE r == Replaced(c, t.arity, Results(t, w))
  <2> DEFINE f == Results(t, w)
             a == t.arity
  <2>1. f \in [1 .. m -> Entry] /\ a \in Nat /\ a <= Len(c) /\ m \in Nat /\ \A k \in 1 .. m : f[k] = w
    BY <1>1 DEF Results
  <2>2. Len(r) = n + m /\ (\A k \in 1 .. n : r[k] = c[k]) /\ \A k \in 1 .. m : r[n + k] = w
    <3> HIDE DEF f, a, m, n
    <3>1. IsReplaced(Replaced(c, a, f), Entry, c, a, m, f)
      BY <2>1, Topped
    <3>2. QED
      BY <1>1, <2>1, <3>1 DEF f, a, n, IsReplaced
  <2> HIDE DEF r, new
  <2>3. ASSUME NEW k \in 1 .. n + m PROVE r[k] \in {Unknown, new[k]}
    <3>1. CASE k <= n
      <4>1. k \in 1 .. n /\ k \in 1 .. Len(s)
        BY <1>1, <3>1
      <4>2. QED
        BY <1>3, <2>2, <4>1 DEF Agree
    <3>2. CASE ~(k <= n)
      <4> DEFINE i == k - n
      <4>1. i \in 1 .. m /\ n + i = k
        BY <1>1, <3>2
      <4> HIDE DEF i
      <4>2. r[n + i] = w /\ new[n + i] = v
        BY <1>3, <2>2, <4>1
      <4>3. QED
        BY <1>4, <4>1, <4>2
    <3>3. QED
      BY <3>1, <3>2
  <2>4. QED
    BY <1>3, <2>2, <2>3 DEF Agree, r
<1>5. Computes(t, c) \in {Unknown, v}
  <2>1. CASE t.kind \in {"add", "mod"}
    <3> DEFINE y == s[Len(s)]
               x == s[Len(s) - 1]
    <3>1. c[Len(s)] \in {Unknown, y} /\ c[Len(s) - 1] \in {Unknown, x} /\ x # Unknown /\ y # Unknown
      <4>1. t.arity = 2
        BY <2>1, TokenFacts DEF IsTok
      <4>2. Len(s) \in 1 .. Len(s) /\ Len(s) - 1 \in 1 .. Len(s)
        BY <1>1, <4>1
      <4>3. x \in Value /\ y \in Value
        BY <4>2, ElementOfSeq
      <4>4. QED
        BY <1>2, <4>2, <4>3 DEF Agree
    <3>2. \/ Unknown \in {c[Len(s) - 1], c[Len(s)]}
          \/ c[Len(s)] = y /\ c[Len(s) - 1] = x
      BY <3>1
    <3>3. CASE Unknown \in {c[Len(s) - 1], c[Len(s)]}
      BY <1>1, <2>1, <3>3 DEF Computes
    <3>4. CASE c[Len(s)] = y /\ c[Len(s) - 1] = x
      <4>1. Computes(t, c) = Computes(t, s)
        BY <1>1, <2>1, <3>4 DEF Computes
      <4>2. QED
        BY <4>1
    <3>5. QED
      BY <3>2, <3>3, <3>4
  <2>2. CASE t.kind \notin {"add", "mod"}
    <3>1. Computes(t, c) = Computes(t, s)
      BY <2>2 DEF Computes
    <3>2. QED
      BY <3>1
  <2>3. QED
    BY <2>1, <2>2
<1>6. /\ After(c, t) = Replaced(c, t.arity, Results(t, Computes(t, c)))
      /\ Walked(c, t) = Replaced(c, t.arity, Results(t, Unknown))
  BY <1>1, AfterFacts
<1>7. Agree(After(c, t), new) /\ Agree(Walked(c, t), new)
  BY <1>2, <1>4, <1>5, <1>6
<1>8. QED
  BY <1>1, <1>3, <1>7

LEMMA ThroughType ==
    ASSUME NEW t, IsTok(t), NEW T \in SUBSET Seq(Entry)
    PROVE  Through(T, t) \in SUBSET Seq(Entry)
<1>1. t.arity \in Nat /\ Unknown \in Entry
  BY TokenFacts DEF IsTok, Entry
<1>2. ASSUME NEW c \in T, Len(Padded(c, t)) >= t.arity PROVE After(Padded(c, t), t) \in Seq(Entry)
  <2>1. Padded(c, t) \in Seq(Entry)
    BY <1>1, PaddedFacts
  <2>2. t.arity <= Len(Padded(c, t))
    BY <1>1, <1>2, <2>1
  <2>3. QED
    BY <2>1, <2>2, AfterFacts
<1>3. QED
  BY <1>2 DEF Through

LEMMA WalkedType ==
    ASSUME NEW t, IsTok(t), NEW s \in Seq(Entry)
    PROVE  Walked(s, t) \in Seq(Entry)
<1> DEFINE full == Fill(s, t.arity)
<1>1. t.arity \in Nat /\ Unknown \in Entry
  BY TokenFacts DEF IsTok, Entry
<1>2. full \in Seq(Entry) /\ t.arity <= Len(full)
  <2>1. full \in Seq(Entry) /\ Len(full) >= t.arity
    BY <1>1, PaddedFacts
  <2>2. QED
    BY <1>1, <2>1
<1>3. Fill(full, t.arity) = full
  BY <1>1, <1>2, PaddedFacts
<1>4. Walked(full, t) = Walked(s, t)
  BY <1>3 DEF Walked
<1>5. Walked(full, t) \in Seq(Entry)
  BY <1>2, AfterFacts
<1>6. QED
  BY <1>4, <1>5

LEMMA ProgramTokens ==
    ASSUME ProgramInv
    PROVE  Len(program) \in Nat /\ \A i \in 1 .. Len(program) : IsTok(program[i])
BY ProgramFacts DEF IsTok

Stacks == SUBSET Seq(Entry)
StackStep(from) ==
    [y \in (from - 1 .. Len(program)) \X Stacks |->
        IF y[1] \in 1 .. Len(program) THEN Through(y[2], program[y[1]]) ELSE {}]

LEMMA StackStepType ==
    ASSUME ProgramInv, NEW from \in 1 .. Len(program)
    PROVE  StackStep(from) \in [(from - 1 .. Len(program)) \X Stacks -> Stacks]
<1>1. ASSUME NEW y \in (from - 1 .. Len(program)) \X Stacks
      PROVE  (IF y[1] \in 1 .. Len(program) THEN Through(y[2], program[y[1]]) ELSE {}) \in Stacks
  <2>1. y[2] \in SUBSET Seq(Entry)
    BY DEF Stacks
  <2>2. y[1] \in 1 .. Len(program) => Through(y[2], program[y[1]]) \in SUBSET Seq(Entry)
    BY <2>1, ProgramTokens, ThroughType
  <2>3. QED
    BY <2>2 DEF Stacks
<1>2. QED
  BY <1>1 DEF StackStep

LEMMA StacksUnfold ==
    ASSUME ProgramInv, NEW from \in 1 .. Len(program), NEW to \in from - 1 .. Len(program), NEW s \in Seq(Entry)
    PROVE  \E r : Unfolds(r, Stacks, {s}, from - 1, to, StackStep(from)) /\ StacksAfter(s, from, to) = r[to]
<1> DEFINE lo == from - 1
           base == {s}
           step == StackStep(from)
           Solves(f) == f = [i \in lo .. to |-> IF i = lo THEN {s} ELSE Through(f[i - 1], program[i])]
<1>1. /\ Len(program) \in Nat /\ from \in Nat /\ lo \in Int /\ to \in Int /\ lo <= to /\ Len(program) \in Int
      /\ to <= Len(program) /\ lo + 1 = from /\ base \in Stacks
      /\ step \in [(lo .. Len(program)) \X Stacks -> Stacks]
  <2>1. Len(program) \in Nat
    BY ProgramTokens
  <2>2. step \in [(lo .. Len(program)) \X Stacks -> Stacks]
    BY StackStepType
  <2>3. base \in Stacks
    BY DEF Stacks
  <2> HIDE DEF step, base
  <2>4. QED
    BY <2>1, <2>2, <2>3
<1>2. ASSUME NEW i \in lo + 1 .. to, NEW T \in Stacks PROVE step[<<i, T>>] = Through(T, program[i])
  <2>1. i \in 1 .. Len(program) /\ <<i, T>> \in (from - 1 .. Len(program)) \X Stacks
    BY <1>1
  <2>2. QED
    BY <2>1 DEF StackStep
<1>3. \E g : Solves(g)
  <2>1. \E g : Unfolds(g, Stacks, base, lo, to, step)
    <3> HIDE DEF lo, base, step
    <3>1. QED
      BY <1>1, RecursionExists
  <2>2. PICK g : Unfolds(g, Stacks, base, lo, to, step)
    BY <2>1
  <2> HIDE DEF step
  <2>3. g \in [lo .. to -> Stacks] /\ g[lo] = {s} /\ \A i \in lo + 1 .. to : g[i] = step[<<i, g[i - 1]>>]
    BY <2>2 DEF Unfolds
  <2>4. ASSUME NEW i \in lo .. to
        PROVE  g[i] = IF i = lo THEN {s} ELSE Through(g[i - 1], program[i])
    <3>1. CASE i = lo
      BY <2>3, <3>1
    <3>2. CASE i # lo
      <4>1. i \in lo + 1 .. to /\ i - 1 \in lo .. to
        BY <1>1, <3>2
      <4>2. g[i - 1] \in Stacks
        BY <2>3, <4>1
      <4>3. QED
        BY <1>2, <2>3, <3>2, <4>1, <4>2
    <3>3. QED
      BY <3>1, <3>2
  <2>5. Solves(g)
    BY <2>3, <2>4
  <2>6. QED
    BY <2>5
<1>4. StacksAfter(s, from, to) = (CHOOSE f : Solves(f))[to]
  BY DEF StacksAfter
<1>5. PICK r : Solves(r) /\ StacksAfter(s, from, to) = r[to]
  <2> HIDE DEF Solves
  <2>1. QED
    BY <1>3, <1>4
<1>6. /\ r = [i \in lo .. to |-> r[i]] /\ r[lo] = base
      /\ \A i \in lo + 1 .. to : r[i - 1] \in Stacks => r[i] = step[<<i, r[i - 1]>>]
  <2> HIDE DEF step
  <2>1. r = [i \in lo .. to |-> IF i = lo THEN {s} ELSE Through(r[i - 1], program[i])]
    BY <1>5
  <2>2. lo \in lo .. to /\ \A i \in lo + 1 .. to : i \in lo .. to /\ i # lo
    BY <1>1
  <2>3. \A i \in lo + 1 .. to : r[i] = Through(r[i - 1], program[i])
    BY <2>1, <2>2
  <2>4. QED
    BY <1>2, <2>1, <2>2, <2>3
<1>7. Unfolds(r, Stacks, base, lo, to, step)
  <2> HIDE DEF lo, base, step
  <2>1. QED
    BY <1>1, <1>6, IsUnfolding
<1>8. QED
  BY <1>5, <1>7

\* Token by token.
LEMMA StacksNext ==
    ASSUME ProgramInv, NEW from \in 1 .. Len(program), NEW s \in Seq(Entry)
    PROVE  /\ StacksAfter(s, from, from - 1) = {s}
           /\ \A to \in from - 1 .. Len(program) : StacksAfter(s, from, to) \in Stacks
           /\ \A to \in from .. Len(program) :
                  StacksAfter(s, from, to) = Through(StacksAfter(s, from, to - 1), program[to])
<1>1. Len(program) \in Nat /\ from - 1 \in from - 1 .. Len(program)
  BY ProgramTokens
<1>2. StacksAfter(s, from, from - 1) = {s}
  <2>1. PICK r : Unfolds(r, Stacks, {s}, from - 1, from - 1, StackStep(from))
                 /\ StacksAfter(s, from, from - 1) = r[from - 1]
    BY <1>1, StacksUnfold
  <2>2. QED
    BY <2>1 DEF Unfolds
<1>3. ASSUME NEW to \in from - 1 .. Len(program) PROVE StacksAfter(s, from, to) \in Stacks
  <2>1. PICK r : Unfolds(r, Stacks, {s}, from - 1, to, StackStep(from)) /\ StacksAfter(s, from, to) = r[to]
    BY StacksUnfold
  <2>2. to \in from - 1 .. to
    BY <1>1
  <2>3. QED
    BY <2>1, <2>2 DEF Unfolds
<1>4. ASSUME NEW to \in from .. Len(program)
      PROVE  StacksAfter(s, from, to) = Through(StacksAfter(s, from, to - 1), program[to])
  <2> DEFINE lo == from - 1
             last == to - 1
             step == StackStep(from)
  <2>1. /\ to \in lo .. Len(program) /\ last \in lo .. Len(program) /\ last \in lo .. to /\ last <= last
        /\ last \in lo .. last /\ to \in lo + 1 .. to /\ to \in 1 .. Len(program)
        /\ lo \in Int /\ last \in Int /\ to \in Int /\ last <= to
    BY <1>1
  <2>2. PICK r : Unfolds(r, Stacks, {s}, lo, to, step) /\ StacksAfter(s, from, to) = r[to]
    BY <2>1, StacksUnfold
  <2>3. PICK q : Unfolds(q, Stacks, {s}, lo, last, step) /\ StacksAfter(s, from, last) = q[last]
    BY <2>1, StacksUnfold
  <2> HIDE DEF step
  <2>4. q[last] = r[last]
    <3> HIDE DEF lo, last
    <3>1. QED
      BY <2>1, <2>2, <2>3, UnfoldsOnce
  <2>5. r[to] = step[<<to, r[last]>>] /\ r[last] \in Stacks
    BY <2>1, <2>2 DEF Unfolds
  <2>6. step[<<to, r[last]>>] = Through(r[last], program[to])
    <3>1. <<to, r[last]>> \in (from - 1 .. Len(program)) \X Stacks
      BY <2>1, <2>5
    <3>2. QED
      BY <2>1, <3>1 DEF step, StackStep
  <2>7. QED
    BY <2>2, <2>3, <2>4, <2>5, <2>6
<1>5. QED
  BY <1>2, <1>3, <1>4

\* There is at most one.
LEMMA StacksSingle ==
    ASSUME ProgramInv, NEW from \in 1 .. Len(program), NEW to \in from - 1 .. Len(program), NEW s \in Seq(Entry),
           NEW c \in StacksAfter(s, from, to), NEW d \in StacksAfter(s, from, to)
    PROVE  c = d
<1> DEFINE One(k) == \A u, w \in StacksAfter(s, from, k) : u = w
           bad == {n \in 0 .. to - (from - 1) : ~One((from - 1) + n)}
<1>0. Len(program) \in Nat
  BY ProgramTokens
<1>1. bad = {}
  <2> SUFFICES ASSUME bad # {} PROVE FALSE
    OBVIOUS
  <2>1. PICK m \in bad : \A k \in bad : m <= k
    <3> bad \in SUBSET Nat
      OBVIOUS
    <3> HIDE DEF bad
    <3> QED
      BY LeastOf
  <2> DEFINE i == (from - 1) + m
  <2>2. m # 0
    <3>1. One(from - 1)
      BY StacksNext
    <3>2. (from - 1) + 0 = from - 1
      BY <1>0
    <3> HIDE DEF One
    <3>3. QED
      BY <2>1, <3>1, <3>2
  <2>3. m - 1 \in 0 .. to - (from - 1) /\ ~(m <= m - 1) /\ (from - 1) + (m - 1) = i - 1 /\ i \in from .. Len(program)
    BY <1>0, <2>1, <2>2
  <2>4. One(i - 1)
    <3> HIDE DEF One
    <3>1. QED
      BY <2>1, <2>3
  <2>5. StacksAfter(s, from, i) = Through(StacksAfter(s, from, i - 1), program[i])
    BY <2>3, StacksNext
  <2>6. One(i)
    BY <2>4, <2>5 DEF Through
  <2>7. QED
    BY <2>1, <2>6
<1> DEFINE n == to - (from - 1)
<1>2. n \in 0 .. to - (from - 1) /\ (from - 1) + n = to
  BY <1>0
<1> HIDE DEF n
<1>3. One(to)
  <2> HIDE DEF One
  <2>1. QED
    BY <1>1, <1>2
<1>4. QED
  BY <1>3

WalkStep(b) == [y \in (b .. Len(program)) \X Seq(Entry) |->
    IF y[1] - 1 \in 1 .. Len(program) THEN Walked(y[2], program[y[1] - 1]) ELSE y[2]]

LEMMA WalkUnfold ==
    ASSUME ProgramInv, NEW i \in 1 .. Len(program), constIn \in [1 .. Len(program) -> Seq(Entry)]
    PROVE  LET b == BlockOf(i)
           IN  \E r : Unfolds(r, Seq(Entry), constIn[b], b, i, WalkStep(b)) /\ WalkedTo(i) = r[i]
<1> DEFINE b == BlockOf(i)
           S == Seq(Entry)
           base == constIn[b]
           step == WalkStep(b)
           Solves(f) == f = [k \in b .. i |-> IF k = b THEN constIn[b] ELSE Walked(f[k - 1], program[k - 1])]
<1>1. /\ Len(program) \in Nat /\ b \in Nat /\ b \in Int /\ i \in Int /\ b <= i /\ Len(program) \in Int
      /\ i <= Len(program) /\ b \in 1 .. Len(program)
  BY ProgramTokens, OneBlock DEF Blocks
<1>2. base \in S
  BY <1>1
<1>3. step \in [(b .. Len(program)) \X S -> S]
  <2>1. ASSUME NEW y \in (b .. Len(program)) \X S
        PROVE  (IF y[1] - 1 \in 1 .. Len(program) THEN Walked(y[2], program[y[1] - 1]) ELSE y[2]) \in S
    <3>1. y[2] \in Seq(Entry)
      OBVIOUS
    <3>2. y[1] - 1 \in 1 .. Len(program) => Walked(y[2], program[y[1] - 1]) \in Seq(Entry)
      BY <3>1, ProgramTokens, WalkedType
    <3>3. QED
      BY <3>1, <3>2
  <2>2. QED
    BY <2>1 DEF WalkStep
<1> HIDE DEF S, base
<1>4. ASSUME NEW k \in b + 1 .. i, NEW s \in S PROVE step[<<k, s>>] = Walked(s, program[k - 1])
  <2>1. k - 1 \in 1 .. Len(program) /\ <<k, s>> \in (b .. Len(program)) \X S
    BY <1>1
  <2>2. QED
    BY <2>1 DEF WalkStep, S
<1> HIDE DEF step
<1>5. \E g : Solves(g)
  <2>1. PICK g : Unfolds(g, S, base, b, i, step)
    <3> HIDE DEF b
    <3>1. QED
      BY <1>1, <1>2, <1>3, RecursionExists
  <2>2. g \in [b .. i -> S] /\ g[b] = base /\ \A k \in b + 1 .. i : g[k] = step[<<k, g[k - 1]>>]
    BY <2>1 DEF Unfolds
  <2>3. ASSUME NEW k \in b .. i
        PROVE  g[k] = IF k = b THEN constIn[b] ELSE Walked(g[k - 1], program[k - 1])
    <3>1. CASE k = b
      BY <2>2, <3>1 DEF base
    <3>2. CASE k # b
      <4>1. k \in b + 1 .. i /\ k - 1 \in b .. i
        BY <1>1, <3>2
      <4>2. g[k - 1] \in S
        BY <2>2, <4>1
      <4>3. QED
        BY <1>4, <2>2, <3>2, <4>1, <4>2
    <3>3. QED
      BY <3>1, <3>2
  <2>4. Solves(g)
    BY <2>2, <2>3
  <2>5. QED
    BY <2>4
<1>6. WalkedTo(i) = (CHOOSE f : Solves(f))[i]
  BY DEF WalkedTo
<1>7. PICK r : Solves(r) /\ WalkedTo(i) = r[i]
  <2> HIDE DEF Solves
  <2>1. QED
    BY <1>5, <1>6
<1>8. /\ r = [k \in b .. i |-> r[k]] /\ r[b] = base
      /\ \A k \in b + 1 .. i : r[k - 1] \in S => r[k] = step[<<k, r[k - 1]>>]
  <2>1. r = [k \in b .. i |-> IF k = b THEN base ELSE Walked(r[k - 1], program[k - 1])]
    BY <1>7 DEF base
  <2>2. b \in b .. i /\ \A k \in b + 1 .. i : k \in b .. i /\ k # b
    BY <1>1
  <2>3. \A k \in b + 1 .. i : r[k] = Walked(r[k - 1], program[k - 1])
    BY <2>1, <2>2
  <2>4. QED
    BY <1>4, <2>1, <2>2, <2>3
<1>9. Unfolds(r, S, base, b, i, step)
  <2> HIDE DEF b
  <2>1. QED
    BY <1>1, <1>2, <1>3, <1>8, IsUnfolding
<1>10. QED
  BY <1>7, <1>9 DEF S, base, step

LEMMA WalkNext ==
    ASSUME ProgramInv, NEW i \in 1 .. Len(program), constIn \in [1 .. Len(program) -> Seq(Entry)]
    PROVE  /\ WalkedTo(i) \in Seq(Entry)
           /\ i \in Blocks => WalkedTo(i) = constIn[i]
           /\ i + 1 \in 1 .. Len(program) /\ i + 1 \notin Blocks => WalkedTo(i + 1) = Walked(WalkedTo(i), program[i])
<1> DEFINE b == BlockOf(i)
           S == Seq(Entry)
           base == constIn[b]
           step == WalkStep(b)
<1>1. Len(program) \in Nat /\ b \in 1 .. Len(program) /\ b \in Blocks /\ b <= i /\ i <= LastOf(b) /\ i \in Int /\ b \in Int
  BY ProgramTokens, OneBlock DEF Blocks
<1>2. PICK r : Unfolds(r, S, base, b, i, step) /\ WalkedTo(i) = r[i]
  <2>1. \E r : Unfolds(r, Seq(Entry), constIn[BlockOf(i)], BlockOf(i), i, WalkStep(BlockOf(i))) /\ WalkedTo(i) = r[i]
    BY WalkUnfold
  <2>2. QED
    BY <2>1
<1>3. WalkedTo(i) \in Seq(Entry)
  <2>1. i \in b .. i
    BY <1>1
  <2>2. QED
    BY <1>2, <2>1 DEF Unfolds
<1>4. i \in Blocks => WalkedTo(i) = constIn[i]
  <2> SUFFICES ASSUME i \in Blocks PROVE WalkedTo(i) = constIn[i]
    OBVIOUS
  <2>1. i <= LastOf(i)
    BY <1>1, BlockEnd
  <2>2. i = b
    BY <1>1, <2>1, OneBlock
  <2>3. QED
    BY <1>2, <2>2 DEF Unfolds
<1>5. ASSUME i + 1 \in 1 .. Len(program), i + 1 \notin Blocks PROVE WalkedTo(i + 1) = Walked(WalkedTo(i), program[i])
  <2> DEFINE next == i + 1
  <2>1. BlockOf(next) = b
    <3>1. i # LastOf(b)
      BY <1>1, <1>5, BlockEnd
    <3>2. LastOf(b) \in Int
      BY <1>1, BlockEnd
    <3>3. b <= next /\ next <= LastOf(b) /\ next \in 1 .. Len(program)
      BY <1>1, <1>5, <3>1, <3>2
    <3>4. QED
      BY <1>1, <3>3, OneBlock
  <2>2. PICK q : Unfolds(q, S, base, b, next, step) /\ WalkedTo(next) = q[next]
    <3>1. \E q : Unfolds(q, Seq(Entry), constIn[BlockOf(next)], BlockOf(next), next, WalkStep(BlockOf(next)))
                     /\ WalkedTo(next) = q[next]
      BY <1>5, WalkUnfold
    <3>2. QED
      BY <2>1, <3>1
  <2>3. r[i] = q[i]
    <3>1. i \in b .. i /\ i <= next /\ next \in Int
      BY <1>1
    <3> HIDE DEF b, S, base, step, next
    <3>2. QED
      BY <1>1, <1>2, <2>2, <3>1, UnfoldsOnce
  <2>4. next \in b + 1 .. next /\ next - 1 = i /\ i \in b .. next /\ next \in b .. Len(program)
    BY <1>1, <1>5
  <2>5. q[next] = step[<<next, q[i]>>] /\ q[i] \in S
    <3> HIDE DEF next
    <3>1. QED
      BY <2>2, <2>4 DEF Unfolds
  <2>6. step[<<next, q[i]>>] = Walked(q[i], program[i])
    <3>1. <<next, q[i]>> \in (b .. Len(program)) \X S /\ next - 1 \in 1 .. Len(program)
      BY <2>4, <2>5
    <3>2. QED
      BY <2>4, <3>1 DEF WalkStep
  <2>7. QED
    BY <1>2, <2>2, <2>3, <2>5, <2>6
<1>6. QED
  BY <1>3, <1>4, <1>5

-------------------------------------------------------------------------------
(* Constant propagation along a block *)

LEMMA ProgramShaped ==
    ASSUME ProgramInv
    PROVE  Shaped(program)
BY ProgramFacts, TokenFacts DEF Shaped

\* A token is reached at the depth the tokens before it leave.
LEMMA DepthNext ==
    ASSUME ProgramInv, Typed(program)
    PROVE  /\ \A i \in 1 .. Len(program) : DepthAt(program, i) \in Nat /\ DepthAt(program, i) >= program[i].arity
           /\ \A i \in 1 .. Len(program) : \A k \in NextOf(program, i) :
                  DepthAt(program, k) = DepthAt(program, i) + program[i].effect
           /\ DepthAt(program, 1) = 0
<1>1. Len(program) \in Nat /\ Shaped(program)
  BY ProgramFacts, ProgramShaped
<1>2. ASSUME NEW i \in 1 .. Len(program), NEW k \in NextOf(program, i)
      PROVE  DepthAt(program, k) = DepthAt(program, i) + program[i].effect
  <2>1. k \in Following(program, i)
    BY <1>1, <1>2, NextFacts DEF Following
  <2>2. k \in 1 .. Len(program) + 1
    <3>1. k \in 1 .. Len(program)
      BY <1>2, ProgramFacts
    <3>2. QED
      BY <1>1, <3>1
  <2>3. <<k, DepthAt(program, i) + program[i].effect>> \in Depths(program)
    BY <1>1, <2>1, TypedDepths
  <2>4. QED
    BY <1>1, <2>2, <2>3, TypedDepths
<1>3. DepthAt(program, 1) = 0
  <2>1. <<1, 0>> \in Depths(program) /\ 1 \in 1 .. Len(program) + 1
    BY <1>1, DepthsClosed
  <2>2. QED
    BY <1>1, <2>1, TypedDepths
<1>4. QED
  BY <1>1, <1>2, <1>3, TypedDepths

\* There are stacks, all of a depth.
AllOf(T, d) == T # {} /\ \A c \in T : c \in Seq(Entry) /\ Len(c) = d

LEMMA ThroughTyped ==
    ASSUME NEW t, IsTok(t), NEW T, NEW d \in Nat, AllOf(T, d), t.arity <= d
    PROVE  AllOf(Through(T, t), d + t.effect)
<1>1. t.arity \in Nat /\ Unknown \in Entry
  BY TokenFacts DEF IsTok, Entry
<1>2. ASSUME NEW c \in T
      PROVE  /\ Padded(c, t) = c /\ Len(Padded(c, t)) >= t.arity
             /\ After(Padded(c, t), t) \in Seq(Entry) /\ Len(After(Padded(c, t), t)) = d + t.effect
  <2>1. c \in Seq(Entry) /\ Len(c) = d /\ t.arity <= Len(c)
    BY DEF AllOf
  <2>2. Padded(c, t) = c
    BY <1>1, <2>1, PaddedFacts
  <2>3. After(c, t) \in Seq(Entry) /\ Len(After(c, t)) = d + t.effect
    BY <2>1, AfterFacts
  <2>4. QED
    BY <1>1, <2>1, <2>2, <2>3
<1>3. QED
  BY <1>2 DEF AllOf, Through

OutDepth(c) == DepthAt(program, LastOf(c)) + program[LastOf(c)].effect

\* From the depth of its start, all tokens of a block find their arguments.
LEMMA StacksTyped ==
    ASSUME ProgramInv, Typed(program), NEW b \in Blocks, NEW s \in Seq(Entry), Len(s) = DepthAt(program, b)
    PROVE  /\ \A i \in b .. LastOf(b) : AllOf(StacksAfter(s, b, i - 1), DepthAt(program, i))
           /\ AllOf(StacksAfter(s, b, LastOf(b)), OutDepth(b))
<1>0. /\ Len(program) \in Nat /\ b \in 1 .. Len(program) /\ LastOf(b) \in b .. Len(program)
      /\ LastOf(b) \in 1 .. Len(program)
  BY ProgramFacts, BlockEnd
<1> DEFINE Fine(i) == AllOf(StacksAfter(s, b, i - 1), DepthAt(program, i))
           bad == {n \in 0 .. LastOf(b) - b : ~Fine(b + n)}
<1>1. ASSUME NEW i \in b .. LastOf(b), Fine(i)
      PROVE  AllOf(StacksAfter(s, b, i), DepthAt(program, i) + program[i].effect)
  <2>1. i \in 1 .. Len(program) /\ i \in b .. Len(program)
    BY <1>0
  <2>2. StacksAfter(s, b, i) = Through(StacksAfter(s, b, i - 1), program[i])
    BY <1>0, <2>1, StacksNext
  <2>3. DepthAt(program, i) \in Nat /\ program[i].arity <= DepthAt(program, i) /\ IsTok(program[i])
    <3>1. program[i].arity \in Nat /\ IsTok(program[i])
      BY <2>1, ProgramTokens, TokenFacts DEF IsTok
    <3>2. DepthAt(program, i) \in Nat /\ DepthAt(program, i) >= program[i].arity
      BY <2>1, DepthNext
    <3>3. QED
      BY <3>1, <3>2
  <2> DEFINE T == StacksAfter(s, b, i - 1)
             d == DepthAt(program, i)
             t == program[i]
  <2>4. AllOf(T, d)
    BY <1>1
  <2> HIDE DEF T, d, t
  <2>5. AllOf(Through(T, t), d + t.effect)
    BY <2>3, <2>4, ThroughTyped DEF d, t
  <2>6. QED
    BY <2>2, <2>5 DEF T, d, t
<1>2. bad = {}
  <2> SUFFICES ASSUME bad # {} PROVE FALSE
    OBVIOUS
  <2>1. PICK m \in bad : \A k \in bad : m <= k
    <3> bad \in SUBSET Nat
      BY <1>0
    <3> HIDE DEF bad
    <3> QED
      BY LeastOf
  <2>2. m # 0
    <3>1. StacksAfter(s, b, b - 1) = {s}
      BY <1>0, StacksNext
    <3>2. Fine(b)
      BY <3>1 DEF AllOf
    <3>3. b + 0 = b
      BY <1>0
    <3> HIDE DEF Fine
    <3>4. QED
      BY <2>1, <3>2, <3>3
  <2> DEFINE i == b + (m - 1)
  <2>3. /\ m - 1 \in 0 .. LastOf(b) - b /\ ~(m <= m - 1) /\ i \in b .. LastOf(b) /\ i < LastOf(b) /\ b + m = i + 1
        /\ (i + 1) - 1 = i /\ i \in 1 .. Len(program)
    BY <1>0, <2>1, <2>2
  <2> HIDE DEF i
  <2>4. Fine(i)
    <3> HIDE DEF Fine
    <3>1. QED
      BY <2>1, <2>3 DEF i
  <2>5. AllOf(StacksAfter(s, b, i), DepthAt(program, i) + program[i].effect)
    <3> HIDE DEF Fine
    <3>1. QED
      BY <1>1, <2>3, <2>4
  <2>6. DepthAt(program, i + 1) = DepthAt(program, i) + program[i].effect
    <3>1. i + 1 \in NextOf(program, i)
      BY <2>3, InBlock
    <3>2. QED
      BY <2>3, <3>1, DepthNext
  <2>7. Fine(b + m)
    BY <2>3, <2>5, <2>6
  <2>8. QED
    BY <2>1, <2>7
<1>3. ASSUME NEW i \in b .. LastOf(b) PROVE Fine(i)
  <2> DEFINE n == i - b
  <2>1. n \in 0 .. LastOf(b) - b /\ b + n = i
    BY <1>0
  <2> HIDE DEF Fine, n
  <2>2. QED
    BY <1>2, <2>1
<1>4. AllOf(StacksAfter(s, b, LastOf(b)), OutDepth(b))
  <2>1. LastOf(b) \in b .. LastOf(b)
    BY <1>0
  <2> HIDE DEF Fine
  <2>2. QED
    BY <1>1, <1>3, <2>1 DEF OutDepth
<1>5. QED
  BY <1>3, <1>4

\* The predecessors of a block.
LEMMA PredecessorFacts ==
    ASSUME ProgramInv, NEW b \in Blocks, b # 1
    PROVE  /\ FirstPredecessor(b) \in Predecessors(b) /\ FirstPredecessor(b) \in Nat /\ FirstPredecessor(b) < b
           /\ \A d \in Predecessors(b) : FirstPredecessor(b) <= d
<1>0. Len(program) \in Nat /\ b \in 2 .. Len(program) /\ b - 1 \in 1 .. Len(program) /\ (b - 1) + 1 = b
  <2>1. Len(program) \in Nat
    BY ProgramFacts
  <2>2. b \in 1 .. Len(program)
    BY DEF Blocks
  <2>3. QED
    BY <2>1, <2>2
<1> DEFINE c == BlockOf(b - 1)
<1>1. c \in Blocks /\ c <= b - 1 /\ b - 1 <= LastOf(c)
  BY <1>0, OneBlock
<1>2. c \in Nat /\ LastOf(c) \in c .. Len(program) /\ \A k \in c + 1 .. LastOf(c) : k \notin Blocks
  <2>1. c \in 1 .. Len(program)
    BY <1>1 DEF Blocks
  <2> HIDE DEF c
  <2>2. QED
    BY <1>0, <1>1, <2>1, BlockEnd
<1>3. LastOf(c) = b - 1
  <2> SUFFICES ASSUME LastOf(c) # b - 1 PROVE FALSE
    OBVIOUS
  <2> HIDE DEF c
  <2>1. b \in c + 1 .. LastOf(c)
    BY <1>0, <1>1, <1>2
  <2>2. QED
    BY <1>2, <2>1
<1>4. c \in Predecessors(b)
  <2>1. b \in NextOf(program, b - 1)
    <3>1. b - 1 < Len(program)
      BY <1>0
    <3>2. QED
      BY <1>0, <3>1, NextFacts
  <2>2. QED
    BY <1>1, <1>3, <2>1 DEF Predecessors, SuccessorSet
<1>5. \E m \in Predecessors(b) : \A k \in Predecessors(b) : m <= k
  <2>1. Predecessors(b) \in SUBSET Nat
    BY <1>0 DEF Predecessors, Blocks
  <2>2. QED
    BY <1>4, <2>1, LeastOf
<1>6. FirstPredecessor(b) \in Predecessors(b) /\ \A d \in Predecessors(b) : FirstPredecessor(b) <= d
  BY <1>5 DEF FirstPredecessor
<1>7. FirstPredecessor(b) \in Nat
  BY <1>0, <1>6 DEF Predecessors, Blocks
<1>8. FirstPredecessor(b) < b
  <2>1. FirstPredecessor(b) <= c
    BY <1>4, <1>6
  <2> HIDE DEF c
  <2>2. QED
    BY <1>0, <1>1, <1>2, <1>7, <2>1
<1>9. QED
  BY <1>6, <1>7, <1>8

-------------------------------------------------------------------------------
(* What constant propagation has of the blocks it has looked at *)

MergedOf(o, b) ==
    IF b = 1 \/ Predecessors(b) = {} THEN <<>>
    ELSE Merge(o[FirstPredecessor(b)], {o[c] : c \in OtherPredecessors(b)})

\* The blocks P have the stacks their predecessors and their tokens give them; only an empty one
\* is merged with what a later block has not given yet.
ConstFacts(in, out, P) ==
    /\ in \in [1 .. Len(program) -> Seq(Entry)] /\ out \in [1 .. Len(program) -> Seq(Entry)]
    /\ \A c \in P : in[c] = MergedOf(out, c) /\ out[c] \in StacksAfter(in[c], c, LastOf(c))
    /\ \A c \in P : c # 1 /\ (\E d \in Predecessors(c) : d >= c) => out[FirstPredecessor(c)] = <<>>
    /\ Typed(program) => \A c \in P : Len(out[c]) = OutDepth(c)

LEMMA MergeFacts ==
    ASSUME NEW s \in Seq(Entry), NEW T
    PROVE  Merge(s, T) \in Seq(Entry) /\ Len(Merge(s, T)) = Len(s)
<1> DEFINE n == Len(s)
           f(k) == IF \A t \in T : Same(s[k], t[k]) THEN s[k] ELSE Unknown
<1>1. n \in Nat
  OBVIOUS
<1>2. ASSUME NEW k \in 1 .. n PROVE f(k) \in Entry
  BY <1>2 DEF Entry
<1>3. Merge(s, T) = [k \in 1 .. n |-> f(k)]
  BY DEF Merge
<1> HIDE DEF f, n
<1>4. [k \in 1 .. n |-> f(k)] \in [1 .. n -> Entry]
  BY <1>2
<1>5. Merge(s, T) \in Seq(Entry) /\ Len(Merge(s, T)) = n
  BY <1>1, <1>3, <1>4
<1>6. QED
  BY <1>5 DEF n

LEMMA MergedFacts ==
    ASSUME ProgramInv, NEW o, NEW b \in Blocks, o \in [1 .. Len(program) -> Seq(Entry)]
    PROVE  /\ MergedOf(o, b) \in Seq(Entry)
           /\ b = 1 => MergedOf(o, b) = <<>>
           /\ b # 1 => Len(MergedOf(o, b)) = Len(o[FirstPredecessor(b)])
<1>1. CASE b = 1
  BY <1>1 DEF MergedOf
<1>2. CASE b # 1
  <2>1. FirstPredecessor(b) \in Predecessors(b)
    BY <1>2, PredecessorFacts
  <2>2. o[FirstPredecessor(b)] \in Seq(Entry)
    BY <2>1 DEF Predecessors, Blocks
  <2>3. MergedOf(o, b) = Merge(o[FirstPredecessor(b)], {o[c] : c \in OtherPredecessors(b)})
    BY <1>2, <2>1 DEF MergedOf
  <2>4. QED
    BY <1>2, <2>2, <2>3, MergeFacts
<1>3. QED
  BY <1>1, <1>2

\* A block is entered at the depth its predecessors leave.
LEMMA MergedDepth ==
    ASSUME ProgramInv, Typed(program), NEW in, NEW o, NEW b \in Blocks, NEW P, ConstFacts(in, o, P),
           \A c \in Blocks : c < b => c \in P
    PROVE  Len(MergedOf(o, b)) = DepthAt(program, b)
<1>1. o \in [1 .. Len(program) -> Seq(Entry)]
  BY DEF ConstFacts
<1>2. CASE b = 1
  BY <1>1, <1>2, MergedFacts, DepthNext
<1>3. CASE b # 1
  <2> DEFINE first == FirstPredecessor(b)
  <2>1. first \in Blocks /\ first < b /\ first \in Predecessors(b)
    BY <1>3, PredecessorFacts DEF Predecessors
  <2>2. Len(o[first]) = OutDepth(first)
    BY <2>1 DEF ConstFacts
  <2>3. b \in NextOf(program, LastOf(first)) /\ LastOf(first) \in 1 .. Len(program)
    BY <2>1, BlockEnd DEF Predecessors, SuccessorSet
  <2>4. DepthAt(program, b) = OutDepth(first)
    BY <2>3, DepthNext DEF OutDepth
  <2>5. QED
    BY <1>1, <1>3, <2>2, <2>4, MergedFacts
<1>4. QED
  BY <1>2, <1>3

\* What the first round adds.
LEMMA OneMore ==
    ASSUME ProgramInv, NEW in, NEW o, NEW b \in Blocks, ConstFacts(in, o, {c \in Blocks : c < b}),
           \A c \in Blocks : c >= b => o[c] = <<>>,
           b # 1 => \A c, d \in Predecessors(b) : Len(o[c]) = Len(o[d]),
           NEW x \in StacksAfter(MergedOf(o, b), b, LastOf(b))
    PROVE  ConstFacts([in EXCEPT ![b] = MergedOf(o, b)], [o EXCEPT ![b] = x], {c \in Blocks : c <= b})
<1> DEFINE new == MergedOf(o, b)
           in2 == [in EXCEPT ![b] = new]
           o2 == [o EXCEPT ![b] = x]
<1>0. /\ Len(program) \in Nat /\ b \in 1 .. Len(program) /\ LastOf(b) \in b - 1 .. Len(program)
      /\ in \in [1 .. Len(program) -> Seq(Entry)] /\ o \in [1 .. Len(program) -> Seq(Entry)]
  <2>1. Len(program) \in Nat /\ b \in 1 .. Len(program) /\ LastOf(b) \in b .. Len(program)
    BY ProgramFacts, BlockEnd
  <2>2. QED
    BY <2>1 DEF ConstFacts
<1>1. new \in Seq(Entry) /\ x \in Seq(Entry)
  <2>1. new \in Seq(Entry)
    BY <1>0, MergedFacts
  <2>2. StacksAfter(new, b, LastOf(b)) \in Stacks
    BY <1>0, <2>1, StacksNext
  <2>3. QED
    BY <2>1, <2>2 DEF Stacks
<1>2. in2 \in [1 .. Len(program) -> Seq(Entry)] /\ o2 \in [1 .. Len(program) -> Seq(Entry)]
  BY <1>0, <1>1
<1>3. ASSUME NEW c \in Blocks PROVE c \in 1 .. Len(program) /\ (c # b => in2[c] = in[c] /\ o2[c] = o[c])
  <2>1. c \in 1 .. Len(program)
    BY DEF Blocks
  <2>2. QED
    BY <1>0, <2>1
<1>4. in2[b] = new /\ o2[b] = x
  BY <1>0
<1> HIDE DEF in2, o2
<1>5. ASSUME NEW c \in Blocks, c <= b, c # 1, NEW d \in Predecessors(c), d >= c
      PROVE  o[FirstPredecessor(c)] = <<>>
  <2>1. CASE c < b
    BY <1>5, <2>1 DEF ConstFacts
  <2>2. CASE c = b
    <3>1. d \in Blocks /\ o[d] = <<>> /\ FirstPredecessor(c) \in Predecessors(b)
      BY <1>5, <2>2, PredecessorFacts DEF Predecessors
    <3>2. Len(o[FirstPredecessor(c)]) = 0
      BY <1>5, <2>2, <3>1
    <3>3. o[FirstPredecessor(c)] \in Seq(Entry)
      BY <1>0, <1>3, <3>1 DEF Predecessors
    <3>4. QED
      BY <3>2, <3>3, EmptySeq
  <2>3. QED
    BY <1>0, <1>3, <1>5, <2>1, <2>2
<1>6. ASSUME NEW c \in Blocks, c <= b, c # 1
      PROVE  /\ FirstPredecessor(c) \in Predecessors(c) /\ FirstPredecessor(c) \in Blocks /\ FirstPredecessor(c) < b
             /\ o2[FirstPredecessor(c)] = o[FirstPredecessor(c)]
  <2>1. FirstPredecessor(c) \in Predecessors(c) /\ FirstPredecessor(c) \in Nat /\ FirstPredecessor(c) < c
    BY <1>6, PredecessorFacts
  <2>2. FirstPredecessor(c) < b /\ FirstPredecessor(c) # b
    BY <1>0, <1>3, <1>6, <2>1
  <2>3. QED
    BY <1>3, <2>1, <2>2 DEF Predecessors
<1>7. ASSUME NEW c \in Blocks, c <= b PROVE MergedOf(o2, c) = MergedOf(o, c)
  <2>1. CASE c = 1
    BY <2>1 DEF MergedOf
  <2>2. CASE c # 1 /\ b \in Predecessors(c)
    <3>1. o[FirstPredecessor(c)] = <<>>
      BY <1>0, <1>3, <1>5, <1>7, <2>2
    <3>2. MergedOf(o, c) \in Seq(Entry) /\ Len(MergedOf(o, c)) = 0
      BY <1>0, <2>2, <3>1, MergedFacts
    <3>3. MergedOf(o2, c) \in Seq(Entry) /\ Len(MergedOf(o2, c)) = 0
      BY <1>2, <1>6, <1>7, <2>2, <3>1, MergedFacts
    <3>4. QED
      BY <3>2, <3>3, EmptySeq
  <2>3. CASE c # 1 /\ b \notin Predecessors(c)
    <3>1. \A d \in Predecessors(c) : o2[d] = o[d]
      BY <1>3, <2>3 DEF Predecessors
    <3>2. {o2[d] : d \in OtherPredecessors(c)} = {o[d] : d \in OtherPredecessors(c)}
      BY <3>1 DEF OtherPredecessors
    <3>3. o2[FirstPredecessor(c)] = o[FirstPredecessor(c)]
      BY <1>6, <1>7, <2>3
    <3>4. QED
      BY <3>2, <3>3 DEF MergedOf
  <2>4. QED
    BY <2>1, <2>2, <2>3
<1>8. ASSUME NEW c \in Blocks, c <= b
      PROVE  in2[c] = MergedOf(o2, c) /\ o2[c] \in StacksAfter(in2[c], c, LastOf(c))
  <2>1. CASE c = b
    BY <1>4, <1>7, <1>8, <2>1
  <2>2. CASE c # b
    <3>1. c < b
      BY <1>0, <1>3, <1>8, <2>2
    <3>2. in[c] = MergedOf(o, c) /\ o[c] \in StacksAfter(in[c], c, LastOf(c))
      BY <3>1 DEF ConstFacts
    <3>3. QED
      BY <1>3, <1>7, <1>8, <2>2, <3>2
  <2>3. QED
    BY <2>1, <2>2
<1>9. ASSUME NEW c \in Blocks, c <= b, c # 1, NEW d \in Predecessors(c), d >= c
      PROVE  o2[FirstPredecessor(c)] = <<>>
  BY <1>5, <1>6, <1>9
<1>10. ASSUME Typed(program), NEW c \in Blocks, c <= b PROVE Len(o2[c]) = OutDepth(c)
  <2>1. ASSUME NEW d \in Blocks, d < b PROVE Len(o[d]) = OutDepth(d)
    BY <1>10, <2>1 DEF ConstFacts
  <2>2. CASE c = b
    <3>1. Len(new) = DepthAt(program, b)
      <4> DEFINE P == {d \in Blocks : d < b}
      <4>1. ConstFacts(in, o, P) /\ \A d \in Blocks : d < b => d \in P
        OBVIOUS
      <4> HIDE DEF P
      <4>2. QED
        BY <1>10, <4>1, MergedDepth
    <3>2. AllOf(StacksAfter(new, b, LastOf(b)), OutDepth(b))
      <4> HIDE DEF new
      <4>1. QED
        BY <1>1, <1>10, <3>1, StacksTyped
    <3>3. QED
      BY <1>4, <2>2, <3>2 DEF AllOf
  <2>3. CASE c # b
    BY <1>0, <1>3, <1>10, <2>1, <2>3
  <2>4. QED
    BY <2>2, <2>3
<1>11. QED
  BY <1>2, <1>8, <1>9, <1>10 DEF ConstFacts, in2, o2

\* A later round finds what is there.
LEMMA NothingNew ==
    ASSUME ProgramInv, NEW in, NEW o, NEW b \in Blocks, ConstFacts(in, o, Blocks),
           NEW x \in StacksAfter(MergedOf(o, b), b, LastOf(b))
    PROVE  x = o[b] /\ MergedOf(o, b) = in[b]
<1>1. /\ in \in [1 .. Len(program) -> Seq(Entry)] /\ o \in [1 .. Len(program) -> Seq(Entry)]
      /\ in[b] = MergedOf(o, b) /\ o[b] \in StacksAfter(in[b], b, LastOf(b))
  BY DEF ConstFacts
<1>2. b \in 1 .. Len(program) /\ LastOf(b) \in b - 1 .. Len(program) /\ in[b] \in Seq(Entry)
  <2>1. Len(program) \in Nat /\ b \in 1 .. Len(program) /\ LastOf(b) \in b .. Len(program)
    BY ProgramFacts, BlockEnd
  <2>2. QED
    BY <1>1, <2>1
<1>3. x = o[b]
  BY <1>1, <1>2, StacksSingle
<1>4. QED
  BY <1>1, <1>2, <1>3

LEMMA FewerFacts ==
    ASSUME NEW in, NEW o, NEW P, ConstFacts(in, o, P), NEW Q \in SUBSET P
    PROVE  ConstFacts(in, o, Q)
BY DEF ConstFacts

\* The recursions of StacksAfter and WalkedTo, over a program that is given.
StacksOver(p, s, from, to) ==
    LET stacks[i \in from - 1 .. to] == IF i = from - 1 THEN {s} ELSE Through(stacks[i - 1], p[i])
    IN  stacks[to]
WalkedOver(p, in, b, i) ==
    LET walked[k \in b .. i] == IF k = b THEN in[b] ELSE Walked(walked[k - 1], p[k - 1])
    IN  walked[i]

\* No step changes what was written.
LEMMA SameProgram ==
    ASSUME program' = program
    PROVE  /\ Blocks' = Blocks /\ End' = End
           /\ \A b : LastOf(b)' = LastOf(b) /\ BlockOf(b)' = BlockOf(b)
           /\ \A b : Predecessors(b)' = Predecessors(b) /\ FirstPredecessor(b)' = FirstPredecessor(b)
           /\ \A b : OtherPredecessors(b)' = OtherPredecessors(b) /\ OutDepth(b)' = OutDepth(b)
<1>1. Blocks' = Blocks /\ End' = End /\ \A b : LastOf(b)' = LastOf(b)
  BY DEF Blocks, LastOf, End
<1>2. \A b : SuccessorSet(b)' = SuccessorSet(b)
  BY <1>1 DEF SuccessorSet
<1>3. \A b : Predecessors(b)' = Predecessors(b)
  BY <1>1, <1>2 DEF Predecessors
<1>4. \A b : FirstPredecessor(b)' = FirstPredecessor(b)
  BY <1>3 DEF FirstPredecessor
<1>5. \A b, d : LeadsTwice(b, d)' = LeadsTwice(b, d)
  BY <1>1 DEF LeadsTwice
<1>6. \A b : OtherPredecessors(b)' = OtherPredecessors(b)
  BY <1>3, <1>4, <1>5 DEF OtherPredecessors
<1>7. \A b : OutDepth(b)' = OutDepth(b)
  BY <1>1 DEF OutDepth
<1>8. \A b : BlockOf(b)' = BlockOf(b)
  BY <1>1 DEF BlockOf
<1>9. QED
  BY <1>1, <1>3, <1>4, <1>6, <1>7, <1>8

LEMMA SameMerge ==
    ASSUME program' = program, NEW b
    PROVE  MergedOf(constOut, b)' = MergedOf(constOut', b)
<1>1. MergedOf(constOut, b)' =
          IF b = 1 \/ Predecessors(b)' = {} THEN <<>>
          ELSE Merge(constOut'[FirstPredecessor(b)'], {constOut'[c] : c \in OtherPredecessors(b)'})
  BY Zenon DEF MergedOf
<1>2. Predecessors(b)' = Predecessors(b) /\ FirstPredecessor(b)' = FirstPredecessor(b)
  BY SameProgram
<1>3. OtherPredecessors(b)' = OtherPredecessors(b)
  BY SameProgram
<1>4. QED
  BY <1>1, <1>2, <1>3, Zenon DEF MergedOf

LEMMA SameStacks ==
    ASSUME program' = program, NEW b
    PROVE  StacksAfter(constIn[b], b, LastOf(b))' = StacksAfter(constIn'[b], b, LastOf(b))
<1>1. StacksAfter(constIn[b], b, LastOf(b))' = StacksOver(program', constIn'[b], b, LastOf(b)')
  BY Zenon DEF StacksAfter, StacksOver
<1>2. StacksAfter(constIn'[b], b, LastOf(b)) = StacksOver(program, constIn'[b], b, LastOf(b))
  BY Zenon DEF StacksAfter, StacksOver
<1>3. QED
  BY <1>1, <1>2, SameProgram

Later == phase \in {"static", "dynamic", "analyse", "run"}

\* The blocks constant propagation has looked at.
Done ==
    IF Later \/ (phase = "const" /\ rounds # 0) THEN Blocks
    ELSE IF phase = "const" THEN {c \in Blocks : c < block} ELSE {}

LEMMA SameFacts ==
    ASSUME program' = program, ConstFacts(constIn', constOut', Done')
    PROVE  ConstFacts(constIn, constOut, Done)'
<1>1. /\ constIn' \in [1 .. Len(program') -> Seq(Entry)] /\ constOut' \in [1 .. Len(program') -> Seq(Entry)]
  BY DEF ConstFacts
<1>2. \A c \in Done' : /\ constIn'[c] = MergedOf(constOut, c)'
                       /\ constOut'[c] \in StacksAfter(constIn[c], c, LastOf(c))'
  BY SameMerge, SameStacks DEF ConstFacts
<1>3. \A c \in Done' : c # 1 /\ (\E d \in Predecessors(c)' : d >= c) => constOut'[FirstPredecessor(c)'] = <<>>
  BY SameProgram DEF ConstFacts
<1>4. Typed(program') => \A c \in Done' : Len(constOut'[c]) = OutDepth(c)'
  BY SameProgram DEF ConstFacts
<1>5. QED
  BY <1>1, <1>2, <1>3, <1>4 DEF ConstFacts

HasNaN == \E b \in Blocks : \E k \in 1 .. Len(constOut[b]) : constOut[b][k] = NaN

ConstInv ==
    /\ ProgramInv
    /\ phase \in {"const", "static", "dynamic", "analyse", "run", "rejected", "undefined"}
    /\ block \in Blocks \cup {1, End} /\ changed \in BOOLEAN /\ rounds \in 0 .. MaxRounds
    /\ ConstFacts(constIn, constOut, Done)
    /\ phase = "const" =>
        /\ block \in Blocks \cup {End}
        /\ \A c \in Blocks \ Done : constOut[c] = <<>>
        /\ rounds > 1 \/ (rounds = 1 /\ changed) => HasNaN
    /\ phase = "undefined" => ~Typed(program)

LEMMA SameConst ==
    ASSUME ConstInv, program' = program, UNCHANGED <<block, changed, rounds, constIn, constOut>>,
           phase' \in {"const", "static", "dynamic", "analyse", "run", "rejected"}, Done' \subseteq Done,
           phase' = "const" => phase = "const" /\ Done' = Done
    PROVE  ConstInv'
<1>1. ConstFacts(constIn, constOut, Done)'
  <2>1. ConstFacts(constIn, constOut, Done')
    BY FewerFacts DEF ConstInv
  <2>2. QED
    BY <2>1, SameFacts
<1>2. ProgramInv'
  BY DEF ConstInv, ProgramInv
<1>3. HasNaN' = HasNaN
  BY SameProgram DEF HasNaN
<1>4. QED
  BY <1>1, <1>2, <1>3, SameProgram DEF ConstInv

LEMMA ConstInit ==
    ASSUME Init
    PROVE  ConstInv
<1>1. ProgramInv /\ Len(program) \in Nat
  <2>1. ProgramInv
    BY DEF Init, ProgramInv
  <2>2. QED
    BY <2>1, ProgramFacts
<1>2. phase = "const" /\ block = 1 /\ changed = FALSE /\ rounds = 0 /\ MaxRounds \in Nat
  BY ArrayAssumption DEF Init, ArrayAssumption
<1>3. Blocks \subseteq 1 .. Len(program) /\ (Len(program) # 0 => 1 \in Blocks)
  BY <1>1 DEF Blocks, IsStart
<1>4. Done = {}
  <2>1. Done = {c \in Blocks : c < 1}
    BY <1>2 DEF Done, Later
  <2>2. \A c \in Blocks : ~(c < 1)
    BY <1>1, <1>3
  <2>3. QED
    BY <2>1, <2>2
<1>5. /\ constIn \in [1 .. Len(program) -> Seq(Entry)] /\ constOut \in [1 .. Len(program) -> Seq(Entry)]
      /\ \A c \in Blocks : constOut[c] = <<>>
  <2>1. <<>> \in Seq(Entry)
    BY EmptySeq
  <2>2. QED
    BY <1>3, <2>1 DEF Init
<1>6. ConstFacts(constIn, constOut, Done)
  BY <1>4, <1>5 DEF ConstFacts
<1>7. block \in Blocks \cup {End}
  BY <1>1, <1>2, <1>3 DEF End
<1>8. rounds \in 0 .. MaxRounds /\ ~(rounds > 1 \/ (rounds = 1 /\ changed)) /\ changed \in BOOLEAN
  <2>1. rounds \in 0 .. MaxRounds /\ ~(rounds > 1) /\ rounds # 1
    BY <1>2
  <2>2. changed \in BOOLEAN
    BY <1>2
  <2>3. QED
    BY <2>1, <2>2, Zenon
<1>9. phase \in {"const", "static", "dynamic", "analyse", "run", "rejected", "undefined"} /\ phase # "undefined"
  BY <1>2
<1>10. \A c \in Blocks \ Done : constOut[c] = <<>>
  BY <1>5
<1>11. QED
  BY <1>1, <1>6, <1>7, <1>8, <1>9, <1>10, Zenon DEF ConstInv

LEMMA ConstPropagate ==
    ASSUME ConstInv, Propagate
    PROVE  ConstInv'
<1> DEFINE b == block
           new == MergedIn(b)
           outs == StacksAfter(new, b, LastOf(b))
<1>1. phase = "const" /\ program' = program /\ ProgramInv /\ ConstFacts(constIn, constOut, Done)
  BY DEF Propagate, ConstInv
<1>2. /\ Len(program) \in Nat /\ b \in Blocks /\ b \in 1 .. Len(program) /\ LastOf(b) \in b .. Len(program)
      /\ rounds \in Nat
  <2>1. Len(program) \in Nat /\ rounds \in Nat
    BY <1>1, ProgramFacts, ArrayAssumption DEF ConstInv, ArrayAssumption
  <2>2. b \in Blocks
    BY <1>1, <2>1 DEF Propagate, ConstInv, End
  <2>3. QED
    BY <1>1, <2>1, <2>2, BlockEnd
<1>3. new = MergedOf(constOut, b)
  BY Zenon DEF MergedIn, MergedOf
<1>4. constIn \in [1 .. Len(program) -> Seq(Entry)] /\ constOut \in [1 .. Len(program) -> Seq(Entry)]
  BY <1>1 DEF ConstFacts
<1>5. new \in Seq(Entry)
  BY <1>1, <1>2, <1>3, <1>4, MergedFacts
<1>6. \A c \in Blocks : c < b => c \in Done
  BY <1>1 DEF Done
<1>7. ProgramInv'
  BY <1>1 DEF ProgramInv
<1>8. CASE DepthsDiffer(b)
  <2>1. phase' = "rejected" /\ UNCHANGED constVars
    BY <1>8 DEF Propagate
  <2>2. Done' = {}
    BY <2>1 DEF Done, Later
  <2>3. QED
    BY <1>1, <2>1, <2>2, SameConst DEF constVars
<1>9. CASE ~DepthsDiffer(b) /\ outs = {}
  <2>1. phase' = "undefined" /\ UNCHANGED constVars
    BY <1>9 DEF Propagate
  <2>2. Done' = {}
    BY <2>1 DEF Done, Later
  <2>3. ~Typed(program)
    <3> SUFFICES ASSUME Typed(program) PROVE FALSE
      OBVIOUS
    <3>1. Len(new) = DepthAt(program, b)
      BY <1>1, <1>2, <1>3, <1>6, MergedDepth
    <3>2. AllOf(outs, OutDepth(b))
      <4> HIDE DEF new, b
      <4>1. QED
        BY <1>1, <1>2, <1>5, <3>1, StacksTyped
    <3>3. QED
      BY <1>9, <3>2 DEF AllOf
  <2>4. ConstFacts(constIn, constOut, Done)'
    <3>1. ConstFacts(constIn, constOut, Done')
      BY <1>1, <2>2, FewerFacts
    <3>2. QED
      BY <1>1, <2>1, <3>1, SameFacts DEF constVars
  <2>5. QED
    BY <1>1, <1>7, <2>1, <2>3, <2>4, SameProgram DEF ConstInv, constVars
<1>10. CASE ~DepthsDiffer(b) /\ outs # {}
  <2>1. /\ constIn' = [constIn EXCEPT ![b] = new] /\ \E out \in outs : constOut' = [constOut EXCEPT ![b] = out]
        /\ changed' = (changed \/ \E out \in outs : ~SameStack(out, constOut[b]))
        /\ block' = LastOf(b) + 1 /\ phase' = "const" /\ rounds' = rounds
    BY <1>1, <1>10 DEF Propagate, NextBlock
  <2>2. PICK x \in outs : constOut' = [constOut EXCEPT ![b] = x]
    BY <2>1
  <2>3. block' \in Blocks' \cup {End'} /\ block' > b
    <3>1. LastOf(b) + 1 \in Blocks \/ LastOf(b) + 1 = Len(program) + 1
      BY <1>1, <1>2, BlockEnd
    <3>2. QED
      BY <1>1, <1>2, <2>1, <3>1, SameProgram DEF End
  <2>4. changed' \in BOOLEAN
    BY <2>1 DEF ConstInv
  <2>5. CASE rounds = 0
    <3> DEFINE P == {c \in Blocks : c < b}
               Q == {c \in Blocks : c <= b}
    <3>1. Done = P
      BY <1>1, <2>5 DEF Done, Later
    <3>2. Done' = Q
      <4>1. Done' = {c \in Blocks : c < LastOf(b) + 1}
        BY <1>1, <2>1, <2>5, SameProgram DEF Done, Later
      <4>2. ASSUME NEW c \in Blocks PROVE c < LastOf(b) + 1 <=> c <= b
        <5>1. c \in 1 .. Len(program) /\ c \notin b + 1 .. LastOf(b)
          BY <1>1, <1>2, BlockEnd
        <5> HIDE DEF b
        <5>2. QED
          BY <1>2, <5>1
      <4>3. QED
        BY <4>1, <4>2
    <3>3. \A c \in Blocks : c >= b => constOut[c] = <<>>
      <4>1. \A c \in Blocks \ P : constOut[c] = <<>>
        BY <1>1, <3>1 DEF ConstInv
      <4>2. \A c \in Blocks : c \in Nat
        BY <1>2 DEF Blocks
      <4> HIDE DEF b
      <4>3. QED
        BY <1>2, <4>1, <4>2
    <3>4. b # 1 => \A c, d \in Predecessors(b) : Len(constOut[c]) = Len(constOut[d])
      BY <1>10 DEF DepthsDiffer
    <3>5. ConstFacts(constIn', constOut', Done')
      <4>1. /\ constIn' = [constIn EXCEPT ![b] = MergedOf(constOut, b)]
            /\ x \in StacksAfter(MergedOf(constOut, b), b, LastOf(b)) /\ ConstFacts(constIn, constOut, P)
        BY <1>1, <1>3, <2>1, <3>1
      <4> HIDE DEF b
      <4>2. ConstFacts([constIn EXCEPT ![b] = MergedOf(constOut, b)], [constOut EXCEPT ![b] = x], {c \in Blocks : c <= b})
        BY <1>1, <1>2, <3>3, <3>4, <4>1, OneMore
      <4>3. QED
        BY <2>2, <3>2, <4>1, <4>2
    <3>6. ConstFacts(constIn, constOut, Done)'
      BY <1>1, <3>5, SameFacts
    <3>7. \A c \in Blocks' \ Done' : constOut'[c] = <<>>
      <4> SUFFICES ASSUME NEW c \in Blocks, c \notin Q PROVE constOut'[c] = <<>>
        BY <1>1, <3>2, SameProgram
      <4>1. c \in 1 .. Len(program) /\ ~(c <= b)
        BY DEF Blocks
      <4>2. c # b /\ c >= b
        BY <1>2, <4>1
      <4>3. QED
        BY <1>4, <2>2, <3>3, <4>1, <4>2
    <3>8. QED
      BY <1>1, <1>7, <2>1, <2>3, <2>4, <2>5, <3>6, <3>7, SameProgram DEF ConstInv
  <2>6. CASE rounds # 0
    <3>1. Done = Blocks /\ Done' = Blocks
      BY <1>1, <2>1, <2>6, SameProgram DEF Done, Later
    <3>2. ASSUME NEW y \in outs
          PROVE  y = constOut[b] /\ MergedOf(constOut, b) = constIn[b]
      <4>1. y \in StacksAfter(MergedOf(constOut, b), b, LastOf(b)) /\ ConstFacts(constIn, constOut, Blocks)
        BY <1>1, <1>3, <3>1
      <4> HIDE DEF b, outs
      <4>2. QED
        BY <1>1, <1>2, <4>1, NothingNew
    <3>3. constIn' = constIn /\ constOut' = constOut
      <4>1. x = constOut[b] /\ new = constIn[b]
        BY <1>3, <3>2
      <4>2. [constIn EXCEPT ![b] = new] = constIn /\ [constOut EXCEPT ![b] = x] = constOut
        <5> HIDE DEF b, outs, new
        <5>1. QED
          BY <1>2, <1>4, <4>1
      <4>3. QED
        BY <2>1, <2>2, <4>2, Zenon
    <3>4. changed' => changed \/ HasNaN
      <4> SUFFICES ASSUME ~SameStack(constOut[b], constOut[b]) PROVE HasNaN
        BY <2>1, <3>2
      <4>1. \E k \in 1 .. Len(constOut[b]) : constOut[b][k] = NaN
        BY DEF SameStack, Same
      <4>2. QED
        BY <1>2, <4>1 DEF HasNaN
    <3>5. HasNaN' = HasNaN
      BY <1>1, <3>3, SameProgram DEF HasNaN
    <3>6. ConstFacts(constIn, constOut, Done)'
      BY <1>1, <3>1, <3>3, SameFacts
    <3>7. QED
      BY <1>1, <1>7, <2>1, <2>3, <2>4, <3>1, <3>3, <3>4, <3>5, <3>6, SameProgram DEF ConstInv
  <2>7. QED
    BY <2>5, <2>6
<1>11. QED
  BY <1>8, <1>9, <1>10

LEMMA ConstEndOfRound ==
    ASSUME ConstInv, EndOfRound
    PROVE  ConstInv'
<1>1. /\ phase = "const" /\ block = End /\ program' = program /\ UNCHANGED <<constIn, constOut>>
      /\ phase' = (IF changed THEN "const" ELSE "static") /\ block' = 1 /\ changed' = FALSE
      /\ rounds' = IF changed /\ rounds < MaxRounds THEN rounds + 1 ELSE rounds
  BY DEF EndOfRound
<1>2. /\ ProgramInv /\ Len(program) \in Nat /\ ConstFacts(constIn, constOut, Done)
      /\ rounds \in 0 .. MaxRounds /\ MaxRounds \in Nat \ {0} /\ changed \in BOOLEAN
      /\ rounds > 1 \/ (rounds = 1 /\ changed) => HasNaN
  BY <1>1, ProgramFacts, ArrayAssumption DEF ConstInv, ArrayAssumption
<1>3. ProgramInv'
  BY <1>1, <1>2 DEF ProgramInv
<1>4. Done = Blocks
  BY <1>1, <1>2 DEF Done, Blocks, End
<1>5. rounds' \in 0 .. MaxRounds /\ (changed => rounds' # 0)
  BY <1>1, <1>2
<1>6. Done' = Blocks
  BY <1>1, <1>2, <1>5, SameProgram DEF Done, Later
<1>7. ConstFacts(constIn, constOut, Done)'
  BY <1>1, <1>2, <1>4, <1>6, SameFacts
<1>8. rounds' > 1 /\ changed => HasNaN
  BY <1>1, <1>2
<1>9. HasNaN' = HasNaN
  BY <1>1, SameProgram DEF HasNaN
<1>10. phase' = "const" => 1 \in Blocks \cup {End}
  BY <1>2 DEF Blocks, IsStart, End
<1>11. QED
  BY <1>1, <1>2, <1>3, <1>4, <1>5, <1>6, <1>7, <1>8, <1>9, <1>10, SameProgram DEF ConstInv

LEMMA ConstStep ==
    ASSUME ConstInv, [Next]_vars
    PROVE  ConstInv'
<1>1. ASSUME Propagate PROVE ConstInv'
  BY <1>1, ConstPropagate
<1>2. ASSUME EndOfRound PROVE ConstInv'
  BY <1>2, ConstEndOfRound
<1>3. ASSUME StaticArrayOpt PROVE ConstInv'
  <2>1. /\ phase = "static" /\ phase' = "dynamic" /\ program' = program
        /\ UNCHANGED <<block, changed, rounds, constIn, constOut>>
    BY <1>3 DEF StaticArrayOpt, constVars
  <2>2. Done' = Done
    BY <2>1, SameProgram DEF Done, Later
  <2>3. QED
    BY <2>1, <2>2, SameConst
<1>4. ASSUME DynamicArrayAllocOpt PROVE ConstInv'
  <2>1. /\ phase = "dynamic" /\ phase' = "analyse" /\ program' = program
        /\ UNCHANGED <<block, changed, rounds, constIn, constOut>>
    BY <1>4 DEF DynamicArrayAllocOpt, constVars
  <2>2. Done' = Done
    BY <2>1, SameProgram DEF Done, Later
  <2>3. QED
    BY <2>1, <2>2, SameConst
<1>5. ASSUME Analyse PROVE ConstInv'
  <2>1. /\ phase = "analyse" /\ phase' \in {"run", "rejected"} /\ program' = program
        /\ UNCHANGED <<block, changed, rounds, constIn, constOut>>
    BY <1>5 DEF Analyse, constVars
  <2>2. Done' \subseteq Done
    BY <2>1, SameProgram DEF Done, Later
  <2>3. QED
    BY <2>1, <2>2, SameConst
<1>6. ASSUME Execute PROVE ConstInv'
  <2>1. phase = "run" /\ phase' = "run" /\ program' = program /\ UNCHANGED <<block, changed, rounds, constIn, constOut>>
    BY <1>6 DEF Execute, constVars
  <2>2. Done' = Done
    BY <2>1, SameProgram DEF Done, Later
  <2>3. QED
    BY <2>1, <2>2, SameConst
<1>7. ASSUME UNCHANGED vars PROVE ConstInv'
  <2>1. program' = program /\ phase' = phase /\ UNCHANGED <<block, changed, rounds, constIn, constOut>>
    BY <1>7 DEF vars
  <2>2. Done' = Done
    BY <2>1, SameProgram DEF Done, Later
  <2>3. phase = "undefined" => ConstInv'
    <3>1. ConstFacts(constIn, constOut, Done)'
      BY <2>1, <2>2, SameFacts DEF ConstInv
    <3>2. ProgramInv'
      BY <2>1 DEF ConstInv, ProgramInv
    <3>3. QED
      BY <2>1, <3>1, <3>2, SameProgram DEF ConstInv
  <2>4. phase # "undefined" => ConstInv'
    BY <2>1, <2>2, SameConst DEF ConstInv
  <2>5. QED
    BY <2>3, <2>4
<1>8. QED
  BY <1>1, <1>2, <1>3, <1>4, <1>5, <1>6, <1>7 DEF Next, Passes

THEOREM ConstAlways == Spec => []ConstInv
<1>1. Init => ConstInv
  BY ConstInit
<1>2. ConstInv /\ [Next]_vars => ConstInv'
  BY ConstStep
<1>3. QED
  BY <1>1, <1>2, PTL DEF Spec

\* Constant propagation ends: its second round finds what the first has found, for a block that
\* is merged before one of its predecessors has given anything gets nothing from it, or is rejected.
THEOREM PropagationAlwaysEnds == Spec => []PropagationEnds
<1>1. ConstInv => PropagationEnds
  <2>1. ASSUME ConstInv, phase = "const" PROVE rounds <= 1 \/ HasNaN
    <3>1. rounds \in Nat
      BY <2>1, ArrayAssumption DEF ConstInv, ArrayAssumption
    <3>2. QED
      BY <2>1, <3>1 DEF ConstInv
  <2>2. QED
    BY <2>1 DEF PropagationEnds, HasNaN
<1>2. QED
  BY <1>1, ConstAlways, PTL

-------------------------------------------------------------------------------
(* Where the tokens are after the insertions *)

Before(i) == {c \in Converted : c <= i}

LEMMA ConvertedFinite ==
    ASSUME ProgramInv
    PROVE  /\ Len(program) \in Nat /\ Converted \subseteq 1 .. Len(program)
           /\ \A T \in SUBSET Converted : IsFiniteSet(T) /\ Cardinality(T) \in Nat
<1>1. Len(program) \in Nat
  BY ProgramFacts
<1>2. Converted \subseteq 1 .. Len(program)
  BY DEF Converted
<1>3. IsFiniteSet(1 .. Len(program))
  BY <1>1, FS_Interval
<1>4. ASSUME NEW T \in SUBSET Converted PROVE IsFiniteSet(T) /\ Cardinality(T) \in Nat
  <2>1. T \subseteq 1 .. Len(program)
    BY <1>2
  <2>2. IsFiniteSet(T)
    BY <1>3, <2>1, FS_Subset
  <2>3. QED
    BY <2>2, FS_CardinalityType
<1>5. QED
  BY <1>1, <1>2, <1>4

LEMMA NewIndexStep ==
    ASSUME ProgramInv, NEW i \in 1 .. Len(program) + 1
    PROVE  /\ NewIndex(i) = NewIndex(i - 1) + (IF i \in Converted THEN 2 ELSE 1)
           /\ NewStart(i) = NewIndex(i - 1) + 1 /\ NewIndex(i) \in Nat /\ NewIndex(i - 1) \in Nat
<1>1. Len(program) \in Nat /\ \A T \in SUBSET Converted : IsFiniteSet(T) /\ Cardinality(T) \in Nat
  BY ConvertedFinite
<1>2. Before(i) \in SUBSET Converted /\ Before(i - 1) \in SUBSET Converted
  BY DEF Before
<1>3. \A c \in Converted : c \in Int
  BY <1>1 DEF Converted
<1> DEFINE n == i - 1
<1>6. i \in Int /\ n \in Int /\ ~(i <= n) /\ \A c \in Converted : c <= i <=> (c <= n \/ c = i)
  <2>1. i \in Int /\ n \in Int /\ ~(i <= n)
    BY <1>1
  <2>2. ASSUME NEW c \in Converted PROVE c <= i <=> (c <= n \/ c = i)
    <3>1. c \in Int
      BY <1>3
    <3>2. QED
      BY <2>1, <3>1
  <2>3. QED
    BY <2>1, <2>2
<1>7. /\ NewIndex(i) = i + Cardinality(Before(i)) /\ NewIndex(n) = n + Cardinality(Before(n))
      /\ Cardinality(Before(i)) \in Nat /\ Cardinality(Before(n)) \in Nat /\ IsFiniteSet(Before(n))
      /\ NewStart(i) = IF i \in Converted THEN NewIndex(i) - 1 ELSE NewIndex(i)
  BY <1>1, <1>2 DEF NewIndex, NewStart, Before
<1>8. n \in Nat /\ i = n + 1
  BY <1>1
<1> HIDE DEF n
<1>4. CASE i \in Converted
  <2>1. Before(i) = Before(n) \cup {i} /\ i \notin Before(n)
    BY <1>4, <1>6 DEF Before
  <2>2. Cardinality(Before(i)) = Cardinality(Before(n)) + 1
    BY <1>7, <2>1, FS_AddElement
  <2>3. QED
    BY <1>4, <1>7, <1>8, <2>2 DEF n
<1>5. CASE i \notin Converted
  <2>1. Before(i) = Before(n)
    BY <1>5, <1>6 DEF Before
  <2>2. QED
    BY <1>5, <1>7, <1>8, <2>1 DEF n
<1>9. QED
  BY <1>4, <1>5

LEMMA NewIndexOrder ==
    ASSUME ProgramInv
    PROVE  /\ NewIndex(0) = 0
           /\ \A i \in 0 .. Len(program) + 1 : NewIndex(i) \in Nat /\ NewIndex(i) >= i
           /\ \A i, j \in 0 .. Len(program) + 1 : i < j => NewIndex(i) < NewStart(j) /\ NewIndex(i) < NewIndex(j)
<1>1. /\ Len(program) \in Nat /\ Converted \subseteq 1 .. Len(program)
      /\ \A T \in SUBSET Converted : IsFiniteSet(T) /\ Cardinality(T) \in Nat
  BY ConvertedFinite
<1>2. NewIndex(0) = 0
  <2>1. \A c \in Converted : ~(c <= 0)
    BY <1>1
  <2>3. {c \in Converted : c <= 0} = {}
    BY <2>1
  <2>2. QED
    BY <2>3, FS_EmptySet DEF NewIndex
<1>3. ASSUME NEW i \in 0 .. Len(program) + 1 PROVE NewIndex(i) \in Nat /\ NewIndex(i) >= i
  <2>1. Before(i) \in SUBSET Converted
    BY DEF Before
  <2>2. Cardinality(Before(i)) \in Nat
    BY <1>1, <2>1
  <2>3. QED
    BY <1>1, <2>2 DEF NewIndex, Before
<1>4. ASSUME NEW i \in 0 .. Len(program) + 1, NEW j \in 0 .. Len(program) + 1, i <= j PROVE NewIndex(i) <= NewIndex(j)
  <2>0. \A c \in Converted : c <= i => c <= j
    <3>1. \A c \in Converted : c \in Int
      BY <1>1
    <3>2. QED
      BY <1>1, <1>4, <3>1
  <2>1. Before(i) \subseteq Before(j) /\ Before(j) \in SUBSET Converted /\ Before(i) \in SUBSET Converted
    BY <2>0 DEF Before
  <2>2. Cardinality(Before(i)) <= Cardinality(Before(j)) /\ Cardinality(Before(i)) \in Nat /\ Cardinality(Before(j)) \in Nat
    BY <1>1, <2>1, FS_Subset
  <2>3. QED
    BY <1>1, <1>4, <2>2 DEF NewIndex, Before
<1>5. ASSUME NEW i \in 0 .. Len(program) + 1, NEW j \in 0 .. Len(program) + 1, i < j
      PROVE  NewIndex(i) < NewStart(j) /\ NewIndex(i) < NewIndex(j)
  <2>1. j \in 1 .. Len(program) + 1 /\ j - 1 \in 0 .. Len(program) + 1 /\ i <= j - 1
    BY <1>1, <1>5
  <2>2. NewIndex(i) <= NewIndex(j - 1) /\ NewIndex(i) \in Nat /\ NewIndex(j - 1) \in Nat
    BY <1>3, <1>4, <2>1
  <2>3. NewStart(j) = NewIndex(j - 1) + 1 /\ NewIndex(j) = NewIndex(j - 1) + (IF j \in Converted THEN 2 ELSE 1)
    BY <2>1, NewIndexStep
  <2>4. QED
    BY <2>2, <2>3
<1>6. QED
  BY <1>2, <1>3, <1>5

\* The last of the two tokens of a conversion, and any other token, is where NewIndex says; the
\* first is just before.
LEMMA OldIndexInverse ==
    ASSUME ProgramInv, NEW i \in 1 .. Len(program)
    PROVE  OldIndex(NewIndex(i)) = i /\ OldIndex(NewStart(i)) = i
<1>0. /\ Len(program) \in Nat /\ Converted \subseteq 1 .. Len(program) /\ i \in 0 .. Len(program) + 1
      /\ \A T \in SUBSET Converted : IsFiniteSet(T) /\ Cardinality(T) \in Nat
  BY ConvertedFinite
<1>1. \A c \in Converted : c \in 0 .. Len(program) + 1 /\ c \in 1 .. Len(program) /\ NewIndex(c) \in Nat
  <2>1. \A c \in Converted : c \in 0 .. Len(program) + 1 /\ c \in 1 .. Len(program)
    BY <1>0
  <2>2. QED
    BY <2>1, NewIndexOrder
<1>2. NewIndex(i) \in Nat
  BY <1>0, NewIndexOrder
<1>3. ASSUME NEW c \in Converted
      PROVE  (NewIndex(c) <= NewIndex(i) <=> c <= i) /\ (NewIndex(c) <= NewIndex(i) - 1 <=> c < i)
  <2>1. c < i => NewIndex(c) < NewIndex(i)
    BY <1>0, <1>1, NewIndexOrder
  <2>2. i < c => NewIndex(i) < NewIndex(c)
    BY <1>0, <1>1, NewIndexOrder
  <2>3. c \in Int /\ i \in Int /\ NewIndex(c) \in Int /\ NewIndex(i) \in Int
    BY <1>0, <1>1, <1>2
  <2>4. c < i \/ c = i \/ i < c
    BY <2>3
  <2>5. QED
    BY <2>1, <2>2, <2>3, <2>4
<1>4. OldIndex(NewIndex(i)) = i
  <2>1. {c \in Converted : NewIndex(c) <= NewIndex(i)} = Before(i)
    BY <1>3 DEF Before
  <2>2. Cardinality(Before(i)) \in Nat /\ i \in Nat
    BY <1>0 DEF Before
  <2>3. NewIndex(i) = i + Cardinality(Before(i)) /\ OldIndex(NewIndex(i)) = NewIndex(i) - Cardinality(Before(i))
    BY <2>1 DEF OldIndex, NewIndex, Before
  <2>4. QED
    BY <2>2, <2>3
<1>5. i \in Converted => OldIndex(NewStart(i)) = i
  <2> SUFFICES ASSUME i \in Converted PROVE OldIndex(NewIndex(i) - 1) = i
    BY DEF NewStart
  <2> DEFINE T == {c \in Converted : NewIndex(c) <= NewIndex(i) - 1}
  <2>0. i \in Nat /\ \A c \in Converted : c <= i <=> (c < i \/ c = i)
    <3>1. i \in Nat /\ \A c \in Converted : c \in Int
      BY <1>0
    <3>2. QED
      BY <3>1
  <2>5. T = {c \in Converted : c < i}
    BY <1>3
  <2> HIDE DEF T
  <2>6. Before(i) = T \cup {i}
    BY <2>0, <2>5 DEF Before
  <2>7. i \notin T
    BY <2>0, <2>5
  <2>1. Before(i) = T \cup {i} /\ i \notin T
    BY <2>6, <2>7
  <2> USE DEF T
  <2>2. Cardinality(T) \in Nat /\ IsFiniteSet(T)
    BY <1>0
  <2>3. Cardinality(Before(i)) = Cardinality(T) + 1
    <3> HIDE DEF T
    <3>1. QED
      BY <2>1, <2>2, FS_AddElement
  <2>4. NewIndex(i) = i + Cardinality(Before(i)) /\ OldIndex(NewIndex(i) - 1) = (NewIndex(i) - 1) - Cardinality(T)
    BY DEF NewIndex, OldIndex, Before
  <2> HIDE DEF T
  <2>8. QED
    BY <1>0, <1>2, <2>2, <2>3, <2>4
<1>6. QED
  BY <1>4, <1>5 DEF NewStart

\* There are no other tokens.
LEMMA IndexCases ==
    ASSUME ProgramInv, NEW j \in 1 .. NewIndex(Len(program))
    PROVE  \E i \in 1 .. Len(program) : j = NewStart(i) \/ j = NewIndex(i)
<1>0. Len(program) \in Nat /\ NewIndex(0) = 0 /\ \A i \in 0 .. Len(program) : NewIndex(i) \in Nat
  <2>1. Len(program) \in Nat
    BY ProgramFacts
  <2>2. \A i \in 0 .. Len(program) : i \in 0 .. Len(program) + 1
    BY <2>1
  <2>3. QED
    BY <2>1, <2>2, NewIndexOrder
<1> DEFINE T == {i \in 0 .. Len(program) : NewIndex(i) >= j}
<1>1. PICK m \in T : \A k \in T : m <= k
  <2>1. T \in SUBSET Nat /\ Len(program) \in T
    BY <1>0
  <2> HIDE DEF T
  <2>2. QED
    BY <2>1, LeastOf
<1>2. m \in 1 .. Len(program) /\ NewIndex(m) >= j
  BY <1>0, <1>1
<1>3. m - 1 \notin T /\ m - 1 \in 0 .. Len(program)
  BY <1>0, <1>1, <1>2
<1>4. NewIndex(m - 1) < j
  BY <1>0, <1>3
<1>5. NewStart(m) = NewIndex(m - 1) + 1 /\ NewIndex(m) = NewIndex(m - 1) + (IF m \in Converted THEN 2 ELSE 1)
      /\ NewIndex(m - 1) \in Nat
  <2>1. m \in 1 .. Len(program) + 1
    BY <1>0, <1>2
  <2>2. QED
    BY <2>1, NewIndexStep
<1>6. j = NewStart(m) \/ j = NewIndex(m)
  BY <1>2, <1>4, <1>5
<1>7. QED
  BY <1>2, <1>6

-------------------------------------------------------------------------------
(* The tokens the passes leave *)

StaticTokens ==
    [j \in 1 .. NewIndex(Len(program)) |->
        LET i == OldIndex(j) IN Rewritten(i)[j - NewStart(i) + 1]]

\* Tokens with the insertions, some allocations of which have been dropped.
Moved(q) ==
    /\ Len(q) = NewIndex(Len(program))
    /\ \A i \in 1 .. Len(program) :
           IF i \in Converted THEN q[NewStart(i)] = Drop1 /\ q[NewIndex(i)] = AllocStatic(program[i].name, Constant(i))
           ELSE q[NewIndex(i)] = program[i] \/ (program[i].kind = "alloc_dyn" /\ q[NewIndex(i)] = Drop1)

LEMMA IndexTypes ==
    ASSUME ProgramInv, NEW i \in 1 .. Len(program)
    PROVE  /\ NewIndex(i) \in 1 .. NewIndex(Len(program)) /\ NewStart(i) \in 1 .. NewIndex(Len(program))
           /\ NewIndex(Len(program)) \in Nat
           /\ IF i \in Converted THEN NewStart(i) = NewIndex(i) - 1 ELSE NewStart(i) = NewIndex(i)
<1> DEFINE n == Len(program)
<1>1. /\ n \in Nat /\ i \in 0 .. n + 1 /\ n \in 0 .. n + 1 /\ 0 \in 0 .. n + 1 /\ i \in 1 .. n + 1 /\ i <= n
      /\ 0 < i
  <2>1. n \in Nat
    BY ProgramFacts
  <2>2. QED
    BY <2>1
<1> HIDE DEF n
<1>2. /\ \A k \in 0 .. n + 1 : NewIndex(k) \in Nat /\ NewIndex(k) >= k
      /\ \A k, j \in 0 .. n + 1 : k < j => NewIndex(k) < NewStart(j) /\ NewIndex(k) < NewIndex(j)
      /\ NewIndex(0) = 0
  BY NewIndexOrder DEF n
<1>3. NewIndex(i) \in Nat /\ NewIndex(n) \in Nat /\ NewIndex(i) <= NewIndex(n)
  <2>1. CASE i = n
    BY <1>1, <1>2, <2>1
  <2>2. CASE i < n
    BY <1>1, <1>2, <2>2
  <2>3. QED
    BY <1>1, <2>1, <2>2
<1>4. 0 < NewStart(i)
  BY <1>1, <1>2
<1>5. IF i \in Converted THEN NewStart(i) = NewIndex(i) - 1 ELSE NewStart(i) = NewIndex(i)
  BY DEF NewStart
<1>6. QED
  BY <1>3, <1>4, <1>5 DEF n

LEMMA StaticMoved ==
    ASSUME ProgramInv
    PROVE  /\ Moved(StaticTokens)
           /\ \A i \in 1 .. Len(program) : i \notin Converted => StaticTokens[NewIndex(i)] = program[i]
<1>1. ASSUME NEW i \in 1 .. Len(program), i \in Converted
      PROVE  /\ StaticTokens[NewStart(i)] = Drop1
             /\ StaticTokens[NewIndex(i)] = AllocStatic(program[i].name, Constant(i))
  <2>1. /\ NewIndex(i) \in 1 .. NewIndex(Len(program)) /\ NewStart(i) \in 1 .. NewIndex(Len(program))
        /\ NewIndex(i) \in Int /\ NewStart(i) = NewIndex(i) - 1
    BY <1>1, IndexTypes
  <2>2. OldIndex(NewIndex(i)) = i /\ OldIndex(NewStart(i)) = i
    BY OldIndexInverse
  <2>3. Rewritten(i) = <<Drop1, AllocStatic(program[i].name, Constant(i))>>
    BY <1>1 DEF Rewritten
  <2>4. StaticTokens[NewStart(i)] = Rewritten(i)[NewStart(i) - NewStart(i) + 1]
    BY <2>1, <2>2 DEF StaticTokens
  <2>5. StaticTokens[NewIndex(i)] = Rewritten(i)[NewIndex(i) - NewStart(i) + 1]
    BY <2>1, <2>2 DEF StaticTokens
  <2>6. NewStart(i) - NewStart(i) + 1 = 1 /\ NewIndex(i) - NewStart(i) + 1 = 2
    BY <2>1
  <2>7. QED
    BY <2>3, <2>4, <2>5, <2>6
<1>2. ASSUME NEW i \in 1 .. Len(program), i \notin Converted PROVE StaticTokens[NewIndex(i)] = program[i]
  <2>1. NewIndex(i) \in 1 .. NewIndex(Len(program)) /\ NewIndex(i) \in Int /\ NewStart(i) = NewIndex(i)
    BY <1>2, IndexTypes
  <2>2. OldIndex(NewIndex(i)) = i
    BY OldIndexInverse
  <2>3. Rewritten(i) = <<program[i]>>
    BY <1>2 DEF Rewritten
  <2>4. StaticTokens[NewIndex(i)] = Rewritten(i)[NewIndex(i) - NewIndex(i) + 1]
    BY <2>1, <2>2 DEF StaticTokens
  <2>5. NewIndex(i) - NewIndex(i) + 1 = 1
    BY <2>1
  <2>6. QED
    BY <2>3, <2>4, <2>5
<1>3. Len(StaticTokens) = NewIndex(Len(program))
  <2>1. NewIndex(Len(program)) \in Nat
    <3>1. Len(program) \in 0 .. Len(program) + 1
      <4>1. Len(program) \in Nat
        BY ProgramFacts
      <4>2. QED
        BY <4>1
    <3>2. QED
      BY <3>1, NewIndexOrder
  <2>2. QED
    BY <2>1 DEF StaticTokens
<1>4. QED
  BY <1>1, <1>2, <1>3 DEF Moved

\* What the inserted tokens are like.
LEMMA InsertedFacts ==
    /\ Drop1.kind = "drop" /\ Drop1.arity = 1 /\ Drop1.effect = -1
    /\ \A a, v : LET t == AllocStatic(a, v)
                 IN  t.kind = "alloc_static" /\ t.arity = 0 /\ t.effect = 0 /\ t.name = a /\ t.value = v
BY DEF Tok, Drop1, AllocStatic

LEMMA ConvertedKind ==
    ASSUME ProgramInv, NEW i \in Converted
    PROVE  /\ program[i].kind = "alloc_dyn" /\ program[i].arity = 1 /\ program[i].effect = -1
           /\ i \in 1 .. Len(program)
<1>1. program[i].kind = "alloc_dyn" /\ i \in 1 .. Len(program)
  BY DEF Converted
<1>2. program[i] \in TokenRecord /\ IsToken(program[i])
  BY <1>1, ProgramFacts
<1>3. QED
  BY <1>1, <1>2, TokenFacts

\* Every token of them is one of these.
LEMMA MovedTokens ==
    ASSUME ProgramInv, NEW q, Moved(q)
    PROVE  /\ Len(q) \in Nat
           /\ \A j \in 1 .. Len(q) : \E i \in 1 .. Len(program) :
                  \/ i \in Converted /\ j = NewStart(i) /\ j + 1 = NewIndex(i) /\ q[j] = Drop1
                  \/ i \in Converted /\ j = NewIndex(i) /\ q[j] = AllocStatic(program[i].name, Constant(i))
                  \/ i \notin Converted /\ j = NewIndex(i) /\ j = NewStart(i)
                        /\ (q[j] = program[i] \/ (program[i].kind = "alloc_dyn" /\ q[j] = Drop1))
<1>1. Len(q) = NewIndex(Len(program)) /\ Len(q) \in Nat
  <2>1. Len(program) \in 0 .. Len(program) + 1
    <3>1. Len(program) \in Nat
      BY ProgramFacts
    <3>2. QED
      BY <3>1
  <2>2. QED
    BY <2>1, NewIndexOrder DEF Moved
<1>2. ASSUME NEW j \in 1 .. Len(q)
      PROVE  \E i \in 1 .. Len(program) :
                  \/ i \in Converted /\ j = NewStart(i) /\ j + 1 = NewIndex(i) /\ q[j] = Drop1
                  \/ i \in Converted /\ j = NewIndex(i) /\ q[j] = AllocStatic(program[i].name, Constant(i))
                  \/ i \notin Converted /\ j = NewIndex(i) /\ j = NewStart(i)
                        /\ (q[j] = program[i] \/ (program[i].kind = "alloc_dyn" /\ q[j] = Drop1))
  <2>1. PICK i \in 1 .. Len(program) : j = NewStart(i) \/ j = NewIndex(i)
    BY <1>1, IndexCases
  <2>2. /\ NewIndex(i) \in Int
        /\ IF i \in Converted THEN NewStart(i) = NewIndex(i) - 1 ELSE NewStart(i) = NewIndex(i)
    BY IndexTypes
  <2>3. IF i \in Converted THEN q[NewStart(i)] = Drop1 /\ q[NewIndex(i)] = AllocStatic(program[i].name, Constant(i))
        ELSE q[NewIndex(i)] = program[i] \/ (program[i].kind = "alloc_dyn" /\ q[NewIndex(i)] = Drop1)
    BY DEF Moved
  <2>4. CASE i \in Converted /\ j = NewStart(i)
    BY <2>2, <2>3, <2>4
  <2>5. CASE i \in Converted /\ j = NewIndex(i)
    BY <2>3, <2>5
  <2>6. CASE i \notin Converted
    BY <2>1, <2>2, <2>3, <2>6
  <2>7. QED
    BY <2>1, <2>4, <2>5, <2>6
<1>3. QED
  BY <1>1, <1>2

\* A token of another kind than an allocation is where it was.
LEMMA MovedSame ==
    ASSUME ProgramInv, NEW q, Moved(q), NEW i \in 1 .. Len(program)
    PROVE  /\ program[i].kind # "alloc_dyn" =>
                  i \notin Converted /\ q[NewIndex(i)] = program[i] /\ NewStart(i) = NewIndex(i)
           /\ q[NewIndex(i)].kind = "jump" <=> program[i].kind = "jump"
           /\ i \in Converted => q[NewStart(i)].kind # "jump" /\ NewStart(i) + 1 = NewIndex(i)
           /\ i \notin Converted =>
                  q[NewIndex(i)].arity = program[i].arity /\ q[NewIndex(i)].effect = program[i].effect
<1>1. /\ IF i \in Converted THEN q[NewStart(i)] = Drop1 /\ q[NewIndex(i)] = AllocStatic(program[i].name, Constant(i))
         ELSE q[NewIndex(i)] = program[i] \/ (program[i].kind = "alloc_dyn" /\ q[NewIndex(i)] = Drop1)
      /\ IF i \in Converted THEN NewStart(i) = NewIndex(i) - 1 ELSE NewStart(i) = NewIndex(i)
      /\ NewIndex(i) \in Int
  BY IndexTypes DEF Moved
<1>2. i \in Converted => program[i].kind = "alloc_dyn"
  BY ConvertedKind
<1>3. program[i].kind = "alloc_dyn" => program[i].arity = 1 /\ program[i].effect = -1
  BY ProgramFacts, TokenFacts
<1>4. QED
  BY <1>1, <1>2, <1>3, InsertedFacts

LEMMA MovedTargets ==
    ASSUME ProgramInv, NEW q, Moved(q)
    PROVE  /\ ~UndefinedLabel(q)
           /\ \A i \in 1 .. Len(program) : program[i].kind = "jump" =>
                  TargetOf(q, NewIndex(i)) = NewStart(TargetOf(program, i))
<1>1. Len(q) = NewIndex(Len(program))
  BY DEF Moved
<1>2. ASSUME NEW i \in 1 .. Len(program), program[i].kind = "jump"
      PROVE  /\ q[NewIndex(i)] = program[i]
             /\ NewStart(TargetOf(program, i)) \in 1 .. Len(q)
             /\ Defines(q, NewStart(TargetOf(program, i)), q[NewIndex(i)].label)
  <2>1. q[NewIndex(i)] = program[i]
    BY <1>2, MovedSame
  <2>2. /\ TargetOf(program, i) \in 1 .. Len(program) /\ program[TargetOf(program, i)].kind = "label"
        /\ program[TargetOf(program, i)].label = program[i].label
    BY <1>2, NextFacts
  <2>3. q[NewStart(TargetOf(program, i))] = program[TargetOf(program, i)]
    BY <2>2, MovedSame
  <2>4. NewStart(TargetOf(program, i)) \in 1 .. Len(q)
    BY <1>1, <2>2, IndexTypes
  <2>5. QED
    BY <2>1, <2>2, <2>3, <2>4 DEF Defines
<1>3. ASSUME NEW j \in 1 .. Len(q), q[j].kind = "jump" \/ q[j].kind = "label"
      PROVE  \E i \in 1 .. Len(program) : j = NewIndex(i) /\ q[j] = program[i] /\ j = NewStart(i)
  BY <1>3, MovedTokens, InsertedFacts
<1>4. ~UndefinedLabel(q)
  <2> SUFFICES ASSUME NEW j \in 1 .. Len(q), q[j].kind = "jump"
               PROVE  \E k \in 1 .. Len(q) : Defines(q, k, q[j].label)
    BY DEF UndefinedLabel
  <2>1. PICK i \in 1 .. Len(program) : j = NewIndex(i) /\ q[j] = program[i]
    BY <1>3
  <2>2. QED
    BY <1>2, <2>1
<1>5. ASSUME NEW i \in 1 .. Len(program), program[i].kind = "jump"
      PROVE  TargetOf(q, NewIndex(i)) = NewStart(TargetOf(program, i))
  <2> DEFINE t == TargetOf(program, i)
  <2>1. t \in 1 .. Len(program) /\ program[t].kind = "label" /\ program[t].label = program[i].label
    BY <1>5, NextFacts
  <2>2. q[NewIndex(i)] = program[i] /\ NewStart(t) \in 1 .. Len(q) /\ Defines(q, NewStart(t), q[NewIndex(i)].label)
    BY <1>2, <1>5
  <2>3. ASSUME NEW j \in 1 .. Len(q), Defines(q, j, q[NewIndex(i)].label) PROVE j = NewStart(t)
    <3>1. PICK k \in 1 .. Len(program) : j = NewIndex(k) /\ q[j] = program[k] /\ j = NewStart(k)
      BY <1>3, <2>3 DEF Defines
    <3>2. program[k].kind = "label" /\ program[k].label = program[i].label
      BY <2>2, <2>3, <3>1 DEF Defines
    <3>3. k = t
      <4> HIDE DEF t
      <4>1. QED
        BY <2>1, <3>2 DEF ProgramInv, DuplicateLabel, Defines
    <3>4. QED
      BY <3>1, <3>3
  <2> HIDE DEF t
  <2>4. TargetOf(q, NewIndex(i)) = NewStart(t)
    BY <2>2, <2>3 DEF TargetOf
  <2>5. QED
    BY <2>4 DEF t
<1>6. QED
  BY <1>4, <1>5

\* The paths are the same.
LEMMA MovedPaths ==
    ASSUME ProgramInv, NEW q, Moved(q)
    PROVE  /\ Linked(q)
           /\ \A i \in 1 .. Len(program) :
                  /\ NextOf(q, NewIndex(i)) = {NewStart(k) : k \in NextOf(program, i)}
                  /\ Following(q, NewIndex(i)) = {NewStart(k) : k \in Following(program, i)}
           /\ \A i \in Converted :
                  /\ NextOf(q, NewStart(i)) = {NewIndex(i)} /\ Following(q, NewStart(i)) = {NewIndex(i)}
<1>1. /\ Len(q) = NewIndex(Len(program)) /\ Len(q) \in Nat /\ Len(program) \in Nat
      /\ ~UndefinedLabel(q)
  BY MovedTokens, MovedTargets, ProgramFacts DEF Moved
<1>2. /\ Linked(q)
      /\ \A j \in 1 .. Len(q) : q[j].kind = "jump" => TargetOf(q, j) \in NextOf(q, j)
      /\ \A j \in 1 .. Len(q) : j < Len(q) => j + 1 \in NextOf(q, j)
      /\ \A j \in 1 .. Len(q) : \A k \in NextOf(q, j) : k = j + 1 \/ (q[j].kind = "jump" /\ k = TargetOf(q, j))
      /\ \A j \in 1 .. Len(q) : NextOf(q, j) \subseteq 1 .. Len(q)
  <2>1. Linked(q)
    BY <1>1, JumpsLinked
  <2>2. QED
    BY <1>1, <2>1, JumpsLinked DEF Linked
<1>3. ASSUME NEW i \in 1 .. Len(program)
      PROVE  /\ NextOf(q, NewIndex(i)) = {NewStart(k) : k \in NextOf(program, i)}
             /\ Following(q, NewIndex(i)) = {NewStart(k) : k \in Following(program, i)}
  <2> DEFINE j == NewIndex(i)
             t == TargetOf(program, i)
  <2>1. j \in 1 .. Len(q) /\ (q[j].kind = "jump" <=> program[i].kind = "jump")
    BY <1>1, IndexTypes, MovedSame
  <2>2. NewStart(i + 1) = j + 1
    <3>1. i + 1 \in 1 .. Len(program) + 1 /\ (i + 1) - 1 = i
      BY <1>1
    <3>2. QED
      BY <3>1, NewIndexStep
  <2>3. j < Len(q) <=> i < Len(program)
    <3>1. i < Len(program) => NewIndex(i) < NewIndex(Len(program))
      <4>1. i \in 0 .. Len(program) + 1 /\ Len(program) \in 0 .. Len(program) + 1
        BY <1>1
      <4>2. QED
        BY <4>1, NewIndexOrder
    <3>2. ~(i < Len(program)) => i = Len(program)
      BY <1>1
    <3>3. i = Len(program) => ~(NewIndex(i) < NewIndex(Len(program)))
      BY <1>1
    <3>4. QED
      BY <1>1, <3>1, <3>2, <3>3
  <2>4. program[i].kind = "jump" => TargetOf(q, j) = NewStart(t)
    BY MovedTargets
  <2>5. NextOf(program, i) = (IF program[i].kind = "jump" THEN {t} ELSE {})
                                 \cup (IF i < Len(program) THEN {i + 1} ELSE {})
    BY NextFacts
  <2> HIDE DEF j, t
  <2>6. NextOf(q, j) = (IF q[j].kind = "jump" THEN {TargetOf(q, j)} ELSE {}) \cup (IF j < Len(q) THEN {j + 1} ELSE {})
    <3>1. j + 1 \in 1 .. Len(q) => j < Len(q)
      BY <1>1, <2>1
    <3>2. QED
      BY <1>2, <2>1, <3>1
  <2>7. NextOf(q, j) = {NewStart(k) : k \in NextOf(program, i)}
    BY <2>1, <2>2, <2>3, <2>4, <2>5, <2>6
  <2>8. Following(q, j) = {NewStart(k) : k \in Following(program, i)}
    BY <2>1, <2>2, <2>7 DEF Following
  <2>9. QED
    BY <2>7, <2>8 DEF j
<1>4. ASSUME NEW i \in Converted
      PROVE  NextOf(q, NewStart(i)) = {NewIndex(i)} /\ Following(q, NewStart(i)) = {NewIndex(i)}
  <2>1. i \in 1 .. Len(program)
    BY DEF Converted
  <2> DEFINE j == NewStart(i)
  <2>2. /\ j \in 1 .. Len(q) /\ q[j].kind # "jump" /\ j + 1 = NewIndex(i) /\ NewIndex(i) \in 1 .. Len(q)
    BY <1>1, <2>1, IndexTypes, MovedSame
  <2> HIDE DEF j
  <2>3. j < Len(q)
    BY <1>1, <2>2
  <2>4. NextOf(q, j) = {NewIndex(i)}
    BY <1>2, <2>2, <2>3
  <2>5. Following(q, j) = {NewIndex(i)}
    BY <2>2 DEF Following
  <2>6. QED
    BY <2>4, <2>5 DEF j
<1>5. QED
  BY <1>2, <1>3, <1>4

LEMMA MovedShaped ==
    ASSUME ProgramInv, NEW q, Moved(q)
    PROVE  Shaped(q)
<1>1. ASSUME NEW j \in 1 .. Len(q) PROVE q[j].arity \in Nat /\ q[j].effect \in Int
  <2>1. PICK i \in 1 .. Len(program) :
            \/ q[j] = Drop1
            \/ q[j] = AllocStatic(program[i].name, Constant(i))
            \/ q[j] = program[i]
    BY MovedTokens
  <2>2. program[i].arity \in Nat /\ program[i].effect \in Int
    BY ProgramFacts, TokenFacts
  <2>3. QED
    BY <2>1, <2>2, InsertedFacts
<1>2. QED
  BY <1>1, MovedPaths DEF Shaped

\* The steps at depths: as in the program, with one more for a conversion.
LEMMA OwnSteps ==
    ASSUME ProgramInv, NEW i \in 1 .. Len(program), NEW d \in Int
    PROVE  \A z : z \in StepsFrom(program, <<i, d>>) <=>
               ~(d < program[i].arity) /\ \E k \in Following(program, i) : z = <<k, d + program[i].effect>>
<1>1. Len(program) \in Nat
  BY ProgramFacts
<1>2. ~(i > Len(program))
  BY <1>1
<1>3. QED
  BY <1>2 DEF StepsFrom

LEMMA PlainSteps ==
    ASSUME ProgramInv, NEW q, Moved(q), NEW i \in 1 .. Len(program), NEW d \in Int, i \notin Converted
    PROVE  \A z : z \in StepsFrom(q, <<NewStart(i), d>>) <=>
               ~(d < program[i].arity) /\ \E k \in Following(program, i) : z = <<NewStart(k), d + program[i].effect>>
<1>1. /\ Len(q) \in Nat /\ Len(q) = NewIndex(Len(program)) /\ NewStart(i) \in 1 .. Len(q)
      /\ NewStart(i) = NewIndex(i)
  BY MovedTokens, IndexTypes DEF Moved
<1>2. ~(NewStart(i) > Len(q))
  BY <1>1
<1>3. Following(q, NewStart(i)) = {NewStart(k) : k \in Following(program, i)}
  BY <1>1, MovedPaths
<1>4. q[NewStart(i)].arity = program[i].arity /\ q[NewStart(i)].effect = program[i].effect
  BY <1>1, MovedSame
<1>5. QED
  BY <1>2, <1>3, <1>4 DEF StepsFrom

LEMMA ConvertedPaths ==
    ASSUME ProgramInv, NEW q, Moved(q), NEW i \in Converted
    PROVE  /\ ~(NewStart(i) > Len(q)) /\ ~(NewIndex(i) > Len(q))
           /\ Following(q, NewIndex(i)) = {NewStart(k) : k \in Following(program, i)}
           /\ Following(q, NewStart(i)) = {NewIndex(i)}
           /\ q[NewStart(i)].arity = 1 /\ q[NewStart(i)].effect = -1
           /\ q[NewIndex(i)].arity = 0 /\ q[NewIndex(i)].effect = 0
<1>0. i \in 1 .. Len(program)
  BY DEF Converted
<1>1. /\ Len(q) \in Nat /\ Len(q) = NewIndex(Len(program))
      /\ NewStart(i) \in 1 .. Len(q) /\ NewIndex(i) \in 1 .. Len(q)
  BY <1>0, MovedTokens, IndexTypes DEF Moved
<1>2. ~(NewStart(i) > Len(q)) /\ ~(NewIndex(i) > Len(q))
  BY <1>1
<1>3. /\ Following(q, NewIndex(i)) = {NewStart(k) : k \in Following(program, i)}
      /\ Following(q, NewStart(i)) = {NewIndex(i)}
  BY <1>0, MovedPaths
<1>4. q[NewStart(i)] = Drop1 /\ q[NewIndex(i)] = AllocStatic(program[i].name, Constant(i))
  BY <1>0 DEF Moved
<1>5. /\ q[NewStart(i)].arity = 1 /\ q[NewStart(i)].effect = -1
      /\ q[NewIndex(i)].arity = 0 /\ q[NewIndex(i)].effect = 0
  BY <1>4, InsertedFacts
<1>6. QED
  BY <1>2, <1>3, <1>5

LEMMA DropSteps ==
    ASSUME ProgramInv, NEW q, Moved(q), NEW i \in Converted, NEW d \in Int
    PROVE  \A z : z \in StepsFrom(q, <<NewStart(i), d>>) <=> ~(d < 1) /\ z = <<NewIndex(i), d - 1>>
<1>1. /\ ~(NewStart(i) > Len(q)) /\ Following(q, NewStart(i)) = {NewIndex(i)}
      /\ q[NewStart(i)].arity = 1 /\ q[NewStart(i)].effect = -1
  BY ConvertedPaths
<1>2. d + (-1) = d - 1
  OBVIOUS
<1>3. QED
  BY <1>1, <1>2 DEF StepsFrom

LEMMA StaticSteps ==
    ASSUME ProgramInv, NEW q, Moved(q), NEW i \in Converted, NEW d \in Int
    PROVE  \A z : z \in StepsFrom(q, <<NewIndex(i), d - 1>>) <=>
               ~(d < 1) /\ \E k \in Following(program, i) : z = <<NewStart(k), d - 1>>
<1>1. /\ ~(NewIndex(i) > Len(q)) /\ Following(q, NewIndex(i)) = {NewStart(k) : k \in Following(program, i)}
      /\ q[NewIndex(i)].arity = 0 /\ q[NewIndex(i)].effect = 0
  BY ConvertedPaths
<1>2. (d - 1 < 0 <=> d < 1) /\ (d - 1) + 0 = d - 1
  OBVIOUS
<1>3. QED
  BY <1>1, <1>2 DEF StepsFrom

LEMMA FollowingRange ==
    ASSUME ProgramInv, NEW i \in 1 .. Len(program)
    PROVE  Following(program, i) \subseteq 1 .. Len(program) + 1
<1>1. Len(program) \in Nat /\ NextOf(program, i) \subseteq 1 .. Len(program)
  BY ProgramFacts
<1>2. QED
  BY <1>1 DEF Following

LEMMA IndexDistinct ==
    ASSUME ProgramInv
    PROVE  /\ NewStart(Len(program) + 1) = NewIndex(Len(program)) + 1
           /\ \A i, j \in 1 .. Len(program) + 1 : NewStart(i) = NewStart(j) => i = j
           /\ \A i, j \in 1 .. Len(program) : NewIndex(i) = NewIndex(j) => i = j
           /\ \A i \in Converted : \A j \in 1 .. Len(program) + 1 : NewIndex(i) # NewStart(j)
<1>1. Len(program) \in Nat /\ Converted \subseteq 1 .. Len(program)
  BY ConvertedFinite
<1>2. NewStart(Len(program) + 1) = NewIndex(Len(program)) + 1
  <2>1. Len(program) + 1 \in 1 .. Len(program) + 1 /\ (Len(program) + 1) - 1 = Len(program)
    BY <1>1
  <2>2. QED
    BY <2>1, NewIndexStep
<1>3. \A i \in 1 .. Len(program) : NewStart(i) <= NewIndex(Len(program)) /\ NewIndex(i) <= NewIndex(Len(program))
  BY IndexTypes
<1>4. NewIndex(Len(program)) \in Nat
  <2>1. Len(program) \in 0 .. Len(program) + 1
    BY <1>1
  <2>2. QED
    BY <2>1, NewIndexOrder
<1>5. \A i \in 1 .. Len(program) : NewStart(i) # NewStart(Len(program) + 1) /\ NewIndex(i) # NewStart(Len(program) + 1)
  BY <1>2, <1>3, <1>4
<1>6. \A i \in 1 .. Len(program) + 1 : i \in 1 .. Len(program) \/ i = Len(program) + 1
  BY <1>1
<1>7. ASSUME NEW i \in 1 .. Len(program), NEW j \in 1 .. Len(program)
      PROVE  /\ NewStart(i) = NewStart(j) => i = j
             /\ NewIndex(i) = NewIndex(j) => i = j
             /\ NewIndex(i) = NewStart(j) => i = j
  <2>1. OldIndex(NewIndex(i)) = i /\ OldIndex(NewStart(i)) = i /\ OldIndex(NewIndex(j)) = j /\ OldIndex(NewStart(j)) = j
    BY OldIndexInverse
  <2>2. QED
    BY <2>1
<1>8. \A i \in Converted : NewIndex(i) # NewStart(i)
  <2>1. \A i \in Converted : NewIndex(i) \in 1 .. NewIndex(Len(program)) /\ NewStart(i) = NewIndex(i) - 1
    BY <1>1, IndexTypes
  <2>2. QED
    BY <2>1
<1>9. QED
  BY <1>1, <1>2, <1>5, <1>6, <1>7, <1>8

\* Where the points of the program are in the other tokens.
MovedPoints ==
    {<<NewStart(x[1]), x[2]>> : x \in Depths(program)}
        \cup {<<NewIndex(x[1]), x[2] - 1>> : x \in {z \in Depths(program) : z[1] \in Converted}}

LEMMA MovedPointFacts ==
    ASSUME ProgramInv, Typed(program), NEW y \in MovedPoints
    PROVE  \E i \in 1 .. Len(program) + 1, d \in Int :
               /\ <<i, d>> \in Depths(program)
               /\ \/ y = <<NewStart(i), d>>
                  \/ i \in Converted /\ y = <<NewIndex(i), d - 1>>
<1>1. Depths(program) \subseteq Points(program)
  BY ProgramShaped, DepthsClosed
<1>2. PICK x \in Depths(program) :
          \/ y = <<NewStart(x[1]), x[2]>>
          \/ x[1] \in Converted /\ y = <<NewIndex(x[1]), x[2] - 1>>
  BY DEF MovedPoints
<1>3. x[1] \in 1 .. Len(program) + 1 /\ x[2] \in Int /\ x = <<x[1], x[2]>>
  BY <1>1 DEF Points
<1>4. QED
  BY <1>2, <1>3

LEMMA TypedForward ==
    ASSUME ProgramInv, NEW q, Moved(q), Typed(program)
    PROVE  Typed(q)
<1>0. /\ Len(program) \in Nat /\ Len(q) = NewIndex(Len(program)) /\ Len(q) \in Nat /\ Shaped(q)
      /\ Shaped(program) /\ Converted \subseteq 1 .. Len(program)
  BY ProgramFacts, MovedTokens, MovedShaped, ProgramShaped, ConvertedFinite DEF Moved
<1>1. /\ <<1, 0>> \in Depths(program)
      /\ \A x \in Depths(program) : StepsFrom(program, x) \subseteq Depths(program)
  BY <1>0, DepthsClosed
<1>2. <<1, 0>> \in MovedPoints
  <2>1. NewStart(1) = 1
    <3>1. 1 \in 1 .. Len(program) + 1 /\ 1 - 1 = 0
      BY <1>0
    <3>2. NewIndex(0) = 0
      BY NewIndexOrder
    <3>3. NewStart(1) = NewIndex(0) + 1
      BY <3>1, NewIndexStep
    <3>4. QED
      BY <3>2, <3>3
  <2>2. <<NewStart(<<1, 0>>[1]), <<1, 0>>[2]>> \in MovedPoints
    BY <1>1 DEF MovedPoints
  <2>3. QED
    BY <2>1, <2>2
<1>3. ASSUME NEW i, NEW d, <<i, d>> \in Depths(program)
      PROVE  /\ <<NewStart(i), d>> \in MovedPoints
             /\ i \in Converted => <<NewIndex(i), d - 1>> \in MovedPoints
  <2>1. <<NewStart(<<i, d>>[1]), <<i, d>>[2]>> \in MovedPoints
    BY <1>3 DEF MovedPoints
  <2>2. <<i, d>>[1] \in Converted => <<NewIndex(<<i, d>>[1]), <<i, d>>[2] - 1>> \in MovedPoints
    BY <1>3 DEF MovedPoints
  <2>3. QED
    BY <2>1, <2>2
<1>4. ASSUME NEW y \in MovedPoints PROVE StepsFrom(q, y) \subseteq MovedPoints
  <2>1. PICK i \in 1 .. Len(program) + 1, d \in Int :
               /\ <<i, d>> \in Depths(program)
               /\ \/ y = <<NewStart(i), d>>
                  \/ i \in Converted /\ y = <<NewIndex(i), d - 1>>
    BY MovedPointFacts
  <2>2. CASE i = Len(program) + 1
    <3>1. y = <<Len(q) + 1, d>>
      <4>1. i \notin Converted
        BY <1>0, <2>2
      <4>2. QED
        BY <1>0, <2>1, <2>2, <4>1, IndexDistinct
    <3>2. y[1] > Len(q)
      BY <1>0, <3>1
    <3>3. QED
      BY <3>2 DEF StepsFrom
  <2>3. CASE i # Len(program) + 1
    <3>1. i \in 1 .. Len(program)
      BY <1>0, <2>3
    <3>2. StepsFrom(program, <<i, d>>) \subseteq Depths(program)
      BY <1>1, <2>1
    <3>3. ASSUME NEW k \in Following(program, i), ~(d < program[i].arity)
          PROVE  <<k, d + program[i].effect>> \in Depths(program)
      BY <3>1, <3>2, <3>3, OwnSteps
    <3>4. CASE i \notin Converted
      <4>1. \A z \in StepsFrom(q, y) : \E k \in Following(program, i) :
                ~(d < program[i].arity) /\ z = <<NewStart(k), d + program[i].effect>>
        BY <2>1, <3>1, <3>4, PlainSteps
      <4>2. QED
        BY <1>3, <3>3, <4>1
    <3>5. CASE i \in Converted /\ y = <<NewStart(i), d>>
      <4>1. \A z \in StepsFrom(q, y) : z = <<NewIndex(i), d - 1>>
        BY <3>5, DropSteps
      <4>2. QED
        BY <1>3, <2>1, <3>5, <4>1
    <3>6. CASE i \in Converted /\ y = <<NewIndex(i), d - 1>>
      <4>1. \A z \in StepsFrom(q, y) : ~(d < 1) /\ \E k \in Following(program, i) : z = <<NewStart(k), d - 1>>
        BY <3>6, StaticSteps
      <4>2. program[i].arity = 1 /\ d + program[i].effect = d - 1
        BY <3>6, ConvertedKind
      <4>3. QED
        BY <1>3, <3>3, <4>1, <4>2
    <3>7. QED
      BY <2>1, <3>4, <3>5, <3>6
  <2>4. QED
    BY <2>2, <2>3
<1>5. Depths(q) \subseteq MovedPoints
  BY <1>0, <1>2, <1>4, DepthsLeast
<1>6. ASSUME NEW i \in 1 .. Len(program) + 1, NEW d, NEW e, <<i, d>> \in Depths(program), <<i, e>> \in Depths(program)
      PROVE  d = e
  <2>1. <<i, d>>[1] = <<i, e>>[1] => <<i, d>>[2] = <<i, e>>[2]
    BY <1>6 DEF Typed
  <2>2. QED
    BY <2>1
<1>7. ASSUME NEW y \in MovedPoints, NEW z \in MovedPoints, y[1] = z[1] PROVE y[2] = z[2]
  <2>1. PICK i \in 1 .. Len(program) + 1, d \in Int :
               /\ <<i, d>> \in Depths(program)
               /\ \/ y = <<NewStart(i), d>>
                  \/ i \in Converted /\ y = <<NewIndex(i), d - 1>>
    BY MovedPointFacts
  <2>2. PICK j \in 1 .. Len(program) + 1, e \in Int :
               /\ <<j, e>> \in Depths(program)
               /\ \/ z = <<NewStart(j), e>>
                  \/ j \in Converted /\ z = <<NewIndex(j), e - 1>>
    BY MovedPointFacts
  <2>3. CASE y = <<NewStart(i), d>> /\ z = <<NewStart(j), e>>
    <3>1. i = j
      BY <1>7, <2>3, IndexDistinct
    <3>2. QED
      BY <1>6, <2>1, <2>2, <2>3, <3>1
  <2>4. CASE i \in Converted /\ y = <<NewIndex(i), d - 1>> /\ j \in Converted /\ z = <<NewIndex(j), e - 1>>
    <3>1. i = j
      BY <1>0, <1>7, <2>4, IndexDistinct
    <3>2. d = e
      BY <1>6, <2>1, <2>2, <3>1
    <3>3. QED
      BY <2>4, <3>2
  <2>5. CASE y = <<NewStart(i), d>> /\ j \in Converted /\ z = <<NewIndex(j), e - 1>>
    BY <1>7, <2>5, IndexDistinct
  <2>6. CASE i \in Converted /\ y = <<NewIndex(i), d - 1>> /\ z = <<NewStart(j), e>>
    BY <1>7, <2>6, IndexDistinct
  <2>7. QED
    BY <2>1, <2>2, <2>3, <2>4, <2>5, <2>6
<1>8. ASSUME NEW y \in MovedPoints PROVE IF y[1] > Len(q) THEN y[2] = 0 ELSE y[2] >= q[y[1]].arity
  <2>1. PICK i \in 1 .. Len(program) + 1, d \in Int :
               /\ <<i, d>> \in Depths(program)
               /\ \/ y = <<NewStart(i), d>>
                  \/ i \in Converted /\ y = <<NewIndex(i), d - 1>>
    BY MovedPointFacts
  <2>2. IF i > Len(program) THEN d = 0 ELSE d >= program[i].arity
    <3>1. IF <<i, d>>[1] > Len(program) THEN <<i, d>>[2] = 0 ELSE <<i, d>>[2] >= program[<<i, d>>[1]].arity
      BY <2>1 DEF Typed
    <3>2. QED
      BY <3>1
  <2>3. CASE i = Len(program) + 1
    <3>1. y = <<Len(q) + 1, d>>
      <4>1. i \notin Converted
        BY <1>0, <2>3
      <4>2. QED
        BY <1>0, <2>1, <2>3, <4>1, IndexDistinct
    <3>2. QED
      BY <1>0, <2>2, <2>3, <3>1
  <2>4. CASE i # Len(program) + 1
    <3>1. i \in 1 .. Len(program)
      BY <1>0, <2>4
    <3>2. NewIndex(i) \in 1 .. Len(q) /\ NewStart(i) \in 1 .. Len(q)
      BY <1>0, <3>1, IndexTypes
    <3>3. ~(y[1] > Len(q)) /\ d >= program[i].arity
      BY <1>0, <2>1, <2>2, <3>1, <3>2
    <3>4. CASE i \notin Converted
      <4>1. q[NewIndex(i)].arity = program[i].arity /\ NewStart(i) = NewIndex(i)
        BY <3>1, <3>4, MovedSame DEF NewStart
      <4>2. QED
        BY <2>1, <3>3, <3>4, <4>1
    <3>5. CASE i \in Converted
      <4>1. q[NewStart(i)] = Drop1 /\ q[NewIndex(i)] = AllocStatic(program[i].name, Constant(i))
        BY <3>1, <3>5 DEF Moved
      <4>2. q[NewStart(i)].arity = 1 /\ q[NewIndex(i)].arity = 0 /\ d >= 1
        BY <3>3, <3>5, <4>1, InsertedFacts, ConvertedKind
      <4>3. QED
        BY <2>1, <3>3, <4>2
    <3>6. QED
      BY <3>4, <3>5
  <2>5. QED
    BY <2>3, <2>4
<1>9. QED
  BY <1>5, <1>7, <1>8 DEF Typed

LEMMA TypedBackward ==
    ASSUME ProgramInv, NEW q, Moved(q), Typed(q)
    PROVE  Typed(program)
<1>0. /\ Len(program) \in Nat /\ Len(q) = NewIndex(Len(program)) /\ Len(q) \in Nat /\ Shaped(q)
      /\ Shaped(program) /\ Converted \subseteq 1 .. Len(program)
  BY ProgramFacts, MovedTokens, MovedShaped, ProgramShaped, ConvertedFinite DEF Moved
<1>1. /\ <<1, 0>> \in Depths(q)
      /\ \A x \in Depths(q) : StepsFrom(q, x) \subseteq Depths(q)
  BY <1>0, DepthsClosed
<1> DEFINE T == {x \in Points(program) : <<NewStart(x[1]), x[2]>> \in Depths(q)}
<1>2. <<1, 0>> \in T
  <2>1. NewStart(1) = 1
    <3>1. 1 \in 1 .. Len(program) + 1 /\ 1 - 1 = 0
      BY <1>0
    <3>2. NewIndex(0) = 0
      BY NewIndexOrder
    <3>3. NewStart(1) = NewIndex(0) + 1
      BY <3>1, NewIndexStep
    <3>4. QED
      BY <3>2, <3>3
  <2>2. <<1, 0>> \in Points(program)
    BY <1>0 DEF Points
  <2>3. QED
    BY <1>1, <2>1, <2>2
<1>3. ASSUME NEW y \in T PROVE StepsFrom(program, y) \subseteq T
  <2>1. PICK i \in 1 .. Len(program) + 1, d \in Int : y = <<i, d>> /\ <<NewStart(i), d>> \in Depths(q)
    BY DEF Points
  <2>2. CASE i = Len(program) + 1
    <3>1. y[1] > Len(program)
      BY <1>0, <2>1, <2>2
    <3>2. QED
      BY <3>1 DEF StepsFrom
  <2>3. CASE i # Len(program) + 1
    <3>1. i \in 1 .. Len(program)
      BY <1>0, <2>3
    <3>2. \A z \in StepsFrom(program, y) :
              ~(d < program[i].arity) /\ \E k \in Following(program, i) : z = <<k, d + program[i].effect>>
      BY <2>1, <3>1, OwnSteps
    <3>3. ASSUME NEW k \in Following(program, i), ~(d < program[i].arity)
          PROVE  <<NewStart(k), d + program[i].effect>> \in Depths(q)
      <4>1. CASE i \notin Converted
        <5>1. <<NewStart(k), d + program[i].effect>> \in StepsFrom(q, <<NewStart(i), d>>)
          BY <3>1, <3>3, <4>1, PlainSteps
        <5>2. QED
          BY <1>1, <2>1, <5>1
      <4>2. CASE i \in Converted
        <5>1. program[i].arity = 1 /\ program[i].effect = -1
          BY <4>2, ConvertedKind
        <5>2. ~(d < 1) /\ d + program[i].effect = d - 1
          BY <3>3, <5>1
        <5>3. <<NewIndex(i), d - 1>> \in StepsFrom(q, <<NewStart(i), d>>)
          BY <4>2, <5>2, DropSteps
        <5>4. <<NewIndex(i), d - 1>> \in Depths(q)
          BY <1>1, <2>1, <5>3
        <5>5. <<NewStart(k), d - 1>> \in StepsFrom(q, <<NewIndex(i), d - 1>>)
          BY <3>3, <4>2, <5>2, StaticSteps
        <5>6. QED
          BY <1>1, <5>2, <5>4, <5>5
      <4>3. QED
        BY <4>1, <4>2
    <3>4. ASSUME NEW k \in Following(program, i) PROVE <<k, d + program[i].effect>> \in Points(program)
      <4>1. program[i].effect \in Int
        BY <1>0, <3>1 DEF Shaped
      <4>2. QED
        BY <3>1, <4>1, FollowingRange DEF Points
    <3>5. QED
      BY <3>2, <3>3, <3>4
  <2>4. QED
    BY <2>2, <2>3
<1>4. Depths(program) \subseteq T
  <2> HIDE DEF T
  <2>1. QED
    BY <1>0, <1>2, <1>3, DepthsLeast
<1>5. ASSUME NEW x \in T, NEW y \in T, x[1] = y[1] PROVE x[2] = y[2]
  <2>1. /\ <<NewStart(x[1]), x[2]>> \in Depths(q) /\ <<NewStart(y[1]), y[2]>> \in Depths(q)
    OBVIOUS
  <2>2. <<NewStart(x[1]), x[2]>>[1] = <<NewStart(y[1]), y[2]>>[1]
            => <<NewStart(x[1]), x[2]>>[2] = <<NewStart(y[1]), y[2]>>[2]
    BY <2>1 DEF Typed
  <2>3. QED
    BY <1>5, <2>2
<1>6. ASSUME NEW y \in T PROVE IF y[1] > Len(program) THEN y[2] = 0 ELSE y[2] >= program[y[1]].arity
  <2>1. PICK i \in 1 .. Len(program) + 1, d \in Int : y = <<i, d>> /\ <<NewStart(i), d>> \in Depths(q)
    BY DEF Points
  <2>2. IF NewStart(i) > Len(q) THEN d = 0 ELSE d >= q[NewStart(i)].arity
    <3>1. IF <<NewStart(i), d>>[1] > Len(q) THEN <<NewStart(i), d>>[2] = 0
          ELSE <<NewStart(i), d>>[2] >= q[<<NewStart(i), d>>[1]].arity
      BY <2>1 DEF Typed
    <3>2. QED
      BY <3>1
  <2>3. CASE i = Len(program) + 1
    <3>1. NewStart(i) = Len(q) + 1
      BY <1>0, <2>3, IndexDistinct
    <3>2. QED
      BY <1>0, <2>1, <2>2, <2>3, <3>1
  <2>4. CASE i # Len(program) + 1
    <3>1. i \in 1 .. Len(program)
      BY <1>0, <2>4
    <3>2. NewStart(i) \in 1 .. Len(q)
      BY <1>0, <3>1, IndexTypes
    <3>3. d >= q[NewStart(i)].arity
      BY <1>0, <2>2, <3>2
    <3>4. q[NewStart(i)].arity = program[i].arity
      <4>1. CASE i \notin Converted
        <5>1. q[NewIndex(i)].arity = program[i].arity /\ NewStart(i) = NewIndex(i)
          BY <3>1, <4>1, MovedSame DEF NewStart
        <5>2. QED
          BY <5>1
      <4>2. CASE i \in Converted
        <5>1. q[NewStart(i)] = Drop1
          BY <3>1, <4>2 DEF Moved
        <5>2. QED
          BY <4>2, <5>1, InsertedFacts, ConvertedKind
      <4>3. QED
        BY <4>1, <4>2
    <3>5. ~(i > Len(program))
      BY <1>0, <3>1
    <3>6. QED
      BY <2>1, <3>3, <3>4, <3>5
  <2>5. QED
    BY <2>3, <2>4
<1>7. QED
  <2> HIDE DEF T
  <2>1. QED
    BY <1>4, <1>5, <1>6 DEF Typed

-------------------------------------------------------------------------------
(* Both programs in step *)

\* A stack of the execution before token i, next to what constant propagation and
\* StaticArrayOptPass have there.
StackFacts(i, s) ==
    /\ Len(s) = DepthAt(program, i)
    /\ \A c \in StacksAfter(constIn[BlockOf(i)], BlockOf(i), i - 1) : Agree(c, s)
    /\ Agree(WalkedTo(i), s)

LEMMA SameWalk ==
    ASSUME program' = program, constIn' = constIn
    PROVE  /\ \A i : WalkedTo(i)' = WalkedTo(i)
           /\ Converted' = Converted
           /\ \A i : NewIndex(i)' = NewIndex(i) /\ NewStart(i)' = NewStart(i)
           /\ StaticTokens' = StaticTokens
<1>1. \A i : WalkedTo(i)' = WalkedTo(i)
  <2> SUFFICES ASSUME NEW i PROVE WalkedTo(i)' = WalkedTo(i)
    OBVIOUS
  <2>1. WalkedTo(i)' = WalkedOver(program', constIn', BlockOf(i)', i)
    BY Zenon DEF WalkedTo, WalkedOver
  <2>2. WalkedTo(i) = WalkedOver(program, constIn, BlockOf(i), i)
    BY Zenon DEF WalkedTo, WalkedOver
  <2>3. QED
    BY <2>1, <2>2, SameProgram
<1>2. \A i : Constant(i)' = Constant(i)
  BY <1>1 DEF Constant
<1>3. Converted' = Converted
  BY <1>2 DEF Converted, AllocCount
<1>4. \A i : NewIndex(i)' = NewIndex(i)
  BY <1>3 DEF NewIndex
<1>5. \A i : NewStart(i)' = NewStart(i)
  BY <1>3, <1>4 DEF NewStart
<1>6. \A i : OldIndex(i)' = OldIndex(i)
  BY <1>3, <1>4 DEF OldIndex
<1>7. \A i : Rewritten(i)' = Rewritten(i)
  BY <1>2, <1>3 DEF Rewritten
<1>8. StaticTokens' = StaticTokens
  BY <1>4, <1>5, <1>6, <1>7 DEF StaticTokens
<1>9. QED
  BY <1>1, <1>3, <1>4, <1>5, <1>8

LEMMA SameStackFacts ==
    ASSUME program' = program, constIn' = constIn, StackFacts(pc', stack')
    PROVE  StackFacts(pc, stack)'
<1> DEFINE b == BlockOf(pc)
<1>1. BlockOf(pc)' = BlockOf(pc') /\ WalkedTo(pc)' = WalkedTo(pc')
  BY SameProgram, SameWalk
<1>2. StacksAfter(constIn[BlockOf(pc)], BlockOf(pc), pc - 1)' =
          StacksOver(program', constIn'[BlockOf(pc)'], BlockOf(pc)', pc' - 1)
  BY Zenon DEF StacksAfter, StacksOver
<1>3. StacksAfter(constIn[BlockOf(pc')], BlockOf(pc'), pc' - 1) =
          StacksOver(program, constIn[BlockOf(pc')], BlockOf(pc'), pc' - 1)
  BY Zenon DEF StacksAfter, StacksOver
<1>4. QED
  BY <1>1, <1>2, <1>3 DEF StackFacts

\* A token moves all that agrees with a stack of the execution.
LEMMA AgreeThrough ==
    ASSUME NEW t, IsTok(t), NEW T, T \in Stacks, NEW s \in Seq(Value), \A c \in T : Agree(c, s), t.arity <= Len(s),
           NEW v \in Value, Computes(t, s) \in {Unknown, v}
    PROVE  \A c \in Through(T, t) : Agree(c, Replaced(s, t.arity, Results(t, v)))
<1> SUFFICES ASSUME NEW z \in Through(T, t) PROVE Agree(z, Replaced(s, t.arity, Results(t, v)))
  OBVIOUS
<1>1. PICK c \in T : z = After(Padded(c, t), t)
  BY DEF Through
<1>2. c \in Seq(Entry) /\ Agree(c, s) /\ t.arity <= Len(c)
  BY DEF Stacks, Agree
<1>3. Padded(c, t) = c
  <2>1. t.arity \in Nat
    BY TokenFacts DEF IsTok
  <2>2. Unknown \in Entry
    BY DEF Entry
  <2>3. QED
    BY <1>2, <2>1, <2>2, PaddedFacts
<1>4. Agree(After(c, t), Replaced(s, t.arity, Results(t, v)))
  BY <1>2, AgreeStep
<1>5. QED
  BY <1>1, <1>3, <1>4

\* What the execution takes along a jump or to the next block agrees with the merge there.
LEMMA MergeAgrees ==
    ASSUME ProgramInv, Typed(program), ConstFacts(constIn, constOut, Blocks),
           NEW b \in Blocks, NEW k \in Blocks, k \in SuccessorSet(b),
           NEW new \in Seq(Value), Agree(constOut[b], new), Len(new) = DepthAt(program, k)
    PROVE  Agree(constIn[k], new)
<1>1. constIn[k] = MergedOf(constOut, k) /\ constOut \in [1 .. Len(program) -> Seq(Entry)]
  BY DEF ConstFacts
<1>2. Len(MergedOf(constOut, k)) = DepthAt(program, k)
  BY MergedDepth
<1>3. CASE k = 1
  <2>1. MergedOf(constOut, k) = <<>>
    BY <1>3 DEF MergedOf
  <2>2. DepthAt(program, 1) = 0
    BY DepthNext
  <2>3. QED
    BY <1>1, <1>3, <2>1, <2>2 DEF Agree
<1>4. CASE k # 1
  <2>1. b \in Predecessors(k)
    BY DEF Predecessors
  <2> DEFINE F == FirstPredecessor(k)
             others == {constOut[c] : c \in OtherPredecessors(k)}
             fst == constOut[F]
  <2>2. MergedOf(constOut, k) = Merge(fst, others)
    BY <1>4, <2>1 DEF MergedOf
  <2>3. b = F \/ constOut[b] \in others
    BY <2>1 DEF OtherPredecessors
  <2>4. fst \in Seq(Entry)
    <3>1. F \in Predecessors(k)
      BY <1>4, PredecessorFacts
    <3>2. F \in 1 .. Len(program)
      BY <3>1 DEF Predecessors, Blocks
    <3>3. QED
      BY <1>1, <3>2
  <2>5. b = F => fst = constOut[b]
    OBVIOUS
  <2> HIDE DEF F, others, fst
  <2>6. \A j \in 1 .. Len(new) : Merge(fst, others)[j] \in {Unknown, new[j]}
    <3> SUFFICES ASSUME NEW j \in 1 .. Len(new) PROVE Merge(fst, others)[j] \in {Unknown, new[j]}
      OBVIOUS
    <3>1. Len(Merge(fst, others)) = Len(fst) /\ Len(fst) = Len(new)
      BY <1>2, <2>2, <2>4, MergeFacts
    <3>2. Merge(fst, others)[j] = IF \A t \in others : Same(fst[j], t[j]) THEN fst[j] ELSE Unknown
      BY <3>1 DEF Merge
    <3>3. constOut[b][j] \in {Unknown, new[j]}
      BY DEF Agree
    <3>4. ASSUME \A t \in others : Same(fst[j], t[j])
          PROVE  fst[j] = constOut[b][j]
      BY <2>3, <2>5, <3>4 DEF Same
    <3>5. QED
      BY <3>2, <3>3, <3>4
  <2>7. QED
    BY <1>1, <1>2, <2>2, <2>6 DEF Agree
<1>5. QED
  BY <1>3, <1>4

\* The facts about the stack of the execution are kept by the tokens.
LEMMA StackMoves ==
    ASSUME ProgramInv, Typed(program), ConstFacts(constIn, constOut, Blocks), NEW i \in 1 .. Len(program),
           NEW s \in Seq(Value), StackFacts(i, s), NEW v \in Value, Computes(program[i], s) \in {Unknown, v},
           NEW k \in NextOf(program, i)
    PROVE  StackFacts(k, Replaced(s, program[i].arity, Results(program[i], v)))
<1> DEFINE t == program[i]
           b == BlockOf(i)
           new == Replaced(s, t.arity, Results(t, v))
           T == StacksAfter(constIn[b], b, i - 1)
<1>1. /\ IsTok(t) /\ k \in 1 .. Len(program) /\ Len(program) \in Nat
      /\ constIn \in [1 .. Len(program) -> Seq(Entry)] /\ constOut \in [1 .. Len(program) -> Seq(Entry)]
  BY ProgramTokens, ProgramFacts DEF ConstFacts
<1>2. b \in Blocks /\ b <= i /\ i <= LastOf(b) /\ b \in 1 .. Len(program) /\ LastOf(b) \in 1 .. Len(program)
  BY OneBlock, BlockEnd
<1>3. t.arity <= Len(s) /\ Len(s) = DepthAt(program, i)
  <2>1. t.arity \in Nat
    BY <1>1, TokenFacts DEF IsTok
  <2>2. DepthAt(program, i) \in Nat /\ DepthAt(program, i) >= t.arity
    BY DepthNext
  <2>3. QED
    BY <2>1, <2>2 DEF StackFacts
<1>4. WalkedTo(i) \in Seq(Entry) /\ Agree(WalkedTo(i), s)
  BY <1>1, WalkNext DEF StackFacts
<1>5. T \in Stacks /\ \A c \in T : Agree(c, s)
  <2>1. i - 1 \in b - 1 .. Len(program) /\ constIn[b] \in Seq(Entry)
    BY <1>1, <1>2
  <2>2. QED
    BY <1>2, <2>1, StacksNext DEF StackFacts
<1>6. /\ new \in Seq(Value) /\ Len(new) = Len(s) + t.effect /\ Agree(Walked(WalkedTo(i), t), new)
  <2> DEFINE c == WalkedTo(i)
  <2>1. c \in Seq(Entry) /\ Agree(c, s)
    BY <1>4
  <2> HIDE DEF c
  <2>2. LET n == Replaced(s, t.arity, Results(t, v))
        IN  n \in Seq(Value) /\ Len(n) = Len(s) + t.effect /\ Agree(Walked(c, t), n)
    BY <1>1, <1>3, <2>1, AgreeStep
  <2>3. QED
    BY <2>2 DEF c
<1>7. \A c \in Through(T, t) : Agree(c, new)
  <2> HIDE DEF T
  <2>1. QED
    BY <1>1, <1>3, <1>5, AgreeThrough
<1>8. StacksAfter(constIn[b], b, i) = Through(T, t)
  <2>1. i \in b .. Len(program) /\ constIn[b] \in Seq(Entry)
    BY <1>1, <1>2
  <2>2. QED
    BY <1>2, <2>1, StacksNext
<1>9. Len(new) = DepthAt(program, k)
  BY <1>3, <1>6, DepthNext
<1> HIDE DEF T, new
<1>10. CASE i < LastOf(b)
  <2>1. k = i + 1 /\ k \notin Blocks /\ k \in b + 1 .. LastOf(b)
    <3>1. i \in b .. LastOf(b)
      BY <1>2
    <3>2. NextOf(program, i) = {i + 1}
      BY <1>2, <1>10, <3>1, InBlock
    <3>3. k = i + 1 /\ k \in b + 1 .. LastOf(b)
      BY <1>2, <1>10, <3>2
    <3>4. QED
      BY <1>2, <3>3, BlockEnd
  <2>2. BlockOf(k) = b
    <3>1. b <= k /\ k <= LastOf(b)
      BY <1>2, <2>1
    <3>2. QED
      BY <1>1, <1>2, <3>1, OneBlock
  <2>3. WalkedTo(k) = Walked(WalkedTo(i), t)
    BY <1>1, <2>1, WalkNext
  <2>4. k - 1 = i
    BY <2>1
  <2>5. \A c \in StacksAfter(constIn[BlockOf(k)], BlockOf(k), k - 1) : Agree(c, new)
    BY <1>7, <1>8, <2>2, <2>4
  <2>6. StackFacts(k, new)
    BY <1>6, <1>9, <2>3, <2>5 DEF StackFacts
  <2>7. QED
    BY <2>6 DEF new
<1>11. CASE i = LastOf(b)
  <2>1. k \in Blocks /\ k \in SuccessorSet(b)
    BY <1>2, <1>11, InBlock DEF SuccessorSet
  <2>2. constOut[b] \in StacksAfter(constIn[b], b, i)
    BY <1>2, <1>11 DEF ConstFacts
  <2>3. Agree(constOut[b], new)
    BY <1>7, <1>8, <2>2
  <2>4. Agree(constIn[k], new)
    BY <1>2, <1>6, <1>9, <2>1, <2>3, MergeAgrees
  <2>5. BlockOf(k) = k
    <3>1. k <= k /\ k <= LastOf(k)
      BY <2>1, BlockEnd
    <3>2. QED
      BY <1>1, <2>1, <3>1, OneBlock
  <2>6. WalkedTo(k) = constIn[k]
    BY <1>1, <2>1, WalkNext
  <2>7. StacksAfter(constIn[k], k, k - 1) = {constIn[k]}
    BY <1>1, StacksNext
  <2>8. StackFacts(k, new)
    BY <1>9, <2>4, <2>5, <2>6, <2>7 DEF StackFacts
  <2>9. QED
    BY <2>8 DEF new
<1>12. QED
  BY <1>2, <1>10, <1>11

\* What DynamicArrayAllocOptPass leaves.
PassedTokens == [j \in 1 .. NewIndex(Len(program)) |-> IF j \in removed THEN Drop1 ELSE StaticTokens[j]]

\* The search for accesses from one allocation of an array to another has found none.
Between(i, j, c) == (IF c = BlockOf(i) THEN i + 1 ELSE c) .. (IF c = BlockOf(j) THEN j - 1 ELSE LastOf(c))
Unneeded(i, j) ==
    /\ i \in 1 .. Len(program) /\ j \in 1 .. Len(program) /\ i < j
    /\ program[i].kind = "alloc_dyn" /\ program[j].kind = "alloc_dyn" /\ program[j].name = program[i].name
    /\ BlockOf(i) = BlockOf(j) => \A k \in i + 1 .. j - 1 : ~AccessTo(program[i].name, program[k])
    /\ BlockOf(i) # BlockOf(j) =>
           \A c \in Visited(BlockOf(i), BlockOf(j)) : \A k \in Between(i, j, c) :
               ~AccessTo(program[i].name, program[k])

RemovedFacts ==
    /\ \A j \in removed : j \in 1 .. NewIndex(Len(program)) /\ StaticTokens[j].kind = "alloc_dyn"
    /\ Converted = {} => \A i \in removed : \E j \in 1 .. Len(program) : Unneeded(i, j)

PassTokens ==
    /\ phase = "dynamic" => tokens = StaticTokens
    /\ phase \in {"analyse", "run"} => tokens = PassedTokens /\ RemovedFacts

\* Without conversions the tokens are where they were.
LEMMA NoneConverted ==
    ASSUME ProgramInv, Converted = {}
    PROVE  /\ \A i : NewIndex(i) = i + 0
           /\ \A i \in 1 .. Len(program) : NewIndex(i) = i /\ StaticTokens[i] = program[i]
           /\ NewIndex(Len(program)) = Len(program)
<1>1. ASSUME NEW i PROVE NewIndex(i) = i + 0
  <2>1. {c \in Converted : c <= i} = {}
    OBVIOUS
  <2>2. Cardinality({}) = 0
    BY FS_EmptySet
  <2>3. QED
    BY <2>1, <2>2 DEF NewIndex
<1>2. Len(program) \in Nat
  BY ProgramFacts
<1>3. ASSUME NEW i \in 1 .. Len(program)
      PROVE  NewIndex(i) = i /\ StaticTokens[i] = program[i]
  <2>1. NewIndex(i) = i
    <3>1. NewIndex(i) = i + 0 /\ i \in Int
      BY <1>1
    <3>2. QED
      BY <3>1
  <2>2. QED
    BY <2>1, StaticMoved
<1>4. NewIndex(Len(program)) = Len(program)
  <2>1. NewIndex(Len(program)) = Len(program) + 0
    BY <1>1
  <2>2. QED
    BY <1>2, <2>1
<1>5. QED
  BY <1>1, <1>3, <1>4

LEMMA RedundantFacts ==
    ASSUME ProgramInv, tokens = StaticTokens, NEW i \in Redundant
    PROVE  /\ i \in 1 .. NewIndex(Len(program)) /\ StaticTokens[i].kind = "alloc_dyn"
           /\ Converted = {} => \E j \in 1 .. Len(program) : Unneeded(i, j)
<1> DEFINE a == tokens[i].name
<1>1. Len(tokens) = NewIndex(Len(program))
  BY StaticMoved DEF Moved
<1>2. i \in 1 .. Len(tokens) /\ tokens[i].kind = "alloc_dyn"
  BY DEF Redundant, DynamicAllocations
<1>3. PICK j \in DynamicAllocations(a) : i < j /\ ~UsedBetween(a, i, j)
  BY Zenon DEF Redundant
<1>4. ASSUME Converted = {}
      PROVE  Unneeded(i, j) /\ j \in 1 .. Len(program)
  <2>1. /\ i \in 1 .. Len(program) /\ tokens[i] = program[i]
        /\ \A k \in 1 .. Len(program) : tokens[k] = program[k]
        /\ Len(tokens) = Len(program) /\ Len(program) \in Nat
    BY <1>1, <1>2, <1>4, NoneConverted, ProgramFacts
  <2>2. j \in 1 .. Len(program) /\ program[j].kind = "alloc_dyn" /\ program[j].name = program[i].name
    BY <2>1 DEF DynamicAllocations
  <2>3. BlockOf(i) \in BlocksAt(i) /\ BlockOf(j) \in BlocksAt(j)
    BY <2>1, <2>2, OneBlock DEF BlocksAt
  <2>4. IF BlockOf(i) = BlockOf(j) THEN ~UsedIn(a, i + 1, j - 1)
        ELSE \A c \in Visited(BlockOf(i), BlockOf(j)) :
                ~UsedIn(a, IF c = BlockOf(i) THEN i + 1 ELSE c, IF c = BlockOf(j) THEN j - 1 ELSE LastOf(c))
    BY <1>3, <2>3, Zenon DEF UsedBetween
  <2>5. i + 1 .. j - 1 \subseteq 1 .. Len(program)
    BY <2>1, <2>2
  <2>6. ASSUME BlockOf(i) = BlockOf(j), NEW k \in i + 1 .. j - 1
        PROVE  ~AccessTo(program[i].name, program[k])
    <3>1. k \in 1 .. Len(program) /\ tokens[k] = program[k]
      BY <2>1, <2>5
    <3>2. ~AccessTo(a, tokens[k])
      BY <2>4, <2>6 DEF UsedIn
    <3>3. QED
      BY <2>1, <3>1, <3>2
  <2>7. ASSUME BlockOf(i) # BlockOf(j), NEW c \in Visited(BlockOf(i), BlockOf(j)), NEW k \in Between(i, j, c)
        PROVE  ~AccessTo(program[i].name, program[k])
    <3>1. c \in Blocks
      BY DEF Visited
    <3>2. c \in 1 .. Len(program) /\ LastOf(c) \in 1 .. Len(program)
      BY <3>1, BlockEnd
    <3>3. k \in 1 .. Len(program)
      BY <2>1, <2>2, <3>2 DEF Between
    <3>4. ~AccessTo(a, tokens[k])
      BY <2>4, <2>7 DEF UsedIn, Between
    <3>5. QED
      BY <2>1, <3>3, <3>4
  <2>8. QED
    BY <1>3, <2>1, <2>2, <2>6, <2>7, <1>2 DEF Unneeded
<1>5. QED
  BY <1>1, <1>2, <1>4

LEMMA SameTokens ==
    ASSUME program' = program, constIn' = constIn
    PROVE  /\ removed' = removed => PassedTokens' = PassedTokens
           /\ (RemovedFacts' <=>
                  /\ \A j \in removed' : j \in 1 .. NewIndex(Len(program)) /\ StaticTokens[j].kind = "alloc_dyn"
                  /\ Converted = {} => \A i \in removed' : \E j \in 1 .. Len(program) : Unneeded(i, j))
<1>1. \A i, j : Unneeded(i, j)' = Unneeded(i, j)
  <2>1. \A b, c : Visited(b, c)' = Visited(b, c)
    BY SameProgram DEF Visited
  <2>2. \A i, j, c : Between(i, j, c)' = Between(i, j, c)
    BY SameProgram DEF Between
  <2>3. QED
    BY <2>1, <2>2, SameProgram DEF Unneeded
<1>2. Converted' = Converted /\ StaticTokens' = StaticTokens
  BY SameWalk
<1>3. NewIndex(Len(program))' = NewIndex(Len(program))
  BY <1>2 DEF NewIndex
<1>4. removed' = removed => PassedTokens' = PassedTokens
  BY <1>2, <1>3 DEF PassedTokens
<1>5. QED
  BY <1>1, <1>2, <1>3, <1>4 DEF RemovedFacts

LEMMA TokensStep ==
    ASSUME ConstInv, PassTokens, [Next]_vars
    PROVE  PassTokens'
<1>1. ProgramInv
  BY DEF ConstInv
<1>2. CASE Propagate \/ EndOfRound
  BY <1>2 DEF PassTokens, Propagate, EndOfRound, constVars
<1>3. CASE StaticArrayOpt
  <2>1. program' = program /\ constIn' = constIn /\ phase' = "dynamic" /\ tokens' = StaticTokens
    BY <1>3, Zenon DEF StaticArrayOpt, StaticTokens, constVars
  <2>2. StaticTokens' = StaticTokens
    BY <2>1, SameWalk
  <2>3. QED
    BY <2>1, <2>2 DEF PassTokens
<1>4. CASE DynamicArrayAllocOpt
  <2>1. /\ program' = program /\ constIn' = constIn /\ phase' = "analyse" /\ removed' = Redundant
        /\ tokens = StaticTokens
    BY <1>4 DEF DynamicArrayAllocOpt, constVars, PassTokens
  <2>2. tokens' = [i \in 1 .. Len(tokens) |-> IF i \in Redundant THEN Drop1 ELSE tokens[i]]
    BY <1>4 DEF DynamicArrayAllocOpt
  <2>3. Len(tokens) = NewIndex(Len(program))
    BY <1>1, <2>1, StaticMoved DEF Moved
  <2>4. tokens' = PassedTokens'
    <3>1. NewIndex(Len(program))' = NewIndex(Len(program)) /\ StaticTokens' = StaticTokens
      <4>1. Converted' = Converted /\ StaticTokens' = StaticTokens
        BY <2>1, SameWalk
      <4>2. QED
        BY <2>1, <4>1 DEF NewIndex
    <3>2. QED
      BY <2>1, <2>2, <2>3, <3>1 DEF PassedTokens
  <2>5. RemovedFacts'
    BY <1>1, <2>1, RedundantFacts, SameTokens
  <2>6. QED
    BY <2>1, <2>4, <2>5 DEF PassTokens
<1>5. CASE Analyse \/ Execute \/ UNCHANGED vars
  <2>1. /\ program' = program /\ constIn' = constIn /\ removed' = removed /\ tokens' = tokens
        /\ phase' = phase \/ (phase = "analyse" /\ phase' \in {"run", "rejected"})
    BY <1>5 DEF Analyse, Execute, vars, constVars
  <2>2. RemovedFacts => RemovedFacts'
    BY <2>1, SameTokens DEF RemovedFacts
  <2>3. PassedTokens' = PassedTokens
    BY <2>1, SameTokens
  <2>4. StaticTokens' = StaticTokens
    BY <2>1, SameWalk
  <2>5. QED
    BY <2>1, <2>2, <2>3, <2>4 DEF PassTokens
<1>6. QED
  BY <1>2, <1>3, <1>4, <1>5 DEF Next, Passes

THEOREM TokensAlways == Spec => []PassTokens
<1>1. Init => PassTokens
  BY DEF Init, PassTokens
<1>2. ConstInv /\ PassTokens /\ [Next]_vars => PassTokens'
  BY TokensStep
<1>3. QED
  BY <1>1, <1>2, ConstAlways, PTL DEF Spec

LEMMA PassedMoved ==
    ASSUME ProgramInv, RemovedFacts
    PROVE  Moved(PassedTokens)
<1>1. Len(PassedTokens) = NewIndex(Len(program))
  <2>1. NewIndex(Len(program)) \in Nat
    BY ProgramFacts, NewIndexOrder
  <2>2. QED
    BY <2>1 DEF PassedTokens
<1>2. ASSUME NEW i \in 1 .. Len(program)
      PROVE  IF i \in Converted
             THEN /\ PassedTokens[NewStart(i)] = Drop1
                  /\ PassedTokens[NewIndex(i)] = AllocStatic(program[i].name, Constant(i))
             ELSE PassedTokens[NewIndex(i)] = program[i]
                      \/ (program[i].kind = "alloc_dyn" /\ PassedTokens[NewIndex(i)] = Drop1)
  <2>1. NewIndex(i) \in 1 .. NewIndex(Len(program)) /\ NewStart(i) \in 1 .. NewIndex(Len(program))
    BY IndexTypes
  <2>2. \A j \in 1 .. NewIndex(Len(program)) :
            PassedTokens[j] = IF j \in removed THEN Drop1 ELSE StaticTokens[j]
    BY DEF PassedTokens
  <2>3. CASE i \in Converted
    <3>1. StaticTokens[NewStart(i)] = Drop1 /\ StaticTokens[NewIndex(i)] = AllocStatic(program[i].name, Constant(i))
      BY <2>3, StaticMoved DEF Moved
    <3>2. Drop1.kind # "alloc_dyn" /\ AllocStatic(program[i].name, Constant(i)).kind # "alloc_dyn"
      BY InsertedFacts
    <3>3. NewStart(i) \notin removed /\ NewIndex(i) \notin removed
      BY <3>1, <3>2 DEF RemovedFacts
    <3>4. QED
      BY <2>1, <2>2, <2>3, <3>1, <3>3
  <2>4. CASE i \notin Converted
    <3>1. StaticTokens[NewIndex(i)] = program[i]
      BY <2>4, StaticMoved
    <3>2. NewIndex(i) \in removed => program[i].kind = "alloc_dyn"
      BY <3>1 DEF RemovedFacts
    <3>3. QED
      BY <2>1, <2>2, <2>4, <3>1, <3>2
  <2>5. QED
    BY <2>3, <2>4
<1>3. QED
  BY <1>1, <1>2, Zenon DEF Moved

\* The execution starts when the tokens are accepted, and follows the stacks of the passes.
Executing ==
    /\ phase # "run" =>
        /\ pc = 1 /\ stack = <<>>
        /\ size = [a \in Arrays |-> 0] /\ optSize = [a \in Arrays |-> 0]
    /\ phase = "run" =>
        /\ Typed(program) /\ pc \in 1 .. End /\ stack \in Seq(Value)
        /\ pc < End => StackFacts(pc, stack)

LEMMA EntryFacts ==
    ASSUME ProgramInv, Typed(program), ConstFacts(constIn, constOut, Blocks), 1 <= Len(program)
    PROVE  StackFacts(1, <<>>)
<1>1. 1 \in Blocks /\ 1 \in 1 .. Len(program) /\ Len(program) \in Nat
  BY ProgramFacts DEF Blocks, IsStart
<1>2. BlockOf(1) = 1
  <2>1. 1 <= LastOf(1)
    BY <1>1, BlockEnd
  <2>2. QED
    BY <1>1, <2>1, OneBlock
<1>3. constIn[1] = <<>> /\ constIn \in [1 .. Len(program) -> Seq(Entry)]
  BY <1>1 DEF ConstFacts, MergedOf
<1>4. WalkedTo(1) = <<>>
  BY <1>1, <1>3, WalkNext
<1>5. StacksAfter(constIn[1], 1, 1 - 1) = {<<>>}
  <2>1. constIn[1] \in Seq(Entry)
    BY <1>1, <1>3
  <2>2. StacksAfter(constIn[1], 1, 1 - 1) = {constIn[1]}
    BY <1>1, <2>1, StacksNext
  <2>3. QED
    BY <1>3, <2>2
<1>6. DepthAt(program, 1) = 0
  BY DepthNext
<1>7. QED
  BY <1>2, <1>4, <1>5, <1>6 DEF StackFacts, Agree

\* What is executed of the tokens the passes leave.
LEMMA NewToken ==
    ASSUME ProgramInv, NEW q, Moved(q), NEW i \in 1 .. Len(program)
    PROVE  /\ i \in Converted => q[NewIndex(i)].kind = "alloc_static" /\ q[NewIndex(i)].name = program[i].name
                                     /\ q[NewIndex(i)].value = Constant(i)
           /\ i \notin Converted => q[NewIndex(i)] = program[i]
                                     \/ (program[i].kind = "alloc_dyn" /\ q[NewIndex(i)].kind = "drop")
<1>1. CASE i \in Converted
  <2>1. q[NewIndex(i)] = AllocStatic(program[i].name, Constant(i))
    BY <1>1 DEF Moved
  <2>2. QED
    BY <1>1, <2>1, InsertedFacts
<1>2. CASE i \notin Converted
  BY <1>2, InsertedFacts DEF Moved
<1>3. QED
  BY <1>1, <1>2

\* Where the execution goes next, and with which stack.
LEMMA ExecuteMoves ==
    ASSUME ConstInv, Executing, Execute
    PROVE  LET t == program[pc]
           IN  /\ pc \in 1 .. Len(program) /\ StackFacts(pc, stack) /\ Len(stack) >= t.arity
               /\ pc' = End \/ pc' \in NextOf(program, pc)
               /\ \E v \in Value : /\ Computes(t, stack) \in {Unknown, v}
                                   /\ stack' = Replaced(stack, t.arity, Results(t, v))
<1> DEFINE t == program[pc]
<1>1. ProgramInv /\ Len(program) \in Nat /\ phase = "run" /\ pc < End
  BY ProgramFacts DEF ConstInv, Execute
<1>2. pc \in 1 .. Len(program) /\ StackFacts(pc, stack) /\ Typed(program) /\ stack \in Seq(Value)
  BY <1>1 DEF Executing, End
<1>3. IsTok(t) /\ t.arity \in Nat /\ t.arity <= Len(stack)
  <2>1. IsTok(t)
    BY <1>1, <1>2, ProgramTokens
  <2>2. t.arity \in Nat
    BY <2>1, TokenFacts DEF IsTok
  <2>3. Len(stack) = DepthAt(program, pc)
    BY <1>2 DEF StackFacts
  <2>4. DepthAt(program, pc) \in Nat /\ DepthAt(program, pc) >= t.arity
    BY <1>1, <1>2, DepthNext
  <2>5. QED
    BY <2>1, <2>2, <2>3, <2>4
<1>4. pc' = End \/ pc' \in NextOf(program, pc)
  <2>1. (pc' = TargetOf(program, pc) /\ t.kind = "jump") \/ pc' = pc + 1
    BY DEF Execute
  <2>2. NextOf(program, pc) = (IF t.kind = "jump" THEN {TargetOf(program, pc)} ELSE {})
                                  \cup (IF pc < Len(program) THEN {pc + 1} ELSE {})
    BY <1>1, <1>2, NextFacts
  <2>3. pc < Len(program) \/ pc + 1 = End
    BY <1>1, <1>2 DEF End
  <2>4. QED
    BY <2>1, <2>2, <2>3
<1>5. \E v \in Value : Computes(t, stack) \in {Unknown, v} /\ stack' = Replaced(stack, t.arity, Results(t, v))
  <2>1. PICK v \in IF Computes(t, stack) = Unknown THEN Sizes ELSE {Computes(t, stack)} :
            stack' = SubSeq(stack, 1, Len(stack) - t.arity) \o [k \in 1 .. t.arity + t.effect |-> v]
    BY DEF Execute
  <2>2. Computes(t, stack) \in Entry
    <3>1. stack \in Seq(Entry)
      BY <1>2 DEF Entry
    <3>2. QED
      BY <1>3, <3>1, ComputesType
  <2>3. v \in Value /\ Computes(t, stack) \in {Unknown, v}
    BY <2>1, <2>2, ArrayAssumption DEF Entry, Value
  <2>4. stack' = Replaced(stack, t.arity, Results(t, v))
    BY <2>1 DEF Replaced, Results
  <2>5. QED
    BY <2>3, <2>4
<1>6. QED
  BY <1>2, <1>3, <1>4, <1>5

LEMMA DoneFacts ==
    ASSUME ConstInv, phase \in {"static", "dynamic", "analyse", "run"}
    PROVE  ProgramInv /\ ConstFacts(constIn, constOut, Blocks)
BY DEF ConstInv, Done, Later

LEMMA ExecutingStep ==
    ASSUME ConstInv, PassTokens, Executing, [Next]_vars
    PROVE  Executing'
<1>1. CASE Propagate \/ EndOfRound \/ StaticArrayOpt \/ DynamicArrayAllocOpt
  BY <1>1 DEF Executing, Propagate, EndOfRound, StaticArrayOpt, DynamicArrayAllocOpt, runVars
<1>2. CASE Analyse
  <2>1. /\ program' = program /\ constIn' = constIn /\ UNCHANGED runVars /\ phase = "analyse"
        /\ phase' = IF Valid(tokens) THEN "run" ELSE "rejected"
    BY <1>2 DEF Analyse, constVars
  <2>2. pc' = 1 /\ stack' = <<>> /\ size' = [a \in Arrays |-> 0] /\ optSize' = [a \in Arrays |-> 0]
    BY <2>1 DEF Executing, runVars
  <2>3. Arrays' = Arrays
    OBVIOUS
  <2>4. CASE phase' = "run"
    <3>1. ProgramInv /\ ConstFacts(constIn, constOut, Blocks) /\ RemovedFacts /\ tokens = PassedTokens
      BY <2>1, DoneFacts DEF PassTokens
    <3>2. Typed(tokens)
      BY <2>1, <2>4 DEF Valid
    <3>3. Typed(program)
      BY <3>1, <3>2, PassedMoved, TypedBackward
    <3>4. Len(program) \in Nat /\ End' = End
      BY <2>1, <3>1, ProgramFacts, SameProgram
    <3>5. pc' \in 1 .. End' /\ stack' \in Seq(Value)
      BY <2>2, <3>4 DEF End
    <3>6. ASSUME pc' < End' PROVE StackFacts(pc, stack)'
      <4>1. 1 <= Len(program)
        BY <2>2, <3>4, <3>6 DEF End
      <4>2. StackFacts(pc', stack')
        BY <2>2, <3>1, <3>3, <4>1, EntryFacts
      <4>3. QED
        BY <2>1, <4>2, SameStackFacts
    <3>7. Typed(program)' /\ Value' = Value
      BY <2>1, <3>3
    <3>8. QED
      BY <2>4, <3>5, <3>6, <3>7 DEF Executing
  <2>5. CASE phase' # "run"
    BY <2>2, <2>5 DEF Executing
  <2>6. QED
    BY <2>4, <2>5
<1>3. CASE Execute
  <2>1. /\ program' = program /\ constIn' = constIn /\ phase = "run" /\ phase' = "run"
    BY <1>3 DEF Execute, constVars
  <2>2. ProgramInv /\ ConstFacts(constIn, constOut, Blocks) /\ Typed(program) /\ stack \in Seq(Value)
    BY <2>1, DoneFacts DEF Executing
  <2>3. /\ pc \in 1 .. Len(program) /\ StackFacts(pc, stack) /\ Len(stack) >= program[pc].arity
        /\ pc' = End \/ pc' \in NextOf(program, pc)
    BY <1>3, ExecuteMoves
  <2>4. PICK v \in Value : /\ Computes(program[pc], stack) \in {Unknown, v}
                           /\ stack' = Replaced(stack, program[pc].arity, Results(program[pc], v))
    BY <1>3, ExecuteMoves
  <2>5. Len(program) \in Nat /\ End' = End /\ NextOf(program, pc) \subseteq 1 .. Len(program) /\ IsTok(program[pc])
    BY <2>1, <2>2, <2>3, ProgramFacts, ProgramTokens, SameProgram
  <2>6. pc' \in 1 .. End
    BY <2>3, <2>5 DEF End
  <2>7. stack' \in Seq(Value)
    <3>1. WalkedTo(pc) \in Seq(Entry) /\ Agree(WalkedTo(pc), stack)
      <4>1. constIn \in [1 .. Len(program) -> Seq(Entry)]
        BY <2>2 DEF ConstFacts
      <4>2. QED
        BY <2>2, <2>3, <4>1, WalkNext DEF StackFacts
    <3>2. program[pc].arity <= Len(stack)
      <4>1. program[pc].arity \in Nat
        BY <2>5, TokenFacts DEF IsTok
      <4>2. QED
        BY <2>2, <2>3, <4>1
    <3> DEFINE c == WalkedTo(pc)
               t == program[pc]
               s == stack
    <3>3. c \in Seq(Entry) /\ Agree(c, s) /\ IsTok(t) /\ t.arity <= Len(s) /\ s \in Seq(Value)
              /\ Computes(t, s) \in {Unknown, v}
      BY <2>2, <2>4, <2>5, <3>1, <3>2
    <3> HIDE DEF c, t, s
    <3>4. Replaced(s, t.arity, Results(t, v)) \in Seq(Value)
      BY <2>4, <3>3, AgreeStep
    <3>5. QED
      BY <2>4, <3>4 DEF t, s
  <2>8. ASSUME pc' < End' PROVE StackFacts(pc, stack)'
    <3>1. pc' \in NextOf(program, pc)
      BY <2>3, <2>5, <2>6, <2>8 DEF End
    <3> DEFINE k == pc'
               i == pc
               s == stack
    <3>2. /\ i \in 1 .. Len(program) /\ s \in Seq(Value) /\ StackFacts(i, s)
          /\ Computes(program[i], s) \in {Unknown, v} /\ k \in NextOf(program, i)
      BY <2>2, <2>3, <2>4, <3>1
    <3> HIDE DEF k, i, s
    <3>3. StackFacts(k, Replaced(s, program[i].arity, Results(program[i], v)))
      BY <2>2, <2>4, <3>2, StackMoves
    <3>4. StackFacts(pc', stack')
      BY <2>4, <3>3 DEF k, i, s
    <3>5. QED
      BY <2>1, <3>4, SameStackFacts
  <2>9. Typed(program)' /\ Value' = Value
    BY <2>1, <2>2
  <2>10. QED
    BY <2>1, <2>5, <2>6, <2>7, <2>8, <2>9 DEF Executing
<1>4. CASE UNCHANGED vars
  <2>1. program' = program /\ constIn' = constIn /\ phase' = phase /\ UNCHANGED runVars
    BY <1>4 DEF vars, runVars
  <2>2. pc' = pc /\ stack' = stack /\ size' = size /\ optSize' = optSize /\ End' = End
    BY <2>1, SameProgram DEF runVars
  <2>3. phase = "run" /\ pc < End => StackFacts(pc, stack)'
    BY <2>1, <2>2, SameStackFacts DEF Executing
  <2>4. Typed(program) => Typed(program)'
    BY <2>1
  <2>5. QED
    BY <2>1, <2>2, <2>3, <2>4 DEF Executing
<1>5. QED
  BY <1>1, <1>2, <1>3, <1>4 DEF Next, Passes

THEOREM ExecutingAlways == Spec => []Executing
<1>1. Init => Executing
  BY DEF Init, Executing
<1>2. ConstInv /\ PassTokens /\ Executing /\ [Next]_vars => Executing'
  BY ExecutingStep
<1>3. QED
  BY <1>1, <1>2, ConstAlways, TokensAlways, PTL DEF Spec

\* What constant propagation knows of the stack at the start of a block is what is there, whatever
\* path leads there: a stack of the execution is followed by those of both passes, and the merge
\* at a block agrees with each of the stacks that are merged.
THEOREM ConstantsAlwaysHold == Spec => []ConstantsHold
<1>1. ConstInv /\ Executing => ConstantsHold
  <2> SUFFICES ASSUME ConstInv, Executing PROVE ConstantsHold
    OBVIOUS
  <2>1. phase = "undefined" => ~Typed(program)
    BY DEF ConstInv
  <2>2. ASSUME phase = "run", pc \in Blocks
        PROVE  /\ Len(constIn[pc]) = Len(stack)
               /\ \A k \in 1 .. Len(stack) : constIn[pc][k] \in {Unknown, stack[k]}
    <3>1. ProgramInv /\ ConstFacts(constIn, constOut, Blocks)
      BY <2>2, DoneFacts
    <3>2. pc \in 1 .. Len(program) /\ Len(program) \in Nat /\ constIn \in [1 .. Len(program) -> Seq(Entry)]
      BY <2>2, <3>1, BlockEnd, ProgramFacts DEF ConstFacts
    <3>3. StackFacts(pc, stack)
      BY <2>2, <3>2 DEF Executing, End
    <3>4. WalkedTo(pc) = constIn[pc]
      BY <2>2, <3>1, <3>2, WalkNext
    <3>5. QED
      BY <3>3, <3>4 DEF StackFacts, Agree
  <2>3. QED
    BY <2>1, <2>2 DEF ConstantsHold
<1>2. QED
  BY <1>1, ConstAlways, ExecutingAlways, PTL

-------------------------------------------------------------------------------
(* Where the sizes may differ *)

\* Where the execution may be after a removed allocation i and before the next allocation j.
Region(i, j) ==
    {k \in ReachableFrom(program, NextOf(program, i), {}) :
        IF BlockOf(i) = BlockOf(j) THEN k \in i + 1 .. j
        ELSE BlockOf(k) \in Visited(BlockOf(i), BlockOf(j)) /\ (BlockOf(k) = BlockOf(j) => k <= j)}

\* A path goes through a block to its end.
LEMMA BlockPath ==
    ASSUME ProgramInv, NEW c \in Blocks, NEW k \in c .. LastOf(c), NEW i \in k .. LastOf(c),
           NEW S, NEW stops, ClosedUnder(program, S, stops), k \in S, \A m \in k .. i - 1 : m \notin stops
    PROVE  i \in S
<1>1. c \in 1 .. Len(program) /\ LastOf(c) \in 1 .. Len(program) /\ Len(program) \in Nat
  BY BlockEnd, ProgramFacts
<1> DEFINE bad == {m \in Nat : m \in k .. i /\ m \notin S}
<1>2. bad = {}
  <2> SUFFICES ASSUME bad # {} PROVE FALSE
    OBVIOUS
  <2>1. PICK m \in bad : \A x \in bad : m <= x
    <3> bad \in SUBSET Nat
      OBVIOUS
    <3> HIDE DEF bad
    <3> QED
      BY LeastOf
  <2>2. m \in Nat /\ m \in k .. i /\ m \notin S
    OBVIOUS
  <2>3. m # k
    BY <2>2
  <2>4. m - 1 \in Nat /\ m - 1 \in k .. i - 1 /\ m - 1 \in k .. i /\ m - 1 \in c .. LastOf(c) /\ m - 1 < LastOf(c)
        /\ ~(m <= m - 1) /\ (m - 1) + 1 = m
    BY <1>1, <2>2, <2>3
  <2>5. m - 1 \in S \ stops
    BY <2>1, <2>4
  <2>6. NextOf(program, m - 1) = {m}
    BY <2>4, InBlock
  <2>7. m \in S
    BY <2>5, <2>6 DEF ClosedUnder
  <2>8. QED
    BY <2>2, <2>7
<1>3. i \in Nat /\ i \in k .. i
  BY <1>1
<1>4. QED
  BY <1>2, <1>3

\* Where paths from tokens lead.
LEMMA PathFacts ==
    ASSUME ProgramInv, NEW from \in SUBSET (1 .. Len(program)), NEW stops
    PROVE  /\ from \subseteq ReachableFrom(program, from, stops)
           /\ ReachableFrom(program, from, stops) \subseteq 1 .. Len(program)
           /\ ClosedUnder(program, ReachableFrom(program, from, stops), stops)
BY ProgramFacts, ReachIsClosed

\* The search for accesses goes on to the blocks that follow, but not through the last one.
LEMMA VisitedNext ==
    ASSUME ProgramInv, NEW start \in Blocks, NEW stop \in Blocks
    PROVE  /\ start \in Visited(start, stop)
           /\ \A c \in Visited(start, stop) : c # stop => SuccessorSet(c) \subseteq Visited(start, stop)
<1> DEFINE S == ReachableFrom(program, {start}, {stop})
<1>1. start \in 1 .. Len(program)
  BY BlockEnd
<1>2. start \in S /\ ClosedUnder(program, S, {stop})
  <2>1. {start} \in SUBSET (1 .. Len(program))
    BY <1>1
  <2>2. {start} \subseteq S /\ ClosedUnder(program, S, {stop})
    BY <2>1, PathFacts
  <2>3. QED
    BY <2>2
<1>3. ASSUME NEW c \in Blocks, c \in S, c # stop
      PROVE  SuccessorSet(c) \subseteq S /\ SuccessorSet(c) \subseteq Blocks
  <2>1. c \in Nat /\ LastOf(c) \in Nat /\ c <= LastOf(c)
    BY BlockEnd
  <2>2. \A m \in c .. LastOf(c) : m \notin {stop}
    <3> SUFFICES ASSUME NEW m \in c .. LastOf(c), m = stop PROVE FALSE
      OBVIOUS
    <3>1. m \in c + 1 .. LastOf(c)
      BY <1>3, <2>1
    <3>2. QED
      BY <3>1, BlockEnd
  <2>3. LastOf(c) \in S
    <3>1. c \in c .. LastOf(c) /\ LastOf(c) \in c .. LastOf(c) /\ \A m \in c .. LastOf(c) - 1 : m \in c .. LastOf(c)
      BY <2>1
    <3> HIDE DEF S
    <3>2. QED
      BY <1>2, <1>3, <2>2, <3>1, BlockPath
  <2>4. LastOf(c) \in S \ {stop}
    BY <2>1, <2>2, <2>3
  <2>5. NextOf(program, LastOf(c)) \subseteq S
    BY <1>2, <2>4 DEF ClosedUnder
  <2>6. QED
    BY <2>5, InBlock DEF SuccessorSet
<1>4. QED
  BY <1>2, <1>3 DEF Visited

LEMMA OwnBlock ==
    ASSUME ProgramInv, NEW b \in Blocks
    PROVE  BlockOf(b) = b /\ b \in 1 .. Len(program)
<1>1. b <= b /\ b <= LastOf(b) /\ b \in 1 .. Len(program)
  BY BlockEnd
<1>2. QED
  BY <1>1, OneBlock

\* A step between different blocks, or in one.
LEMMA BlockStep ==
    ASSUME ProgramInv, NEW i \in 1 .. Len(program), NEW k \in NextOf(program, i)
    PROVE  \/ k = i + 1 /\ BlockOf(k) = BlockOf(i) /\ i < LastOf(BlockOf(i))
           \/ k \in SuccessorSet(BlockOf(i)) /\ k \in Blocks /\ BlockOf(k) = k /\ i = LastOf(BlockOf(i))
<1> DEFINE b == BlockOf(i)
<1>1. b \in Blocks /\ b <= i /\ i <= LastOf(b) /\ b \in 1 .. Len(program) /\ LastOf(b) \in 1 .. Len(program)
      /\ k \in 1 .. Len(program)
  BY OneBlock, BlockEnd, ProgramFacts
<1>2. CASE i < LastOf(b)
  <2>1. i \in b .. LastOf(b)
    BY <1>1
  <2>2. NextOf(program, i) = {i + 1}
    BY <1>1, <1>2, <2>1, InBlock
  <2>3. k = i + 1
    BY <2>2
  <2>4. b <= k /\ k <= LastOf(b)
    BY <1>1, <1>2, <2>3
  <2>5. BlockOf(k) = b
    BY <1>1, <2>4, OneBlock
  <2>6. QED
    BY <1>2, <2>3, <2>5
<1>3. CASE i = LastOf(b)
  <2>1. k \in Blocks /\ k \in SuccessorSet(b)
    BY <1>1, <1>3, InBlock DEF SuccessorSet
  <2>2. QED
    BY <1>3, <2>1, OwnBlock
<1>4. QED
  BY <1>1, <1>2, <1>3

\* The region has what follows its tokens, other than j.
LEMMA RegionStep ==
    ASSUME ProgramInv, NEW i \in 1 .. Len(program), NEW j \in 1 .. Len(program), BlockOf(i) # BlockOf(j),
           NEW k \in 1 .. Len(program), BlockOf(k) \in Visited(BlockOf(i), BlockOf(j)),
           BlockOf(k) = BlockOf(j) => k < j, NEW m \in NextOf(program, k)
    PROVE  BlockOf(m) \in Visited(BlockOf(i), BlockOf(j)) /\ (BlockOf(m) = BlockOf(j) => m <= j)
<1>1. BlockOf(i) \in Blocks /\ BlockOf(j) \in Blocks /\ BlockOf(j) <= j /\ j <= LastOf(BlockOf(j))
  BY OneBlock
<1>2. CASE m = k + 1 /\ BlockOf(m) = BlockOf(k)
  BY <1>2
<1>3. CASE m \in SuccessorSet(BlockOf(k)) /\ BlockOf(m) = m /\ k = LastOf(BlockOf(k))
  <2>1. BlockOf(k) # BlockOf(j)
    <3> SUFFICES ASSUME BlockOf(k) = BlockOf(j) PROVE FALSE
      OBVIOUS
    <3>1. k < j /\ j <= k
      BY <1>1, <1>3
    <3>2. QED
      BY <3>1
  <2>2. m \in Visited(BlockOf(i), BlockOf(j))
    BY <1>1, <1>3, <2>1, VisitedNext
  <2>3. QED
    BY <1>1, <1>3, <2>2
<1>4. QED
  BY <1>2, <1>3, BlockStep

LEMMA RegionEntered ==
    ASSUME ProgramInv, NEW i \in 1 .. Len(program), NEW j \in 1 .. Len(program), Unneeded(i, j),
           NEW k \in NextOf(program, i)
    PROVE  k \in Region(i, j)
<1>1. k \in ReachableFrom(program, NextOf(program, i), {})
  BY ProgramFacts, PathFacts
<1>2. i < j
  BY DEF Unneeded
<1>3. CASE BlockOf(i) = BlockOf(j)
  <2>1. j <= LastOf(BlockOf(i)) /\ LastOf(BlockOf(i)) \in 1 .. Len(program)
    BY <1>3, OneBlock, BlockEnd
  <2>2. ~(i = LastOf(BlockOf(i)))
    BY <1>2, <2>1
  <2>3. k = i + 1
    BY <2>2, BlockStep
  <2>4. k \in i + 1 .. j
    BY <1>2, <2>3
  <2>5. QED
    BY <1>1, <1>3, <2>4 DEF Region
<1>4. CASE BlockOf(i) # BlockOf(j)
  <2>1. BlockOf(i) \in Visited(BlockOf(i), BlockOf(j))
    BY OneBlock, VisitedNext
  <2>2. BlockOf(k) \in Visited(BlockOf(i), BlockOf(j)) /\ (BlockOf(k) = BlockOf(j) => k <= j)
    BY <1>4, <2>1, RegionStep
  <2>3. QED
    BY <1>1, <1>4, <2>2 DEF Region
<1>5. QED
  BY <1>3, <1>4

LEMMA RegionKept ==
    ASSUME ProgramInv, NEW i \in 1 .. Len(program), NEW j \in 1 .. Len(program),
           NEW k \in Region(i, j), k # j, NEW m \in NextOf(program, k)
    PROVE  m \in Region(i, j) /\ k \in 1 .. Len(program)
<1> DEFINE S == ReachableFrom(program, NextOf(program, i), {})
<1>1. S \subseteq 1 .. Len(program) /\ ClosedUnder(program, S, {})
  BY ProgramFacts, PathFacts
<1>2. k \in S
  BY DEF Region
<1>3. m \in S /\ k \in 1 .. Len(program)
  BY <1>1, <1>2 DEF ClosedUnder
<1>4. CASE BlockOf(i) = BlockOf(j)
  <2>1. k \in i + 1 .. j
    BY <1>4 DEF Region
  <2>2. k < j /\ i < k
    BY <2>1
  <2>3. /\ BlockOf(i) \in Blocks /\ BlockOf(i) <= i /\ j <= LastOf(BlockOf(i))
        /\ LastOf(BlockOf(i)) \in 1 .. Len(program) /\ BlockOf(i) \in 1 .. Len(program)
    BY <1>4, OneBlock, BlockEnd
  <2>4. k \in BlockOf(i) .. LastOf(BlockOf(i)) /\ k < LastOf(BlockOf(i))
    BY <1>3, <2>2, <2>3
  <2>5. m = k + 1
    BY <2>3, <2>4, InBlock
  <2>6. m \in i + 1 .. j
    BY <2>1, <2>2, <2>5
  <2>7. QED
    BY <1>3, <1>4, <2>6 DEF Region
<1>5. CASE BlockOf(i) # BlockOf(j)
  <2>1. BlockOf(k) \in Visited(BlockOf(i), BlockOf(j)) /\ (BlockOf(k) = BlockOf(j) => k <= j)
    BY <1>5 DEF Region
  <2>2. BlockOf(k) = BlockOf(j) => k < j
    BY <1>3, <2>1
  <2>3. BlockOf(m) \in Visited(BlockOf(i), BlockOf(j)) /\ (BlockOf(m) = BlockOf(j) => m <= j)
    BY <1>3, <1>5, <2>1, <2>2, RegionStep
  <2>4. QED
    BY <1>3, <1>5, <2>3 DEF Region
<1>6. QED
  BY <1>3, <1>4, <1>5

\* The array is accessed there only if the block of the removed allocation is entered again.
LEMMA RegionAccess ==
    ASSUME ProgramInv, NEW i \in 1 .. Len(program), NEW j \in 1 .. Len(program), Unneeded(i, j),
           NEW k \in Region(i, j), AccessTo(program[i].name, program[k])
    PROVE  OnCycle(i) /\ k \in BlockOf(i) .. i - 1
<1> DEFINE S == ReachableFrom(program, NextOf(program, i), {})
<1>1. S \subseteq 1 .. Len(program) /\ ClosedUnder(program, S, {}) /\ k \in S
  BY ProgramFacts, PathFacts DEF Region
<1>2. k \in 1 .. Len(program) /\ k # i /\ k # j
  BY <1>1 DEF AccessTo, Unneeded
<1>3. BlockOf(i) # BlockOf(j)
  <2> SUFFICES ASSUME BlockOf(i) = BlockOf(j) PROVE FALSE
    OBVIOUS
  <2>1. k \in i + 1 .. j
    BY DEF Region
  <2>2. k \in i + 1 .. j - 1
    BY <1>2, <2>1
  <2>3. QED
    BY <2>2 DEF Unneeded
<1> DEFINE c == BlockOf(k)
<1>4. /\ c \in Visited(BlockOf(i), BlockOf(j)) /\ (c = BlockOf(j) => k <= j)
      /\ c \in Blocks /\ c <= k /\ k <= LastOf(c) /\ c \in 1 .. Len(program) /\ LastOf(c) \in 1 .. Len(program)
  BY <1>2, <1>3, OneBlock, BlockEnd DEF Region
<1>5. c = BlockOf(i) /\ k < i
  <2> SUFFICES ASSUME c # BlockOf(i) \/ ~(k < i) PROVE FALSE
    OBVIOUS
  <2>1. c = BlockOf(i) => k >= i + 1
    BY <1>2
  <2>2. c = BlockOf(j) => k <= j - 1
    BY <1>2, <1>4
  <2>3. k \in Between(i, j, c)
    BY <1>2, <1>4, <2>1, <2>2 DEF Between
  <2>4. QED
    BY <1>3, <1>4, <2>3 DEF Unneeded
<1>6. i \in S
  <2>1. i <= LastOf(c)
    BY <1>5, OneBlock
  <2>2. k \in c .. LastOf(c) /\ i \in k .. LastOf(c) /\ \A m \in k .. i - 1 : m \notin {}
    BY <1>2, <1>4, <1>5, <2>1
  <2> HIDE DEF S, c
  <2>3. QED
    BY <1>1, <1>4, <2>2, BlockPath
<1>7. k \in BlockOf(i) .. i - 1
  BY <1>2, <1>4, <1>5
<1>8. QED
  BY <1>6, <1>7 DEF OnCycle

\* The sizes differ only for an array of which an allocation was removed, and, if nothing is
\* converted, between a removed allocation and the next one.
Diverging(a) ==
    /\ \E i \in 1 .. Len(program) : NewIndex(i) \in removed /\ program[i].name = a
    /\ Converted = {} /\ pc < End =>
        \E i, j \in 1 .. Len(program) :
            i \in removed /\ program[i].name = a /\ Unneeded(i, j) /\ pc \in Region(i, j)
SizesInv ==
    /\ size \in [Arrays -> Value] /\ optSize \in [Arrays -> Value]
    /\ \A a \in Arrays : SameSize(a) \/ Diverging(a)

LEMMA SameRegion ==
    ASSUME program' = program, constIn' = constIn, removed' = removed
    PROVE  /\ \A i, j : Region(i, j)' = Region(i, j) /\ Unneeded(i, j)' = Unneeded(i, j)
           /\ Converted' = Converted /\ End' = End
           /\ \A i : NewIndex(i)' = NewIndex(i)
<1>1. \A b, c : Visited(b, c)' = Visited(b, c)
  BY SameProgram DEF Visited
<1>2. \A i, j : Region(i, j)' = Region(i, j)
  <2> SUFFICES ASSUME NEW i, NEW j PROVE Region(i, j)' = Region(i, j)
    OBVIOUS
  <2>1. ReachableFrom(program, NextOf(program, i), {})' = ReachableFrom(program, NextOf(program, i), {})
    OBVIOUS
  <2>2. \A k : BlockOf(k)' = BlockOf(k)
    BY SameProgram
  <2>3. QED
    BY <1>1, <2>1, <2>2 DEF Region
<1>3. \A i, j, c : Between(i, j, c)' = Between(i, j, c)
  BY SameProgram DEF Between
<1>4. \A i, j : Unneeded(i, j)' = Unneeded(i, j)
  BY <1>1, <1>3, SameProgram DEF Unneeded
<1>5. QED
  BY <1>2, <1>4, SameWalk, SameProgram

\* What a token of both programs allocates.
LEMMA SizesMove ==
    ASSUME ConstInv, PassTokens, Executing, SizesInv, Execute, NEW a \in Arrays
    PROVE  /\ size'[a] \in Value /\ optSize'[a] \in Value
           /\ Allocates(program[pc]) /\ program[pc].name = a =>
                  size'[a] = optSize'[a] \/ (NewIndex(pc) \in removed /\ program[pc].kind = "alloc_dyn")
           /\ ~(Allocates(program[pc]) /\ program[pc].name = a) => size'[a] = size[a] /\ optSize'[a] = optSize[a]
<1> DEFINE t == program[pc]
           new == tokens[NewIndex(pc)]
<1>1. /\ ProgramInv /\ ConstFacts(constIn, constOut, Blocks) /\ RemovedFacts /\ tokens = PassedTokens
      /\ size' = Allocated(size, t) /\ optSize' = Allocated(optSize, new)
      /\ pc \in 1 .. Len(program) /\ StackFacts(pc, stack) /\ Len(stack) >= t.arity /\ stack \in Seq(Value)
  <2>1. phase = "run" /\ size' = Allocated(size, t) /\ optSize' = Allocated(optSize, new)
    BY DEF Execute
  <2>2. pc \in 1 .. Len(program) /\ StackFacts(pc, stack) /\ Len(stack) >= t.arity
    BY ExecuteMoves
  <2>3. QED
    BY <2>1, <2>2, DoneFacts DEF PassTokens, Executing
<1>2. IsTok(t) /\ constIn \in [1 .. Len(program) -> Seq(Entry)]
  BY <1>1, ProgramTokens DEF ConstFacts
<1>3. Moved(tokens)
  BY <1>1, PassedMoved
<1>4. /\ pc \in Converted => new.kind = "alloc_static" /\ new.name = t.name /\ new.value = Constant(pc)
      /\ pc \notin Converted => new = t \/ (t.kind = "alloc_dyn" /\ new.kind = "drop")
  BY <1>1, <1>3, NewToken
<1>5. t.kind = "alloc_dyn" => Last(stack) \in Value /\ (pc \in Converted => Constant(pc) = Last(stack))
  <2> SUFFICES ASSUME t.kind = "alloc_dyn"
               PROVE  Last(stack) \in Value /\ (pc \in Converted => Constant(pc) = Last(stack))
    OBVIOUS
  <2>1. t.arity = 1
    BY <1>2, TokenFacts DEF IsTok
  <2>2. Len(stack) \in 1 .. Len(stack) /\ Len(stack) \in Nat
    BY <1>1, <2>1
  <2>3. Last(stack) \in Value
    BY <1>1, <2>2 DEF Last
  <2>4. WalkedTo(pc) \in Seq(Entry) /\ Agree(WalkedTo(pc), stack)
    BY <1>1, <1>2, WalkNext DEF StackFacts
  <2>5. Fill(WalkedTo(pc), 1) = WalkedTo(pc)
    <3> DEFINE c == WalkedTo(pc)
    <3>1. c \in Seq(Entry) /\ Len(c) = Len(stack)
      BY <2>4 DEF Agree
    <3> HIDE DEF c
    <3>2. 1 <= Len(c)
      BY <2>2, <3>1
    <3>3. Unknown \in Entry
      BY DEF Entry
    <3>4. t.arity \in Nat /\ t.arity <= Len(c)
      BY <2>1, <3>2
    <3>5. Fill(c, t.arity) = c
      BY <3>1, <3>3, <3>4, PaddedFacts
    <3>6. QED
      BY <2>1, <3>5 DEF c
  <2>6. pc \in Converted => Constant(pc) # Unknown
    BY DEF Converted
  <2>7. Constant(pc) = WalkedTo(pc)[Len(WalkedTo(pc))]
    BY <2>1, <2>5 DEF Constant, Last
  <2>8. Constant(pc) \in {Unknown, Last(stack)}
    BY <2>2, <2>4, <2>7 DEF Agree, Last
  <2>9. QED
    BY <2>3, <2>6, <2>8
<1>6. t.kind = "alloc_static" => t.value \in Value
  BY <1>2, TokenFacts DEF IsTok, Value
<1>7. size[a] \in Value /\ optSize[a] \in Value /\ size \in [Arrays -> Value] /\ optSize \in [Arrays -> Value]
  BY DEF SizesInv
<1>8. pc \in Converted => t.kind = "alloc_dyn"
  BY <1>1, ConvertedKind
<1>9. ASSUME new.kind = "drop", t.kind = "alloc_dyn", pc \notin Converted
      PROVE  NewIndex(pc) \in removed
  <2>1. NewIndex(pc) \in 1 .. NewIndex(Len(program))
    BY <1>1, IndexTypes
  <2>2. StaticTokens[NewIndex(pc)] = t
    BY <1>1, <1>9, StaticMoved
  <2>3. new = IF NewIndex(pc) \in removed THEN Drop1 ELSE t
    BY <1>1, <2>1, <2>2 DEF PassedTokens
  <2>4. QED
    BY <1>9, <2>3
<1>10. size'[a] = IF Allocates(t) /\ t.name = a THEN (IF t.kind = "alloc_dyn" THEN Last(stack) ELSE t.value) ELSE size[a]
  BY <1>1, <1>7 DEF Allocated, Allocates
<1>11. optSize'[a] = IF Allocates(new) /\ new.name = a THEN (IF new.kind = "alloc_dyn" THEN Last(stack) ELSE new.value)
                     ELSE optSize[a]
  BY <1>1, <1>7 DEF Allocated, Allocates
<1> HIDE DEF t, new
<1>12. QED
  <2>1. CASE pc \in Converted
    <3>1. t.kind = "alloc_dyn" /\ new.kind = "alloc_static" /\ new.name = t.name /\ new.value = Last(stack)
          /\ Last(stack) \in Value
      BY <1>4, <1>5, <1>8, <2>1
    <3>2. QED
      BY <1>7, <1>10, <1>11, <3>1 DEF Allocates, t
  <2>2. CASE pc \notin Converted /\ new = t
    BY <1>5, <1>6, <1>7, <1>10, <1>11, <2>2 DEF Allocates, t
  <2>3. CASE pc \notin Converted /\ t.kind = "alloc_dyn" /\ new.kind = "drop"
    <3>1. NewIndex(pc) \in removed /\ Last(stack) \in Value
      BY <1>5, <1>9, <2>3
    <3>2. QED
      BY <1>7, <1>10, <1>11, <2>3, <3>1 DEF Allocates, t
  <2>4. QED
    BY <1>4, <2>1, <2>2, <2>3

LEMMA SizesStep ==
    ASSUME ConstInv, PassTokens, Executing, SizesInv, [Next]_vars
    PROVE  SizesInv'
<1>1. CASE Passes
  <2>1. UNCHANGED runVars /\ phase # "run"
    BY <1>1 DEF Passes, Propagate, EndOfRound, StaticArrayOpt, DynamicArrayAllocOpt, Analyse
  <2>2. size' = [a \in Arrays |-> 0] /\ optSize' = [a \in Arrays |-> 0]
    BY <2>1 DEF Executing, runVars
  <2>3. 0 \in Value
    BY DEF Value
  <2>4. QED
    BY <2>2, <2>3 DEF SizesInv, SameSize
<1>2. CASE Execute
  <2>1. /\ program' = program /\ constIn' = constIn /\ removed' = removed
        /\ ProgramInv /\ RemovedFacts /\ Len(program) \in Nat
        /\ pc \in 1 .. Len(program) /\ (pc' = End \/ pc' \in NextOf(program, pc))
        /\ size' = Allocated(size, program[pc]) /\ optSize' = Allocated(optSize, tokens[NewIndex(pc)])
    <3>1. /\ phase = "run" /\ program' = program /\ constIn' = constIn /\ removed' = removed
          /\ size' = Allocated(size, program[pc]) /\ optSize' = Allocated(optSize, tokens[NewIndex(pc)])
      BY <1>2 DEF Execute, constVars
    <3>2. ProgramInv
      BY DEF ConstInv
    <3>3. pc \in 1 .. Len(program) /\ (pc' = End \/ pc' \in NextOf(program, pc))
      BY <1>2, ExecuteMoves
    <3>4. QED
      BY <3>1, <3>2, <3>3, ProgramFacts DEF PassTokens
  <2>2. size' \in [Arrays -> Value] /\ optSize' \in [Arrays -> Value]
    <3>1. size' = [a \in Arrays |-> size'[a]] /\ optSize' = [a \in Arrays |-> optSize'[a]]
      BY <2>1 DEF Allocated, SizesInv
    <3>2. \A a \in Arrays : size'[a] \in Value /\ optSize'[a] \in Value
      BY <1>2, SizesMove
    <3>3. QED
      BY <3>1, <3>2
  <2>3. ASSUME NEW a \in Arrays, size'[a] # optSize'[a]
        PROVE  Diverging(a)'
    <3>1. CASE Allocates(program[pc]) /\ program[pc].name = a
      <4>1. NewIndex(pc) \in removed /\ program[pc].kind = "alloc_dyn"
        BY <1>2, <2>3, <3>1, SizesMove
      <4>2. ASSUME Converted = {}, pc' < End
            PROVE  \E j \in 1 .. Len(program) : pc \in removed /\ Unneeded(pc, j) /\ pc' \in Region(pc, j)
        <5>1. pc \in removed
          BY <2>1, <4>1, <4>2, NoneConverted
        <5>2. PICK j \in 1 .. Len(program) : Unneeded(pc, j)
          BY <2>1, <4>2, <5>1 DEF RemovedFacts
        <5>3. pc' \in NextOf(program, pc)
          BY <2>1, <4>2 DEF End
        <5> DEFINE i == pc
                   k == pc'
        <5>4. i \in 1 .. Len(program) /\ Unneeded(i, j) /\ k \in NextOf(program, i)
          BY <2>1, <5>2, <5>3
        <5> HIDE DEF i, k
        <5>5. k \in Region(i, j)
          BY <2>1, <5>4, RegionEntered
        <5>6. QED
          BY <5>1, <5>2, <5>5 DEF i, k
      <4>3. QED
        BY <2>1, <3>1, <4>1, <4>2, SameRegion DEF Diverging
    <3>2. CASE ~(Allocates(program[pc]) /\ program[pc].name = a)
      <4>1. size[a] # optSize[a]
        BY <1>2, <2>3, <3>2, SizesMove
      <4>2. Diverging(a)
        BY <4>1 DEF SizesInv, SameSize
      <4>3. ASSUME Converted = {}, pc' < End
            PROVE  \E i, j \in 1 .. Len(program) :
                       i \in removed /\ program[i].name = a /\ Unneeded(i, j) /\ pc' \in Region(i, j)
        <5>1. PICK i \in 1 .. Len(program), j \in 1 .. Len(program) :
                  i \in removed /\ program[i].name = a /\ Unneeded(i, j) /\ pc \in Region(i, j)
          <6>1. pc < End
            BY <2>1 DEF End
          <6>2. QED
            BY <4>2, <4>3, <6>1 DEF Diverging
        <5>2. pc # j
          BY <3>2, <5>1 DEF Unneeded, Allocates
        <5>3. pc' \in NextOf(program, pc)
          BY <2>1, <4>3 DEF End
        <5> DEFINE k == pc
                   m == pc'
        <5>4. k \in Region(i, j) /\ k # j /\ m \in NextOf(program, k)
          BY <5>1, <5>2, <5>3
        <5> HIDE DEF k, m
        <5>5. m \in Region(i, j)
          BY <2>1, <5>4, RegionKept
        <5>6. QED
          BY <5>1, <5>5 DEF m
      <4>4. QED
        BY <2>1, <4>2, <4>3, SameRegion DEF Diverging
    <3>3. QED
      BY <3>1, <3>2
  <2>4. QED
    BY <2>2, <2>3 DEF SizesInv, SameSize
<1>3. CASE UNCHANGED vars
  <2>1. /\ program' = program /\ constIn' = constIn /\ removed' = removed /\ pc' = pc
        /\ size' = size /\ optSize' = optSize
    BY <1>3 DEF vars
  <2>2. \A a \in Arrays : Diverging(a) => Diverging(a)'
    BY <2>1, SameRegion DEF Diverging
  <2>3. QED
    BY <2>1, <2>2 DEF SizesInv, SameSize
<1>4. QED
  BY <1>1, <1>2, <1>3 DEF Next

THEOREM SizesInvAlways == Spec => []SizesInv
<1>1. Init => SizesInv
  <2> SUFFICES ASSUME Init PROVE SizesInv
    OBVIOUS
  <2>1. 0 \in Value
    BY DEF Value
  <2>2. QED
    BY <2>1 DEF Init, SizesInv, SameSize
<1>2. ConstInv /\ PassTokens /\ Executing /\ SizesInv /\ [Next]_vars => SizesInv'
  BY SizesStep
<1>3. QED
  BY <1>1, <1>2, ConstAlways, TokensAlways, ExecutingAlways, PTL DEF Spec

\* The passes keep the sizes of arrays at every access, but for the allocations that are misjudged:
\* between a removed allocation and the next one the array is not accessed, and the constants that
\* replace sizes are what the execution finds on its stack.
THEOREM SizesAlwaysAgreeOrMisjudged == Spec => []SizesAgree
<1>1. ConstInv /\ PassTokens /\ Executing /\ SizesInv => SizesAgree
  <2> SUFFICES ASSUME ConstInv, PassTokens, Executing, SizesInv, NEW a \in Arrays, Accesses(a), ~SameSize(a)
               PROVE  Misjudged(a)
    BY DEF SizesAgree
  <2>1. phase = "run" /\ pc < End /\ AccessTo(a, program[pc]) /\ ProgramInv
    BY DEF Accesses, ConstInv
  <2>2. Diverging(a)
    BY DEF SizesInv
  <2>3. CASE Converted # {}
    BY <2>2, <2>3 DEF Diverging, Misjudged
  <2>4. CASE Converted = {}
    <3>1. PICK i \in 1 .. Len(program), j \in 1 .. Len(program) :
              i \in removed /\ program[i].name = a /\ Unneeded(i, j) /\ pc \in Region(i, j)
      BY <2>1, <2>2, <2>4 DEF Diverging
    <3> DEFINE k == pc
    <3>2. k \in Region(i, j) /\ AccessTo(program[i].name, program[k])
      BY <2>1, <3>1
    <3> HIDE DEF k
    <3>3. OnCycle(i) /\ k \in BlockOf(i) .. i - 1
      BY <2>1, <3>1, <3>2, RegionAccess
    <3>4. NewIndex(i) \in removed
      BY <2>1, <2>4, <3>1, NoneConverted
    <3>5. BlockOf(i) \in Blocks /\ BlockOf(i) <= i /\ i <= LastOf(BlockOf(i))
      BY <2>1, OneBlock
    <3>6. QED
      BY <3>1, <3>2, <3>3, <3>4, <3>5 DEF Misjudged
  <2>5. QED
    BY <2>3, <2>4
<1>2. QED
  BY <1>1, ConstAlways, TokensAlways, ExecutingAlways, SizesInvAlways, PTL

-------------------------------------------------------------------------------
(* Programs that are rejected *)

\* Where a path through the tokens of the passes is, in the program.
LEMMA ReachBack ==
    ASSUME ProgramInv, NEW q, Moved(q), NEW from \in SUBSET (1 .. Len(q)), NEW Q,
           NEW S \in SUBSET (1 .. Len(program)), NEW P, ClosedUnder(program, S, P),
           \A k \in S : k \in P => NewIndex(k) \in Q,
           \A y \in from : \E k \in S : y = NewStart(k)
    PROVE  \A y \in ReachableFrom(q, from, Q) : \E k \in S : y = NewStart(k) \/ y = NewIndex(k)
<1> DEFINE T == {y \in 1 .. Len(q) : \E k \in S : y = NewStart(k) \/ y = NewIndex(k)}
<1>1. Linked(q)
  BY MovedPaths
<1>2. from \subseteq T
  OBVIOUS
<1>3. ASSUME NEW k \in S
      PROVE  NewIndex(k) \in 1 .. Len(q) /\ NewStart(k) \in 1 .. Len(q)
  BY IndexTypes DEF Moved
<1>4. ASSUME NEW y \in T, y \notin Q PROVE NextOf(q, y) \subseteq T
  <2>1. PICK k \in S : y = NewStart(k) \/ y = NewIndex(k)
    OBVIOUS
  <2>2. k \in 1 .. Len(program)
    OBVIOUS
  <2>3. CASE k \in Converted /\ y = NewStart(k)
    <3>1. NextOf(q, y) = {NewIndex(k)}
      BY <2>3, MovedPaths
    <3>2. QED
      BY <1>3, <3>1
  <2>4. CASE y = NewIndex(k)
    <3>1. k \notin P
      BY <1>4, <2>4
    <3>2. NextOf(program, k) \subseteq S
      BY <3>1 DEF ClosedUnder
    <3>3. NextOf(q, y) = {NewStart(m) : m \in NextOf(program, k)}
      BY <2>2, <2>4, MovedPaths
    <3>4. QED
      BY <1>3, <3>2, <3>3
  <2>5. k \in Converted \/ NewStart(k) = NewIndex(k)
    BY <2>2, IndexTypes
  <2>6. QED
    BY <2>1, <2>3, <2>4, <2>5
<1>5. ClosedUnder(q, T, Q)
  BY <1>4 DEF ClosedUnder
<1> HIDE DEF T
<1>6. ReachableFrom(q, from, Q) \subseteq T
  BY <1>1, <1>2, <1>5, ReachIsLeast
<1>7. QED
  BY <1>6 DEF T

\* Allocations and accesses there are those of the program.
LEMMA MovedBack ==
    ASSUME ProgramInv, NEW q, Moved(q), NEW k \in 1 .. Len(program), NEW y, y = NewStart(k) \/ y = NewIndex(k)
    PROVE  /\ Allocates(q[y]) => /\ y = NewIndex(k) /\ Allocates(program[k]) /\ program[k].name = q[y].name
                                 /\ k \in Converted \/ q[y] = program[k]
           /\ \A a : AccessTo(a, q[y]) => AccessTo(a, program[k]) /\ y = NewIndex(k)
<1>1. k \in Converted \/ NewStart(k) = NewIndex(k)
  BY IndexTypes
<1>2. CASE k \in Converted
  <2>1. q[NewStart(k)].kind = "drop" /\ q[NewIndex(k)].kind = "alloc_static" /\ q[NewIndex(k)].name = program[k].name
    BY <1>2, InsertedFacts, NewToken DEF Moved
  <2>2. Allocates(program[k])
    BY <1>2, ConvertedKind DEF Allocates
  <2>3. QED
    BY <1>2, <2>1, <2>2 DEF Allocates, AccessTo
<1>3. CASE k \notin Converted
  <2>1. q[y] = program[k] \/ q[y].kind = "drop"
    BY <1>1, <1>3, NewToken
  <2>2. QED
    BY <1>1, <1>3, <2>1 DEF Allocates, AccessTo
<1>4. QED
  BY <1>2, <1>3

\* The first token has no arguments.
LEMMA FirstKept ==
    ASSUME ProgramInv, Typed(program)
    PROVE  1 \notin Converted /\ NewStart(1) = 1 /\ (1 <= Len(program) => NewIndex(1) = 1)
<1>1. Len(program) \in Nat
  BY ProgramFacts
<1>2. 1 \notin Converted
  <2> SUFFICES ASSUME 1 \in Converted PROVE FALSE
    OBVIOUS
  <2>1. program[1].arity = 1 /\ 1 \in 1 .. Len(program)
    BY ConvertedKind
  <2>2. DepthAt(program, 1) = 0 /\ DepthAt(program, 1) >= program[1].arity
    BY <2>1, DepthNext
  <2>3. QED
    BY <2>1, <2>2
<1>3. NewStart(1) = 1
  <2>1. 1 \in 1 .. Len(program) + 1 /\ 1 - 1 = 0
    BY <1>1
  <2>2. NewStart(1) = NewIndex(1 - 1) + 1
    BY <2>1, NewIndexStep
  <2>3. NewIndex(0) = 0
    BY NewIndexOrder
  <2>4. QED
    BY <2>1, <2>2, <2>3
<1>4. QED
  BY <1>2, <1>3 DEF NewStart

\* What constant propagation rejects.
LEMMA DepthsRejected ==
    ASSUME ConstInv, phase = "const", block < End, DepthsDiffer(block), Typed(program)
    PROVE  \E b \in Blocks : \E x \in Depths(program) :
               x[1] = b /\ x[2] > 0 /\ \E c \in Predecessors(b) : c >= b
<1>1. /\ ProgramInv /\ ConstFacts(constIn, constOut, Done) /\ Len(program) \in Nat
      /\ block \in Blocks \cup {End} /\ \A c \in Blocks \ Done : constOut[c] = <<>>
  BY ProgramFacts DEF ConstInv
<1>2. block \in Blocks /\ block \in 1 .. Len(program)
  <2>1. block # End
    <3>1. End \in Int
      BY <1>1 DEF End
    <3>2. QED
      BY <3>1
  <2>2. QED
    BY <1>1, <2>1, BlockEnd
<1>3. PICK c \in Predecessors(block), d \in Predecessors(block) : Len(constOut[c]) # Len(constOut[d])
  BY DEF DepthsDiffer
<1>4. ASSUME NEW e \in Predecessors(block)
      PROVE  /\ e \in Done => Len(constOut[e]) = DepthAt(program, block)
             /\ e \notin Done => Len(constOut[e]) = 0 /\ e >= block
  <2>1. e \in Blocks /\ e \in 1 .. Len(program) /\ block \in NextOf(program, LastOf(e)) /\ LastOf(e) \in 1 .. Len(program)
    BY <1>1, BlockEnd DEF Predecessors, SuccessorSet
  <2>2. ASSUME e \in Done PROVE Len(constOut[e]) = DepthAt(program, block)
    <3>1. Len(constOut[e]) = OutDepth(e)
      BY <1>1, <2>2 DEF ConstFacts
    <3>2. DepthAt(program, block) = DepthAt(program, LastOf(e)) + program[LastOf(e)].effect
      BY <1>1, <2>1, DepthNext
    <3>3. QED
      BY <3>1, <3>2 DEF OutDepth
  <2>3. ASSUME e \notin Done PROVE Len(constOut[e]) = 0 /\ e >= block
    <3>1. constOut[e] = <<>>
      BY <1>1, <2>1, <2>3
    <3>2. ~(e < block)
      BY <2>1, <2>3 DEF Done
    <3>3. QED
      BY <1>2, <2>1, <3>1, <3>2
  <2>4. QED
    BY <2>2, <2>3
<1>5. DepthAt(program, block) \in Nat /\ <<block, DepthAt(program, block)>> \in Depths(program)
  <2>1. Shaped(program)
    BY <1>1, ProgramShaped
  <2>2. QED
    BY <1>2, <2>1, TypedDepths
<1>6. DepthAt(program, block) > 0 /\ \E e \in Predecessors(block) : e >= block
  <2>1. (c \in Done /\ d \notin Done) \/ (c \notin Done /\ d \in Done)
    BY <1>3, <1>4
  <2>2. DepthAt(program, block) # 0
    BY <1>3, <1>4, <2>1
  <2>3. QED
    BY <1>4, <1>5, <2>1, <2>2
<1> DEFINE x == <<block, DepthAt(program, block)>>
<1>7. x[1] = block /\ x[2] = DepthAt(program, block)
  OBVIOUS
<1>8. QED
  BY <1>2, <1>5, <1>6, <1>7

\* The allocations that nothing may repeat are those of the program, and those of conversions.
LEMMA OnceRejected ==
    ASSUME ProgramInv, NEW q, Moved(q), Typed(program), AllocatedOnce(program), ~AllocatedOnce(q)
    PROVE  \E i \in Converted : OnCycle(i)
<1>1. PICK x \in 1 .. Len(q) : /\ q[x].kind = "alloc_static"
                               /\ ~(AllocationsOf(q, q[x].name) \cap ReachableFrom(q, NextOf(q, x) \ {1}, {1}) \subseteq {1})
  BY DEF AllocatedOnce
<1> DEFINE a == q[x].name
           R == ReachableFrom(q, NextOf(q, x) \ {1}, {1})
<1>2. PICK y \in 1 .. Len(q) : Allocates(q[y]) /\ q[y].name = a /\ y \in R /\ y # 1
  BY <1>1 DEF AllocationsOf
<1>3. PICK i \in 1 .. Len(program) : x = NewStart(i) \/ x = NewIndex(i)
  <2>1. x \in 1 .. NewIndex(Len(program))
    BY DEF Moved
  <2>2. QED
    BY <2>1, IndexCases
<1>4. x = NewIndex(i) /\ Allocates(program[i]) /\ program[i].name = a /\ (i \in Converted \/ q[x] = program[i])
  <2>1. Allocates(q[x])
    BY <1>1 DEF Allocates
  <2>2. QED
    BY <1>3, <2>1, MovedBack
<1>5. Linked(q) /\ NextOf(q, x) = {NewStart(k) : k \in NextOf(program, i)}
  BY <1>4, MovedPaths
<1>6. 1 \notin Converted /\ NewStart(1) = 1 /\ NewIndex(1) = 1
  <2>1. 1 <= Len(program)
    BY <1>3, ProgramFacts
  <2>2. QED
    BY <2>1, FirstKept
<1>7. ASSUME NEW S \in SUBSET (1 .. Len(program)), ClosedUnder(program, S, {1}), NextOf(program, i) \ {1} \subseteq S
      PROVE  \E k \in S : y = NewIndex(k) /\ Allocates(program[k]) /\ program[k].name = a
  <2>1. NextOf(q, x) \ {1} \in SUBSET (1 .. Len(q))
    BY <1>5 DEF Linked
  <2>2. \A z \in NextOf(q, x) \ {1} : \E k \in S : z = NewStart(k)
    BY <1>5, <1>6, <1>7
  <2>3. \A k \in S : k \in {1} => NewIndex(k) \in {1}
    BY <1>6
  <2>4. PICK k \in S : y = NewStart(k) \/ y = NewIndex(k)
    <3> DEFINE from == NextOf(q, x) \ {1}
    <3>1. from \in SUBSET (1 .. Len(q)) /\ (\A z \in from : \E k \in S : z = NewStart(k)) /\ R = ReachableFrom(q, from, {1})
      BY <2>1, <2>2
    <3> HIDE DEF from, R
    <3>2. QED
      BY <1>2, <1>7, <2>3, <3>1, ReachBack
  <2>5. QED
    BY <1>2, <2>4, MovedBack
<1>8. NextOf(program, i) \in SUBSET (1 .. Len(program)) /\ NextOf(program, i) \ {1} \in SUBSET (1 .. Len(program))
  BY ProgramFacts
<1>9. CASE i \in Converted
  <2> DEFINE S == ReachableFrom(program, NextOf(program, i), {})
  <2>1. S \in SUBSET (1 .. Len(program)) /\ ClosedUnder(program, S, {}) /\ NextOf(program, i) \subseteq S
    BY <1>8, PathFacts
  <2>2. ClosedUnder(program, S, {1})
    BY <2>1 DEF ClosedUnder
  <2>3. PICK k \in S : y = NewIndex(k) /\ Allocates(program[k]) /\ program[k].name = a
    <3> HIDE DEF S
    <3>1. QED
      BY <1>7, <2>1, <2>2
  <2>4. k = i
    <3> DEFINE A == {m \in 1 .. Len(program) : Allocates(program[m]) /\ program[m].name = a}
    <3>1. Cardinality(A) = 1
      BY <1>4, <1>9 DEF Converted, AllocCount
    <3>2. IsFiniteSet(A)
      <4>1. IsFiniteSet(1 .. Len(program))
        BY ProgramFacts, FS_Interval
      <4>2. QED
        BY <4>1, FS_Subset
    <3>3. PICK z : A = {z}
      <4> HIDE DEF A
      <4>1. QED
        BY <3>1, <3>2, FS_Singleton
    <3>4. i \in A /\ k \in A
      BY <1>4, <2>1, <2>3
    <3>5. QED
      BY <3>3, <3>4
  <2>5. QED
    BY <1>9, <2>3, <2>4 DEF OnCycle
<1>10. CASE i \notin Converted
  <2> DEFINE S == ReachableFrom(program, NextOf(program, i) \ {1}, {1})
  <2>1. S \in SUBSET (1 .. Len(program)) /\ ClosedUnder(program, S, {1}) /\ NextOf(program, i) \ {1} \subseteq S
    BY <1>8, PathFacts
  <2>2. PICK k \in S : y = NewIndex(k) /\ Allocates(program[k]) /\ program[k].name = a
    <3> HIDE DEF S
    <3>1. QED
      BY <1>7, <2>1
  <2>3. program[i].kind = "alloc_static"
    BY <1>1, <1>4, <1>10
  <2>4. AllocationsOf(program, program[i].name) \cap S \subseteq {1}
    BY <2>3 DEF AllocatedOnce
  <2>5. k \in AllocationsOf(program, program[i].name) \cap S
    BY <1>4, <2>1, <2>2 DEF AllocationsOf
  <2>6. k = 1
    BY <2>4, <2>5
  <2>7. QED
    BY <1>2, <1>6, <2>2, <2>6
<1>11. QED
  BY <1>9, <1>10

\* An access that no allocation precedes is behind one that was removed and is missed.
LEMMA MissedRejected ==
    ASSUME ProgramInv, RemovedFacts, Typed(program), Initialised(program), ~Initialised(PassedTokens)
    PROVE  \E a \in Arrays : Misjudged(a)
<1> DEFINE q == PassedTokens
<1>1. Moved(q) /\ Len(q) \in Nat /\ Linked(q) /\ Len(program) \in Nat
  BY PassedMoved, MovedTokens, MovedPaths, ProgramFacts
<1>2. PICK a \in Accessed(q) : ReachableFrom(q, {1}, AllocationsOf(q, a)) \cap AccessesTo(q, a) # {}
  BY DEF Initialised
<1>3. PICK y \in 1 .. Len(q) : AccessTo(a, q[y]) /\ y \in ReachableFrom(q, {1}, AllocationsOf(q, a))
  BY <1>2 DEF AccessesTo
<1> DEFINE Removed == {i \in 1 .. Len(program) : NewIndex(i) \in removed /\ program[i].name = a}
           P == AllocationsOf(program, a) \ Removed
           U == ReachableFrom(program, {1}, AllocationsOf(program, a))
<1> HIDE DEF q
<1>4. 1 \in 1 .. Len(program) /\ NewStart(1) = 1 /\ {1} \in SUBSET (1 .. Len(q)) /\ {1} \in SUBSET (1 .. Len(program))
  <2>1. NewStart(1) = 1
    BY FirstKept
  <2>2. 1 \in 1 .. Len(q)
    BY <1>1
  <2>3. Len(program) # 0
    <3>1. Len(q) = NewIndex(Len(program)) /\ NewIndex(0) = 0
      BY <1>1, NewIndexOrder DEF Moved
    <3>2. QED
      BY <2>2, <3>1
  <2>4. QED
    BY <1>1, <2>1, <2>2, <2>3
<1>5. ASSUME NEW k \in 1 .. Len(program), k \in P PROVE NewIndex(k) \in AllocationsOf(q, a)
  <2>1. Allocates(program[k]) /\ program[k].name = a /\ NewIndex(k) \notin removed
    BY <1>5 DEF AllocationsOf
  <2>2. NewIndex(k) \in 1 .. Len(q) /\ NewIndex(k) \in 1 .. NewIndex(Len(program))
    BY <1>1, IndexTypes DEF Moved
  <2>3. CASE k \in Converted
    <3>1. q[NewIndex(k)].kind = "alloc_static" /\ q[NewIndex(k)].name = program[k].name
      BY <1>1, <2>3, NewToken
    <3>2. QED
      BY <2>1, <2>2, <3>1 DEF AllocationsOf, Allocates
  <2>4. CASE k \notin Converted
    <3>1. StaticTokens[NewIndex(k)] = program[k]
      BY <2>4, StaticMoved
    <3>2. q[NewIndex(k)] = program[k]
      BY <2>1, <2>2, <3>1 DEF q, PassedTokens
    <3>3. QED
      BY <2>1, <2>2, <3>2 DEF AllocationsOf
  <2>5. QED
    BY <2>3, <2>4
<1>6. ASSUME NEW S \in SUBSET (1 .. Len(program)), ClosedUnder(program, S, P), 1 \in S
      PROVE  \E k \in S : AccessTo(a, program[k])
  <2> DEFINE Q == AllocationsOf(q, a)
  <2>1. \A k \in S : k \in P => NewIndex(k) \in Q
    BY <1>5
  <2>2. \A z \in {1} : \E k \in S : z = NewStart(k)
    BY <1>4, <1>6
  <2>3. y \in ReachableFrom(q, {1}, Q)
    BY <1>3
  <2> HIDE DEF P, Q
  <2>4. PICK k \in S : y = NewStart(k) \/ y = NewIndex(k)
    <3> DEFINE from == {1}
    <3>1. from \in SUBSET (1 .. Len(q)) /\ (\A z \in from : \E k \in S : z = NewStart(k)) /\ y \in ReachableFrom(q, from, Q)
      BY <1>4, <2>2, <2>3
    <3> HIDE DEF from
    <3>2. QED
      BY <1>1, <1>6, <2>1, <3>1, ReachBack
  <2>5. QED
    BY <1>1, <1>3, <2>4, MovedBack
<1>7. U \in SUBSET (1 .. Len(program)) /\ 1 \in U /\ ClosedUnder(program, U, AllocationsOf(program, a))
  BY <1>4, PathFacts
<1>8. \A k \in U : ~AccessTo(a, program[k])
  <2> SUFFICES ASSUME NEW k \in U, AccessTo(a, program[k]) PROVE FALSE
    OBVIOUS
  <2>1. k \in 1 .. Len(program) /\ program[k].name = a
    BY <1>7 DEF AccessTo
  <2>2. a \in Accessed(program) /\ k \in AccessesTo(program, a)
    BY <2>1 DEF Accessed, AccessesTo
  <2>3. QED
    BY <2>2 DEF Initialised
<1>9. a \in Arrays
  <2>1. PICK k \in 1 .. Len(program) : AccessTo(a, program[k])
    <3>1. PICK k \in 1 .. Len(program) : y = NewStart(k) \/ y = NewIndex(k)
      <4>1. y \in 1 .. NewIndex(Len(program))
        BY <1>1 DEF Moved
      <4>2. QED
        BY <4>1, IndexCases
    <3>2. QED
      BY <1>1, <1>3, <3>1, MovedBack
  <2>2. IsTok(program[k])
    BY ProgramTokens
  <2>3. QED
    BY <2>1, <2>2, TokenFacts DEF IsTok, AccessTo
<1>10. Removed # {}
  <2> SUFFICES ASSUME Removed = {} PROVE FALSE
    OBVIOUS
  <2>1. P = AllocationsOf(program, a)
    OBVIOUS
  <2> HIDE DEF P, U
  <2>2. \E k \in U : AccessTo(a, program[k])
    BY <1>6, <1>7, <2>1
  <2>3. QED
    BY <1>8, <2>2
<1>11. CASE Converted # {}
  BY <1>9, <1>10, <1>11 DEF Misjudged
<1>12. CASE Converted = {}
  <2> DEFINE V == {m \in 1 .. Len(program) : \E i \in Removed, j \in 1 .. Len(program) : Unneeded(i, j) /\ m \in Region(i, j)}
             S == U \cup V
  <2>1. ASSUME NEW i \in Removed
        PROVE  i \in 1 .. Len(program) /\ NextOf(program, i) \subseteq V
    <3>1. i \in 1 .. Len(program) /\ NewIndex(i) = i /\ i \in removed
      BY <1>12, NoneConverted
    <3>2. PICK j \in 1 .. Len(program) : Unneeded(i, j)
      BY <1>12, <3>1 DEF RemovedFacts
    <3>3. \A m \in NextOf(program, i) : m \in Region(i, j) /\ m \in 1 .. Len(program)
      BY <3>1, <3>2, RegionEntered, ProgramFacts
    <3>4. QED
      BY <3>1, <3>2, <3>3
  <2>2. ASSUME NEW k \in S, k \notin P
        PROVE  NextOf(program, k) \subseteq S
    <3>1. CASE k \in Removed
      BY <2>1, <3>1
    <3>2. CASE k \notin Removed /\ k \in U
      <4>1. k \notin AllocationsOf(program, a)
        BY <2>2, <3>2
      <4> HIDE DEF U
      <4>2. NextOf(program, k) \subseteq U
        BY <1>7, <3>2, <4>1 DEF ClosedUnder
      <4>3. QED
        BY <4>2
    <3>3. CASE k \notin Removed /\ k \in V
      <4>1. k \in 1 .. Len(program)
        BY <3>3
      <4>2. PICK i \in Removed, j \in 1 .. Len(program) : Unneeded(i, j) /\ k \in Region(i, j)
        BY <3>3
      <4>3. k # j
        <5> SUFFICES ASSUME k = j PROVE FALSE
          OBVIOUS
        <5>1. k \in AllocationsOf(program, a)
          BY <4>1, <4>2 DEF Unneeded, Allocates, AllocationsOf
        <5>2. QED
          BY <2>2, <3>3, <5>1
      <4>4. i \in 1 .. Len(program)
        BY <2>1
      <4>5. \A m \in NextOf(program, k) : m \in Region(i, j) /\ m \in 1 .. Len(program)
        BY <4>1, <4>2, <4>3, <4>4, RegionKept, ProgramFacts
      <4>6. QED
        BY <4>2, <4>5
    <3>4. QED
      BY <3>1, <3>2, <3>3
  <2>3. S \in SUBSET (1 .. Len(program)) /\ 1 \in S
    BY <1>7
  <2>4. ClosedUnder(program, S, P)
    BY <2>2 DEF ClosedUnder
  <2>5. PICK k \in S : AccessTo(a, program[k])
    <3> HIDE DEF S, P
    <3>1. QED
      BY <1>6, <2>3, <2>4
  <2>6. k \in V
    BY <1>8, <2>5
  <2>7. PICK i \in Removed, j \in 1 .. Len(program) : Unneeded(i, j) /\ k \in Region(i, j)
    BY <2>6
  <2>8. i \in 1 .. Len(program) /\ program[i].name = a /\ NewIndex(i) \in removed
    OBVIOUS
  <2>9. OnCycle(i) /\ k \in BlockOf(i) .. i - 1
    BY <2>5, <2>7, <2>8, RegionAccess
  <2>10. BlockOf(i) \in Blocks /\ BlockOf(i) <= i /\ i <= LastOf(BlockOf(i))
    BY <2>8, OneBlock
  <2>11. Misjudged(a)
    BY <2>5, <2>8, <2>9, <2>10 DEF Misjudged
  <2>12. QED
    BY <1>9, <2>11
<1>13. QED
  BY <1>11, <1>12

\* Why a program may be rejected that is valid as it is written.
Excused ==
    \/ \E b \in Blocks : \E x \in Depths(program) :
           x[1] = b /\ x[2] > 0 /\ \E c \in Predecessors(b) : c >= b
    \/ \E i \in Converted : OnCycle(i)
    \/ \E a \in Arrays : Misjudged(a)

LEMMA SameExcuse ==
    ASSUME program' = program, constIn' = constIn, removed' = removed, Excused
    PROVE  Excused'
<1>1. CASE \E b \in Blocks : \E x \in Depths(program) :
               x[1] = b /\ x[2] > 0 /\ \E c \in Predecessors(b) : c >= b
  <2>1. Depths(program)' = Depths(program)
    OBVIOUS
  <2>2. QED
    BY <1>1, <2>1, SameProgram DEF Excused
<1>2. \A i : OnCycle(i)' = OnCycle(i)
  BY DEF OnCycle
<1>3. CASE \E i \in Converted : OnCycle(i)
  BY <1>2, <1>3, SameWalk DEF Excused
<1>4. CASE \E a \in Arrays : Misjudged(a)
  <2>1. PICK a \in Arrays : Misjudged(a)
    BY <1>4
  <2>2. Misjudged(a)'
    BY <1>2, <2>1, SameWalk, SameProgram DEF Misjudged
  <2>3. QED
    BY <2>2 DEF Excused
<1>5. QED
  BY <1>1, <1>3, <1>4 DEF Excused

LEMMA AcceptedStep ==
    ASSUME ConstInv, PassTokens, ValidProgramsAccepted, [Next]_vars
    PROVE  ValidProgramsAccepted'
<1>1. ASSUME phase' = "rejected", Valid(program)', program' = program, constIn' = constIn, removed' = removed, Excused
      PROVE  ValidProgramsAccepted'
  BY <1>1, SameExcuse DEF ValidProgramsAccepted, Excused
<1>2. CASE Propagate
  <2>1. CASE phase' = "rejected"
    <3>1. /\ phase = "const" /\ block < End /\ program' = program /\ removed' = removed
          /\ DepthsDiffer(block) /\ constIn' = constIn
      BY <1>2, <2>1 DEF Propagate, constVars
    <3>2. ASSUME Valid(program)' PROVE Excused
      <4>1. Typed(program)
        BY <3>1, <3>2 DEF Valid
      <4>2. QED
        BY <3>1, <4>1, DepthsRejected DEF Excused
    <3>3. CASE Valid(program)'
      BY <1>1, <2>1, <3>1, <3>2, <3>3
    <3>4. CASE ~Valid(program)'
      BY <3>4 DEF ValidProgramsAccepted
    <3>5. QED
      BY <3>3, <3>4
  <2>2. CASE phase' # "rejected"
    BY <2>2 DEF ValidProgramsAccepted
  <2>3. QED
    BY <2>1, <2>2
<1>3. CASE EndOfRound \/ StaticArrayOpt \/ DynamicArrayAllocOpt \/ Execute
  <2>1. phase' # "rejected"
    BY <1>3 DEF EndOfRound, StaticArrayOpt, DynamicArrayAllocOpt, Execute
  <2>2. QED
    BY <2>1 DEF ValidProgramsAccepted
<1>4. CASE Analyse
  <2>1. /\ phase = "analyse" /\ program' = program /\ constIn' = constIn /\ removed' = removed
        /\ phase' = IF Valid(tokens) THEN "run" ELSE "rejected"
    BY <1>4 DEF Analyse, constVars
  <2>2. ProgramInv /\ tokens = PassedTokens /\ RemovedFacts
    BY <2>1 DEF ConstInv, PassTokens
  <2>3. ASSUME phase' = "rejected", Valid(program)' PROVE Excused
    <3>1. Typed(program) /\ Initialised(program) /\ AllocatedOnce(program)
      BY <2>1, <2>3 DEF Valid
    <3>2. ~Valid(tokens)
      BY <2>1, <2>3
    <3>3. Moved(PassedTokens)
      BY <2>2, PassedMoved
    <3>4. Typed(PassedTokens)
      BY <2>2, <3>1, <3>3, TypedForward
    <3>5. ~Initialised(PassedTokens) \/ ~AllocatedOnce(PassedTokens)
      BY <2>2, <3>2, <3>4 DEF Valid
    <3>6. CASE ~Initialised(PassedTokens)
      BY <2>2, <3>1, <3>6, MissedRejected DEF Excused
    <3>7. CASE ~AllocatedOnce(PassedTokens)
      BY <2>2, <3>1, <3>3, <3>7, OnceRejected DEF Excused
    <3>8. QED
      BY <3>5, <3>6, <3>7
  <2>4. CASE phase' = "rejected" /\ Valid(program)'
    BY <1>1, <2>1, <2>3, <2>4
  <2>5. CASE ~(phase' = "rejected" /\ Valid(program)')
    BY <2>5 DEF ValidProgramsAccepted
  <2>6. QED
    BY <2>4, <2>5
<1>5. CASE UNCHANGED vars
  <2>1. program' = program /\ constIn' = constIn /\ removed' = removed /\ phase' = phase
    BY <1>5 DEF vars
  <2>2. Valid(program)' <=> Valid(program)
    BY <2>1
  <2>3. CASE phase' = "rejected" /\ Valid(program)'
    <3>1. Excused
      BY <2>1, <2>2, <2>3 DEF ValidProgramsAccepted, Excused
    <3>2. QED
      BY <1>1, <2>1, <2>3, <3>1
  <2>4. CASE ~(phase' = "rejected" /\ Valid(program)')
    BY <2>4 DEF ValidProgramsAccepted
  <2>5. QED
    BY <2>3, <2>4
<1>6. QED
  BY <1>2, <1>3, <1>4, <1>5 DEF Next, Passes

\* A program that is valid as written is accepted, but for a loop that starts with values on the
\* stack, an allocation in a loop that was made static, and a removed allocation that is misjudged:
\* in every other case depths, allocations and accesses are where the program has them.
THEOREM ValidProgramsAlwaysAccepted == Spec => []ValidProgramsAccepted
<1>1. Init => ValidProgramsAccepted
  BY DEF Init, ValidProgramsAccepted
<1>2. ConstInv /\ PassTokens /\ ValidProgramsAccepted /\ [Next]_vars => ValidProgramsAccepted'
  BY AcceptedStep
<1>3. QED
  BY <1>1, <1>2, ConstAlways, TokensAlways, PTL DEF Spec

\* Removed tokens are tokens.
RemovedType ==
    /\ phase \in {"const", "static", "dynamic"} => removed = {}
    /\ removed \subseteq 1 .. Len(tokens)

THEOREM TypesAlwaysOK == Spec => []TypeOK
<1>1. Init => RemovedType
  BY DEF Init, RemovedType
<1>2. ConstInv /\ PassTokens /\ RemovedType /\ [Next]_vars => RemovedType'
  <2> SUFFICES ASSUME ConstInv, PassTokens, RemovedType, [Next]_vars PROVE RemovedType'
    OBVIOUS
  <2>1. CASE Propagate \/ EndOfRound \/ Analyse \/ Execute \/ UNCHANGED vars
    <3>1. removed' = removed /\ tokens' = tokens
      BY <2>1 DEF Propagate, EndOfRound, Analyse, Execute, vars
    <3>2. phase' \in {"const", "static", "dynamic"} => phase \in {"const", "static", "dynamic"}
      BY <2>1 DEF Propagate, EndOfRound, Analyse, Execute, vars
    <3>3. QED
      BY <3>1, <3>2 DEF RemovedType
  <2>2. CASE StaticArrayOpt
    <3>1. removed' = {}
      BY <2>2 DEF StaticArrayOpt, RemovedType
    <3>2. QED
      BY <3>1 DEF RemovedType
  <2>3. CASE DynamicArrayAllocOpt
    <3>1. phase = "dynamic" /\ phase' = "analyse" /\ removed' = Redundant
          /\ tokens' = [i \in 1 .. Len(tokens) |-> IF i \in Redundant THEN Drop1 ELSE tokens[i]]
      BY <2>3 DEF DynamicArrayAllocOpt
    <3>2. tokens = StaticTokens /\ ProgramInv
      BY <3>1 DEF PassTokens, ConstInv
    <3>3. Len(tokens) \in Nat
      BY <3>2, StaticMoved, NewIndexOrder, ProgramFacts DEF Moved
    <3>4. Len(tokens') = Len(tokens)
      BY <3>1, <3>3
    <3>5. Redundant \subseteq 1 .. Len(tokens)
      BY DEF Redundant, DynamicAllocations
    <3>6. QED
      BY <3>1, <3>4, <3>5 DEF RemovedType
  <2>4. QED
    BY <2>1, <2>2, <2>3 DEF Next, Passes
<1>3. ConstInv /\ Executing /\ SizesInv /\ RemovedType => TypeOK
  <2> SUFFICES ASSUME ConstInv, Executing, SizesInv, RemovedType PROVE TypeOK
    OBVIOUS
  <2>1. constIn \in [1 .. Len(program) -> Seq(Entry)] /\ constOut \in [1 .. Len(program) -> Seq(Entry)]
    BY DEF ConstInv, ConstFacts
  <2>2. ProgramInv /\ Len(program) \in Nat
    BY ProgramFacts DEF ConstInv
  <2>3. pc \in 1 .. End /\ stack \in Seq(Value)
    <3>1. 1 \in 1 .. End
      BY <2>2 DEF End
    <3>2. <<>> \in Seq(Value)
      OBVIOUS
    <3>3. QED
      BY <3>1, <3>2 DEF Executing
  <2>4. /\ phase \in {"const", "static", "dynamic", "analyse", "run", "rejected", "undefined"}
        /\ block \in Blocks \cup {1, End} /\ changed \in BOOLEAN /\ rounds \in 0 .. MaxRounds
    BY DEF ConstInv
  <2>5. QED
    BY <2>1, <2>3, <2>4 DEF TypeOK, Entry, SizesInv, RemovedType
<1>4. QED
  BY <1>1, <1>2, <1>3, ConstAlways, TokensAlways, ExecutingAlways, SizesInvAlways, PTL DEF Spec

================================================================================
