--------------------------- MODULE ArrayTokens_proofs ---------------------------
(***************************************************************************)
(* Facts about the paths of a program that the proofs about the filters    *)
(* and the optimisations of arrays share: what ReachableFrom computes is   *)
(* closed under the successors, and the least such set; and a recursion    *)
(* over indices has a solution.                                            *)
(***************************************************************************)
EXTENDS ArrayTokens, FiniteSetTheorems, WellFoundedInduction, TLAPS

(* What the closure of the successors computes *)

\* A set of numbers that is not empty has a least element.
LEMMA LeastOf ==
    ASSUME NEW T \in SUBSET Nat, T # {}
    PROVE  \E m \in T : \A k \in T : m <= k
<1> DEFINE less == {p \in Nat \X Nat : p[1] < p[2]}
<1>1. IsWellFoundedOn(less, Nat)
  BY NatLessThanWellFounded DEF OpToRel
<1>2. PICK m \in T : \A k \in T : ~(<<k, m>> \in less)
  <2> HIDE DEF less
  <2> QED
    BY <1>1, WFMin
<1>3. \A k \in T : ~(k < m)
  BY <1>2
<1> QED
  BY <1>3

\* Where the paths of at most n steps lead, that leave no token of stops.
PathsTo(p, from, stops, n) ==
    {x \in 1 .. Len(p) : \E m \in 0 .. n : \E f \in [0 .. m -> 1 .. Len(p)] :
        /\ f[0] \in from /\ f[m] = x
        /\ \A k \in 0 .. m - 1 : f[k] \notin stops /\ f[k + 1] \in NextOf(p, f[k])}

LEMMA StageZero ==
    ASSUME NEW p, NEW stops, Len(p) \in Nat, NEW from \in SUBSET (1 .. Len(p))
    PROVE  PathsTo(p, from, stops, 0) = from
<1>1. ASSUME NEW x \in from PROVE x \in PathsTo(p, from, stops, 0)
  <2> DEFINE f == [k \in 0 .. 0 |-> x]
  <2>1. f \in [0 .. 0 -> 1 .. Len(p)] /\ f[0] = x
    OBVIOUS
  <2> HIDE DEF f
  <2>2. QED
    BY <2>1 DEF PathsTo
<1>2. ASSUME NEW x \in PathsTo(p, from, stops, 0) PROVE x \in from
  <2>1. \E m \in 0 .. 0 : \E f \in [0 .. m -> 1 .. Len(p)] : f[0] \in from /\ f[m] = x
    BY <1>2 DEF PathsTo
  <2>2. QED
    BY <2>1
<1>3. QED
  BY <1>1, <1>2

LEMMA StageNext ==
    ASSUME NEW p, NEW stops, Len(p) \in Nat, NEW from \in SUBSET (1 .. Len(p)),
           \A i \in 1 .. Len(p) : NextOf(p, i) \subseteq 1 .. Len(p), NEW n \in Nat
    PROVE  PathsTo(p, from, stops, n + 1) = PathsTo(p, from, stops, n)
               \cup UNION {NextOf(p, i) : i \in PathsTo(p, from, stops, n) \ stops}
<1> DEFINE P(k) == PathsTo(p, from, stops, k)
<1>1. P(n) \subseteq P(n + 1)
  <2>1. 0 .. n \subseteq 0 .. n + 1
    OBVIOUS
  <2>2. QED
    BY <2>1 DEF PathsTo
<1>2. ASSUME NEW i \in P(n) \ stops, NEW x \in NextOf(p, i) PROVE x \in P(n + 1)
  <2>1. PICK m \in 0 .. n : \E f \in [0 .. m -> 1 .. Len(p)] :
            /\ f[0] \in from /\ f[m] = i
            /\ \A k \in 0 .. m - 1 : f[k] \notin stops /\ f[k + 1] \in NextOf(p, f[k])
    BY DEF PathsTo
  <2>2. PICK f \in [0 .. m -> 1 .. Len(p)] :
            /\ f[0] \in from /\ f[m] = i
            /\ \A k \in 0 .. m - 1 : f[k] \notin stops /\ f[k + 1] \in NextOf(p, f[k])
    BY <2>1
  <2> DEFINE g == [k \in 0 .. m + 1 |-> IF k = m + 1 THEN x ELSE f[k]]
  <2>3. i \in 1 .. Len(p) /\ x \in 1 .. Len(p)
    BY <1>2 DEF PathsTo
  <2>4. /\ g \in [0 .. m + 1 -> 1 .. Len(p)] /\ m + 1 \in 0 .. n + 1
        /\ g[0] = f[0] /\ g[m + 1] = x /\ \A k \in 0 .. m : g[k] = f[k]
    BY <2>3
  <2> HIDE DEF g
  <2>5. ASSUME NEW k \in 0 .. m PROVE g[k] \notin stops /\ g[k + 1] \in NextOf(p, g[k])
    <3>1. CASE k = m
      BY <1>2, <2>2, <2>4, <3>1
    <3>2. CASE k # m
      <4>1. k \in 0 .. m - 1 /\ k + 1 \in 0 .. m
        BY <3>2
      <4>2. QED
        BY <2>2, <2>4, <4>1
    <3>3. QED
      BY <3>1, <3>2
  <2>6. (m + 1) - 1 = m
    OBVIOUS
  <2>7. g[0] \in from /\ g[m + 1] = x /\ \A k \in 0 .. (m + 1) - 1 : g[k] \notin stops /\ g[k + 1] \in NextOf(p, g[k])
    BY <2>2, <2>4, <2>5, <2>6
  <2>8. QED
    BY <2>3, <2>4, <2>7 DEF PathsTo
<1>3. ASSUME NEW x \in P(n + 1), x \notin P(n) PROVE \E i \in P(n) \ stops : x \in NextOf(p, i)
  <2>1. PICK m \in 0 .. n + 1 : \E f \in [0 .. m -> 1 .. Len(p)] :
            /\ f[0] \in from /\ f[m] = x
            /\ \A k \in 0 .. m - 1 : f[k] \notin stops /\ f[k + 1] \in NextOf(p, f[k])
    BY DEF PathsTo
  <2>2. PICK f \in [0 .. m -> 1 .. Len(p)] :
            /\ f[0] \in from /\ f[m] = x
            /\ \A k \in 0 .. m - 1 : f[k] \notin stops /\ f[k + 1] \in NextOf(p, f[k])
    BY <2>1
  <2>3. m = n + 1
    <3>1. m \notin 0 .. n
      BY <1>3, <2>1 DEF PathsTo
    <3>2. QED
      BY <3>1
  <2> DEFINE g == [k \in 0 .. n |-> f[k]]
  <2>4. g \in [0 .. n -> 1 .. Len(p)] /\ \A k \in 0 .. n : g[k] = f[k]
    BY <2>3
  <2> HIDE DEF g
  <2>5. f[n] \in P(n)
    <3>1. f[n] \in 1 .. Len(p) /\ n \in 0 .. n /\ 0 \in 0 .. n
      BY <2>3
    <3>2. g[0] \in from /\ g[n] = f[n]
      BY <2>2, <2>4, <3>1
    <3>3. \A k \in 0 .. n - 1 : g[k] \notin stops /\ g[k + 1] \in NextOf(p, g[k])
      BY <2>2, <2>3, <2>4
    <3>4. QED
      BY <2>4, <3>1, <3>2, <3>3 DEF PathsTo
  <2>6. n \in 0 .. m - 1
    BY <2>3
  <2>7. QED
    BY <2>2, <2>3, <2>5, <2>6
<1>4. QED
  BY <1>1, <1>2, <1>3

\* Every jump of p has a target.
Linked(p) == Len(p) \in Nat /\ \A i \in 1 .. Len(p) : NextOf(p, i) \subseteq 1 .. Len(p)

\* r[n] is what is reached in n steps or fewer.
Extends(p, from, stops, r) ==
    r[0] = from /\ \A n \in Nat : r[n + 1] = r[n] \cup UNION {NextOf(p, i) : i \in r[n] \ stops}

\* The recursion has a solution: the paths of a given length give one.
LEMMA ReachedStep ==
    ASSUME NEW p, Linked(p), NEW stops, NEW from \in SUBSET (1 .. Len(p))
    PROVE  Extends(p, from, stops, Reached(p, from, stops))
<1> DEFINE g == [n \in Nat |-> PathsTo(p, from, stops, n)]
           Solves(f) == f = [n \in Nat |-> IF n = 0 THEN from
                             ELSE f[n - 1] \cup UNION {NextOf(p, i) : i \in f[n - 1] \ stops}]
<1>1. Solves(g)
  <2>1. ASSUME NEW n \in Nat
        PROVE  g[n] = IF n = 0 THEN from ELSE g[n - 1] \cup UNION {NextOf(p, i) : i \in g[n - 1] \ stops}
    <3>1. CASE n = 0
      BY <3>1, StageZero DEF Linked
    <3>2. CASE n # 0
      <4>1. n - 1 \in Nat /\ (n - 1) + 1 = n
        BY <3>2
      <4> DEFINE m == n - 1
      <4>2. m \in Nat /\ n = m + 1
        BY <4>1
      <4> HIDE DEF m
      <4>3. PathsTo(p, from, stops, m + 1) = PathsTo(p, from, stops, m)
               \cup UNION {NextOf(p, i) : i \in PathsTo(p, from, stops, m) \ stops}
        BY <4>2, StageNext DEF Linked
      <4>4. g[n] = g[m] \cup UNION {NextOf(p, i) : i \in g[m] \ stops}
        BY <4>2, <4>3
      <4>5. QED
        BY <3>2, <4>4 DEF m
    <3>3. QED
      BY <3>1, <3>2
  <2>2. QED
    BY <2>1
<1>2. Reached(p, from, stops) = CHOOSE f : Solves(f)
  BY DEF Reached
<1> HIDE DEF g
<1>3. Solves(Reached(p, from, stops))
  <2> HIDE DEF Solves
  <2>1. QED
    BY <1>1, <1>2
<1>4. QED
  BY <1>3 DEF Extends

ClosedUnder(p, S, stops) == \A i \in S \ stops : NextOf(p, i) \subseteq S

\* ReachableFrom is closed: as long as it is not, it grows, and a program has no more tokens.
LEMMA ReachIsClosed ==
    ASSUME NEW p, Linked(p), NEW stops, NEW from \in SUBSET (1 .. Len(p))
    PROVE  /\ from \subseteq ReachableFrom(p, from, stops)
           /\ ReachableFrom(p, from, stops) \subseteq 1 .. Len(p)
           /\ ClosedUnder(p, ReachableFrom(p, from, stops), stops)
<1> DEFINE r == Reached(p, from, stops)
<1>1. r[0] = from /\ \A n \in Nat : r[n + 1] = r[n] \cup UNION {NextOf(p, i) : i \in r[n] \ stops}
  <2>1. Extends(p, from, stops, Reached(p, from, stops))
    BY ReachedStep
  <2>2. QED
    BY <2>1 DEF Extends
<1> HIDE DEF r
<1> DEFINE Grown(n) == /\ from \subseteq r[n] /\ r[n] \subseteq 1 .. Len(p)
                       /\ ClosedUnder(p, r[n], stops) \/ Cardinality(r[n]) > n
<1>2. IsFiniteSet(1 .. Len(p)) /\ Cardinality(1 .. Len(p)) = Len(p)
  <2>1. PICK n \in Nat : n = Len(p)
    BY DEF Linked
  <2>2. IsFiniteSet(1 .. n) /\ Cardinality(1 .. n) = IF 1 > n THEN 0 ELSE n - 1 + 1
    BY FS_Interval
  <2>3. QED
    BY <2>1, <2>2
<1>3. Grown(0)
  <2>1. CASE from = {}
    BY <1>1, <2>1 DEF ClosedUnder
  <2>2. CASE from # {}
    <3>1. IsFiniteSet(from) /\ Cardinality(from) \in Nat /\ Cardinality(from) # 0
      BY <1>2, <2>2, FS_Subset, FS_CardinalityType, FS_EmptySet
    <3>2. QED
      BY <1>1, <3>1
  <2>3. QED
    BY <2>1, <2>2
<1>4. ASSUME NEW n \in Nat, Grown(n) PROVE Grown(n + 1)
  <2>1. r[n + 1] = r[n] \cup UNION {NextOf(p, i) : i \in r[n] \ stops}
    BY <1>1
  <2>2. from \subseteq r[n + 1] /\ r[n + 1] \subseteq 1 .. Len(p) /\ r[n] \subseteq r[n + 1]
    BY <1>4, <2>1 DEF Linked
  <2>3. CASE ClosedUnder(p, r[n], stops)
    <3>1. r[n + 1] = r[n]
      BY <2>1, <2>3 DEF ClosedUnder
    <3>2. QED
      BY <2>2, <2>3, <3>1
  <2>4. CASE ~ClosedUnder(p, r[n], stops)
    <3>1. r[n + 1] # r[n]
      BY <2>1, <2>4 DEF ClosedUnder
    <3>2. IsFiniteSet(r[n + 1])
      BY <1>2, <2>2, FS_Subset
    <3>3. /\ Cardinality(r[n]) <= Cardinality(r[n + 1]) /\ IsFiniteSet(r[n])
          /\ Cardinality(r[n]) # Cardinality(r[n + 1])
      BY <2>2, <3>1, <3>2, FS_Subset
    <3>4. Cardinality(r[n]) \in Nat /\ Cardinality(r[n + 1]) \in Nat
      BY <3>2, <3>3, FS_CardinalityType
    <3>5. Cardinality(r[n]) > n
      BY <1>4, <2>4
    <3>6. Cardinality(r[n + 1]) > n + 1
      BY <3>3, <3>4, <3>5
    <3>7. QED
      BY <2>2, <3>6
  <2>5. QED
    BY <2>3, <2>4
<1>5. Grown(Len(p))
  <2>0. Len(p) \in Nat
    BY DEF Linked
  <2> HIDE DEF Grown
  <2> DEFINE bad == {n \in Nat : ~Grown(n)}
  <2>1. SUFFICES ASSUME bad # {} PROVE FALSE
    OBVIOUS
  <2>2. PICK m \in bad : \A k \in bad : m <= k
    <3> bad \in SUBSET Nat
      OBVIOUS
    <3> HIDE DEF bad
    <3> QED
      BY <2>1, LeastOf
  <2>3. m \in Nat /\ m # 0 /\ ~Grown(m)
    BY <1>3, <2>2
  <2>4. m - 1 \in Nat /\ Grown(m - 1)
    BY <2>2, <2>3
  <2>5. Grown((m - 1) + 1)
    BY <1>4, <2>4
  <2>6. QED
    BY <2>0, <2>3, <2>5
<1>6. Cardinality(r[Len(p)]) <= Len(p)
  BY <1>2, <1>5, FS_Subset DEF Linked
<1>7. Cardinality(r[Len(p)]) \in Nat
  BY <1>2, <1>5, FS_Subset, FS_CardinalityType
<1>8. QED
  BY <1>5, <1>6, <1>7 DEF ReachableFrom, r, Linked

\* And it is the least such set.
LEMMA ReachIsLeast ==
    ASSUME NEW p, Linked(p), NEW stops, NEW from \in SUBSET (1 .. Len(p)),
           NEW S, from \subseteq S, ClosedUnder(p, S, stops)
    PROVE  ReachableFrom(p, from, stops) \subseteq S
<1> DEFINE r == Reached(p, from, stops)
           bad == {n \in Nat : ~(r[n] \subseteq S)}
<1>1. r[0] = from /\ \A n \in Nat : r[n + 1] = r[n] \cup UNION {NextOf(p, i) : i \in r[n] \ stops}
  <2>1. Extends(p, from, stops, Reached(p, from, stops))
    BY ReachedStep
  <2>2. QED
    BY <2>1 DEF Extends
<1> HIDE DEF r
<1>2. bad = {}
  <2>1. SUFFICES ASSUME bad # {} PROVE FALSE
    OBVIOUS
  <2>2. PICK m \in bad : \A k \in bad : m <= k
    <3> bad \in SUBSET Nat
      OBVIOUS
    <3> HIDE DEF bad
    <3> QED
      BY <2>1, LeastOf
  <2>3. m \in Nat /\ m # 0 /\ ~(r[m] \subseteq S)
    BY <1>1, <2>2
  <2>4. m - 1 \in Nat /\ r[m - 1] \subseteq S /\ (m - 1) + 1 = m
    BY <2>2, <2>3
  <2>5. r[m] = r[m - 1] \cup UNION {NextOf(p, i) : i \in r[m - 1] \ stops}
    BY <1>1, <2>4
  <2>6. QED
    BY <2>3, <2>4, <2>5 DEF ClosedUnder
<1>3. QED
  BY <1>2 DEF ReachableFrom, r, Linked

\* The jumps of a program have targets, and the tokens of a path follow each other or are such a jump.
LEMMA JumpsLinked ==
    ASSUME NEW p, Len(p) \in Nat, ~UndefinedLabel(p)
    PROVE  /\ Linked(p)
           /\ \A i \in 1 .. Len(p) : p[i].kind = "jump" =>
                  TargetOf(p, i) \in 1 .. Len(p) /\ TargetOf(p, i) \in NextOf(p, i)
           /\ \A i \in 1 .. Len(p) : i < Len(p) => i + 1 \in NextOf(p, i)
           /\ \A i \in 1 .. Len(p) : \A k \in NextOf(p, i) :
                  k = i + 1 \/ (p[i].kind = "jump" /\ k = TargetOf(p, i))
<1>1. ASSUME NEW i \in 1 .. Len(p)
      PROVE  /\ NextOf(p, i) = (IF p[i].kind = "jump" THEN {TargetOf(p, i)} ELSE {})
                                   \cup (IF i < Len(p) THEN {i + 1} ELSE {})
             /\ p[i].kind = "jump" => TargetOf(p, i) \in 1 .. Len(p)
  <2>1. p[i].kind = "jump" => TargetOf(p, i) \in 1 .. Len(p)
    <3> SUFFICES ASSUME p[i].kind = "jump" PROVE TargetOf(p, i) \in 1 .. Len(p)
      OBVIOUS
    <3>1. \E j \in 1 .. Len(p) : Defines(p, j, p[i].label)
      BY DEF UndefinedLabel
    <3>2. QED
      BY <3>1 DEF TargetOf
  <2>2. CASE p[i].kind = "jump" /\ i < Len(p)
    <3>1. Successors(p, i) = <<TargetOf(p, i), i + 1>>
      BY <2>2 DEF Successors
    <3>2. QED
      BY <2>1, <2>2, <3>1 DEF NextOf
  <2>3. CASE p[i].kind = "jump" /\ ~(i < Len(p))
    <3>1. Successors(p, i) = <<TargetOf(p, i)>>
      BY <2>3 DEF Successors
    <3>2. QED
      BY <2>1, <2>3, <3>1 DEF NextOf
  <2>4. CASE p[i].kind # "jump" /\ i < Len(p)
    <3>1. Successors(p, i) = <<i + 1>>
      BY <2>4 DEF Successors
    <3>2. QED
      BY <2>1, <2>4, <3>1 DEF NextOf
  <2>5. CASE p[i].kind # "jump" /\ ~(i < Len(p))
    <3>1. Successors(p, i) = <<>>
      BY <2>5 DEF Successors
    <3>2. QED
      BY <2>1, <2>5, <3>1 DEF NextOf
  <2>6. QED
    BY <2>2, <2>3, <2>4, <2>5
<1>2. QED
  BY <1>1 DEF Linked

\* g is the function that the steps from base on make, from lo to hi.
Unfolds(g, S, base, lo, hi, step) ==
    g \in [lo .. hi -> S] /\ g[lo] = base /\ \A i \in lo + 1 .. hi : g[i] = step[<<i, g[i - 1]>>]

\* A recursion over the numbers from lo to hi, whose values stay in S, has a solution.
LEMMA RecursionExists ==
    ASSUME NEW S, NEW base, NEW lo, NEW hi, NEW top, NEW step, base \in S, lo \in Int, hi \in Int, lo <= hi,
           top \in Int, hi <= top, step \in [(lo .. top) \X S -> S]
    PROVE  \E g : Unfolds(g, S, base, lo, hi, step)
<1> DEFINE Solves(g, n) == /\ g \in [lo .. n -> S] /\ g[lo] = base
                           /\ \A i \in lo + 1 .. n : g[i] = step[<<i, g[i - 1]>>]
           bad == {n \in Nat : lo + n <= hi /\ ~ \E g : Solves(g, lo + n)}
<1>1. \E g : Solves(g, lo + 0)
  <2> DEFINE g == [i \in lo .. lo |-> base]
  <2>1. Solves(g, lo) /\ lo + 0 = lo
    OBVIOUS
  <2> HIDE DEF Solves, g
  <2>2. QED
    BY <2>1
<1>2. ASSUME NEW n \in Nat, lo + (n + 1) <= hi, \E g : Solves(g, lo + n) PROVE \E g : Solves(g, lo + (n + 1))
  <2>1. PICK f : Solves(f, lo + n)
    BY <1>2
  <2> DEFINE m == lo + n
             g == [i \in lo .. m + 1 |-> IF i = m + 1 THEN step[<<m + 1, f[m]>>] ELSE f[i]]
  <2>2. m \in Int /\ lo <= m /\ m + 1 <= hi /\ lo + (n + 1) = m + 1
    BY <1>2
  <2>3. f \in [lo .. m -> S] /\ f[lo] = base /\ \A i \in lo + 1 .. m : f[i] = step[<<i, f[i - 1]>>]
    BY <2>1
  <2> HIDE DEF m
  <2>4. step[<<m + 1, f[m]>>] \in S
    <3>1. m + 1 \in lo .. top /\ f[m] \in S
      BY <2>2, <2>3
    <3>2. QED
      BY <3>1
  <2>5. g \in [lo .. m + 1 -> S] /\ g[lo] = base
    BY <2>2, <2>3, <2>4
  <2>6. ASSUME NEW i \in lo + 1 .. m + 1 PROVE g[i] = step[<<i, g[i - 1]>>]
    <3>1. CASE i = m + 1
      <4>1. i - 1 = m /\ g[i] = step[<<m + 1, f[m]>>] /\ g[m] = f[m]
        BY <2>2, <3>1
      <4>2. QED
        BY <3>1, <4>1
    <3>2. CASE i # m + 1
      <4>1. i \in lo + 1 .. m /\ i \in lo .. m + 1 /\ i - 1 \in lo .. m + 1 /\ i - 1 # m + 1
        BY <2>2, <3>2
      <4>2. g[i] = f[i] /\ g[i - 1] = f[i - 1]
        BY <3>2, <4>1
      <4>3. QED
        BY <2>3, <4>1, <4>2
    <3>3. QED
      BY <3>1, <3>2
  <2> HIDE DEF g
  <2>7. Solves(g, m + 1)
    BY <2>5, <2>6
  <2>8. QED
    BY <2>2, <2>7
<1>3. \E g : Solves(g, hi)
  <2> HIDE DEF Solves
  <2>1. bad = {}
    <3>1. SUFFICES ASSUME bad # {} PROVE FALSE
      OBVIOUS
    <3>2. PICK m \in bad : \A k \in bad : m <= k
      <4> bad \in SUBSET Nat
        OBVIOUS
      <4> HIDE DEF bad
      <4> QED
        BY <3>1, LeastOf
    <3>3. m \in Nat /\ m # 0 /\ lo + m <= hi /\ ~ \E g : Solves(g, lo + m)
      BY <1>1, <3>2
    <3>4. m - 1 \in Nat /\ lo + (m - 1) <= hi /\ m - 1 \notin bad /\ (m - 1) + 1 = m
      BY <3>2, <3>3
    <3>5. \E g : Solves(g, lo + (m - 1))
      BY <3>4
    <3>6. \E g : Solves(g, lo + ((m - 1) + 1))
      BY <1>2, <3>3, <3>4, <3>5
    <3>7. QED
      BY <3>3, <3>4, <3>6
  <2>2. hi - lo \in Nat /\ lo + (hi - lo) = hi
    OBVIOUS
  <2>3. hi - lo \notin bad
    BY <2>1
  <2>4. QED
    BY <2>2, <2>3
<1>4. QED
  BY <1>3 DEF Unfolds

\* And any solution of it is one whose values stay in S.
LEMMA IsUnfolding ==
    ASSUME NEW S, NEW base, NEW lo, NEW hi, NEW step, NEW f, base \in S, lo \in Int, hi \in Int, lo <= hi,
           NEW top, top \in Int, hi <= top, step \in [(lo .. top) \X S -> S],
           f = [i \in lo .. hi |-> f[i]], f[lo] = base,
           \A i \in lo + 1 .. hi : f[i - 1] \in S => f[i] = step[<<i, f[i - 1]>>]
    PROVE  Unfolds(f, S, base, lo, hi, step)
<1> DEFINE bad == {n \in 0 .. hi - lo : f[lo + n] \notin S}
<1>1. bad = {}
  <2> SUFFICES ASSUME bad # {} PROVE FALSE
    OBVIOUS
  <2>1. PICK m \in bad : \A k \in bad : m <= k
    <3> bad \in SUBSET Nat
      OBVIOUS
    <3> HIDE DEF bad
    <3> QED
      BY LeastOf
  <2> DEFINE i == lo + m
  <2>2. m # 0
    BY <2>1
  <2>3. m - 1 \in 0 .. hi - lo /\ ~(m <= m - 1) /\ lo + (m - 1) = i - 1 /\ i \in lo + 1 .. hi /\ i \in lo .. top
    BY <2>1, <2>2
  <2>4. f[i - 1] \in S
    BY <2>1, <2>3
  <2>5. f[i] = step[<<i, f[i - 1]>>]
    BY <2>3, <2>4
  <2>6. f[i] \in S
    BY <2>3, <2>4, <2>5
  <2>7. QED
    BY <2>1, <2>6
<1>2. ASSUME NEW i \in lo .. hi PROVE f[i] \in S
  <2> DEFINE n == i - lo
  <2>1. n \in 0 .. hi - lo /\ lo + n = i
    OBVIOUS
  <2> HIDE DEF n
  <2>2. QED
    BY <1>1, <2>1
<1>3. f \in [lo .. hi -> S]
  BY <1>2
<1>4. \A i \in lo + 1 .. hi : i - 1 \in lo .. hi
  OBVIOUS
<1>5. QED
  BY <1>2, <1>3, <1>4 DEF Unfolds

\* Up to where both go, two solutions are the same.
LEMMA UnfoldsOnce ==
    ASSUME NEW S, NEW base, NEW lo, NEW hi, NEW to, NEW step, NEW f, NEW g, lo \in Int, hi \in Int, to \in Int,
           Unfolds(f, S, base, lo, hi, step), Unfolds(g, S, base, lo, to, step), NEW k \in lo .. hi, k <= to
    PROVE  f[k] = g[k]
<1> DEFINE bad == {n \in 0 .. k - lo : f[lo + n] # g[lo + n]}
<1>1. bad = {}
  <2> SUFFICES ASSUME bad # {} PROVE FALSE
    OBVIOUS
  <2>1. PICK m \in bad : \A j \in bad : m <= j
    <3> bad \in SUBSET Nat
      OBVIOUS
    <3> HIDE DEF bad
    <3> QED
      BY LeastOf
  <2> DEFINE i == lo + m
  <2>2. m # 0
    BY <2>1 DEF Unfolds
  <2>3. m - 1 \in 0 .. k - lo /\ ~(m <= m - 1) /\ lo + (m - 1) = i - 1 /\ i \in lo + 1 .. hi /\ i \in lo + 1 .. to
    BY <2>1, <2>2
  <2>4. f[i - 1] = g[i - 1]
    BY <2>1, <2>3
  <2>5. f[i] = step[<<i, f[i - 1]>>] /\ g[i] = step[<<i, g[i - 1]>>]
    BY <2>3 DEF Unfolds
  <2>6. QED
    BY <2>1, <2>4, <2>5
<1> DEFINE n == k - lo
<1>2. n \in 0 .. k - lo /\ lo + n = k
  OBVIOUS
<1> HIDE DEF n
<1>3. QED
  BY <1>1, <1>2

=================================================================================
