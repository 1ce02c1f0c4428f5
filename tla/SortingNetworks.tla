---------------------------- MODULE SortingNetworks ----------------------------
(***************************************************************************)
(* Sorting.hpp: the comparators of sortN and argsortN.  Up to 64 inputs    *)
(* they come from a table, given here for 3 to 8 inputs; otherwise Batcher *)
(* odd-even merge sort for the next power of two is cut down to the inputs *)
(* there are.  Inputs are numbered from 0, the top of the stack first.     *)
(***************************************************************************)
EXTENDS Integers, Sequences, SequencesExt

LargestTabulated == 8
LargestNetwork == 16     \* of the model

\* all_sorting_network_comparators and optimal_sorting_networks_meta, one row per size
Table ==
    [n \in 3 .. LargestTabulated |->
       CASE n = 3 -> <<<<0,2>>, <<0,1>>, <<1,2>>>>
         [] n = 4 -> <<<<0,2>>, <<1,3>>, <<0,1>>, <<2,3>>, <<1,2>>>>
         [] n = 5 -> <<<<0,3>>, <<1,4>>, <<0,2>>, <<1,3>>, <<0,1>>, <<2,4>>, <<1,2>>, <<3,4>>, <<2,3>>>>
         [] n = 6 -> <<<<0,5>>, <<1,3>>, <<2,4>>, <<1,2>>, <<3,4>>, <<0,3>>, <<2,5>>, <<0,1>>, <<2,3>>,
                       <<4,5>>, <<1,2>>, <<3,4>>>>
         [] n = 7 -> <<<<0,6>>, <<2,3>>, <<4,5>>, <<0,2>>, <<1,4>>, <<3,6>>, <<0,1>>, <<2,5>>, <<3,4>>,
                       <<1,2>>, <<4,6>>, <<2,3>>, <<4,5>>, <<1,2>>, <<3,4>>, <<5,6>>>>
         [] n = 8 -> <<<<0,2>>, <<1,3>>, <<4,6>>, <<5,7>>, <<0,4>>, <<1,5>>, <<2,6>>, <<3,7>>, <<0,1>>,
                       <<2,3>>, <<4,5>>, <<6,7>>, <<2,4>>, <<3,5>>, <<1,4>>, <<3,6>>, <<1,2>>, <<3,4>>,
                       <<5,6>>>>]

PowerOfTwoFrom(n) == CHOOSE p \in {1, 2, 4, 8, 16} : p >= n /\ (p = 1 \/ p \div 2 < n)

\* oem_merge_pairs: what merges the two sorted halves of count inputs from low on
MergePairs(low, count) ==
    LET Strided(lo, r) == [k \in 1 .. ((count - 2 * r - 1) \div (2 * r)) + 1 |->
                             <<lo + r + (k - 1) * 2 * r, lo + 2 * r + (k - 1) * 2 * r>>]
        merge[lo \in low .. low + count, r \in 1 .. count] ==
            IF 2 * r < count
            THEN merge[lo, 2 * r] \o merge[lo + r, 2 * r] \o Strided(lo, r)
            ELSE <<<<lo, lo + r>>>>
    IN merge[low, 1]

\* generate_oem_sort_pairs
OddEvenPairs ==
    [size \in {1, 2, 4, 8, 16} |->
       LET pairs[lo \in 0 .. size, n \in 1 .. size] ==
               IF n > 1
               THEN pairs[lo, n \div 2] \o pairs[lo + n \div 2, n \div 2] \o MergePairs(lo, n)
               ELSE <<>>
       IN pairs[0, size]]

\* get_sorting_network
Network ==
    [n \in 1 .. LargestNetwork |->
       IF n \in DOMAIN Table THEN Table[n]
       ELSE SelectSeq(OddEvenPairs[PowerOfTwoFrom(n)], LAMBDA pair : pair[2] < n)]

\* Every comparator is between two of the inputs.  These are fixed tables.
ASSUME NetworkAssumption ==
    \A n \in 1 .. LargestNetwork : /\ Len(Network[n]) \in Nat
                                  /\ \A k \in 1 .. Len(Network[n]) : Network[n][k] \in (0 .. n - 1) \X (0 .. n - 1)
================================================================================
