--------------------------- MODULE VkExecutor_proofs ---------------------------
(***************************************************************************)
(* Proofs about the stream pool and the frames of VkExpr, for any number   *)
(* of threads, streams, frames, planes and failures.                       *)
(*                                                                         *)
(* First the pool.  The argument is one of counting: an index is in the    *)
(* queue or owned, and the queue is never shorter than the permits         *)
(* promise.                                                                *)
(*                                                                         *)
(* Then the executor.  Each of its steps is a step of the pool or leaves   *)
(* it alone, so PoolInv holds here too: while a caller works on a stream   *)
(* nobody else changes what the stream keeps, and the invariant says what  *)
(* that is at each statement of processPlane.  ControlInv says where a     *)
(* caller is in the pool when it is at a statement, BufferInv what buffers *)
(* and descriptor sets there are, QuietInv which streams the GPU may be    *)
(* busy with, DataInv whose frame is in the buffers, PlanesInv which       *)
(* planes of a frame are finished, and LeakInv which buffers exist as long *)
(* as nothing has failed.                                                  *)
(***************************************************************************)
EXTENDS VkExecutor, FiniteSetTheorems, TLAPS

-------------------------------------------------------------------------------
(* The stream pool *)

\* The mutex is owned exactly by the caller inside a critical section.
MutexHeld ==
    \A c \in Callers : pc[c] \in {"front", "pop", "push"} <=> mutex = c

\* No index is queued twice.
FreeDistinct ==
    \A i, j \in 1 .. Len(free) : free[i] = free[j] => i = j

\* The index read by front() is still the head when pop() removes it.
PopsWhatItRead ==
    \A c \in Callers : pc[c] = "pop" => free # <<>> /\ idx[c] = Head(free)

DrainedAll == phase = "destroyed" => drained = NumStreams

PoolInv ==
    /\ PoolTypeOK
    /\ MutexHeld
    /\ FreeDistinct
    /\ PopsWhatItRead
    /\ StreamExclusive
    /\ PermitAccounting
    /\ DrainedAll

-------------------------------------------------------------------------------

\* The sets counted by the invariant are finite.
LEMMA FiniteCounts == IsFiniteSet(Owners) /\ IsFiniteSet(Claimants)
<1>1. Owners \subseteq Callers /\ Claimants \subseteq Callers
  BY DEF Owners, Claimants
<1>2. QED
  BY <1>1, CallersAssumption, FS_Subset

\* The same in the next state.
LEMMA FiniteCountsNext == IsFiniteSet(Owners') /\ IsFiniteSet(Claimants')
<1>1. Owners' \subseteq Callers /\ Claimants' \subseteq Callers
  BY DEF Owners, Claimants
<1>2. QED
  BY <1>1, CallersAssumption, FS_Subset

\* The queue is not empty while a caller owns a permit for it.
LEMMA ClaimBacked ==
    ASSUME PoolTypeOK, PermitAccounting, NEW c \in Claimants
    PROVE  Len(free) > 0 /\ free # <<>>
<1>1. Cardinality(Claimants) \in Nat /\ Cardinality(Claimants) # 0
  BY FiniteCounts, FS_CardinalityType, FS_EmptySet
<1>2. Len(free) > 0
  BY <1>1 DEF PoolTypeOK, PermitAccounting
<1>3. QED
  BY <1>2

\* The counts of the initial state.
LEMMA InitInv == PoolInit => PoolInv
<1> SUFFICES ASSUME PoolInit PROVE PoolInv
  OBVIOUS
<1> USE CallersAssumption, StreamsAssumption DEF PoolInit, Streams
<1>1. PoolTypeOK
  BY DEF PoolTypeOK
<1>2. Len(free) = NumStreams
  OBVIOUS
<1>3. Owners = {} /\ Claimants = {}
  BY DEF Owners, Claimants
<1>4. PermitAccounting
  BY <1>2, <1>3, FS_EmptySet DEF PermitAccounting
<1>5. MutexHeld /\ FreeDistinct /\ PopsWhatItRead /\ StreamExclusive /\ DrainedAll
  BY <1>3 DEF MutexHeld, FreeDistinct, PopsWhatItRead, StreamExclusive, DrainedAll
<1>6. QED
  BY <1>1, <1>4, <1>5 DEF PoolInv

\* The type invariant is inductive together with PopsWhatItRead, which keeps the
\* queue non-empty where it is popped.
LEMMA TypeStep == PoolInv /\ [PoolNext]_poolVars => PoolTypeOK'
<1> SUFFICES ASSUME PoolInv, [PoolNext]_poolVars PROVE PoolTypeOK'
  OBVIOUS
<1> USE StreamsAssumption DEF PoolInv, PoolTypeOK, Goto, Streams
<1>1. ASSUME NEW c \in Callers, Enter(c) PROVE PoolTypeOK'
  BY <1>1 DEF Enter
<1>2. ASSUME NEW c \in Callers, AcquirePermit(c) PROVE PoolTypeOK'
  BY <1>2 DEF AcquirePermit
<1>3. ASSUME NEW c \in Callers, LockToPop(c) PROVE PoolTypeOK'
  BY <1>3 DEF LockToPop
<1>4. ASSUME NEW c \in Callers, ReadFront(c) PROVE PoolTypeOK'
  BY <1>4 DEF ReadFront
<1>5. ASSUME NEW c \in Callers, PopFront(c) PROVE PoolTypeOK'
  BY <1>5 DEF PopFront, PopsWhatItRead
<1>6. ASSUME NEW c \in Callers, LockToPush(c) PROVE PoolTypeOK'
  BY <1>6 DEF LockToPush
<1>7. ASSUME NEW c \in Callers, PushIndex(c) PROVE PoolTypeOK'
  <2>1. c \in Owners
    BY <1>7 DEF PushIndex, Owners
  <2>2. idx[c] \in Streams
    BY <2>1 DEF StreamExclusive
  <2>3. QED
    BY <1>7, <2>2 DEF PushIndex
<1>8. ASSUME NEW c \in Callers, PostPermit(c) PROVE PoolTypeOK'
  BY <1>8 DEF PostPermit
<1>9. CASE BeginDrain \/ Drain
  BY <1>9 DEF BeginDrain, Drain, DrainPermit, Destroy
<1>10. CASE UNCHANGED poolVars
  BY <1>10 DEF poolVars
<1>11. QED
  BY <1>1, <1>2, <1>3, <1>4, <1>5, <1>6, <1>7, <1>8, <1>9, <1>10
     DEF PoolNext, Take, GiveBack


\* The mutex is handed over only between NoCaller and one caller.
LEMMA MutexStep == PoolInv /\ [PoolNext]_poolVars => MutexHeld'
<1> SUFFICES ASSUME PoolInv, [PoolNext]_poolVars PROVE MutexHeld'
  OBVIOUS
<1> USE CallersAssumption DEF PoolInv, PoolTypeOK, MutexHeld, Goto
<1>1. ASSUME NEW c \in Callers, Enter(c) \/ Take(c) PROVE MutexHeld'
  BY <1>1 DEF Enter, Take, AcquirePermit, LockToPop, ReadFront, PopFront
<1>2. ASSUME NEW c \in Callers, LockToPush(c) \/ GiveBack(c) PROVE MutexHeld'
  BY <1>2 DEF LockToPush, GiveBack, PushIndex, PostPermit
<1>3. CASE BeginDrain \/ Drain
  BY <1>3 DEF BeginDrain, Drain, DrainPermit, Destroy
<1>4. CASE UNCHANGED poolVars
  BY <1>4 DEF poolVars
<1>5. QED
  BY <1>1, <1>2, <1>3, <1>4 DEF PoolNext

\* The queue stays free of repetitions, and of owned indices: pop() moves the head
\* to its new owner, push() appends an index only its owner knew.
LEMMA ExclusiveStep ==
    PoolInv /\ [PoolNext]_poolVars => FreeDistinct' /\ PopsWhatItRead' /\ StreamExclusive'
<1> SUFFICES ASSUME PoolInv, [PoolNext]_poolVars
             PROVE  FreeDistinct' /\ PopsWhatItRead' /\ StreamExclusive'
  OBVIOUS
<1> USE DEF PoolInv, PoolTypeOK, Goto
<1>1. ASSUME NEW c \in Callers, Enter(c) \/ AcquirePermit(c) \/ LockToPop(c)
      PROVE  FreeDistinct' /\ PopsWhatItRead' /\ StreamExclusive'
  <2>1. Owners' = Owners /\ UNCHANGED <<free, idx>>
    BY <1>1 DEF Enter, AcquirePermit, LockToPop, Owners
  <2>2. \A d \in Callers : pc'[d] = "pop" => pc[d] = "pop"
    BY <1>1 DEF Enter, AcquirePermit, LockToPop
  <2>3. QED
    BY <2>1, <2>2 DEF FreeDistinct, PopsWhatItRead, StreamExclusive
<1>2. ASSUME NEW c \in Callers, ReadFront(c)
      PROVE  FreeDistinct' /\ PopsWhatItRead' /\ StreamExclusive'
  <2>1. c \in Claimants
    BY <1>2 DEF ReadFront, Claimants
  <2>2. free # <<>>
    BY <2>1, ClaimBacked
  <2>3. Owners' = Owners /\ c \notin Owners
    BY <1>2 DEF ReadFront, Owners
  <2>4. UNCHANGED free /\ \A d \in Owners : idx'[d] = idx[d]
    BY <1>2, <2>3 DEF ReadFront, Owners
  <2>5. PopsWhatItRead'
    BY <1>2, <2>2 DEF ReadFront, PopsWhatItRead
  <2>6. QED
    BY <2>3, <2>4, <2>5 DEF FreeDistinct, StreamExclusive
<1>3. ASSUME NEW c \in Callers, PopFront(c)
      PROVE  FreeDistinct' /\ PopsWhatItRead' /\ StreamExclusive'
  <2>1. free # <<>> /\ idx[c] = free[1] /\ idx[c] \in Streams /\ Len(free) \in Nat
    BY <1>3 DEF PopFront, PopsWhatItRead
  <2>2. Len(free') = Len(free) - 1 /\ \A i \in 1 .. Len(free') : free'[i] = free[i + 1]
    BY <1>3, <2>1 DEF PopFront
  <2>3. Owners' = Owners \cup {c} /\ idx' = idx
    BY <1>3 DEF PopFront, Owners
  <2>4. FreeDistinct'
    <3> SUFFICES ASSUME NEW i \in 1 .. Len(free'), NEW j \in 1 .. Len(free'), free'[i] = free'[j]
                 PROVE  i = j
      BY DEF FreeDistinct
    <3>1. i + 1 \in 1 .. Len(free) /\ j + 1 \in 1 .. Len(free) /\ free[i + 1] = free[j + 1]
      BY <2>1, <2>2
    <3>2. QED
      BY <3>1 DEF FreeDistinct
  <2>5. \A d \in Owners : idx[d] # idx[c]
    BY <2>1 DEF StreamExclusive
  <2>6. \A i \in 1 .. Len(free') : free'[i] # idx[c]
    <3> SUFFICES ASSUME NEW i \in 1 .. Len(free'), free'[i] = idx[c] PROVE FALSE
      OBVIOUS
    <3>1. i + 1 \in 1 .. Len(free) /\ 1 \in 1 .. Len(free) /\ free[i + 1] = free[1]
      BY <2>1, <2>2
    <3>2. i + 1 = 1
      BY <3>1 DEF FreeDistinct
    <3>3. QED
      BY <3>2
  <2>7. \A d \in Owners : \A i \in 1 .. Len(free') : free'[i] # idx[d]
    BY <2>1, <2>2 DEF StreamExclusive
  <2>8. StreamExclusive'
    BY <2>1, <2>3, <2>5, <2>6, <2>7 DEF StreamExclusive
  <2>9. PopsWhatItRead'
    BY <1>3 DEF PopFront, PopsWhatItRead, MutexHeld
  <2>10. QED
    BY <2>4, <2>8, <2>9
<1>4. ASSUME NEW c \in Callers, LockToPush(c)
      PROVE  FreeDistinct' /\ PopsWhatItRead' /\ StreamExclusive'
  <2>1. Owners' = Owners /\ UNCHANGED <<free, idx>>
    BY <1>4 DEF LockToPush, Owners
  <2>2. QED
    BY <1>4, <2>1 DEF LockToPush, FreeDistinct, PopsWhatItRead, StreamExclusive
<1>5. ASSUME NEW c \in Callers, PushIndex(c)
      PROVE  FreeDistinct' /\ PopsWhatItRead' /\ StreamExclusive'
  <2>1. c \in Owners /\ idx[c] \in Streams
    BY <1>5 DEF PushIndex, Owners, StreamExclusive
  <2>2. /\ Len(free') = Len(free) + 1
        /\ free'[Len(free) + 1] = idx[c]
        /\ \A i \in 1 .. Len(free) : free'[i] = free[i]
    BY <1>5, <2>1 DEF PushIndex
  <2>3. Owners' = Owners \ {c} /\ idx' = idx
    BY <1>5 DEF PushIndex, Owners
  <2>4. \A i \in 1 .. Len(free) : free[i] # idx[c]
    BY <2>1 DEF StreamExclusive
  <2>5. FreeDistinct'
    BY <2>2, <2>4 DEF FreeDistinct
  <2>6. StreamExclusive'
    BY <2>1, <2>2, <2>3 DEF StreamExclusive
  <2>7. PopsWhatItRead'
    BY <1>5 DEF PushIndex, PopsWhatItRead, MutexHeld
  <2>8. QED
    BY <2>5, <2>6, <2>7
<1>6. ASSUME NEW c \in Callers, PostPermit(c)
      PROVE  FreeDistinct' /\ PopsWhatItRead' /\ StreamExclusive'
  <2>1. Owners' = Owners /\ UNCHANGED free /\ \A d \in Callers : d # c => idx'[d] = idx[d]
    BY <1>6 DEF PostPermit, Owners
  <2>2. c \notin Owners /\ pc'[c] # "pop"
    BY <1>6 DEF PostPermit, Owners
  <2>3. PopsWhatItRead'
    BY <1>6, <2>1, <2>2 DEF PostPermit, PopsWhatItRead
  <2>4. \A d \in Owners : d \in Callers /\ idx'[d] = idx[d]
    BY <2>1, <2>2 DEF Owners
  <2>5. QED
    BY <2>1, <2>3, <2>4 DEF FreeDistinct, StreamExclusive
<1>7. CASE BeginDrain \/ Drain \/ UNCHANGED poolVars
  <2>1. UNCHANGED <<free, idx, pc>>
    BY <1>7 DEF BeginDrain, Drain, DrainPermit, Destroy, poolVars
  <2>2. Owners' = Owners
    BY <2>1 DEF Owners
  <2>3. QED
    BY <2>1, <2>2 DEF FreeDistinct, PopsWhatItRead, StreamExclusive
<1>8. QED
  BY <1>1, <1>2, <1>3, <1>4, <1>5, <1>6, <1>7 DEF PoolNext, Take, GiveBack


\* Every step moves one index or one permit from one term of the counts to another.
LEMMA AccountingStep == PoolInv /\ [PoolNext]_poolVars => PermitAccounting'
<1> SUFFICES ASSUME PoolInv, [PoolNext]_poolVars PROVE PermitAccounting'
  OBVIOUS
<1> USE StreamsAssumption DEF PoolInv, PoolTypeOK, PermitAccounting, Goto
<1>0. /\ Cardinality(Owners) \in Nat
      /\ Cardinality(Claimants) \in Nat
  BY FiniteCounts, FS_CardinalityType
<1>1. ASSUME NEW c \in Callers, Enter(c) \/ LockToPop(c) \/ ReadFront(c) \/ LockToPush(c)
      PROVE  PermitAccounting'
  <2>1. Owners' = Owners /\ Claimants' = Claimants /\ UNCHANGED <<permits, free, drained>>
    BY <1>1 DEF Enter, LockToPop, ReadFront, LockToPush, Owners, Claimants
  <2>2. QED
    BY <2>1
<1>2. ASSUME NEW c \in Callers, AcquirePermit(c) PROVE PermitAccounting'
  <2>1. Owners' = Owners /\ c \notin Claimants /\ Claimants' = Claimants \cup {c}
    BY <1>2 DEF AcquirePermit, Owners, Claimants
  <2>2. Cardinality(Claimants') = Cardinality(Claimants) + 1
    BY <2>1, FiniteCounts, FS_AddElement
  <2>3. QED
    BY <1>0, <1>2, <2>1, <2>2 DEF AcquirePermit
<1>3. ASSUME NEW c \in Callers, PopFront(c) PROVE PermitAccounting'
  <2>1. c \in Claimants /\ Claimants' = Claimants \ {c}
    BY <1>3 DEF PopFront, Claimants
  <2>2. c \notin Owners /\ Owners' = Owners \cup {c}
    BY <1>3 DEF PopFront, Owners
  <2>3. Cardinality(Claimants') = Cardinality(Claimants) - 1
    BY <2>1, FiniteCounts, FS_RemoveElement
  <2>4. Cardinality(Owners') = Cardinality(Owners) + 1
    BY <2>2, FiniteCounts, FS_AddElement
  <2>5. Len(free') = Len(free) - 1
    BY <1>3 DEF PopFront, PopsWhatItRead
  <2>6. QED
    BY <1>0, <1>3, <2>3, <2>4, <2>5 DEF PopFront
<1>4. ASSUME NEW c \in Callers, PushIndex(c) PROVE PermitAccounting'
  <2>1. c \in Owners /\ Owners' = Owners \ {c}
    BY <1>4 DEF PushIndex, Owners
  <2>2. c \notin Claimants /\ Claimants' = Claimants \cup {c}
    BY <1>4 DEF PushIndex, Claimants
  <2>3. Cardinality(Owners') = Cardinality(Owners) - 1
    BY <2>1, FiniteCounts, FS_RemoveElement
  <2>4. Cardinality(Claimants') = Cardinality(Claimants) + 1
    BY <2>2, FiniteCounts, FS_AddElement
  <2>5. Len(free') = Len(free) + 1
    BY <1>4, <2>1 DEF PushIndex, StreamExclusive
  <2>6. QED
    BY <1>0, <1>4, <2>3, <2>4, <2>5 DEF PushIndex
<1>5. ASSUME NEW c \in Callers, PostPermit(c) PROVE PermitAccounting'
  <2>1. c \in Claimants /\ Claimants' = Claimants \ {c} /\ Owners' = Owners
    BY <1>5 DEF PostPermit, Claimants, Owners
  <2>2. Cardinality(Claimants') = Cardinality(Claimants) - 1
    BY <2>1, FiniteCounts, FS_RemoveElement
  <2>3. QED
    BY <1>0, <1>5, <2>1, <2>2 DEF PostPermit
<1>6. CASE BeginDrain \/ Drain \/ UNCHANGED poolVars
  <2>1. Owners' = Owners /\ Claimants' = Claimants
    BY <1>6 DEF BeginDrain, Drain, DrainPermit, Destroy, poolVars, Owners, Claimants
  <2>2. QED
    BY <1>0, <1>6, <2>1 DEF BeginDrain, Drain, DrainPermit, Destroy, poolVars
<1>7. QED
  BY <1>1, <1>2, <1>3, <1>4, <1>5, <1>6 DEF PoolNext, Take, GiveBack

\* Once the executor is destroyed nothing touches the drained permits.
LEMMA DrainedStep == PoolInv /\ [PoolNext]_poolVars => DrainedAll'
BY DEF PoolInv, DrainedAll, PoolNext, poolVars, Take, GiveBack, Drain, Enter, AcquirePermit,
       LockToPop, ReadFront, PopFront, LockToPush, PushIndex, PostPermit, BeginDrain,
       DrainPermit, Destroy

\* The invariant is inductive.
LEMMA PoolInvariant == PoolSpec => []PoolInv
<1>1. PoolInv /\ [PoolNext]_poolVars => PoolInv'
  BY TypeStep, MutexStep, ExclusiveStep, AccountingStep, DrainedStep DEF PoolInv
<1>2. QED
  BY InitInv, <1>1, PTL DEF PoolSpec

-------------------------------------------------------------------------------

\* The type invariant, for every number of callers and streams.
THEOREM PoolTypeCorrect == PoolSpec => []PoolTypeOK
<1>1. PoolInv => PoolTypeOK
  BY DEF PoolInv
<1>2. QED
  BY PoolInvariant, <1>1, PTL

\* Two callers never use the same stream (acquireStreamIndex, releaseStreamIndex).
THEOREM StreamsAreExclusive == PoolSpec => []StreamExclusive
<1>1. PoolInv => StreamExclusive
  BY DEF PoolInv
<1>2. QED
  BY PoolInvariant, <1>1, PTL

\* Permits, queue and owners always add up (constructor, acquire, release, drain).
THEOREM PermitsAddUp == PoolSpec => []PermitAccounting
<1>1. PoolInv => PermitAccounting
  BY DEF PoolInv
<1>2. QED
  BY PoolInvariant, <1>1, PTL

\* acquireStreamIndex never calls front() or pop() on an empty queue.
THEOREM FrontIsBacked == PoolSpec => []FrontBacked
<1>1. PoolInv => FrontBacked
  <2> SUFFICES ASSUME PoolInv, NEW c \in Callers, pc[c] \in {"front", "pop"}
               PROVE  free # <<>>
    BY DEF FrontBacked
  <2>1. c \in Claimants
    BY DEF Claimants
  <2>2. QED
    BY <2>1, ClaimBacked DEF PoolInv
<1>2. QED
  BY PoolInvariant, <1>1, PTL

\* The destructor destroys the streams only when nobody is inside the pool.
LEMMA QuiescentWhenDestroyed == PoolInv => DestroyedQuiescent
<1> SUFFICES ASSUME PoolInv, phase = "destroyed"
             PROVE  Claimants = {} /\ Owners = {} /\ mutex = NoCaller
  BY DEF DestroyedQuiescent
<1> USE DEF PoolInv, PoolTypeOK
<1>1. /\ Cardinality(Owners) \in Nat
      /\ Cardinality(Claimants) \in Nat
  BY FiniteCounts, FS_CardinalityType
<1>2. drained = NumStreams /\ Len(free) \in Nat
  BY DEF DrainedAll
<1>3. Cardinality(Owners) = 0 /\ Cardinality(Claimants) = 0
  BY <1>1, <1>2, StreamsAssumption DEF PermitAccounting
<1>4. Owners = {} /\ Claimants = {}
  BY <1>3, FiniteCounts, FS_EmptySet
<1>5. QED
  BY <1>4 DEF Owners, Claimants, MutexHeld

\* drain() is enough for the destructor, for every number of callers in flight.
THEOREM DestroyedIsQuiescent == PoolSpec => []DestroyedQuiescent
BY PoolInvariant, QuiescentWhenDestroyed, PTL


-------------------------------------------------------------------------------

\* What the refinement mapping says of one stream.
LeasedTo(s, c) == c \in Owners /\ idx[c] = s
MapsLease ==
    \A s \in Streams :
        \/ \E c \in Callers : LeasedTo(s, c) /\ LeaseHolder[s] = c
        \/ (\A c \in Callers : ~LeasedTo(s, c)) /\ LeaseHolder[s] = NoCaller

\* An owner is the holder the mapping chooses: there is no other.
LEMMA HolderIsOwner == PoolInv => MapsLease
<1> SUFFICES ASSUME PoolInv, NEW s \in Streams
             PROVE  \/ \E c \in Callers : LeasedTo(s, c) /\ LeaseHolder[s] = c
                    \/ (\A c \in Callers : ~LeasedTo(s, c)) /\ LeaseHolder[s] = NoCaller
  BY DEF MapsLease
<1>1. CASE \E c \in Owners : idx[c] = s
  <2>1. PICK c \in Owners : idx[c] = s
    BY <1>1
  <2>2. c \in Callers
    BY DEF Owners
  <2>3. (CHOOSE d \in Owners : idx[d] = s) \in Owners
        /\ idx[CHOOSE d \in Owners : idx[d] = s] = s
    BY <2>1
  <2>4. (CHOOSE d \in Owners : idx[d] = s) = c
    BY <2>1, <2>3 DEF PoolInv, StreamExclusive
  <2>5. LeaseHolder[s] = c
    BY <1>1, <2>4 DEF LeaseHolder
  <2>6. QED
    BY <2>1, <2>2, <2>5 DEF LeasedTo
<1>2. CASE ~\E c \in Owners : idx[c] = s
  BY <1>2 DEF LeaseHolder, LeasedTo
<1>3. QED
  BY <1>1, <1>2

\* Initially nothing is leased.
LEMMA LeaseInit == PoolInit => Lease!Init
<1> SUFFICES ASSUME PoolInit PROVE Lease!Init
  OBVIOUS
<1>1. Owners = {}
  BY DEF PoolInit, Owners
<1>2. LeaseHolder = [s \in Streams |-> NoCaller]
  BY <1>1 DEF LeaseHolder
<1>3. QED
  BY <1>2 DEF Lease!Init, PoolInit

\* A step that moves no owner and destroys nothing is a stutter of the lease.
LEMMA LeaseStutter ==
    ASSUME PoolInv, PoolInv', MapsLease, MapsLease', Owners' = Owners,
           \A c \in Owners : idx'[c] = idx[c],
           (phase' = "destroyed") = (phase = "destroyed")
    PROVE  UNCHANGED Lease!vars
<1>1. \A s \in Streams : LeaseHolder'[s] = LeaseHolder[s]
  <2> SUFFICES ASSUME NEW s \in Streams PROVE LeaseHolder'[s] = LeaseHolder[s]
    OBVIOUS
  <2>1. \A c \in Callers : LeasedTo(s, c)' <=> LeasedTo(s, c)
    BY DEF LeasedTo
  <2>2. \A c, d \in Callers : LeasedTo(s, c) /\ LeasedTo(s, d) => c = d
    BY DEF LeasedTo, PoolInv, StreamExclusive
  <2>3. Streams' = Streams
    BY DEF Streams
  <2>4. QED
    BY <2>1, <2>2, <2>3 DEF MapsLease
<1>2. LeaseHolder' = LeaseHolder
  BY <1>1 DEF LeaseHolder, Streams
<1>3. QED
  BY <1>2 DEF Lease!vars

\* Every step of the pool is a step of the lease or a stutter.
LEMMA LeaseStep ==
    PoolInv /\ PoolInv' /\ MapsLease /\ MapsLease' /\ [PoolNext]_poolVars
        => [Lease!Next]_(Lease!vars)
<1> SUFFICES ASSUME PoolInv, PoolInv', MapsLease, MapsLease', [PoolNext]_poolVars
             PROVE  [Lease!Next]_(Lease!vars)
  OBVIOUS
<1> USE CallersAssumption DEF Goto
<1>1. ASSUME NEW c \in Callers,
             Enter(c) \/ AcquirePermit(c) \/ LockToPop(c) \/ ReadFront(c) \/ LockToPush(c)
                \/ PostPermit(c)
      PROVE  UNCHANGED Lease!vars
  <2>1. Owners' = Owners /\ phase' = phase
    BY <1>1 DEF Enter, AcquirePermit, LockToPop, ReadFront, LockToPush, PostPermit, Owners,
                PoolInv, PoolTypeOK
  <2>2. \A d \in Owners : idx'[d] = idx[d]
    BY <1>1 DEF Enter, AcquirePermit, LockToPop, ReadFront, LockToPush, PostPermit, Owners,
                PoolInv, PoolTypeOK
  <2>3. QED
    BY <2>1, <2>2, LeaseStutter
<1>2. ASSUME NEW c \in Callers, PopFront(c)
      PROVE  Lease!Next
  <2>1. c \notin Owners /\ Owners' = Owners \cup {c} /\ idx' = idx /\ phase' = phase
    BY <1>2 DEF PopFront, Owners, PoolInv, PoolTypeOK
  <2>2. idx[c] \in Streams
    BY <2>1 DEF PoolInv, StreamExclusive
  <2>3. phase # "destroyed"
    BY <1>2, QuiescentWhenDestroyed DEF DestroyedQuiescent, Claimants, PopFront
  <2>4. \A d \in Callers : ~LeasedTo(idx[c], d)
    BY <2>1 DEF PoolInv, StreamExclusive, LeasedTo
  <2>5. LeaseHolder[idx[c]] = NoCaller
    BY <2>2, <2>4 DEF MapsLease
  <2>6. \A t \in Streams : LeaseHolder[t] # c
    BY <2>1 DEF MapsLease, LeasedTo
  <2>7. LeaseHolder'[idx[c]] = c
    BY <2>1, <2>2 DEF MapsLease, LeasedTo, Streams, PoolInv, StreamExclusive
  <2>8. \A t \in Streams \ {idx[c]} : LeaseHolder'[t] = LeaseHolder[t]
    <3> SUFFICES ASSUME NEW t \in Streams, t # idx[c] PROVE LeaseHolder'[t] = LeaseHolder[t]
      OBVIOUS
    <3>1. \A d \in Callers : LeasedTo(t, d)' <=> LeasedTo(t, d)
      BY <2>1 DEF LeasedTo
    <3>2. \A d, e \in Callers : LeasedTo(t, d) /\ LeasedTo(t, e) => d = e
      BY DEF LeasedTo, PoolInv, StreamExclusive
    <3>3. QED
      BY <3>1, <3>2 DEF MapsLease, Streams
  <2>9. LeaseHolder' = [LeaseHolder EXCEPT ![idx[c]] = c]
    BY <2>2, <2>7, <2>8 DEF LeaseHolder, Streams
  <2>10. Lease!Lease(c, idx[c])
    BY <2>1, <2>3, <2>5, <2>6, <2>9 DEF Lease!Lease
  <2>11. QED
    BY <2>2, <2>10 DEF Lease!Next
<1>3. ASSUME NEW c \in Callers, PushIndex(c)
      PROVE  Lease!Next
  <2>1. c \in Owners /\ Owners' = Owners \ {c} /\ idx' = idx /\ phase' = phase
    BY <1>3 DEF PushIndex, Owners, PoolInv, PoolTypeOK
  <2>2. idx[c] \in Streams
    BY <2>1 DEF PoolInv, StreamExclusive
  <2>3. \A d \in Callers : LeasedTo(idx[c], d) => d = c
    BY <2>1 DEF PoolInv, StreamExclusive, LeasedTo
  <2>4. LeaseHolder[idx[c]] = c
    BY <2>1, <2>2, <2>3 DEF MapsLease, LeasedTo
  <2>5. \A d \in Callers : ~LeasedTo(idx[c], d)'
    BY <2>1, <2>3 DEF LeasedTo
  <2>6. LeaseHolder'[idx[c]] = NoCaller
    BY <2>1, <2>2, <2>5 DEF MapsLease, LeasedTo, Streams
  <2>7. \A t \in Streams \ {idx[c]} : LeaseHolder'[t] = LeaseHolder[t]
    <3> SUFFICES ASSUME NEW t \in Streams, t # idx[c] PROVE LeaseHolder'[t] = LeaseHolder[t]
      OBVIOUS
    <3>1. \A d \in Callers : LeasedTo(t, d)' <=> LeasedTo(t, d)
      BY <2>1 DEF LeasedTo
    <3>2. \A d, e \in Callers : LeasedTo(t, d) /\ LeasedTo(t, e) => d = e
      BY DEF LeasedTo, PoolInv, StreamExclusive
    <3>3. QED
      BY <3>1, <3>2 DEF MapsLease, Streams
  <2>8. LeaseHolder' = [LeaseHolder EXCEPT ![idx[c]] = NoCaller]
    BY <2>2, <2>6, <2>7 DEF LeaseHolder, Streams
  <2>9. Lease!Return(c, idx[c])
    BY <2>1, <2>4, <2>8 DEF Lease!Return
  <2>10. QED
    BY <2>2, <2>9 DEF Lease!Next
<1>4. CASE BeginDrain \/ DrainPermit
  <2>1. Owners' = Owners /\ idx' = idx /\ phase # "destroyed" /\ phase' # "destroyed"
    BY <1>4 DEF BeginDrain, DrainPermit, Owners
  <2>2. QED
    BY <2>1, LeaseStutter
<1>5. CASE Destroy
  <2>1. Owners' = Owners /\ idx' = idx /\ phase' = "destroyed"
    BY <1>5 DEF Destroy, Owners
  <2>2. Owners = {}
    <3>1. DestroyedQuiescent'
      BY QuiescentWhenDestroyed, PTL
    <3>2. QED
      BY <2>1, <3>1 DEF DestroyedQuiescent
  <2>3. LeaseHolder = [s \in Streams |-> NoCaller] /\ LeaseHolder' = LeaseHolder
    BY <2>1, <2>2 DEF LeaseHolder, Streams
  <2>4. Lease!Close
    BY <2>1, <2>3 DEF Lease!Close
  <2>5. QED
    BY <2>4 DEF Lease!Next
<1>6. CASE UNCHANGED poolVars
  <2>1. Owners' = Owners /\ idx' = idx /\ phase' = phase
    BY <1>6 DEF poolVars, Owners
  <2>2. QED
    BY <2>1, LeaseStutter
<1>7. QED
  BY <1>1, <1>2, <1>3, <1>4, <1>5, <1>6 DEF PoolNext, Take, GiveBack, Drain

\* The semaphore, queue and mutex implement the lease, for every number of callers
\* and streams.
THEOREM PoolImplementsLease == PoolSpec => ImplementsLease
<1>1. PoolSpec => []MapsLease
  BY PoolInvariant, HolderIsOwner, PTL
<1>2. QED
  BY PoolInvariant, <1>1, LeaseInit, LeaseStep, PTL
     DEF PoolSpec, ImplementsLease, Lease!Spec

-------------------------------------------------------------------------------
(* The executor *)

\* The statements of processPlane that run with a stream, and its end.
Statements == {"props", "pack", "record", "submit", "wait", "unpack"}
Acquiring == {"acquiring", "locking", "front", "pop", "using"}
Releasing == {"using", "push", "posting", "idle"}

Control(c) ==
    /\ at[c] \in {"outside", "planes"} => pc[c] = "idle"
    /\ at[c] = "allocate" => pc[c] \in Acquiring
    /\ at[c] \in Statements => pc[c] = "using"
    /\ at[c] = "release" => pc[c] \in Releasing
    /\ at[c] \notin {"outside", "planes"} => plane[c] \in Processed
    /\ failed[c] => at[c] = "release"
    /\ at[c] = "outside" <=> job[c] = Blank
ControlInv == \A c \in Callers : Control(c)

\* What a descriptor set holds belongs to buffers that were never created again.
Described(s, p) ==
    /\ buffers[s][p].initialized => buffers[s][p].handle \in Handles
    /\ phase # "destroyed" /\ bound[s][p] # Unbound =>
          /\ buffers[s][p].initialized
          /\ bound[s][p] = [made |-> buffers[s][p].made, handle |-> buffers[s][p].handle]
Prepared(c) ==
    /\ at[c] \in Statements => buffers[idx[c]][plane[c]].initialized
    /\ at[c] = "submit" =>
          bound[idx[c]][plane[c]].made = buffers[idx[c]][plane[c]].made
BufferInv ==
    /\ \A s \in Streams, p \in PlaneSet : Described(s, p)
    /\ \A c \in Callers : Prepared(c)

\* The GPU works for the caller that waits, and not at all once the device is lost.
Quiet(s) == gpu[s] = "idle" /\ fence[s] = "unsignaled"
Awaited(s) == \E c \in Callers : at[c] = "wait" /\ idx[c] = s
QuietInv ==
    /\ lost => \A s \in Streams : gpu[s] = "idle"
    /\ ~abandoned => \A s \in Streams : Quiet(s) \/ Awaited(s)

\* Whose frame is in the staging buffers, and which plane the commands are for.
Computes(c) ==
    /\ at[c] \in {"record", "submit", "wait"} => staged[idx[c]][plane[c]] = job[c]
    /\ at[c] \in {"submit", "wait"} => command[idx[c]] = plane[c]
    /\ ~abandoned /\ at[c] = "wait" /\ fence[idx[c]] = "signaled" => result[idx[c]][plane[c]] = job[c]
    /\ ~abandoned /\ at[c] = "wait" /\ gpu[idx[c]] = "running" => fence[idx[c]] = "unsignaled"
    /\ ~abandoned /\ at[c] = "unpack" => result[idx[c]][plane[c]] = job[c]
DataInv ==
    /\ \A c \in Callers : Computes(c)
    /\ \A s \in Streams : gpu[s] = "running" => command[s] \in PlaneSet

Finished(c, p) ==
    \/ p \notin Processed
    \/ p < plane[c]
    \/ p = plane[c] /\ at[c] = "release" /\ ~failed[c]
PlanesInv ==
    ~abandoned => \A c \in Callers : at[c] # "outside" =>
        \A p \in PlaneSet : Finished(c, p) => dst[c][p] = job[c]

LeakInv ==
    faults = 0 =>
        /\ leaked = 0
        /\ \A s \in Streams, p \in PlaneSet :
              \/ buffers[s][p] = NoBuffers
              \/ phase # "destroyed" /\ buffers[s][p].initialized

IInv ==
    /\ PoolInv /\ TypeOK
    /\ ControlInv /\ BufferInv /\ QuietInv /\ DataInv /\ PlanesInv /\ LeakInv

-------------------------------------------------------------------------------

\* Every step of the executor is a step of the pool, or none.
LEMMA PoolSteps == [Next]_vars => [PoolNext]_poolVars
<1> SUFFICES ASSUME Next PROVE [PoolNext]_poolVars
  BY DEF vars
<1>1. ASSUME NEW c \in Callers, NEW f \in Frames, StartFrame(c, f) PROVE UNCHANGED poolVars
  BY <1>1 DEF StartFrame
<1>2. ASSUME NEW c \in Callers, Loop(c) PROVE UNCHANGED poolVars \/ Enter(c)
  BY <1>2 DEF Loop, SkipPlane, CallProcessPlane, PlaneDone, ReturnFrame, ReportError
<1>3. ASSUME NEW c \in Callers, PoolStep(c) PROVE PoolNext
  BY <1>3 DEF PoolStep, PoolNext
<1>4. ASSUME NEW c \in Callers, Process(c) \/ AllocateFails(c) \/ CreatePropsFails(c)
      PROVE  UNCHANGED poolVars
  BY <1>4 DEF Process, Inside, Allocate, CreateProps, Pack, Record, Submit, WaitFence, Unpack,
              SubmitFails, WaitFails, AllocateFails, CreatePropsFails
<1>5. ASSUME NEW s \in Streams, GpuFinishes(s) PROVE UNCHANGED poolVars
  BY <1>5 DEF GpuFinishes
<1>6. CASE LoseDevice \/ FreeFilter \/ DrainStep \/ DestroyExecutor
  BY <1>6 DEF LoseDevice, FreeFilter, DrainStep, DestroyExecutor, PoolNext, Drain
<1> QED
  BY <1>1, <1>2, <1>3, <1>4, <1>5, <1>6 DEF Next, PoolNext

\* So the pool's invariant is one of the executor.
LEMMA PoolInvStep == PoolInv /\ [Next]_vars => PoolInv'
BY PoolSteps, TypeStep, MutexStep, ExclusiveStep, AccountingStep, DrainedStep DEF PoolInv

\* A caller inside processPlane has a stream of its own, which is not destroyed.
LEMMA OwnStream ==
    ASSUME PoolInv, ControlInv, NEW c \in Callers, pc[c] = "using"
    PROVE  /\ idx[c] \in Streams /\ phase # "destroyed"
           /\ plane[c] \in Processed /\ plane[c] \in PlaneSet
           /\ \A d \in Callers : at[d] \in Statements /\ idx[d] = idx[c] => d = c
<1>1. c \in Owners
  BY DEF Owners
<1>2. idx[c] \in Streams /\ \A d \in Owners : idx[d] = idx[c] => d = c
  BY <1>1 DEF PoolInv, StreamExclusive
<1>3. \A d \in Callers : at[d] \in Statements => d \in Owners
  BY DEF ControlInv, Control, Owners
<1>4. phase # "destroyed"
  BY <1>1, QuiescentWhenDestroyed DEF DestroyedQuiescent
<1>5. plane[c] \in Processed
  BY DEF ControlInv, Control
<1> QED
  BY <1>2, <1>3, <1>4, <1>5, PlanesAssumption DEF PlaneSet

\* A record of resources stays one when its properties' buffers change.
LEMMA OtherProps ==
    ASSUME NEW b \in PlaneResources, NEW left \in {"none", "half", "ready"}
    PROVE  [b EXCEPT !.props = left] \in PlaneResources
BY DEF PlaneResources

\* What creating the first n buffers of a plane changes.
LEMMA CreatedSlots ==
    ASSUME StreamTypeOK, NEW s \in Streams, NEW p \in PlaneSet, NEW n \in 0 .. NumBuffers, CreateSlots(s, p, n)
    PROVE  /\ buffers' \in [Streams -> [PlaneSet -> PlaneResources]]
           /\ leaked' \in Nat
           /\ buffers[s][p].live = 0 => leaked' = leaked
           /\ buffers'[s][p].initialized = (n = NumBuffers)
           /\ buffers'[s][p].handle \in Handles
           /\ \A t \in Streams, q \in PlaneSet : t # s \/ q # p => buffers'[t][q] = buffers[t][q]
<1> DEFINE old == buffers[s][p].live
           kept == IF n < old THEN old ELSE n
           dropped == IF n < old THEN n ELSE old
<1>1. buffers \in [Streams -> [PlaneSet -> PlaneResources]] /\ leaked \in Nat
  BY DEF StreamTypeOK
<1>2. old \in 0 .. NumBuffers /\ kept \in 0 .. NumBuffers /\ dropped \in Nat /\ (old = 0 => dropped = 0)
  BY <1>1, DataAssumption DEF PlaneResources
<1>3. PICK h \in Handles :
        buffers' = [buffers EXCEPT ![s][p].live = kept, ![s][p].props = "none",
                                   ![s][p].initialized = (n = NumBuffers),
                                   ![s][p].made = @ + 1, ![s][p].handle = h]
  BY DEF CreateSlots
<1>4. leaked' = leaked + dropped
  BY DEF CreateSlots
<1>5. [initialized |-> n = NumBuffers, live |-> kept, props |-> "none", made |-> buffers[s][p].made + 1,
       handle |-> h] \in PlaneResources
  BY <1>1, <1>2 DEF PlaneResources
<1>6. buffers' = [buffers EXCEPT ![s] = [buffers[s] EXCEPT ![p] =
                    [initialized |-> n = NumBuffers, live |-> kept, props |-> "none",
                     made |-> buffers[s][p].made + 1, handle |-> h]]]
  BY <1>1, <1>3 DEF PlaneResources
<1> HIDE DEF old, kept, dropped
<1>7. buffers' \in [Streams -> [PlaneSet -> PlaneResources]]
  BY <1>1, <1>5, <1>6
<1> QED
  BY <1>1, <1>2, <1>4, <1>6, <1>7 DEF old

\* The initial state.
LEMMA InitIInv == Init => IInv
<1> SUFFICES ASSUME Init PROVE IInv
  OBVIOUS
<1> USE PlanesAssumption, DataAssumption DEF Init, PoolInit
<1>1. PoolInv
  BY InitInv
<1>2. TypeOK
  <2>1. NoBuffers \in PlaneResources
    BY DEF NoBuffers, PlaneResources
  <2>2. StreamTypeOK
    BY <2>1 DEF StreamTypeOK, Contents, Unbound
  <2>3. CallTypeOK
    BY DEF CallTypeOK, Contents
  <2>4. WorldTypeOK
    <3>1. faults \in 0 .. MaxFaults /\ answered \subseteq Frames
      OBVIOUS
    <3> QED
      BY <3>1 DEF WorldTypeOK
  <2> QED
    BY <1>1, <2>2, <2>3, <2>4 DEF TypeOK, PoolInv
<1>3. ControlInv
  BY DEF ControlInv, Control, Statements
<1>4. BufferInv /\ LeakInv
  BY DEF BufferInv, Described, Prepared, Statements, LeakInv, NoBuffers
<1>5. QuietInv /\ DataInv /\ PlanesInv
  BY DEF QuietInv, Quiet, DataInv, Computes, PlanesInv
<1> QED
  BY <1>1, <1>2, <1>3, <1>4, <1>5 DEF IInv

-------------------------------------------------------------------------------
(* Type correctness *)

LEMMA CallTypesStep == IInv /\ [Next]_vars => CallTypeOK'
<1> SUFFICES ASSUME IInv, [Next]_vars PROVE CallTypeOK'
  OBVIOUS
<1> USE PlanesAssumption DEF CallTypeOK, Contents, Step, Throw
<1>0. CallTypeOK
  BY DEF IInv, TypeOK
<1>1. ASSUME NEW c \in Callers, NEW f \in Frames, StartFrame(c, f) PROVE CallTypeOK'
  BY <1>0, <1>1 DEF StartFrame, PlaneSet
<1>2. ASSUME NEW c \in Callers, Loop(c) PROVE CallTypeOK'
  <2>1. CASE SkipPlane(c)
    BY <1>0, <2>1 DEF SkipPlane, PlaneSet
  <2>4. CASE CallProcessPlane(c)
    BY <1>0, <2>4 DEF CallProcessPlane
  <2>2. CASE PlaneDone(c)
    <3>1. plane[c] \in PlaneSet
      BY <2>2 DEF PlaneDone, IInv, ControlInv, Control, PlaneSet
    <3> QED
      BY <1>0, <2>2, <3>1 DEF PlaneDone, PlaneSet
  <2>3. CASE ReturnFrame(c) \/ ReportError(c)
    BY <1>0, <2>3 DEF ReturnFrame, ReportError
  <2> QED
    BY <1>2, <2>1, <2>2, <2>3, <2>4 DEF Loop
<1>3. ASSUME NEW c \in Callers, PoolStep(c) PROVE CallTypeOK'
  BY <1>0, <1>3 DEF PoolStep, callVars
<1>4. ASSUME NEW c \in Callers, Process(c) \/ AllocateFails(c) \/ CreatePropsFails(c) PROVE CallTypeOK'
  <2>1. CASE Unpack(c)
    <3>1. result \in [Streams -> [PlaneSet -> Contents]]
      BY DEF IInv, TypeOK, StreamTypeOK
    <3> QED
      BY <1>0, <2>1, <3>1 DEF Unpack
  <2>2. CASE Allocate(c) \/ CreateProps(c) \/ Pack(c) \/ Record(c) \/ Submit(c) \/ WaitFence(c)
    BY <1>0, <2>2 DEF Allocate, CreateProps, Pack, Record, Submit, WaitFence
  <2>3. CASE SubmitFails(c) \/ WaitFails(c) \/ AllocateFails(c) \/ CreatePropsFails(c)
    BY <1>0, <2>3 DEF SubmitFails, WaitFails, AllocateFails, CreatePropsFails
  <2> QED
    BY <1>4, <2>1, <2>2, <2>3 DEF Process
<1>5. ASSUME NEW s \in Streams, GpuFinishes(s) PROVE CallTypeOK'
  BY <1>0, <1>5 DEF GpuFinishes, callVars
<1>6. CASE LoseDevice \/ FreeFilter \/ DrainStep \/ DestroyExecutor \/ UNCHANGED vars
  BY <1>0, <1>6 DEF LoseDevice, FreeFilter, DrainStep, DestroyExecutor, vars, callVars
<1> QED
  BY <1>1, <1>2, <1>3, <1>4, <1>5, <1>6 DEF Next

LEMMA StreamTypesStep == IInv /\ [Next]_vars => StreamTypeOK'
<1> SUFFICES ASSUME IInv, [Next]_vars PROVE StreamTypeOK'
  OBVIOUS
<1>0. StreamTypeOK /\ CallTypeOK
  BY DEF IInv, TypeOK
<1>1. ASSUME UNCHANGED streamVars PROVE StreamTypeOK'
  BY <1>0, <1>1 DEF StreamTypeOK, streamVars
<1>2. ASSUME NEW c \in Callers, Allocate(c) \/ AllocateFails(c) PROVE StreamTypeOK'
  <2>1. UNCHANGED <<staged, result, command, bound, fence, gpu>>
    BY <1>2 DEF Allocate, AllocateFails
  <2>2. CASE UNCHANGED <<buffers, leaked>>
    BY <1>0, <2>1, <2>2 DEF StreamTypeOK
  <2>3. ASSUME NEW s \in Streams, NEW p \in PlaneSet, NEW n \in 0 .. NumBuffers, CreateSlots(s, p, n)
        PROVE  StreamTypeOK'
    <3>1. buffers' \in [Streams -> [PlaneSet -> PlaneResources]] /\ leaked' \in Nat
      BY <1>0, <2>3, CreatedSlots
    <3> QED
      BY <1>0, <2>1, <3>1 DEF StreamTypeOK
  <2> QED
    BY <1>2, <2>2, <2>3, DataAssumption DEF Allocate, AllocateFails
<1>3. ASSUME NEW c \in Callers, CreateProps(c) \/ CreatePropsFails(c) PROVE StreamTypeOK'
  <2>1. UNCHANGED <<leaked, staged, result, command, bound, fence, gpu>>
    BY <1>3 DEF CreateProps, CreatePropsFails
  <2>2. PICK s \in Streams, p \in PlaneSet, left \in {"none", "half", "ready"} :
           buffers' = [buffers EXCEPT ![s][p] = [@ EXCEPT !.props = left]]
    BY <1>3 DEF CreateProps, CreatePropsFails
  <2>3. [buffers[s][p] EXCEPT !.props = left] \in PlaneResources
    <3>1. buffers[s][p] \in PlaneResources
      BY <1>0 DEF StreamTypeOK
    <3> QED
      BY <3>1, OtherProps, Zenon
  <2>4. buffers' \in [Streams -> [PlaneSet -> PlaneResources]]
    BY <1>0, <2>2, <2>3 DEF StreamTypeOK
  <2> QED
    BY <1>0, <2>1, <2>4 DEF StreamTypeOK
<1>4. ASSUME NEW c \in Callers, Pack(c) PROVE StreamTypeOK'
  BY <1>0, <1>4 DEF Pack, StreamTypeOK, CallTypeOK, Contents
<1>5. ASSUME NEW c \in Callers, Record(c) PROVE StreamTypeOK'
  <2>1. PICK s \in Streams, p \in PlaneSet :
           command' = [command EXCEPT ![s] = p] /\ UpdateDescriptorSets(s, p)
    BY <1>5 DEF Record
  <2>2. buffers[s][p] \in PlaneResources /\ p \in 0 .. NumPlanes
    BY <1>0, PlanesAssumption DEF StreamTypeOK, PlaneSet
  <2>3. bound' \in [Streams -> [PlaneSet -> [made : Nat, handle : Handles \cup {Blank}]]]
    BY <1>0, <2>1, <2>2 DEF UpdateDescriptorSets, StreamTypeOK, PlaneResources
  <2> QED
    BY <1>0, <1>5, <2>1, <2>2, <2>3 DEF Record, StreamTypeOK
<1>6. ASSUME NEW c \in Callers, Submit(c) \/ WaitFence(c) PROVE StreamTypeOK'
  BY <1>0, <1>6 DEF Submit, WaitFence, StreamTypeOK
<1>7. ASSUME NEW s \in Streams, GpuFinishes(s) PROVE StreamTypeOK'
  <2>1. command[s] \in PlaneSet
    BY <1>7 DEF GpuFinishes, IInv, DataInv
  <2> QED
    BY <1>0, <1>7, <2>1 DEF GpuFinishes, StreamTypeOK
<1>8. CASE LoseDevice
  BY <1>0, <1>8 DEF LoseDevice, StreamTypeOK
<1>9. CASE DestroyExecutor
  <2>1. NoBuffers \in PlaneResources
    BY DataAssumption DEF NoBuffers, PlaneResources
  <2>2. \A s \in Streams, p \in PlaneSet : [buffers[s][p] EXCEPT !.props = "none"] \in PlaneResources
    <3>1. \A s \in Streams, p \in PlaneSet : buffers[s][p] \in PlaneResources
      BY <1>0 DEF StreamTypeOK
    <3>2. "none" \in {"none", "half", "ready"}
      OBVIOUS
    <3> QED
      BY <3>1, <3>2, OtherProps, Zenon
  <2> QED
    BY <1>0, <1>9, <2>1, <2>2 DEF DestroyExecutor, StreamTypeOK
<1>10. ASSUME NEW c \in Callers,
              (\E f \in Frames : StartFrame(c, f)) \/ Loop(c) \/ PoolStep(c) \/ Unpack(c) \/ SubmitFails(c)
                 \/ WaitFails(c)
       PROVE  UNCHANGED streamVars
  BY <1>10 DEF StartFrame, Loop, SkipPlane, CallProcessPlane, PlaneDone, ReturnFrame, ReportError, PoolStep,
               Unpack, SubmitFails, WaitFails
<1>11. CASE FreeFilter \/ DrainStep \/ UNCHANGED vars
  BY <1>1, <1>11 DEF FreeFilter, DrainStep, vars
<1> QED
  BY <1>1, <1>2, <1>3, <1>4, <1>5, <1>6, <1>7, <1>8, <1>9, <1>10, <1>11 DEF Next, Process

LEMMA WorldTypesStep == IInv /\ [Next]_vars => WorldTypeOK'
<1> SUFFICES ASSUME IInv, [Next]_vars PROVE WorldTypeOK'
  OBVIOUS
<1> USE DataAssumption DEF WorldTypeOK, MayFault
<1>0. WorldTypeOK /\ CallTypeOK
  BY DEF IInv, TypeOK
<1>1. ASSUME UNCHANGED worldVars PROVE WorldTypeOK'
  BY <1>0, <1>1 DEF worldVars
<1>2. ASSUME NEW c \in Callers, ReturnFrame(c) \/ ReportError(c) PROVE WorldTypeOK'
  <2>1. job[c] \in Frames
    BY <1>0, <1>2 DEF ReturnFrame, ReportError, Step, IInv, ControlInv, Control, CallTypeOK, Contents
  <2> QED
    BY <1>0, <1>2, <2>1 DEF ReturnFrame, ReportError
<1>3. ASSUME NEW c \in Callers, SubmitFails(c) \/ WaitFails(c) \/ AllocateFails(c) \/ CreatePropsFails(c)
      PROVE  WorldTypeOK'
  <2>1. faults' = faults \/ MayFault
    BY <1>3 DEF SubmitFails, WaitFails, AllocateFails, CreatePropsFails
  <2>2. abandoned' \in BOOLEAN /\ UNCHANGED <<lost, answered>>
    BY <1>0, <1>3 DEF SubmitFails, WaitFails, AllocateFails, CreatePropsFails
  <2> QED
    BY <1>0, <2>1, <2>2
<1>4. CASE LoseDevice
  BY <1>0, <1>4 DEF LoseDevice
<1>5. ASSUME NEW c \in Callers,
             \/ (\E f \in Frames : StartFrame(c, f)) \/ PoolStep(c)
             \/ SkipPlane(c) \/ CallProcessPlane(c) \/ PlaneDone(c)
             \/ Allocate(c) \/ CreateProps(c) \/ Pack(c) \/ Record(c) \/ Submit(c) \/ WaitFence(c) \/ Unpack(c)
      PROVE  UNCHANGED worldVars
  BY <1>5 DEF StartFrame, PoolStep, SkipPlane, CallProcessPlane, PlaneDone, Allocate, CreateProps, Pack,
              Record, Submit, WaitFence, Unpack
<1>6. ASSUME NEW s \in Streams, GpuFinishes(s) PROVE WorldTypeOK'
  BY <1>1, <1>6 DEF GpuFinishes
<1>7. CASE FreeFilter \/ DrainStep \/ DestroyExecutor \/ UNCHANGED vars
  BY <1>1, <1>7 DEF FreeFilter, DrainStep, DestroyExecutor, vars
<1> QED
  BY <1>1, <1>2, <1>3, <1>4, <1>5, <1>6, <1>7 DEF Next, Process, Loop

LEMMA TypeOKStep == IInv /\ [Next]_vars => TypeOK'
BY CallTypesStep, StreamTypesStep, WorldTypesStep, PoolInvStep DEF IInv, PoolInv, TypeOK

-------------------------------------------------------------------------------
(* Where the callers are *)

\* A caller that does not move keeps its place.
LEMMA ControlKept ==
    ASSUME NEW c \in Callers, Control(c), UNCHANGED <<at[c], pc[c], plane[c], failed[c], job[c]>>
    PROVE  Control(c)'
BY DEF Control

\* The pool moves a caller only where processPlane enters or leaves it.
LEMMA PoolStepMoves ==
    ASSUME IInv, NEW c \in Callers, PoolStep(c)
    PROVE  /\ UNCHANGED <<callVars, streamVars, worldVars, phase>>
           /\ Control(c)'
           /\ at[c] \notin Statements
           /\ \A d \in Callers : d # c => pc'[d] = pc[d] /\ idx'[d] = idx[d]
<1> USE DEF IInv, PoolInv, PoolTypeOK, Goto
<1>1. Control(c)
  BY DEF ControlInv
<1>2. UNCHANGED <<callVars, streamVars, worldVars, phase>>
  BY DEF PoolStep, Take, GiveBack, AcquirePermit, LockToPop, ReadFront, PopFront, LockToPush, PushIndex,
         PostPermit
<1>3. UNCHANGED <<at, job, plane, failed>>
  BY <1>2 DEF callVars
<1>4. \A d \in Callers : d # c => pc'[d] = pc[d] /\ idx'[d] = idx[d]
  BY DEF PoolStep, Take, GiveBack, AcquirePermit, LockToPop, ReadFront, PopFront, LockToPush, PushIndex,
         PostPermit
<1>5. CASE Take(c)
  <2>1. pc[c] \in Acquiring \ {"using"} /\ pc'[c] \in Acquiring
    BY <1>5 DEF Take, AcquirePermit, LockToPop, ReadFront, PopFront, Acquiring
  <2>2. at[c] = "allocate"
    BY <1>1, <2>1 DEF Control, Acquiring, Releasing, Statements, TypeOK, CallTypeOK
  <2> QED
    BY <1>1, <1>2, <1>3, <1>4, <2>1, <2>2 DEF Control, Statements
<1>6. CASE (at[c] = "release" /\ LockToPush(c)) \/ GiveBack(c)
  <2>1. pc[c] \in Releasing \ {"idle"} /\ pc'[c] \in Releasing
    BY <1>6 DEF GiveBack, LockToPush, PushIndex, PostPermit, Releasing
  <2>2. at[c] = "release"
    BY <1>1, <1>6 DEF Control, Acquiring, Statements, TypeOK, CallTypeOK, GiveBack, PushIndex, PostPermit
  <2> QED
    BY <1>1, <1>2, <1>3, <1>4, <2>1, <2>2 DEF Control, Statements
<1> QED
  BY <1>5, <1>6 DEF PoolStep

\* A statement of processPlane: who runs it, and where it may go.
LEMMA ProcessMoves ==
    ASSUME IInv, NEW c \in Callers, Process(c) \/ AllocateFails(c) \/ CreatePropsFails(c)
    PROVE  /\ pc[c] = "using" /\ UNCHANGED <<pc, idx, phase, job, plane, answered>>
           /\ at[c] \in Statements \cup {"allocate"} /\ at'[c] \in Statements \cup {"release"}
           /\ \A d \in Callers : d # c => at'[d] = at[d] /\ failed'[d] = failed[d] /\ dst'[d] = dst[d]
           /\ failed'[c] => at'[c] = "release"
<1> USE DEF Inside, Step, Throw, poolVars, Statements
<1>1. /\ at \in [Callers -> {"outside", "planes", "allocate", "props", "pack", "record", "submit", "wait",
                             "unpack", "release"}]
      /\ failed \in [Callers -> BOOLEAN]
      /\ dst \in [Callers -> [PlaneSet -> Contents]]
  BY DEF IInv, TypeOK, CallTypeOK
<1>2. failed[c] => at[c] = "release"
  BY DEF IInv, ControlInv, Control
<1>3. CASE Unpack(c)
  BY <1>1, <1>2, <1>3 DEF Unpack, worldVars
<1>4. CASE Allocate(c) \/ CreateProps(c) \/ Pack(c) \/ Record(c) \/ Submit(c) \/ WaitFence(c)
  BY <1>1, <1>2, <1>4 DEF Allocate, CreateProps, Pack, Record, Submit, WaitFence, worldVars
<1>5. CASE SubmitFails(c) \/ WaitFails(c) \/ AllocateFails(c) \/ CreatePropsFails(c)
  BY <1>1, <1>5 DEF SubmitFails, WaitFails, AllocateFails, CreatePropsFails
<1> QED
  BY <1>3, <1>4, <1>5 DEF Process

\* The other steps of a caller keep out of the streams.
LEMMA LoopMoves ==
    ASSUME IInv, NEW c \in Callers, (\E f \in Frames : StartFrame(c, f)) \/ Loop(c)
    PROVE  /\ UNCHANGED <<streamVars, idx, phase, lost, faults, abandoned>>
           /\ at[c] \notin Statements /\ at'[c] \notin Statements
           /\ Control(c)'
           /\ \A d \in Callers : d # c =>
                 UNCHANGED <<at[d], pc[d], plane[d], failed[d], job[d], dst[d]>>
<1> USE DEF Step, Statements, IInv, TypeOK, CallTypeOK, PoolTypeOK, Contents
<1>0. Control(c)
  BY DEF ControlInv
<1>1. ASSUME NEW f \in Frames, StartFrame(c, f)
      PROVE  /\ UNCHANGED <<streamVars, idx, phase, lost, faults, abandoned>>
             /\ at[c] \notin Statements /\ at'[c] \notin Statements
             /\ Control(c)'
             /\ \A d \in Callers : d # c =>
                   UNCHANGED <<at[d], pc[d], plane[d], failed[d], job[d], dst[d]>>
  BY <1>0, <1>1, DataAssumption DEF StartFrame, Control, poolVars, worldVars
<1>2. CASE CallProcessPlane(c)
  BY <1>0, <1>2 DEF CallProcessPlane, Control, Enter, Goto, Acquiring, worldVars
<1>3. CASE SkipPlane(c) \/ PlaneDone(c)
  BY <1>0, <1>3 DEF SkipPlane, PlaneDone, Control, poolVars, worldVars
<1>4. CASE ReturnFrame(c) \/ ReportError(c)
  BY <1>0, <1>4 DEF ReturnFrame, ReportError, Control, poolVars
<1> QED
  BY <1>1, <1>2, <1>3, <1>4 DEF Loop

LEMMA ControlStep == IInv /\ [Next]_vars => ControlInv'
<1> SUFFICES ASSUME IInv, [Next]_vars PROVE ControlInv'
  OBVIOUS
<1>0. ControlInv
  BY DEF IInv
<1>1. ASSUME NEW c \in Callers, (\E f \in Frames : StartFrame(c, f)) \/ Loop(c) PROVE ControlInv'
  BY <1>0, <1>1, LoopMoves, ControlKept DEF ControlInv
<1>2. ASSUME NEW c \in Callers, PoolStep(c) PROVE ControlInv'
  BY <1>0, <1>2, PoolStepMoves, ControlKept DEF ControlInv, callVars
<1>3. ASSUME NEW c \in Callers, Process(c) \/ AllocateFails(c) \/ CreatePropsFails(c) PROVE ControlInv'
  <2>1. Control(c) /\ job[c] # Blank /\ plane[c] \in Processed
    BY <1>0, <1>3, ProcessMoves DEF ControlInv, Control, Statements
  <2>2. Control(c)'
    BY <1>3, <2>1, ProcessMoves DEF Control, Statements, Releasing
  <2> QED
    BY <1>0, <1>3, <2>2, ProcessMoves, ControlKept DEF ControlInv
<1>4. CASE (\E s \in Streams : GpuFinishes(s)) \/ LoseDevice \/ FreeFilter \/ DrainStep \/ DestroyExecutor
             \/ UNCHANGED vars
  <2>1. UNCHANGED <<at, pc, plane, failed, job>>
    BY <1>4 DEF GpuFinishes, LoseDevice, FreeFilter, BeginDrain, DrainStep, DrainPermit, DestroyExecutor,
                Destroy, vars, callVars, poolVars
  <2> QED
    BY <1>0, <2>1 DEF ControlInv, Control
<1> QED
  BY <1>1, <1>2, <1>3, <1>4 DEF Next

-------------------------------------------------------------------------------
(* What the streams keep *)

\* A statement changes what is kept for its stream and plane only.
LEMMA ProcessTouches ==
    ASSUME IInv, NEW c \in Callers, Process(c) \/ AllocateFails(c) \/ CreatePropsFails(c)
    PROVE  \A t \in Streams :
             /\ t # idx[c] => /\ buffers'[t] = buffers[t] /\ bound'[t] = bound[t]
                             /\ staged'[t] = staged[t] /\ result'[t] = result[t] /\ command'[t] = command[t]
                             /\ fence'[t] = fence[t] /\ gpu'[t] = gpu[t]
             /\ \A q \in PlaneSet : t # idx[c] \/ q # plane[c] =>
                   buffers'[t][q] = buffers[t][q] /\ bound'[t][q] = bound[t][q]
<1> USE DEF Inside
<1>1. StreamTypeOK
  BY DEF IInv, TypeOK
<1>2. CASE Allocate(c) \/ AllocateFails(c)
  <2>1. UNCHANGED <<staged, result, command, bound, fence, gpu>>
    BY <1>2 DEF Allocate, AllocateFails
  <2>2. CASE UNCHANGED buffers
    BY <2>1, <2>2
  <2>3. ASSUME NEW n \in 0 .. NumBuffers, idx[c] \in Streams, plane[c] \in PlaneSet,
               CreateSlots(idx[c], plane[c], n)
        PROVE  \A t \in Streams, q \in PlaneSet : t # idx[c] \/ q # plane[c] => buffers'[t][q] = buffers[t][q]
    BY <1>1, <2>3, CreatedSlots
  <2>4. \A t \in Streams, q \in PlaneSet : t # idx[c] \/ q # plane[c] => buffers'[t][q] = buffers[t][q]
    BY <1>2, <2>2, <2>3, DataAssumption DEF Allocate, AllocateFails
  <2>5. StreamTypeOK'
    BY StreamTypesStep, <1>2 DEF Next, Process
  <2>6. \A t \in Streams : /\ buffers[t] \in [PlaneSet -> PlaneResources]
                         /\ buffers'[t] \in [PlaneSet -> PlaneResources]
    BY <1>1, <2>5 DEF StreamTypeOK
  <2> QED
    BY <2>1, <2>4, <2>6
<1>3. CASE CreateProps(c) \/ CreatePropsFails(c) \/ Pack(c)
  BY <1>1, <1>3 DEF CreateProps, CreatePropsFails, Pack, StreamTypeOK
<1>4. CASE Record(c)
  BY <1>1, <1>4 DEF Record, UpdateDescriptorSets, StreamTypeOK
<1>5. CASE Submit(c) \/ WaitFence(c)
  BY <1>1, <1>5 DEF Submit, WaitFence, StreamTypeOK
<1>6. CASE SubmitFails(c) \/ WaitFails(c) \/ Unpack(c)
  BY <1>6 DEF SubmitFails, WaitFails, Unpack, streamVars
<1> QED
  BY <1>2, <1>3, <1>4, <1>5, <1>6 DEF Process

\* Nobody else is at a statement with the stream of a caller.
LEMMA OthersElsewhere ==
    ASSUME IInv, NEW c \in Callers, pc[c] = "using", NEW d \in Callers, d # c, at[d] \in Statements
    PROVE  idx[d] \in Streams /\ idx[d] # idx[c] /\ plane[d] \in PlaneSet
BY OwnStream DEF IInv, ControlInv, Control

\* The steps that leave buffers and descriptor sets alone.
LEMMA BufferKept ==
    ASSUME IInv, UNCHANGED <<buffers, bound>>, phase' = "destroyed" \/ phase # "destroyed",
           \A d \in Callers : at'[d] \in Statements => UNCHANGED <<at[d], idx[d], plane[d]>>
    PROVE  BufferInv'
<1>1. BufferInv
  BY DEF IInv
<1>2. Streams' = Streams /\ PlaneSet' = PlaneSet
  BY DEF Streams, PlaneSet
<1>3. ASSUME NEW d \in Callers PROVE Prepared(d)'
  BY <1>1 DEF BufferInv, Prepared, Statements
<1> QED
  BY <1>1, <1>2, <1>3 DEF BufferInv, Described

LEMMA BufferStep == IInv /\ [Next]_vars => BufferInv'
<1> SUFFICES ASSUME IInv, [Next]_vars PROVE BufferInv'
  OBVIOUS
<1>0. BufferInv /\ StreamTypeOK /\ phase \in {"open", "draining", "destroyed"}
  BY DEF IInv, TypeOK, PoolTypeOK
<1>1. ASSUME NEW c \in Callers, (\E f \in Frames : StartFrame(c, f)) \/ Loop(c) PROVE BufferInv'
  BY <1>1, LoopMoves, BufferKept DEF streamVars
<1>2. ASSUME NEW c \in Callers, PoolStep(c) PROVE BufferInv'
  BY <1>2, PoolStepMoves, BufferKept DEF streamVars, callVars
<1>3. ASSUME NEW c \in Callers, Process(c) \/ AllocateFails(c) \/ CreatePropsFails(c) PROVE BufferInv'
  <2>1. idx[c] \in Streams /\ plane[c] \in PlaneSet /\ phase # "destroyed" /\ pc[c] = "using"
    BY <1>3, ProcessMoves, OwnStream DEF IInv
  <2>2. UNCHANGED <<idx, plane, phase>> /\ Prepared(c) /\ Described(idx[c], plane[c])
    BY <1>0, <1>3, <2>1, ProcessMoves DEF BufferInv
  <2>3. ASSUME Described(idx[c], plane[c])', Prepared(c)' PROVE BufferInv'
    <3>1. ASSUME NEW t \in Streams, NEW q \in PlaneSet PROVE Described(t, q)'
      <4>1. CASE t = idx[c] /\ q = plane[c]
        BY <2>2, <2>3, <4>1
      <4>2. CASE ~(t = idx[c] /\ q = plane[c])
        <5>1. buffers'[t][q] = buffers[t][q] /\ bound'[t][q] = bound[t][q]
          BY <1>3, <4>2, ProcessTouches
        <5> QED
          BY <1>0, <2>2, <5>1 DEF BufferInv, Described
      <4> QED
        BY <4>1, <4>2
    <3>2. ASSUME NEW d \in Callers, d # c PROVE Prepared(d)'
      <4>1. at'[d] = at[d] /\ Prepared(d)
        BY <1>0, <1>3, <3>2, ProcessMoves DEF BufferInv
      <4>2. CASE at[d] \in Statements
        <5>1. buffers'[idx[d]] = buffers[idx[d]] /\ bound'[idx[d]] = bound[idx[d]]
          BY <1>3, <2>1, <3>2, <4>2, OthersElsewhere, ProcessTouches
        <5> QED
          BY <2>2, <4>1, <5>1 DEF Prepared
      <4> QED
        BY <4>1, <4>2 DEF Prepared, Statements
    <3> QED
      BY <2>3, <3>1, <3>2 DEF BufferInv, Streams, PlaneSet
  <2> DEFINE s == idx[c]
             p == plane[c]
  <2>4. /\ buffers[s][p] \in PlaneResources
        /\ bound[s][p] \in [made : Nat, handle : Handles \cup {Blank}]
    BY <1>0, <2>1 DEF StreamTypeOK
  <2>5. CASE Allocate(c)
    <3>1. CASE buffers[s][p].initialized
      <4>1. UNCHANGED <<buffers, bound>> /\ at'[c] = "props"
        BY <2>1, <2>5, <3>1 DEF Allocate, Inside, Step, IInv, TypeOK, CallTypeOK
      <4> QED
        BY <2>2, <2>3, <3>1, <4>1 DEF Described, Prepared
    <3>2. CASE ~buffers[s][p].initialized
      <4>1. CreateSlots(s, p, NumBuffers) /\ UNCHANGED bound /\ at'[c] = "props"
        BY <2>1, <2>5, <3>2 DEF Allocate, Inside, Step, IInv, TypeOK, CallTypeOK
      <4>2. buffers'[s][p].initialized /\ buffers'[s][p].handle \in Handles
        <5>1. NumBuffers \in 0 .. NumBuffers
          BY DataAssumption
        <5> QED
          BY <1>0, <2>1, <4>1, <5>1, CreatedSlots
      <4>3. bound'[s][p] = Unbound
        BY <2>1, <2>2, <3>2, <4>1 DEF Described
      <4> QED
        BY <2>2, <2>3, <4>1, <4>2, <4>3 DEF Described, Prepared
    <3> QED
      BY <3>1, <3>2
  <2>6. CASE AllocateFails(c)
    <3>1. /\ ~buffers[s][p].initialized /\ UNCHANGED bound /\ at'[c] = "release"
          /\ \E n \in 0 .. NumBuffers - 1 : CreateSlots(s, p, n)
      BY <2>1, <2>6 DEF AllocateFails, Inside, Throw, Step, IInv, TypeOK, CallTypeOK
    <3>2. ~buffers'[s][p].initialized
      <4>1. PICK n \in 0 .. NumBuffers - 1 : CreateSlots(s, p, n)
        BY <3>1
      <4>2. n \in 0 .. NumBuffers /\ n # NumBuffers
        BY DataAssumption
      <4> QED
        BY <1>0, <2>1, <4>1, <4>2, CreatedSlots
    <3>3. bound'[s][p] = Unbound
      BY <2>1, <2>2, <3>1 DEF Described
    <3> QED
      BY <2>2, <2>3, <3>1, <3>2, <3>3 DEF Described, Prepared, Statements
  <2>7. CASE CreateProps(c) \/ CreatePropsFails(c)
    <3>1. /\ UNCHANGED bound /\ at[c] = "props" /\ at'[c] \in {"pack", "release"}
          /\ \E left : buffers' = [buffers EXCEPT ![s][p] = [@ EXCEPT !.props = left]]
      BY <2>1, <2>7 DEF CreateProps, CreatePropsFails, Inside, Throw, Step, IInv, TypeOK, CallTypeOK
    <3>2. /\ buffers'[s][p].initialized = buffers[s][p].initialized
          /\ buffers'[s][p].handle = buffers[s][p].handle /\ buffers'[s][p].made = buffers[s][p].made
      BY <1>0, <2>1, <2>4, <3>1 DEF StreamTypeOK, PlaneResources
    <3> QED
      BY <2>2, <2>3, <3>1, <3>2 DEF Described, Prepared, Statements
  <2>8. CASE Record(c)
    <3>1. UNCHANGED buffers /\ at[c] = "record" /\ at'[c] = "submit" /\ UpdateDescriptorSets(s, p)
      BY <2>1, <2>8 DEF Record, Inside, Step, IInv, TypeOK, CallTypeOK
    <3>2. buffers[s][p].initialized /\ buffers[s][p].handle \in Handles
      BY <2>2, <3>1 DEF Prepared, Described, Statements
    <3>3. bound'[s][p] = [made |-> buffers[s][p].made, handle |-> buffers[s][p].handle]
      <4>1. CASE bound[s][p].handle = buffers[s][p].handle
        <5>1. bound[s][p] # Unbound
          BY <3>2, <4>1, DataAssumption DEF Unbound
        <5> QED
          BY <2>1, <2>2, <3>1, <4>1, <5>1 DEF Described, UpdateDescriptorSets
      <4>2. CASE bound[s][p].handle # buffers[s][p].handle
        BY <1>0, <2>1, <3>1, <4>2 DEF UpdateDescriptorSets, StreamTypeOK
      <4> QED
        BY <4>1, <4>2
    <3> QED
      BY <2>2, <2>3, <3>1, <3>2, <3>3 DEF Described, Prepared
  <2>9. CASE Pack(c) \/ Submit(c) \/ SubmitFails(c) \/ WaitFence(c) \/ WaitFails(c) \/ Unpack(c)
    <3>1. /\ UNCHANGED <<buffers, bound>> /\ at[c] \in Statements
          /\ at'[c] \in {"record", "wait", "unpack", "release"}
      BY <2>9 DEF Pack, Submit, SubmitFails, WaitFence, WaitFails, Unpack, Throw, Step, IInv, TypeOK, CallTypeOK,
                  streamVars, Statements
    <3> QED
      BY <2>2, <2>3, <3>1 DEF Described, Prepared
  <2> QED
    BY <1>3, <2>5, <2>6, <2>7, <2>8, <2>9 DEF Process
<1>4. CASE (\E s \in Streams : GpuFinishes(s)) \/ LoseDevice \/ FreeFilter \/ DrainStep \/ UNCHANGED vars
  <2>1. UNCHANGED <<buffers, bound, at, idx, plane>> /\ (phase' = "destroyed" => phase = "destroyed")
    BY <1>4 DEF GpuFinishes, LoseDevice, FreeFilter, BeginDrain, DrainStep, DrainPermit, vars, callVars,
                poolVars, streamVars
  <2>2. phase' = phase \/ phase # "destroyed"
    BY <1>4 DEF GpuFinishes, LoseDevice, FreeFilter, BeginDrain, DrainStep, DrainPermit, vars, poolVars
  <2> QED
    BY <2>1, <2>2, BufferKept
<1>5. CASE DestroyExecutor
  <2>1. phase' = "destroyed" /\ UNCHANGED <<at, pc>>
    BY <1>5 DEF DestroyExecutor, Destroy, callVars
  <2>2. \A c \in Callers : at'[c] \notin Statements
    <3>1. PoolInv' /\ ControlInv
      BY PoolInvStep DEF IInv
    <3>2. DestroyedQuiescent'
      BY <3>1, QuiescentWhenDestroyed, PTL
    <3>3. \A c \in Callers : pc'[c] # "using"
      BY <2>1, <3>2 DEF DestroyedQuiescent, Owners
    <3> QED
      BY <2>1, <3>1, <3>3 DEF ControlInv, Control
  <2>3. \A s \in Streams, p \in PlaneSet : ~buffers'[s][p].initialized
    BY <1>0, <1>5 DEF DestroyExecutor, NoBuffers, StreamTypeOK, PlaneResources
  <2> QED
    BY <2>1, <2>2, <2>3 DEF BufferInv, Described, Prepared, Streams, PlaneSet, Statements
<1> QED
  BY <1>1, <1>2, <1>3, <1>4, <1>5 DEF Next

-------------------------------------------------------------------------------
(* The GPU, and whose frame is in the buffers *)

\* The steps that neither touch a stream nor move a caller that has one.
LEMMA StreamsKept ==
    ASSUME IInv, UNCHANGED <<staged, result, command, fence, gpu, lost, abandoned>>,
           \A d \in Callers : at[d] \in Statements \/ at'[d] \in Statements =>
              UNCHANGED <<at[d], idx[d], plane[d], job[d]>>
    PROVE  QuietInv' /\ DataInv'
<1>1. QuietInv /\ DataInv
  BY DEF IInv
<1>2. Streams' = Streams /\ PlaneSet' = PlaneSet
  BY DEF Streams, PlaneSet
<1>3. ASSUME NEW s \in Streams, Awaited(s) PROVE Awaited(s)'
  BY <1>3 DEF Awaited, Statements
<1>4. ASSUME NEW d \in Callers PROVE Computes(d)'
  BY <1>1 DEF DataInv, Computes, Statements
<1> QED
  BY <1>1, <1>2, <1>3, <1>4 DEF QuietInv, DataInv, Quiet

\* Before it waits, a caller finds its stream quiet.
LEMMA OwnQuiet ==
    ASSUME IInv, ~abandoned, NEW c \in Callers, pc[c] = "using", at[c] # "wait"
    PROVE  Quiet(idx[c])
<1>1. idx[c] \in Streams /\ ~Awaited(idx[c])
  BY OwnStream DEF IInv, Awaited, Statements
<1> QED
  BY <1>1 DEF IInv, QuietInv

\* The steps of the executor that only matter to the pool.
LEMMA OtherSteps ==
    ASSUME IInv, FreeFilter \/ DrainStep \/ DestroyExecutor \/ UNCHANGED vars
    PROVE  /\ UNCHANGED <<callVars, pc, idx, leaked, staged, result, command, bound, fence, gpu, worldVars>>
           /\ ~DestroyExecutor => UNCHANGED buffers /\ (phase' = "destroyed" => phase = "destroyed")
BY DEF FreeFilter, BeginDrain, DrainStep, DrainPermit, DestroyExecutor, Destroy, vars, callVars, poolVars,
       streamVars, worldVars

LEMMA QuietStep == IInv /\ [Next]_vars => QuietInv'
<1> SUFFICES ASSUME IInv, [Next]_vars PROVE QuietInv'
  OBVIOUS
<1>0. QuietInv /\ StreamTypeOK /\ lost \in BOOLEAN /\ abandoned \in BOOLEAN
  BY DEF IInv, TypeOK, WorldTypeOK
<1>1. ASSUME NEW c \in Callers, (\E f \in Frames : StartFrame(c, f)) \/ Loop(c) PROVE QuietInv'
  BY <1>1, LoopMoves, StreamsKept DEF streamVars
<1>2. ASSUME NEW c \in Callers, PoolStep(c) PROVE QuietInv'
  BY <1>2, PoolStepMoves, StreamsKept DEF streamVars, callVars, worldVars
<1>3. ASSUME NEW c \in Callers, Process(c) \/ AllocateFails(c) \/ CreatePropsFails(c) PROVE QuietInv'
  <2>1. idx[c] \in Streams /\ plane[c] \in PlaneSet /\ pc[c] = "using" /\ UNCHANGED idx
    BY <1>3, ProcessMoves, OwnStream DEF IInv
  <2> DEFINE s == idx[c]
  <2>2. ASSUME NEW t \in Streams, t # s, Quiet(t) \/ Awaited(t) PROVE (Quiet(t) \/ Awaited(t))'
    <3>1. CASE Quiet(t)
      BY <1>3, <2>2, <3>1, ProcessTouches DEF Quiet
    <3>2. CASE Awaited(t)
      BY <1>3, <2>1, <2>2, <3>2, ProcessMoves DEF Awaited
    <3> QED
      BY <2>2, <3>1, <3>2
  <2>3. ASSUME ~abandoned' => ~abandoned /\ (Quiet(s) \/ Awaited(s))',
               lost' = lost, lost => gpu'[s] = "idle"
        PROVE  QuietInv'
    <3>1. \A t \in Streams : t # s => gpu'[t] = gpu[t]
      BY <1>3, ProcessTouches
    <3>2. ASSUME lost' PROVE \A t \in Streams : gpu'[t] = "idle"
      BY <1>0, <2>3, <3>1, <3>2 DEF QuietInv
    <3>3. ASSUME ~abandoned' PROVE \A t \in Streams : (Quiet(t) \/ Awaited(t))'
      <4>1. ~abandoned /\ \A t \in Streams : Quiet(t) \/ Awaited(t)
        BY <1>0, <2>3, <3>3 DEF QuietInv
      <4>2. (Quiet(s) \/ Awaited(s))'
        BY <2>3, <3>3
      <4> SUFFICES ASSUME NEW t \in Streams, t # s PROVE (Quiet(t) \/ Awaited(t))'
        BY <2>1, <4>2 DEF Quiet, Awaited
      <4> QED
        BY <2>2, <4>1
    <3> QED
      BY <3>2, <3>3 DEF QuietInv, Streams
  <2>4. CASE Submit(c)
    <3>1. at'[c] = "wait" /\ UNCHANGED worldVars /\ ~lost
      BY <2>4 DEF Submit, Step, IInv, TypeOK, CallTypeOK
    <3> QED
      BY <2>1, <2>3, <3>1 DEF Awaited, worldVars
  <2>5. CASE WaitFence(c)
    <3>1. at[c] = "wait" /\ fence[s] = "signaled" /\ fence'[s] = "unsignaled" /\ UNCHANGED <<gpu, worldVars>>
      BY <1>0, <2>1, <2>5 DEF WaitFence, Step, Inside, StreamTypeOK
    <3>2. ~abandoned => gpu[s] = "idle"
      BY <1>0, <2>1, <3>1 DEF IInv, DataInv, Computes, StreamTypeOK
    <3> QED
      BY <1>0, <2>1, <2>3, <3>1, <3>2 DEF Quiet, QuietInv, worldVars
  <2>6. CASE WaitFails(c)
    <3>1. /\ \/ lost /\ fence[s] = "unsignaled" /\ UNCHANGED abandoned
             \/ abandoned'
          /\ UNCHANGED <<gpu, fence, lost>>
      BY <2>1, <2>6 DEF WaitFails, Inside, streamVars
    <3> QED
      BY <1>0, <2>1, <2>3, <3>1 DEF Quiet, QuietInv
  <2>7. CASE ~(Submit(c) \/ WaitFence(c) \/ WaitFails(c))
    <3>1. at[c] # "wait" /\ UNCHANGED <<gpu, fence, lost, abandoned>>
      BY <1>3, <2>7 DEF Process, Allocate, CreateProps, Pack, Record, Unpack, SubmitFails, AllocateFails,
                        CreatePropsFails, Step, Throw, streamVars, worldVars
    <3>2. ~abandoned => Quiet(s)
      BY <2>1, <3>1, OwnQuiet
    <3> QED
      BY <1>0, <2>1, <2>3, <3>1, <3>2 DEF Quiet, QuietInv
  <2> QED
    BY <2>4, <2>5, <2>6, <2>7
<1>4. ASSUME NEW s \in Streams, GpuFinishes(s) PROVE QuietInv'
  <2>1. /\ gpu[s] = "running" /\ gpu' = [gpu EXCEPT ![s] = "idle"] /\ UNCHANGED <<at, idx, lost, abandoned>>
        /\ fence' = [fence EXCEPT ![s] = "signaled"]
    BY <1>4 DEF GpuFinishes, callVars, poolVars, worldVars
  <2> QED
    BY <1>0, <2>1 DEF QuietInv, Quiet, Awaited, StreamTypeOK, Streams
<1>5. CASE LoseDevice
  <2>1. gpu' = [s \in Streams |-> "idle"] /\ UNCHANGED <<at, idx, fence, abandoned>>
    BY <1>5 DEF LoseDevice, callVars, poolVars
  <2> QED
    BY <1>0, <2>1 DEF QuietInv, Quiet, Awaited, Streams
<1>6. CASE FreeFilter \/ DrainStep \/ DestroyExecutor \/ UNCHANGED vars
  BY <1>6, OtherSteps, StreamsKept DEF callVars, worldVars
<1> QED
  BY <1>1, <1>2, <1>3, <1>4, <1>5, <1>6 DEF Next

LEMMA DataStep == IInv /\ [Next]_vars => DataInv'
<1> SUFFICES ASSUME IInv, [Next]_vars PROVE DataInv'
  OBVIOUS
<1>0. DataInv /\ StreamTypeOK /\ CallTypeOK /\ abandoned \in BOOLEAN
  BY DEF IInv, TypeOK, WorldTypeOK
<1>1. ASSUME NEW c \in Callers, (\E f \in Frames : StartFrame(c, f)) \/ Loop(c) PROVE DataInv'
  BY <1>1, LoopMoves, StreamsKept DEF streamVars
<1>2. ASSUME NEW c \in Callers, PoolStep(c) PROVE DataInv'
  BY <1>2, PoolStepMoves, StreamsKept DEF streamVars, callVars, worldVars
<1>3. ASSUME NEW c \in Callers, Process(c) \/ AllocateFails(c) \/ CreatePropsFails(c) PROVE DataInv'
  <2>1. idx[c] \in Streams /\ plane[c] \in PlaneSet /\ pc[c] = "using" /\ UNCHANGED <<idx, plane, job>>
    BY <1>3, ProcessMoves, OwnStream DEF IInv
  <2> DEFINE s == idx[c]
             p == plane[c]
  <2>2. Computes(c) /\ (gpu[s] = "running" => command[s] \in PlaneSet)
    BY <1>0, <2>1 DEF DataInv
  <2>3. ~abandoned' => ~abandoned
    BY <1>3 DEF Process, Allocate, CreateProps, Pack, Record, Submit, WaitFence, Unpack, SubmitFails, WaitFails,
                AllocateFails, CreatePropsFails, worldVars
  <2>4. ASSUME Computes(c)', gpu'[s] = "running" => command'[s] \in PlaneSet PROVE DataInv'
    <3>1. \A t \in Streams : t # s => gpu'[t] = gpu[t] /\ command'[t] = command[t]
      BY <1>3, ProcessTouches
    <3>2. ASSUME NEW d \in Callers, d # c PROVE Computes(d)'
      <4>1. at'[d] = at[d] /\ Computes(d)
        BY <1>0, <1>3, <3>2, ProcessMoves DEF DataInv
      <4>2. CASE at[d] \in Statements
        <5>1. /\ staged'[idx[d]] = staged[idx[d]] /\ result'[idx[d]] = result[idx[d]]
              /\ command'[idx[d]] = command[idx[d]] /\ fence'[idx[d]] = fence[idx[d]]
              /\ gpu'[idx[d]] = gpu[idx[d]]
          BY <1>3, <2>1, <3>2, <4>2, OthersElsewhere, ProcessTouches
        <5> QED
          BY <2>1, <2>3, <4>1, <5>1 DEF Computes
      <4> QED
        BY <4>1, <4>2 DEF Computes, Statements
    <3> QED
      BY <1>0, <2>4, <3>1, <3>2 DEF DataInv, Streams, PlaneSet
  <2>5. CASE Pack(c)
    <3>1. at'[c] = "record" /\ staged'[s][p] = job[c] /\ UNCHANGED <<gpu, command>>
      BY <1>0, <2>1, <2>5 DEF Pack, Inside, Step, StreamTypeOK, CallTypeOK
    <3> QED
      BY <2>1, <2>2, <2>4, <3>1 DEF Computes
  <2>6. CASE Record(c)
    <3>1. at[c] = "record" /\ at'[c] = "submit" /\ command'[s] = p /\ UNCHANGED staged
      BY <1>0, <2>1, <2>6 DEF Record, Inside, Step, StreamTypeOK, CallTypeOK
    <3> QED
      BY <2>1, <2>2, <2>4, <3>1 DEF Computes
  <2>7. CASE Submit(c)
    <3>1. at[c] = "submit" /\ at'[c] = "wait" /\ UNCHANGED <<staged, command, fence, abandoned>>
      BY <1>0, <2>7 DEF Submit, Step, CallTypeOK, worldVars
    <3>2. ~abandoned => fence[s] = "unsignaled"
      BY <2>1, <3>1, OwnQuiet DEF Quiet
    <3> QED
      BY <2>1, <2>2, <2>4, <3>1, <3>2 DEF Computes
  <2>8. CASE WaitFence(c)
    <3>1. at[c] = "wait" /\ at'[c] = "unpack" /\ fence[s] = "signaled"
          /\ UNCHANGED <<result, gpu, command, abandoned>>
      BY <1>0, <2>8 DEF WaitFence, Inside, Step, CallTypeOK, worldVars
    <3> QED
      BY <2>1, <2>2, <2>4, <3>1 DEF Computes
  <2>9. CASE ~(Pack(c) \/ Record(c) \/ Submit(c) \/ WaitFence(c))
    <3>1. at'[c] \in {"props", "pack", "release"} /\ UNCHANGED <<gpu, command>>
      BY <1>0, <1>3, <2>9 DEF Process, Allocate, CreateProps, Unpack, SubmitFails, WaitFails, AllocateFails,
                              CreatePropsFails, Step, Throw, streamVars, CallTypeOK
    <3> QED
      BY <2>2, <2>4, <3>1 DEF Computes
  <2> QED
    BY <2>5, <2>6, <2>7, <2>8, <2>9
<1>4. ASSUME NEW s \in Streams, GpuFinishes(s) PROVE DataInv'
  <2>1. /\ gpu[s] = "running" /\ gpu' = [gpu EXCEPT ![s] = "idle"]
        /\ fence' = [fence EXCEPT ![s] = "signaled"]
        /\ result' = [result EXCEPT ![s][command[s]] = staged[s][command[s]]]
        /\ UNCHANGED <<at, pc, idx, plane, job, staged, command, abandoned>>
    BY <1>4 DEF GpuFinishes, callVars, poolVars, worldVars
  <2>2. command[s] \in PlaneSet
    BY <1>0, <2>1 DEF DataInv
  <2>3. ASSUME NEW c \in Callers PROVE Computes(c)'
    <3>1. Computes(c)
      BY <1>0 DEF DataInv
    <3>2. CASE at[c] \notin Statements
      BY <2>1, <3>2 DEF Computes, Statements
    <3>3. CASE at[c] \in Statements
      <4>1. pc[c] = "using" /\ idx[c] \in Streams /\ plane[c] \in PlaneSet
        BY <3>3, OwnStream DEF IInv, ControlInv, Control
      <4>2. CASE idx[c] # s
        BY <1>0, <2>1, <3>1, <4>1, <4>2 DEF Computes, StreamTypeOK
      <4>3. CASE idx[c] = s
        <5>1. ~abandoned => at[c] = "wait"
          BY <2>1, <4>1, <4>3, OwnQuiet DEF Quiet
        <5>2. gpu'[s] = "idle" /\ result'[s][command[s]] = staged[s][command[s]]
          BY <1>0, <2>1, <2>2 DEF StreamTypeOK
        <5> QED
          BY <2>1, <3>1, <4>3, <5>1, <5>2 DEF Computes
      <4> QED
        BY <4>2, <4>3
    <3> QED
      BY <3>2, <3>3
  <2> QED
    BY <1>0, <2>1, <2>3 DEF DataInv, StreamTypeOK, Streams, PlaneSet
<1>5. CASE LoseDevice
  <2>1. gpu' = [s \in Streams |-> "idle"]
        /\ UNCHANGED <<at, idx, plane, job, staged, result, command, fence, abandoned>>
    BY <1>5 DEF LoseDevice, callVars, poolVars
  <2>2. ASSUME NEW c \in Callers PROVE Computes(c)'
    <3>1. at[c] \in Statements => idx[c] \in Streams
      BY OwnStream DEF IInv, ControlInv, Control
    <3>2. Computes(c)
      BY <1>0 DEF DataInv
    <3> QED
      BY <2>1, <3>1, <3>2 DEF Computes, Statements
  <2> QED
    BY <2>1, <2>2 DEF DataInv, Streams
<1>6. CASE FreeFilter \/ DrainStep \/ DestroyExecutor \/ UNCHANGED vars
  BY <1>6, OtherSteps, StreamsKept DEF callVars, worldVars
<1> QED
  BY <1>1, <1>2, <1>3, <1>4, <1>5, <1>6 DEF Next

-------------------------------------------------------------------------------
(* The planes of a frame, and the buffers that are lost *)

LEMMA PlanesStep == IInv /\ [Next]_vars => PlanesInv'
<1> SUFFICES ASSUME IInv, [Next]_vars PROVE PlanesInv'
  OBVIOUS
<1>0. PlanesInv /\ CallTypeOK /\ abandoned \in BOOLEAN /\ NumPlanes \in 1 .. 3
  BY PlanesAssumption DEF IInv, TypeOK, WorldTypeOK
<1> DEFINE Done(c) == at[c] # "outside" => \A p \in PlaneSet : Finished(c, p) => dst[c][p] = job[c]
<1>k. ASSUME ~abandoned' => ~abandoned,
             \A d \in Callers : \/ UNCHANGED <<at[d], plane[d], failed[d], job[d], dst[d]>>
                                \/ ~abandoned => Done(d)'
      PROVE  PlanesInv'
  <2>1. ASSUME NEW d \in Callers, ~abandoned' PROVE Done(d)'
    <3>1. Done(d)
      BY <1>0, <1>k, <2>1 DEF PlanesInv
    <3> QED
      BY <1>k, <2>1, <3>1 DEF Finished, PlaneSet
  <2> QED
    BY <2>1 DEF PlanesInv, PlaneSet
<1>1. ASSUME NEW c \in Callers, (\E f \in Frames : StartFrame(c, f)) \/ Loop(c) PROVE PlanesInv'
  <2>1. /\ UNCHANGED abandoned
        /\ \A d \in Callers : d # c => UNCHANGED <<at[d], plane[d], failed[d], job[d], dst[d]>>
    BY <1>1, LoopMoves
  <2>2. ~abandoned => Done(c)
    BY <1>0 DEF PlanesInv
  <2>3. ASSUME NEW f \in Frames, StartFrame(c, f) PROVE Done(c)'
    <3>1. /\ at'[c] = "planes" /\ job'[c] = f /\ plane'[c] = 1
          /\ dst'[c] = [p \in PlaneSet |-> IF p \in Processed THEN Blank ELSE f]
      BY <1>0, <2>3 DEF StartFrame, Step, CallTypeOK
    <3> QED
      BY <1>0, <3>1 DEF Finished, PlaneSet
  <2>4. ASSUME ~abandoned, SkipPlane(c) PROVE Done(c)'
    <3>1. /\ plane'[c] = plane[c] + 1 /\ plane[c] \in PlaneSet \ Processed
          /\ UNCHANGED <<at, job, failed, dst>> /\ at[c] = "planes"
      BY <1>0, <2>4 DEF SkipPlane, CallTypeOK
    <3> QED
      BY <1>0, <2>2, <2>4, <3>1 DEF Finished, PlaneSet
  <2>5. ASSUME ~abandoned, CallProcessPlane(c) PROVE Done(c)'
    <3>1. at[c] = "planes" /\ at'[c] = "allocate" /\ UNCHANGED <<job, plane, failed, dst>>
      BY <1>0, <2>5 DEF CallProcessPlane, Step, CallTypeOK
    <3> QED
      BY <2>2, <2>5, <3>1 DEF Finished, PlaneSet
  <2>6. ASSUME ~abandoned, PlaneDone(c) PROVE Done(c)'
    <3>1. /\ plane'[c] = plane[c] + 1 /\ at[c] = "release" /\ at'[c] = "planes" /\ ~failed[c]
          /\ UNCHANGED <<job, dst>> /\ plane[c] \in 1 .. NumPlanes + 1
      BY <1>0, <2>6 DEF PlaneDone, Step, CallTypeOK
    <3> QED
      BY <1>0, <2>2, <2>6, <3>1 DEF Finished, PlaneSet
  <2>7. ASSUME ~abandoned, ReturnFrame(c) \/ ReportError(c) PROVE Done(c)'
    BY <1>0, <2>7 DEF ReturnFrame, ReportError, Step, CallTypeOK
  <2> QED
    BY <1>1, <1>k, <2>1, <2>3, <2>4, <2>5, <2>6, <2>7 DEF Loop
<1>2. ASSUME NEW c \in Callers, PoolStep(c) PROVE PlanesInv'
  BY <1>2, <1>k, PoolStepMoves DEF callVars, worldVars
<1>3. ASSUME NEW c \in Callers, Process(c) \/ AllocateFails(c) \/ CreatePropsFails(c) PROVE PlanesInv'
  <2>1. /\ UNCHANGED <<job, plane>> /\ at[c] \in Statements \cup {"allocate"} /\ (failed'[c] => at'[c] = "release")
        /\ \A d \in Callers : d # c => at'[d] = at[d] /\ failed'[d] = failed[d] /\ dst'[d] = dst[d]
    BY <1>3, ProcessMoves
  <2>2. plane[c] \in PlaneSet
    BY <1>3, ProcessMoves, OwnStream DEF IInv
  <2>3. ~abandoned => Done(c)
    BY <1>0 DEF PlanesInv
  <2>4. ~abandoned' => ~abandoned
    BY <1>3 DEF Process, Allocate, CreateProps, Pack, Record, Submit, WaitFence, Unpack, SubmitFails, WaitFails,
                AllocateFails, CreatePropsFails, worldVars
  <2>5. CASE Unpack(c)
    <3>1. at[c] = "unpack" /\ dst' = [dst EXCEPT ![c][plane[c]] = result[idx[c]][plane[c]]]
      BY <2>5 DEF Unpack, Inside, Step
    <3>2. ~abandoned => result[idx[c]][plane[c]] = job[c]
      BY <3>1 DEF IInv, DataInv, Computes
    <3> QED
      BY <1>0, <1>k, <2>1, <2>2, <2>3, <2>4, <3>1, <3>2 DEF Finished, CallTypeOK, Statements, PlaneSet
  <2>6. CASE ~Unpack(c)
    <3>1. UNCHANGED dst /\ (at'[c] = "release" => failed'[c])
      BY <1>0, <1>3, <2>6 DEF Process, Allocate, CreateProps, Pack, Record, Submit, WaitFence, SubmitFails,
                 WaitFails, AllocateFails, CreatePropsFails, Step, Throw, CallTypeOK
    <3> QED
      BY <1>k, <2>1, <2>3, <2>4, <3>1 DEF Finished, Statements, PlaneSet
  <2> QED
    BY <2>5, <2>6
<1>4. CASE (\E s \in Streams : GpuFinishes(s)) \/ LoseDevice
  BY <1>4, <1>k DEF GpuFinishes, LoseDevice, callVars, worldVars
<1>5. CASE FreeFilter \/ DrainStep \/ DestroyExecutor \/ UNCHANGED vars
  BY <1>5, <1>k, OtherSteps DEF callVars, worldVars
<1> QED
  BY <1>1, <1>2, <1>3, <1>4, <1>5 DEF Next

LEMMA LeakStep == IInv /\ [Next]_vars => LeakInv'
<1> SUFFICES ASSUME IInv, [Next]_vars PROVE LeakInv'
  OBVIOUS
<1>0. LeakInv /\ StreamTypeOK /\ faults \in Nat
  BY DataAssumption DEF IInv, TypeOK, WorldTypeOK
<1>k. ASSUME UNCHANGED <<buffers, leaked>>, faults' = 0 => faults = 0, phase' = "destroyed" => phase = "destroyed"
      PROVE  LeakInv'
  BY <1>0, <1>k DEF LeakInv, Streams, PlaneSet, NoBuffers
<1>1. ASSUME NEW c \in Callers, (\E f \in Frames : StartFrame(c, f)) \/ Loop(c) PROVE LeakInv'
  BY <1>1, <1>k, LoopMoves DEF streamVars
<1>2. ASSUME NEW c \in Callers, PoolStep(c) PROVE LeakInv'
  BY <1>2, <1>k, PoolStepMoves DEF streamVars, worldVars
<1>3. ASSUME NEW c \in Callers, Process(c) \/ AllocateFails(c) \/ CreatePropsFails(c) PROVE LeakInv'
  <2>1. idx[c] \in Streams /\ plane[c] \in PlaneSet /\ phase # "destroyed" /\ UNCHANGED phase
    BY <1>3, ProcessMoves, OwnStream DEF IInv
  <2> DEFINE s == idx[c]
             p == plane[c]
  <2>2. ASSUME UNCHANGED leaked, UNCHANGED faults, buffers'[s][p].initialized PROVE LeakInv'
    <3>1. \A t \in Streams, q \in PlaneSet : ~(t = s /\ q = p) => buffers'[t][q] = buffers[t][q]
      BY <1>3, ProcessTouches
    <3> QED
      BY <1>0, <2>1, <2>2, <3>1 DEF LeakInv, Streams, PlaneSet, NoBuffers
  <2>3. CASE Allocate(c)
    <3>1. UNCHANGED faults
      BY <2>3 DEF Allocate, worldVars
    <3>2. CASE buffers[s][p].initialized
      BY <2>1, <2>2, <2>3, <3>1, <3>2 DEF Allocate, Inside
    <3>3. CASE ~buffers[s][p].initialized
      <4>1. CreateSlots(s, p, NumBuffers) /\ NumBuffers \in 0 .. NumBuffers
        BY <2>3, <3>3, DataAssumption DEF Allocate, Inside
      <4>2. buffers'[s][p].initialized /\ (buffers[s][p].live = 0 => leaked' = leaked)
        BY <1>0, <2>1, <4>1, CreatedSlots
      <4>3. CASE faults = 0
        <5>1. buffers[s][p] = NoBuffers
          BY <1>0, <2>1, <3>3, <4>3 DEF LeakInv
        <5> QED
          BY <2>2, <3>1, <4>2, <5>1 DEF NoBuffers
      <4> QED
        BY <3>1, <4>3 DEF LeakInv
    <3> QED
      BY <3>2, <3>3
  <2>4. CASE CreateProps(c)
    <3>1. at[c] = "props" /\ buffers' = [buffers EXCEPT ![s][p] = [@ EXCEPT !.props = "ready"]]
          /\ UNCHANGED <<leaked, faults>>
      BY <2>4 DEF CreateProps, Inside, Step, worldVars
    <3>2. buffers[s][p].initialized /\ buffers[s][p] \in PlaneResources
      BY <1>0, <2>1, <3>1 DEF IInv, BufferInv, Prepared, Statements, StreamTypeOK
    <3>3. buffers'[s][p].initialized
      BY <1>0, <2>1, <3>1, <3>2 DEF StreamTypeOK, PlaneResources
    <3> QED
      BY <2>2, <3>1, <3>3
  <2>5. CASE AllocateFails(c) \/ CreatePropsFails(c)
    BY <1>0, <2>5 DEF AllocateFails, CreatePropsFails, MayFault, LeakInv
  <2>6. CASE Pack(c) \/ Record(c) \/ Submit(c) \/ WaitFence(c) \/ Unpack(c)
    BY <1>k, <2>1, <2>6 DEF Pack, Record, Submit, WaitFence, Unpack, streamVars, worldVars
  <2>7. CASE SubmitFails(c) \/ WaitFails(c)
    BY <1>0, <1>k, <2>1, <2>7 DEF SubmitFails, WaitFails, MayFault, streamVars
  <2> QED
    BY <1>3, <2>3, <2>4, <2>5, <2>6, <2>7 DEF Process
<1>4. CASE (\E s \in Streams : GpuFinishes(s)) \/ LoseDevice
  BY <1>0, <1>4, <1>k DEF GpuFinishes, LoseDevice, MayFault, poolVars, worldVars
<1>5. CASE FreeFilter \/ DrainStep \/ UNCHANGED vars
  <2>1. UNCHANGED <<buffers, leaked, faults>> /\ (phase' = "destroyed" => phase = "destroyed")
    BY <1>5 DEF FreeFilter, BeginDrain, DrainStep, DrainPermit, vars, poolVars, streamVars, worldVars
  <2> QED
    BY <1>k, <2>1
<1>6. CASE DestroyExecutor
  <2>1. UNCHANGED <<leaked, faults>>
        /\ buffers' = [s \in Streams |-> [p \in PlaneSet |->
                          IF buffers[s][p].initialized THEN NoBuffers
                          ELSE [buffers[s][p] EXCEPT !.props = "none"]]]
    BY <1>6 DEF DestroyExecutor, worldVars
  <2>2. ASSUME faults = 0, NEW s \in Streams, NEW p \in PlaneSet PROVE buffers'[s][p] = NoBuffers
    <3>1. buffers[s][p] = NoBuffers \/ buffers[s][p].initialized
      BY <1>0, <2>2 DEF LeakInv
    <3> QED
      BY <2>1, <3>1 DEF NoBuffers
  <2> QED
    BY <1>0, <2>1, <2>2 DEF LeakInv, Streams, PlaneSet, NoBuffers
<1> QED
  BY <1>1, <1>2, <1>3, <1>4, <1>5, <1>6 DEF Next

-------------------------------------------------------------------------------
(* The theorems *)

LEMMA Invariant == Spec => []IInv
<1>1. IInv /\ [Next]_vars => IInv'
  BY PoolInvStep, TypeOKStep, ControlStep, BufferStep, QuietStep, DataStep, PlanesStep, LeakStep DEF IInv
<1> QED
  BY InitIInv, <1>1, PTL DEF Spec

\* The executor uses its streams as the pool allows: every behaviour of it is one of
\* the pool, so what is proved of the pool holds here (acquireStreamIndex, ~StreamReleaser).
THEOREM ExecutorUsesPool == Spec => PoolSpec
<1>1. Init => PoolInit
  BY DEF Init
<1> QED
  BY <1>1, PoolSteps, PTL DEF Spec, PoolSpec

\* Every variable of the executor keeps its type: no counter of a buffer leaves its range and
\* no caller leaves its planes (processPlane).
THEOREM ExecutorTypeCorrect == Spec => []TypeOK
<1>1. IInv => TypeOK
  BY DEF IInv
<1> QED
  BY Invariant, <1>1, PTL

\* A frame that is returned has every plane computed from its own inputs, whoever used
\* the streams before, as long as no wait was given up (vkExprGetFrame).
THEOREM FramesAreIntact == Spec => []FrameIntegrity
<1>1. IInv => FrameIntegrity
  BY DEF IInv, PlanesInv, FrameIntegrity, Finished
<1> QED
  BY Invariant, <1>1, PTL

\* Nobody writes to a stream, or submits with its fence, while the GPU is not done with its last
\* use, and no stream is destroyed under the GPU (processPlane, ~Impl).
THEOREM StreamsAreQuiet == Spec => []StreamQuiet
<1>1. IInv => StreamQuiet
  <2> SUFFICES ASSUME IInv, ~abandoned PROVE StreamQuiet
    BY DEF StreamQuiet
  <2>1. ASSUME NEW c \in Callers, pc[c] = "using", at[c] # "wait"
        PROVE  gpu[idx[c]] = "idle" /\ fence[idx[c]] = "unsignaled"
    BY <2>1, OwnQuiet DEF Quiet
  <2>2. ASSUME phase = "destroyed", NEW s \in Streams PROVE gpu[s] = "idle"
    <3>1. Owners = {}
      BY <2>2, QuiescentWhenDestroyed DEF IInv, DestroyedQuiescent
    <3>2. ~Awaited(s)
      BY <3>1 DEF Awaited, Owners, Statements, IInv, ControlInv, Control
    <3> QED
      BY <3>2 DEF IInv, QuietInv, Quiet
  <2> QED
    BY <2>1, <2>2 DEF StreamQuiet
<1> QED
  BY Invariant, <1>1, PTL

\* What is submitted works on the buffers of this use of the stream, although the driver may
\* give the handle of a destroyed buffer to the next one (updateDescriptorSets).
THEOREM DescriptorsAreCurrent == Spec => []DescriptorsCurrent
<1>1. IInv => DescriptorsCurrent
  BY DEF IInv, BufferInv, Prepared, DescriptorsCurrent
<1> QED
  BY Invariant, <1>1, PTL

\* As long as nothing has failed, no buffer is lost and none survives the executor
\* (createPlaneResources, freePlaneResources).
THEOREM LeaksNeedFailures == Spec => []LeakNeedsFailure
<1>1. IInv => LeakNeedsFailure
  BY DEF IInv, LeakInv, LeakNeedsFailure
<1> QED
  BY Invariant, <1>1, PTL

===============================================================================
