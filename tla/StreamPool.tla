------------------------------ MODULE StreamPool ------------------------------
(***************************************************************************)
(* The stream pool of VkExprExecutor::Impl: a counting semaphore with one  *)
(* permit per stream, a queue of free stream indices and the mutex that    *)
(* protects the queue.  processPlane takes a stream with                   *)
(* acquireStreamIndex and its StreamReleaser gives it back with            *)
(* releaseStreamIndex; the destructor drains every permit before the       *)
(* streams are destroyed.                                                  *)
(*                                                                         *)
(* Each caller is at one program point pc[c] of acquire / use / release:   *)
(*   idle      outside processPlane                                        *)
(*   acquiring before semaphore.acquire()                                  *)
(*   locking   owns a permit, before the lock of stream_mutex              *)
(*   front     holds the mutex, before free_stream_indices.front()         *)
(*   pop       holds the mutex, before free_stream_indices.pop()           *)
(*   using     owns the stream idx[c]                                      *)
(*   push      in releaseStreamIndex, holds the mutex, before push(idx)    *)
(*   posting   unlocked the mutex, before semaphore.release()              *)
(***************************************************************************)
EXTENDS Integers, Sequences, FiniteSets

CONSTANTS
    Callers,     \* host threads (the filter is fmParallel)
    NumStreams,  \* the num_streams argument of VkExpr
    NoCaller,    \* owner of an unlocked mutex
    NoStream     \* idx of a caller that read no index yet

ASSUME CallersAssumption == IsFiniteSet(Callers) /\ NoCaller \notin Callers
\* vkExprCreate replaces anything below one, so the constructor never throws here.
ASSUME StreamsAssumption == NumStreams \in Nat \ {0} /\ NoStream \notin 1 .. NumStreams

Streams == 1 .. NumStreams

VARIABLES
    permits,     \* the counter of the counting_semaphore
    free,        \* free_stream_indices
    mutex,       \* the owner of stream_mutex
    pc,          \* the program point of each caller
    idx,         \* the local idx of each caller
    phase,       \* open, draining (in the destructor) or destroyed
    drained      \* permits that drain() has taken so far

poolVars == <<permits, free, mutex, pc, idx, phase, drained>>

Goto(c, point) == pc' = [pc EXCEPT ![c] = point]

(***************************************************************************)
(* The constructor pushes every index and initialises the semaphore with   *)
(* num_streams.                                                            *)
(***************************************************************************)
PoolInit ==
    /\ permits = NumStreams
    /\ free = [k \in Streams |-> k]
    /\ mutex = NoCaller
    /\ pc = [c \in Callers |-> "idle"]
    /\ idx = [c \in Callers |-> NoStream]
    /\ phase = "open"
    /\ drained = 0

(***************************************************************************)
(* A caller enters processPlane, which nobody does once the destructor     *)
(* runs.                                                                   *)
(***************************************************************************)
Enter(c) ==
    /\ pc[c] = "idle"
    /\ phase = "open"
    /\ Goto(c, "acquiring")
    /\ UNCHANGED <<permits, free, mutex, idx, phase, drained>>

\* Faulty: try_acquire() with its answer ignored.
AcquireUnchecked(c) ==
    /\ pc[c] = "acquiring"
    /\ permits' = permits - 1
    /\ Goto(c, "locking")
    /\ UNCHANGED <<free, mutex, idx, phase, drained>>

AcquirePermit(c) ==
    /\ pc[c] = "acquiring"
    /\ permits > 0
    /\ permits' = permits - 1
    /\ Goto(c, "locking")
    /\ UNCHANGED <<free, mutex, idx, phase, drained>>

\* Faulty: no lock of stream_mutex in acquireStreamIndex.
PopUnlocked(c) ==
    /\ pc[c] = "locking"
    /\ mutex' = c
    /\ Goto(c, "front")
    /\ UNCHANGED <<permits, free, idx, phase, drained>>

LockToPop(c) ==
    /\ pc[c] = "locking"
    /\ mutex = NoCaller
    /\ mutex' = c
    /\ Goto(c, "front")
    /\ UNCHANGED <<permits, free, idx, phase, drained>>

\* front() of an empty queue is undefined: the index read is then no stream.
ReadFront(c) ==
    /\ pc[c] = "front"
    /\ idx' = [idx EXCEPT ![c] = IF free = <<>> THEN NoStream ELSE Head(free)]
    /\ Goto(c, "pop")
    /\ UNCHANGED <<permits, free, mutex, phase, drained>>

PopFront(c) ==
    /\ pc[c] = "pop"
    /\ free' = Tail(free)
    /\ mutex' = NoCaller
    /\ Goto(c, "using")
    /\ UNCHANGED <<permits, idx, phase, drained>>

(***************************************************************************)
(* ~StreamReleaser, on return and on unwinding alike.                      *)
(***************************************************************************)
LockToPush(c) ==
    /\ pc[c] = "using"
    /\ mutex = NoCaller
    /\ mutex' = c
    /\ Goto(c, "push")
    /\ UNCHANGED <<permits, free, idx, phase, drained>>

PushIndex(c) ==
    /\ pc[c] = "push"
    /\ free' = Append(free, idx[c])
    /\ mutex' = NoCaller
    /\ Goto(c, "posting")
    /\ UNCHANGED <<permits, idx, phase, drained>>

\* Faulty: releaseStreamIndex without semaphore.release().
ForgetPermit(c) ==
    /\ pc[c] = "posting"
    /\ idx' = [idx EXCEPT ![c] = NoStream]
    /\ Goto(c, "idle")
    /\ UNCHANGED <<permits, free, mutex, phase, drained>>

PostPermit(c) ==
    /\ pc[c] = "posting"
    /\ permits' = permits + 1
    /\ idx' = [idx EXCEPT ![c] = NoStream]
    /\ Goto(c, "idle")
    /\ UNCHANGED <<free, mutex, phase, drained>>

(***************************************************************************)
(* The destructor: drain() takes one permit per stream, then the streams   *)
(* are destroyed with Impl.                                                *)
(***************************************************************************)
BeginDrain ==
    /\ phase = "open"
    /\ phase' = "draining"
    /\ UNCHANGED <<permits, free, mutex, pc, idx, drained>>

DrainPermit ==
    /\ phase = "draining"
    /\ drained < NumStreams
    /\ permits > 0
    /\ permits' = permits - 1
    /\ drained' = drained + 1
    /\ UNCHANGED <<free, mutex, pc, idx, phase>>

\* Faulty: drain() takes one permit too few.
DestroyEarly ==
    /\ phase = "draining"
    /\ drained >= NumStreams - 1
    /\ phase' = "destroyed"
    /\ UNCHANGED <<permits, free, mutex, pc, idx, drained>>

Destroy ==
    /\ phase = "draining"
    /\ drained = NumStreams
    /\ phase' = "destroyed"
    /\ UNCHANGED <<permits, free, mutex, pc, idx, drained>>

-------------------------------------------------------------------------------

Take(c) == AcquirePermit(c) \/ LockToPop(c) \/ ReadFront(c) \/ PopFront(c)
GiveBack(c) == PushIndex(c) \/ PostPermit(c)
Drain == DrainPermit \/ Destroy

PoolNext ==
    \/ \E c \in Callers : Enter(c) \/ Take(c) \/ LockToPush(c) \/ GiveBack(c)
    \/ BeginDrain
    \/ Drain

PoolSpec == PoolInit /\ [][PoolNext]_poolVars

(***************************************************************************)
(* Every thread that can run is scheduled, and a caller that uses a stream *)
(* finishes with it (waitForFences has no timeout).  Neither std::mutex    *)
(* nor std::counting_semaphore promises an order among waiters, so the     *)
(* fairness is weak and no property promises a caller its turn.            *)
(***************************************************************************)
Fairness ==
    /\ \A c \in Callers : WF_poolVars(Take(c)) /\ WF_poolVars(LockToPush(c))
                          /\ WF_poolVars(GiveBack(c))
    /\ WF_poolVars(Drain)

FairPoolSpec == PoolSpec /\ Fairness

-------------------------------------------------------------------------------

\* The callers that took a permit whose index is still (or again) in the queue.
Claimants == {c \in Callers : pc[c] \in {"locking", "front", "pop", "posting"}}

\* The callers whose stream is out of the queue.
Owners == {c \in Callers : pc[c] \in {"using", "push"}}

PoolTypeOK ==
    /\ permits \in Nat
    /\ free \in Seq(Streams)
    /\ mutex \in Callers \cup {NoCaller}
    /\ pc \in [Callers -> {"idle", "acquiring", "locking", "front", "pop",
                           "using", "push", "posting"}]
    /\ idx \in [Callers -> Streams \cup {NoStream}]
    /\ phase \in {"open", "draining", "destroyed"}
    /\ drained \in 0 .. NumStreams

\* Every index is in the queue or with one owner, and every index in the queue is
\* matched by a permit, by a permit drain() took, or by a caller between the two.
PermitAccounting ==
    /\ Len(free) + Cardinality(Owners) = NumStreams
    /\ Len(free) = permits + drained + Cardinality(Claimants)

\* Two callers never use one stream (its buffers, command buffer and fence),
\* and a stream in use is not in the queue (VkExprExecutor.cpp:406-420).
StreamExclusive ==
    \A c \in Owners :
        /\ idx[c] \in Streams
        /\ \A d \in Owners : idx[c] = idx[d] => c = d
        /\ \A i \in 1 .. Len(free) : free[i] # idx[c]

\* The semaphore never lets a caller through to front() and pop() of an empty
\* queue: the index is pushed before the permit is posted.
FrontBacked == \A c \in Callers : pc[c] \in {"front", "pop"} => free # <<>>

\* The streams are destroyed only when no caller owns a stream, a permit or the
\* mutex, whatever it was doing when the destructor began.
DestroyedQuiescent ==
    phase = "destroyed" => Claimants = {} /\ Owners = {} /\ mutex = NoCaller

\* The destructor always ends: every stream comes back and drain() gets its permits,
\* even against callers that still wait for one.
DrainCompletes == phase = "draining" ~> phase = "destroyed"

\* As long as the executor is open somebody who waits gets through: no permit is lost.
PoolProgress == (\E c \in Callers : pc[c] = "acquiring")
                    ~> (Owners # {} \/ phase # "open")

(***************************************************************************)
(* The pool implements the lease: a stream is leased from pop() to push(). *)
(***************************************************************************)
LeaseHolder == [s \in Streams |->
    IF \E c \in Owners : idx[c] = s THEN CHOOSE c \in Owners : idx[c] = s ELSE NoCaller]

Lease == INSTANCE StreamLease WITH holder <- LeaseHolder, closed <- (phase = "destroyed")
ImplementsLease == Lease!Spec

===============================================================================
