----------------------------- MODULE StreamLease -----------------------------
(***************************************************************************)
(* What the stream pool of VkExprExecutor promises, with no semaphore, no  *)
(* queue and no mutex: a stream is leased to at most one caller, a caller  *)
(* leases at most one stream, and the executor closes only when no stream  *)
(* is leased, after which none is leased again.                            *)
(***************************************************************************)
CONSTANTS
    Callers,    \* the host threads that call processPlane
    Streams,    \* the Vulkan streams of one executor
    NoCaller    \* the lease of a stream nobody uses

VARIABLES
    holder,     \* holder[s]: the caller the stream is leased to, or NoCaller
    closed      \* the executor was destroyed

vars == <<holder, closed>>

Init ==
    /\ holder = [s \in Streams |-> NoCaller]
    /\ closed = FALSE

Lease(c, s) ==
    /\ ~closed
    /\ holder[s] = NoCaller
    /\ \A t \in Streams : holder[t] # c
    /\ holder' = [holder EXCEPT ![s] = c]
    /\ UNCHANGED closed

Return(c, s) ==
    /\ holder[s] = c
    /\ holder' = [holder EXCEPT ![s] = NoCaller]
    /\ UNCHANGED closed

Close ==
    /\ \A s \in Streams : holder[s] = NoCaller
    /\ closed' = TRUE
    /\ UNCHANGED holder

Next ==
    \/ \E c \in Callers, s \in Streams : Lease(c, s) \/ Return(c, s)
    \/ Close

Spec == Init /\ [][Next]_vars

==============================================================================
