------------------------------ MODULE VkExecutor ------------------------------
(***************************************************************************)
(* The VkExpr filter at run time: host threads inside vkExprGetFrame call  *)
(* VkExprExecutor::processPlane for every plane with an expression; each   *)
(* call works on the stream it took from the pool (StreamPool), submits    *)
(* one command buffer to the GPU, waits for its fence and reads the result *)
(* back.  A stream keeps its buffers, command buffer and fence for the     *)
(* next caller, so a result is right only if nothing of the last use is    *)
(* left.                                                                   *)
(*                                                                         *)
(* The content of a buffer is the frame it was computed from.  The GPU and *)
(* the host (frames requested, filter freed) are external: they do what    *)
(* Vulkan and VapourSynth promise, and any call that allocates, submits or *)
(* waits may fail, at most MaxFaults times.                                *)
(***************************************************************************)
EXTENDS StreamPool

CONSTANTS
    Frames,       \* frame numbers the host asks for, each once (bound)
    NumPlanes,    \* d->vi.format.numPlanes
    Processed,    \* the planes with PlaneOp::PoProcess; the others are copied
    NumBuffers,   \* buffers of a plane: inputs, outputs, intermediates (bound)
    Blank,        \* content of a buffer nobody filled
    Handles,      \* values the driver gives to buffers, never VK_NULL_HANDLE, which is Blank here;
                  \* that of a destroyed buffer may be given out again
    MaxFaults     \* bound on allocation, submission and device failures

ASSUME PlanesAssumption == NumPlanes \in 1 .. 3 /\ Processed \subseteq 1 .. NumPlanes
ASSUME DataAssumption ==
    NumBuffers \in Nat \ {0} /\ Blank \notin Frames \cup Handles /\ MaxFaults \in Nat

VARIABLES
    at,        \* at[c]: the next statement of caller c outside the pool
    job,       \* job[c]: the frame it computes, or Blank
    plane,     \* plane[c]: the plane of its loop
    failed,    \* failed[c]: an exception unwinds processPlane
    dst,       \* dst[c][p]: content of plane p of its output frame
    buffers,   \* buffers[s][p]: PlaneResources, see NoBuffers
    leaked,    \* buffers whose last handle was overwritten
    staged,    \* staged[s][p]: content of the upload staging buffers
    result,    \* result[s][p]: content of the download staging buffer
    command,   \* command[s]: the plane the command buffer was recorded for
    bound,     \* bound[s][p]: the buffers in the descriptor set of the pipelines, see NoBuffers
    fence,     \* fence[s]: "unsignaled" or "signaled"
    gpu,       \* gpu[s]: "idle" or "running" the command buffer of the stream
    lost,      \* the device was lost
    abandoned, \* a wait failed, with the GPU perhaps at work, or its fence stayed signaled
    faults,    \* failures so far
    answered   \* frames returned to the host, or answered with an error

callVars == <<at, job, plane, failed, dst>>
streamVars == <<buffers, leaked, staged, result, command, bound, fence, gpu>>
worldVars == <<lost, abandoned, faults, answered>>
vars == <<poolVars, callVars, streamVars, worldVars>>

PlaneSet == 1 .. NumPlanes

\* live counts the buffer slots that hold a buffer; props is "none", "half" (the
\* staging buffer is missing) or "ready"; made counts how often the buffers were created, as a
\* buffer has no other identity than its handle.
NoBuffers == [initialized |-> FALSE, live |-> 0, props |-> "none", made |-> 0, handle |-> Blank]
Unbound == [made |-> 0, handle |-> Blank]

Init ==
    /\ PoolInit
    /\ at = [c \in Callers |-> "outside"]
    /\ job = [c \in Callers |-> Blank]
    /\ plane = [c \in Callers |-> 1]
    /\ failed = [c \in Callers |-> FALSE]
    /\ dst = [c \in Callers |-> [p \in PlaneSet |-> Blank]]
    /\ buffers = [s \in Streams |-> [p \in PlaneSet |-> NoBuffers]]
    /\ leaked = 0
    /\ staged = [s \in Streams |-> [p \in PlaneSet |-> Blank]]
    /\ result = [s \in Streams |-> [p \in PlaneSet |-> Blank]]
    /\ command = [s \in Streams |-> 0]
    /\ bound = [s \in Streams |-> [p \in PlaneSet |-> Unbound]]
    /\ fence = [s \in Streams |-> "unsignaled"]
    /\ gpu = [s \in Streams |-> "idle"]
    /\ lost = FALSE /\ abandoned = FALSE
    /\ faults = 0
    /\ answered = {}

Step(c, from, to) == at[c] = from /\ at' = [at EXCEPT ![c] = to]

\* Statement of processPlane by the owner c of stream s, for plane p.
Inside(c, s, p) == pc[c] = "using" /\ s = idx[c] /\ p = plane[c] /\ UNCHANGED poolVars

\* The exception leaves processPlane through ~StreamReleaser.
Throw(c, from) == Step(c, from, "release") /\ failed' = [failed EXCEPT ![c] = TRUE]

MayFault == faults < MaxFaults /\ faults' = faults + 1

-------------------------------------------------------------------------------
(* vkExprGetFrame *)

\* arAllFramesReady: the output frame starts with the copied planes.
StartFrame(c, f) ==
    /\ phase = "open"
    /\ f \notin answered /\ \A d \in Callers : job[d] # f
    /\ Step(c, "outside", "planes")
    /\ job' = [job EXCEPT ![c] = f]
    /\ plane' = [plane EXCEPT ![c] = 1]
    /\ dst' = [dst EXCEPT ![c] = [p \in PlaneSet |-> IF p \in Processed THEN Blank ELSE f]]
    /\ UNCHANGED <<poolVars, failed, streamVars, worldVars>>

SkipPlane(c) ==
    /\ at[c] = "planes" /\ plane[c] \in PlaneSet \ Processed
    /\ plane' = [plane EXCEPT ![c] = @ + 1]
    /\ UNCHANGED <<poolVars, at, job, failed, dst, streamVars, worldVars>>

CallProcessPlane(c) ==
    /\ plane[c] \in Processed
    /\ Step(c, "planes", "allocate")
    /\ Enter(c)
    /\ UNCHANGED <<job, plane, failed, dst, streamVars, worldVars>>

\* processPlane returned: the loop goes on.
PlaneDone(c) ==
    /\ pc[c] = "idle" /\ ~failed[c]
    /\ Step(c, "release", "planes")
    /\ plane' = [plane EXCEPT ![c] = @ + 1]
    /\ UNCHANGED <<poolVars, job, failed, dst, streamVars, worldVars>>

\* The frame is returned to the host.
ReturnFrame(c) ==
    /\ plane[c] > NumPlanes
    /\ Step(c, "planes", "outside")
    /\ answered' = answered \cup {job[c]}
    /\ job' = [job EXCEPT ![c] = Blank]
    /\ UNCHANGED <<poolVars, plane, failed, dst, streamVars, lost, abandoned, faults>>

\* catch: every frame is freed and the host gets setFilterError.
ReportError(c) ==
    /\ pc[c] = "idle" /\ failed[c]
    /\ Step(c, "release", "outside")
    /\ failed' = [failed EXCEPT ![c] = FALSE]
    /\ answered' = answered \cup {job[c]}
    /\ job' = [job EXCEPT ![c] = Blank]
    /\ UNCHANGED <<poolVars, plane, dst, streamVars, lost, abandoned, faults>>

-------------------------------------------------------------------------------
(* processPlane *)

\* Creating the buffers of the first n slots drops the handle each slot held:
\* freePlaneResources frees them only when the resources are initialized; it always
\* frees the properties' buffers.
CreateSlots(s, p, n) ==
    LET old == buffers[s][p].live
        dropped == IF n < old THEN n ELSE old
        kept == IF n < old THEN old ELSE n
    IN  /\ leaked' = leaked + dropped
        /\ \E h \in Handles :
            buffers' = [buffers EXCEPT ![s][p].live = kept, ![s][p].props = "none",
                                       ![s][p].initialized = (n = NumBuffers),
                                       ![s][p].made = @ + 1, ![s][p].handle = h]

\* Faulty: the resources are created for every frame.
AllocateAlways(c) == \E s \in Streams, p \in PlaneSet :
    /\ Inside(c, s, p)
    /\ CreateSlots(s, p, NumBuffers)
    /\ Step(c, "allocate", "props")
    /\ UNCHANGED <<job, plane, failed, dst, staged, result, command, bound, fence, gpu, worldVars>>

\* The plane's dimensions never change, so the resources are created once, or
\* again after a failure.
Allocate(c) == \E s \in Streams, p \in PlaneSet :
    /\ Inside(c, s, p)
    /\ IF buffers[s][p].initialized THEN UNCHANGED <<buffers, leaked>>
                                    ELSE CreateSlots(s, p, NumBuffers)
    /\ Step(c, "allocate", "props")
    /\ UNCHANGED <<job, plane, failed, dst, staged, result, command, bound, fence, gpu, worldVars>>

\* createGPUBuffer or createStagingBuffer throws after n buffers.
AllocateFails(c) == \E s \in Streams, p \in PlaneSet, n \in 0 .. NumBuffers - 1 :
    /\ Inside(c, s, p)
    /\ ~buffers[s][p].initialized
    /\ MayFault
    /\ CreateSlots(s, p, n)
    /\ Throw(c, "allocate")
    /\ UNCHANGED <<job, plane, dst, staged, result, command, bound, fence, gpu, lost,
                   abandoned, answered>>

\* A half-created pair is destroyed before it is created again: props_size is 0.
CreateProps(c) == \E s \in Streams, p \in PlaneSet :
    /\ Inside(c, s, p)
    /\ buffers' = [buffers EXCEPT ![s][p].props = "ready"]
    /\ Step(c, "props", "pack")
    /\ UNCHANGED <<job, plane, failed, dst, leaked, staged, result, command, bound, fence, gpu,
                   worldVars>>

CreatePropsFails(c) == \E s \in Streams, p \in PlaneSet, left \in {"none", "half"} :
    /\ Inside(c, s, p)
    /\ buffers[s][p].props # "ready"
    /\ MayFault
    /\ buffers' = [buffers EXCEPT ![s][p].props = left]
    /\ Throw(c, "props")
    /\ UNCHANGED <<job, plane, dst, leaked, staged, result, command, bound, fence, gpu, lost,
                   abandoned, answered>>

\* Pack the inputs and the properties into the upload staging buffers.
Pack(c) == \E s \in Streams, p \in PlaneSet :
    /\ Inside(c, s, p)
    /\ staged' = [staged EXCEPT ![s][p] = job[c]]
    /\ Step(c, "pack", "record")
    /\ UNCHANGED <<job, plane, failed, dst, buffers, leaked, result, command, bound, fence, gpu,
                   worldVars>>

\* updateDescriptorSets: the descriptor set is left alone when it holds the handles already.
UpdateDescriptorSets(s, p) ==
    bound' = IF bound[s][p].handle = buffers[s][p].handle THEN bound
             ELSE [bound EXCEPT ![s][p] = [made |-> buffers[s][p].made, handle |-> buffers[s][p].handle]]

\* Reset the command buffer and record upload, dispatches and download.
Record(c) == \E s \in Streams, p \in PlaneSet :
    /\ Inside(c, s, p)
    /\ command' = [command EXCEPT ![s] = p]
    /\ UpdateDescriptorSets(s, p)
    /\ Step(c, "record", "submit")
    /\ UNCHANGED <<job, plane, failed, dst, buffers, leaked, staged, result, fence, gpu,
                   worldVars>>

Submit(c) == \E s \in Streams, p \in PlaneSet :
    /\ Inside(c, s, p)
    /\ ~lost
    /\ gpu' = [gpu EXCEPT ![s] = "running"]
    /\ Step(c, "submit", "wait")
    /\ UNCHANGED <<job, plane, failed, dst, buffers, leaked, staged, result, command, bound, fence,
                   worldVars>>

\* vkQueueSubmit fails, as it always does on a lost device.
SubmitFails(c) == \E s \in Streams, p \in PlaneSet :
    /\ Inside(c, s, p)
    /\ IF lost THEN UNCHANGED faults ELSE MayFault
    /\ Throw(c, "submit")
    /\ UNCHANGED <<job, plane, dst, streamVars, lost, abandoned, answered>>

\* Faulty: the result is read without waiting for the fence.
SkipWait(c) == \E s \in Streams, p \in PlaneSet :
    /\ Inside(c, s, p)
    /\ fence' = [fence EXCEPT ![s] = "unsignaled"]
    /\ Step(c, "wait", "unpack")
    /\ UNCHANGED <<job, plane, failed, dst, buffers, leaked, staged, result, command, bound, gpu,
                   worldVars>>

\* Faulty: no resetFences.
WaitNoReset(c) == \E s \in Streams, p \in PlaneSet :
    /\ Inside(c, s, p)
    /\ fence[s] = "signaled"
    /\ Step(c, "wait", "unpack")
    /\ UNCHANGED <<job, plane, failed, dst, buffers, leaked, staged, result, command, bound,
                   gpu, fence, worldVars>>

\* waitForFences succeeds and resetFences makes the fence reusable.
WaitFence(c) == \E s \in Streams, p \in PlaneSet :
    /\ Inside(c, s, p)
    /\ fence[s] = "signaled"
    /\ fence' = [fence EXCEPT ![s] = "unsignaled"]
    /\ Step(c, "wait", "unpack")
    /\ UNCHANGED <<job, plane, failed, dst, buffers, leaked, staged, result, command, bound, gpu,
                   worldVars>>

\* waitForFences throws: the fence is not reset.  Or it was signaled, and it is resetFences that throws.
WaitFails(c) == \E s \in Streams, p \in PlaneSet :
    /\ Inside(c, s, p)
    /\ IF lost /\ fence[s] = "unsignaled" THEN UNCHANGED <<faults, abandoned>>
                                         ELSE MayFault /\ abandoned' = TRUE
    /\ Throw(c, "wait")
    /\ UNCHANGED <<job, plane, dst, streamVars, lost, answered>>

Unpack(c) == \E s \in Streams, p \in PlaneSet :
    /\ Inside(c, s, p)
    /\ dst' = [dst EXCEPT ![c][p] = result[s][p]]
    /\ Step(c, "unpack", "release")
    /\ UNCHANGED <<job, plane, failed, streamVars, worldVars>>

-------------------------------------------------------------------------------
(* The pool, the GPU and the host *)

\* Faulty: the stream is given back on return, and not by a destructor on unwinding.
PoolStepNoUnwind(c) ==
    /\ Take(c) \/ (at[c] = "release" /\ ~failed[c] /\ LockToPush(c)) \/ GiveBack(c)
    /\ UNCHANGED <<callVars, streamVars, worldVars>>

PoolStep(c) ==
    /\ Take(c) \/ (at[c] = "release" /\ LockToPush(c)) \/ GiveBack(c)
    /\ UNCHANGED <<callVars, streamVars, worldVars>>

\* External: the submitted commands end, the result is downloaded, the fence signals.
GpuFinishes(s) ==
    /\ gpu[s] = "running"
    /\ gpu' = [gpu EXCEPT ![s] = "idle"]
    /\ fence' = [fence EXCEPT ![s] = "signaled"]
    /\ result' = [result EXCEPT ![s][command[s]] = staged[s][command[s]]]
    /\ UNCHANGED <<poolVars, callVars, buffers, leaked, staged, command, bound, worldVars>>

\* External: the device is lost and runs nothing any more; fences not yet signaled
\* never are.
LoseDevice ==
    /\ ~lost /\ MayFault
    /\ lost' = TRUE
    /\ gpu' = [s \in Streams |-> "idle"]
    /\ UNCHANGED <<poolVars, callVars, buffers, leaked, staged, result, command, bound, fence,
                   abandoned, answered>>

\* vkExprFree: the host frees a filter when it has no frame in flight.
FreeFilter ==
    /\ \A c \in Callers : at[c] = "outside"
    /\ BeginDrain
    /\ UNCHANGED <<callVars, streamVars, worldVars>>

\* ~Impl: ~Stream frees the initialized resources and the properties' buffers.
DestroyExecutor ==
    /\ Destroy
    /\ buffers' = [s \in Streams |-> [p \in PlaneSet |->
            IF buffers[s][p].initialized THEN NoBuffers
            ELSE [buffers[s][p] EXCEPT !.props = "none"]]]
    /\ UNCHANGED <<callVars, leaked, staged, result, command, bound, fence, gpu, worldVars>>

DrainStep == DrainPermit /\ UNCHANGED <<callVars, streamVars, worldVars>>

Process(c) ==
    \/ Allocate(c) \/ CreateProps(c) \/ Pack(c) \/ Record(c) \/ Submit(c) \/ WaitFence(c)
    \/ Unpack(c)
    \/ SubmitFails(c) \/ WaitFails(c)

Loop(c) ==
    \/ SkipPlane(c) \/ CallProcessPlane(c) \/ PlaneDone(c) \/ ReturnFrame(c) \/ ReportError(c)

Next ==
    \/ \E c \in Callers :
          \/ \E f \in Frames : StartFrame(c, f)
          \/ Loop(c) \/ PoolStep(c) \/ Process(c)
          \/ AllocateFails(c) \/ CreatePropsFails(c)
    \/ \E s \in Streams : GpuFinishes(s)
    \/ LoseDevice
    \/ FreeFilter \/ DrainStep \/ DestroyExecutor

Spec == Init /\ [][Next]_vars

\* Threads are scheduled, the GPU ends what was submitted; the host may stop asking.
FairSpec ==
    /\ Spec
    /\ \A c \in Callers : WF_vars(Loop(c)) /\ WF_vars(PoolStep(c)) /\ WF_vars(Process(c))
    /\ \A s \in Streams : WF_vars(GpuFinishes(s))
    /\ WF_vars(DrainStep \/ DestroyExecutor)

-------------------------------------------------------------------------------

Contents == Frames \cup {Blank}
PlaneResources ==
    [initialized : BOOLEAN, live : 0 .. NumBuffers, props : {"none", "half", "ready"},
     made : Nat, handle : Handles \cup {Blank}]

CallTypeOK ==
    /\ at \in [Callers -> {"outside", "planes", "allocate", "props", "pack", "record",
                           "submit", "wait", "unpack", "release"}]
    /\ job \in [Callers -> Contents]
    /\ plane \in [Callers -> 1 .. NumPlanes + 1]
    /\ failed \in [Callers -> BOOLEAN]
    /\ dst \in [Callers -> [PlaneSet -> Contents]]

StreamTypeOK ==
    /\ buffers \in [Streams -> [PlaneSet -> PlaneResources]]
    /\ leaked \in Nat
    /\ staged \in [Streams -> [PlaneSet -> Contents]]
    /\ result \in [Streams -> [PlaneSet -> Contents]]
    /\ command \in [Streams -> 0 .. NumPlanes]
    /\ bound \in [Streams -> [PlaneSet -> [made : Nat, handle : Handles \cup {Blank}]]]
    /\ fence \in [Streams -> {"unsignaled", "signaled"}]
    /\ gpu \in [Streams -> {"idle", "running"}]

WorldTypeOK ==
    /\ lost \in BOOLEAN /\ abandoned \in BOOLEAN
    /\ faults \in 0 .. MaxFaults
    /\ answered \subseteq Frames

TypeOK == PoolTypeOK /\ CallTypeOK /\ StreamTypeOK /\ WorldTypeOK

\* A frame returned without an error has every plane computed from its own inputs, whoever used the
\* stream before (vkExprGetFrame, processPlane); unless a wait failed while the GPU went on, which
\* processPlane does not recover from.
FrameIntegrity ==
    ~abandoned => \A c \in Callers : at[c] = "planes" =>
        \A p \in PlaneSet : p < plane[c] => dst[c][p] = job[c]

\* Nobody writes the staging buffers or resets the command buffer of a stream, and nobody submits with
\* its fence, while the GPU or a signaled fence of an earlier use is still there; the streams are not
\* destroyed under the GPU either.  The same exception.
StreamQuiet ==
    ~abandoned =>
        /\ \A c \in Callers :
            pc[c] = "using" /\ at[c] \in {"allocate", "props", "pack", "record", "submit"} =>
                gpu[idx[c]] = "idle" /\ fence[idx[c]] = "unsignaled"
        /\ phase = "destroyed" => \A s \in Streams : gpu[s] = "idle"

\* What is submitted reads and writes the buffers of this use of the stream, although a buffer that
\* was destroyed and the one that was created after it may have the same handle (updateDescriptorSets).
DescriptorsCurrent ==
    \A c \in Callers : pc[c] = "using" /\ at[c] = "submit" =>
        bound[idx[c]][plane[c]].made = buffers[idx[c]][plane[c]].made

\* Device memory is lost only after an allocation failed: buffers are created over
\* live ones, or survive the executor, only then (freePlaneResources).
LeakNeedsFailure ==
    faults = 0 =>
        /\ leaked = 0
        /\ phase = "destroyed" =>
            \A s \in Streams, p \in PlaneSet : buffers[s][p] = NoBuffers

\* Every frame the host asked for is answered, with the frame or an error.
FrameAnswered == \A f \in Frames : (\E c \in Callers : job[c] = f) ~> f \in answered

===============================================================================
