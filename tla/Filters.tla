-------------------------------- MODULE Filters --------------------------------
(***************************************************************************)
(* The creation of the three filters: exprCreate, singleExprCreate and     *)
(* vkExprCreate take the clips and look at their arguments one after the   *)
(* other; whatever throws on the way ends in a catch block that gives the  *)
(* clips back.  An expression is a sequence of stages, several for VkExpr  *)
(* only, each empty, good, unconvertible (the infix front end throws) or   *)
(* bad (the tokenizer or the analysis throws).                             *)
(***************************************************************************)
EXTENDS Integers, Sequences, FiniteSets

CONSTANT Calls      \* the arguments of the calls (bound)

ASSUME CallsAssumption ==
    \A c \in Calls :
        /\ c.filter \in {"Expr", "SingleExpr", "VkExpr"} /\ c.params \in BOOLEAN
        /\ c.clips \in Seq([planes : Nat, sub : Nat, size : Nat, constant : BOOLEAN])

VARIABLES
    args,       \* the arguments
    step,       \* what creation does next; created, failed, crashed or freed
    plane,      \* the plane it looks at
    nodes,      \* nodes[i]: how many references to clip i the filter holds
    plane_op    \* process, copy or none for each plane

creation == <<args, step, plane, nodes, plane_op>>

NoFormat == [planes |-> 0, fits |-> TRUE]
Copied == <<"empty">>

NumPlanes == args.clips[1].planes
\* A plane without an expression uses the last one there is.
ExprOf(p) == args.exprs[IF p <= Len(args.exprs) THEN p ELSE Len(args.exprs)]
Stages(e) == {e[k] : k \in 1 .. Len(e)}

CreateInit ==
    /\ args \in Calls
    /\ step = "clips" /\ plane = 1 /\ nodes = <<>>
    /\ plane_op = [p \in 1 .. 3 |-> "none"]

\* Faulty: the catch block reports the error only.
ThrowKeeping == step' = "failed" /\ UNCHANGED <<args, plane, nodes, plane_op>>
\* The catch block frees every node that was taken.
Throw ==
    /\ step' = "failed"
    /\ nodes' = [i \in 1 .. Len(nodes) |-> nodes[i] - 1]
    /\ UNCHANGED <<args, plane, plane_op>>
Continue(to) == step' = to /\ UNCHANGED <<args, plane, nodes, plane_op>>

TakeClips ==
    /\ step = "clips"
    /\ nodes' = [i \in 1 .. Len(args.clips) |-> 1]
    /\ step' = IF args.clips = <<>> THEN "failed" ELSE "validate"
    /\ UNCHANGED <<args, plane, plane_op>>

\* SingleExpr lets the clips have different dimensions.
Validate ==
    /\ step = "validate"
    /\ IF \E c \in Stages(args.clips) :
             ~c.constant \/ (args.filter # "SingleExpr" /\ c.size # args.clips[1].size)
       THEN Throw ELSE Continue("format")

\* A format that VapourSynth does not know is ignored.
ParseFormat ==
    /\ step = "format"
    /\ IF args.format # NoFormat /\ (args.format.planes # NumPlanes \/ ~args.format.fits)
       THEN Throw
       ELSE Continue(IF args.filter = "SingleExpr" THEN "program" ELSE "exprs")

\* An array of three expressions: Expr throws when it is given more, VkExpr ignores them.
TakeExprs ==
    LET given == Len(args.exprs)
        used == 1 .. (IF given < 3 THEN given ELSE 3)
    IN  /\ step = "exprs"
        /\ IF \/ given = 0 \/ (given > 3 /\ args.filter = "Expr")
              \/ \E i \in used : "unconvertible" \in Stages(args.exprs[i])
           THEN Throw ELSE Continue("plane")

\* tokenize and ExpressionAnalyzer for each stage of the next plane; an empty stage among
\* others is an expression without a value.
AnalysePlane ==
    /\ step = "plane" /\ plane <= NumPlanes
    /\ LET copied == ExprOf(plane) = Copied
       IN  IF ~copied /\ Stages(ExprOf(plane)) # {"good"} THEN Throw
           ELSE /\ plane_op' = [plane_op EXCEPT ![plane] = IF copied THEN "copy" ELSE "process"]
                /\ plane' = plane + 1
                /\ UNCHANGED <<args, step, nodes>>

\* opt_level, approx_math and the tiles; num_streams and device_id of VkExpr.
ParseParams ==
    /\ step = "plane" /\ plane > NumPlanes
    /\ IF ~args.params THEN Throw
       ELSE Continue(IF args.filter = "VkExpr" THEN "shaders" ELSE "created")

\* The sizes of planes 1 and 2 are divided by subSamplingW and subSamplingH, which are
\* logarithms: a division by zero if the planes are not subsampled.
GenerateShaders ==
    /\ step = "shaders"
    /\ Continue(IF args.clips[1].sub = 0 /\ \E p \in 2 .. NumPlanes : plane_op[p] = "process"
                THEN "crashed" ELSE "executor")

\* There may be no device, or a shader does not compile.
MakeExecutor ==
    /\ step = "executor"
    /\ Throw \/ Continue("created")

\* genericFree, vkExprFree.
Free ==
    /\ step = "created"
    /\ step' = "freed"
    /\ nodes' = [i \in 1 .. Len(nodes) |-> nodes[i] - 1]
    /\ UNCHANGED <<args, plane, plane_op>>

Create == TakeClips \/ Validate \/ ParseFormat \/ TakeExprs \/ AnalysePlane \/ ParseParams
              \/ GenerateShaders \/ MakeExecutor

================================================================================
