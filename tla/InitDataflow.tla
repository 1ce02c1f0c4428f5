------------------------------ MODULE InitDataflow ------------------------------
(***************************************************************************)
(* Definite initialisation of variables and arrays in a postfix program:   *)
(* the forward dataflow solver run for VarInitPass (intersection over the  *)
(* predecessors) and for StaticAllocReachabilityPass (union), then         *)
(* ValidationPass, which looks at every token.  An accepted program then   *)
(* executes along any path, remembering what it has written and which      *)
(* arrays it has allocated statically.                                     *)
(***************************************************************************)
EXTENDS PostfixCFG

CONSTANTS
    Names,      \* identifiers, for variables and for arrays
    Programs    \* the programs submitted to the analysis (bound)

VarName(n) == <<"var", n>>
\* var_naming::getArrayName: an array never has the name of a variable.
ArrayName(n) == <<"array", n>>

Store(n) == [kind |-> "store", label |-> "", name |-> VarName(n)]
Load(n) == [kind |-> "load", label |-> "", name |-> VarName(n)]
Access(n) == [kind |-> "access", label |-> "", name |-> ArrayName(n)]
AllocStatic(n) == [kind |-> "alloc_static", label |-> "", name |-> ArrayName(n)]
AllocDyn(n) == [kind |-> "alloc_dyn", label |-> "", name |-> ArrayName(n)]
Goto(l) == [kind |-> "jump", label |-> l, name |-> ArrayName("")]
Here(l) == [kind |-> "label", label |-> l, name |-> ArrayName("")]

Writes(t) == t.kind \in {"store", "alloc_static", "alloc_dyn"}
Reads(t) == t.kind \in {"load", "access"}
Fixes(t) == t.kind = "alloc_static"
Allocates(t) == t.kind \in {"alloc_static", "alloc_dyn"}

NameSet == {"var", "array"} \X (Names \cup {""})
InitToken ==
    [kind : {"store", "load", "access", "alloc_static", "alloc_dyn", "jump", "label"},
     label : Labels \cup {""}, name : NameSet]

ASSUME InitProgramsAssumption == Programs \subseteq Seq(InitToken)

VARIABLES
    program,    \* the tokens
    phase,      \* cfg, var_init, static_alloc, validate, run or rejected
    reason,     \* why it was rejected
    block,      \* the block the solver looks at
    changed,    \* changed: an out set changed in this round
    initIn,     \* var_init_in
    initOut,    \* var_init_out
    staticIn,   \* static_alloc_in
    staticOut,  \* static_alloc_out
    at,         \* the token ValidationPass looks at
    defined,    \* defined_in_block
    static,     \* static_in_block
    pc,         \* the token the program executes next
    written,    \* the variables and arrays it has written or allocated
    fixed       \* the arrays it has allocated statically

vars == <<program, phase, reason, block, changed, initIn, initOut, staticIn, staticOut, at,
          defined, static, pc, written, fixed>>
initVars == <<initIn, initOut>>
staticVars == <<staticIn, staticOut>>
solverVars == <<block, changed, initVars, staticVars>>
checkVars == <<at, defined, static>>
runVars == <<pc, written, fixed>>

Tokens == 1 .. Len(program)
End == Len(program) + 1
Blocks == {b \in Tokens : IsStart(program, b)}

\* Token i lies in the block that starts at b, and is the last one of its block.
InBlock(b, i) == b <= i /\ \A k \in b + 1 .. i : ~IsStart(program, k)
EndsBlock(i) == i = Len(program) \/ IsStart(program, i + 1)

\* The block after b starts at c, or there is none.
Follows(b, c) ==
    /\ c # End => IsStart(program, c)
    /\ \A k \in b + 1 .. c - 1 : ~IsStart(program, k)

AllVars == {program[i].name : i \in {j \in Tokens : Writes(program[j]) \/ Reads(program[j])}}

\* Faulty: the default getInitialOutValue, the empty set, for both analyses.
InitWithoutAllVars ==
    /\ program \in Programs
    /\ phase = "cfg" /\ reason = "none"
    /\ block = 1 /\ changed = FALSE
    /\ initIn = [b \in Tokens |-> {}] /\ initOut = [b \in Tokens |-> {}]
    /\ staticIn = [b \in Tokens |-> {}] /\ staticOut = [b \in Tokens |-> {}]
    /\ at = 1 /\ defined = {} /\ static = {}
    /\ pc = 1 /\ written = {} /\ fixed = {}

Init ==
    /\ program \in Programs
    /\ phase = "cfg" /\ reason = "none"
    /\ block = 1 /\ changed = FALSE
    /\ initIn = [b \in Tokens |-> {}] /\ initOut = [b \in Tokens |-> AllVars]
    /\ staticIn = [b \in Tokens |-> {}] /\ staticOut = [b \in Tokens |-> {}]
    /\ at = 1 /\ defined = {} /\ static = {}
    /\ pc = 1 /\ written = {} /\ fixed = {}

Reject(why) == phase' = "rejected" /\ reason' = why
Continue(to) == phase' = to /\ UNCHANGED reason

\* BuildCFGPass
BuildCFG ==
    /\ phase = "cfg"
    /\ IF DuplicateLabel(program) THEN Reject("duplicate_label")
       ELSE IF UndefinedLabel(program) THEN Reject("undefined_label")
       ELSE Continue("var_init")
    /\ UNCHANGED <<program, solverVars, checkVars, runVars>>

-------------------------------------------------------------------------------
(* ForwardDataflowAnalysis *)

Predecessors(b) ==
    {c \in Blocks : \E i \in Tokens :
        /\ InBlock(c, i) /\ EndsBlock(i)
        /\ \E k \in 1 .. Len(Successors(program, i)) : Successors(program, i)[k] = b}

\* computeGenSet of the two analyses: what the tokens of block b write, or allocate.
Gen(b) == {program[i].name : i \in {j \in Tokens : InBlock(b, j) /\ Writes(program[j])}}
GenStatic(b) ==
    {program[i].name : i \in {j \in Tokens : InBlock(b, j) /\ Fixes(program[j])}}

\* meetOperation: what any predecessor gives, or what all of them give.
MeetAny(outs) == UNION outs
MeetAll(outs) == {v \in UNION outs : \A s \in outs : v \in s}

\* The first block has the boundary value, which is empty, whatever leads back to it.
Boundary(b) == b = 1 \/ Predecessors(b) = {}
NewInit(b) == IF Boundary(b) THEN {} ELSE MeetAll({initOut[c] : c \in Predecessors(b)})
NewStatic(b) == IF Boundary(b) THEN {} ELSE MeetAny({staticOut[c] : c \in Predecessors(b)})

\* One block of one round.
VisitInit ==
    LET newIn == NewInit(block)
        newOut == newIn \cup Gen(block)
    IN  /\ phase = "var_init" /\ block < End
        /\ initIn' = [initIn EXCEPT ![block] = newIn]
        /\ initOut' = [initOut EXCEPT ![block] = newOut]
        /\ changed' = (changed \/ newOut # initOut[block])
        /\ \E c \in block + 1 .. End : Follows(block, c) /\ block' = c
        /\ UNCHANGED <<program, phase, reason, staticVars, checkVars, runVars>>

VisitStatic ==
    LET newIn == NewStatic(block)
        newOut == newIn \cup GenStatic(block)
    IN  /\ phase = "static_alloc" /\ block < End
        /\ staticIn' = [staticIn EXCEPT ![block] = newIn]
        /\ staticOut' = [staticOut EXCEPT ![block] = newOut]
        /\ changed' = (changed \/ newOut # staticOut[block])
        /\ \E c \in block + 1 .. End : Follows(block, c) /\ block' = c
        /\ UNCHANGED <<program, phase, reason, initVars, checkVars, runVars>>

\* Faulty: one round is taken to be enough.
EndOfOnlyRound ==
    /\ phase \in {"var_init", "static_alloc"} /\ block = End
    /\ Continue(IF phase = "var_init" THEN "static_alloc" ELSE "validate")
    /\ block' = 1 /\ changed' = FALSE
    /\ UNCHANGED <<program, initVars, staticVars, checkVars, runVars>>

\* Faulty: changed is never set back.
EndOfRoundKeepingChanged ==
    /\ phase \in {"var_init", "static_alloc"} /\ block = End
    /\ IF changed THEN UNCHANGED <<phase, reason>>
       ELSE Continue(IF phase = "var_init" THEN "static_alloc" ELSE "validate")
    /\ block' = 1 /\ UNCHANGED changed
    /\ UNCHANGED <<program, initVars, staticVars, checkVars, runVars>>

\* After a round that changed something there is another one.
EndOfRound ==
    /\ phase \in {"var_init", "static_alloc"} /\ block = End
    /\ IF changed THEN UNCHANGED <<phase, reason>>
       ELSE Continue(IF phase = "var_init" THEN "static_alloc" ELSE "validate")
    /\ block' = 1 /\ changed' = FALSE
    /\ UNCHANGED <<program, initVars, staticVars, checkVars, runVars>>

-------------------------------------------------------------------------------
(* ValidationPass *)

\* Faulty: what a block defines stays defined in the block after it.
DefinedKeeping == IF at = 1 THEN initIn[1] ELSE defined

\* What is defined before token at: each block starts with what its predecessors give.
DefinedHere == IF IsStart(program, at) THEN initIn[at] ELSE defined
StaticHere == IF IsStart(program, at) THEN staticIn[at] ELSE static

CheckToken ==
    LET t == program[at]
    IN  /\ phase = "validate" /\ at < End
        /\ CASE Reads(t) /\ t.name \notin DefinedHere ->
                   Reject("uninitialized") /\ UNCHANGED checkVars
             [] Allocates(t) /\ t.name \in StaticHere ->
                   Reject("reallocated") /\ UNCHANGED checkVars
             [] OTHER ->
                   /\ UNCHANGED <<phase, reason>>
                   /\ defined' = DefinedHere \cup (IF Writes(t) THEN {t.name} ELSE {})
                   /\ static' = StaticHere \cup (IF Fixes(t) THEN {t.name} ELSE {})
                   /\ at' = at + 1
        /\ UNCHANGED <<program, solverVars, runVars>>

Accept ==
    /\ phase = "validate" /\ at = End
    /\ Continue("run")
    /\ UNCHANGED <<program, solverVars, checkVars, runVars>>

\* The accepted program executes a token, a jump being taken or not.
Execute ==
    LET t == program[pc]
    IN  /\ phase = "run" /\ pc < End
        /\ pc' \in {pc + 1} \cup (IF t.kind = "jump" THEN {TargetOf(program, pc)} ELSE {})
        /\ written' = IF Writes(t) THEN written \cup {t.name} ELSE written
        /\ fixed' = IF Fixes(t) THEN fixed \cup {t.name} ELSE fixed
        /\ UNCHANGED <<program, phase, reason, solverVars, checkVars>>

Analyse == BuildCFG \/ VisitInit \/ VisitStatic \/ EndOfRound \/ CheckToken \/ Accept
Next == Analyse \/ Execute

Spec == Init /\ [][Next]_vars

\* The passes run to their end in the thread that creates the filter.
FairSpec == Spec /\ WF_vars(Analyse)

-------------------------------------------------------------------------------

TypeOK ==
    /\ program \in Seq(InitToken)
    /\ phase \in {"cfg", "var_init", "static_alloc", "validate", "run", "rejected"}
    /\ reason \in {"none", "duplicate_label", "undefined_label", "uninitialized", "reallocated"}
    /\ block \in 1 .. End /\ (block = End \/ block = 1 \/ IsStart(program, block))
    /\ changed \in BOOLEAN
    /\ initIn \in [Tokens -> SUBSET NameSet] /\ initOut \in [Tokens -> SUBSET NameSet]
    /\ staticIn \in [Tokens -> SUBSET NameSet] /\ staticOut \in [Tokens -> SUBSET NameSet]
    /\ at \in 1 .. End /\ defined \subseteq NameSet /\ static \subseteq NameSet
    /\ pc \in 1 .. End /\ written \subseteq NameSet /\ fixed \subseteq NameSet

\* "The compiler verifies that an array is allocated before any read or write", and that
\* variables are written before they are read: no execution of an accepted program, with
\* any number of loops, reads what it has not written (VarInitPass, ValidationPass).
NoUninitialisedRead ==
    phase = "run" /\ pc < End /\ Reads(program[pc]) => program[pc].name \in written

\* S has the first token and, with a token that does not write v, the tokens after it.
ClosedWithout(v, S) ==
    /\ {1} \cap Tokens \subseteq S
    /\ \A i \in S : ~(Writes(program[i]) /\ program[i].name = v) =>
          \A k \in 1 .. Len(Successors(program, i)) : Successors(program, i)[k] \in S

\* The tokens that an execution from token 1 gets to without passing a token that writes v:
\* those in every such set.
ReachedWithout(v) == {i \in Tokens : \A S \in SUBSET Tokens : ClosedWithout(v, S) => i \in S}

\* A program is rejected for a missing initialisation only if some path through its jumps
\* really gets to the read without a write: the meet over predecessors loses nothing.
UninitialisedIsJustified ==
    reason = "uninitialized" => at \in ReachedWithout(program[at].name)

\* "An array allocated statically cannot be reallocated by any means" (docs/postfix.md:281):
\* an accepted program allocates an array again after a static allocation only if a jump
\* leads back to its first block, whose in-set is the boundary value whatever the jump brings.
ReallocationThroughStart ==
    phase = "run" /\ pc < End /\ Allocates(program[pc]) /\ program[pc].name \in fixed
        => Predecessors(1) # {}

\* Both analyses reach their fixed points on every program.
AnalysisEnds == <>(phase \in {"run", "rejected"})

================================================================================
