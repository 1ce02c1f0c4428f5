--------------------------- MODULE InitDataflow_proofs ---------------------------
(***************************************************************************)
(* Proofs that definite initialisation is sound for every set of programs: *)
(* an accepted program, of any length and shape, reads only what it has    *)
(* written, and repeats a static allocation only through its first block.  *)
(*                                                                         *)
(* SolverInv says that a round without a change leaves a fixed point of    *)
(* the dataflow equations, CheckInv what ValidationPass has established of *)
(* the tokens before "at", and RunInv that an execution has written at     *)
(* least what the analysis knows where it is.                              *)
(*                                                                         *)
(* The converse, that a rejection is justified, has an invariant of its    *)
(* own, JustInv: what an out set lacks is missing on a path.               *)
(***************************************************************************)
EXTENDS InitDataflow, WellFoundedInduction, TLAPS

CfgInv == phase \notin {"cfg", "rejected"} => ~UndefinedLabel(program)

\* The sets of block b solve its dataflow equations.
FixedInit(b) == initIn[b] = NewInit(b) /\ initOut[b] = initIn[b] \cup Gen(b)
FixedStatic(b) == staticIn[b] = NewStatic(b) /\ staticOut[b] = staticIn[b] \cup GenStatic(b)

SolverInv ==
    /\ phase \in {"cfg", "var_init"} /\ ~changed => \A b \in Blocks : b < block => FixedInit(b)
    /\ phase \in {"static_alloc", "validate", "run"} => \A b \in Blocks : FixedInit(b)
    /\ phase = "cfg" => block = 1
    /\ phase = "static_alloc" /\ ~changed => \A b \in Blocks : b < block => FixedStatic(b)
    /\ phase \in {"validate", "run"} => \A b \in Blocks : FixedStatic(b)

\* What block b writes, or allocates statically, before token j.
WrittenIn(b, j) == {program[i].name : i \in {k \in Tokens : b <= k /\ k < j /\ Writes(program[k])}}
FixedIn(b, j) == {program[i].name : i \in {k \in Tokens : b <= k /\ k < j /\ Fixes(program[k])}}

\* What is known before token j of block b: written on every path, allocated on some path.
Known(b, j) == initIn[b] \cup WrittenIn(b, j)
KnownFixed(b, j) == staticIn[b] \cup FixedIn(b, j)

\* ValidationPass found nothing wrong with token j.
Checked(j) ==
    \A b \in Blocks : InBlock(b, j) =>
        /\ Reads(program[j]) => program[j].name \in Known(b, j)
        /\ Allocates(program[j]) => program[j].name \notin KnownFixed(b, j)

CheckInv ==
    /\ phase \in {"cfg", "var_init", "static_alloc"} => at = 1
    /\ phase = "run" => at = End
    /\ \A j \in 1 .. at - 1 : Checked(j)
    /\ phase = "validate" /\ at > 1 => \A b \in Blocks : InBlock(b, at - 1) =>
          defined = Known(b, at) /\ static = KnownFixed(b, at)

\* The execution is in block b and agrees with what is known there.
Agrees(b) ==
    /\ InBlock(b, pc) /\ Known(b, pc) \subseteq written
    /\ Predecessors(1) = {} => fixed \subseteq KnownFixed(b, pc)

RunInv ==
    /\ phase # "run" => pc = 1 /\ written = {} /\ fixed = {}
    /\ phase = "run" /\ pc < End => \E b \in Blocks : Agrees(b)

IInv == TypeOK /\ CfgInv /\ SolverInv /\ CheckInv /\ RunInv

-------------------------------------------------------------------------------
(* The control-flow graph *)

\* A jump whose label is defined goes to a token that starts a block.
LEMMA TargetIsStart ==
    ASSUME NEW S, NEW p \in Seq(S), ~UndefinedLabel(p),
           NEW i \in 1 .. Len(p), p[i].kind = "jump"
    PROVE  TargetOf(p, i) \in 1 .. Len(p) /\ IsStart(p, TargetOf(p, i))
<1>1. \E j \in 1 .. Len(p) : Defines(p, j, p[i].label)
  BY DEF UndefinedLabel
<1>2. TargetOf(p, i) \in 1 .. Len(p) /\ Defines(p, TargetOf(p, i), p[i].label)
  BY <1>1 DEF TargetOf
<1>3. QED
  BY <1>2 DEF Defines, IsStart

\* What Successors lists: a sequence of token indices, and, after the last token of
\* a block, of block starts.
LEMMA SuccessorsAreTokens ==
    ASSUME NEW S, NEW p \in Seq(S), ~UndefinedLabel(p), NEW i \in 1 .. Len(p)
    PROVE  /\ Successors(p, i) \in Seq(1 .. Len(p))
           /\ i = Len(p) \/ IsStart(p, i + 1) =>
                 \A k \in 1 .. Len(Successors(p, i)) : IsStart(p, Successors(p, i)[k])
<1>1. CASE p[i].kind = "jump"
  <2>1. TargetOf(p, i) \in 1 .. Len(p) /\ IsStart(p, TargetOf(p, i))
    BY <1>1, TargetIsStart
  <2>2. CASE i < Len(p)
    <3>1. Successors(p, i) = <<TargetOf(p, i), i + 1>>
      BY <1>1, <2>2 DEF Successors
    <3>2. QED
      BY <2>1, <2>2, <3>1
  <2>3. CASE i = Len(p)
    <3>1. Successors(p, i) = <<TargetOf(p, i)>>
      BY <1>1, <2>3 DEF Successors
    <3>2. QED
      BY <2>1, <2>3, <3>1
  <2>4. QED
    BY <2>2, <2>3
<1>2. CASE p[i].kind # "jump"
  <2>1. CASE i < Len(p)
    <3>1. Successors(p, i) = <<i + 1>>
      BY <1>2, <2>1 DEF Successors
    <3>2. QED
      BY <2>1, <3>1
  <2>2. CASE i = Len(p)
    <3>1. Successors(p, i) = <<>>
      BY <1>2, <2>2 DEF Successors
    <3>2. QED
      BY <3>1
  <2>3. QED
    BY <2>1, <2>2
<1>3. QED
  BY <1>1, <1>2

-------------------------------------------------------------------------------

\* What a program is made of.
LEMMA ProgramFacts ==
    ASSUME program \in Seq(InitToken)
    PROVE  /\ Len(program) \in Nat
           /\ \A i \in Tokens : program[i] \in InitToken /\ program[i].name \in NameSet
           /\ Blocks \subseteq Tokens
<1>1. Len(program) \in Nat /\ \A i \in Tokens : program[i] \in InitToken
  BY DEF Tokens
<1>2. \A t \in InitToken : t.name \in NameSet
  BY DEF InitToken
<1>3. QED
  BY <1>1, <1>2 DEF Blocks

\* The sets the solver computes are sets of names.
LEMMA NewTypes ==
    ASSUME TypeOK, NEW b
    PROVE  /\ Gen(b) \subseteq NameSet /\ GenStatic(b) \subseteq NameSet
           /\ NewInit(b) \subseteq NameSet /\ NewStatic(b) \subseteq NameSet
<1>1. \A i \in Tokens : program[i].name \in NameSet
  BY ProgramFacts DEF TypeOK
<1>2. Gen(b) \subseteq NameSet /\ GenStatic(b) \subseteq NameSet
  BY <1>1 DEF Gen, GenStatic
<1>3. Predecessors(b) \subseteq Tokens
  BY DEF Predecessors, Blocks
<1>4. NewInit(b) \subseteq NameSet
  BY <1>3 DEF TypeOK, NewInit, MeetAll
<1>5. NewStatic(b) \subseteq NameSet
  BY <1>3 DEF TypeOK, NewStatic, MeetAny
<1>6. QED
  BY <1>2, <1>4, <1>5

\* The variables start with their types.
LEMMA TypeInit == Init => TypeOK
<1> SUFFICES ASSUME Init PROVE TypeOK
  OBVIOUS
<1>1. program \in Seq(InitToken)
  BY InitProgramsAssumption DEF Init
<1>2. Len(program) \in Nat /\ \A i \in Tokens : program[i].name \in NameSet
  BY <1>1, ProgramFacts
<1>3. AllVars \subseteq NameSet
  BY <1>2 DEF AllVars
<1>4. /\ initIn \in [Tokens -> SUBSET NameSet] /\ initOut \in [Tokens -> SUBSET NameSet]
      /\ staticIn \in [Tokens -> SUBSET NameSet] /\ staticOut \in [Tokens -> SUBSET NameSet]
  BY <1>3 DEF Init
<1>5. 1 \in 1 .. End
  BY <1>2 DEF End
<1>6. QED
  BY <1>1, <1>4, <1>5 DEF Init, TypeOK

\* Every step keeps the types, and the passes behind BuildCFGPass see defined labels.
LEMMA TypeStep == TypeOK /\ CfgInv /\ [Next]_vars => TypeOK' /\ CfgInv'
<1> SUFFICES ASSUME TypeOK, CfgInv, [Next]_vars PROVE TypeOK' /\ CfgInv'
  OBVIOUS
<1>0. /\ Len(program) \in Nat /\ Blocks \subseteq Tokens
      /\ \A i \in Tokens : program[i] \in InitToken /\ program[i].name \in NameSet
  BY ProgramFacts DEF TypeOK
<1>1. CASE BuildCFG
  BY <1>1 DEF BuildCFG, Reject, Continue, solverVars, initVars, staticVars, checkVars, runVars,
     TypeOK, CfgInv, End, Tokens
<1>2. CASE VisitInit
  <2>1. NewInit(block) \subseteq NameSet /\ Gen(block) \subseteq NameSet
    BY NewTypes
  <2>2. /\ initIn' \in [Tokens -> SUBSET NameSet] /\ initOut' \in [Tokens -> SUBSET NameSet]
        /\ changed' \in BOOLEAN
    BY <1>2, <2>1 DEF VisitInit, TypeOK
  <2>3. block' \in 1 .. End /\ (block' = End \/ block' = 1 \/ IsStart(program, block'))
    BY <1>2, <1>0 DEF VisitInit, Follows, TypeOK, End
  <2>4. QED
    BY <1>2, <2>2, <2>3 DEF VisitInit, staticVars, checkVars, runVars, TypeOK, CfgInv, End, Tokens
<1>3. CASE VisitStatic
  <2>1. NewStatic(block) \subseteq NameSet /\ GenStatic(block) \subseteq NameSet
    BY NewTypes
  <2>2. /\ staticIn' \in [Tokens -> SUBSET NameSet] /\ staticOut' \in [Tokens -> SUBSET NameSet]
        /\ changed' \in BOOLEAN
    BY <1>3, <2>1 DEF VisitStatic, TypeOK
  <2>3. block' \in 1 .. End /\ (block' = End \/ block' = 1 \/ IsStart(program, block'))
    BY <1>3, <1>0 DEF VisitStatic, Follows, TypeOK, End
  <2>4. QED
    BY <1>3, <2>2, <2>3 DEF VisitStatic, initVars, checkVars, runVars, TypeOK, CfgInv, End, Tokens
<1>4. CASE EndOfRound
  <2>1. 1 \in 1 .. End
    BY <1>0 DEF End
  <2>2. QED
    BY <1>4, <2>1 DEF EndOfRound, Continue, initVars, staticVars, checkVars, runVars,
       TypeOK, CfgInv, End, Tokens
<1>5. CASE CheckToken
  <2>1. at \in Tokens
    BY <1>5 DEF CheckToken, TypeOK, End, Tokens
  <2>2. DefinedHere \subseteq NameSet /\ StaticHere \subseteq NameSet
    BY <2>1 DEF DefinedHere, StaticHere, TypeOK
  <2>3. at' \in 1 .. End /\ defined' \subseteq NameSet /\ static' \subseteq NameSet
    BY <1>0, <1>5, <2>1, <2>2 DEF CheckToken, checkVars, TypeOK, End, Tokens
  <2>4. /\ phase' \in {"validate", "rejected"}
        /\ reason' \in {"none", "duplicate_label", "undefined_label", "uninitialized", "reallocated"}
    BY <1>5 DEF CheckToken, Reject, TypeOK
  <2>5. QED
    BY <1>5, <2>3, <2>4 DEF CheckToken, solverVars, initVars, staticVars, runVars, TypeOK, CfgInv,
       End, Tokens
<1>6. CASE Accept
  BY <1>6 DEF Accept, Continue, solverVars, initVars, staticVars, checkVars, runVars, TypeOK,
     CfgInv, End, Tokens
<1>7. CASE Execute
  <2>1. pc \in Tokens
    BY <1>7 DEF Execute, TypeOK, End, Tokens
  <2>2. program[pc].kind = "jump" => TargetOf(program, pc) \in Tokens
    BY <1>7, <2>1, TargetIsStart DEF Execute, TypeOK, CfgInv, Tokens
  <2>3. pc' \in 1 .. End
    BY <1>0, <1>7, <2>1, <2>2 DEF Execute, End, Tokens
  <2>4. written' \subseteq NameSet /\ fixed' \subseteq NameSet
    BY <1>0, <1>7, <2>1 DEF Execute, TypeOK
  <2>5. QED
    BY <1>7, <2>3, <2>4 DEF Execute, solverVars, initVars, staticVars, checkVars, TypeOK, CfgInv,
       End, Tokens
<1>8. CASE UNCHANGED vars
  BY <1>8 DEF vars, TypeOK, CfgInv, End, Tokens
<1>9. QED
  BY <1>1, <1>2, <1>3, <1>4, <1>5, <1>6, <1>7, <1>8 DEF Next, Analyse

-------------------------------------------------------------------------------
(* The solver *)

\* The equations of a block depend on the sets only through these.
LEMMA SameEquations ==
    ASSUME UNCHANGED program
    PROVE  /\ Blocks' = Blocks
           /\ UNCHANGED initVars => \A b : FixedInit(b) <=> FixedInit(b)'
           /\ UNCHANGED staticVars => \A b : FixedStatic(b) <=> FixedStatic(b)'
<1>1. Tokens' = Tokens /\ Blocks' = Blocks
  BY DEF Tokens, Blocks
<1>2. \A b, j : InBlock(b, j) <=> InBlock(b, j)'
  BY DEF InBlock
<1>3. \A j : EndsBlock(j) <=> EndsBlock(j)'
  BY DEF EndsBlock
<1>4. \A b : Predecessors(b)' = Predecessors(b)
  BY <1>1, <1>2, <1>3 DEF Predecessors
<1>5. \A b : Gen(b)' = Gen(b) /\ GenStatic(b)' = GenStatic(b)
  BY <1>1, <1>2 DEF Gen, GenStatic
<1>6. UNCHANGED initVars => \A b : NewInit(b)' = NewInit(b)
  BY <1>4 DEF initVars, NewInit, Boundary
<1>7. UNCHANGED staticVars => \A b : NewStatic(b)' = NewStatic(b)
  BY <1>4 DEF staticVars, NewStatic, Boundary
<1>8. QED
  BY <1>1, <1>5, <1>6, <1>7 DEF FixedInit, FixedStatic, initVars, staticVars

\* The solver looks at a block, and the next one it looks at is the next block.
LEMMA BlockFacts ==
    ASSUME TypeOK, block < End, NEW c \in block + 1 .. End, Follows(block, c)
    PROVE  block \in Blocks /\ \A b \in Blocks : b < c => b <= block
<1>1. Len(program) \in Nat
  BY ProgramFacts DEF TypeOK
<1>2. block \in Blocks
  BY <1>1 DEF TypeOK, Blocks, End, Tokens, IsStart
<1>3. ASSUME NEW b \in Blocks, b < c, ~(b <= block) PROVE FALSE
  <2>1. b \in block + 1 .. c - 1
    BY <1>1, <1>2, <1>3 DEF Blocks, Tokens, End
  <2>2. QED
    BY <1>3, <2>1 DEF Follows, Blocks
<1>4. QED
  BY <1>2, <1>3

\* A block of a round in which nothing has changed gets the solution of its equations,
\* and those before keep theirs (VarInitPass).
LEMMA VisitInitKeeps == TypeOK /\ SolverInv /\ VisitInit => SolverInv'
<1> SUFFICES ASSUME TypeOK, SolverInv, VisitInit PROVE SolverInv'
  OBVIOUS
<1>1. PICK c \in block + 1 .. End : Follows(block, c) /\ block' = c
  BY DEF VisitInit
<1>2. block \in Blocks /\ \A b \in Blocks : b < c => b <= block
  BY <1>1, BlockFacts DEF VisitInit
<1>3. ASSUME ~changed', NEW b \in Blocks', b < block' PROVE FixedInit(b)'
  <2> DEFINE newIn == NewInit(block)
             newOut == newIn \cup Gen(block)
  <2>1. UNCHANGED program /\ ~changed /\ newOut = initOut[block]
    BY <1>3 DEF VisitInit
  <2>2. b \in Blocks /\ b \in Tokens /\ block \in Tokens
    BY <1>2, <1>3, <2>1, SameEquations DEF Blocks
  <2>3. initIn' = [initIn EXCEPT ![block] = newIn] /\ initOut' = initOut
    BY <2>1, <2>2 DEF VisitInit, TypeOK
  <2>4. NewInit(b)' = NewInit(b) /\ Gen(b)' = Gen(b)
    BY <2>1, <2>3 DEF NewInit, Boundary, Predecessors, Gen, Blocks, Tokens, InBlock, EndsBlock
  <2>5. CASE b = block
    <3>1. initIn'[b] = newIn
      BY <2>2, <2>3, <2>5 DEF TypeOK
    <3>2. QED
      BY <2>1, <2>3, <2>4, <2>5, <3>1 DEF FixedInit
  <2>6. CASE b # block
    <3>1. b < block
      BY <1>1, <1>2, <1>3, <2>2, <2>6, ProgramFacts DEF TypeOK, Tokens
    <3>2. FixedInit(b)
      BY <2>1, <2>2, <3>1 DEF SolverInv, VisitInit
    <3>3. initIn'[b] = initIn[b]
      BY <2>2, <2>3, <2>6 DEF TypeOK
    <3>4. QED
      BY <2>3, <2>4, <3>2, <3>3 DEF FixedInit
  <2>7. QED
    BY <2>5, <2>6
<1>4. QED
  BY <1>3 DEF VisitInit, SolverInv

\* The same for StaticAllocReachabilityPass; what VarInitPass has solved stays so.
LEMMA VisitStaticKeeps == TypeOK /\ SolverInv /\ VisitStatic => SolverInv'
<1> SUFFICES ASSUME TypeOK, SolverInv, VisitStatic PROVE SolverInv'
  OBVIOUS
<1>1. PICK c \in block + 1 .. End : Follows(block, c) /\ block' = c
  BY DEF VisitStatic
<1>2. block \in Blocks /\ \A b \in Blocks : b < c => b <= block
  BY <1>1, BlockFacts DEF VisitStatic
<1>3. ASSUME ~changed', NEW b \in Blocks', b < block' PROVE FixedStatic(b)'
  <2> DEFINE newIn == NewStatic(block)
             newOut == newIn \cup GenStatic(block)
  <2>1. UNCHANGED program /\ ~changed /\ newOut = staticOut[block]
    BY <1>3 DEF VisitStatic
  <2>2. b \in Blocks /\ b \in Tokens /\ block \in Tokens
    BY <1>2, <1>3, <2>1, SameEquations DEF Blocks
  <2>3. staticIn' = [staticIn EXCEPT ![block] = newIn] /\ staticOut' = staticOut
    BY <2>1, <2>2 DEF VisitStatic, TypeOK
  <2>4. NewStatic(b)' = NewStatic(b) /\ GenStatic(b)' = GenStatic(b)
    BY <2>1, <2>3 DEF NewStatic, Boundary, Predecessors, GenStatic, Blocks, Tokens, InBlock, EndsBlock
  <2>5. CASE b = block
    <3>1. staticIn'[b] = newIn
      BY <2>2, <2>3, <2>5 DEF TypeOK
    <3>2. QED
      BY <2>1, <2>3, <2>4, <2>5, <3>1 DEF FixedStatic
  <2>6. CASE b # block
    <3>1. b < block
      BY <1>1, <1>2, <1>3, <2>2, <2>6, ProgramFacts DEF TypeOK, Tokens
    <3>2. FixedStatic(b)
      BY <2>1, <2>2, <3>1 DEF SolverInv, VisitStatic
    <3>3. staticIn'[b] = staticIn[b]
      BY <2>2, <2>3, <2>6 DEF TypeOK
    <3>4. QED
      BY <2>3, <2>4, <3>2, <3>3 DEF FixedStatic
  <2>7. QED
    BY <2>5, <2>6
<1>4. Blocks' = Blocks /\ \A b : FixedInit(b) <=> FixedInit(b)'
  BY SameEquations DEF VisitStatic, initVars
<1>5. QED
  BY <1>3, <1>4 DEF VisitStatic, SolverInv

\* Every step keeps what the solver has solved.
LEMMA SolverStep == TypeOK /\ SolverInv /\ [Next]_vars => SolverInv'
<1> SUFFICES ASSUME TypeOK, SolverInv, [Next]_vars PROVE SolverInv'
  OBVIOUS
<1>1. CASE VisitInit
  BY <1>1, VisitInitKeeps
<1>2. CASE VisitStatic
  BY <1>2, VisitStaticKeeps
<1>3. CASE EndOfRound
  <2>1. \A b \in Blocks : b < End /\ ~(b < 1)
    BY ProgramFacts DEF TypeOK, Tokens, End
  <2>2. /\ Blocks' = Blocks /\ \A b : FixedInit(b) <=> FixedInit(b)'
        /\ \A b : FixedStatic(b) <=> FixedStatic(b)'
    BY <1>3, SameEquations DEF EndOfRound
  <2>3. QED
    BY <1>3, <2>1, <2>2 DEF EndOfRound, Continue, SolverInv
<1>4. CASE BuildCFG \/ CheckToken \/ Accept \/ Execute \/ UNCHANGED vars
  <2>1. UNCHANGED <<program, block, changed>> /\ UNCHANGED initVars /\ UNCHANGED staticVars
    BY <1>4 DEF BuildCFG, CheckToken, Accept, Execute, vars, solverVars, initVars, staticVars
  <2>2. /\ Blocks' = Blocks /\ \A b : FixedInit(b) <=> FixedInit(b)'
        /\ \A b : FixedStatic(b) <=> FixedStatic(b)'
    BY <2>1, SameEquations
  <2>3. \/ phase' = phase
        \/ phase = "cfg" /\ phase' \in {"var_init", "rejected"}
        \/ phase = "validate" /\ phase' \in {"run", "rejected"}
    BY <1>4 DEF BuildCFG, CheckToken, Accept, Execute, vars, Reject, Continue
  <2>4. QED
    BY <2>1, <2>2, <2>3 DEF SolverInv
<1>5. QED
  BY <1>1, <1>2, <1>3, <1>4 DEF Next, Analyse

-------------------------------------------------------------------------------
(* Validation *)

\* One more token of block b.
LEMMA OneMore ==
    ASSUME program \in Seq(InitToken), NEW j \in Tokens, NEW b \in Tokens, b <= j
    PROVE  /\ WrittenIn(b, j + 1)
                = WrittenIn(b, j) \cup (IF Writes(program[j]) THEN {program[j].name} ELSE {})
           /\ FixedIn(b, j + 1)
                = FixedIn(b, j) \cup (IF Fixes(program[j]) THEN {program[j].name} ELSE {})
<1>1. Len(program) \in Nat
  BY ProgramFacts
<1>2. \A k \in Tokens : (b <= k /\ k < j + 1) <=> (b <= k /\ k < j) \/ k = j
  BY <1>1 DEF Tokens
<1>3. QED
  BY <1>2 DEF WrittenIn, FixedIn

\* Nothing of a block comes before its first token.
LEMMA NothingYet ==
    ASSUME program \in Seq(InitToken), NEW b \in Tokens
    PROVE  Known(b, b) = initIn[b] /\ KnownFixed(b, b) = staticIn[b]
<1>1. Len(program) \in Nat
  BY ProgramFacts
<1>2. \A k \in Tokens : ~(b <= k /\ k < b)
  BY <1>1 DEF Tokens
<1>3. QED
  BY <1>2 DEF Known, KnownFixed, WrittenIn, FixedIn

\* The block of a token is the block of the token before, or starts there.
LEMMA BlockOfToken ==
    ASSUME program \in Seq(InitToken), NEW j \in Tokens, NEW b \in Blocks, InBlock(b, j)
    PROVE  \/ IsStart(program, j) /\ b = j
           \/ ~IsStart(program, j) /\ j > 1 /\ b <= j - 1 /\ InBlock(b, j - 1)
<1>1. Len(program) \in Nat /\ b \in Tokens /\ b <= j
  BY ProgramFacts DEF InBlock, Blocks
<1>2. CASE b = j
  BY <1>2 DEF Blocks
<1>3. CASE b < j
  <2>1. j \in b + 1 .. j /\ b <= j - 1 /\ j > 1
    BY <1>1, <1>3 DEF Tokens
  <2>2. ~IsStart(program, j)
    BY <2>1 DEF InBlock
  <2>3. \A k \in b + 1 .. j - 1 : k \in b + 1 .. j
    BY <1>1 DEF Tokens
  <2>4. QED
    BY <2>1, <2>2, <2>3 DEF InBlock
<1>4. QED
  BY <1>1, <1>2, <1>3 DEF Tokens

\* What ValidationPass carries from token to token is what is known of the block.
LEMMA HereIsKnown ==
    ASSUME TypeOK, CheckInv, phase = "validate", at \in Tokens,
           NEW b \in Blocks, InBlock(b, at)
    PROVE  DefinedHere = Known(b, at) /\ StaticHere = KnownFixed(b, at)
<1>1. program \in Seq(InitToken)
  BY DEF TypeOK
<1>2. CASE IsStart(program, at) /\ b = at
  BY <1>1, <1>2, NothingYet DEF DefinedHere, StaticHere
<1>3. CASE ~IsStart(program, at) /\ at > 1 /\ InBlock(b, at - 1)
  BY <1>3 DEF CheckInv, DefinedHere, StaticHere
<1>4. QED
  BY <1>1, <1>2, <1>3, BlockOfToken

\* What is known depends on the program and the solution only.
LEMMA SameKnown ==
    ASSUME UNCHANGED program, UNCHANGED initVars, UNCHANGED staticVars
    PROVE  /\ Blocks' = Blocks /\ Tokens' = Tokens
           /\ \A b, j : InBlock(b, j) <=> InBlock(b, j)'
           /\ \A b, j : Known(b, j)' = Known(b, j) /\ KnownFixed(b, j)' = KnownFixed(b, j)
           /\ \A j : Checked(j) <=> Checked(j)'
<1>1. /\ Blocks' = Blocks /\ Tokens' = Tokens
      /\ \A b, j : InBlock(b, j) <=> InBlock(b, j)'
  BY DEF Blocks, Tokens, InBlock
<1>2. \A b, j : WrittenIn(b, j)' = WrittenIn(b, j) /\ FixedIn(b, j)' = FixedIn(b, j)
  BY <1>1 DEF WrittenIn, FixedIn
<1>3. \A b, j : Known(b, j)' = Known(b, j) /\ KnownFixed(b, j)' = KnownFixed(b, j)
  BY <1>2 DEF initVars, staticVars, Known, KnownFixed
<1>4. QED
  BY <1>1, <1>3 DEF Checked

\* A token that ValidationPass lets pass has been checked for whatever block it is in.
LEMMA CheckTokenKeeps == TypeOK /\ CheckInv /\ CheckToken => CheckInv'
<1> SUFFICES ASSUME TypeOK, CheckInv, CheckToken PROVE CheckInv'
  OBVIOUS
<1>1. program \in Seq(InitToken) /\ at \in Tokens /\ Len(program) \in Nat
  BY ProgramFacts DEF TypeOK, CheckToken, End, Tokens
<1>2. /\ Blocks' = Blocks /\ Tokens' = Tokens /\ program' = program /\ End' = End
      /\ \A b, j : InBlock(b, j) <=> InBlock(b, j)'
      /\ \A b, j : Known(b, j)' = Known(b, j) /\ KnownFixed(b, j)' = KnownFixed(b, j)
      /\ \A j : Checked(j) <=> Checked(j)'
  BY SameKnown DEF CheckToken, solverVars, initVars, staticVars, End
<1>3. CASE at' = at /\ phase' = "rejected"
  BY <1>2, <1>3 DEF CheckInv
<1>4. CASE /\ phase' = "validate" /\ at' = at + 1
           /\ Reads(program[at]) => program[at].name \in DefinedHere
           /\ Allocates(program[at]) => program[at].name \notin StaticHere
           /\ defined' = DefinedHere \cup (IF Writes(program[at]) THEN {program[at].name} ELSE {})
           /\ static' = StaticHere \cup (IF Fixes(program[at]) THEN {program[at].name} ELSE {})
  <2>1. phase = "validate"
    BY DEF CheckToken
  <2>2. Checked(at)
    BY <1>1, <1>4, <2>1, HereIsKnown DEF Checked
  <2>3. \A j \in 1 .. at' - 1 : Checked(j)'
    BY <1>1, <1>2, <1>4, <2>2 DEF CheckInv, Tokens
  <2>4. ASSUME NEW b \in Blocks, InBlock(b, at)
        PROVE  defined' = Known(b, at + 1) /\ static' = KnownFixed(b, at + 1)
    <3>1. DefinedHere = Known(b, at) /\ StaticHere = KnownFixed(b, at)
      BY <1>1, <2>1, <2>4, HereIsKnown
    <3>2. b \in Tokens /\ b <= at
      BY <2>4 DEF Blocks, InBlock
    <3>3. QED
      BY <1>1, <1>4, <3>1, <3>2, OneMore DEF Known, KnownFixed
  <2>5. at' - 1 = at
    BY <1>1, <1>4 DEF Tokens
  <2>6. ASSUME NEW b \in Blocks', InBlock(b, at - 1)'
        PROVE  defined' = Known(b, at)' /\ static' = KnownFixed(b, at)'
    <3>1. b \in Blocks /\ InBlock(b, at)
      BY <1>2, <2>5, <2>6 DEF InBlock
    <3>2. Known(b, at)' = Known(b, at + 1) /\ KnownFixed(b, at)' = KnownFixed(b, at + 1)
      BY <1>2, <1>4, <2>5
    <3>3. QED
      BY <2>4, <3>1, <3>2
  <2>7. QED
    BY <1>4, <2>3, <2>6 DEF CheckInv
<1>5. QED
  BY <1>3, <1>4 DEF CheckToken, Reject, checkVars

\* Every step keeps what has been established of the tokens.
LEMMA CheckStep == TypeOK /\ CheckInv /\ [Next]_vars => CheckInv'
<1> SUFFICES ASSUME TypeOK, CheckInv, [Next]_vars PROVE CheckInv'
  OBVIOUS
<1>1. CASE CheckToken
  BY <1>1, CheckTokenKeeps
<1>2. CASE BuildCFG \/ VisitInit \/ VisitStatic \/ EndOfRound
  <2>1. at' = at /\ at = 1 /\ phase' \in {"var_init", "static_alloc", "validate", "rejected"}
    BY <1>2 DEF BuildCFG, VisitInit, VisitStatic, EndOfRound, checkVars, CheckInv, Reject, Continue
  <2>2. 1 .. at' - 1 = {}
    BY <2>1
  <2>3. QED
    BY <2>1, <2>2 DEF CheckInv
<1>3. CASE Accept \/ Execute \/ UNCHANGED vars
  <2>1. /\ UNCHANGED <<program, at, defined, static>>
        /\ UNCHANGED initVars /\ UNCHANGED staticVars
    BY <1>3 DEF Accept, Execute, vars, solverVars, initVars, staticVars, checkVars
  <2>2. /\ Blocks' = Blocks /\ End' = End
        /\ \A b, j : InBlock(b, j) <=> InBlock(b, j)'
        /\ \A b, j : Known(b, j)' = Known(b, j) /\ KnownFixed(b, j)' = KnownFixed(b, j)
        /\ \A j : Checked(j) <=> Checked(j)'
    BY <2>1, SameKnown DEF End
  <2>3. phase' = phase \/ (phase' = "run" /\ at = End)
    BY <1>3 DEF Accept, Execute, vars, Continue
  <2>4. QED
    BY <2>1, <2>2, <2>3 DEF CheckInv
<1>4. QED
  BY <1>1, <1>2, <1>3 DEF Next, Analyse

-------------------------------------------------------------------------------
(* Execution *)

\* At the end of block b the execution goes to a block whose solution takes in what is
\* known there: all of it must be written, and nothing of what may be allocated is lost.
LEMMA BlockExit ==
    ASSUME TypeOK, CfgInv, SolverInv, phase = "run",
           NEW b \in Blocks, NEW i \in Tokens, InBlock(b, i), EndsBlock(i),
           NEW s, \E k \in 1 .. Len(Successors(program, i)) : Successors(program, i)[k] = s
    PROVE  /\ s \in Blocks /\ b \in Predecessors(s)
           /\ initIn[s] \subseteq Known(b, i + 1)
           /\ s # 1 => KnownFixed(b, i + 1) \subseteq staticIn[s]
<1>1. program \in Seq(InitToken) /\ Len(program) \in Nat /\ b \in Tokens /\ b <= i
  BY ProgramFacts DEF TypeOK, Blocks, InBlock
<1>2. s \in Tokens /\ IsStart(program, s)
  <2>1. i \in 1 .. Len(program) /\ ~UndefinedLabel(program)
    BY DEF Tokens, CfgInv
  <2>2. /\ Successors(program, i) \in Seq(1 .. Len(program))
        /\ i = Len(program) \/ IsStart(program, i + 1) =>
              \A m \in 1 .. Len(Successors(program, i)) : IsStart(program, Successors(program, i)[m])
    BY <1>1, <2>1, SuccessorsAreTokens
  <2>3. QED
    BY <2>2 DEF Tokens, EndsBlock
<1>3. s \in Blocks
  BY <1>2 DEF Blocks
<1>4. b \in Predecessors(s)
  BY DEF Predecessors
<1>5. Gen(b) \subseteq WrittenIn(b, i + 1) /\ FixedIn(b, i + 1) \subseteq GenStatic(b)
  <2>1. ASSUME NEW j \in Tokens, InBlock(b, j) PROVE b <= j /\ j < i + 1
    <3>1. b <= j
      BY <2>1 DEF InBlock
    <3>2. ASSUME i < j PROVE FALSE
      <4>1. i + 1 \in b + 1 .. j /\ i # Len(program)
        BY <1>1, <3>2 DEF Tokens
      <4>2. QED
        BY <2>1, <4>1 DEF InBlock, EndsBlock
    <3>3. QED
      BY <1>1, <3>1, <3>2 DEF Tokens
  <2>2. ASSUME NEW j \in Tokens, b <= j, j < i + 1 PROVE InBlock(b, j)
    <3>1. \A m \in b + 1 .. j : m \in b + 1 .. i
      BY <1>1, <2>2 DEF Tokens
    <3>2. QED
      BY <2>2, <3>1 DEF InBlock
  <2>3. QED
    BY <2>1, <2>2 DEF Gen, GenStatic, WrittenIn, FixedIn
<1>6. /\ initIn[s] = NewInit(s) /\ initOut[b] = initIn[b] \cup Gen(b)
      /\ staticIn[s] = NewStatic(s) /\ staticOut[b] = staticIn[b] \cup GenStatic(b)
  BY <1>3 DEF SolverInv, FixedInit, FixedStatic
<1>7. NewInit(s) \subseteq initOut[b]
  <2>1. CASE Boundary(s)
    BY <2>1 DEF NewInit
  <2>2. CASE ~Boundary(s)
    BY <1>4, <2>2 DEF NewInit, MeetAll
  <2>3. QED
    BY <2>1, <2>2
<1>8. s # 1 => staticOut[b] \subseteq NewStatic(s)
  BY <1>4 DEF NewStatic, MeetAny, Boundary
<1>9. QED
  BY <1>3, <1>4, <1>5, <1>6, <1>7, <1>8 DEF Known, KnownFixed

\* The first token of a block lies in it.
LEMMA FirstInBlock ==
    ASSUME NEW b \in Nat
    PROVE  InBlock(b, b)
<1>1. \A k \in b + 1 .. b : FALSE
  OBVIOUS
<1>2. QED
  BY <1>1 DEF InBlock

\* The execution starts with what is known of the first block: nothing.
LEMMA AtStart ==
    ASSUME TypeOK, SolverInv, phase = "validate", RunInv, 1 < End
    PROVE  1 \in Blocks /\ Agrees(1)
<1>1. program \in Seq(InitToken) /\ Len(program) \in Nat
  BY ProgramFacts DEF TypeOK
<1>2. 1 \in Tokens /\ 1 \in Blocks
  BY <1>1 DEF End, Tokens, Blocks, IsStart
<1>3. Known(1, 1) = initIn[1] /\ initIn[1] = {}
  BY <1>1, <1>2, NothingYet DEF SolverInv, FixedInit, NewInit, Boundary
<1>4. InBlock(1, 1)
  BY FirstInBlock
<1>5. pc = 1 /\ written = {} /\ fixed = {}
  BY DEF RunInv
<1>6. QED
  BY <1>2, <1>3, <1>4, <1>5 DEF Agrees

\* What is known of the tokens of a block holds of the execution after each of them, and
\* of the block it goes to from there.
LEMMA ExecuteKeeps ==
    TypeOK /\ CfgInv /\ SolverInv /\ RunInv /\ Execute => RunInv'
<1> SUFFICES ASSUME TypeOK, CfgInv, SolverInv, RunInv, Execute PROVE RunInv'
  OBVIOUS
<1>1. program \in Seq(InitToken) /\ Len(program) \in Nat /\ pc \in Tokens /\ phase = "run"
  BY ProgramFacts DEF TypeOK, Execute, End, Tokens
<1>2. PICK b \in Blocks : Agrees(b)
  BY DEF Execute, RunInv
<1>3. b \in Tokens /\ b <= pc /\ InBlock(b, pc)
  BY <1>2 DEF Agrees, InBlock, Blocks
<1>4. /\ Blocks' = Blocks /\ Tokens' = Tokens /\ program' = program /\ phase' = "run"
      /\ initIn' = initIn /\ staticIn' = staticIn
      /\ \A h, j : InBlock(h, j) <=> InBlock(h, j)'
      /\ \A h, j : Known(h, j)' = Known(h, j) /\ KnownFixed(h, j)' = KnownFixed(h, j)
      /\ Predecessors(1)' = Predecessors(1)
  <2>1. UNCHANGED <<program, phase>> /\ UNCHANGED initVars /\ UNCHANGED staticVars
    BY DEF Execute, solverVars, initVars, staticVars
  <2>2. Predecessors(1)' = Predecessors(1)
    BY <2>1 DEF Predecessors, Blocks, Tokens, InBlock, EndsBlock
  <2>3. QED
    BY <1>1, <2>1, <2>2, SameKnown DEF initVars, staticVars
<1>5. /\ Known(b, pc + 1) \subseteq written'
      /\ Predecessors(1) = {} => fixed' \subseteq KnownFixed(b, pc + 1)
  <2>1. /\ Known(b, pc) \subseteq written
        /\ Predecessors(1) = {} => fixed \subseteq KnownFixed(b, pc)
    BY <1>2 DEF Agrees
  <2>2. /\ Known(b, pc + 1)
              = Known(b, pc) \cup (IF Writes(program[pc]) THEN {program[pc].name} ELSE {})
        /\ KnownFixed(b, pc + 1)
              = KnownFixed(b, pc) \cup (IF Fixes(program[pc]) THEN {program[pc].name} ELSE {})
    BY <1>1, <1>3, OneMore DEF Known, KnownFixed
  <2>3. QED
    BY <2>1, <2>2 DEF Execute
<1>6. ASSUME NEW h \in Blocks, NEW j \in Nat, j = pc', InBlock(h, j), Known(h, j) \subseteq written',
             Predecessors(1) = {} => fixed' \subseteq KnownFixed(h, j)
      PROVE  RunInv'
  <2>1. InBlock(h, pc)' /\ Known(h, pc)' = Known(h, j) /\ KnownFixed(h, pc)' = KnownFixed(h, j)
    BY <1>4, <1>6 DEF InBlock, Known, KnownFixed, WrittenIn, FixedIn
  <2>2. Agrees(h)'
    BY <1>4, <1>6, <2>1 DEF Agrees
  <2>3. QED
    BY <1>4, <2>2 DEF RunInv
<1>7. pc' = pc + 1 \/ (program[pc].kind = "jump" /\ pc' = TargetOf(program, pc))
  BY DEF Execute
<1>8. CASE pc' = End
  BY <1>4, <1>8 DEF RunInv, End
<1>9. CASE pc' # End /\ EndsBlock(pc)
  <2>1. pc \in 1 .. Len(program) /\ (pc' = pc + 1 => pc < Len(program))
    BY <1>1, <1>9 DEF Tokens, End
  <2>2. \E k \in 1 .. Len(Successors(program, pc)) : pc' = Successors(program, pc)[k]
    <3>1. CASE program[pc].kind = "jump" /\ pc < Len(program)
      <4>1. Successors(program, pc) = <<TargetOf(program, pc), pc + 1>>
        BY <3>1 DEF Successors
      <4>2. QED
        BY <1>7, <4>1
    <3>2. CASE program[pc].kind = "jump" /\ ~(pc < Len(program))
      <4>1. Successors(program, pc) = <<TargetOf(program, pc)>>
        BY <3>2 DEF Successors
      <4>2. QED
        BY <1>7, <2>1, <3>2, <4>1
    <3>3. CASE program[pc].kind # "jump"
      <4>1. pc' = pc + 1 /\ pc < Len(program)
        BY <1>7, <2>1, <3>3
      <4>2. Successors(program, pc) = <<pc + 1>>
        BY <3>3, <4>1 DEF Successors
      <4>3. QED
        BY <4>1, <4>2
    <3>4. QED
      BY <3>1, <3>2, <3>3
  <2>3. PICK s \in {pc'} : \E k \in 1 .. Len(Successors(program, pc)) : Successors(program, pc)[k] = s
    BY <2>2
  <2>4. /\ s \in Blocks /\ b \in Predecessors(s)
        /\ initIn[s] \subseteq Known(b, pc + 1)
        /\ s # 1 => KnownFixed(b, pc + 1) \subseteq staticIn[s]
    <3>1. EndsBlock(pc) /\ phase = "run" /\ pc \in Tokens
      BY <1>1, <1>9
    <3>2. QED
      BY <1>3, <2>3, <3>1, BlockExit
  <2>5. s \in Tokens /\ s \in Nat
    BY <1>1, <2>4 DEF Blocks, Tokens
  <2>6. Known(s, s) = initIn[s] /\ KnownFixed(s, s) = staticIn[s]
    BY <1>1, <2>5, NothingYet
  <2>7. InBlock(s, s)
    BY <2>5, FirstInBlock
  <2>8. Predecessors(1) = {} => s # 1
    BY <2>4
  <2>9. Known(s, s) \subseteq written'
    BY <1>5, <2>4, <2>6
  <2>10. Predecessors(1) = {} => fixed' \subseteq KnownFixed(s, s)
    BY <1>5, <2>4, <2>6, <2>8
  <2>11. QED
    BY <1>6, <2>3, <2>4, <2>5, <2>7, <2>9, <2>10
<1>10. CASE pc' # End /\ ~EndsBlock(pc)
  <2>1. pc # Len(program) /\ ~IsStart(program, pc + 1)
    BY <1>10 DEF EndsBlock
  <2>2. pc' = pc + 1
    <3>1. program[(pc + 1) - 1] = program[pc]
      BY <1>1 DEF Tokens
    <3>2. program[pc].kind # "jump"
      BY <2>1, <3>1 DEF IsStart
    <3>3. QED
      BY <1>7, <3>2
  <2>3. InBlock(b, pc + 1)
    <3>1. \A m \in b + 1 .. pc + 1 : m \in b + 1 .. pc \/ m = pc + 1
      BY <1>1, <1>3 DEF Tokens
    <3>2. b <= pc + 1
      BY <1>1, <1>3 DEF Tokens
    <3>3. QED
      BY <1>3, <2>1, <3>1, <3>2 DEF InBlock
  <2>4. pc + 1 \in Nat
    BY <1>1 DEF Tokens
  <2>5. QED
    BY <1>5, <1>6, <2>2, <2>3, <2>4
<1>11. QED
  BY <1>8, <1>9, <1>10

\* Every step keeps the agreement of the execution with the analysis.
LEMMA RunStep ==
    TypeOK /\ CfgInv /\ SolverInv /\ CheckInv /\ RunInv /\ [Next]_vars => RunInv'
<1> SUFFICES ASSUME TypeOK, CfgInv, SolverInv, CheckInv, RunInv, [Next]_vars PROVE RunInv'
  OBVIOUS
<1>1. CASE Execute
  BY <1>1, ExecuteKeeps
<1>2. CASE Accept
  <2>1. /\ Blocks' = Blocks /\ program' = program /\ phase = "validate" /\ phase' = "run"
        /\ pc' = pc /\ pc = 1 /\ written' = written /\ fixed' = fixed
        /\ UNCHANGED initVars /\ UNCHANGED staticVars
    BY <1>2 DEF Accept, Continue, solverVars, initVars, staticVars, runVars, Blocks, Tokens, RunInv
  <2>2. CASE 1 < End
    <3>1. 1 \in Blocks /\ Agrees(1)
      BY <2>1, <2>2, AtStart
    <3>2. InBlock(1, 1) /\ Known(1, 1) \subseteq written /\ fixed = {}
      BY <2>1, <3>1 DEF Agrees, RunInv
    <3>3. InBlock(1, pc)' /\ Known(1, pc)' \subseteq written'
      BY <2>1, <3>2 DEF InBlock, Known, WrittenIn, Tokens, initVars
    <3>4. Agrees(1)'
      BY <2>1, <3>2, <3>3 DEF Agrees
    <3>5. QED
      BY <2>1, <3>1, <3>4 DEF RunInv
  <2>3. CASE ~(1 < End)
    BY <2>1, <2>3 DEF RunInv, End
  <2>4. QED
    BY <2>2, <2>3
<1>3. CASE BuildCFG \/ VisitInit \/ VisitStatic \/ EndOfRound \/ CheckToken
  <2>1. phase # "run" /\ phase' # "run" /\ UNCHANGED runVars
    BY <1>3 DEF BuildCFG, VisitInit, VisitStatic, EndOfRound, CheckToken, Reject, Continue
  <2>2. QED
    BY <2>1 DEF RunInv, runVars
<1>4. CASE UNCHANGED vars
  <2>1. UNCHANGED <<program, phase, initIn, staticIn, pc, written, fixed>>
    BY <1>4 DEF vars
  <2>2. Predecessors(1)' = Predecessors(1)
    BY <2>1 DEF Predecessors, Blocks, Tokens, InBlock, EndsBlock
  <2>3. \A b : Agrees(b) <=> Agrees(b)'
    BY <2>1, <2>2 DEF Agrees, InBlock, Known, KnownFixed, WrittenIn, FixedIn, Tokens
  <2>4. Blocks' = Blocks /\ End' = End
    BY <2>1 DEF Blocks, Tokens, End
  <2>5. QED
    BY <2>1, <2>3, <2>4 DEF RunInv
<1>5. QED
  BY <1>1, <1>2, <1>3, <1>4 DEF Next, Analyse

-------------------------------------------------------------------------------
(* Completeness: what is not known to be written on some path really is not *)

WritesName(i, v) == Writes(program[i]) /\ program[i].name = v

\* The end of block b is reached, and left, without a write of v.
EndReached(b, v, S) == \E i \in S : InBlock(b, i) /\ EndsBlock(i) /\ ~WritesName(i, v)

\* Whatever the round, a name missing from an out set is missing on a path to the end of the
\* block, and what is rejected is reached.
JustInv ==
    /\ reason = "uninitialized" => phase = "rejected" /\ at \in Tokens /\ Reads(program[at])
    /\ \A v \in AllVars, S \in SUBSET Tokens : ClosedWithout(v, S) =>
          /\ \A b \in Blocks : v \notin initOut[b] => EndReached(b, v, S)
          /\ reason = "uninitialized" /\ program[at].name = v => at \in S

\* A set of natural numbers has a least one.
LEMMA LeastOf ==
    ASSUME NEW T \in SUBSET Nat, T # {}
    PROVE  \E m \in T : \A k \in T : m <= k
<1> DEFINE less == {p \in Nat \X Nat : p[1] < p[2]}
<1>1. IsWellFoundedOn(less, Nat)
  BY NatLessThanWellFounded DEF OpToRel
<1>2. PICK m \in T : \A k \in T : ~(<<k, m>> \in less)
  <2> HIDE DEF less
  <2> QED
    BY <1>1, WFMin
<1>3. \A k \in T : ~(k < m)
  BY <1>2
<1> QED
  BY <1>3

\* Every token lies in a block.
LEMMA HasBlock ==
    ASSUME program \in Seq(InitToken), NEW i \in Tokens
    PROVE  \E b \in Blocks : InBlock(b, i)
<1> DEFINE T == {n \in Nat : \E c \in Blocks : c <= i /\ n = i - c}
<1>1. Len(program) \in Nat /\ i \in 1 .. Len(program)
  BY ProgramFacts DEF Tokens
<1>2. 1 \in Blocks /\ i - 1 \in T
  BY <1>1 DEF Blocks, Tokens, IsStart
<1>3. PICK m \in T : \A k \in T : m <= k
  <2>1. T \in SUBSET Nat /\ T # {}
    BY <1>2
  <2> HIDE DEF T
  <2> QED
    BY <2>1, LeastOf
<1>4. PICK b \in Blocks : b <= i /\ m = i - b
  BY <1>3
<1>5. b \in Nat
  BY DEF Blocks, Tokens
<1>6. ASSUME NEW k \in b + 1 .. i, IsStart(program, k) PROVE FALSE
  <2>1. k \in Blocks /\ k \in Nat /\ k <= i
    BY <1>1, <1>5, <1>6 DEF Blocks, Tokens
  <2>2. i - k \in T
    BY <1>1, <2>1
  <2>3. m <= i - k
    BY <1>3, <2>2
  <2> QED
    BY <1>1, <1>4, <1>5, <1>6, <2>1, <2>3
<1> QED
  BY <1>4, <1>6 DEF InBlock

\* The token after one that is not the last is among its successors: a jump is conditional.
LEMMA NextIsSuccessor ==
    ASSUME NEW i \in Tokens, i < Len(program)
    PROVE  \E k \in 1 .. Len(Successors(program, i)) : Successors(program, i)[k] = i + 1
<1>1. CASE program[i].kind = "jump"
  <2>1. Successors(program, i) = <<TargetOf(program, i), i + 1>>
    BY <1>1 DEF Successors
  <2> QED
    BY <2>1
<1>2. CASE program[i].kind # "jump"
  <2>1. Successors(program, i) = <<i + 1>>
    BY <1>2 DEF Successors
  <2> QED
    BY <2>1
<1> QED
  BY <1>1, <1>2

\* A block that is entered without v is passed without v up to the first write of v.
LEMMA BlockPassed ==
    ASSUME program \in Seq(InitToken), NEW v, NEW S \in SUBSET Tokens, ClosedWithout(v, S),
           NEW b \in Blocks, b \in S, NEW j \in Tokens, InBlock(b, j), v \notin WrittenIn(b, j)
    PROVE  j \in S
<1> DEFINE T == {i \in Tokens : InBlock(b, i) /\ i <= j /\ i \notin S}
<1> SUFFICES ASSUME j \notin S PROVE FALSE
  OBVIOUS
<1>1. Len(program) \in Nat /\ b \in Tokens /\ j \in Nat
  BY ProgramFacts DEF Tokens
<1>2. PICK m \in T : \A k \in T : m <= k
  <2>1. j \in T
    BY <1>1
  <2>2. T \in SUBSET Nat /\ T # {}
    BY <2>1 DEF Tokens
  <2> HIDE DEF T
  <2> QED
    BY <2>2, LeastOf
<1>3. m \in Tokens /\ InBlock(b, m) /\ m <= j /\ m \notin S
  OBVIOUS
<1>4. ~IsStart(program, m) /\ m > 1 /\ b <= m - 1 /\ InBlock(b, m - 1)
  BY <1>3, BlockOfToken
<1>5. m - 1 \in Tokens /\ m - 1 < m /\ m - 1 < j /\ m - 1 < Len(program) /\ (m - 1) + 1 = m
  BY <1>1, <1>3, <1>4 DEF Tokens
<1>6. m - 1 \in S
  <2>1. m - 1 \notin T
    <3>1. ~(m <= m - 1)
      BY <1>3 DEF Tokens
    <3> QED
      BY <1>2, <3>1
  <2>2. m - 1 <= j
    BY <1>1, <1>5 DEF Tokens
  <2> QED
    BY <1>4, <1>5, <2>1, <2>2
<1>7. ~WritesName(m - 1, v)
  BY <1>4, <1>5 DEF WritesName, WrittenIn
<1>8. \E k \in 1 .. Len(Successors(program, m - 1)) : Successors(program, m - 1)[k] = m
  BY <1>5, NextIsSuccessor
<1> QED
  BY <1>3, <1>6, <1>7, <1>8 DEF ClosedWithout, WritesName

\* What a block writes before one of its tokens belongs to what the block writes.
LEMMA WrittenInBlock ==
    ASSUME program \in Seq(InitToken), NEW b \in Blocks, NEW j \in Tokens, InBlock(b, j)
    PROVE  WrittenIn(b, j) \subseteq Gen(b)
<1>1. b \in Nat /\ j \in Nat
  BY DEF Blocks, Tokens
<1>2. ASSUME NEW k \in Tokens, b <= k, k < j PROVE InBlock(b, k)
  <2>1. \A m \in b + 1 .. k : m \in b + 1 .. j
    BY <1>1, <1>2 DEF Tokens
  <2> QED
    BY <1>2, <2>1 DEF InBlock
<1> QED
  BY <1>2 DEF WrittenIn, Gen

\* A block has one end.
LEMMA OneEnd ==
    ASSUME program \in Seq(InitToken), NEW b \in Blocks, NEW i \in Tokens, NEW j \in Tokens,
           InBlock(b, i), EndsBlock(i), InBlock(b, j)
    PROVE  j <= i
<1>1. /\ Len(program) \in Nat /\ b \in Nat /\ b <= i
      /\ i \in 1 .. Len(program) /\ j \in 1 .. Len(program)
  BY ProgramFacts DEF Blocks, Tokens, InBlock
<1>2. ASSUME i < j PROVE FALSE
  <2>1. i + 1 \in b + 1 .. j /\ i # Len(program)
    BY <1>1, <1>2
  <2> QED
    BY <2>1 DEF InBlock, EndsBlock
<1> QED
  BY <1>1, <1>2

\* A block whose equation does not have v is entered without v: it is the first one, or a
\* predecessor ends without v.  No other block is without predecessors.
LEMMA EnteredWithout ==
    ASSUME program \in Seq(InitToken), NEW v, NEW S \in SUBSET Tokens, ClosedWithout(v, S),
           \A c \in Blocks : v \notin initOut[c] => EndReached(c, v, S),
           NEW b \in Blocks, v \notin NewInit(b)
    PROVE  b \in S
<1>1. Len(program) \in Nat /\ b \in Tokens /\ b \in 1 .. Len(program) /\ IsStart(program, b)
  BY ProgramFacts DEF Blocks, Tokens
<1>2. CASE b = 1
  BY <1>1, <1>2 DEF ClosedWithout
<1>3. CASE b # 1
  <2>1. b - 1 \in Tokens /\ b - 1 < Len(program) /\ (b - 1) + 1 = b
    BY <1>1, <1>3 DEF Tokens
  <2>2. EndsBlock(b - 1)
    BY <1>1, <2>1 DEF EndsBlock
  <2>3. PICK p \in Blocks : InBlock(p, b - 1)
    BY <2>1, HasBlock
  <2>4. p \in Predecessors(b)
    <3>1. \E k \in 1 .. Len(Successors(program, b - 1)) : Successors(program, b - 1)[k] = b
      BY <2>1, NextIsSuccessor
    <3> QED
      BY <2>1, <2>2, <2>3, <3>1 DEF Predecessors
  <2>5. NewInit(b) = MeetAll({initOut[c] : c \in Predecessors(b)})
    BY <1>3, <2>4 DEF NewInit, Boundary
  <2>6. PICK c \in Predecessors(b) : v \notin initOut[c]
    <3> SUFFICES ASSUME \A c \in Predecessors(b) : v \in initOut[c] PROVE v \in NewInit(b)
      OBVIOUS
    <3> QED
      BY <2>4, <2>5 DEF MeetAll
  <2>7. PICK j \in Tokens : /\ InBlock(c, j) /\ EndsBlock(j)
                            /\ \E k \in 1 .. Len(Successors(program, j)) : Successors(program, j)[k] = b
    BY DEF Predecessors
  <2>8. c \in Blocks
    BY DEF Predecessors
  <2>9. PICK i \in S : InBlock(c, i) /\ EndsBlock(i) /\ ~WritesName(i, v)
    BY <2>6, <2>8 DEF EndReached
  <2>10. i = j
    <3>1. i \in Tokens /\ i \in Nat /\ j \in Nat
      BY DEF Tokens
    <3>2. i <= j /\ j <= i
      BY <2>7, <2>8, <2>9, <3>1, OneEnd
    <3> QED
      BY <3>1, <3>2
  <2> QED
    BY <2>7, <2>9, <2>10 DEF ClosedWithout, WritesName
<1> QED
  BY <1>2, <1>3

\* A visit of VarInitPass takes a name out of an out set only for such a path.
LEMMA VisitJustified ==
    ASSUME TypeOK, VisitInit, NEW v, NEW S \in SUBSET Tokens, ClosedWithout(v, S),
           \A c \in Blocks : v \notin initOut[c] => EndReached(c, v, S),
           NEW b \in Blocks, v \notin initOut'[b]
    PROVE  EndReached(b, v, S)
<1>1. program \in Seq(InitToken) /\ Len(program) \in Nat /\ b \in Tokens
  BY ProgramFacts DEF TypeOK
<1>2. PICK c \in block + 1 .. End : Follows(block, c)
  BY DEF VisitInit
<1>3. block \in Blocks /\ block \in Tokens
  BY <1>2, BlockFacts DEF VisitInit, Blocks
<1>4. initOut' = [initOut EXCEPT ![block] = NewInit(block) \cup Gen(block)]
  BY DEF VisitInit
<1>5. CASE b # block
  BY <1>1, <1>4, <1>5 DEF TypeOK
<1>6. CASE b = block
  <2>1. v \notin NewInit(b) /\ v \notin Gen(b)
    BY <1>1, <1>4, <1>6 DEF TypeOK
  <2>2. b \in S
    BY <1>1, <2>1, EnteredWithout
  <2>3. PICK i \in Tokens : i = c - 1 /\ b <= i
    BY <1>1, <1>2, <1>6 DEF Tokens, End
  <2>4. InBlock(b, i) /\ EndsBlock(i)
    <3>1. i + 1 = c /\ (c = End => i = Len(program))
      BY <1>1, <1>2, <2>3 DEF End
    <3> QED
      BY <1>2, <1>6, <2>3, <3>1 DEF Follows, InBlock, EndsBlock
  <2>5. i \in S
    BY <1>1, <2>1, <2>2, <2>4, BlockPassed, WrittenInBlock
  <2>6. ~WritesName(i, v)
    BY <2>1, <2>4 DEF WritesName, Gen
  <2> QED
    BY <2>4, <2>5, <2>6 DEF EndReached
<1> QED
  BY <1>5, <1>6

LEMMA JustInit == Init => JustInv
<1> SUFFICES ASSUME Init PROVE JustInv
  OBVIOUS
<1>1. \A b \in Blocks : initOut[b] = AllVars
  BY DEF Init, Blocks
<1> QED
  BY <1>1 DEF Init, JustInv

\* Paths depend on the program only.
LEMMA SamePaths ==
    ASSUME UNCHANGED program
    PROVE  /\ Tokens' = Tokens /\ Blocks' = Blocks /\ AllVars' = AllVars
           /\ \A v, S : ClosedWithout(v, S)' = ClosedWithout(v, S)
           /\ \A b, v, S : EndReached(b, v, S)' = EndReached(b, v, S)
BY DEF Tokens, Blocks, AllVars, ClosedWithout, EndReached, InBlock, EndsBlock, WritesName

\* Every step keeps the out sets and the rejection justified.
LEMMA JustStep == IInv /\ JustInv /\ [Next]_vars => JustInv'
<1> SUFFICES ASSUME IInv, JustInv, [Next]_vars PROVE JustInv'
  OBVIOUS
<1>1. TypeOK /\ SolverInv /\ CheckInv /\ program \in Seq(InitToken)
  BY DEF IInv, TypeOK
<1>2. CASE VisitInit
  <2>1. UNCHANGED <<program, phase, reason, at>> /\ phase = "var_init"
    BY <1>2 DEF VisitInit, checkVars
  <2>2. ASSUME NEW v \in AllVars, NEW S \in SUBSET Tokens, ClosedWithout(v, S),
               NEW b \in Blocks, v \notin initOut'[b]
        PROVE  EndReached(b, v, S)
    BY <1>1, <1>2, <2>2, VisitJustified DEF JustInv
  <2>3. reason' # "uninitialized"
    BY <2>1 DEF JustInv
  <2> QED
    BY <2>1, <2>2, <2>3, SamePaths DEF JustInv
<1>3. CASE CheckToken
  <2>1. /\ UNCHANGED <<program, initOut>> /\ phase = "validate" /\ at \in Tokens
        /\ reason # "uninitialized"
    BY <1>1, <1>3, ProgramFacts DEF CheckToken, solverVars, initVars, JustInv, TypeOK, End, Tokens
  <2>2. CASE reason' # "uninitialized"
    BY <2>1, <2>2, SamePaths DEF JustInv
  <2>3. CASE reason' = "uninitialized"
    <3>1. /\ at' = at /\ phase' = "rejected" /\ Reads(program[at])
          /\ program[at].name \notin DefinedHere
      BY <1>3, <2>1, <2>3 DEF CheckToken, Reject, checkVars
    <3>2. PICK b \in Blocks : InBlock(b, at)
      BY <1>1, <2>1, HasBlock
    <3>3. program[at].name \notin initIn[b] /\ program[at].name \notin WrittenIn(b, at)
      BY <1>1, <2>1, <3>1, <3>2, HereIsKnown DEF Known
    <3>4. initIn[b] = NewInit(b)
      BY <1>1, <2>1 DEF SolverInv, FixedInit
    <3>5. ASSUME NEW S \in SUBSET Tokens, NEW v \in AllVars, v = program[at].name,
                 ClosedWithout(v, S)
          PROVE  at \in S
      <4>1. b \in S
        BY <1>1, <3>3, <3>4, <3>5, EnteredWithout DEF JustInv
      <4> QED
        BY <1>1, <2>1, <3>2, <3>3, <3>5, <4>1, BlockPassed
    <3> QED
      BY <2>1, <3>1, <3>5, SamePaths DEF JustInv
  <2> QED
    BY <2>2, <2>3
<1>4. CASE BuildCFG \/ VisitStatic \/ EndOfRound \/ Accept \/ Execute \/ UNCHANGED vars
  <2>1. UNCHANGED <<program, initOut, at>>
    BY <1>4 DEF BuildCFG, VisitStatic, EndOfRound, Accept, Execute, vars, solverVars, initVars,
                checkVars
  <2>2. reason' = "uninitialized" => reason = "uninitialized"
    BY <1>4 DEF BuildCFG, VisitStatic, EndOfRound, Accept, Execute, vars, Reject, Continue
  <2>3. reason' = "uninitialized" => phase' = "rejected" /\ at \in Tokens /\ Reads(program[at])
    BY <1>4, <2>2 DEF BuildCFG, VisitStatic, EndOfRound, Accept, Execute, vars, JustInv
  <2> QED
    BY <2>1, <2>2, <2>3, SamePaths DEF JustInv
<1> QED
  BY <1>2, <1>3, <1>4 DEF Next, Analyse

-------------------------------------------------------------------------------
(* Theorems *)

\* The inductive invariant of the solver, the validation and the execution.
THEOREM Inductive == Spec => []IInv
<1>1. Init => IInv
  <2> SUFFICES ASSUME Init PROVE IInv
    OBVIOUS
  <2>1. TypeOK
    BY TypeInit
  <2>2. CfgInv /\ CheckInv /\ RunInv
    BY DEF Init, CfgInv, CheckInv, RunInv
  <2>3. SolverInv
    BY <2>1, ProgramFacts DEF Init, SolverInv, TypeOK, Tokens
  <2>4. QED
    BY <2>1, <2>2, <2>3 DEF IInv
<1>2. IInv /\ [Next]_vars => IInv'
  BY TypeStep, SolverStep, CheckStep, RunStep DEF IInv
<1>3. QED
  BY <1>1, <1>2, PTL DEF Spec

\* The variables of the solver and of the validation keep their types, for every program.
THEOREM TypeCorrect == Spec => []TypeOK
<1>1. IInv => TypeOK
  BY DEF IInv
<1>2. QED
  BY <1>1, Inductive, PTL

\* No execution of an accepted program, of any length and with any jumps, reads a variable
\* or an array that it has not written or allocated (VarInitPass, ValidationPass).
THEOREM Initialised == Spec => []NoUninitialisedRead
<1>1. IInv => NoUninitialisedRead
  <2> SUFFICES ASSUME IInv, phase = "run", pc < End, Reads(program[pc])
               PROVE  program[pc].name \in written
    BY DEF NoUninitialisedRead
  <2>1. PICK b \in Blocks : Agrees(b)
    BY DEF IInv, RunInv
  <2>2. at = End /\ pc \in 1 .. at - 1
    BY ProgramFacts DEF IInv, TypeOK, CheckInv, End
  <2>3. program[pc].name \in Known(b, pc)
    BY <2>1, <2>2 DEF IInv, CheckInv, Checked, Agrees
  <2>4. QED
    BY <2>1, <2>3 DEF Agrees
<1>2. QED
  BY <1>1, Inductive, PTL

\* An accepted program into whose first block no jump leads never allocates an array again
\* that it has allocated statically (StaticAllocReachabilityPass, ValidationPass).
THEOREM ReallocatedThroughStart == Spec => []ReallocationThroughStart
<1>1. IInv => ReallocationThroughStart
  <2> SUFFICES ASSUME IInv, phase = "run", pc < End, Allocates(program[pc]),
                      program[pc].name \in fixed, Predecessors(1) = {}
               PROVE  FALSE
    BY DEF ReallocationThroughStart
  <2>1. PICK b \in Blocks : Agrees(b)
    BY DEF IInv, RunInv
  <2>2. at = End /\ pc \in 1 .. at - 1
    BY ProgramFacts DEF IInv, TypeOK, CheckInv, End
  <2>3. program[pc].name \notin KnownFixed(b, pc)
    BY <2>1, <2>2 DEF IInv, CheckInv, Checked, Agrees
  <2>4. QED
    BY <2>1, <2>3 DEF Agrees
<1>2. QED
  BY <1>1, Inductive, PTL


\* A program is rejected for a missing initialisation only if a path through its jumps gets to
\* the read without a write: neither the meet over predecessors nor the number of rounds
\* loses anything (ForwardDataflowAnalysis, VarInitPass).
THEOREM RejectionIsJustified == Spec => []UninitialisedIsJustified
<1>1. Init => JustInv
  BY JustInit
<1>2. IInv /\ JustInv /\ [Next]_vars => JustInv'
  BY JustStep
<1>3. IInv /\ JustInv => UninitialisedIsJustified
  <2> SUFFICES ASSUME IInv, JustInv, reason = "uninitialized"
               PROVE  at \in ReachedWithout(program[at].name)
    BY DEF UninitialisedIsJustified
  <2>1. at \in Tokens /\ program[at].name \in AllVars
    BY DEF JustInv, AllVars
  <2> QED
    BY <2>1 DEF JustInv, ReachedWithout
<1> QED
  BY <1>1, <1>2, <1>3, Inductive, PTL DEF Spec

================================================================================
