-------------------------- MODULE StackCodegen_proofs --------------------------
(***************************************************************************)
(* Proofs about the stack-safety passes and the code that is generated for *)
(* what they accept, for every set of programs.                            *)
(*                                                                         *)
(* First, the passes are sound and complete: they accept a program if and  *)
(* only if it has a typing, and the limit on the number of blocks          *)
(* processed never strikes.  WalkInv says what BlockAnalysisPass knows of  *)
(* the tokens before "at", FlowInv what StackSafetyPass knows of the       *)
(* blocks that have a depth, and RigidInv that any typing agrees with what *)
(* has been found so far.                                                  *)
(*                                                                         *)
(* Then, the generated code does what the program does: the generator has  *)
(* the names it needs at every token, as many as the analysis found        *)
(* values, and wherever the program is, the generated code is there too    *)
(* and its names hold the values of the program's stack.  The argument is  *)
(* a simulation.  A jump is conditional, so every token is reached from    *)
(* the one before it, and the tokens get their depths in the order in      *)
(* which code is generated.  The names before a token are those its        *)
(* predecessor leaves or, where several edges meet, PHIs; in both cases    *)
(* what holds at the end of an edge holds at its target.                   *)
(***************************************************************************)
EXTENDS StackCodegen, FiniteSetTheorems, SequenceTheorems, TLAPS

-------------------------------------------------------------------------------
(* The passes *)

Flowing == {"pop", "push", "accepted"}

Known == {b \in Tokens : depthIn[b] # Unknown}
SuccessorsOf(b) == Successors(program, last[b])

CfgInv ==
    /\ pass # "cfg" /\ reason \notin {"empty", "duplicate_label", "undefined_label"} =>
          /\ ~DuplicateLabel(program) /\ ~UndefinedLabel(program)
          /\ program = <<>> => Expected = 0
    /\ pass = "push" => block \in Tokens
    /\ reason # "none" => pass = "rejected"

\* The token i lies in the block home[i], which no other block start interrupts.
InBlock(i) ==
    /\ home[i] \in 1 .. i /\ IsStart(program, home[i])
    /\ \A k \in home[i] + 1 .. i : ~IsStart(program, k)
    /\ IsStart(program, i) => home[i] = i /\ before[i] = 0
    /\ ~IsStart(program, i) =>
          home[i] = home[i - 1] /\ before[i] = before[i - 1] + program[i - 1].effect

\* The summary of its block accounts for token i.
Summarised(i) ==
    /\ need[home[i]] >= program[i].arity - before[i]
    /\ i = at - 1 \/ IsStart(program, i + 1) =>
          last[home[i]] = i /\ effect[home[i]] = before[i] + program[i].effect

\* The last token of block b, as far as the walk has come.
Ends(b) ==
    /\ last[b] \in b .. at - 1 /\ home[last[b]] = b
    /\ last[b] = at - 1 \/ IsStart(program, last[b] + 1)

WalkStage ==
    /\ pass = "cfg" => at = 1
    /\ pass \in Flowing => at = Len(program) + 1
    /\ pass = "blocks" /\ at > 1 =>
          block = home[at - 1] /\ current = before[at - 1] + program[at - 1].effect

WalkData ==
    /\ \A i \in 1 .. at - 1 : InBlock(i)
    /\ \A i \in 1 .. at - 1 : Summarised(i)
    /\ \A b \in 1 .. at - 1 : IsStart(program, b) => Ends(b)
    /\ \A b \in Tokens : need[b] = 0 \/ \E i \in 1 .. at - 1 :
          home[i] = b /\ need[b] = program[i].arity - before[i]

WalkInv == WalkStage /\ WalkData

\* Block b has enough, and its first n successors have what it leaves.
Served(b, n) ==
    /\ need[b] <= depthIn[b]
    /\ \A k \in 1 .. n : /\ depthIn[SuccessorsOf(b)[k]] # Unknown
                         /\ depthIn[SuccessorsOf(b)[k]] = depthIn[b] + effect[b]

Waiting(b) == \E k \in 1 .. Len(worklist) : worklist[k] = b

FlowInv ==
    /\ Known \subseteq Blocks
    /\ pass \in {"cfg", "blocks"} => Known = {} /\ worklist = <<>> /\ processed = 0
    /\ pass \in Flowing /\ Len(program) > 0 => depthIn[1] = 0
    /\ \A k \in 1 .. Len(worklist) : worklist[k] \in Known
    /\ pass \in Flowing => \A b \in Known :
          \/ Waiting(b)
          \/ pass = "push" /\ b = block
          \/ Served(b, Len(SuccessorsOf(b)))
    /\ pass = "push" => block \in Known /\ next \in 1 .. Len(SuccessorsOf(block)) + 1
                            /\ Served(block, next - 1)

CountInv ==
    /\ reason # "heuristic" /\ processed <= NumBlocks
    /\ pass \in Flowing => processed + Len(worklist) = Cardinality(Known)

BalancedInv == pass = "accepted" => worklist = <<>> /\ \A b \in Blocks : Balanced(b)

\* The typing d agrees with the walk and with the depths found.
Agrees(d) ==
    /\ ~RejectedByStack
    /\ \A i \in 1 .. at - 1 : d[home[i]] # Unknown =>
          d[i] # Unknown /\ d[i] = d[home[i]] + before[i]
    /\ \A b \in Tokens : depthIn[b] # Unknown => depthIn[b] = d[b]

RigidInv ==
    ~UndefinedLabel(program) =>
        \A d \in [Tokens -> Int] : Typing(program, d) => Agrees(d)

IInv == TypeOK /\ CfgInv /\ WalkInv /\ FlowInv /\ CountInv /\ BalancedInv

-------------------------------------------------------------------------------
(* The control-flow graph of a program, whatever its tokens have besides a kind and a label *)

\* A jump whose label is defined goes to a token that starts a block.
LEMMA TargetIsStart ==
    ASSUME NEW S, NEW p \in Seq(S), ~UndefinedLabel(p),
           NEW i \in 1 .. Len(p), p[i].kind = "jump"
    PROVE  TargetOf(p, i) \in 1 .. Len(p) /\ IsStart(p, TargetOf(p, i))
<1>1. \E j \in 1 .. Len(p) : Defines(p, j, p[i].label)
  BY DEF UndefinedLabel
<1>2. TargetOf(p, i) \in 1 .. Len(p) /\ Defines(p, TargetOf(p, i), p[i].label)
  BY <1>1 DEF TargetOf
<1>3. QED
  BY <1>2 DEF Defines, IsStart

\* What Successors lists: a sequence of token indices, and, after the last token of
\* a block, of block starts.
LEMMA SuccessorsAreTokens ==
    ASSUME NEW S, NEW p \in Seq(S), ~UndefinedLabel(p), NEW i \in 1 .. Len(p)
    PROVE  /\ Successors(p, i) \in Seq(1 .. Len(p))
           /\ i = Len(p) \/ IsStart(p, i + 1) =>
                 \A k \in 1 .. Len(Successors(p, i)) : IsStart(p, Successors(p, i)[k])
<1>1. CASE p[i].kind = "jump"
  <2>1. TargetOf(p, i) \in 1 .. Len(p) /\ IsStart(p, TargetOf(p, i))
    BY <1>1, TargetIsStart
  <2>2. CASE i < Len(p)
    <3>1. Successors(p, i) = <<TargetOf(p, i), i + 1>>
      BY <1>1, <2>2 DEF Successors
    <3>2. QED
      BY <2>1, <2>2, <3>1
  <2>3. CASE i = Len(p)
    <3>1. Successors(p, i) = <<TargetOf(p, i)>>
      BY <1>1, <2>3 DEF Successors
    <3>2. QED
      BY <2>1, <2>3, <3>1
  <2>4. QED
    BY <2>2, <2>3
<1>2. CASE p[i].kind # "jump"
  <2>1. CASE i < Len(p)
    <3>1. Successors(p, i) = <<i + 1>>
      BY <1>2, <2>1 DEF Successors
    <3>2. QED
      BY <2>1, <3>1
  <2>2. CASE i = Len(p)
    <3>1. Successors(p, i) = <<>>
      BY <1>2, <2>2 DEF Successors
    <3>2. QED
      BY <3>1
  <2>3. QED
    BY <2>1, <2>2
<1>3. QED
  BY <1>1, <1>2

\* Inside a block a token has one successor, the next token.
LEMMA InsideABlock ==
    ASSUME NEW S, NEW p \in Seq(S), NEW i \in 1 .. Len(p), i < Len(p), ~IsStart(p, i + 1)
    PROVE  Successors(p, i) = <<i + 1>>
<1>1. p[i].kind # "jump"
  BY DEF IsStart
<1>2. QED
  BY <1>1 DEF Successors

-------------------------------------------------------------------------------

\* What a program is made of.
LEMMA ProgramFacts ==
    ASSUME TypeOK
    PROVE  /\ program \in Seq(Token) /\ Len(program) \in Nat
           /\ \A i \in Tokens : /\ program[i] \in Token
                               /\ program[i].arity \in Nat /\ program[i].effect \in Int
                               /\ program[i].arity + program[i].effect >= 0
<1>1. program \in Seq(Token)
  BY ProgramsAssumption DEF TypeOK
<1>2. \A i \in Tokens : program[i] \in Token
  BY <1>1 DEF Tokens
<1>3. \A i \in Tokens : program[i].arity + program[i].effect >= 0
  BY ProgramsAssumption DEF TypeOK, Tokens
<1>4. \A t \in Token : t.arity \in Nat /\ t.effect \in Int
  BY DEF Token
<1>5. QED
  BY <1>1, <1>2, <1>3, <1>4

\* The variables start with their types, and nothing is known of the labels.
LEMMA TypeInit == Init => TypeOK /\ CfgInv
<1> SUFFICES ASSUME Init PROVE TypeOK /\ CfgInv
  OBVIOUS
<1>1. Len(program) \in Nat
  BY ProgramsAssumption DEF Init
<1>2. QED
  BY <1>1 DEF Init, TypeOK, CfgInv, Tokens, Unknown, MaxOf

\* Every step of the passes keeps the types, and a program that went past BuildCFGPass
\* has each label once.
LEMMA TypeStep == TypeOK /\ CfgInv /\ [Analyse]_vars => TypeOK' /\ CfgInv'
<1> SUFFICES ASSUME TypeOK, CfgInv, [Analyse]_vars PROVE TypeOK' /\ CfgInv'
  OBVIOUS
<1> USE DEF Reject, Continue
<1>0. /\ program \in Seq(Token) /\ Len(program) \in Nat
      /\ \A i \in Tokens : program[i].arity \in Nat /\ program[i].effect \in Int
  BY ProgramFacts
<1>1. CASE BuildCFG
  BY <1>1 DEF BuildCFG, cfgVars, flowVars, TypeOK, CfgInv, Tokens
<1>2. CASE AnalyseToken
  <2> DEFINE b == IF IsStart(program, at) THEN at ELSE block
             depth == IF IsStart(program, at) THEN 0 ELSE current
  <2>1. at \in Tokens /\ b \in Tokens /\ depth \in Int
    BY <1>0, <1>2 DEF AnalyseToken, TypeOK, Tokens, MaxOf
  <2>2. program[at].arity \in Nat /\ program[at].effect \in Int
    BY <1>0, <2>1
  <2>3. (IF depth < program[at].arity THEN MaxOf(need[b], program[at].arity - depth)
         ELSE need[b]) \in Nat
    <3>1. need[b] \in Nat
      BY <2>1 DEF TypeOK
    <3> HIDE DEF b, depth
    <3>2. QED
      BY <2>1, <2>2, <3>1 DEF MaxOf
  <2> DEFINE n == IF depth < program[at].arity THEN MaxOf(need[b], program[at].arity - depth)
                  ELSE need[b]
             e == depth + program[at].effect
  <2>4. /\ need' = [need EXCEPT ![b] = n] /\ effect' = [effect EXCEPT ![b] = e]
        /\ current' = e /\ last' = [last EXCEPT ![b] = at] /\ home' = [home EXCEPT ![at] = b]
        /\ before' = [before EXCEPT ![at] = depth] /\ block' = b /\ at' = at + 1
        /\ UNCHANGED <<program, pass, reason, flowVars>> /\ pass # "push"
    BY <1>2 DEF AnalyseToken
  <2>5. n \in Nat /\ e \in Int
    BY <2>1, <2>2, <2>3
  <2> HIDE DEF b, depth, n, e
  <2>6. /\ need' \in [Tokens -> Nat] /\ effect' \in [Tokens -> Int]
        /\ last' \in [Tokens -> Tokens] /\ home' \in [Tokens -> Tokens]
        /\ before' \in [Tokens -> Int]
    BY <2>1, <2>4, <2>5 DEF TypeOK
  <2>7. at' \in 1 .. Len(program) + 1
    BY <1>0, <2>1, <2>4 DEF Tokens
  <2>8. TypeOK'
    BY <2>1, <2>4, <2>5, <2>6, <2>7 DEF flowVars, TypeOK, Tokens
  <2>9. CfgInv'
    BY <2>4 DEF CfgInv, Tokens
  <2>10. QED
    BY <2>8, <2>9
<1>3. CASE StartFlow
  <2>1. Len(program) # 0 => <<1>> \in Seq(Tokens)
    <3>1. Len(program) # 0 => 1 \in Tokens
      BY <1>0 DEF Tokens
    <3>2. QED
      BY <3>1
  <2>2. depthIn' \in [Tokens -> Int]
    BY <1>0, <1>3 DEF StartFlow, TypeOK, Tokens
  <2>3. worklist' \in Seq(Tokens)
    BY <1>3, <2>1 DEF StartFlow, TypeOK
  <2>4. QED
    BY <1>0, <1>3, <2>2, <2>3 DEF StartFlow, cfgVars, TypeOK, CfgInv, Tokens
<1>4. CASE PopBlock
  <2> DEFINE top == worklist[Len(worklist)]
             rest == SubSeq(worklist, 1, Len(worklist) - 1)
  <2>1. top \in Tokens
    BY <1>4 DEF PopBlock, TypeOK
  <2>2. rest \in Seq(Tokens)
    BY <1>4 DEF PopBlock, TypeOK
  <2>3. \/ UNCHANGED <<block, worklist, next>>
        \/ block' = top /\ worklist' = rest /\ next' = 1
    BY <1>4 DEF PopBlock
  <2> HIDE DEF top, rest
  <2>4. TypeOK'
    <3>1. /\ pass' \in {"cfg", "blocks", "pop", "push", "accepted", "rejected"}
          /\ reason' \in {"none", "empty", "duplicate_label", "undefined_label", "heuristic",
                          "underflow", "mismatch", "unbalanced"}
          /\ processed' \in Nat
      BY <1>4 DEF PopBlock, TypeOK
    <3>2. UNCHANGED <<program, cfgVars, depthIn>>
      BY <1>4 DEF PopBlock
    <3>3. next' \in Nat \ {0} /\ block' \in {1} \cup Tokens /\ worklist' \in Seq(Tokens)
      BY <2>1, <2>2, <2>3 DEF TypeOK
    <3>4. QED
      BY <3>1, <3>2, <3>3 DEF cfgVars, TypeOK, Tokens
  <2>5. CfgInv'
    BY <1>4, <2>1 DEF PopBlock, top, cfgVars, TypeOK, CfgInv, Tokens
  <2>6. QED
    BY <2>4, <2>5
<1>5. CASE PushSuccessor
  <2> DEFINE s == Successors(program, last[block])[next]
  <2>1. block \in Tokens /\ last[block] \in Tokens
    BY <1>5 DEF PushSuccessor, CfgInv, TypeOK
  <2>2. ~UndefinedLabel(program)
    BY <1>5 DEF PushSuccessor, CfgInv
  <2>3. Successors(program, last[block]) \in Seq(Tokens)
    BY <1>0, <2>1, <2>2, SuccessorsAreTokens DEF Tokens
  <2>4. ASSUME depthIn[s] = Unknown, next \in 1 .. Len(Successors(program, last[block]))
        PROVE  s \in Tokens
    BY <2>3, <2>4
  <2>5. depthIn[block] + effect[block] \in Int
    BY <2>1 DEF TypeOK
  <2>6. next \in 1 .. Len(Successors(program, last[block]))
    BY <1>5, <2>3 DEF PushSuccessor, TypeOK
  <2>7. depthIn' \in [Tokens -> Int] /\ worklist' \in Seq(Tokens)
    <3>1. CASE depthIn[s] = Unknown
      <4>1. s \in Tokens
        BY <2>4, <2>6, <3>1
      <4>2. /\ depthIn' = [depthIn EXCEPT ![s] = depthIn[block] + effect[block]]
            /\ worklist' = Append(worklist, s)
        BY <1>5, <3>1 DEF PushSuccessor
      <4> HIDE DEF s
      <4>3. QED
        BY <2>5, <4>1, <4>2 DEF TypeOK
    <3>2. CASE depthIn[s] # Unknown
      BY <1>5, <3>2 DEF PushSuccessor, TypeOK
    <3>3. QED
      BY <3>1, <3>2
  <2>8. TypeOK'
    <3>1. /\ pass' \in {"cfg", "blocks", "pop", "push", "accepted", "rejected"}
          /\ reason' \in {"none", "empty", "duplicate_label", "undefined_label", "heuristic",
                          "underflow", "mismatch", "unbalanced"}
          /\ processed' \in Nat /\ next' \in Nat \ {0}
      <4>1. UNCHANGED <<pass, reason>> \/ Reject("mismatch")
        BY <1>5 DEF PushSuccessor
      <4>2. next' = next + 1 /\ UNCHANGED processed
        BY <1>5 DEF PushSuccessor
      <4>3. QED
        BY <4>1, <4>2 DEF TypeOK
    <3>2. UNCHANGED <<program, cfgVars>>
      BY <1>5 DEF PushSuccessor
    <3>3. block' \in {1} \cup Tokens /\ depthIn' \in [Tokens -> Int]
                  /\ worklist' \in Seq(Tokens)
      BY <1>5, <2>7 DEF PushSuccessor, TypeOK
    <3>4. QED
      BY <3>1, <3>2, <3>3 DEF cfgVars, TypeOK, Tokens
  <2>9. CfgInv'
    BY <1>5 DEF PushSuccessor, cfgVars, TypeOK, CfgInv, Tokens
  <2>10. QED
    BY <2>8, <2>9
<1>6. CASE BlockDone
  BY <1>6 DEF BlockDone, cfgVars, flowVars, TypeOK, CfgInv, Tokens
<1>7. CASE CheckFinal
  BY <1>7 DEF CheckFinal, cfgVars, flowVars, TypeOK, CfgInv, Tokens
<1>8. CASE UNCHANGED vars
  BY <1>8 DEF vars, cfgVars, flowVars, TypeOK, CfgInv, Tokens
<1>9. QED
  BY <1>1, <1>2, <1>3, <1>4, <1>5, <1>6, <1>7, <1>8 DEF Analyse

-------------------------------------------------------------------------------

\* Before BlockAnalysisPass no token has been walked.
LEMMA WalkInit == Init => WalkInv
<1> SUFFICES ASSUME Init PROVE WalkInv
  OBVIOUS
<1>1. Len(program) \in Nat
  BY ProgramsAssumption DEF Init
<1>2. 1 .. at - 1 = {} /\ \A b \in Tokens : need[b] = 0
  BY DEF Init
<1>3. WalkData
  BY <1>2 DEF WalkData
<1>4. WalkStage
  BY <1>1 DEF Init, WalkStage, Flowing
<1>5. QED
  BY <1>3, <1>4 DEF WalkInv

\* The summaries of the blocks change in BlockAnalysisPass only.
LEMMA WalkFrame == UNCHANGED <<program, cfgVars>> /\ WalkData => WalkData'
BY DEF cfgVars, WalkData, InBlock, Summarised, Ends, Tokens

\* One token more, and the summary of its block accounts for it (BlockAnalysisPass).
LEMMA WalkStep ==
    ASSUME TypeOK, CfgInv, WalkInv, [Analyse]_vars
    PROVE  WalkInv'
<1> USE DEF Reject, Continue
<1>0. /\ Len(program) \in Nat
      /\ \A i \in Tokens : program[i].arity \in Nat /\ program[i].effect \in Int
  BY ProgramFacts
<1>1. CASE AnalyseToken
  <2> DEFINE fresh == IsStart(program, at)
             b == IF fresh THEN at ELSE block
             depth == IF fresh THEN 0 ELSE current
             t == program[at]
             shortage == IF depth < t.arity THEN MaxOf(need[b], t.arity - depth) ELSE need[b]
  <2>1. /\ at \in Tokens /\ b \in Tokens /\ depth \in Int
        /\ t.arity \in Nat /\ t.effect \in Int /\ need[b] \in Nat
    <3>1. at \in Tokens /\ 1 \in Tokens
      BY <1>0, <1>1 DEF AnalyseToken, TypeOK, Tokens
    <3>2. block \in Tokens /\ current \in Int /\ need \in [Tokens -> Nat]
      BY <3>1 DEF TypeOK
    <3>3. QED
      BY <1>0, <3>1, <3>2
  <2>2. /\ need' = [need EXCEPT ![b] = shortage]
        /\ current' = depth + t.effect
        /\ effect' = [effect EXCEPT ![b] = depth + t.effect]
        /\ last' = [last EXCEPT ![b] = at]
        /\ home' = [home EXCEPT ![at] = b]
        /\ before' = [before EXCEPT ![at] = depth]
        /\ block' = b /\ at' = at + 1 /\ UNCHANGED <<program, pass>>
    BY <1>1 DEF AnalyseToken
  <2>3. IsStart(program, 1)
    BY DEF IsStart
  <2>4. /\ fresh => b = at /\ depth = 0
        /\ ~fresh => /\ at > 1 /\ b = home[at - 1]
                     /\ depth = before[at - 1] + program[at - 1].effect
    BY <1>1, <2>1, <2>3 DEF AnalyseToken, WalkInv, WalkStage, Tokens
  <2>5. shortage \in {need[b], t.arity - depth} /\ shortage >= need[b]
            /\ shortage >= t.arity - depth /\ shortage \in Int
    <3> HIDE DEF b, depth, t
    <3>1. QED
      BY <2>1 DEF MaxOf
  <2> HIDE DEF fresh, b, depth, t, shortage
  <2>7. \A i \in 1 .. at : InBlock(i)'
    <3> SUFFICES ASSUME NEW i \in 1 .. at PROVE InBlock(i)'
      OBVIOUS
    <3>1. CASE i < at
      <4>1. i \in 1 .. at - 1 /\ InBlock(i)
        BY <2>1, <3>1 DEF WalkInv, WalkData, Tokens
      <4>2. home'[i] = home[i] /\ before'[i] = before[i]
                /\ (i > 1 => home'[i - 1] = home[i - 1] /\ before'[i - 1] = before[i - 1])
        BY <2>1, <2>2, <3>1 DEF TypeOK, Tokens
      <4>3. i = 1 => IsStart(program, i)
        BY <2>3
      <4>4. QED
        BY <2>2, <4>1, <4>2, <4>3 DEF InBlock
    <3>2. CASE i = at /\ fresh
      <4>1. home'[at] = at /\ before'[at] = 0 /\ program' = program
        BY <2>1, <2>2, <2>4, <3>2 DEF TypeOK
      <4>2. QED
        BY <2>1, <3>2, <4>1 DEF InBlock, fresh, Tokens
    <3>3. CASE i = at /\ ~fresh
      <4>1. /\ home'[at] = home[at - 1] /\ home'[at - 1] = home[at - 1]
            /\ before'[at] = before[at - 1] + program[at - 1].effect
            /\ before'[at - 1] = before[at - 1] /\ program' = program
        <5>1. at - 1 \in Tokens /\ at - 1 # at
          BY <2>1, <2>4, <3>3 DEF Tokens
        <5>2. QED
          BY <2>1, <2>2, <2>4, <3>3, <5>1 DEF TypeOK
      <4>2. at - 1 \in 1 .. at - 1 /\ InBlock(at - 1)
        BY <2>1, <2>4, <3>3 DEF WalkInv, WalkData, Tokens
      <4>3. \A k \in home[at - 1] + 1 .. at : ~IsStart(program, k)
        BY <2>1, <3>3, <4>2 DEF InBlock, fresh, Tokens
      <4>4. QED
        BY <2>1, <3>3, <4>1, <4>2, <4>3 DEF InBlock, fresh, Tokens
    <3>4. QED
      BY <2>1, <3>1, <3>2, <3>3 DEF Tokens
  <2>8. \A i \in 1 .. at : Summarised(i)'
    <3> SUFFICES ASSUME NEW i \in 1 .. at PROVE Summarised(i)'
      OBVIOUS
    <3>0. at' - 1 = at /\ program' = program
      BY <2>1, <2>2 DEF Tokens
    <3>1. CASE i < at
      <4>1. i \in 1 .. at - 1 /\ InBlock(i) /\ Summarised(i) /\ i \in Tokens
        BY <2>1, <3>1 DEF WalkInv, WalkData, Tokens
      <4>2. home'[i] = home[i] /\ before'[i] = before[i] /\ home[i] \in Tokens
        BY <2>2, <3>1, <4>1 DEF TypeOK
      <4>3. need'[home[i]] >= need[home[i]] /\ need'[home[i]] \in Int
        <5>1. need'[home[i]] = IF home[i] = b THEN shortage ELSE need[home[i]]
          BY <2>2, <4>2 DEF TypeOK
        <5>2. need[home[i]] \in Nat
          BY <4>2 DEF TypeOK
        <5>3. QED
          BY <2>5, <5>1, <5>2
      <4>4. ASSUME IsStart(program, i + 1)
            PROVE  home[i] # b
        <5>1. CASE i + 1 < at
          <6>1. at - 1 \in 1 .. at - 1 /\ InBlock(at - 1)
            BY <2>1, <3>1 DEF WalkInv, WalkData, Tokens
          <6>2. home[at - 1] # home[i]
            <7>1. home[i] \in 1 .. i
              BY <4>1 DEF InBlock
            <7>2. i + 1 \in home[i] + 1 .. at - 1
              BY <2>1, <5>1, <7>1 DEF Tokens
            <7>3. QED
              BY <4>4, <6>1, <7>2 DEF InBlock
          <6>3. QED
            BY <2>1, <2>4, <4>1, <6>2 DEF InBlock, Tokens
        <5>2. CASE i + 1 = at
          BY <2>1, <2>4, <4>1, <4>4, <5>2 DEF InBlock, fresh, Tokens
        <5>3. QED
          BY <2>1, <3>1, <5>1, <5>2 DEF Tokens
      <4>5. IsStart(program, i + 1) =>
                last'[home[i]] = last[home[i]] /\ effect'[home[i]] = effect[home[i]]
        BY <2>1, <2>2, <4>2, <4>4 DEF TypeOK
      <4>6. need'[home[i]] >= program[i].arity - before[i]
        <5>1. need[home[i]] \in Nat /\ program[i].arity \in Nat /\ before[i] \in Int
          BY <1>0, <4>1, <4>2 DEF TypeOK
        <5>2. QED
          BY <4>1, <4>3, <5>1 DEF Summarised
      <4>7. QED
        BY <3>0, <3>1, <4>1, <4>2, <4>5, <4>6 DEF Summarised
    <3>2. CASE i = at
      <4>1. home'[at] = b /\ before'[at] = depth /\ need'[b] = shortage
                /\ last'[b] = at /\ effect'[b] = depth + t.effect
        BY <2>1, <2>2 DEF TypeOK
      <4>2. QED
        BY <2>5, <3>0, <3>2, <4>1 DEF Summarised, t
    <3>3. QED
      BY <2>1, <3>1, <3>2 DEF Tokens
  <2>9. \A c \in 1 .. at : IsStart(program, c) => Ends(c)'
    <3> SUFFICES ASSUME NEW c \in 1 .. at, IsStart(program, c) PROVE Ends(c)'
      OBVIOUS
    <3>0. at' - 1 = at /\ program' = program /\ home'[at] = b /\ last'[b] = at
      BY <2>1, <2>2 DEF TypeOK, Tokens
    <3>1. CASE c = b
      BY <2>1, <3>0, <3>1 DEF Ends, Tokens
    <3>2. CASE c # b
      <4>1. c \in 1 .. at - 1 /\ c \in Tokens /\ Ends(c)
        BY <2>1, <2>4, <3>2 DEF WalkInv, WalkData, Tokens, fresh
      <4>2. last'[c] = last[c] /\ last[c] \in c .. at - 1
        BY <2>2, <3>2, <4>1 DEF Ends, TypeOK
      <4>3. home'[last[c]] = home[last[c]]
        BY <2>1, <2>2, <4>2, <4>1 DEF TypeOK, Tokens
      <4>4. last[c] = at - 1 => fresh
        BY <2>4, <3>2, <4>1 DEF Ends
      <4>5. IsStart(program, last[c] + 1)
        BY <2>1, <4>1, <4>4 DEF Ends, fresh, Tokens
      <4>6. QED
        BY <2>1, <3>0, <4>1, <4>2, <4>3, <4>5 DEF Ends, Tokens
    <3>3. QED
      BY <3>1, <3>2
  <2>10. \A c \in Tokens : need'[c] = 0 \/ \E i \in 1 .. at :
            home'[i] = c /\ need'[c] = program[i].arity - before'[i]
    <3> SUFFICES ASSUME NEW c \in Tokens
                 PROVE  need'[c] = 0 \/ \E i \in 1 .. at :
                            home'[i] = c /\ need'[c] = program[i].arity - before'[i]
      OBVIOUS
    <3>1. CASE need'[c] = need[c]
      <4>1. need[c] = 0 \/ \E i \in 1 .. at - 1 :
                home[i] = c /\ need[c] = program[i].arity - before[i]
        BY DEF WalkInv, WalkData
      <4>2. \A i \in 1 .. at - 1 : home'[i] = home[i] /\ before'[i] = before[i]
        BY <2>1, <2>2 DEF TypeOK, Tokens
      <4>3. 1 .. at - 1 \subseteq 1 .. at
        BY <2>1 DEF Tokens
      <4>4. QED
        BY <3>1, <4>1, <4>2, <4>3
    <3>2. CASE need'[c] # need[c]
      <4>1. c = b /\ need'[c] = t.arity - depth
        BY <2>1, <2>2, <2>5, <3>2 DEF TypeOK
      <4>2. home'[at] = b /\ before'[at] = depth /\ at \in 1 .. at
        BY <2>1, <2>2 DEF TypeOK, Tokens
      <4>3. QED
        BY <4>1, <4>2 DEF t
    <3>3. QED
      BY <3>1, <3>2
  <2>11. WalkData'
    <3>1. (1 .. at - 1)' = 1 .. at /\ Tokens' = Tokens
      BY <2>1, <2>2 DEF Tokens
    <3>2. QED
      <4>1. (\A i \in 1 .. at - 1 : InBlock(i))'
        BY <2>7, <3>1
      <4>2. (\A i \in 1 .. at - 1 : Summarised(i))'
        BY <2>8, <3>1
      <4>3. (\A c \in 1 .. at - 1 : IsStart(program, c) => Ends(c))'
        BY <2>2, <2>9, <3>1
      <4>4. (\A c \in Tokens : need[c] = 0 \/ \E i \in 1 .. at - 1 :
                home[i] = c /\ need[c] = program[i].arity - before[i])'
        <5> SUFFICES ASSUME NEW c \in Tokens
                     PROVE  (need[c] = 0 \/ \E i \in 1 .. at - 1 :
                               home[i] = c /\ need[c] = program[i].arity - before[i])'
          BY <3>1
        <5>1. need'[c] = 0 \/ \E i \in 1 .. at :
                home'[i] = c /\ need'[c] = program[i].arity - before'[i]
          BY <2>10
        <5>2. QED
          BY <2>2, <3>1, <5>1
      <4>5. QED
        BY <4>1, <4>2, <4>3, <4>4 DEF WalkData
  <2>12. WalkStage'
    <3>1. pass' = "blocks" /\ block' = b /\ current' = depth + program[at].effect
      BY <1>1, <2>2 DEF AnalyseToken, t
    <3>2. at' - 1 = at /\ home'[at] = b /\ before'[at] = depth /\ program' = program
      BY <2>1, <2>2 DEF TypeOK, Tokens
    <3>3. QED
      BY <3>1, <3>2 DEF WalkStage, Flowing
  <2>13. QED
    BY <2>11, <2>12 DEF WalkInv
<1>2. CASE ~AnalyseToken
  <2>1. UNCHANGED <<program, cfgVars>>
    BY <1>2 DEF Analyse, BuildCFG, StartFlow, PopBlock, PushSuccessor, BlockDone, CheckFinal,
                vars, cfgVars
  <2>2. WalkData'
    BY <2>1, WalkFrame DEF WalkInv
  <2>3. WalkStage'
    <3>1. WalkStage /\ at \in 1 .. Len(program) + 1
      BY DEF WalkInv, TypeOK
    <3>2. UNCHANGED <<program, at, home, before, current>>
      BY <2>1 DEF cfgVars
    <3>3. CASE BuildCFG
      BY <3>1, <3>2, <3>3 DEF BuildCFG, WalkStage, Flowing
    <3>4. CASE StartFlow
      BY <1>0, <3>1, <3>2, <3>4 DEF StartFlow, WalkStage, Flowing
    <3>5. CASE PopBlock \/ PushSuccessor \/ BlockDone \/ CheckFinal
      <4>1. pass \in {"pop", "push"} /\ pass' \in {"pop", "push", "accepted", "rejected"}
        BY <3>5 DEF PopBlock, PushSuccessor, BlockDone, CheckFinal
      <4>2. QED
        BY <3>1, <3>2, <4>1 DEF WalkStage, Flowing
    <3>6. CASE UNCHANGED vars
      BY <3>1, <3>6 DEF vars, WalkStage
    <3>7. QED
      BY <1>2, <3>3, <3>4, <3>5, <3>6 DEF Analyse
  <2>4. QED
    BY <2>2, <2>3 DEF WalkInv
<1>3. QED
  BY <1>1, <1>2

-------------------------------------------------------------------------------

\* What the summaries say of a token once the walk is over.
LEMMA TokenFacts ==
    ASSUME TypeOK, WalkInv, at = Len(program) + 1, NEW i \in Tokens
    PROVE  /\ InBlock(i) /\ home[i] \in Blocks
           /\ need[home[i]] >= program[i].arity - before[i]
           /\ i = Len(program) \/ IsStart(program, i + 1) =>
                 last[home[i]] = i /\ effect[home[i]] = before[i] + program[i].effect
<1>0. Len(program) \in Nat
  BY ProgramFacts
<1>1. i \in 1 .. at - 1
  BY <1>0 DEF Tokens
<1>2. InBlock(i) /\ Summarised(i)
  BY <1>1 DEF WalkInv, WalkData
<1>3. home[i] \in Blocks
  BY <1>2 DEF InBlock, Blocks, TypeOK
<1>4. QED
  BY <1>0, <1>2, <1>3 DEF Summarised

\* The last token of a block, and what follows it.
LEMMA BlockEnd ==
    ASSUME TypeOK, WalkInv, at = Len(program) + 1, NEW b \in Blocks
    PROVE  /\ last[b] \in Tokens /\ home[last[b]] = b
           /\ last[b] = Len(program) \/ IsStart(program, last[b] + 1)
           /\ effect[b] = before[last[b]] + program[last[b]].effect
           /\ need[b] >= program[last[b]].arity - before[last[b]]
<1>0. Len(program) \in Nat
  BY ProgramFacts
<1>1. b \in 1 .. at - 1 /\ b \in Tokens /\ IsStart(program, b)
  BY <1>0 DEF Blocks, Tokens
<1>2. Ends(b)
  BY <1>1 DEF WalkInv, WalkData
<1>3. last[b] \in Tokens /\ home[last[b]] = b
          /\ (last[b] = Len(program) \/ IsStart(program, last[b] + 1))
  BY <1>0, <1>1, <1>2 DEF Ends, TypeOK
<1>4. QED
  BY <1>3, TokenFacts

\* The successors of a block are blocks.
LEMMA SuccessorsAreBlocks ==
    ASSUME TypeOK, CfgInv, WalkInv, pass \in Flowing, NEW b \in Blocks
    PROVE  /\ SuccessorsOf(b) \in Seq(Tokens)
           /\ \A k \in 1 .. Len(SuccessorsOf(b)) : SuccessorsOf(b)[k] \in Blocks
<1>1. at = Len(program) + 1
  BY DEF WalkInv, WalkStage
<1>2. program \in Seq(Token) /\ ~UndefinedLabel(program)
  BY ProgramFacts DEF CfgInv, Flowing
<1>3. last[b] \in 1 .. Len(program)
          /\ (last[b] = Len(program) \/ IsStart(program, last[b] + 1))
  BY <1>1, BlockEnd DEF Tokens
<1>4. /\ SuccessorsOf(b) \in Seq(Tokens)
      /\ \A k \in 1 .. Len(SuccessorsOf(b)) : IsStart(program, SuccessorsOf(b)[k])
  BY <1>2, <1>3, SuccessorsAreTokens DEF SuccessorsOf, Tokens
<1>5. QED
  BY <1>4 DEF Blocks

\* A block that has enough leaves a depth that is not taken for "unknown".
LEMMA OutDepth ==
    ASSUME TypeOK, WalkInv, at = Len(program) + 1, NEW b \in Blocks, need[b] <= depthIn[b]
    PROVE  depthIn[b] + effect[b] \in Nat
<1>1. /\ last[b] \in Tokens /\ effect[b] = before[last[b]] + program[last[b]].effect
      /\ need[b] >= program[last[b]].arity - before[last[b]]
  BY BlockEnd
<1>2. program[last[b]].arity \in Nat /\ program[last[b]].effect \in Int
          /\ program[last[b]].arity + program[last[b]].effect >= 0
  BY <1>1, ProgramFacts
<1>3. before[last[b]] \in Int /\ need[b] \in Nat /\ depthIn[b] \in Int
  BY <1>1 DEF TypeOK, Blocks
<1>4. QED
  BY <1>1, <1>2, <1>3

\* What is left of the worklist when its last element is taken.
LEMMA RestOfWorklist ==
    ASSUME TypeOK, worklist # <<>>
    PROVE  LET rest == SubSeq(worklist, 1, Len(worklist) - 1)
           IN  /\ Len(worklist) \in Nat \ {0} /\ rest \in Seq(Tokens)
               /\ Len(rest) = Len(worklist) - 1
               /\ \A k \in 1 .. Len(rest) : rest[k] = worklist[k]
<1> DEFINE rest == SubSeq(worklist, 1, Len(worklist) - 1)
<1>1. Len(worklist) \in Nat \ {0} /\ \A k \in 1 .. Len(worklist) - 1 : worklist[k] \in Tokens
  BY DEF TypeOK
<1>2. /\ rest \in Seq(Tokens)
      /\ Len(rest) = IF 1 <= Len(worklist) - 1 THEN Len(worklist) - 1 - 1 + 1 ELSE 0
      /\ \A k \in 1 .. Len(worklist) - 1 - 1 + 1 : rest[k] = worklist[1 + k - 1]
  BY <1>1, SubSeqProperties
<1> HIDE DEF rest
<1>3. Len(rest) = Len(worklist) - 1
  <2>1. \A m \in Nat \ {0} : (IF 1 <= m - 1 THEN m - 1 - 1 + 1 ELSE 0) = m - 1
    OBVIOUS
  <2>2. QED
    BY <1>1, <1>2, <2>1
<1>4. /\ Len(worklist) \in Nat \ {0} /\ rest \in Seq(Tokens)
      /\ Len(rest) = Len(worklist) - 1
      /\ \A k \in 1 .. Len(rest) : rest[k] = worklist[k]
  BY <1>1, <1>2, <1>3
<1>5. QED
  BY <1>4 DEF rest

\* Before StackSafetyPass no block has a depth.
LEMMA FlowInit == Init => FlowInv
BY DEF Init, FlowInv, Known, Flowing, Unknown

\* A block with a depth waits on the worklist, is at hand, or has served its successors
\* (StackSafetyPass).
LEMMA FlowStep ==
    ASSUME TypeOK, CfgInv, WalkInv, FlowInv, [Analyse]_vars, WalkInv', TypeOK', CfgInv'
    PROVE  FlowInv'
<1> USE DEF Reject, Continue
<1>1. CASE BuildCFG \/ AnalyseToken
  <2>1. UNCHANGED <<program, depthIn, worklist, processed>>
            /\ pass \in {"cfg", "blocks"} /\ pass' \in {"blocks", "rejected"}
    BY <1>1 DEF BuildCFG, AnalyseToken, flowVars
  <2>2. Known' = Known /\ Blocks' = Blocks
    BY <2>1 DEF Known, Blocks, Tokens
  <2>3. QED
    BY <2>1, <2>2 DEF FlowInv, Flowing
<1>2. CASE StartFlow
  <2>1. /\ pass = "blocks" /\ pass' = "pop" /\ UNCHANGED <<program, cfgVars>>
        /\ Known = {} /\ worklist = <<>>
    BY <1>2 DEF StartFlow, FlowInv
  <2>2. CASE Len(program) = 0
    <3>1. UNCHANGED <<depthIn, worklist>>
      BY <1>2, <2>2 DEF StartFlow
    <3>2. Known' = {} /\ worklist' = <<>>
      BY <2>1, <3>1 DEF Known, Tokens
    <3>3. QED
      BY <2>1, <2>2, <3>2 DEF FlowInv
  <2>3. CASE Len(program) # 0
    <3>1. depthIn' = [depthIn EXCEPT ![1] = 0] /\ worklist' = <<1>>
      BY <1>2, <2>3 DEF StartFlow
    <3>2. 1 \in Tokens /\ 1 \in Blocks
      BY <2>3, ProgramFacts DEF Blocks, Tokens, IsStart
    <3>3. Known' = {1} /\ Blocks' = Blocks
      BY <2>1, <3>1, <3>2 DEF Known, Tokens, Blocks, TypeOK, Unknown
    <3>4. depthIn'[1] = 0
      BY <3>1, <3>2 DEF TypeOK
    <3>5. QED
      BY <2>1, <3>1, <3>2, <3>3, <3>4 DEF FlowInv, Waiting
  <2>4. QED
    BY <2>2, <2>3
<1>3. CASE PopBlock
  <2> DEFINE top == worklist[Len(worklist)]
             rest == SubSeq(worklist, 1, Len(worklist) - 1)
  <2>1. pass = "pop" /\ worklist # <<>> /\ UNCHANGED <<program, cfgVars, depthIn>>
    BY <1>3 DEF PopBlock
  <2>2. \/ pass' = "rejected" /\ worklist' = worklist
        \/ /\ worklist' = rest /\ block' = top /\ next' = 1
           /\ pass' = "rejected" \/ (pass' = "push" /\ need[top] <= depthIn[top])
    <3>1. \/ pass' = "rejected" /\ worklist' = worklist
          \/ /\ worklist' = rest /\ block' = top /\ next' = 1
             /\ IF depthIn[top] < need[top] THEN Reject("underflow") ELSE Continue("push")
      BY <1>3 DEF PopBlock
    <3>2. depthIn[top] < need[top] \/ need[top] <= depthIn[top]
      <4>1. top \in Tokens
        BY <2>1 DEF TypeOK
      <4>2. depthIn[top] \in Int /\ need[top] \in Int
        BY <4>1 DEF TypeOK
      <4> HIDE DEF top
      <4>3. QED
        BY <4>2
    <3> HIDE DEF top, rest
    <3>3. QED
      BY <3>1, <3>2
  <2>3. /\ Len(worklist) \in Nat \ {0} /\ rest \in Seq(Tokens)
        /\ Len(rest) = Len(worklist) - 1
        /\ \A k \in 1 .. Len(rest) : rest[k] = worklist[k]
    BY <2>1, RestOfWorklist
  <2>4. top \in Known
    BY <2>3 DEF FlowInv
  <2>5. Known' = Known /\ Blocks' = Blocks
    BY <2>1 DEF Known, Tokens, Blocks, cfgVars
  <2>6. \A b : Served(b, Len(SuccessorsOf(b))) => Served(b, Len(SuccessorsOf(b)))'
    BY <2>1 DEF Served, SuccessorsOf, cfgVars
  <2>7. worklist' = rest => \A b : Waiting(b) => Waiting(b)' \/ b = top
    <3> SUFFICES ASSUME worklist' = rest, NEW b, NEW k \in 1 .. Len(worklist),
                        worklist[k] = b, b # top
                 PROVE  \E j \in 1 .. Len(rest) : rest[j] = b
      BY DEF Waiting
    <3>1. k \in 1 .. Len(rest)
      BY <2>3
    <3>2. QED
      BY <2>3, <3>1
  <2>8. \A k \in 1 .. Len(worklist') : worklist'[k] \in Known'
    <3>1. \A k \in 1 .. Len(worklist) : worklist[k] \in Known
      BY DEF FlowInv
    <3>2. worklist' = rest => \A k \in 1 .. Len(rest) : k \in 1 .. Len(worklist)
      BY <2>3
    <3> HIDE DEF rest, top
    <3>3. QED
      BY <2>2, <2>3, <2>5, <3>1, <3>2
  <2> HIDE DEF rest, top
  <2>9. CASE pass' = "rejected"
    BY <2>1, <2>5, <2>8, <2>9 DEF FlowInv, Flowing
  <2>10. CASE pass' # "rejected"
    <3>1. /\ pass' = "push" /\ worklist' = rest /\ block' = top /\ next' = 1
          /\ need[top] <= depthIn[top]
      BY <2>2, <2>10
    <3>2. \A b \in Known : \/ Waiting(b)'
                          \/ b = block'
                          \/ Served(b, Len(SuccessorsOf(b)))'
      BY <2>1, <2>6, <2>7, <3>1 DEF FlowInv, Flowing
    <3>3. Served(block, next - 1)'
      <4>1. need'[block'] <= depthIn'[block'] /\ 1 .. next' - 1 = {}
        BY <2>1, <3>1 DEF cfgVars
      <4>2. QED
        BY <4>1 DEF Served
    <3>4. block' \in Known' /\ next' \in 1 .. Len(SuccessorsOf(block))' + 1
              /\ Served(block, next - 1)'
      <4>1. Len(SuccessorsOf(block))' \in Nat
        <5>1. block' \in Blocks' /\ pass' \in Flowing'
          BY <2>4, <2>5, <3>1 DEF FlowInv, Flowing
        <5>2. (SuccessorsOf(block))' \in Seq(Tokens)'
          BY <2>1, <2>4, <3>1, SuccessorsAreBlocks
          DEF FlowInv, Flowing, SuccessorsOf, cfgVars, Tokens
        <5>3. QED
          BY <5>2
      <4>2. QED
        BY <2>4, <2>5, <3>1, <3>3, <4>1
    <3>5. (depthIn[1] = 0 \/ Len(program) = 0)'
      BY <2>1 DEF FlowInv, Flowing
    <3>6. QED
      BY <2>5, <2>8, <3>1, <3>2, <3>4, <3>5 DEF FlowInv, Flowing
  <2>11. QED
    BY <2>9, <2>10
<1>4. CASE PushSuccessor
  <2> DEFINE s == SuccessorsOf(block)[next]
             out == depthIn[block] + effect[block]
  <2>1. /\ pass = "push" /\ next <= Len(SuccessorsOf(block)) /\ next' = next + 1
        /\ UNCHANGED <<program, block, cfgVars, processed>>
        /\ \/ /\ depthIn[s] = Unknown /\ depthIn' = [depthIn EXCEPT ![s] = out]
              /\ worklist' = Append(worklist, s) /\ pass' = pass
           \/ /\ depthIn[s] # Unknown /\ depthIn' = depthIn /\ worklist' = worklist
              /\ pass' = "rejected" \/ (depthIn[s] = out /\ pass' = pass)
    BY <1>4 DEF PushSuccessor, SuccessorsOf
  <2>2. /\ block \in Known /\ next \in 1 .. Len(SuccessorsOf(block)) + 1
        /\ Served(block, next - 1) /\ Known \subseteq Blocks
    BY <2>1 DEF FlowInv
  <2>3. /\ SuccessorsOf(block) \in Seq(Tokens)
        /\ \A k \in 1 .. Len(SuccessorsOf(block)) : SuccessorsOf(block)[k] \in Blocks
    BY <2>1, <2>2, SuccessorsAreBlocks DEF Flowing
  <2>4. next \in 1 .. Len(SuccessorsOf(block)) /\ s \in Blocks /\ s \in Tokens
    BY <2>1, <2>2, <2>3 DEF Blocks
  <2>5. out \in Nat
    BY <2>1, <2>2, OutDepth DEF WalkInv, WalkStage, Flowing, Served
  <2> HIDE DEF s, out
  <2>6. Blocks' = Blocks /\ Tokens' = Tokens /\ \A b : SuccessorsOf(b)' = SuccessorsOf(b)
    BY <2>1 DEF Blocks, Tokens, SuccessorsOf, cfgVars
  <2>7. \A b \in Known : depthIn'[b] = depthIn[b]
    <3>1. depthIn \in [Tokens -> Int]
      BY DEF TypeOK
    <3>2. \A b \in Known : b \in Tokens /\ depthIn[b] # Unknown
      BY DEF Known
    <3>3. depthIn' = depthIn \/ (depthIn[s] = Unknown /\ depthIn' = [depthIn EXCEPT ![s] = out])
      BY <2>1
    <3>4. QED
      BY <3>1, <3>2, <3>3
  <2>8. /\ Known' = Known \cup {s}
        /\ pass' = pass => depthIn'[s] = out /\ depthIn'[s] # Unknown
    <3>1. CASE depthIn[s] = Unknown
      <4>1. depthIn' = [depthIn EXCEPT ![s] = out] /\ depthIn \in [Tokens -> Int]
        BY <2>1, <3>1 DEF TypeOK
      <4>2. depthIn'[s] = out /\ out # Unknown
                /\ \A b \in Tokens : b # s => depthIn'[b] = depthIn[b]
        BY <2>4, <2>5, <4>1 DEF Unknown
      <4>3. QED
        BY <2>4, <2>6, <4>2 DEF Known
    <3>2. CASE depthIn[s] # Unknown
      <4>1. depthIn' = depthIn /\ (pass' = pass => depthIn[s] = out)
        BY <2>1, <3>2
      <4>2. QED
        BY <2>4, <2>6, <3>2, <4>1 DEF Known
    <3>3. QED
      BY <3>1, <3>2
  <2>9. \A b \in Known, n \in Nat : n <= Len(SuccessorsOf(b)) /\ Served(b, n) => Served(b, n)'
    <3> SUFFICES ASSUME NEW b \in Known, NEW n \in Nat, n <= Len(SuccessorsOf(b)), Served(b, n)
                 PROVE  Served(b, n)'
      OBVIOUS
    <3>1. \A k \in 1 .. n : SuccessorsOf(b)[k] \in Known
      <4>1. SuccessorsOf(b) \in Seq(Tokens)
        BY <2>1, <2>2, SuccessorsAreBlocks DEF Flowing
      <4>2. QED
        BY <4>1 DEF Served, Known
    <3>2. need' = need /\ effect' = effect /\ depthIn'[b] = depthIn[b]
      BY <2>1, <2>7 DEF cfgVars
    <3>3. QED
      BY <2>6, <2>7, <3>1, <3>2 DEF Served
  <2>10. \A b : Waiting(b) => Waiting(b)'
    <3>1. worklist \in Seq(Tokens)
      BY DEF TypeOK
    <3>2. QED
      BY <2>1, <2>4, <3>1 DEF Waiting
  <2>11. \A k \in 1 .. Len(worklist') : worklist'[k] \in Known'
    <3>1. worklist \in Seq(Tokens) /\ \A k \in 1 .. Len(worklist) : worklist[k] \in Known
      BY DEF TypeOK, FlowInv
    <3>2. QED
      BY <2>1, <2>4, <2>8, <3>1
  <2>12. (pass \in Flowing /\ Len(program) > 0 => depthIn[1] = 0)'
    <3>1. Len(program) > 0 => depthIn[1] = 0 /\ 1 \in Known
      BY <2>1, ProgramFacts DEF FlowInv, Flowing, Known, Tokens, Unknown
    <3>2. QED
      BY <2>1, <2>7, <3>1
  <2>13. CASE pass' = "rejected"
    BY <2>2, <2>4, <2>6, <2>8, <2>11, <2>13 DEF FlowInv, Flowing
  <2>14. CASE pass' # "rejected"
    <3>1. pass' = "push"
      BY <2>1, <2>14
    <3>2. \A b \in Known' : \/ Waiting(b)'
                           \/ b = block'
                           \/ Served(b, Len(SuccessorsOf(b)))'
      <4> SUFFICES ASSUME NEW b \in Known', ~Waiting(b)', b # block
                   PROVE  Served(b, Len(SuccessorsOf(b)))'
        BY <2>1
      <4>1. b \in Known
        <5>1. CASE depthIn[s] = Unknown
          <6>1. worklist' = Append(worklist, s) /\ worklist \in Seq(Tokens)
            BY <2>1, <5>1 DEF TypeOK
          <6>2. Waiting(b)' \/ b # s
            BY <2>4, <6>1 DEF Waiting
          <6>3. QED
            BY <2>8, <6>2
        <5>2. CASE depthIn[s] # Unknown
          BY <2>4, <2>8, <5>2 DEF Known
        <5>3. QED
          BY <5>1, <5>2
      <4>2. Served(b, Len(SuccessorsOf(b)))
        BY <2>1, <2>10, <4>1 DEF FlowInv, Flowing
      <4>3. Len(SuccessorsOf(b)) \in Nat
        BY <2>1, <2>2, <4>1, SuccessorsAreBlocks DEF Flowing
      <4>4. Served(b, Len(SuccessorsOf(b)))' <=> \A n \in Nat : n = Len(SuccessorsOf(b)) => Served(b, n)'
        BY <2>6, <4>3 DEF Served
      <4>5. QED
        BY <2>9, <4>1, <4>2, <4>3, <4>4
    <3>3. \A n \in Nat : n = next => Served(block, n)'
      <4>1. need'[block] <= depthIn'[block] /\ depthIn'[block] + effect'[block] = out
        BY <2>1, <2>2, <2>7 DEF Served, cfgVars, out
      <4>2. depthIn'[s] # Unknown /\ depthIn'[s] = out
        BY <2>1, <2>8, <3>1
      <4>3. \A k \in 1 .. next : /\ depthIn'[SuccessorsOf(block)[k]] # Unknown
                                /\ depthIn'[SuccessorsOf(block)[k]] = out
        <5> SUFFICES ASSUME NEW k \in 1 .. next
                     PROVE  /\ depthIn'[SuccessorsOf(block)[k]] # Unknown
                            /\ depthIn'[SuccessorsOf(block)[k]] = out
          OBVIOUS
        <5>1. CASE k = next
          BY <4>2, <5>1 DEF s
        <5>2. CASE k # next
          <6>1. k \in 1 .. next - 1 /\ k \in 1 .. Len(SuccessorsOf(block))
            BY <2>3, <2>4, <5>2
          <6>2. SuccessorsOf(block)[k] \in Known
                    /\ depthIn[SuccessorsOf(block)[k]] = out
            BY <2>2, <2>3, <6>1 DEF Served, Known, Blocks, out
          <6>3. QED
            BY <2>7, <6>2 DEF Known
        <5>3. QED
          BY <5>1, <5>2
      <4>4. QED
        BY <2>1, <2>6, <4>1, <4>3 DEF Served
    <3>4. block' \in Known' /\ next' \in 1 .. Len(SuccessorsOf(block))' + 1
              /\ Served(block, next - 1)'
      <4>1. next' - 1 = next /\ next \in Nat
        BY <2>1, <2>4
      <4>2. Served(block, next - 1)'
        BY <3>3, <4>1 DEF Served
      <4>3. SuccessorsOf(block)' = SuccessorsOf(block)
        BY <2>1, <2>6 DEF SuccessorsOf, cfgVars
      <4>4. QED
        BY <2>1, <2>2, <2>3, <2>4, <2>8, <4>2, <4>3
    <3>5. QED
      BY <2>2, <2>4, <2>6, <2>8, <2>11, <2>12, <3>1, <3>2, <3>4 DEF FlowInv
  <2>15. QED
    BY <2>13, <2>14
<1>5. CASE BlockDone
  <2>1. /\ pass = "push" /\ pass' = "pop" /\ UNCHANGED <<program, block, cfgVars, flowVars>>
        /\ next > Len(SuccessorsOf(block))
    BY <1>5 DEF BlockDone, SuccessorsOf
  <2>2. block \in Known /\ next \in 1 .. Len(SuccessorsOf(block)) + 1
            /\ Served(block, next - 1)
    BY <2>1 DEF FlowInv
  <2>3. Len(SuccessorsOf(block)) \in Nat
    BY <2>1, <2>2, SuccessorsAreBlocks DEF FlowInv, Flowing
  <2>4. Served(block, Len(SuccessorsOf(block)))
    BY <2>1, <2>2, <2>3
  <2>5. Known' = Known /\ Blocks' = Blocks
            /\ \A b : (Waiting(b) <=> Waiting(b)')
                    /\ (Served(b, Len(SuccessorsOf(b))) <=> Served(b, Len(SuccessorsOf(b)))')
    BY <2>1 DEF Known, Tokens, Blocks, cfgVars, flowVars, Waiting, Served, SuccessorsOf
  <2>6. QED
    BY <2>1, <2>4, <2>5 DEF FlowInv, Flowing, cfgVars, flowVars
<1>6. CASE CheckFinal
  <2>1. /\ pass = "pop" /\ pass' \in {"accepted", "rejected"}
        /\ UNCHANGED <<program, block, cfgVars, flowVars>>
    BY <1>6 DEF CheckFinal
  <2>2. Known' = Known /\ Blocks' = Blocks
            /\ \A b : (Waiting(b) <=> Waiting(b)')
                    /\ (Served(b, Len(SuccessorsOf(b))) <=> Served(b, Len(SuccessorsOf(b)))')
    BY <2>1 DEF Known, Tokens, Blocks, cfgVars, flowVars, Waiting, Served, SuccessorsOf
  <2>3. QED
    BY <2>1, <2>2 DEF FlowInv, Flowing, cfgVars, flowVars
<1>7. CASE UNCHANGED vars
  BY <1>7 DEF vars, FlowInv, Known, Tokens, Blocks, Waiting, Served, SuccessorsOf
<1>8. QED
  BY <1>1, <1>2, <1>3, <1>4, <1>5, <1>6, <1>7 DEF Analyse

-------------------------------------------------------------------------------

\* There are finitely many blocks, and at most as many of them have a depth.
LEMMA KnownIsBounded ==
    ASSUME TypeOK, Known \subseteq Blocks
    PROVE  /\ IsFiniteSet(Known) /\ Cardinality(Known) \in Nat /\ NumBlocks \in Nat
           /\ Cardinality(Known) <= NumBlocks
<1>1. IsFiniteSet(Tokens)
  BY ProgramFacts, FS_Interval DEF Tokens
<1>2. IsFiniteSet(Blocks) /\ NumBlocks \in Nat
  BY <1>1, FS_Subset, FS_CardinalityType DEF Blocks, NumBlocks
<1>3. QED
  BY <1>2, FS_Subset, FS_CardinalityType DEF NumBlocks

\* Nothing has been processed and nothing accepted.
LEMMA CountInit == Init => CountInv /\ BalancedInv
<1> SUFFICES ASSUME Init PROVE CountInv /\ BalancedInv
  OBVIOUS
<1>1. TypeOK /\ FlowInv
  BY TypeInit, FlowInit
<1>2. NumBlocks \in Nat
  BY <1>1, KnownIsBounded DEF FlowInv
<1>3. QED
  BY <1>2 DEF Init, CountInv, BalancedInv, Flowing

\* A block enters the worklist once: what was processed and what waits add up to the
\* blocks that have a depth (StackSafetyPass).
LEMMA CountStep ==
    ASSUME TypeOK, CfgInv, WalkInv, FlowInv, CountInv, [Analyse]_vars
    PROVE  CountInv'
<1> USE DEF Reject, Continue
<1>0. /\ NumBlocks \in Nat /\ Cardinality(Known) \in Nat /\ IsFiniteSet(Known)
      /\ Cardinality(Known) <= NumBlocks /\ processed \in Nat
      /\ reason # "heuristic" /\ processed <= NumBlocks
  BY KnownIsBounded DEF FlowInv, TypeOK, CountInv
<1>1. program' = program /\ NumBlocks' = NumBlocks
  BY DEF Analyse, BuildCFG, AnalyseToken, StartFlow, PopBlock, PushSuccessor, BlockDone,
         CheckFinal, vars, NumBlocks, Blocks, Tokens
<1>2. CASE BuildCFG \/ AnalyseToken
  BY <1>0, <1>1, <1>2 DEF BuildCFG, AnalyseToken, flowVars, CountInv, Flowing
<1>3. CASE StartFlow
  <2>1. /\ Known = {} /\ worklist = <<>> /\ processed = 0 /\ pass = "blocks"
        /\ UNCHANGED <<processed, reason>>
    BY <1>3 DEF StartFlow, FlowInv
  <2>2. CASE Len(program) = 0
    <3>1. Known' = {} /\ worklist' = <<>>
      BY <1>1, <1>3, <2>1, <2>2 DEF StartFlow, Known, Tokens
    <3>2. QED
      BY <1>0, <1>1, <2>1, <3>1, FS_EmptySet DEF CountInv
  <2>3. CASE Len(program) # 0
    <3>1. depthIn' = [depthIn EXCEPT ![1] = 0] /\ worklist' = <<1>> /\ 1 \in Tokens
      BY <1>3, <2>3, ProgramFacts DEF StartFlow, Tokens
    <3>2. Known' = {1}
      BY <1>1, <2>1, <3>1 DEF Known, Tokens, TypeOK, Unknown
    <3>3. Len(worklist') = 1 /\ Cardinality(Known') = 1
      BY <3>1, <3>2, FS_Singleton
    <3>4. QED
      BY <1>0, <1>1, <2>1, <3>3 DEF CountInv
  <2>4. QED
    BY <2>2, <2>3
<1>4. CASE PopBlock
  <2> DEFINE rest == SubSeq(worklist, 1, Len(worklist) - 1)
  <2>1. /\ pass = "pop" /\ worklist # <<>> /\ processed' = processed + 1
        /\ UNCHANGED <<program, depthIn>>
        /\ \/ processed + 1 > NumBlocks * NumBlocks
           \/ worklist' = rest /\ reason' \in {reason, "underflow"}
    BY <1>4 DEF PopBlock
  <2>2. worklist \in Seq(Tokens) /\ Len(worklist) \in Nat \ {0}
    BY <2>1 DEF TypeOK
  <2>3. processed + Len(worklist) = Cardinality(Known)
    BY <2>1 DEF CountInv, Flowing
  <2>4. processed + 1 <= NumBlocks
    BY <1>0, <2>2, <2>3
  <2>5. NumBlocks <= NumBlocks * NumBlocks
    <3>1. \A n \in Nat \ {0} : n <= n * n
      OBVIOUS
    <3>2. QED
      BY <1>0, <2>4, <3>1
  <2>6. ~(processed + 1 > NumBlocks * NumBlocks)
    <3>1. \A a, b, c \in Nat : a <= b /\ b <= c => ~(a > c)
      OBVIOUS
    <3>2. NumBlocks * NumBlocks \in Nat /\ processed + 1 \in Nat
      BY <1>0
    <3>3. QED
      BY <1>0, <2>4, <2>5, <3>1, <3>2
  <2>7. worklist' = rest /\ reason' \in {reason, "underflow"}
    BY <2>1, <2>6
  <2>8. Len(rest) = Len(worklist) - 1
    BY <2>1, RestOfWorklist
  <2>9. Known' = Known
    BY <2>1 DEF Known, Tokens
  <2> HIDE DEF rest
  <2>10. QED
    BY <1>0, <1>1, <2>1, <2>2, <2>3, <2>4, <2>7, <2>8, <2>9 DEF CountInv
<1>5. CASE PushSuccessor
  <2> DEFINE s == SuccessorsOf(block)[next]
             out == depthIn[block] + effect[block]
  <2>1. /\ pass = "push" /\ next <= Len(SuccessorsOf(block)) /\ UNCHANGED <<program, processed>>
        /\ reason' \in {reason, "mismatch"}
        /\ \/ /\ depthIn[s] = Unknown /\ depthIn' = [depthIn EXCEPT ![s] = out]
              /\ worklist' = Append(worklist, s)
           \/ depthIn' = depthIn /\ worklist' = worklist
    BY <1>5 DEF PushSuccessor, SuccessorsOf
  <2>2. /\ block \in Blocks /\ next \in 1 .. Len(SuccessorsOf(block)) + 1
        /\ Served(block, next - 1)
    BY <2>1 DEF FlowInv
  <2>3. s \in Tokens
    <3>1. SuccessorsOf(block) \in Seq(Tokens)
      BY <2>1, <2>2, SuccessorsAreBlocks DEF Flowing
    <3>2. QED
      BY <2>1, <2>2, <3>1
  <2>4. out \in Nat
    BY <2>1, <2>2, OutDepth DEF WalkInv, WalkStage, Flowing, Served
  <2>5. processed + Len(worklist) = Cardinality(Known)
    BY <2>1 DEF CountInv, Flowing
  <2> HIDE DEF s, out
  <2>6. CASE depthIn' = depthIn /\ worklist' = worklist
    <3>1. Known' = Known
      BY <2>1, <2>6 DEF Known, Tokens
    <3>2. QED
      BY <1>0, <1>1, <2>1, <2>5, <2>6, <3>1 DEF CountInv
  <2>7. CASE depthIn[s] = Unknown /\ depthIn' = [depthIn EXCEPT ![s] = out]
                 /\ worklist' = Append(worklist, s)
    <3>1. Known' = Known \cup {s} /\ s \notin Known
      BY <2>1, <2>3, <2>4, <2>7 DEF Known, Tokens, TypeOK, Unknown
    <3>2. Len(worklist') = Len(worklist) + 1 /\ Len(worklist) \in Nat
      BY <2>3, <2>7 DEF TypeOK
    <3>3. Cardinality(Known') = Cardinality(Known) + 1
      BY <1>0, <3>1, FS_AddElement
    <3>4. QED
      BY <1>0, <1>1, <2>1, <2>5, <3>2, <3>3 DEF CountInv
  <2>8. QED
    BY <2>1, <2>6, <2>7
<1>6. CASE BlockDone \/ CheckFinal \/ UNCHANGED vars
  <2>1. /\ UNCHANGED <<program, depthIn, processed, worklist>>
        /\ reason' \in {reason, "unbalanced"}
        /\ pass \in Flowing \/ pass' \notin Flowing
    BY <1>6 DEF BlockDone, CheckFinal, vars, flowVars, Flowing
  <2>2. Known' = Known
    BY <2>1 DEF Known, Tokens
  <2>3. QED
    BY <1>0, <1>1, <2>1, <2>2 DEF CountInv
<1>7. QED
  BY <1>2, <1>3, <1>4, <1>5, <1>6 DEF Analyse

\* A program is accepted with an empty worklist and balanced ends.
LEMMA BalancedStep ==
    ASSUME TypeOK, FlowInv, BalancedInv, [Analyse]_vars
    PROVE  BalancedInv'
<1> USE DEF Reject, Continue
<1>1. CASE CheckFinal
  <2>1. pass' = "accepted" => \A b \in Blocks : Balanced(b)
    BY <1>1 DEF CheckFinal
  <2>2. UNCHANGED <<program, cfgVars, flowVars>> /\ worklist = <<>>
    BY <1>1 DEF CheckFinal
  <2>3. QED
    BY <2>1, <2>2 DEF BalancedInv, Balanced, Blocks, Tokens, cfgVars, flowVars
<1>2. CASE UNCHANGED vars
  BY <1>2 DEF vars, BalancedInv, Balanced, Blocks, Tokens
<1>3. CASE BuildCFG \/ AnalyseToken \/ StartFlow \/ PopBlock \/ PushSuccessor \/ BlockDone
  <2>1. pass' # "accepted"
    BY <1>3 DEF BuildCFG, AnalyseToken, StartFlow, PopBlock, PushSuccessor, BlockDone
  <2>2. QED
    BY <2>1 DEF BalancedInv
<1>4. QED
  BY <1>1, <1>2, <1>3 DEF Analyse

\* Wherever the passes run, alone or before code generation, they keep the invariant.
LEMMA PassesKeep == (Init => IInv) /\ (IInv /\ [Analyse]_vars => IInv')
<1>1. Init => IInv
  BY TypeInit, WalkInit, FlowInit, CountInit DEF IInv
<1>2. IInv /\ [Analyse]_vars => IInv'
  BY TypeStep, WalkStep, FlowStep, CountStep, BalancedStep DEF IInv
<1> QED
  BY <1>1, <1>2

\* The inductive invariant: types, summaries, depths and the count of the worklist.
THEOREM Inductive == Spec => []IInv
BY PassesKeep, PTL DEF Spec

-------------------------------------------------------------------------------

\* What a typing says at a token that is reached.
LEMMA TypedToken ==
    ASSUME TypeOK, NEW d \in [Tokens -> Int], Typing(program, d),
           NEW i \in Tokens, d[i] # Unknown
    PROVE  /\ d[i] >= program[i].arity /\ d[i] + program[i].effect \in Nat
           /\ \A k \in 1 .. Len(Successors(program, i)) :
                  d[Successors(program, i)[k]] = d[i] + program[i].effect
           /\ Successors(program, i) = <<>> => d[i] + program[i].effect = Expected
<1>1. /\ d[i] >= program[i].arity
      /\ \A k \in 1 .. Len(Successors(program, i)) :
             d[Successors(program, i)[k]] = d[i] + program[i].effect
      /\ Successors(program, i) = <<>> => d[i] + program[i].effect = Expected
  BY DEF Typing, Tokens
<1>2. d[i] + program[i].effect \in Nat
  BY <1>1, ProgramFacts
<1>3. QED
  BY <1>1, <1>2

\* The depth a typing gives to the last token of a block that is reached.
LEMMA TypedBlock ==
    ASSUME TypeOK, WalkInv, at = Len(program) + 1, NEW d \in [Tokens -> Int],
           Typing(program, d), Agrees(d), NEW b \in Known, Known \subseteq Blocks
    PROVE  /\ depthIn[b] = d[b] /\ d[b] # Unknown
           /\ \A i \in Tokens : home[i] = b => d[i] # Unknown /\ d[i] = d[b] + before[i]
           /\ \A k \in 1 .. Len(SuccessorsOf(b)) :
                  d[SuccessorsOf(b)[k]] = depthIn[b] + effect[b]
           /\ SuccessorsOf(b) = <<>> => depthIn[b] + effect[b] = Expected
<1>1. depthIn[b] = d[b] /\ d[b] # Unknown
  BY DEF Agrees, Known
<1>2. \A i \in Tokens : home[i] = b => d[i] # Unknown /\ d[i] = d[b] + before[i]
  BY <1>1, ProgramFacts DEF Agrees, Tokens
<1>3. /\ last[b] \in Tokens /\ home[last[b]] = b
      /\ effect[b] = before[last[b]] + program[last[b]].effect
  BY BlockEnd
<1>4. /\ d[last[b]] # Unknown
      /\ d[last[b]] + program[last[b]].effect = depthIn[b] + effect[b]
  <2>1. /\ d[b] \in Int /\ before[last[b]] \in Int /\ program[last[b]].effect \in Int
        /\ d[last[b]] # Unknown /\ d[last[b]] = d[b] + before[last[b]]
    BY <1>2, <1>3, ProgramFacts DEF TypeOK, Known
  <2>2. QED
    BY <1>1, <1>3, <2>1
<1>5. QED
  BY <1>1, <1>2, <1>3, <1>4, TypedToken DEF SuccessorsOf

\* Before anything is known every typing agrees.
LEMMA RigidInit == Init => RigidInv
<1> SUFFICES ASSUME Init PROVE \A d \in [Tokens -> Int] : Agrees(d)
  BY DEF RigidInv
<1>1. 1 .. at - 1 = {}
  BY DEF Init
<1>2. QED
  BY <1>1 DEF Init, Agrees, RejectedByStack, Unknown

\* No step of the passes finds a depth that a typing does not have, nor rejects a
\* program that has one.
LEMMA RigidStep ==
    ASSUME IInv, IInv', RigidInv, [Analyse]_vars
    PROVE  RigidInv'
<1> USE DEF Reject, Continue
<1>1. /\ TypeOK /\ CfgInv /\ WalkInv /\ FlowInv /\ CountInv
      /\ Known \subseteq Blocks
  BY DEF IInv, FlowInv
<1>2. program' = program
  BY DEF Analyse, BuildCFG, AnalyseToken, StartFlow, PopBlock, PushSuccessor, BlockDone,
         CheckFinal, vars
<1> SUFFICES ASSUME ~UndefinedLabel(program), NEW d \in [Tokens -> Int], Typing(program, d)
             PROVE  Agrees(d)'
  BY <1>2 DEF RigidInv, Tokens
<1>3. Agrees(d)
  BY DEF RigidInv
<1>4. CASE BuildCFG
  BY <1>2, <1>3, <1>4 DEF BuildCFG, Agrees, RejectedByStack, Tokens, cfgVars, flowVars
<1>5. CASE AnalyseToken
  <2>1. /\ pass' = "blocks" /\ at \in Tokens /\ at' = at + 1 /\ depthIn' = depthIn
        /\ \A j \in 1 .. at - 1 : home'[j] = home[j] /\ before'[j] = before[j]
    <3>0. /\ pass' = "blocks" /\ at <= Len(program) /\ at' = at + 1 /\ depthIn' = depthIn
          /\ \E b, e : home' = [home EXCEPT ![at] = b] /\ before' = [before EXCEPT ![at] = e]
      BY <1>5 DEF AnalyseToken, flowVars
    <3>1. at \in Tokens
      BY <1>1, <3>0, ProgramFacts DEF TypeOK, Tokens
    <3>2. home \in [Tokens -> Tokens] /\ before \in [Tokens -> Int]
              /\ \A j \in 1 .. at - 1 : j \in Tokens /\ j # at
      BY <1>1, <3>1 DEF TypeOK, Tokens
    <3>3. QED
      BY <3>0, <3>1, <3>2
  <2>2. \A j \in {at} : InBlock(j)'
    <3>1. WalkData' /\ at' - 1 = at /\ at \in 1 .. at
      BY <2>1 DEF IInv, WalkInv, Tokens
    <3>2. \A j \in 1 .. at : InBlock(j)'
      BY <3>1 DEF WalkData
    <3>3. QED
      BY <3>1, <3>2
  <2>3. d[home'[at]] # Unknown => d[at] # Unknown /\ d[at] = d[home'[at]] + before'[at]
    <3> SUFFICES ASSUME d[home'[at]] # Unknown
                 PROVE  d[at] # Unknown /\ d[at] = d[home'[at]] + before'[at]
      OBVIOUS
    <3>1. CASE IsStart(program, at)
      <4>1. home'[at] = at /\ before'[at] = 0
        BY <1>2, <2>2, <3>1 DEF InBlock
      <4>2. QED
        BY <2>1, <4>1
    <3>2. CASE ~IsStart(program, at)
      <4> DEFINE i == at - 1
      <4>1. i \in 1 .. at - 1 /\ i \in Tokens /\ i < Len(program) /\ i + 1 = at
        BY <1>1, <2>1, <3>2, ProgramFacts DEF IsStart, Tokens
      <4>2. home'[at] = home[i] /\ before'[at] = before[i] + program[i].effect
        BY <1>2, <2>1, <2>2, <3>2, <4>1 DEF InBlock
      <4>3. d[i] # Unknown /\ d[i] = d[home[i]] + before[i]
        BY <1>3, <4>1, <4>2 DEF Agrees
      <4>4. Successors(program, i) = <<at>>
        BY <1>1, <3>2, <4>1, InsideABlock, ProgramFacts DEF Tokens
      <4>5. d[at] = d[i] + program[i].effect /\ d[at] \in Nat
        BY <1>1, <4>1, <4>3, <4>4, TypedToken
      <4>6. before[i] \in Int /\ program[i].effect \in Int /\ d[home[i]] \in Int
        BY <1>1, <4>1, ProgramFacts DEF TypeOK
      <4>7. QED
        BY <4>2, <4>3, <4>5, <4>6 DEF Unknown
    <3>3. QED
      BY <3>1, <3>2
  <2>4. \A j \in 1 .. at : d[home'[j]] # Unknown =>
              d[j] # Unknown /\ d[j] = d[home'[j]] + before'[j]
    BY <1>3, <2>1, <2>3 DEF Agrees, Tokens
  <2>5. (1 .. at - 1)' = 1 .. at /\ Tokens' = Tokens /\ ~RejectedByStack'
    BY <1>2, <2>1 DEF Tokens, RejectedByStack
  <2>6. QED
    BY <1>3, <2>1, <2>4, <2>5 DEF Agrees
<1>6. CASE StartFlow
  <2>1. d[1] = 0 \/ Len(program) = 0
    <3>1. program = <<>> => Len(program) = 0
      OBVIOUS
    <3>2. QED
      BY <3>1 DEF Typing
  <2>2. /\ pass' = "pop" /\ UNCHANGED <<at, home, before>>
        /\ depthIn' = depthIn \/ (Len(program) # 0 /\ depthIn' = [depthIn EXCEPT ![1] = 0])
    BY <1>6 DEF StartFlow, cfgVars
  <2>3. \A b \in Tokens : depthIn'[b] # Unknown => depthIn'[b] = d[b]
    BY <1>1, <1>3, <2>1, <2>2 DEF Agrees, TypeOK
  <2>4. QED
    BY <1>2, <1>3, <2>2, <2>3 DEF Agrees, RejectedByStack, Tokens
<1>7. CASE PopBlock
  <2> DEFINE top == worklist[Len(worklist)]
  <2>1. /\ pass = "pop" /\ worklist # <<>> /\ UNCHANGED <<cfgVars, depthIn>>
        /\ reason' = "heuristic" \/ depthIn[top] < need[top] \/ pass' = "push"
    BY <1>7 DEF PopBlock
  <2>2. top \in Known /\ at = Len(program) + 1
    <3>1. Len(worklist) \in 1 .. Len(worklist)
      BY <1>1, <2>1, RestOfWorklist
    <3>2. QED
      BY <1>1, <2>1, <3>1 DEF FlowInv, WalkInv, WalkStage, Flowing
  <2> HIDE DEF top
  <2>3. ~(depthIn[top] < need[top])
    <3> SUFFICES ASSUME depthIn[top] < need[top] PROVE FALSE
      OBVIOUS
    <3>1. /\ depthIn[top] = d[top] /\ d[top] # Unknown /\ top \in Tokens
          /\ \A i \in Tokens : home[i] = top => d[i] # Unknown /\ d[i] = d[top] + before[i]
      BY <1>1, <1>3, <2>2, TypedBlock DEF Known
    <3>2. d[top] \in Nat /\ need[top] \in Nat
      <4>1. d[top] >= program[top].arity /\ program[top].arity \in Nat /\ d[top] \in Int
        BY <1>1, <3>1, TypedToken, ProgramFacts
      <4>2. QED
        BY <1>1, <3>1, <4>1 DEF TypeOK
    <3>3. PICK i \in Tokens : home[i] = top /\ need[top] = program[i].arity - before[i]
      <4>1. need[top] # 0 /\ 1 .. at - 1 = Tokens
        BY <1>1, <2>2, <3>1, <3>2, ProgramFacts DEF Tokens
      <4>2. QED
        BY <1>1, <3>1, <4>1 DEF WalkInv, WalkData
    <3>4. d[i] >= program[i].arity /\ d[i] = d[top] + before[i]
      BY <1>1, <3>1, <3>3, TypedToken
    <3>5. before[i] \in Int /\ program[i].arity \in Nat
      BY <1>1, <3>3, ProgramFacts DEF TypeOK
    <3>6. QED
      BY <3>1, <3>2, <3>3, <3>4, <3>5
  <2>4. reason' # "heuristic"
    BY DEF IInv, CountInv
  <2>5. pass' = "push"
    BY <2>1, <2>3, <2>4
  <2>6. QED
    BY <1>2, <1>3, <2>1, <2>5 DEF Agrees, RejectedByStack, Tokens, cfgVars
<1>8. CASE PushSuccessor
  <2> DEFINE s == SuccessorsOf(block)[next]
             out == depthIn[block] + effect[block]
  <2>1. /\ pass = "push" /\ next <= Len(SuccessorsOf(block)) /\ UNCHANGED cfgVars
        /\ \/ /\ depthIn[s] = Unknown /\ depthIn' = [depthIn EXCEPT ![s] = out]
              /\ pass' = pass
           \/ /\ depthIn[s] # Unknown /\ depthIn' = depthIn
              /\ (depthIn[s] # out \/ pass' = pass)
    BY <1>8 DEF PushSuccessor, SuccessorsOf
  <2>2. block \in Known /\ at = Len(program) + 1
    BY <1>1, <2>1 DEF FlowInv, WalkInv, WalkStage, Flowing
  <2>3. s \in Tokens /\ next \in 1 .. Len(SuccessorsOf(block))
    <3>1. SuccessorsOf(block) \in Seq(Tokens)
      BY <1>1, <2>1, <2>2, SuccessorsAreBlocks DEF Flowing
    <3>2. QED
      BY <1>1, <2>1, <3>1 DEF TypeOK
  <2>4. d[s] = out
    BY <1>1, <1>3, <2>2, <2>3, TypedBlock
  <2> HIDE DEF s, out
  <2>5. pass' = pass
    BY <1>3, <2>1, <2>3, <2>4 DEF Agrees
  <2>6. \A b \in Tokens : depthIn'[b] # Unknown => depthIn'[b] = d[b]
    BY <1>1, <1>3, <2>1, <2>3, <2>4 DEF Agrees, TypeOK
  <2>7. QED
    BY <1>2, <1>3, <2>1, <2>5, <2>6 DEF Agrees, RejectedByStack, Tokens, cfgVars
<1>9. CASE BlockDone
  BY <1>2, <1>3, <1>9 DEF BlockDone, Agrees, RejectedByStack, Tokens, cfgVars, flowVars
<1>10. CASE CheckFinal
  <2>1. /\ pass = "pop" /\ UNCHANGED <<cfgVars, flowVars>>
        /\ pass' = "rejected" => \E b \in Blocks : ~Balanced(b)
    BY <1>10 DEF CheckFinal
  <2>2. at = Len(program) + 1
    BY <1>1, <2>1 DEF WalkInv, WalkStage, Flowing
  <2>3. \A b \in Blocks : Balanced(b)
    <3> SUFFICES ASSUME NEW b \in Blocks, depthIn[b] # Unknown, SuccessorsOf(b) = <<>>
                 PROVE  depthIn[b] + effect[b] = Expected
      BY DEF Balanced, SuccessorsOf
    <3>1. b \in Known
      BY DEF Known, Blocks
    <3>2. QED
      BY <1>1, <1>3, <2>2, <3>1, TypedBlock
  <2>4. QED
    BY <1>2, <1>3, <2>1, <2>3 DEF Agrees, RejectedByStack, Tokens, cfgVars, flowVars
<1>11. CASE UNCHANGED vars
  BY <1>3, <1>11 DEF vars, Agrees, RejectedByStack, Tokens
<1>12. QED
  BY <1>4, <1>5, <1>6, <1>7, <1>8, <1>9, <1>10, <1>11 DEF Analyse

\* A typing that exists agrees with every state of the passes.
THEOREM TypingsAgree == Spec => []RigidInv
<1>1. Init => RigidInv
  BY RigidInit
<1>2. RigidInv /\ IInv /\ IInv' /\ [Analyse]_vars => RigidInv'
  BY RigidStep
<1>3. QED
  BY <1>1, <1>2, Inductive, PTL DEF Spec

-------------------------------------------------------------------------------

\* The variables keep their types, for all programs.
THEOREM TypeCorrect == Spec => []TypeOK
<1>1. IInv => TypeOK
  BY DEF IInv
<1>2. QED
  BY <1>1, Inductive, PTL

\* What the passes found is a typing of an accepted program.
LEMMA AcceptedTyping ==
    ASSUME IInv, pass = "accepted"
    PROVE  Typing(program, FoundDepth)
<1>1. /\ TypeOK /\ CfgInv /\ WalkInv /\ FlowInv /\ at = Len(program) + 1
      /\ Known \subseteq Blocks /\ \A b \in Blocks : Balanced(b)
  BY DEF IInv, WalkInv, WalkStage, FlowInv, BalancedInv, Flowing
<1>2. \A b \in Known : Served(b, Len(SuccessorsOf(b)))
  BY <1>1 DEF IInv, FlowInv, BalancedInv, Waiting, Flowing
<1>3. Len(program) > 0 => FoundDepth[1] = 0
  <2> SUFFICES ASSUME Len(program) > 0 PROVE FoundDepth[1] = 0
    OBVIOUS
  <2>1. 1 \in Tokens /\ IsStart(program, 1)
    BY ProgramFacts, <1>1 DEF Tokens, IsStart
  <2>2. home[1] = 1 /\ before[1] = 0 /\ depthIn[1] = 0
    BY <1>1, <2>1, TokenFacts DEF InBlock, FlowInv, Flowing
  <2>3. QED
    BY <2>1, <2>2 DEF FoundDepth, Unknown
<1>4. ASSUME NEW i \in Tokens, FoundDepth[i] # Unknown
      PROVE  /\ FoundDepth[i] >= program[i].arity
             /\ \A k \in 1 .. Len(Successors(program, i)) :
                   FoundDepth[Successors(program, i)[k]] = FoundDepth[i] + program[i].effect
             /\ Successors(program, i) = <<>> =>
                   FoundDepth[i] + program[i].effect = Expected
  <2> DEFINE b == home[i]
             left == FoundDepth[i] + program[i].effect
  <2>1. /\ InBlock(i) /\ b \in Blocks /\ b \in Tokens
        /\ need[b] >= program[i].arity - before[i]
        /\ i = Len(program) \/ IsStart(program, i + 1) =>
              last[b] = i /\ effect[b] = before[i] + program[i].effect
    BY <1>1, TokenFacts DEF Blocks
  <2>2. b \in Known /\ FoundDepth[i] = depthIn[b] + before[i]
    BY <1>4, <2>1 DEF FoundDepth, Known
  <2>3. /\ depthIn[b] \in Int /\ need[b] \in Nat /\ before[i] \in Int
        /\ program[i].arity \in Nat /\ program[i].effect \in Int
        /\ program[i].arity + program[i].effect >= 0 /\ need[b] <= depthIn[b]
    BY <1>1, <1>2, <2>1, <2>2, ProgramFacts DEF TypeOK, Served
  <2> HIDE DEF b
  <2>4. FoundDepth[i] >= program[i].arity /\ left \in Nat
    BY <2>1, <2>2, <2>3
  <2>5. CASE i = Len(program) \/ IsStart(program, i + 1)
    <3>1. SuccessorsOf(b) = Successors(program, i) /\ depthIn[b] + effect[b] = left
      BY <2>1, <2>2, <2>3, <2>5 DEF SuccessorsOf
    <3>2. \A k \in 1 .. Len(SuccessorsOf(b)) :
             SuccessorsOf(b)[k] \in Blocks /\ depthIn[SuccessorsOf(b)[k]] = left
      BY <1>1, <1>2, <2>1, <2>2, <3>1, SuccessorsAreBlocks DEF Served, Flowing
    <3>3. \A c \in Blocks : depthIn[c] = left => FoundDepth[c] = left
      <4> SUFFICES ASSUME NEW c \in Blocks, depthIn[c] = left PROVE FoundDepth[c] = left
        OBVIOUS
      <4>1. c \in Tokens /\ IsStart(program, c)
        BY DEF Blocks
      <4>2. home[c] = c /\ before[c] = 0
        BY <1>1, <4>1, TokenFacts DEF InBlock
      <4> HIDE DEF left
      <4>3. QED
        BY <2>4, <4>1, <4>2 DEF FoundDepth, Unknown
    <3>4. SuccessorsOf(b) = <<>> => left = Expected
      BY <1>1, <2>1, <2>2, <3>1 DEF Balanced, SuccessorsOf, Known
    <3>5. QED
      BY <2>4, <3>1, <3>2, <3>3, <3>4
  <2>6. CASE i # Len(program) /\ ~IsStart(program, i + 1)
    <3>1. i < Len(program) /\ i + 1 \in Tokens
      BY <1>1, <2>6, ProgramFacts DEF Tokens
    <3>2. Successors(program, i) = <<i + 1>>
      BY <1>1, <2>6, <3>1, InsideABlock, ProgramFacts DEF Tokens
    <3>3. home[i + 1] = b /\ before[i + 1] = before[i] + program[i].effect
      <4>1. \A j \in Tokens : ~IsStart(program, j) =>
               home[j] = home[j - 1] /\ before[j] = before[j - 1] + program[j - 1].effect
        BY <1>1, TokenFacts DEF InBlock
      <4>2. \A j, m \in Tokens : j - 1 = m /\ ~IsStart(program, j) =>
               home[j] = home[m] /\ before[j] = before[m] + program[m].effect
        BY <4>1
      <4>3. (i + 1) - 1 = i
        BY <3>1 DEF Tokens
      <4>4. QED
        BY <2>6, <3>1, <4>2, <4>3 DEF b
    <3>4. FoundDepth[i + 1] = left
      BY <2>2, <2>3, <3>1, <3>3 DEF FoundDepth, Known
    <3> HIDE DEF left
    <3>5. QED
      BY <2>4, <3>2, <3>4 DEF left
  <2>7. QED
    BY <2>5, <2>6
<1>5. IF program = <<>> THEN Expected = 0 ELSE FoundDepth[1] = 0
  <2>1. program # <<>> => Len(program) > 0
    BY <1>1, ProgramFacts
  <2>2. program = <<>> => Expected = 0
    BY <1>1 DEF CfgInv
  <2>3. QED
    BY <1>3, <2>1, <2>2
<1>6. QED
  BY <1>4, <1>5 DEF Typing, Tokens
\* An accepted program can be executed from its first token to any end without an
\* underflow, and ends with the expected depth (StackSafetyPass is sound).
THEOREM Soundness == Spec => []AcceptedIsTyped
<1>1. IInv => AcceptedIsTyped
  BY AcceptedTyping DEF AcceptedIsTyped
<1> QED
  BY <1>1, Inductive, PTL

\* A program that has a typing, with depths of any size, is not rejected for its
\* stack (StackSafetyPass is complete).
THEOREM Completeness == Spec => []TypedIsAccepted
<1>1. ASSUME IInv, RigidInv, RejectedByStack,
             NEW d \in [Tokens -> Unknown .. Len(program)], Typing(program, d)
      PROVE  FALSE
  <2>1. ~UndefinedLabel(program)
    BY <1>1 DEF IInv, CfgInv, RejectedByStack
  <2>2. d \in [Tokens -> Int]
    BY <1>1, ProgramFacts DEF IInv, Unknown
  <2>3. QED
    BY <1>1, <2>1, <2>2 DEF RigidInv, Agrees
<1>2. IInv /\ RigidInv => TypedIsAccepted
  BY <1>1 DEF TypedIsAccepted
<1>3. QED
  BY <1>2, Inductive, TypingsAgree, PTL

\* No block is processed twice, so the limit of the loop never rejects a program.
THEOREM LimitNeverStrikes == Spec => []HeuristicSilent
<1>1. IInv => HeuristicSilent
  BY DEF IInv, CountInv, HeuristicSilent
<1>2. QED
  BY <1>1, Inductive, PTL

-------------------------------------------------------------------------------
(* The generated code *)

Values == Nat \X Nat \X {0, 1}

\* The values a sequence of names has.
Along(values, names) == [j \in 1 .. Len(names) |-> values[names[j]]]

EndsInJump == program[Len(program)].kind = "jump"
Merges(b) == Cardinality(EdgesInto(b)) > 1
PhiNames(b) == [j \in 1 .. depthIn[b] |-> <<"phi", b, j>>]

\* Where the stack slot j after token i comes from: a slot of the n before it, or a result.
Kept(i, n, j) == program[i].kind \in {"dup", "swap"} \/ j <= n - program[i].arity
Origin(i, n, j) ==
    LET deep == n - program[i].arity + 1
    IN  CASE program[i].kind = "dup" /\ j = n + 1 -> deep
          [] program[i].kind = "swap" /\ j = deep -> n
          [] program[i].kind = "swap" /\ j = n -> deep
          [] OTHER -> j

-------------------------------------------------------------------------------
(* Sequences of names and of values *)

\* What is known of a token.
LEMMA TokenShape ==
    ASSUME TypeOK, NEW i \in Tokens
    PROVE  /\ program[i].arity \in Nat /\ program[i].effect \in Int
           /\ program[i].arity + program[i].effect \in Nat /\ program[i].effect <= 1
           /\ program[i].kind \in {"op", "dup", "swap", "label", "jump"}
           /\ program[i].kind = "dup" => program[i].arity > 0 /\ program[i].effect = 1
           /\ program[i].kind = "swap" => program[i].arity > 0 /\ program[i].effect = 0
           /\ program[i].kind = "label" => program[i].arity = 0 /\ program[i].effect = 0
           /\ program[i].kind = "jump" => program[i].arity = 1 /\ program[i].effect = -1
<1>1. /\ program[i] \in Token /\ program[i].arity \in Nat /\ program[i].effect \in Int
      /\ program[i].arity + program[i].effect >= 0
  BY ProgramFacts
<1>2. program \in Programs /\ i \in 1 .. Len(program)
  BY DEF TypeOK, Tokens
<1>3. /\ program[i].effect <= 1
      /\ program[i].kind = "dup" => program[i].arity > 0 /\ program[i].effect = 1
      /\ program[i].kind = "swap" => program[i].arity > 0 /\ program[i].effect = 0
      /\ program[i].kind = "label" => program[i].arity = 0 /\ program[i].effect = 0
      /\ program[i].kind = "jump" => program[i].arity = 1 /\ program[i].effect = -1
  BY <1>2, TokensAssumption
<1>4. program[i].kind \in {"op", "dup", "swap", "label", "jump"}
  BY <1>1 DEF Token
<1> QED
  BY <1>1, <1>3, <1>4

\* Two sequences are the same if they have the same elements.
LEMMA SameElements ==
    ASSUME NEW S, NEW s \in Seq(S), NEW t \in Seq(S), Len(s) = Len(t),
           \A j \in 1 .. Len(s) : s[j] = t[j]
    PROVE  s = t
BY SeqEqual

\* The values of a sequence of names are a sequence.
LEMMA AlongIsSeq ==
    ASSUME NEW v \in [Names -> Values], NEW s \in Seq(Names)
    PROVE  /\ Along(v, s) \in Seq(Values) /\ Len(Along(v, s)) = Len(s)
           /\ \A j \in 1 .. Len(s) : Along(v, s)[j] = v[s[j]]
<1>1. Len(s) \in Nat /\ \A j \in 1 .. Len(s) : s[j] \in Names
  OBVIOUS
<1>2. Along(v, s) \in [1 .. Len(s) -> Values]
  BY <1>1 DEF Along
<1> QED
  BY <1>1, <1>2 DEF Along

\* The stack after a token, slot by slot.
LEMMA ApplyElements ==
    ASSUME TypeOK, NEW i \in Tokens, NEW S, NEW s \in Seq(S), Len(s) >= program[i].arity,
           NEW r \in [Results(program[i]) -> S]
    PROVE  /\ Apply(i, s, r) \in Seq(S)
           /\ Len(Apply(i, s, r)) = Len(s) + program[i].effect
           /\ \A j \in 1 .. Len(s) + program[i].effect :
                 IF Kept(i, Len(s), j)
                 THEN /\ Origin(i, Len(s), j) \in 1 .. Len(s)
                      /\ Apply(i, s, r)[j] = s[Origin(i, Len(s), j)]
                 ELSE /\ j - (Len(s) - program[i].arity) \in Results(program[i])
                      /\ Apply(i, s, r)[j] = r[j - (Len(s) - program[i].arity)]
<1> DEFINE n == Len(s)
           a == program[i].arity
           e == program[i].effect
           deep == n - a + 1
<1>0. /\ n \in Nat /\ a \in Nat /\ e \in Int /\ a + e \in Nat /\ n - a \in 0 .. n
      /\ program[i].kind = "dup" => a > 0 /\ e = 1
      /\ program[i].kind = "swap" => a > 0 /\ e = 0
  BY TokenShape
<1>1. CASE program[i].kind = "dup"
  <2>1. Apply(i, s, r) = Append(s, s[deep])
    BY <1>1 DEF Apply
  <2>2. deep \in 1 .. n /\ s[deep] \in S
    BY <1>0, <1>1
  <2>3. Append(s, s[deep]) \in Seq(S) /\ Len(Append(s, s[deep])) = n + e
           /\ \A j \in 1 .. n + 1 : Append(s, s[deep])[j] = IF j = n + 1 THEN s[deep] ELSE s[j]
    BY <1>0, <1>1, <2>2
  <2> QED
    BY <1>0, <1>1, <2>1, <2>2, <2>3 DEF Kept, Origin
<1>2. CASE program[i].kind = "swap"
  <2> DEFINE t == [s EXCEPT ![deep] = s[n]]
             u == [t EXCEPT ![n] = s[deep]]
  <2>1. deep \in 1 .. n /\ n \in 1 .. n /\ s[n] \in S /\ s[deep] \in S
    BY <1>0, <1>2
  <2>2. t \in Seq(S) /\ Len(t) = n /\ \A j \in 1 .. n : t[j] = IF j = deep THEN s[n] ELSE s[j]
    BY <2>1, ExceptSeq
  <2>3. u \in Seq(S) /\ Len(u) = n /\ \A j \in 1 .. n : u[j] = IF j = n THEN s[deep] ELSE t[j]
    <3> HIDE DEF t
    <3> QED
      BY <2>1, <2>2, ExceptSeq
  <2>4. Apply(i, s, r) = u
    BY <1>2 DEF Apply
  <2>5. \A j \in 1 .. n : Origin(i, n, j) \in 1 .. n /\ u[j] = s[Origin(i, n, j)]
    <3> HIDE DEF u, t
    <3> QED
      BY <1>0, <1>2, <2>1, <2>2, <2>3 DEF Origin
  <2> HIDE DEF u
  <2> QED
    BY <1>0, <1>2, <2>3, <2>4, <2>5 DEF Kept
<1>3. CASE program[i].kind \notin {"dup", "swap"}
  <2> DEFINE u == SubSeq(s, 1, n - a)
             t == u \o r
  <2>1. Apply(i, s, r) = t
    BY <1>3 DEF Apply
  <2>2. u \in Seq(S) /\ Len(u) = n - a /\ \A j \in 1 .. n - a : u[j] = s[j]
    BY <1>0
  <2>3. r \in Seq(S) /\ Len(r) = a + e
    BY <1>0 DEF Results
  <2>4. /\ t \in Seq(S) /\ Len(t) = Len(u) + Len(r)
        /\ \A j \in 1 .. Len(u) + Len(r) : t[j] = IF j <= Len(u) THEN u[j] ELSE r[j - Len(u)]
    <3> HIDE DEF u
    <3> QED
      BY <2>2, <2>3, ConcatProperties
  <2> HIDE DEF t, u
  <2>5. Len(t) = n + e /\ \A j \in 1 .. n + e : t[j] = IF j <= n - a THEN s[j] ELSE r[j - (n - a)]
    <3> HIDE DEF n, a, e
    <3>1. \A j \in 1 .. n + e : j \in 1 .. Len(u) + Len(r)
      BY <1>0, <2>2, <2>3
    <3>2. \A j \in 1 .. n + e : j <= n - a => j \in 1 .. n - a
      BY <1>0
    <3> QED
      BY <1>0, <2>2, <2>3, <2>4, <3>1, <3>2
  <2>6. \A j \in 1 .. n + e : IF j <= n - a THEN j \in 1 .. n ELSE j - (n - a) \in Results(program[i])
    <3>1. Results(program[i]) = 1 .. a + e
      BY DEF Results
    <3> HIDE DEF n, a, e
    <3> QED
      BY <1>0, <3>1
  <2>7. \A j \in 1 .. n + e : Origin(i, n, j) = j /\ (Kept(i, n, j) <=> j <= n - a)
    BY <1>3 DEF Origin, Kept
  <2> QED
    BY <2>1, <2>4, <2>5, <2>6, <2>7
<1> QED
  BY <1>1, <1>2, <1>3

\* What is written in a name.
LEMMA NameFacts ==
    ASSUME TypeOK
    PROVE  /\ \A i \in Tokens : \A k \in Results(program[i]) : <<"op", i, k>> \in Names
           /\ \A b \in Tokens : \A j \in 1 .. Len(program) : <<"phi", b, j>> \in Names
           /\ \A x \in Names : \/ \E i \in Tokens : \E k \in Results(program[i]) : x = <<"op", i, k>>
                               \/ \E b \in Tokens : \E j \in 1 .. Len(program) : x = <<"phi", b, j>>
<1> DEFINE results == UNION {{<<"op", i, k>> : k \in Results(program[i])} : i \in Tokens}
           slots == {<<"phi", b, j>> : b \in Tokens, j \in 1 .. Len(program)}
<1>1. Names = results \cup slots
  BY DEF Names
<1>2. \A x : x \in results <=> \E i \in Tokens : \E k \in Results(program[i]) : x = <<"op", i, k>>
  OBVIOUS
<1>3. \A x : x \in slots <=> \E b \in Tokens : \E j \in 1 .. Len(program) : x = <<"phi", b, j>>
  OBVIOUS
<1> HIDE DEF results, slots
<1> QED
  BY <1>1, <1>2, <1>3, Zenon

\* A name that is older than token i.
Older(x, i) == x[1] = "op" => x[2] < i
OlderThan(s, i) == \A j \in 1 .. Len(s) : Older(s[j], i)

\* A token emits what it applies; only a jump at the end of the program pops nothing.
LEMMA EmitIsApply ==
    ASSUME TypeOK, NEW i \in Tokens, i = Len(program) => program[i].kind # "jump",
           NEW s \in Seq(Names), Len(s) >= program[i].arity
    PROVE  Emit(i, s) = Apply(i, s, NewNames(i))
<1>0. NewNames(i) \in [Results(program[i]) -> Names]
  BY NameFacts DEF NewNames
<1>1. CASE program[i].kind \notin {"label", "jump"}
  BY <1>1 DEF Emit
<1>2. CASE program[i].kind \in {"label", "jump"}
  <2> DEFINE n == Len(s)
             a == program[i].arity
             t == Apply(i, s, NewNames(i))
  <2>1. /\ n \in Nat /\ a \in {0, 1} /\ program[i].effect = -a
        /\ program[i].kind = "label" => a = 0
        /\ program[i].kind = "jump" => a = 1
    BY <1>2, TokenShape
  <2>2. Results(program[i]) = {}
    BY <2>1 DEF Results
  <2>3. /\ t \in Seq(Names) /\ Len(t) = n + program[i].effect
        /\ \A j \in 1 .. n + program[i].effect :
              Kept(i, n, j) => t[j] = s[Origin(i, n, j)]
        /\ \A j \in 1 .. n + program[i].effect : Kept(i, n, j)
    <3>1. /\ t \in Seq(Names) /\ Len(t) = n + program[i].effect
          /\ \A j \in 1 .. n + program[i].effect :
                 IF Kept(i, n, j) THEN t[j] = s[Origin(i, n, j)]
                                  ELSE j - (n - a) \in Results(program[i])
      BY <1>0, ApplyElements
    <3> HIDE DEF t
    <3> QED
      BY <2>2, <3>1
  <2>4. \A j \in 1 .. n - a : t[j] = s[j]
    <3>1. \A j : Origin(i, n, j) = j
      BY <1>2 DEF Origin
    <3> HIDE DEF t, n, a
    <3> QED
      BY <2>1, <2>3, <3>1
  <2>5. Len(t) = n - a
    <3> HIDE DEF t, n, a
    <3> QED
      BY <2>1, <2>3
  <2>6. CASE program[i].kind = "label"
    <3>1. Emit(i, s) = s
      BY <2>6 DEF Emit
    <3>2. t = s
      <4> HIDE DEF t
      <4>1. Len(t) = Len(s) /\ \A j \in 1 .. Len(t) : t[j] = s[j]
        BY <2>1, <2>4, <2>5, <2>6
      <4> QED
        BY <2>3, <4>1, SameElements
    <3> QED
      BY <3>1, <3>2
  <2>7. CASE program[i].kind = "jump"
    <3>1. i < Len(program) /\ Len(Successors(program, i)) = 2
      BY <2>7, ProgramFacts DEF Tokens, Successors
    <3>2. Emit(i, s) = SubSeq(s, 1, n - 1)
      BY <2>7, <3>1 DEF Emit
    <3>3. /\ SubSeq(s, 1, n - 1) \in Seq(Names) /\ Len(SubSeq(s, 1, n - 1)) = n - 1
          /\ \A j \in 1 .. n - 1 : SubSeq(s, 1, n - 1)[j] = s[j]
      <4>1. n \in Nat \ {0} /\ s \in [1 .. n -> Names]
        BY <2>1, <2>7
      <4>2. 1 \in Int /\ n - 1 \in Int /\ \A j \in 1 .. n - 1 : s[j] \in Names
        BY <4>1
      <4>3. /\ SubSeq(s, 1, n - 1) \in Seq(Names)
            /\ Len(SubSeq(s, 1, n - 1)) = IF 1 <= n - 1 THEN n - 1 - 1 + 1 ELSE 0
            /\ \A j \in 1 .. n - 1 - 1 + 1 : SubSeq(s, 1, n - 1)[j] = s[1 + j - 1]
        <5> HIDE DEF n
        <5> QED
          BY <4>2, SubSeqProperties
      <4> HIDE DEF n
      <4> QED
        BY <4>1, <4>3
    <3>4. t = SubSeq(s, 1, n - 1)
      <4> DEFINE u == SubSeq(s, 1, n - 1)
      <4>1. u \in Seq(Names) /\ Len(t) = Len(u) /\ \A j \in 1 .. Len(t) : t[j] = u[j]
        <5> HIDE DEF t
        <5> QED
          BY <2>1, <2>4, <2>5, <2>7, <3>3
      <4> HIDE DEF t, u
      <4>2. t = u
        BY <2>3, <4>1, SameElements
      <4> QED
        BY <4>2 DEF u
    <3> QED
      BY <3>2, <3>4
  <2> QED
    BY <1>2, <2>6, <2>7
<1> QED
  BY <1>1, <1>2

\* The names a token leaves: as many as the token's effect says, and not younger than it.
LEMMA EmitNames ==
    ASSUME TypeOK, NEW i \in Tokens, NEW s \in Seq(Names), Len(s) >= program[i].arity, OlderThan(s, i)
    PROVE  /\ Emit(i, s) \in Seq(Names) /\ OlderThan(Emit(i, s), i + 1)
           /\ i = Len(program) /\ program[i].kind = "jump" => Emit(i, s) = s
           /\ ~(i = Len(program) /\ program[i].kind = "jump") =>
                 Len(Emit(i, s)) = Len(s) + program[i].effect
<1>0. i \in Nat /\ \A x \in Names : Older(x, i) => Older(x, i + 1)
  BY NameFacts, ProgramFacts DEF Tokens, Older
<1>1. CASE i = Len(program) /\ program[i].kind = "jump"
  <2>1. Len(Successors(program, i)) = 1
    BY <1>1, ProgramFacts DEF Successors
  <2>2. Emit(i, s) = s
    BY <1>1, <2>1 DEF Emit
  <2> QED
    BY <1>0, <1>1, <2>2 DEF OlderThan
<1>2. CASE ~(i = Len(program) /\ program[i].kind = "jump")
  <2> DEFINE t == Apply(i, s, NewNames(i))
             n == Len(s) - program[i].arity
  <2>1. NewNames(i) \in [Results(program[i]) -> Names]
    BY NameFacts DEF NewNames
  <2>2. /\ t \in Seq(Names) /\ Len(t) = Len(s) + program[i].effect
        /\ \A j \in 1 .. Len(s) + program[i].effect :
              \/ Origin(i, Len(s), j) \in 1 .. Len(s) /\ t[j] = s[Origin(i, Len(s), j)]
              \/ j - n \in Results(program[i]) /\ t[j] = NewNames(i)[j - n]
    BY <2>1, ApplyElements
  <2>3. \A k \in Results(program[i]) : Older(NewNames(i)[k], i + 1)
    BY <1>0 DEF NewNames, Older
  <2>4. \A k \in 1 .. Len(s) : s[k] \in Names /\ Older(s[k], i + 1)
    BY <1>0 DEF OlderThan
  <2> HIDE DEF t
  <2>5. OlderThan(t, i + 1)
    BY <2>2, <2>3, <2>4 DEF OlderThan
  <2>6. Emit(i, s) = t
    BY <1>2, EmitIsApply DEF t
  <2> QED
    BY <1>2, <2>2, <2>5, <2>6
<1> QED
  BY <1>1, <1>2

\* A token does the same to the names as to their values.
LEMMA EmitCommutes ==
    ASSUME TypeOK, NEW i \in Tokens, i = Len(program) => program[i].kind # "jump",
           NEW s \in Seq(Names), Len(s) >= program[i].arity,
           NEW v \in [Names -> Values], \A k \in Results(program[i]) : v[<<"op", i, k>>] = NewValues(i)[k]
    PROVE  (IF program[i].kind = "label" THEN Along(v, s) ELSE Apply(i, Along(v, s), NewValues(i)))
               = Along(v, Emit(i, s))
<1> DEFINE w == Along(v, s)
           n == Len(s) - program[i].arity
           m == Len(s) + program[i].effect
           names == Apply(i, s, NewNames(i))
           values == Apply(i, w, NewValues(i))
<1>1. NewNames(i) \in [Results(program[i]) -> Names] /\ NewValues(i) \in [Results(program[i]) -> Values]
  <2>1. \A k \in Results(program[i]) : <<"op", i, k>> \in Names
    BY NameFacts
  <2> QED
    BY <2>1 DEF NewNames, NewValues
<1>2. w \in Seq(Values) /\ Len(w) = Len(s) /\ \A j \in 1 .. Len(s) : w[j] = v[s[j]]
  BY AlongIsSeq
<1>3. /\ names \in Seq(Names) /\ Len(names) = m
      /\ \A j \in 1 .. m : IF Kept(i, Len(s), j)
            THEN Origin(i, Len(s), j) \in 1 .. Len(s) /\ names[j] = s[Origin(i, Len(s), j)]
            ELSE j - n \in Results(program[i]) /\ names[j] = NewNames(i)[j - n]
  BY <1>1, ApplyElements
<1>4. /\ values \in Seq(Values) /\ Len(values) = m
      /\ \A j \in 1 .. m : IF Kept(i, Len(s), j)
            THEN Origin(i, Len(s), j) \in 1 .. Len(s) /\ values[j] = w[Origin(i, Len(s), j)]
            ELSE j - n \in Results(program[i]) /\ values[j] = NewValues(i)[j - n]
  <2>1. Len(w) >= program[i].arity
    BY <1>2
  <2> HIDE DEF w
  <2> QED
    BY <1>1, <1>2, <2>1, ApplyElements
<1>5. \A k \in Results(program[i]) : NewValues(i)[k] = v[NewNames(i)[k]]
  BY DEF NewNames
<1> HIDE DEF w, names, values
<1>6. values = Along(v, names)
  <2>1. /\ Along(v, names) \in Seq(Values) /\ Len(Along(v, names)) = m
        /\ \A j \in 1 .. m : Along(v, names)[j] = v[names[j]]
    BY <1>3, AlongIsSeq
  <2>2. \A j \in 1 .. m : values[j] = v[names[j]]
    <3> SUFFICES ASSUME NEW j \in 1 .. m PROVE values[j] = v[names[j]]
      OBVIOUS
    <3>1. CASE Kept(i, Len(s), j)
      BY <1>2, <1>3, <1>4, <3>1
    <3>2. CASE ~Kept(i, Len(s), j)
      BY <1>3, <1>4, <1>5, <3>2
    <3> QED
      BY <3>1, <3>2
  <2> QED
    BY <1>4, <2>1, <2>2, SameElements
<1>7. Emit(i, s) = names
  BY EmitIsApply DEF names
<1>8. CASE program[i].kind = "label"
  <2>1. Emit(i, s) = s
    BY <1>8 DEF Emit
  <2> QED
    BY <1>8, <2>1
<1> QED
  BY <1>6, <1>7, <1>8 DEF w, values

-------------------------------------------------------------------------------
(* The blocks of an accepted program and their depths *)

\* Where a token lies, and which tokens end their block.
LEMMA Layout ==
    ASSUME IInv, pass = "accepted", NEW i \in Tokens
    PROVE  /\ home[i] \in Blocks /\ home[i] \in Tokens
           /\ last[home[i]] \in Tokens /\ home[last[home[i]]] = home[i]
           /\ IsStart(program, i) => home[i] = i /\ before[i] = 0
           /\ last[home[i]] = i <=> (i = Len(program) \/ IsStart(program, i + 1))
<1>1. TypeOK /\ WalkInv /\ at = Len(program) + 1
  BY DEF IInv, WalkInv, WalkStage, Flowing
<1>2. /\ InBlock(i) /\ home[i] \in Blocks
      /\ i = Len(program) \/ IsStart(program, i + 1) => last[home[i]] = i
  BY <1>1, TokenFacts
<1>3. /\ last[home[i]] \in Tokens /\ home[last[home[i]]] = home[i]
      /\ last[home[i]] = Len(program) \/ IsStart(program, last[home[i]] + 1)
  BY <1>1, <1>2, BlockEnd
<1> QED
  BY <1>2, <1>3 DEF InBlock, Blocks

\* The depth of a block is that of its first token.
LEMMA BlockDepth ==
    ASSUME IInv, pass = "accepted", NEW b \in Blocks
    PROVE  b \in Tokens /\ home[b] = b /\ FoundDepth[b] = depthIn[b]
<1>1. b \in Tokens /\ home[b] = b /\ before[b] = 0
  BY Layout DEF Blocks
<1>2. depthIn[b] \in Int
  BY <1>1 DEF IInv, TypeOK
<1> QED
  BY <1>1, <1>2 DEF FoundDepth

\* The successors of a token are tokens, and blocks after the end of a block; a jump is
\* conditional, so the next token is always one of them.
LEMMA SuccessorFacts ==
    ASSUME IInv, pass = "accepted", NEW i \in Tokens
    PROVE  /\ Successors(program, i) \in Seq(Tokens) /\ Len(Successors(program, i)) <= 2
           /\ \A k \in 1 .. Len(Successors(program, i)) : Successors(program, i)[k] \in Tokens
           /\ last[home[i]] = i =>
                 \A k \in 1 .. Len(Successors(program, i)) : Successors(program, i)[k] \in Blocks
           /\ i + 1 \in Tokens => \E k \in 1 .. Len(Successors(program, i)) : Successors(program, i)[k] = i + 1
<1> DEFINE succs == Successors(program, i)
<1>1. program \in Seq(Token) /\ ~UndefinedLabel(program)
  BY ProgramFacts DEF IInv, CfgInv
<1>2. /\ succs \in Seq(Tokens)
      /\ i = Len(program) \/ IsStart(program, i + 1) => \A k \in 1 .. Len(succs) : IsStart(program, succs[k])
  BY <1>1, SuccessorsAreTokens DEF Tokens
<1>3. Len(succs) <= 2
  BY DEF Successors
<1>4. ASSUME i + 1 \in Tokens PROVE \E k \in 1 .. Len(succs) : succs[k] = i + 1
  <2>1. i < Len(program)
    BY <1>1, <1>4 DEF Tokens
  <2>2. CASE program[i].kind = "jump"
    <3>1. succs = <<TargetOf(program, i), i + 1>>
      BY <2>1, <2>2 DEF Successors
    <3> QED
      BY <3>1
  <2>3. CASE program[i].kind # "jump"
    <3>1. succs = <<i + 1>>
      BY <2>1, <2>3 DEF Successors
    <3> QED
      BY <3>1
  <2> QED
    BY <2>2, <2>3
<1>5. \A k \in 1 .. Len(succs) : succs[k] \in Tokens
  BY <1>2
<1> HIDE DEF succs
<1>6. last[home[i]] = i => \A k \in 1 .. Len(succs) : succs[k] \in Blocks
  BY <1>2, <1>5, Layout DEF Blocks
<1> QED
  BY <1>2, <1>3, <1>4, <1>5, <1>6 DEF succs

\* A token that is reached leaves the depth of every successor.
LEMMA DepthAfter ==
    ASSUME IInv, pass = "accepted", NEW i \in Tokens, FoundDepth[i] \in Nat
    PROVE  /\ FoundDepth[i] >= program[i].arity
           /\ \A k \in 1 .. Len(Successors(program, i)) :
                 FoundDepth[Successors(program, i)[k]] = FoundDepth[i] + program[i].effect
           /\ i + 1 \in Tokens => FoundDepth[i + 1] = FoundDepth[i] + program[i].effect
           /\ Successors(program, i) = <<>> => FoundDepth[i] + program[i].effect = Expected
           /\ FoundDepth[i] + program[i].effect \in 0 .. FoundDepth[i] + 1
<1>1. FoundDepth[i] # Unknown /\ i \in 1 .. Len(program)
  BY DEF Unknown, Tokens
<1>2. /\ FoundDepth[i] >= program[i].arity
      /\ \A k \in 1 .. Len(Successors(program, i)) :
            FoundDepth[Successors(program, i)[k]] = FoundDepth[i] + program[i].effect
      /\ Successors(program, i) = <<>> => FoundDepth[i] + program[i].effect = Expected
  BY <1>1, AcceptedTyping DEF Typing
<1>3. FoundDepth[i] + program[i].effect \in 0 .. FoundDepth[i] + 1
  <2>1. /\ program[i].arity \in Nat /\ program[i].effect \in Int
        /\ program[i].arity + program[i].effect \in Nat /\ program[i].effect <= 1
    BY TokenShape DEF IInv
  <2> QED
    BY <1>2, <2>1
<1> QED
  BY <1>2, <1>3, SuccessorFacts

\* The first token has an empty stack.
LEMMA FirstDepth ==
    ASSUME IInv, pass = "accepted", Len(program) > 0
    PROVE  1 \in Tokens /\ FoundDepth[1] = 0
<1>1. program # <<>> /\ Len(program) \in Nat
  BY ProgramFacts DEF IInv
<1> QED
  BY <1>1, AcceptedTyping DEF Typing, Tokens

-------------------------------------------------------------------------------
(* Edges *)

\* What an edge is, and that there are finitely many.
LEMMA EdgeFacts ==
    ASSUME IInv, pass = "accepted", NEW b \in Blocks
    PROVE  /\ IsFiniteSet(EdgesInto(b))
           /\ \A e \in EdgesInto(b) :
                 /\ e[1] \in Blocks /\ last[e[1]] \in Tokens /\ home[last[e[1]]] = e[1]
                 /\ last[home[last[e[1]]]] = last[e[1]]
                 /\ \E k \in 1 .. Len(Successors(program, last[e[1]])) : Successors(program, last[e[1]])[k] = b
<1>1. IsFiniteSet(Blocks \X {1, 2})
  <2>1. Len(program) \in Nat
    BY ProgramFacts DEF IInv
  <2>2. IsFiniteSet(1 .. Len(program))
    BY <2>1, FS_Interval
  <2>3. IsFiniteSet(Blocks)
    BY <2>2, FS_Subset DEF Blocks, Tokens
  <2>4. IsFiniteSet({1, 2})
    <3>1. {1, 2} = {1} \cup {2}
      OBVIOUS
    <3>2. IsFiniteSet({1})
      BY FS_Singleton, Zenon
    <3>3. IsFiniteSet({1} \cup {2})
      BY <3>2, FS_AddElement, Zenon
    <3> QED
      BY <3>1, <3>3, Zenon
  <2> QED
    BY <2>3, <2>4, FS_Product
<1>2. EdgesInto(b) \in SUBSET (Blocks \X {1, 2})
  BY DEF EdgesInto
<1>3. IsFiniteSet(EdgesInto(b))
  BY <1>1, <1>2, FS_Subset
<1>4. ASSUME NEW e \in EdgesInto(b)
      PROVE  /\ e[1] \in Blocks /\ e[2] \in 1 .. Len(Successors(program, last[e[1]]))
             /\ Successors(program, last[e[1]])[e[2]] = b
  <2>1. e \in Blocks \X {1, 2} /\ e[2] <= Len(Successors(program, last[e[1]]))
        /\ Successors(program, last[e[1]])[e[2]] = b
    BY DEF EdgesInto, Successor
  <2>2. e[1] \in Blocks /\ e[2] \in {1, 2}
    BY <2>1
  <2>3. home[e[1]] = e[1] /\ e[1] \in Tokens
    BY <2>2, BlockDepth
  <2>4. last[e[1]] \in Tokens
    BY <2>3, Layout
  <2>5. Len(Successors(program, last[e[1]])) \in Nat
    BY <2>4, SuccessorFacts
  <2> QED
    BY <2>1, <2>2, <2>5
<1>5. \A c \in Blocks : last[c] \in Tokens /\ home[last[c]] = c
  <2> SUFFICES ASSUME NEW c \in Blocks PROVE last[c] \in Tokens /\ home[last[c]] = c
    OBVIOUS
  <2>1. home[c] = c /\ c \in Tokens
    BY BlockDepth
  <2> QED
    BY <2>1, Layout
<1> QED
  BY <1>3, <1>4, <1>5

\* The end of a block has an edge to each of its successors.
LEMMA EdgeFrom ==
    ASSUME IInv, pass = "accepted", NEW i \in Tokens, last[home[i]] = i,
           NEW k \in 1 .. Len(Successors(program, i))
    PROVE  <<home[i], k>> \in EdgesInto(Successors(program, i)[k])
<1>1. home[i] \in Blocks /\ k \in {1, 2} /\ k <= Len(Successors(program, i))
  BY Layout, SuccessorFacts
<1> QED
  BY <1>1 DEF EdgesInto, Successor

\* A block where edges do not meet is entered from one end only.
LEMMA OnlyEdge ==
    ASSUME IInv, pass = "accepted", NEW b \in Blocks, ~Merges(b), NEW e \in EdgesInto(b)
    PROVE  EdgesInto(b) = {e} /\ Cardinality(EdgesInto(b)) = 1
<1>1. IsFiniteSet(EdgesInto(b))
  BY EdgeFacts
<1>2. Cardinality(EdgesInto(b)) \in Nat /\ Cardinality(EdgesInto(b)) # 0
  BY <1>1, FS_CardinalityType, FS_EmptySet
<1>3. Cardinality(EdgesInto(b)) = 1
  BY <1>2 DEF Merges
<1> QED
  BY <1>1, <1>3, FS_Singleton

\* A block that is not the first is entered from the block before it.
LEMMA EnteredFromBefore ==
    ASSUME IInv, pass = "accepted", NEW b \in Blocks, b # 1
    PROVE  /\ b - 1 \in Tokens /\ last[home[b - 1]] = b - 1
           /\ \E e \in EdgesInto(b) : e[1] = home[b - 1]
<1>1. b \in 1 .. Len(program) /\ IsStart(program, b) /\ Len(program) \in Nat
  BY ProgramFacts DEF Blocks, Tokens, IInv
<1>2. b - 1 \in Tokens /\ (b - 1) + 1 = b /\ b \in Tokens
  BY <1>1 DEF Tokens
<1>3. last[home[b - 1]] = b - 1
  BY <1>1, <1>2, Layout
<1>4. PICK k \in 1 .. Len(Successors(program, b - 1)) : Successors(program, b - 1)[k] = b
  BY <1>2, SuccessorFacts
<1>5. <<home[b - 1], k>> \in EdgesInto(b)
  BY <1>2, <1>3, <1>4, EdgeFrom
<1> QED
  BY <1>2, <1>3, <1>5

-------------------------------------------------------------------------------
(* The invariant *)

GenTypeOK ==
    /\ stage \in {"analyse", "generate", "phis", "run", "done"}
    /\ gen \in 1 .. Len(program) + 1
    /\ rpn \in Seq(Names)
    /\ operands \in [Tokens -> Seq(Names)]
    /\ finals \in [Tokens -> Seq(Names) \cup {NoStack}]
    /\ pc \in 1 .. Len(program) + 1
    /\ gpc \in 1 .. Len(program) + 1
    /\ env \in [Names -> Values]
    /\ parity \in [Tokens -> {0, 1}]

StageInv ==
    /\ stage # "analyse" => pass = "accepted" /\ Len(program) > 0
    /\ stage = "analyse" => gen = 1
    /\ stage = "generate" => gen \in Tokens
    /\ stage \in {"phis", "run", "done"} => gen = Len(program) + 1
    /\ stage \notin {"run", "done"} => pc = 1 /\ gpc = 1 /\ stack = <<>>
    /\ gen = 1 => finals = [b \in Tokens |-> NoStack]

\* The names before token i.
Before(i) ==
    IF i = 1 THEN <<>>
    ELSE IF IsStart(program, i) /\ Merges(i) THEN PhiNames(i)
    ELSE Emit(i - 1, operands[i - 1])

\* The code of token i is generated.
Written(i) ==
    /\ Len(operands[i]) = FoundDepth[i] /\ OlderThan(operands[i], i)
    /\ operands[i] = Before(i)
    /\ last[home[i]] = i => finals[home[i]] = Emit(i, operands[i])

CodeInv ==
    stage # "analyse" =>
        /\ \A i \in Tokens : i <= gen => FoundDepth[i] \in 0 .. i - 1
        /\ \A i \in Tokens : i < gen => Written(i)
        /\ gen > 1 => rpn = Emit(gen - 1, operands[gen - 1])

\* The PHI of block b for slot j takes name x when block c ends.
Entry(b, j, c, x) ==
    /\ b \in Blocks /\ Merges(b) /\ j \in 1 .. depthIn[b]
    /\ \E e \in EdgesInto(b) : e[1] = c
    /\ j <= Len(finals[c]) /\ x = finals[c][j]

PhisInv ==
    stage \in {"run", "done"} =>
        /\ \A b, j, c, x : <<b, j, c, x>> \in incoming <=> Entry(b, j, c, x)
        /\ \A e \in incoming : e = <<e[1], e[2], e[3], e[4]>>

\* The code is where the program is, and its names hold the program's stack.
ExecInv ==
    stage \in {"run", "done"} =>
        /\ ~EndsInJump =>
              /\ gpc = pc
              /\ pc \in Tokens => stack = Along(env, operands[pc])
              /\ pc = Len(program) + 1 => stack = Along(env, Emit(Len(program), operands[Len(program)]))
        /\ EndsInJump => gpc \in Tokens /\ stage # "done"
        /\ stage = "done" => pc = Len(program) + 1

GenInv == IInv /\ GenTypeOK /\ StageInv /\ CodeInv /\ PhisInv /\ ExecInv

LEMMA GenInitInv == GenInit => GenInv
<1> SUFFICES ASSUME GenInit PROVE GenInv
  OBVIOUS
<1>1. IInv
  BY PassesKeep DEF GenInit
<1>2. Len(program) \in Nat
  BY <1>1, ProgramFacts DEF IInv
<1>3. NoValue \in Values /\ <<>> \in Seq(Names)
  BY DEF NoValue, Values
<1>4. GenTypeOK
  BY <1>2, <1>3 DEF GenInit, GenTypeOK
<1>5. StageInv /\ CodeInv /\ PhisInv /\ ExecInv
  BY DEF GenInit, StageInv, CodeInv, PhisInv, ExecInv
<1> QED
  BY <1>1, <1>4, <1>5 DEF GenInv

\* While code is generated and executed the passes do nothing more.
LEMMA PassesOver == pass = "accepted" => ~Analyse
BY DEF Analyse, BuildCFG, AnalyseToken, StartFlow, PopBlock, PushSuccessor, BlockDone, CheckFinal

\* What only depends on the program and the analysis.
LEMMA SameProgram ==
    ASSUME UNCHANGED vars
    PROVE  /\ Tokens' = Tokens /\ Blocks' = Blocks /\ Names' = Names /\ FoundDepth' = FoundDepth
           /\ EndsInJump' = EndsInJump
           /\ \A i, s : Emit(i, s)' = Emit(i, s)
           /\ \A s, i : OlderThan(s, i)' = OlderThan(s, i)
           /\ \A b : EdgesInto(b)' = EdgesInto(b) /\ Merges(b)' = Merges(b) /\ PhiNames(b)' = PhiNames(b)
BY DEF vars, Tokens, Blocks, Names, Results, FoundDepth, EndsInJump, Emit, Apply, NewNames, OlderThan, Older,
       EdgesInto, Successor, Merges, PhiNames

\* The code already generated is not touched by a step that leaves its names alone.
LEMMA WrittenKept ==
    ASSUME IInv, pass = "accepted", UNCHANGED vars, NEW i \in Tokens, Written(i),
           operands'[i] = operands[i], i # 1 => operands'[i - 1] = operands[i - 1],
           last[home[i]] = i => finals'[home[i]] = finals[home[i]]
    PROVE  Written(i)'
<1>1. UNCHANGED <<last, home, program>>
  BY DEF vars
<1>2. Before(i)' = Before(i)
  <2>1. CASE i # 1
    BY <1>1, <2>1, SameProgram DEF Before
  <2>2. CASE i = 1
    BY <2>2 DEF Before
  <2> QED
    BY <2>1, <2>2
<1>3. Emit(i, operands[i])' = Emit(i, operands[i])
  BY SameProgram
<1>4. FoundDepth'[i] = FoundDepth[i] /\ OlderThan(operands[i], i)' = OlderThan(operands[i], i)
  BY SameProgram
<1> QED
  BY <1>1, <1>2, <1>3, <1>4 DEF Written

-------------------------------------------------------------------------------
(* The code is generated *)

\* A block that was not generated is told from one that leaves no names.
LEMMA NoStackIsNone == TypeOK => NoStack \notin Seq(Names)
<1> SUFFICES ASSUME TypeOK, NoStack \in Seq(Names) PROVE FALSE
  OBVIOUS
<1>1. NoStack[1] \in Names /\ NoStack[1] = <<"none">>
  BY DEF NoStack
<1>2. \A x \in Names : x[1] \in {"op", "phi"}
  BY NameFacts
<1> QED
  BY <1>1, <1>2

LEMMA PhiNamesFacts ==
    ASSUME IInv, pass = "accepted", NEW b \in Blocks, FoundDepth[b] \in 0 .. b - 1
    PROVE  /\ PhiNames(b) \in Seq(Names) /\ Len(PhiNames(b)) = FoundDepth[b]
           /\ \A i : OlderThan(PhiNames(b), i)
           /\ FoundDepth[b] = 0 => PhiNames(b) = <<>>
<1>1. b \in Tokens /\ depthIn[b] = FoundDepth[b] /\ b \in 1 .. Len(program) /\ Len(program) \in Nat
  BY BlockDepth, ProgramFacts DEF Tokens, IInv
<1>2. \A j \in 1 .. depthIn[b] : <<"phi", b, j>> \in Names
  <2>1. \A j \in 1 .. depthIn[b] : j \in 1 .. Len(program)
    BY <1>1
  <2> QED
    BY <1>1, <2>1, NameFacts DEF IInv
<1>3. PhiNames(b) \in [1 .. depthIn[b] -> Names]
  BY <1>2 DEF PhiNames
<1>4. PhiNames(b) \in Seq(Names) /\ Len(PhiNames(b)) = FoundDepth[b]
  BY <1>1, <1>3
<1>5. \A i : OlderThan(PhiNames(b), i)
  BY <1>1, <1>4 DEF OlderThan, Older, PhiNames
<1> QED
  BY <1>4, <1>5

\* What the token before leaves.
LEMMA LeftBefore ==
    ASSUME IInv, pass = "accepted", NEW i \in Tokens, i - 1 \in Tokens, Written(i - 1),
           operands[i - 1] \in Seq(Names), FoundDepth[i - 1] \in Nat
    PROVE  /\ Emit(i - 1, operands[i - 1]) \in Seq(Names)
           /\ Len(Emit(i - 1, operands[i - 1])) = FoundDepth[i]
           /\ OlderThan(Emit(i - 1, operands[i - 1]), i)
<1> DEFINE k == i - 1
<1>1. k \in Tokens /\ k + 1 = i /\ k # Len(program)
  BY ProgramFacts DEF Tokens, IInv
<1>2. /\ Len(operands[k]) = FoundDepth[k] /\ OlderThan(operands[k], k)
      /\ operands[k] \in Seq(Names) /\ FoundDepth[k] \in Nat
  BY DEF Written
<1> HIDE DEF k
<1>3. /\ FoundDepth[k] >= program[k].arity
      /\ k + 1 \in Tokens => FoundDepth[k + 1] = FoundDepth[k] + program[k].effect
  BY <1>1, <1>2, DepthAfter
<1>4. /\ Emit(k, operands[k]) \in Seq(Names) /\ OlderThan(Emit(k, operands[k]), k + 1)
      /\ Len(Emit(k, operands[k])) = Len(operands[k]) + program[k].effect
  BY <1>1, <1>2, <1>3, EmitNames DEF IInv
<1> QED
  BY <1>1, <1>2, <1>3, <1>4 DEF k

\* The stack of names the generator has before a token.
LEMMA StackBefore ==
    ASSUME GenInv, stage = "generate",
           NEW s, s = (IF IsStart(program, gen) THEN StackAtStart(gen) ELSE rpn)
    PROVE  /\ s = Before(gen) /\ s \in Seq(Names) /\ Len(s) = FoundDepth[gen] /\ OlderThan(s, gen)
<1>1. /\ IInv /\ pass = "accepted" /\ Len(program) > 0 /\ gen \in Tokens /\ gen \in 1 .. Len(program)
      /\ FoundDepth[gen] \in 0 .. gen - 1 /\ Len(program) \in Nat
  BY ProgramFacts DEF GenInv, StageInv, CodeInv, Tokens, IInv
<1>2. IsStart(program, gen) => gen \in Blocks
  BY <1>1 DEF Blocks
<1>3. ASSUME NEW e \in EdgesInto(gen), IsStart(program, gen), ~Merges(gen)
      PROVE  StackAtStart(gen) = IF finals[e[1]] = NoStack THEN <<>> ELSE finals[e[1]]
  <2>1. EdgesInto(gen) = {e} /\ Cardinality(EdgesInto(gen)) = 1
    BY <1>1, <1>2, <1>3, OnlyEdge
  <2>2. (CHOOSE f \in EdgesInto(gen) : TRUE) = e
    BY <2>1
  <2> QED
    BY <2>1, <2>2 DEF StackAtStart
<1>4. ASSUME IsStart(program, gen), Merges(gen)
      PROVE  StackAtStart(gen) = PhiNames(gen)
  <2>1. EdgesInto(gen) # {} /\ Cardinality(EdgesInto(gen)) # 1
    BY <1>4, FS_EmptySet DEF Merges
  <2> QED
    BY <2>1 DEF StackAtStart, PhiNames
<1>5. CASE gen = 1
  <2>1. IsStart(program, gen) /\ FoundDepth[gen] = 0
    BY <1>1, <1>5 DEF IsStart
  <2>2. finals = [b \in Tokens |-> NoStack]
    BY <1>5 DEF GenInv, StageInv
  <2>3. StackAtStart(gen) = <<>>
    <3>1. CASE EdgesInto(gen) = {}
      <4>1. Cardinality(EdgesInto(gen)) # 1
        BY <3>1, FS_EmptySet
      <4> QED
        BY <3>1, <4>1 DEF StackAtStart
    <3>2. CASE Merges(gen)
      BY <1>1, <1>2, <1>4, <2>1, <3>2, PhiNamesFacts
    <3>3. CASE EdgesInto(gen) # {} /\ ~Merges(gen)
      <4>1. PICK e \in EdgesInto(gen) : TRUE
        BY <3>3
      <4>2. e[1] \in Tokens
        BY <1>1, <1>2, <2>1, EdgeFacts, BlockDepth
      <4> QED
        BY <1>3, <2>1, <2>2, <3>3, <4>2
    <3> QED
      BY <3>1, <3>2, <3>3
  <2>4. s = <<>>
    BY <2>1, <2>3
  <2> QED
    <3>1. Before(gen) = <<>>
      BY <1>5 DEF Before
    <3>2. s \in Seq(Names) /\ Len(s) = 0
      BY <2>4, EmptySeq
    <3> QED
      BY <2>1, <2>4, <3>1, <3>2 DEF OlderThan
<1>6. CASE gen # 1
  <2>1. gen - 1 \in Tokens /\ gen - 1 < gen /\ gen > 1
    BY <1>1, <1>6 DEF Tokens
  <2>2. Written(gen - 1) /\ operands[gen - 1] \in Seq(Names) /\ FoundDepth[gen - 1] \in Nat
        /\ rpn = Emit(gen - 1, operands[gen - 1])
    BY <1>1, <2>1 DEF GenInv, CodeInv, GenTypeOK
  <2>3. /\ Emit(gen - 1, operands[gen - 1]) \in Seq(Names)
        /\ Len(Emit(gen - 1, operands[gen - 1])) = FoundDepth[gen]
        /\ OlderThan(Emit(gen - 1, operands[gen - 1]), gen)
    BY <1>1, <2>1, <2>2, LeftBefore
  <2>4. CASE IsStart(program, gen) /\ Merges(gen)
    BY <1>1, <1>2, <1>4, <1>6, <2>4, PhiNamesFacts DEF Before
  <2>5. CASE IsStart(program, gen) /\ ~Merges(gen)
    <3>1. last[home[gen - 1]] = gen - 1 /\ \E e \in EdgesInto(gen) : e[1] = home[gen - 1]
      BY <1>1, <1>2, <1>6, <2>5, EnteredFromBefore
    <3>2. finals[home[gen - 1]] = Emit(gen - 1, operands[gen - 1])
      BY <2>2, <3>1 DEF Written
    <3>3. finals[home[gen - 1]] # NoStack
      BY <1>1, <2>3, <3>2, NoStackIsNone DEF IInv
    <3>4. StackAtStart(gen) = Emit(gen - 1, operands[gen - 1])
      BY <1>3, <2>5, <3>1, <3>2, <3>3
    <3> QED
      BY <1>6, <2>3, <2>5, <3>4 DEF Before
  <2>6. CASE ~IsStart(program, gen)
    BY <1>6, <2>2, <2>3, <2>6 DEF Before
  <2> QED
    BY <2>4, <2>5, <2>6
<1> QED
  BY <1>5, <1>6

\* The token code is generated for is written, and the next one has its depth.
LEMMA GenerateStep ==
    ASSUME GenInv, GenerateToken, NEW g, g = gen
    PROVE  GenInv'
<1> DEFINE s == IF IsStart(program, g) THEN StackAtStart(g) ELSE rpn
<1>1. /\ gen = g /\ IInv /\ TypeOK /\ pass = "accepted" /\ Len(program) > 0
      /\ g \in Tokens /\ g \in 1 .. Len(program) /\ stage = "generate"
      /\ Len(program) \in Nat /\ FoundDepth[g] \in 0 .. g - 1
  BY ProgramFacts DEF GenInv, StageInv, CodeInv, Tokens, IInv, GenerateToken
<1>2. s = Before(g) /\ s \in Seq(Names) /\ Len(s) = FoundDepth[g] /\ OlderThan(s, g)
  BY <1>1, StackBefore
<1>3. /\ FoundDepth[g] >= program[g].arity
      /\ g + 1 \in Tokens => FoundDepth[g + 1] = FoundDepth[g] + program[g].effect
      /\ FoundDepth[g] + program[g].effect \in 0 .. FoundDepth[g] + 1
  BY <1>1, DepthAfter
<1>4. ~(Len(s) < program[g].arity)
  BY <1>1, <1>2, <1>3, TokenShape
<1>5. /\ operands' = [operands EXCEPT ![g] = s]
      /\ rpn' = Emit(g, s)
      /\ finals' = IF last[home[g]] = g THEN [finals EXCEPT ![home[g]] = Emit(g, s)] ELSE finals
      /\ gen' = g + 1
      /\ stage' = IF g = Len(program) THEN "phis" ELSE stage
      /\ UNCHANGED <<vars, incoming, runVars>>
  BY <1>4 DEF GenerateToken
<1>6. UNCHANGED <<program, pass, last, home, pc, gpc, stack, env, parity>>
  BY <1>5 DEF vars, runVars
<1>7. Emit(g, s) \in Seq(Names)
  <2> HIDE DEF s
  <2> QED
    BY <1>1, <1>2, <1>3, EmitNames
<1> HIDE DEF s
<1>8. IInv'
  BY <1>1, <1>5, PassesKeep
<1>9. home[g] \in Tokens
  BY <1>1, Layout
<1>10. GenTypeOK'
  <2>1. /\ rpn' \in Seq(Names) /\ operands' \in [Tokens -> Seq(Names)]
        /\ finals' \in [Tokens -> Seq(Names) \cup {NoStack}]
    <3>1. operands' \in [Tokens -> Seq(Names)]
      BY <1>1, <1>2, <1>5 DEF GenInv, GenTypeOK
    <3>2. finals' \in [Tokens -> Seq(Names) \cup {NoStack}]
      BY <1>5, <1>7, <1>9 DEF GenInv, GenTypeOK
    <3> QED
      BY <1>5, <1>7, <3>1, <3>2
  <2>2. gen' \in 1 .. Len(program) + 1 /\ stage' \in {"generate", "phis"}
    BY <1>1, <1>5
  <2>3. Tokens' = Tokens /\ Names' = Names
    BY <1>5, SameProgram
  <2> QED
    BY <1>6, <2>1, <2>2, <2>3 DEF GenInv, GenTypeOK, NoStack
<1>11. StageInv'
  BY <1>1, <1>5, <1>6, SameProgram DEF GenInv, StageInv, Tokens
<1>12. CodeInv'
  <2>1. ASSUME NEW i \in Tokens, i <= g + 1 PROVE FoundDepth'[i] \in 0 .. i - 1
    <3>1. CASE i <= g
      BY <1>1, <3>1, SameProgram, <1>5 DEF GenInv, CodeInv
    <3>2. CASE i = g + 1
      BY <1>1, <1>3, <3>2, SameProgram, <1>5
    <3> QED
      BY <1>1, <2>1, <3>1, <3>2 DEF Tokens
  <2>2. ASSUME NEW i \in Tokens, i < g PROVE Written(i)'
    <3>1. Written(i) /\ i # g /\ i - 1 # g
      BY <1>1, <2>2 DEF GenInv, CodeInv, Tokens
    <3>2. operands'[i] = operands[i] /\ (i # 1 => operands'[i - 1] = operands[i - 1])
      BY <1>1, <1>5, <3>1 DEF GenInv, GenTypeOK, Tokens
    <3>3. last[home[i]] = i => finals'[home[i]] = finals[home[i]]
      BY <1>5, <1>9, <3>1 DEF GenInv, GenTypeOK
    <3> QED
      BY <1>1, <1>5, <3>1, <3>2, <3>3, WrittenKept
  <2>3. operands'[g] = s
    BY <1>1, <1>5 DEF GenInv, GenTypeOK
  <2>4. Before(g)' = Before(g)
    <3>1. CASE g = 1
      BY <3>1 DEF Before
    <3>2. CASE g # 1
      <4>1. g - 1 \in Tokens /\ operands'[g - 1] = operands[g - 1]
        BY <1>1, <1>5, <3>2 DEF GenInv, GenTypeOK, Tokens
      <4> QED
        BY <1>5, <1>6, <3>2, <4>1, SameProgram DEF Before
    <3> QED
      BY <3>1, <3>2
  <2>5. Emit(g, operands[g])' = Emit(g, s)
    BY <1>5, <2>3, SameProgram
  <2>6. FoundDepth'[g] = FoundDepth[g] /\ OlderThan(operands[g], g)' = OlderThan(s, g)
    BY <1>5, <2>3, SameProgram
  <2>7. last[home[g]] = g => finals'[home[g]] = Emit(g, s)
    BY <1>5, <1>9 DEF GenInv, GenTypeOK
  <2>8. Written(g)'
    BY <1>2, <1>6, <2>3, <2>4, <2>5, <2>6, <2>7 DEF Written
  <2>9. gen' - 1 = g /\ rpn' = Emit(gen - 1, operands[gen - 1])'
    <3>1. gen' - 1 = g
      BY <1>1, <1>5
    <3> QED
      BY <1>5, <2>5, <3>1, SameProgram
  <2>10. Tokens' = Tokens /\ gen' = g + 1
    BY <1>5, SameProgram
  <2>11. \A i \in Tokens : i < g + 1 => i < g \/ i = g
    BY <1>1 DEF Tokens
  <2> QED
    BY <2>1, <2>2, <2>8, <2>9, <2>10, <2>11 DEF CodeInv
<1>13. PhisInv' /\ ExecInv'
  BY <1>1, <1>5 DEF PhisInv, ExecInv
<1> QED
  BY <1>8, <1>10, <1>11, <1>12, <1>13 DEF GenInv

-------------------------------------------------------------------------------
(* The PHIs *)

\* The code of an accepted program is complete.
LEMMA AllWritten ==
    ASSUME GenInv, stage \in {"phis", "run", "done"}, NEW i \in Tokens
    PROVE  /\ IInv /\ TypeOK /\ pass = "accepted" /\ Len(program) \in Nat /\ Len(program) > 0
           /\ FoundDepth[i] \in 0 .. i - 1 /\ Written(i) /\ operands[i] \in Seq(Names)
<1>1. IInv /\ pass = "accepted" /\ Len(program) \in Nat /\ Len(program) > 0 /\ gen = Len(program) + 1
  BY ProgramFacts DEF GenInv, StageInv, IInv
<1>2. i <= gen /\ i < gen
  BY <1>1 DEF Tokens
<1> QED
  BY <1>1, <1>2 DEF GenInv, CodeInv, GenTypeOK, IInv

\* What a token leaves when all code is there; a block leaves it to its successors.
LEMMA Leaves ==
    ASSUME GenInv, stage \in {"phis", "run", "done"}, NEW i \in Tokens
    PROVE  /\ FoundDepth[i] >= program[i].arity /\ Len(operands[i]) >= program[i].arity
           /\ Emit(i, operands[i]) \in Seq(Names)
           /\ Len(Emit(i, operands[i])) >= FoundDepth[i] + program[i].effect
           /\ ~(i = Len(program) /\ EndsInJump) =>
                 Len(Emit(i, operands[i])) = FoundDepth[i] + program[i].effect
           /\ last[home[i]] = i => finals[home[i]] = Emit(i, operands[i])
<1>1. /\ TypeOK /\ IInv /\ pass = "accepted" /\ FoundDepth[i] \in Nat
      /\ Len(operands[i]) = FoundDepth[i] /\ OlderThan(operands[i], i) /\ operands[i] \in Seq(Names)
      /\ last[home[i]] = i => finals[home[i]] = Emit(i, operands[i])
  BY AllWritten DEF Written
<1>2. /\ FoundDepth[i] >= program[i].arity
      /\ program[i].kind = "jump" => program[i].effect = -1
  BY <1>1, DepthAfter, TokenShape
<1>3. /\ Emit(i, operands[i]) \in Seq(Names)
      /\ i = Len(program) /\ program[i].kind = "jump" => Emit(i, operands[i]) = operands[i]
      /\ ~(i = Len(program) /\ program[i].kind = "jump") =>
            Len(Emit(i, operands[i])) = Len(operands[i]) + program[i].effect
  BY <1>1, <1>2, EmitNames
<1>4. program[i].effect \in Int
  BY <1>1, TokenShape
<1> QED
  BY <1>1, <1>2, <1>3, <1>4 DEF EndsInJump

\* What a block leaves is enough for the PHIs of its successors.
LEMMA FinalsSuffice ==
    ASSUME GenInv, stage \in {"phis", "run", "done"}, NEW b \in Blocks, NEW e \in EdgesInto(b)
    PROVE  /\ e[1] \in Blocks /\ e[1] \in Tokens /\ finals[e[1]] \in Seq(Names)
           /\ depthIn[b] \in Nat /\ depthIn[b] <= Len(finals[e[1]])
<1>1. /\ IInv /\ pass = "accepted" /\ b \in Tokens
  BY AllWritten DEF Blocks
<1>2. PICK i \in Tokens : /\ i = last[e[1]] /\ home[i] = e[1] /\ last[home[i]] = i /\ e[1] \in Blocks
                          /\ \E k \in 1 .. Len(Successors(program, i)) : Successors(program, i)[k] = b
  BY <1>1, EdgeFacts
<1>3. FoundDepth[i] \in Nat /\ FoundDepth[b] \in Nat
  BY <1>1, AllWritten
<1>4. FoundDepth[b] = FoundDepth[i] + program[i].effect
  BY <1>1, <1>2, <1>3, DepthAfter
<1>5. depthIn[b] = FoundDepth[b] /\ e[1] \in Tokens
  BY <1>1, <1>2, BlockDepth
<1>6. finals[home[i]] = Emit(i, operands[i]) /\ Emit(i, operands[i]) \in Seq(Names)
         /\ Len(Emit(i, operands[i])) >= FoundDepth[i] + program[i].effect
  BY <1>2, Leaves
<1> QED
  BY <1>2, <1>3, <1>4, <1>5, <1>6

\* The entries PopulatePhis makes.
LEMMA PhiEntries ==
    ASSUME PopulatePhis
    PROVE  /\ \A b, j, c, x : <<b, j, c, x>> \in incoming' <=> Entry(b, j, c, x)
           /\ \A e \in incoming' : e = <<e[1], e[2], e[3], e[4]>>
<1> DEFINE OfEdge(b, e) == {<<b, j, e[1], finals[e[1]][j]>> :
                               j \in {k \in 1 .. depthIn[b] : k <= Len(finals[e[1]])}}
           OfBlock(b) == UNION {OfEdge(b, e) : e \in EdgesInto(b)}
           Merging == {c \in Blocks : Cardinality(EdgesInto(c)) > 1}
<1>1. incoming' = UNION {OfBlock(b) : b \in Merging}
  BY DEF PopulatePhis
<1>2. \A b, e, y : y \in OfEdge(b, e) <=>
         \E j \in 1 .. depthIn[b] : j <= Len(finals[e[1]]) /\ y = <<b, j, e[1], finals[e[1]][j]>>
  OBVIOUS
<1>3. \A b : b \in Merging <=> b \in Blocks /\ Merges(b)
  BY DEF Merges
<1> HIDE DEF OfEdge, Merging
<1>4. \A b, y : y \in OfBlock(b) <=> \E e \in EdgesInto(b) : y \in OfEdge(b, e)
  OBVIOUS
<1> HIDE DEF OfBlock
<1>5. \A y : y \in incoming' <=>
         \E b \in Blocks : Merges(b) /\ \E e \in EdgesInto(b) : \E j \in 1 .. depthIn[b] :
            j <= Len(finals[e[1]]) /\ y = <<b, j, e[1], finals[e[1]][j]>>
  <2> SUFFICES ASSUME NEW y
               PROVE  y \in incoming' <=>
                 \E b \in Blocks : Merges(b) /\ \E e \in EdgesInto(b) : \E j \in 1 .. depthIn[b] :
                    j <= Len(finals[e[1]]) /\ y = <<b, j, e[1], finals[e[1]][j]>>
    OBVIOUS
  <2>1. y \in incoming' <=> \E b \in Merging : y \in OfBlock(b)
    BY <1>1
  <2>2. y \in incoming' <=> \E b \in Blocks : Merges(b) /\ \E e \in EdgesInto(b) : y \in OfEdge(b, e)
    BY <1>3, <1>4, <2>1, Zenon
  <2>3. \A b, e : y \in OfEdge(b, e) <=>
           \E j \in 1 .. depthIn[b] : j <= Len(finals[e[1]]) /\ y = <<b, j, e[1], finals[e[1]][j]>>
    BY <1>2
  <2> QED
    BY <2>2, <2>3
<1>6. ASSUME NEW b, NEW j, NEW c, NEW x PROVE <<b, j, c, x>> \in incoming' <=> Entry(b, j, c, x)
  <2>1. ASSUME <<b, j, c, x>> \in incoming' PROVE Entry(b, j, c, x)
    <3>1. PICK d \in Blocks : Merges(d) /\ \E e \in EdgesInto(d) : \E k \in 1 .. depthIn[d] :
             k <= Len(finals[e[1]]) /\ <<b, j, c, x>> = <<d, k, e[1], finals[e[1]][k]>>
      BY <1>5, <2>1
    <3>2. PICK e \in EdgesInto(d), k \in 1 .. depthIn[d] :
             k <= Len(finals[e[1]]) /\ <<b, j, c, x>> = <<d, k, e[1], finals[e[1]][k]>>
      BY <3>1
    <3>3. b = d /\ j = k /\ c = e[1] /\ x = finals[e[1]][k]
      BY <3>2
    <3> QED
      BY <3>1, <3>2, <3>3 DEF Entry
  <2>2. ASSUME Entry(b, j, c, x) PROVE <<b, j, c, x>> \in incoming'
    <3>1. PICK e \in EdgesInto(b) : e[1] = c
      BY <2>2 DEF Entry
    <3> QED
      BY <1>5, <2>2, <3>1 DEF Entry
  <2> QED
    BY <2>1, <2>2
<1>7. \A e \in incoming' : e = <<e[1], e[2], e[3], e[4]>>
  <2> SUFFICES ASSUME NEW y \in incoming' PROVE y = <<y[1], y[2], y[3], y[4]>>
    OBVIOUS
  <2>1. \E b, j, c, x : y = <<b, j, c, x>>
    BY <1>5
  <2> QED
    BY <2>1
<1> QED
  BY <1>6, <1>7

LEMMA PhisStep == GenInv /\ PopulatePhis => GenInv'
<1> SUFFICES ASSUME GenInv, PopulatePhis PROVE GenInv'
  OBVIOUS
<1>1. /\ stage = "phis" /\ stage' = "run"
      /\ UNCHANGED <<vars, gen, rpn, operands, finals, pc, stack, gpc, env, parity>>
  BY DEF PopulatePhis, runVars
<1>2. /\ IInv /\ pass = "accepted" /\ Len(program) > 0 /\ Len(program) \in Nat
      /\ UNCHANGED <<program, pass, last, home>>
  BY <1>1, ProgramFacts DEF GenInv, StageInv, IInv, vars
<1>3. IInv'
  BY <1>1, <1>2, PassesKeep
<1>4. GenTypeOK' /\ StageInv'
  BY <1>1, <1>2, SameProgram DEF GenInv, GenTypeOK, StageInv, NoStack
<1>5. CodeInv'
  <2>1. \A i \in Tokens : i < gen => Written(i)'
    BY <1>1, <1>2, WrittenKept DEF GenInv, CodeInv
  <2>2. gen > 1 => rpn' = Emit(gen - 1, operands[gen - 1])'
    BY <1>1, SameProgram DEF GenInv, CodeInv
  <2> QED
    BY <1>1, <2>1, <2>2, SameProgram DEF GenInv, CodeInv
<1>6. PhisInv'
  <2>1. \A b, j, c, x : Entry(b, j, c, x)' = Entry(b, j, c, x)
    BY <1>1, SameProgram DEF Entry, vars
  <2> QED
    BY <2>1, PhiEntries DEF PhisInv
<1>7. ExecInv'
  <2>1. pc = 1 /\ gpc = 1 /\ stack = <<>> /\ 1 \in Tokens /\ 1 # Len(program) + 1
    BY <1>1, <1>2 DEF GenInv, StageInv, Tokens
  <2>2. operands[1] = <<>>
    BY <1>1, <2>1, AllWritten DEF Written, Before
  <2>3. Along(env, operands[1]) = <<>>
    BY <2>2 DEF Along
  <2> QED
    BY <1>1, <1>2, <2>1, <2>3, SameProgram DEF ExecInv, Along
<1> QED
  BY <1>3, <1>4, <1>5, <1>6, <1>7 DEF GenInv

-------------------------------------------------------------------------------
(* The code is executed *)

\* The names after the instructions of token i.
NewEnv(i) ==
    [x \in Names |-> IF x[1] = "op" /\ x[2] = i THEN <<i, x[3], parity[i]>> ELSE env[x]]

\* The instructions of a token give its names new values and leave the older ones alone.
LEMMA NewEnvFacts ==
    ASSUME GenInv, NEW i \in Tokens
    PROVE  /\ NewEnv(i) \in [Names -> Values]
           /\ \A k \in Results(program[i]) : NewEnv(i)[<<"op", i, k>>] = NewValues(i)[k]
           /\ \A s \in Seq(Names) : OlderThan(s, i) => Along(NewEnv(i), s) = Along(env, s)
<1>1. TypeOK /\ env \in [Names -> Values] /\ parity[i] \in {0, 1} /\ i \in Nat
  BY ProgramFacts DEF GenInv, IInv, GenTypeOK, Tokens
<1>2. ASSUME NEW x \in Names, x[1] = "op", x[2] = i PROVE <<i, x[3], parity[i]>> \in Values
  <2>1. PICK j \in Tokens : \E k \in Results(program[j]) : x = <<"op", j, k>>
    BY <1>1, <1>2, NameFacts
  <2>2. x[3] \in Nat
    BY <2>1 DEF Results
  <2> QED
    BY <1>1, <2>2 DEF Values
<1>3. NewEnv(i) \in [Names -> Values]
  BY <1>1, <1>2 DEF NewEnv
<1>4. \A k \in Results(program[i]) : NewEnv(i)[<<"op", i, k>>] = NewValues(i)[k]
  BY <1>1, NameFacts DEF NewEnv, NewValues
<1>5. ASSUME NEW s \in Seq(Names), OlderThan(s, i) PROVE Along(NewEnv(i), s) = Along(env, s)
  <2>1. \A j \in 1 .. Len(s) : s[j] \in Names /\ (s[j][1] = "op" => s[j][2] # i)
    BY <1>1, <1>5 DEF OlderThan, Older
  <2>2. \A j \in 1 .. Len(s) : NewEnv(i)[s[j]] = env[s[j]]
    BY <2>1 DEF NewEnv
  <2> QED
    BY <2>2 DEF Along
<1> QED
  BY <1>3, <1>4, <1>5

\* A PHI takes a name the predecessor has.
LEMMA IncomingNames ==
    ASSUME GenInv, stage \in {"run", "done"}, NEW e \in incoming
    PROVE  /\ Entry(e[1], e[2], e[3], e[4]) /\ e[4] \in Names
<1>1. Entry(e[1], e[2], e[3], e[4])
  <2>1. e = <<e[1], e[2], e[3], e[4]>>
    BY DEF GenInv, PhisInv
  <2>2. <<e[1], e[2], e[3], e[4]>> \in incoming
    BY <2>1
  <2> QED
    BY <2>2 DEF GenInv, PhisInv
<1>2. PICK f \in EdgesInto(e[1]) : f[1] = e[3]
  BY <1>1 DEF Entry
<1>3. e[1] \in Blocks /\ finals[e[3]] \in Seq(Names) /\ depthIn[e[1]] \in Nat
  BY <1>1, <1>2, FinalsSuffice DEF Entry
<1>4. e[2] \in 1 .. Len(finals[e[3]]) /\ e[4] = finals[e[3]][e[2]]
  BY <1>1, <1>3 DEF Entry
<1> QED
  BY <1>1, <1>3, <1>4

\* The PHIs of block b that block c feeds with entry e.
Feeds(e, x, c, b) == x = <<"phi", b, e[2]>> /\ e[1] = b /\ e[3] = c

LEMMA EnterBlockType ==
    ASSUME GenInv, stage = "run", NEW c, NEW b, NEW v \in [Names -> Values]
    PROVE  EnterBlock(c, b, v) \in [Names -> Values]
<1>1. ASSUME NEW x \in Names, \E e \in incoming : Feeds(e, x, c, b)
      PROVE  v[(CHOOSE e \in incoming : Feeds(e, x, c, b))[4]] \in Values
  <2>1. (CHOOSE e \in incoming : Feeds(e, x, c, b)) \in incoming
    BY <1>1
  <2>2. (CHOOSE e \in incoming : Feeds(e, x, c, b))[4] \in Names
    BY <2>1, IncomingNames
  <2> QED
    BY <2>2
<1> QED
  BY <1>1 DEF EnterBlock, Feeds

\* On an edge the PHIs of the target get what the source leaves.
LEMMA Transfer ==
    ASSUME GenInv, stage = "run", NEW i \in Tokens, last[home[i]] = i, ~(i = Len(program) /\ EndsInJump),
           NEW k \in 1 .. Len(Successors(program, i)), NEW b, b = Successors(program, i)[k],
           NEW v \in [Names -> Values]
    PROVE  Along(EnterBlock(home[i], b, v), operands[b]) = Along(v, Emit(i, operands[i]))
<1> DEFINE c == home[i]
           left == Emit(i, operands[i])
           w == EnterBlock(c, b, v)
<1>1. /\ IInv /\ TypeOK /\ pass = "accepted" /\ FoundDepth[i] \in Nat /\ b \in Blocks /\ b \in Tokens
      /\ Len(program) \in Nat
  BY AllWritten, SuccessorFacts
<1>2. /\ finals[c] = left /\ left \in Seq(Names)
      /\ Len(left) = FoundDepth[i] + program[i].effect
  BY Leaves
<1>3. FoundDepth[b] = Len(left) /\ depthIn[b] = Len(left) /\ Len(left) \in Nat
  BY <1>1, <1>2, DepthAfter, BlockDepth
<1>4. <<c, k>> \in EdgesInto(b)
  BY <1>1, EdgeFrom
<1>5. Written(b)
  BY <1>1, AllWritten
<1> HIDE DEF left
<1>6. CASE Merges(b)
  <2>1. operands[b] = PhiNames(b)
    <3>1. CASE b = 1
      <4>1. FoundDepth[b] = 0 /\ FoundDepth[b] \in 0 .. b - 1
        BY <1>1, <3>1, FirstDepth, ProgramFacts, AllWritten
      <4> QED
        BY <1>1, <1>5, <3>1, <4>1, PhiNamesFacts DEF Written, Before
    <3>2. CASE b # 1
      BY <1>1, <1>5, <1>6, <3>2 DEF Written, Before, Blocks
    <3> QED
      BY <3>1, <3>2
  <2>2. ASSUME NEW j \in 1 .. Len(left) PROVE w[<<"phi", b, j>>] = v[left[j]]
    <3> DEFINE x == <<"phi", b, j>>
               e == CHOOSE f \in incoming : Feeds(f, x, c, b)
    <3>1. x \in Names
      <4>1. FoundDepth[b] \in 0 .. b - 1 /\ b \in 1 .. Len(program)
        BY <1>1, AllWritten DEF Tokens
      <4>2. j \in 1 .. Len(program)
        BY <1>1, <1>3, <4>1
      <4> QED
        BY <1>1, <4>2, NameFacts
    <3>2. <<b, j, c, left[j]>> \in incoming
      <4>1. <<c, k>> \in EdgesInto(b) /\ <<c, k>>[1] = c
        BY <1>4
      <4>2. Entry(b, j, c, left[j])
        BY <1>1, <1>2, <1>3, <1>6, <4>1 DEF Entry
      <4> QED
        BY <4>2 DEF GenInv, PhisInv
    <3>3. Feeds(<<b, j, c, left[j]>>, x, c, b)
      BY DEF Feeds
    <3>4. e \in incoming /\ Feeds(e, x, c, b)
      BY <3>2, <3>3
    <3> HIDE DEF e
    <3>5. e[1] = b /\ e[2] = j /\ e[3] = c /\ e[4] = finals[c][j]
      <4>1. e[1] = b /\ e[2] = j /\ e[3] = c
        BY <3>4 DEF Feeds
      <4> QED
        BY <3>4, <4>1, IncomingNames DEF Entry
    <3>6. w[x] = v[e[4]]
      <4> HIDE DEF x
      <4> QED
        BY <3>1, <3>2, <3>3 DEF EnterBlock, Feeds, e
    <3> QED
      BY <1>2, <3>5, <3>6
  <2> HIDE DEF w
  <2>3. Len(PhiNames(b)) = Len(left) /\ \A j \in 1 .. Len(left) : PhiNames(b)[j] = <<"phi", b, j>>
    BY <1>3 DEF PhiNames
  <2> QED
    BY <2>1, <2>2, <2>3 DEF Along, left, w
<1>7. CASE ~Merges(b)
  <2>1. w = v
    <3>1. ASSUME NEW e \in incoming PROVE e[1] # b
      BY <1>7, IncomingNames DEF Entry
    <3>2. \A x \in Names : w[x] = v[x]
      BY <3>1 DEF EnterBlock
    <3>3. w \in [Names -> Values]
      BY EnterBlockType
    <3> HIDE DEF w
    <3> QED
      BY <3>2, <3>3
  <2>2. operands[b] = left
    <3>1. CASE b = 1
      <4>1. Len(left) = 0
        BY <1>1, <1>3, <3>1, FirstDepth, ProgramFacts, AllWritten
      <4>2. left = <<>>
        BY <1>2, <4>1, EmptySeq
      <4> QED
        BY <1>5, <3>1, <4>2 DEF Written, Before
    <3>2. CASE b # 1
      <4>1. /\ b - 1 \in Tokens /\ last[home[b - 1]] = b - 1
            /\ \E e \in EdgesInto(b) : e[1] = home[b - 1]
        BY <1>1, <3>2, EnteredFromBefore
      <4>2. EdgesInto(b) = {<<c, k>>}
        BY <1>1, <1>4, <1>7, OnlyEdge
      <4>3. home[b - 1] = c
        BY <4>1, <4>2
      <4>4. i = b - 1
        BY <4>1, <4>3
      <4> QED
        BY <1>5, <1>7, <3>2, <4>4 DEF Written, Before, left
    <3> QED
      BY <3>1, <3>2
  <2> QED
    BY <2>1, <2>2 DEF left
<1> QED
  BY <1>6, <1>7

\* The generated code, and the invariant, do not change while the code is executed.
LEMMA CodeKept ==
    ASSUME GenInv, stage \in {"run", "done"}, stage' \in {"run", "done"},
           UNCHANGED <<vars, gen, rpn, operands, finals, incoming>>
    PROVE  IInv' /\ CodeInv' /\ PhisInv' /\ (\A i \in Tokens : Written(i)')
<1>1. IInv /\ pass = "accepted" /\ gen = Len(program) + 1 /\ Len(program) > 0 /\ Len(program) \in Nat
  BY ProgramFacts DEF GenInv, StageInv, IInv
<1>2. IInv'
  BY <1>1, PassesKeep
<1>3. \A i \in Tokens : Written(i) /\ Written(i)'
  BY <1>1, AllWritten, WrittenKept
<1>4. CodeInv'
  <2>1. gen > 1 => rpn' = Emit(gen - 1, operands[gen - 1])'
    BY SameProgram DEF GenInv, CodeInv
  <2> QED
    BY <1>3, <2>1, SameProgram DEF GenInv, CodeInv
<1>5. PhisInv'
  <2>1. \A b, j, c, x : Entry(b, j, c, x)' = Entry(b, j, c, x)
    BY SameProgram DEF Entry, vars
  <2> QED
    BY <2>1 DEF GenInv, PhisInv
<1> QED
  BY <1>2, <1>3, <1>4, <1>5

\* Where the code goes after token g.
Following(g, taken) ==
    IF Len(Successors(program, g)) = 0 THEN Exit
    ELSE IF Len(Successors(program, g)) = 2 /\ ~taken THEN Successors(program, g)[2]
    ELSE Successors(program, g)[1]

LEMMA FollowingFacts ==
    ASSUME GenInv, stage = "run", NEW g \in Tokens, NEW taken \in BOOLEAN
    PROVE  \/ Following(g, taken) = Len(program) + 1 /\ g = Len(program) /\ program[g].kind # "jump"
           \/ /\ Following(g, taken) \in Tokens
              /\ \E k \in 1 .. Len(Successors(program, g)) : Following(g, taken) = Successors(program, g)[k]
<1> DEFINE succs == Successors(program, g)
<1>1. /\ IInv /\ pass = "accepted" /\ succs \in Seq(Tokens) /\ Len(succs) <= 2
      /\ \A k \in 1 .. Len(succs) : succs[k] \in Tokens
  BY AllWritten, SuccessorFacts
<1>2. CASE Len(succs) = 0
  <2>1. g = Len(program) /\ program[g].kind # "jump"
    BY <1>1, <1>2, ProgramFacts DEF Successors, Tokens, IInv
  <2> QED
    BY <1>2, <2>1 DEF Following, Exit
<1>3. CASE Len(succs) # 0
  <2>1. Len(succs) \in Nat \ {0}
    BY <1>1, <1>3
  <2> QED
    BY <1>1, <1>3, <2>1 DEF Following
<1> QED
  BY <1>2, <1>3

\* Unless it ends in a jump the program goes where the code goes.
LEMMA SameWay ==
    ASSUME GenInv, stage = "run", ~EndsInJump, NEW i \in Tokens, NEW taken \in BOOLEAN,
           program[i].kind # "jump" => ~taken
    PROVE  Following(i, taken) = IF program[i].kind = "jump" /\ taken THEN TargetOf(program, i) ELSE i + 1
<1>1. Len(program) \in Nat /\ i \in 1 .. Len(program)
  BY AllWritten DEF Tokens
<1>2. CASE program[i].kind = "jump"
  <2>1. Successors(program, i) = <<TargetOf(program, i), i + 1>>
    BY <1>1, <1>2 DEF Successors, EndsInJump
  <2> QED
    BY <1>2, <2>1 DEF Following
<1>3. CASE program[i].kind # "jump" /\ i < Len(program)
  <2>1. Successors(program, i) = <<i + 1>>
    BY <1>1, <1>3 DEF Successors
  <2> QED
    BY <1>3, <2>1 DEF Following
<1>4. CASE program[i].kind # "jump" /\ i = Len(program)
  <2>1. Successors(program, i) = <<>>
    BY <1>1, <1>4 DEF Successors
  <2> QED
    BY <1>4, <2>1 DEF Following, Exit
<1> QED
  BY <1>1, <1>2, <1>3, <1>4

\* The environment when the code has gone on.
Entered(g, to) ==
    IF last[home[g]] = g /\ to # Exit THEN EnterBlock(home[g], to, NewEnv(g)) ELSE NewEnv(g)

\* One token of the program and one of the code keep the stack in the names.
LEMMA StepFollows ==
    ASSUME GenInv, stage = "run", ~EndsInJump, NEW i \in Tokens, i = pc, NEW taken \in BOOLEAN,
           program[i].kind # "jump" => ~taken, ProgramStep(taken), NEW to, to = Following(i, taken)
    PROVE  /\ to \in Tokens => stack' = Along(Entered(i, to), operands[to])
           /\ to = Len(program) + 1 =>
                 stack' = Along(Entered(i, to), Emit(Len(program), operands[Len(program)]))
<1> DEFINE names == operands[i]
           v == NewEnv(i)
<1>1. /\ IInv /\ TypeOK /\ pass = "accepted" /\ Len(program) \in Nat /\ i \in 1 .. Len(program)
      /\ Written(i) /\ names \in Seq(Names) /\ Len(names) >= program[i].arity
      /\ i = Len(program) => program[i].kind # "jump"
  BY AllWritten, Leaves DEF EndsInJump, Tokens
<1>2. stack = Along(v, names) /\ v \in [Names -> Values]
  <2>1. stack = Along(env, names) /\ OlderThan(names, i)
    BY <1>1 DEF GenInv, ExecInv, Written
  <2> QED
    BY <1>1, <2>1, NewEnvFacts
<1>3. stack' = Along(v, Emit(i, names))
  <2>1. stack' = IF program[i].kind = "label" THEN Along(v, names) ELSE Apply(i, Along(v, names), NewValues(i))
    BY <1>2 DEF ProgramStep
  <2>2. \A k \in Results(program[i]) : v[<<"op", i, k>>] = NewValues(i)[k]
    BY NewEnvFacts
  <2> HIDE DEF v, names
  <2> QED
    BY <1>1, <1>2, <2>1, <2>2, EmitCommutes
<1>4. CASE to = Len(program) + 1
  <2>1. i = Len(program)
    <3>1. (to = Len(program) + 1 /\ i = Len(program)) \/ to \in Tokens
      BY FollowingFacts
    <3>2. Len(program) + 1 \notin Tokens
      BY <1>1 DEF Tokens
    <3> QED
      BY <1>4, <3>1, <3>2
  <2>2. Entered(i, to) = v
    BY <1>4 DEF Entered, Exit
  <2> QED
    BY <1>1, <1>3, <1>4, <2>1, <2>2 DEF Tokens
<1>5. CASE to \in Tokens /\ last[home[i]] = i
  <2>1. PICK k \in 1 .. Len(Successors(program, i)) : to = Successors(program, i)[k]
    BY <1>1, <1>5, FollowingFacts DEF Tokens
  <2>2. Entered(i, to) = EnterBlock(home[i], to, v) /\ to # Len(program) + 1
    BY <1>1, <1>5 DEF Entered, Exit, Tokens
  <2>3. ~(i = Len(program) /\ EndsInJump)
    OBVIOUS
  <2>4. Along(EnterBlock(home[i], to, v), operands[to]) = Along(v, Emit(i, names))
    BY <1>2, <1>5, <2>1, <2>3, Transfer
  <2> QED
    BY <1>3, <2>2, <2>4
<1>6. CASE to \in Tokens /\ last[home[i]] # i
  <2>1. i # Len(program) /\ ~IsStart(program, i + 1)
    BY <1>1, <1>6, Layout
  <2>2. i + 1 \in Tokens /\ (i + 1) - 1 = i /\ i + 1 # 1
    BY <1>1, <2>1 DEF Tokens
  <2>3. program[i].kind # "jump"
    BY <2>1, <2>2 DEF IsStart
  <2>4. to = i + 1
    BY <2>3, SameWay
  <2>5. operands[i + 1] = Emit(i, names)
    BY <2>1, <2>2, AllWritten DEF Written, Before
  <2>6. Entered(i, to) = v /\ to # Len(program) + 1
    BY <1>1, <1>6 DEF Entered, Tokens
  <2> QED
    BY <1>3, <2>4, <2>5, <2>6
<1> QED
  BY <1>1, <1>4, <1>5, <1>6, FollowingFacts

LEMMA ExecStep ==
    ASSUME GenInv, Step, NEW i, i = pc, NEW g, g = gpc
    PROVE  GenInv'
<1>1. /\ stage = "run" /\ i \in Tokens /\ g \in Tokens /\ Len(program) \in Nat
      /\ UNCHANGED <<vars, stage, gen, rpn, operands, finals, incoming>>
      /\ parity' = [parity EXCEPT ![i] = 1 - @]
  <2>1. Len(program) \in Nat
    BY ProgramFacts DEF GenInv, IInv
  <2> QED
    BY <2>1 DEF Step, genVars, GenInv, GenTypeOK, End, Exit, Tokens
<1>2. PICK taken \in BOOLEAN :
         (program[i].kind # "jump" => ~taken) /\ ProgramStep(taken) /\ CodeStep(taken)
  BY DEF Step
<1> DEFINE to == Following(g, taken)
<1>3. gpc' = to /\ env' = Entered(g, to)
  BY <1>2 DEF CodeStep, Following, Entered, NewEnv
<1>4. /\ IInv /\ pass = "accepted" /\ program \in Seq(Token) /\ ~UndefinedLabel(program)
  BY <1>1, AllWritten, ProgramFacts DEF CfgInv, IInv
<1>5. \/ to = Len(program) + 1 /\ g = Len(program) /\ program[g].kind # "jump"
      \/ to \in Tokens
  BY <1>1, FollowingFacts
<1>6. env' \in [Names -> Values]
  BY <1>1, <1>3, NewEnvFacts, EnterBlockType DEF Entered
<1>7. pc' = (IF program[i].kind = "jump" /\ taken THEN TargetOf(program, i) ELSE i + 1)
      /\ pc' \in 1 .. Len(program) + 1
  <2>1. pc' = IF program[i].kind = "jump" /\ taken THEN TargetOf(program, i) ELSE i + 1
    BY <1>2 DEF ProgramStep
  <2>2. program[i].kind = "jump" => TargetOf(program, i) \in 1 .. Len(program)
    BY <1>1, <1>4, TargetIsStart DEF Tokens
  <2> QED
    BY <1>1, <2>1, <2>2 DEF Tokens
<1>8. parity' \in [Tokens -> {0, 1}]
  BY <1>1 DEF GenInv, GenTypeOK
<1> HIDE DEF to
<1>9. GenTypeOK'
  <2>1. UNCHANGED program
    BY <1>1 DEF vars
  <2>2. gpc' \in 1 .. Len(program) + 1
    BY <1>1, <1>3, <1>5 DEF Tokens
  <2> QED
    BY <1>1, <1>6, <1>7, <1>8, <2>1, <2>2, SameProgram DEF GenInv, GenTypeOK, NoStack
<1>10. StageInv'
  <2>1. UNCHANGED <<program, pass>>
    BY <1>1 DEF vars
  <2> QED
    BY <1>1, <2>1, SameProgram DEF GenInv, StageInv
<1>11. IInv' /\ CodeInv' /\ PhisInv'
  BY <1>1, CodeKept
<1>12. ExecInv'
  <2>1. UNCHANGED program /\ Tokens' = Tokens /\ EndsInJump' = EndsInJump
        /\ \A n, s : Emit(n, s)' = Emit(n, s)
    BY <1>1, SameProgram DEF vars
  <2>2. CASE EndsInJump
    BY <1>1, <1>3, <1>5, <2>1, <2>2 DEF ExecInv, EndsInJump
  <2>3. CASE ~EndsInJump
    <3>1. g = i
      BY <1>1, <2>3 DEF GenInv, ExecInv
    <3>2. pc' = to
      BY <1>1, <1>2, <1>7, <2>3, <3>1, SameWay DEF to
    <3>3. /\ to \in Tokens => stack' = Along(env', operands[to])
          /\ to = Len(program) + 1 => stack' = Along(env', Emit(Len(program), operands[Len(program)]))
      BY <1>1, <1>2, <1>3, <2>3, <3>1, StepFollows DEF to
    <3>4. Along(env', operands[to]) = Along(env, operands[pc])'
      BY <1>1, <3>2 DEF Along
    <3>5. Along(env', Emit(Len(program), operands[Len(program)]))
             = Along(env, Emit(Len(program), operands[Len(program)]))'
      BY <1>1, <2>1 DEF Along
    <3> QED
      BY <1>1, <1>3, <2>1, <2>3, <3>2, <3>3, <3>4, <3>5 DEF ExecInv
  <2> QED
    BY <2>2, <2>3
<1> QED
  BY <1>9, <1>10, <1>11, <1>12 DEF GenInv

LEMMA FinishStep == GenInv /\ Finish => GenInv'
<1> SUFFICES ASSUME GenInv, Finish PROVE GenInv'
  OBVIOUS
<1>1. /\ stage = "run" /\ stage' = "done" /\ pc = Len(program) + 1 /\ gpc = Len(program) + 1
      /\ UNCHANGED <<vars, gen, rpn, operands, finals, incoming, pc, stack, gpc, env, parity>>
  BY DEF Finish, runVars, End, Exit
<1>2. UNCHANGED <<program, pass>> /\ Len(program) \in Nat
  BY <1>1, ProgramFacts DEF vars, GenInv, IInv
<1>3. IInv' /\ CodeInv' /\ PhisInv'
  BY <1>1, CodeKept
<1>4. GenTypeOK' /\ StageInv'
  BY <1>1, <1>2, SameProgram DEF GenInv, GenTypeOK, StageInv, NoStack
<1>5. ExecInv'
  <2>1. ~EndsInJump /\ pc \notin Tokens
    BY <1>1, <1>2 DEF GenInv, ExecInv, Tokens
  <2>2. stack = Along(env, Emit(Len(program), operands[Len(program)]))
    BY <1>1, <2>1 DEF GenInv, ExecInv
  <2>3. stack' = Along(env, Emit(Len(program), operands[Len(program)]))'
    BY <1>1, <1>2, <2>2, SameProgram DEF Along
  <2> QED
    BY <1>1, <1>2, <2>1, <2>3, SameProgram DEF ExecInv
<1> QED
  BY <1>3, <1>4, <1>5 DEF GenInv

\* Generation starts with the first token, whose stack is empty.
LEMMA StartStep == GenInv /\ StartGeneration => GenInv'
<1> SUFFICES ASSUME GenInv, StartGeneration PROVE GenInv'
  OBVIOUS
<1>1. /\ stage = "analyse" /\ pass = "accepted" /\ Len(program) > 0 /\ stage' = "generate" /\ gen = 1
      /\ UNCHANGED <<vars, gen, rpn, operands, finals, incoming, pc, stack, gpc, env, parity>>
  BY DEF StartGeneration, runVars, GenInv, StageInv
<1>2. IInv /\ UNCHANGED <<program, pass>> /\ Len(program) \in Nat
  BY <1>1, ProgramFacts DEF vars, GenInv, IInv
<1>3. IInv'
  BY <1>1, <1>2, PassesKeep
<1>4. 1 \in Tokens /\ FoundDepth[1] = 0
  BY <1>1, <1>2, FirstDepth
<1>5. GenTypeOK' /\ StageInv'
  BY <1>1, <1>2, <1>4, SameProgram DEF GenInv, GenTypeOK, StageInv, NoStack
<1>6. CodeInv'
  <2>1. \A i \in Tokens : (i <= 1 <=> i = 1) /\ ~(i < 1)
    BY <1>2 DEF Tokens
  <2>2. FoundDepth'[1] = 0 /\ Tokens' = Tokens
    BY <1>1, <1>4, SameProgram
  <2> QED
    BY <1>1, <2>1, <2>2 DEF CodeInv
<1>7. PhisInv' /\ ExecInv'
  BY <1>1 DEF PhisInv, ExecInv
<1> QED
  BY <1>3, <1>5, <1>6, <1>7 DEF GenInv

\* The passes run before any code is generated.
LEMMA PassesStep == GenInv /\ RunPasses => GenInv'
<1> SUFFICES ASSUME GenInv, RunPasses PROVE GenInv'
  OBVIOUS
<1>1. /\ Analyse /\ IInv
      /\ UNCHANGED <<stage, gen, rpn, operands, finals, incoming, pc, stack, gpc, env, parity>>
  BY DEF RunPasses, genVars, runVars, GenInv
<1>2. stage = "analyse"
  BY <1>1, PassesOver DEF GenInv, StageInv
<1>3. IInv'
  BY <1>1, PassesKeep
<1>4. program' = program
  BY <1>1 DEF Analyse, BuildCFG, AnalyseToken, StartFlow, PopBlock, PushSuccessor, BlockDone, CheckFinal
<1>5. Tokens' = Tokens /\ Names' = Names
  BY <1>4 DEF Tokens, Names, Results
<1>6. GenTypeOK' /\ StageInv'
  BY <1>1, <1>2, <1>4, <1>5 DEF GenInv, GenTypeOK, StageInv, NoStack
<1>7. CodeInv' /\ PhisInv' /\ ExecInv'
  BY <1>1, <1>2 DEF CodeInv, PhisInv, ExecInv
<1> QED
  BY <1>3, <1>6, <1>7 DEF GenInv

LEMMA GenStep == GenInv /\ [GenNext]_allVars => GenInv'
<1> SUFFICES ASSUME GenInv, [GenNext]_allVars PROVE GenInv'
  OBVIOUS
<1>1. CASE RunPasses
  BY <1>1, PassesStep
<1>2. CASE StartGeneration
  BY <1>2, StartStep
<1>3. CASE GenerateToken
  <2>1. PICK g : g = gen
    OBVIOUS
  <2> QED
    BY <1>3, <2>1, GenerateStep
<1>4. CASE PopulatePhis
  BY <1>4, PhisStep
<1>5. CASE Step
  <2>1. PICK i, g : i = pc /\ g = gpc
    OBVIOUS
  <2> QED
    BY <1>5, <2>1, ExecStep
<1>6. CASE Finish
  BY <1>6, FinishStep
<1>7. CASE UNCHANGED allVars
  <2>1. UNCHANGED <<vars, stage, gen, rpn, operands, finals, incoming, pc, stack, gpc, env, parity>>
    BY <1>7 DEF allVars, genVars, runVars
  <2>2. IInv' /\ UNCHANGED <<program, pass, last, home>>
    BY <2>1, PassesKeep DEF GenInv, vars
  <2>3. GenTypeOK' /\ StageInv'
    BY <2>1, <2>2, SameProgram DEF GenInv, GenTypeOK, StageInv, NoStack
  <2>4. CodeInv'
    <3>1. ASSUME stage # "analyse", NEW i \in Tokens, i < gen PROVE Written(i)'
      BY <2>1, <3>1, WrittenKept DEF GenInv, CodeInv, StageInv
    <3>2. gen > 1 => (rpn = Emit(gen - 1, operands[gen - 1]))' = (rpn = Emit(gen - 1, operands[gen - 1]))
      BY <2>1, SameProgram
    <3> QED
      BY <2>1, <3>1, <3>2, SameProgram DEF GenInv, CodeInv
  <2>5. PhisInv'
    <3>1. \A b, j, c, x : Entry(b, j, c, x)' = Entry(b, j, c, x)
      BY <2>1, SameProgram DEF Entry, vars
    <3> QED
      BY <2>1, <3>1 DEF GenInv, PhisInv
  <2>6. ExecInv'
    BY <2>1, <2>2, SameProgram DEF GenInv, ExecInv, Along
  <2> QED
    BY <2>2, <2>3, <2>4, <2>5, <2>6 DEF GenInv
<1> QED
  BY <1>1, <1>2, <1>3, <1>4, <1>5, <1>6, <1>7 DEF GenNext

-------------------------------------------------------------------------------
(* The theorems *)

\* The inductive invariant of code generation and of execution.
THEOREM GenInvariant == GenSpec => []GenInv
<1>1. GenInit => GenInv
  BY GenInitInv
<1>2. GenInv /\ [GenNext]_allVars => GenInv'
  BY GenStep
<1> QED
  BY <1>1, <1>2, PTL DEF GenSpec

\* The generator and the execution leave the passes alone: with them, the passes still do
\* what they do by themselves.
THEOREM PassesUndisturbed == GenSpec => Spec
<1>1. GenInit => Init
  BY DEF GenInit
<1>2. [GenNext]_allVars => [Analyse]_vars
  BY DEF GenNext, RunPasses, StartGeneration, GenerateToken, PopulatePhis, Step, Finish, allVars
<1> QED
  BY <1>1, <1>2, PTL DEF GenSpec, Spec

\* So code is generated only for a program in which every path has the depths the
\* analysis found (Compiler::compile analyses an expression before it generates code).
THEOREM GeneratedIsTyped == GenSpec => [](stage # "analyse" => Typing(program, FoundDepth))
<1>1. GenInv => (stage # "analyse" => Typing(program, FoundDepth))
  BY AcceptedTyping DEF GenInv, StageInv
<1> QED
  BY <1>1, GenInvariant, PTL

\* The generator never takes an operand that is not there, holds as many names before
\* every token as the analysis found values, and gives every PHI one entry for each
\* predecessor (generateIRFromTokens: processCommonToken, the addIncoming loop).
THEOREM DepthsAreRealised == GenSpec => []DepthsRealised
<1>1. GenInv => DepthsRealised
  <2> SUFFICES ASSUME GenInv PROVE DepthsRealised
    OBVIOUS
  <2>1. stage # "undefined"
    BY DEF GenInv, GenTypeOK
  <2>2. ASSUME stage # "analyse", NEW i \in 1 .. gen - 1 PROVE Len(operands[i]) = FoundDepth[i]
    <3>1. Len(program) \in Nat /\ gen \in 1 .. Len(program) + 1
      BY ProgramFacts DEF GenInv, IInv, GenTypeOK
    <3>2. i \in Tokens /\ i < gen
      BY <3>1 DEF Tokens
    <3> QED
      BY <2>2, <3>2 DEF GenInv, CodeInv, Written
  <2>3. ASSUME stage \in {"run", "done"}, NEW b \in Blocks, Merges(b),
               NEW e \in EdgesInto(b), NEW j \in 1 .. depthIn[b]
        PROVE  Cardinality({x \in incoming : x[1] = b /\ x[2] = j /\ x[3] = e[1]}) = 1
    <3> DEFINE c == e[1]
               name == finals[c][j]
               entries == {x \in incoming : x[1] = b /\ x[2] = j /\ x[3] = c}
    <3>1. depthIn[b] \in Nat /\ depthIn[b] <= Len(finals[c]) /\ Len(finals[c]) \in Nat
      BY <2>3, FinalsSuffice
    <3>2. Entry(b, j, c, name)
      BY <2>3, <3>1 DEF Entry
    <3>3. <<b, j, c, name>> \in incoming
      BY <2>3, <3>2 DEF GenInv, PhisInv
    <3>4. ASSUME NEW x \in entries PROVE x = <<b, j, c, name>>
      <4>1. x \in incoming /\ x[1] = b /\ x[2] = j /\ x[3] = c
        OBVIOUS
      <4>2. x = <<x[1], x[2], x[3], x[4]>> /\ Entry(x[1], x[2], x[3], x[4])
        BY <2>3, <4>1, IncomingNames DEF GenInv, PhisInv
      <4>3. x[4] = finals[x[3]][x[2]]
        BY <4>2 DEF Entry
      <4> QED
        BY <4>1, <4>2, <4>3
    <3>5. entries = {<<b, j, c, name>>}
      BY <3>3, <3>4
    <3> HIDE DEF entries
    <3>6. Cardinality(entries) = 1
      BY <3>5, FS_Singleton
    <3> QED
      BY <3>6 DEF entries
  <2> QED
    BY <2>1, <2>2, <2>3 DEF DepthsRealised, Merges
<1> QED
  BY <1>1, GenInvariant, PTL

\* On every path, loops included, the generated code is where the program is, its names
\* hold the program's stack, and what finalizeAndStoreResult takes at the end is the one
\* value the program leaves (generateIRFromTokens).
THEOREM CodeFollows == GenSpec => []CodeFollowsProgram
<1>1. GenInv => CodeFollowsProgram
  <2> SUFFICES ASSUME GenInv PROVE CodeFollowsProgram
    OBVIOUS
  <2>1. Len(program) \in Nat
    BY ProgramFacts DEF GenInv, IInv
  <2>2. ASSUME stage = "run", ~EndsInJump
        PROVE  /\ gpc = pc
               /\ pc # End => stack = [j \in 1 .. Len(operands[pc]) |-> env[operands[pc][j]]]
    <3>1. gpc = pc /\ (pc \in Tokens => stack = Along(env, operands[pc]))
      BY <2>2 DEF GenInv, ExecInv
    <3>2. pc # End => pc \in Tokens
      BY <2>1 DEF GenInv, GenTypeOK, End, Tokens
    <3> QED
      BY <3>1, <3>2 DEF Along
  <2>3. ASSUME stage = "done", Expected = 1
        PROVE  LET final == finals[home[Len(program)]]
               IN  Len(stack) = 1 /\ final # <<>> /\ env[final[Len(final)]] = stack[1]
    <3>1. PICK n \in Tokens : n = Len(program)
      BY <2>1, <2>3 DEF GenInv, StageInv, Tokens
    <3> DEFINE left == Emit(n, operands[n])
    <3>2. pc = n + 1 /\ ~EndsInJump /\ stack = Along(env, left)
      BY <2>3, <3>1 DEF GenInv, ExecInv
    <3>3. /\ IInv /\ pass = "accepted" /\ FoundDepth[n] \in Nat
      BY <2>3, AllWritten
    <3>4. last[home[n]] = n
      BY <3>1, <3>3, Layout
    <3>5. finals[home[n]] = left /\ left \in Seq(Names) /\ Len(left) = FoundDepth[n] + program[n].effect
      BY <2>3, <3>2, <3>4, Leaves
    <3>6. Successors(program, n) = <<>>
      BY <2>1, <3>1, <3>2 DEF Successors, EndsInJump
    <3>7. Len(left) = 1
      BY <2>3, <3>3, <3>5, <3>6, DepthAfter
    <3> HIDE DEF left
    <3>8. Len(stack) = 1 /\ stack[1] = env[left[1]] /\ left # <<>>
      BY <3>2, <3>7 DEF Along
    <3> QED
      BY <3>1, <3>5, <3>7, <3>8
  <2> QED
    BY <2>2, <2>3 DEF CodeFollowsProgram, EndsInJump
<1> QED
  BY <1>1, GenInvariant, PTL

===============================================================================
