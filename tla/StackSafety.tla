------------------------------ MODULE StackSafety ------------------------------
(***************************************************************************)
(* The passes that decide whether a postfix program is stack safe:         *)
(* BuildCFGPass, BlockAnalysisPass (stack effect and need of each block)   *)
(* and StackSafetyPass (a worklist that gives every block one entry depth).*)
(***************************************************************************)
EXTENDS PostfixCFG, FiniteSets

CONSTANTS
    Programs,   \* the programs submitted to the analysis (bound)
    Expected    \* getExpectedFinalDepth: 1 for Expr and VkExpr, 0 for SingleExpr

\* A token never takes more from the stack than it needs there.
ASSUME ProgramsAssumption ==
    \A p \in Programs : p \in Seq(Token) /\ \A i \in 1 .. Len(p) : p[i].arity + p[i].effect >= 0
ASSUME ExpectedAssumption == Expected \in {0, 1}

VARIABLES
    program,    \* the tokens
    pass,       \* cfg, blocks, pop, push, final, accepted or rejected
    reason,     \* why it was rejected
    at,         \* the token BlockAnalysisPass looks at
    current,    \* current_stack
    block,      \* the block being walked, or the one taken from the worklist
    need,       \* need[b]: min_stack_needed
    effect,     \* effect[b]: stack_effect
    last,       \* last[b]: the last token of block b
    home,       \* home[i]: the block of token i (history)
    before,     \* before[i]: current_stack before token i (history)
    depthIn,    \* stack_depth_in, -1 where nothing is known
    worklist,   \* the last element is taken first
    processed,  \* processed_count
    next        \* the successor of block to look at

vars == <<program, pass, reason, at, current, block, need, effect, last, home, before,
          depthIn, worklist, processed, next>>
cfgVars == <<at, current, need, effect, last, home, before>>
flowVars == <<depthIn, worklist, processed, next>>

Unknown == -1
Tokens == 1 .. Len(program)
Blocks == {b \in Tokens : IsStart(program, b)}

Init ==
    /\ program \in Programs
    /\ pass = "cfg" /\ reason = "none"
    /\ at = 1 /\ current = 0 /\ block = 1
    /\ need = [b \in Tokens |-> 0]
    /\ effect = [b \in Tokens |-> 0]
    /\ last = [b \in Tokens |-> b]
    /\ home = [i \in Tokens |-> i]
    /\ before = [i \in Tokens |-> 0]
    /\ depthIn = [b \in Tokens |-> Unknown]
    /\ worklist = <<>> /\ processed = 0 /\ next = 1

Reject(why) == pass' = "rejected" /\ reason' = why
Continue(to) == pass' = to /\ UNCHANGED reason

\* ExpressionAnalyzer throws on an empty expression that must leave a value, BuildCFGPass
\* on a label defined twice, then on a jump to no label.
BuildCFG ==
    /\ pass = "cfg"
    /\ IF program = <<>> /\ Expected # 0 THEN Reject("empty")
       ELSE IF DuplicateLabel(program) THEN Reject("duplicate_label")
       ELSE IF UndefinedLabel(program) THEN Reject("undefined_label")
       ELSE Continue("blocks")
    /\ UNCHANGED <<program, block, cfgVars, flowVars>>

\* Faulty: the need of the last token that needs something, not the greatest need.
LatterOf(a, b) == b
MaxOf(a, b) == IF a >= b THEN a ELSE b

\* BlockAnalysisPass: one token of the block it belongs to.
AnalyseToken ==
    LET fresh == IsStart(program, at)
        b == IF fresh THEN at ELSE block
        depth == IF fresh THEN 0 ELSE current
    IN  /\ pass = "blocks" /\ at <= Len(program)
        /\ need' = [need EXCEPT ![b] = IF depth < program[at].arity
                                       THEN MaxOf(@, program[at].arity - depth) ELSE @]
        /\ current' = depth + program[at].effect
        /\ effect' = [effect EXCEPT ![b] = depth + program[at].effect]
        /\ last' = [last EXCEPT ![b] = at]
        /\ home' = [home EXCEPT ![at] = b]
        /\ before' = [before EXCEPT ![at] = depth]
        /\ block' = b
        /\ at' = at + 1
        /\ UNCHANGED <<program, pass, reason, flowVars>>

\* StackSafetyPass starts at the first block with an empty stack.
StartFlow ==
    /\ pass = "blocks" /\ at > Len(program)
    /\ Continue("pop")
    /\ IF Len(program) = 0 THEN UNCHANGED <<depthIn, worklist>>
       ELSE depthIn' = [depthIn EXCEPT ![1] = 0] /\ worklist' = <<1>>
    /\ UNCHANGED <<program, block, cfgVars, processed, next>>

NumBlocks == Cardinality(Blocks)

\* Take the last block of the worklist.
PopBlock ==
    LET b == worklist[Len(worklist)]
    IN  /\ pass = "pop" /\ worklist # <<>>
        /\ processed' = processed + 1
        /\ IF processed + 1 > NumBlocks * NumBlocks
           THEN Reject("heuristic") /\ UNCHANGED <<worklist, block, next>>
           ELSE /\ worklist' = SubSeq(worklist, 1, Len(worklist) - 1)
                /\ block' = b /\ next' = 1
                /\ IF depthIn[b] < need[b] THEN Reject("underflow") ELSE Continue("push")
        /\ UNCHANGED <<program, cfgVars, depthIn>>

\* Faulty: a successor is pushed again when it has the same depth already.
PushAlways ==
    LET succs == Successors(program, last[block])
        out == depthIn[block] + effect[block]
        s == succs[next]
    IN  /\ pass = "push" /\ next <= Len(succs)
        /\ next' = next + 1
        /\ IF depthIn[s] \in {Unknown, out}
           THEN /\ depthIn' = [depthIn EXCEPT ![s] = out]
                /\ worklist' = Append(worklist, s)
                /\ UNCHANGED <<pass, reason>>
           ELSE Reject("mismatch") /\ UNCHANGED <<depthIn, worklist>>
        /\ UNCHANGED <<program, block, cfgVars, processed>>

\* One successor of the block: it gets its depth, or must have this one already.
PushSuccessor ==
    LET succs == Successors(program, last[block])
        out == depthIn[block] + effect[block]
        s == succs[next]
    IN  /\ pass = "push" /\ next <= Len(succs)
        /\ next' = next + 1
        /\ IF depthIn[s] = Unknown
           THEN /\ depthIn' = [depthIn EXCEPT ![s] = out]
                /\ worklist' = Append(worklist, s)
                /\ UNCHANGED <<pass, reason>>
           ELSE /\ IF depthIn[s] # out THEN Reject("mismatch") ELSE UNCHANGED <<pass, reason>>
                /\ UNCHANGED <<depthIn, worklist>>
        /\ UNCHANGED <<program, block, cfgVars, processed>>

BlockDone ==
    /\ pass = "push" /\ next > Len(Successors(program, last[block]))
    /\ Continue("pop")
    /\ UNCHANGED <<program, block, cfgVars, flowVars>>

\* Faulty: every block must leave the expected depth.
BalancedEverywhere(b) == depthIn[b] # Unknown => depthIn[b] + effect[b] = Expected

\* The blocks without successors must leave the expected depth.
Balanced(b) ==
    depthIn[b] # Unknown /\ Successors(program, last[b]) = <<>>
        => depthIn[b] + effect[b] = Expected

CheckFinal ==
    /\ pass = "pop" /\ worklist = <<>>
    /\ IF \A b \in Blocks : Balanced(b) THEN Continue("accepted") ELSE Reject("unbalanced")
    /\ UNCHANGED <<program, block, cfgVars, flowVars>>

Analyse == BuildCFG \/ AnalyseToken \/ StartFlow \/ PopBlock \/ PushSuccessor \/ BlockDone
               \/ CheckFinal

Spec == Init /\ [][Analyse]_vars

-------------------------------------------------------------------------------

TypeOK ==
    /\ program \in Programs
    /\ pass \in {"cfg", "blocks", "pop", "push", "accepted", "rejected"}
    /\ reason \in {"none", "empty", "duplicate_label", "undefined_label", "heuristic",
                   "underflow", "mismatch", "unbalanced"}
    /\ at \in 1 .. Len(program) + 1
    /\ current \in Int
    /\ block \in {1} \cup Tokens
    /\ need \in [Tokens -> Nat]
    /\ effect \in [Tokens -> Int]
    /\ last \in [Tokens -> Tokens]
    /\ home \in [Tokens -> Tokens]
    /\ before \in [Tokens -> Int]
    /\ depthIn \in [Tokens -> Int]
    /\ worklist \in Seq(Tokens)
    /\ processed \in Nat
    /\ next \in Nat \ {0}

(***************************************************************************)
(* What stack safety means, with no blocks and no worklist: every token    *)
(* that can be reached has one stack depth, whatever path leads to it,     *)
(* which is deep enough for the token, and where the program ends the      *)
(* depth is the expected one.  Tokens that are not reached are Unknown.    *)
(***************************************************************************)
Typing(p, d) ==
    /\ IF p = <<>> THEN Expected = 0 ELSE d[1] = 0
    /\ \A i \in 1 .. Len(p) : d[i] # Unknown =>
        /\ d[i] >= p[i].arity
        /\ \A k \in 1 .. Len(Successors(p, i)) :
                d[Successors(p, i)[k]] = d[i] + p[i].effect
        /\ Successors(p, i) = <<>> => d[i] + p[i].effect = Expected

\* The typing the passes found: the depth of the block and of the token inside it.
FoundDepth ==
    [i \in Tokens |-> IF depthIn[home[i]] = Unknown THEN Unknown
                      ELSE depthIn[home[i]] + before[i]]

\* A program is accepted only if no execution of it underflows and all of them end
\* with the expected depth, loops included (BlockAnalysisPass, StackSafetyPass).
AcceptedIsTyped == pass = "accepted" => Typing(program, FoundDepth)

RejectedByStack ==
    pass = "rejected" /\ reason \notin {"empty", "duplicate_label", "undefined_label"}

\* A program with such a typing is never rejected: the block summaries lose nothing,
\* and neither the order of the worklist nor its limit matters.
TypedIsAccepted ==
    RejectedByStack => ~\E d \in [Tokens -> Unknown .. Len(program)] : Typing(program, d)

\* The limit on processed_count never strikes: a block enters the worklist once, so the
\* pass ends on every program and never rejects one because of the limit.
HeuristicSilent == reason # "heuristic" /\ processed <= NumBlocks

================================================================================
