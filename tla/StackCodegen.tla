------------------------------ MODULE StackCodegen ------------------------------
(***************************************************************************)
(* Code generation for an accepted program, and its execution next to the  *)
(* program itself.  IRGeneratorBase walks the blocks in order with a stack *)
(* of SSA names instead of values; where blocks meet it makes one PHI per  *)
(* stack slot.  Then the program (on a stack of values) and the generated  *)
(* code (on its names) execute token by token, every condition being true  *)
(* or false as it likes.                                                   *)
(*                                                                         *)
(* A name is <<"op", token, result>> or <<"phi", block, slot>>.  A value   *)
(* is <<token, result, parity>>: what an execution of the token produced,  *)
(* the parity telling two successive executions apart.                     *)
(***************************************************************************)
EXTENDS StackSafety

VARIABLES
    stage,      \* analyse, generate, phis, run, done; undefined: C++ undefined behaviour
    gen,        \* the token code is generated for
    rpn,        \* rpn_stack
    operands,   \* operands[i]: rpn_stack before token i
    finals,     \* block_final_stacks, NoStack for a block not generated yet
    incoming,   \* the entries <<block, slot, predecessor, name>> of the PHIs
    pc,         \* the token the program is at
    stack,      \* its stack
    gpc,        \* the token the generated code is at, Exit in the exit block
    env,        \* the value of every name
    parity      \* the parity of the next execution of every token

genVars == <<stage, gen, rpn, operands, finals, incoming>>
runVars == <<pc, stack, gpc, env, parity>>
allVars == <<vars, genVars, runVars>>

NoStack == <<<<"none">>>>      \* no sequence of names
NoValue == <<0, 0, 0>>
End == Len(program) + 1      \* the program has ended
Exit == Len(program) + 1     \* exit_bb

\* dup and swap take their operand and put one more, or the same, back; labels and jumps
\* do what LabelDef and Jump say; no token adds more than one value.
ASSUME TokensAssumption ==
    \A p \in Programs : \A i \in 1 .. Len(p) :
        LET t == p[i]
        IN  /\ t.effect <= 1
            /\ t.kind = "dup" => t.arity > 0 /\ t.effect = 1
            /\ t.kind = "swap" => t.arity > 0 /\ t.effect = 0
            /\ t.kind = "label" => t.arity = 0 /\ t.effect = 0
            /\ t.kind = "jump" => t.arity = 1 /\ t.effect = -1

Results(t) == 1 .. (t.arity + t.effect)
Names == (UNION {{<<"op", i, k>> : k \in Results(program[i])} : i \in Tokens})
             \cup {<<"phi", b, j>> : b \in Tokens, j \in 1 .. Len(program)}

GenInit ==
    /\ Init
    /\ stage = "analyse" /\ gen = 1 /\ rpn = <<>>
    /\ operands = [i \in Tokens |-> <<>>]
    /\ finals = [b \in Tokens |-> NoStack]
    /\ incoming = {}
    /\ pc = 1 /\ stack = <<>> /\ gpc = 1
    /\ env = [x \in Names |-> NoValue]
    /\ parity = [i \in Tokens |-> 0]

\* The passes run first; generateIRFromTokens is reached by an accepted program only.
\* The empty program, a SingleExpr only, has no blocks and code of its own.
RunPasses == Analyse /\ UNCHANGED <<genVars, runVars>>

StartGeneration ==
    /\ stage = "analyse" /\ pass = "accepted" /\ Len(program) > 0
    /\ stage' = "generate"
    /\ UNCHANGED <<vars, gen, rpn, operands, finals, incoming, runVars>>

Successor(c, k) == Successors(program, last[c])[k]
\* The edges into block b, as predecessor and position among its successors.
EdgesInto(b) ==
    {e \in Blocks \X {1, 2} :
        e[2] <= Len(Successors(program, last[e[1]])) /\ Successor(e[1], e[2]) = b}

\* Faulty: no PHIs, the names of the first predecessor are used on every edge.
StackOfFirstEdge(b) ==
    IF EdgesInto(b) = {} THEN <<>>
    ELSE LET first == CHOOSE e \in EdgesInto(b) : \A f \in EdgesInto(b) : e[1] <= f[1]
         IN  IF finals[first[1]] = NoStack THEN <<>> ELSE finals[first[1]]

\* rpn_stack where a block starts.
StackAtStart(b) ==
    LET edges == EdgesInto(b)
    IN  CASE edges = {} -> <<>>
          [] Cardinality(edges) = 1 ->
                LET pred == (CHOOSE e \in edges : TRUE)[1]
                IN  IF finals[pred] = NoStack THEN <<>> ELSE finals[pred]
          [] OTHER -> [j \in 1 .. depthIn[b] |-> <<"phi", b, j>>]

\* What token i does to a stack of names or of values: dup and swap move what is
\* there, any other token replaces its operands by results.
Apply(i, s, results) ==
    LET t == program[i]
        deep == Len(s) - t.arity + 1
    IN  CASE t.kind = "dup" -> Append(s, s[deep])
          [] t.kind = "swap" -> [s EXCEPT ![deep] = s[Len(s)], ![Len(s)] = s[deep]]
          [] OTHER -> SubSeq(s, 1, Len(s) - t.arity) \o results

NewNames(i) == [k \in Results(program[i]) |-> <<"op", i, k>>]

\* The names after token i; the condition of a jump is popped by the terminator with
\* two successors only.
Emit(i, s) ==
    CASE program[i].kind = "label" -> s
      [] program[i].kind = "jump" ->
            IF Len(Successors(program, i)) = 2 THEN SubSeq(s, 1, Len(s) - 1) ELSE s
      [] OTHER -> Apply(i, s, NewNames(i))

\* One token.  back() and operator[] of a vector that is too short are undefined.
GenerateToken ==
    LET s == IF IsStart(program, gen) THEN StackAtStart(gen) ELSE rpn
    IN  /\ stage = "generate" /\ gen <= Len(program)
        /\ operands' = [operands EXCEPT ![gen] = s]
        /\ IF Len(s) < program[gen].arity
           THEN stage' = "undefined" /\ UNCHANGED <<rpn, finals, gen>>
           ELSE /\ rpn' = Emit(gen, s)
                /\ finals' = IF last[home[gen]] = gen
                             THEN [finals EXCEPT ![home[gen]] = Emit(gen, s)] ELSE finals
                /\ gen' = gen + 1
                /\ stage' = IF gen = Len(program) THEN "phis" ELSE stage
        /\ UNCHANGED <<vars, incoming, runVars>>

\* Faulty: the entries are added when the block is entered, before the back edges exist.
PopulateForwardOnly ==
    /\ stage = "phis"
    /\ incoming' =
          UNION {UNION {{<<b, j, e[1], finals[e[1]][j]>> :
                            j \in {k \in 1 .. depthIn[b] : k <= Len(finals[e[1]])}} :
                        e \in {f \in EdgesInto(b) : f[1] < b}} :
                 b \in {c \in Blocks : Cardinality(EdgesInto(c)) > 1}}
    /\ stage' = "run"
    /\ UNCHANGED <<vars, gen, rpn, operands, finals, runVars>>

\* Every PHI gets the slot of the final stack of each predecessor, where it has one.
PopulatePhis ==
    /\ stage = "phis"
    /\ incoming' =
          UNION {UNION {{<<b, j, e[1], finals[e[1]][j]>> :
                            j \in {k \in 1 .. depthIn[b] : k <= Len(finals[e[1]])}} :
                        e \in EdgesInto(b)} :
                 b \in {c \in Blocks : Cardinality(EdgesInto(c)) > 1}}
    /\ stage' = "run"
    /\ UNCHANGED <<vars, gen, rpn, operands, finals, runVars>>

\* Control goes from block c to block b: all PHIs of b take their values at once.
EnterBlock(c, b, values) ==
    [x \in Names |->
        IF \E e \in incoming : x = <<"phi", b, e[2]>> /\ e[1] = b /\ e[3] = c
        THEN values[(CHOOSE e \in incoming : x = <<"phi", b, e[2]>> /\ e[1] = b /\ e[3] = c)[4]]
        ELSE values[x]]

NewValues(i) == [k \in Results(program[i]) |-> <<i, k, parity[i]>>]

\* The program: an operator, a label, or a jump that is taken or falls through.
ProgramStep(taken) ==
    /\ pc' = IF program[pc].kind = "jump" /\ taken THEN TargetOf(program, pc) ELSE pc + 1
    /\ stack' = IF program[pc].kind = "label" THEN stack ELSE Apply(pc, stack, NewValues(pc))

\* The generated code: the instructions of token gpc, then the terminator if it is the
\* last of its block.
CodeStep(taken) ==
    LET succs == Successors(program, gpc)
        values == [x \in Names |->
                      IF x[1] = "op" /\ x[2] = gpc THEN <<gpc, x[3], parity[gpc]>> ELSE env[x]]
        to == IF Len(succs) = 0 THEN Exit
              ELSE IF Len(succs) = 2 /\ ~taken THEN succs[2] ELSE succs[1]
    IN  /\ gpc' = to
        /\ env' = IF last[home[gpc]] = gpc /\ to # Exit
                  THEN EnterBlock(home[gpc], to, values) ELSE values

\* Both execute one token, with one outcome of the condition.
Step ==
    /\ stage = "run" /\ pc # End /\ gpc # Exit
    /\ \E taken \in IF program[pc].kind = "jump" THEN BOOLEAN ELSE {FALSE} :
          ProgramStep(taken) /\ CodeStep(taken)
    /\ parity' = [parity EXCEPT ![pc] = 1 - @]
    /\ UNCHANGED <<vars, genVars>>

Finish ==
    /\ stage = "run" /\ pc = End /\ gpc = Exit
    /\ stage' = "done"
    /\ UNCHANGED <<vars, gen, rpn, operands, finals, incoming, runVars>>

GenNext == RunPasses \/ StartGeneration \/ GenerateToken \/ PopulatePhis \/ Step \/ Finish
GenSpec == GenInit /\ [][GenNext]_allVars

-------------------------------------------------------------------------------

\* The generator never takes an operand that is not there, the names it holds are as
\* many as the depth the analysis found, and every PHI has one entry for each predecessor
\* (the bounds test before addIncoming never fails; LLVM rejects a PHI without an entry).
DepthsRealised ==
    /\ stage # "undefined"
    /\ stage # "analyse" => \A i \in 1 .. gen - 1 : Len(operands[i]) = FoundDepth[i]
    /\ stage \in {"run", "done"} => \A b \in Blocks : Cardinality(EdgesInto(b)) > 1 =>
           \A e \in EdgesInto(b), j \in 1 .. depthIn[b] :
               Cardinality({x \in incoming : x[1] = b /\ x[2] = j /\ x[3] = e[1]}) = 1

\* The generated code is where the program is and holds the same values, on every path,
\* loops included; finalizeAndStoreResult gets the top of the program's stack.  A jump as
\* the last token is excepted (NotTakenContinues).
CodeFollowsProgram ==
    /\ stage = "run" /\ program[Len(program)].kind # "jump" =>
        /\ gpc = pc
        /\ pc # End => stack = [j \in 1 .. Len(operands[pc]) |-> env[operands[pc][j]]]
    /\ stage = "done" /\ Expected = 1 =>
        LET final == finals[home[Len(program)]]
        IN  Len(stack) = 1 /\ final # <<>> /\ env[final[Len(final)]] = stack[1]

\* "If the value is 0 or less (false), execution ignores the jump and continues with
\* the next instruction" (docs/postfix.md): the code is never elsewhere than the program.
NotTakenContinues == stage = "run" => gpc = pc

================================================================================
