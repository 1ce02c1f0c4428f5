-------------------------------- MODULE ArrayOpt --------------------------------
(***************************************************************************)
(* singleExprCreate: constant propagation, then the two optimisations of   *)
(* array allocations, all on one analysis manager that keeps its results   *)
(* while the tokens change.  StaticArrayOptPass makes allocations of known *)
(* size static and inserts tokens; DynamicArrayAllocOptPass then removes   *)
(* allocations, with the blocks of the tokens as they were.  What both     *)
(* leave is executed next to the program that was written, token by token. *)
(***************************************************************************)
EXTENDS ArrayTokens, SequencesExt

CONSTANTS
    Arrays,     \* the names of arrays
    Sizes,      \* the values of operators the passes do not compute (bound)
    Threshold,  \* SINGLEEXPR_STACK_ALLOC_THRESHOLD
    Programs,   \* the programs that are created
    MaxRounds   \* of constant propagation, counted no further (bound)

Unknown == -1       \* std::nullopt
NaN == -2           \* not equal to itself
ASSUME ArrayAssumption ==
    /\ Sizes \subseteq Nat /\ Threshold \in Nat \ {0} /\ MaxRounds \in Nat \ {0} /\ NoName \notin Arrays

Opaque == Tok("op", 0, 1)              \* a value the passes do not know: N, a property, a pixel
Plus == Tok("add", 2, -1)
Modulo == Tok("mod", 2, -1)         \* no number if the divisor is zero
Access(a) == [Tok("access", 1, 0) EXCEPT !.name = a]

\* What Tokenizer makes.
TokenRecord == [kind : STRING, label : STRING, name : STRING, value : Nat, arity : Nat, effect : Int]
IsToken(t) ==
    \/ t = Num(t.value)
    \/ t \in {Opaque, Plus, Modulo, Drop1}
    \/ t.label \in Labels /\ t \in {Here(t.label), Goto(t.label)}
    \/ t.name \in Arrays /\ t \in {Access(t.name), AllocDyn(t.name), AllocStatic(t.name, t.value)}
ASSUME ProgramsAssumption ==
    \A p \in Programs : p \in Seq(TokenRecord) /\ \A i \in 1 .. Len(p) : IsToken(p[i])

VARIABLES
    program,    \* the tokens as written
    tokens,     \* d->tokens, which the passes change
    phase,      \* const, static, dynamic, analyse, run, rejected or undefined
    block,      \* the block constant propagation looks at
    changed,    \* whether this round changed an out stack
    constIn,    \* const_stack_in
    constOut,   \* const_stack_out
    rounds,     \* how many rounds changed an out stack, up to MaxRounds (history)
    removed,    \* allocations_to_remove, as indices of tokens
    pc,         \* the token of program the execution is at
    stack,      \* its operand stack
    size,       \* size[a]: what array a was allocated with, 0 before
    optSize     \* the same in the execution of tokens

vars == <<program, tokens, phase, block, changed, rounds, constIn, constOut, removed, pc, stack, size, optSize>>
constVars == <<block, changed, rounds, constIn, constOut>>
runVars == <<pc, stack, size, optSize>>

End == Len(program) + 1
Blocks == {b \in 1 .. Len(program) : IsStart(program, b)}
LastOf(b) == CHOOSE i \in b .. Len(program) :
    /\ i = Len(program) \/ IsStart(program, i + 1)
    /\ \A k \in b + 1 .. i : ~IsStart(program, k)
SuccessorSet(b) == NextOf(program, LastOf(b))
Predecessors(b) == {c \in Blocks : b \in SuccessorSet(c)}

Init ==
    /\ program \in Programs
    /\ ~DuplicateLabel(program) /\ ~UndefinedLabel(program)    \* BuildCFGPass throws
    /\ tokens = program
    /\ phase = "const" /\ block = 1 /\ changed = FALSE /\ rounds = 0
    /\ constIn = [b \in 1 .. Len(program) |-> <<>>]
    /\ constOut = [b \in 1 .. Len(program) |-> <<>>]
    /\ removed = {}
    /\ pc = 1 /\ stack = <<>>
    /\ size = [a \in Arrays |-> 0] /\ optSize = [a \in Arrays |-> 0]

-------------------------------------------------------------------------------
(* ConstPropPass *)

Same(u, v) == u = v /\ u # NaN
SameStack(s, t) == Len(s) = Len(t) /\ \A k \in 1 .. Len(s) : Same(s[k], t[k])

\* Faulty: keeps what the first predecessor knows.
MergeFirst(s, others) == s
\* The merge of a stack with others: a value only where all of them know the same one.
Merge(s, others) ==
    [k \in 1 .. Len(s) |-> IF \A t \in others : Same(s[k], t[k]) THEN s[k] ELSE Unknown]

\* A block that jumps to the next one is its predecessor twice.
LeadsTwice(c, b) == Successors(program, LastOf(c)) = <<b, b>>

FirstPredecessor(b) == CHOOSE c \in Predecessors(b) : \A d \in Predecessors(b) : c <= d
OtherPredecessors(b) == {c \in Predecessors(b) : c # FirstPredecessor(b) \/ LeadsTwice(c, b)}
MergedIn(b) ==
    IF b = 1 \/ Predecessors(b) = {} THEN <<>>
    ELSE Merge(constOut[FirstPredecessor(b)], {constOut[c] : c \in OtherPredecessors(b)})

\* Faulty: compares with the stack the block had before.
DepthChanges(b) ==
    b # 1 /\ \E c \in Predecessors(b) : Len(constOut[c]) # Len(constIn[b])
DepthsDiffer(b) ==
    b # 1 /\ \E c, d \in Predecessors(b) : Len(constOut[c]) # Len(constOut[d])

\* The loop that fills a short stack tests its bound against the size it changes: of the
\* values that are missing it inserts half, rounded up.
Padded(s, t) ==
    LET missing == IF Len(s) < t.arity THEN t.arity - Len(s) ELSE 0
    IN  [k \in 1 .. (missing + 1) \div 2 |-> Unknown] \o s

Computes(t, s) ==
    LET y == s[Len(s)]
        x == s[Len(s) - 1]
    IN  CASE t.kind = "num" -> t.value
          [] t.kind = "add" -> IF Unknown \in {x, y} THEN Unknown ELSE IF NaN \in {x, y} THEN NaN ELSE x + y
          [] t.kind = "mod" -> IF Unknown \in {x, y} THEN Unknown
                               ELSE IF NaN \in {x, y} \/ y = 0 THEN NaN ELSE x % y
          [] OTHER -> Unknown

\* What a token leaves on a stack that has its arguments.
After(s, t) ==
    LET rest == SubSeq(s, 1, Len(s) - t.arity)
    IN  rest \o [k \in 1 .. t.arity + t.effect |-> Computes(t, s)]

\* What tokens from to to of the program leave; no stack if there is none to pop from.
Through(stacks, t) == {After(Padded(c, t), t) : c \in {d \in stacks : Len(Padded(d, t)) >= t.arity}}
StacksAfter(s, from, to) ==
    LET stacks[i \in from - 1 .. to] == IF i = from - 1 THEN {s} ELSE Through(stacks[i - 1], program[i])
    IN  stacks[to]

NextBlock(b) == LastOf(b) + 1

Propagate ==
    LET new == MergedIn(block)
        outs == StacksAfter(new, block, LastOf(block))
    IN  /\ phase = "const" /\ block < End
        /\ IF DepthsDiffer(block) THEN phase' = "rejected" /\ UNCHANGED constVars
           ELSE IF outs = {} THEN phase' = "undefined" /\ UNCHANGED constVars
           ELSE /\ constIn' = [constIn EXCEPT ![block] = new]
                /\ \E out \in outs : constOut' = [constOut EXCEPT ![block] = out]
                /\ changed' = (changed \/ \E out \in outs : ~SameStack(out, constOut[block]))
                /\ block' = NextBlock(block)
                /\ UNCHANGED <<phase, rounds>>
        /\ UNCHANGED <<program, tokens, removed, runVars>>

\* Faulty: does not reset changed.
EndOfRoundStillChanged ==
    /\ phase = "const" /\ block = End
    /\ phase' = IF changed THEN "const" ELSE "static"
    /\ block' = 1 /\ UNCHANGED changed
    /\ rounds' = IF changed /\ rounds < MaxRounds THEN rounds + 1 ELSE rounds
    /\ UNCHANGED <<program, tokens, constIn, constOut, removed, runVars>>
EndOfRound ==
    /\ phase = "const" /\ block = End
    /\ phase' = IF changed THEN "const" ELSE "static"
    /\ block' = 1 /\ changed' = FALSE
    /\ rounds' = IF changed /\ rounds < MaxRounds THEN rounds + 1 ELSE rounds
    /\ UNCHANGED <<program, tokens, constIn, constOut, removed, runVars>>

-------------------------------------------------------------------------------
(* StaticArrayOptPass *)

\* The pass walks each block from const_stack_in and takes every result as unknown.
Fill(s, n) == [k \in 1 .. (IF Len(s) < n THEN n - Len(s) ELSE 0) |-> Unknown] \o s
Walked(s, t) ==
    LET full == Fill(s, t.arity)
    IN  SubSeq(full, 1, Len(full) - t.arity) \o [k \in 1 .. t.arity + t.effect |-> Unknown]
BlockOf(i) == CHOOSE b \in Blocks : b <= i /\ i <= LastOf(b)
WalkedTo(i) ==
    LET b == BlockOf(i)
        walked[k \in b .. i] == IF k = b THEN constIn[b] ELSE Walked(walked[k - 1], program[k - 1])
    IN  walked[i]

AllocCount(a) == Cardinality({i \in 1 .. Len(program) : Allocates(program[i]) /\ program[i].name = a})

Constant(i) == Last(Fill(WalkedTo(i), program[i].arity))
Converted ==
    {i \in 1 .. Len(program) :
        /\ program[i].kind = "alloc_dyn" /\ AllocCount(program[i].name) = 1
        /\ Constant(i) # Unknown /\ Constant(i) > 0 /\ Constant(i) <= Threshold}

\* A static allocation takes no size from the stack: it is dropped just before.
Rewritten(i) ==
    IF i \in Converted THEN <<Drop1, AllocStatic(program[i].name, Constant(i))>> ELSE <<program[i]>>

\* Where what token i of the program becomes ends and starts in the tokens with those insertions.
NewIndex(i) == i + Cardinality({c \in Converted : c <= i})
NewStart(i) == IF i \in Converted THEN NewIndex(i) - 1 ELSE NewIndex(i)
OldIndex(j) == j - Cardinality({c \in Converted : NewIndex(c) <= j})

StaticArrayOpt ==
    /\ phase = "static"
    /\ tokens' = [j \in 1 .. NewIndex(Len(program)) |->
                    LET i == OldIndex(j) IN Rewritten(i)[j - NewStart(i) + 1]]
    /\ phase' = "dynamic"
    /\ UNCHANGED <<program, constVars, removed, runVars>>

-------------------------------------------------------------------------------
(* DynamicArrayAllocOptPass, whose blocks are those of the program as written *)

BlocksAt(j) == {b \in Blocks : b <= j /\ j <= LastOf(b)}

UsedIn(a, from, to) == \E j \in from .. to : AccessTo(a, tokens[j])

\* The blocks visited on the way from one to another.
Visited(start, stop) == Blocks \cap ReachableFrom(program, {start}, {stop})

\* Faulty: looks at the text between the two, not at the paths.
UsedInText(a, i, j) == UsedIn(a, i + 1, j - 1)
UsedBetween(a, i, j) ==
    \/ BlocksAt(i) = {} \/ BlocksAt(j) = {}
    \/ \E start \in BlocksAt(i), stop \in BlocksAt(j) :
          IF start = stop THEN UsedIn(a, i + 1, j - 1)
          ELSE \E c \in Visited(start, stop) :
                  UsedIn(a, IF c = start THEN i + 1 ELSE c, IF c = stop THEN j - 1 ELSE LastOf(c))

DynamicAllocations(a) == {i \in 1 .. Len(tokens) : tokens[i].kind = "alloc_dyn" /\ tokens[i].name = a}
Redundant ==
    {i \in UNION {DynamicAllocations(a) : a \in Arrays} :
        LET a == tokens[i].name
        IN  \E j \in DynamicAllocations(a) :
                /\ i < j /\ \A k \in DynamicAllocations(a) : ~(i < k /\ k < j)
                /\ ~UsedBetween(a, i, j)}

DynamicArrayAllocOpt ==
    /\ phase = "dynamic"
    /\ removed' = Redundant
    /\ tokens' = [i \in 1 .. Len(tokens) |-> IF i \in Redundant THEN Drop1 ELSE tokens[i]]
    /\ phase' = "analyse"
    /\ UNCHANGED <<program, constVars, runVars>>

-------------------------------------------------------------------------------
(* What the analysis accepts: StackSafety and InitDataflow have the algorithms *)

\* The stack depths at which a token can be reached, the end of the program included.
Following(p, i) == IF p[i].kind = "jump" THEN NextOf(p, i) ELSE {i + 1}
StepsFrom(p, x) ==
    IF x[1] > Len(p) \/ x[2] < p[x[1]].arity THEN {}
    ELSE {<<i, x[2] + p[x[1]].effect>> : i \in Following(p, x[1])}
Depths(p) ==
    LET reached[n \in 0 .. Len(p) + 1] ==
            IF n = 0 THEN {<<1, 0>>}
            ELSE LET before == reached[n - 1] IN before \cup UNION {StepsFrom(p, x) : x \in before}
    IN  reached[Len(p) + 1]

Typed(p) ==
    LET depths == Depths(p)
    IN  /\ \A x, y \in depths : x[1] = y[1] => x[2] = y[2]
        /\ \A x \in depths : IF x[1] > Len(p) THEN x[2] = 0 ELSE x[2] >= p[x[1]].arity

Valid(p) == Typed(p) /\ Initialised(p) /\ AllocatedOnce(p)

Analyse ==
    /\ phase = "analyse"
    /\ phase' = IF Valid(tokens) THEN "run" ELSE "rejected"
    /\ UNCHANGED <<program, tokens, removed, constVars, runVars>>

-------------------------------------------------------------------------------
(* Both programs, executed in step *)

Value == Nat \cup {NaN}

Allocated(sizes, t) ==
    CASE t.kind = "alloc_dyn"    -> [sizes EXCEPT ![t.name] = Last(stack)]
      [] t.kind = "alloc_static" -> [sizes EXCEPT ![t.name] = t.value]
      [] OTHER -> sizes

\* A token takes its arguments from the top; what the passes do not compute may be any value.
Execute ==
    LET t == program[pc]
        rest == SubSeq(stack, 1, Len(stack) - t.arity)
        new == tokens[NewIndex(pc)]
    IN  /\ phase = "run" /\ pc < End
        /\ \E v \in IF Computes(t, stack) = Unknown THEN Sizes ELSE {Computes(t, stack)} :
              stack' = rest \o [k \in 1 .. t.arity + t.effect |-> v]
        /\ pc' = IF t.kind = "jump" /\ Last(stack) > 0 THEN TargetOf(program, pc) ELSE pc + 1
        /\ size' = Allocated(size, t) /\ optSize' = Allocated(optSize, new)
    /\ UNCHANGED <<program, tokens, phase, constVars, removed>>

Passes == Propagate \/ EndOfRound \/ StaticArrayOpt \/ DynamicArrayAllocOpt \/ Analyse
Next == Passes \/ Execute

Spec == Init /\ [][Next]_vars

-------------------------------------------------------------------------------

\* Types.  What constant propagation does not know is never a value of an execution or the
\* size of an array, and it looks at blocks, not at other tokens.
TypeOK ==
    /\ phase \in {"const", "static", "dynamic", "analyse", "run", "rejected", "undefined"}
    /\ block \in Blocks \cup {1, End} /\ changed \in BOOLEAN /\ rounds \in 0 .. MaxRounds
    /\ constIn \in [1 .. Len(program) -> Seq(Value \cup {Unknown})]
    /\ constOut \in [1 .. Len(program) -> Seq(Value \cup {Unknown})]
    /\ removed \subseteq 1 .. Len(tokens)
    /\ pc \in 1 .. End /\ stack \in Seq(Value)
    /\ size \in [Arrays -> Value] /\ optSize \in [Arrays -> Value]

\* What ConstPropPass says of the stack at the start of a block holds whenever an
\* execution gets there, whatever path it took.  It runs before StackSafetyPass and relies on
\* what that would ensure: it pops what is not there, which is undefined, only for a program
\* StackSafetyPass would reject.
ConstantsHold ==
    /\ phase = "run" /\ pc \in Blocks =>
        /\ Len(constIn[pc]) = Len(stack)
        /\ \A k \in 1 .. Len(stack) : constIn[pc][k] \in {Unknown, stack[k]}
    /\ phase = "undefined" => ~Typed(program)

OnCycle(i) == i \in ReachableFrom(program, NextOf(program, i), {})

SameSize(a) == size[a] = optSize[a]
Accesses(a) == phase = "run" /\ pc < End /\ AccessTo(a, program[pc])

\* "If between two allocations of the same array, there are no reads or writes to that
\* array on all possible control flow paths, the first allocation is replaced":
\* an array that is accessed has the size it would have without the passes.
SizesAlwaysAgree == \A a \in Arrays : Accesses(a) => SameSize(a)

\* An allocation of the array is removed while conversions have moved the tokens, so that the
\* search for accesses uses indices that are stale, or it lies in a loop and the array is
\* accessed before it in its block, which the search does not enter again.
Misjudged(a) ==
    \E i \in 1 .. Len(program) :
        /\ NewIndex(i) \in removed /\ program[i].name = a
        /\ \/ Converted # {}
           \/ \E b \in Blocks :
                  b <= i /\ i <= LastOf(b) /\ OnCycle(i) /\ \E k \in b .. i - 1 : AccessTo(a, program[k])

\* In all other cases both passes keep the sizes: whatever path leads to an access, its array
\* was last allocated with the size it would have without DynamicArrayAllocOptPass removing
\* allocations and StaticArrayOptPass replacing their sizes by constants.
SizesAgree == \A a \in Arrays : Accesses(a) => SameSize(a) \/ Misjudged(a)

\* A program that is valid as it is written is accepted, unless a loop starts with values on
\* the stack, which constant propagation rejects, an allocation in a loop was made static,
\* or a removed allocation is missed.
ValidProgramsAccepted ==
    phase = "rejected" /\ Valid(program) =>
        \/ \E b \in Blocks : \E x \in Depths(program) :
               x[1] = b /\ x[2] > 0 /\ \E c \in Predecessors(b) : c >= b
        \/ \E i \in Converted : OnCycle(i)
        \/ \E a \in Arrays : Misjudged(a)

\* Constant propagation ends after two rounds, the second of which changes nothing (every loop
\* starts with an empty stack or is rejected), unless the stack has a NaN at the end of a block:
\* the comparison with the stack of the round before fails for ever.
PropagationEnds ==
    phase = "const" =>
        \/ rounds <= 1
        \/ \E b \in Blocks : \E k \in 1 .. Len(constOut[b]) : constOut[b][k] = NaN

================================================================================
