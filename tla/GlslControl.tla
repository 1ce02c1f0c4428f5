------------------------------- MODULE GlslControl -------------------------------
(***************************************************************************)
(* The control flow of the shader that GLSLGenerator writes.  From the     *)
(* structure of StructurizeCFGPass it writes nested loops and ifs; where   *)
(* that fails, a state machine.  A block with several predecessors, or     *)
(* that follows a loop, finds its operands in variables, its slots, which  *)
(* the edges to it assign.                                                 *)
(*                                                                         *)
(* The shader runs next to the expression it was made from: the block and  *)
(* the stack the expression is at, with the same outcome of every          *)
(* condition.                                                              *)
(***************************************************************************)
EXTENDS StructurizeCFG

CONSTANT Programs
\* [target, depth, mode, small, limit]: for each block of the expression the block its conditional jump leads
\* to or NoBlock, and the depth of the stack at its start; what blocks do with the stack, see Effect;
\* whether blocks are small enough to be copied; blocks the graph may grow to, for which the code takes
\* 256, or 8 times the blocks there are.

VARIABLES
    program, shape,     \* the expression; its structure, see Shaped
    frames,             \* the shader: what is left to run, innermost construct first
    values, result,     \* of slots and temporaries; _result
    raised,             \* break flags that are set, NoBlock standing for _llvmexpr_exit
    where, stack, cond, \* the expression: block, operands, condition of its jump
    done,               \* the result of the expression, at its end
    parity,             \* tells values of one execution of a block from those of the next
    causes              \* of known disagreement

ghostVars == <<where, stack, cond, done, parity, causes>>
vars == <<program, shape, frames, values, result, raised, ghostVars>>

Last1(s) == s[Len(s)]
Lesser(a, b) == IF a < b THEN a ELSE b

\* The graph of the expression
GraphOf(p) ==
    LET n == Len(p.target)
        Succ(b) == (IF p.target[b] # NoBlock THEN <<p.target[b]>> ELSE <<>>) \o (IF b < n THEN <<b + 1>> ELSE <<>>)
    IN Rebuilt([succ |-> [b \in 1 .. n |-> Succ(b)], pred |-> {}, origin |-> [b \in 1 .. n |-> b]])

\* emitVariableDeclarations: the blocks with slots
Slotted(g, follow) ==
    {b \in Blocks(g) : Cardinality(EdgesTo(g, b)) > 1} \cup ({follow[h] : h \in DOMAIN follow} \ {NoBlock})
Shaped(p, g, s) ==
    [succ |-> g.succ, origin |-> g.origin, success |-> s.success, ipdom |-> s.ipdom, loops |-> s.loops,
     follow |-> s.follow, slots |-> Slotted(g, s.follow),
     depth |-> [b \in Blocks(g) |-> p.depth[g.origin[b]]]]
OfStructure(p, s) == Shaped(p, s.graph, s)

\* What the code of a block does with the stack.  fresh: uses up all operands and computes new ones;
\* keep: leaves what it can and adds new ones; reverse: the same, upside down; test: as keep, and the
\* condition is a copy of the top.
DepthAfter(p, b) ==
    LET s == GraphOf(p).succ[b] IN IF s = <<>> THEN 1 ELSE p.depth[s[1]]
Effect(mode, s, fresh) ==
    LET kept == Lesser(Len(s), Len(fresh)) IN
    CASE mode = "fresh" -> fresh
      [] mode \in {"keep", "test"} -> SubSeq(s, 1, kept) \o SubSeq(fresh, kept + 1, Len(fresh))
      [] mode = "reverse" -> Reverse(SubSeq(s, 1, kept)) \o SubSeq(fresh, kept + 1, Len(fresh))
Condition(mode, s, fresh) == IF mode = "test" /\ s # <<>> THEN Last1(s) ELSE fresh

Slot(b, j) == <<"slot", b, j>>
Temp(b, j) == <<"temp", b, j>>
SlotsOf(S, b) == [j \in 1 .. S.depth[b] |-> Slot(b, j)]

---------------------------------------------------------------------------------
(* Writing the shader.  Code is a sequence of statements; the stack of texts is passed along. *)

Written(code, texts) == [ok |-> TRUE, code |-> code, texts |-> texts]
Failed == [ok |-> FALSE, code |-> <<>>, texts |-> <<>>]
Stmt(op, target, texts) == [op |-> op, target |-> target, texts |-> texts]

\* emitBlockCode: the statement holds the texts the block finds and leaves, and its condition
Run(S, p, b, texts) ==
    LET entry == IF b \in S.slots THEN SlotsOf(S, b) ELSE texts
        o == S.origin[b]
        fresh == [j \in 1 .. DepthAfter(p, o) |-> Temp(b, j)]
    IN [op |-> "run", target |-> b, texts |-> entry, out |-> Effect(p.mode, entry, fresh),
        cond |-> Condition(p.mode, entry, Temp(b, 0))]
\* emitStackToEntrySlots
\* Faulty: the top of the stack goes to the first slot.
SlotCodeReversed(S, b, texts) ==
    IF b \in S.slots THEN <<Stmt("slots", b, SubSeq(Reverse(texts), 1, Lesser(S.depth[b], Len(texts))))>> ELSE <<>>
SlotCode(S, b, texts) ==
    IF b \in S.slots THEN <<Stmt("slots", b, SubSeq(texts, 1, Lesser(S.depth[b], Len(texts))))>> ELSE <<>>
\* An edge that assigns no slots: not a statement, a remark
Silent(S, b) == IF b \in S.slots /\ S.depth[b] > 0 THEN <<Stmt("silent", b, <<>>)>> ELSE <<>>
\* emitUnwindBreakIfNeeded
Unwind(headers) == <<Stmt("unwind", NoBlock, headers)>>

\* lcaPostdom, computeBranchJoin
Chain(S, b) ==
    LET c[k \in 1 .. Len(S.succ) + 1] ==
            IF k = 1 THEN b ELSE LET before == c[k - 1] IN IF before = NoBlock THEN NoBlock ELSE S.ipdom[before]
    IN [k \in 1 .. Len(S.succ) + 1 |-> c[k]]
LcaPostdom(S, a, b) ==
    LET above == ToSet(Chain(S, a)) \ {NoBlock}
        chain == SelectSeq(Chain(S, b), LAMBDA x : x \in above)
    IN IF chain = <<>> THEN NoBlock ELSE chain[1]
BranchJoin(S, t, f, stop) == LET join == LcaPostdom(S, t, f) IN IF join = NoBlock THEN stop ELSE join

Current(headers) == IF headers = <<>> THEN NoBlock ELSE Last1(headers)
FollowOf(S, h) == IF h \in DOMAIN S.follow THEN S.follow[h] ELSE NoBlock
\* findEnclosingLoopForFollow: the innermost loop that the block follows
Enclosing(S, b, headers) ==
    LET found == SelectSeq(headers, LAMBDA h : FollowOf(S, h) = b) IN IF found = <<>> THEN NoBlock ELSE Last1(found)

\* The join of a branch is the end of the loop, which the branch that was not written must leave.
\* Faulty: it leaves an if, and so starts the loop again.
LeavesNothing(S, h, join, stop) == FALSE
LeavesAtJoin(S, h, join, stop) == h # NoBlock /\ join = stop /\ stop = FollowOf(S, h)

RECURSIVE Walk(_, _, _, _, _, _, _, _)
\* emitStructuredFrom; a region that is entered again while it is written cannot be structured,
\* which canStructureFrom finds before anything is written
Region(S, p, start, stop, headers, texts, open) ==
    LET key == <<start, stop, headers>> IN
    IF key \in open THEN Failed ELSE Walk(S, p, start, stop, headers, {}, texts, open \cup {key})

\* emitEdgeToBlock, and canEdgeToBlock
Edge(S, p, b, stop, headers, texts, open) ==
    LET h == Current(headers)
        slots == SlotCode(S, b, texts)
    IN IF h # NoBlock /\ b = FollowOf(S, h) THEN Written(slots \o <<Stmt("break", NoBlock, <<>>)>>, texts)
       ELSE IF h # NoBlock /\ b = h THEN Written(slots \o <<Stmt("continue", NoBlock, <<>>)>>, texts)
       ELSE IF h # NoBlock /\ b \notin S.loops[h]
       THEN LET outer == Enclosing(S, b, headers) IN
            IF outer = NoBlock THEN Failed
            ELSE Written(slots \o <<Stmt("break", outer, <<>>)>>, texts)
       ELSE IF b = stop THEN Written(slots, texts)
       ELSE LET region == Region(S, p, b, stop, headers, texts, open) IN [region EXCEPT !.code = slots \o @]

\* handleBranch: the two edges of a jump, one of them not written if it leads to the join
BranchCode(S, p, run, t, f, join, headers, open) ==
    LET yes == Edge(S, p, t, join, headers, run.out, open)
        no == Edge(S, p, f, join, headers, run.out, open)
        If(then, else) == <<[op |-> "if", target |-> NoBlock, texts |-> <<run.cond>>, then |-> then, else |-> else]>>
    IN IF ~yes.ok \/ ~no.ok THEN Failed
       ELSE Written(IF join = f THEN If(yes.code, Silent(S, f)) ELSE IF join = t THEN If(Silent(S, t), no.code)
                    ELSE If(yes.code, no.code), run.out)

\* traverseStructure
Walk(S, p, b, stop, headers, visited, texts, open) ==
    LET h == Current(headers)
        Then(first, rest) == IF first.ok /\ rest.ok THEN Written(first.code \o rest.code, rest.texts) ELSE Failed
        WalkOn(next, seen, written) == Then(written, Walk(S, p, next, stop, headers, seen, written.texts, open))
    IN IF b = stop THEN Written(<<>>, texts)
       ELSE IF b = NoBlock THEN Failed
       ELSE IF b \in DOMAIN S.loops /\ ~Contains(headers, b)
       THEN LET body == Region(S, p, b, S.follow[b], Append(headers, b), texts, open)
                loop == <<[op |-> "loop", target |-> b, texts |-> <<>>, body |-> body.code]>>
            IN WalkOn(S.follow[b], visited, [body EXCEPT !.code = loop \o Unwind(headers)])
       ELSE IF b \in visited THEN Failed
       ELSE LET run == Run(S, p, b, texts)
                succ == S.succ[b]
                ran == Written(<<run>>, run.out)
                next == succ[1]
            IN IF succ = <<>>
               THEN Written(<<run, Stmt("exit", NoBlock, IF run.out = <<>> THEN <<>> ELSE <<Last1(run.out)>>)>>, run.out)
               ELSE IF Len(succ) = 1 \/ succ[1] = succ[2]
               THEN IF h # NoBlock /\ (next \in {h, FollowOf(S, h)} \/ next \notin S.loops[h])
                    THEN Then(ran, Edge(S, p, next, stop, headers, run.out, open))
                    ELSE IF next = stop THEN Written(<<run>> \o Silent(S, next), run.out)
                    ELSE WalkOn(next, visited \cup {b}, [ran EXCEPT !.code = @ \o SlotCode(S, next, run.out)])
               ELSE LET join == BranchJoin(S, succ[1], succ[2], stop)
                        branch == BranchCode(S, p, run, succ[1], succ[2], join, headers, open)
                        both == Then(ran, [branch EXCEPT !.code = @ \o Unwind(headers)])
                    IN IF LeavesAtJoin(S, h, join, stop)
                       THEN Then(both, Written(SlotCode(S, join, run.out) \o <<Stmt("break", NoBlock, <<>>)>>, run.out))
                       ELSE WalkOn(join, visited \cup {b}, both)

Structured(S, p) == Region(S, p, 1, NoBlock, <<>>, <<>>, {})

\* emitMainFunctionStateMachine: the cases of the switch.  A block without slots is given the texts
\* that the case before it in the text has left.
Cases(S, p) ==
    LET Case(run) ==
            LET succ == S.succ[run.target] IN
            <<run>> \o
            (IF succ = <<>> THEN <<Stmt("exit", NoBlock, IF run.out = <<>> THEN <<>> ELSE <<Last1(run.out)>>)>>
             ELSE FlattenSeq([i \in DOMAIN succ |-> SlotCode(S, succ[i], run.out)])
                  \o <<[op |-> "goto", target |-> run.target, texts |-> <<run.cond>>, succ |-> succ]>>)
        runs[b \in DOMAIN S.succ] ==
            IF b = 1 THEN Run(S, p, 1, <<>>) ELSE LET before == runs[b - 1] IN Run(S, p, b, before.out)
    IN [b \in DOMAIN S.succ |-> Case(runs[b])]

\* emitMainFunctionStructured
Shader(S, p) ==
    LET structured == Structured(S, p) IN
    IF S.success /\ structured.ok
    THEN [machine |-> FALSE, code |-> structured.code, cases |-> <<>>]
    ELSE [machine |-> TRUE, code |-> <<>>, cases |-> Cases(S, p)]
---------------------------------------------------------------------------------
(* Running it, next to the expression. *)

Unset == <<"unset">>
Zero == <<"zero">>
Machine == frames # <<>> /\ Last1(frames).kind = "machine"

\* Frames: the statements left, and the body of the loop that starts again when none is.  The
\* outermost one is the do { } while (false) around structured code, or the loop of the machine.
Frame(kind, code, again) == [kind |-> kind, rest |-> code, again |-> again]

Started(shader) ==
    IF shader.machine THEN <<Frame("machine", shader.cases[1], shader.cases)>>
    ELSE <<Frame("once", shader.code, <<>>)>>
Init ==
    /\ program \in Programs
    /\ \E graph \in {Reduced(GraphOf(program), program.small, program.limit)} :
          shape = OfStructure(program, Describe(graph))
    /\ frames = Started(Shader(shape, program))
    /\ values = [b \in {} |-> Unset] /\ result = Zero /\ raised = {}
    /\ where = 1 /\ stack = <<>> /\ cond = Unset /\ done = Unset
    /\ parity = 0 /\ causes = {}

Head1 == frames[1]
Ready == frames # <<>> /\ Head1.rest # <<>>
Next1 == Head1.rest[1]
ValueOf(text) == IF text \in DOMAIN values THEN values[text] ELSE Unset
Step == [Head1 EXCEPT !.rest = Tail(@)]
Stepped == <<Step>> \o Tail(frames)
\* break leaves the innermost loop, continue starts it again
InnermostLoop == CHOOSE i \in DOMAIN frames : frames[i].kind # "if" /\ \A j \in 1 .. i - 1 : frames[j].kind = "if"
Left == SubSeq(frames, InnermostLoop + 1, Len(frames))
Again == <<[frames[InnermostLoop] EXCEPT !.rest = frames[InnermostLoop].again]>> \o Left
Assigned(pairs) == [text \in DOMAIN values \cup {pr[1] : pr \in pairs} |->
                      IF \E pr \in pairs : pr[1] = text THEN (CHOOSE pr \in pairs : pr[1] = text)[2] ELSE values[text]]

OriginSucc(b) == GraphOf(program).succ[b]
\* Two edges that lead to the same block are one.
Branches(b) == Cardinality(ToSet(OriginSucc(b))) = 2
Fresh(n) == [j \in 1 .. n |-> <<where, j, parity>>]

\* A block of the shader and the block the expression is at run together.
RunBlock ==
    /\ Ready /\ Next1.op = "run"
    /\ LET n == DepthAfter(program, where)
           new == Effect(program.mode, stack, Fresh(n))
           o == shape.origin[Next1.target]
       IN /\ stack' = new
          /\ cond' = IF Branches(where) THEN Condition(program.mode, stack, <<where, 0, parity>>) ELSE Unset
          /\ values' = Assigned({<<Temp(Next1.target, j), <<o, j, parity>>>> : j \in 0 .. n})
          /\ where' = IF Branches(where) THEN where
                      ELSE IF OriginSucc(where) = <<>> THEN NoBlock ELSE OriginSucc(where)[1]
          /\ done' = IF OriginSucc(where) = <<>> THEN new[Len(new)] ELSE done
    /\ parity' = 1 - parity
    /\ frames' = Stepped
    /\ UNCHANGED <<program, shape, result, raised, causes>>

\* The assignments are made one after the other.
AssignSlots ==
    /\ Ready /\ Next1.op = "slots"
    /\ LET b == Next1.target
           source == Next1.texts
           after[k \in 0 .. Len(source)] ==
               IF k = 0 THEN values
               ELSE LET before == after[k - 1]
                        text == source[k]
                        v == IF text \in DOMAIN before THEN before[text] ELSE Unset
                    IN [t \in DOMAIN before \cup {Slot(b, k)} |-> IF t = Slot(b, k) THEN v ELSE before[t]]
       IN /\ values' = after[Len(source)]
          /\ causes' = causes
               \cup (IF \E k \in DOMAIN source : \E j \in 1 .. k - 1 : source[k] = Slot(b, j) THEN {"parallel"} ELSE {})
               \cup (IF Machine /\ \E k \in DOMAIN source : Head1.rest[Len(Head1.rest)].texts = <<Slot(b, k)>> THEN {"machine"} ELSE {})
    /\ frames' = Stepped
    /\ UNCHANGED <<program, shape, result, raised, where, stack, cond, done, parity>>

\* No statement: an edge whose target has slots that are not assigned.
SilentEdge ==
    /\ Ready /\ Next1.op = "silent"
    /\ causes' = causes \cup {"silent"}
    /\ frames' = Stepped
    /\ UNCHANGED <<program, shape, values, result, raised, where, stack, cond, done, parity>>

\* The next case of the machine; one without slots finds its operands only after the case above it.
GoOn(next) ==
    /\ frames' = <<[Head1 EXCEPT !.rest = Head1.again[next]]>>
    /\ causes' = causes \cup (IF Head1.again[next][1].texts # <<>> /\ next \notin shape.slots /\ next # Next1.target + 1
                              THEN {"machine"} ELSE {})
Decide(taken) ==
    /\ Ready
    /\ \/ /\ Next1.op = "if"
          /\ frames' = <<Frame("if", IF taken THEN Next1.then ELSE Next1.else, <<>>), Step>> \o Tail(frames)
          /\ UNCHANGED causes
       \/ /\ Next1.op = "goto"
          /\ GoOn(IF Len(Next1.succ) = 1 \/ taken THEN Next1.succ[1] ELSE Next1.succ[2])
    /\ where' = IF cond = Unset THEN where ELSE IF taken THEN OriginSucc(where)[1] ELSE OriginSucc(where)[2]
    /\ cond' = Unset
    /\ UNCHANGED <<program, shape, values, result, raised, stack, done, parity>>

EnterLoop ==
    /\ Ready /\ Next1.op = "loop"
    /\ frames' = <<Frame("loop", Next1.body, Next1.body)>> \o Stepped
    /\ raised' = raised \ {Next1.target}
    /\ UNCHANGED <<program, shape, values, result, ghostVars>>

\* A break for an outer loop raises the flag of that loop.
Break ==
    /\ Ready /\ Next1.op = "break"
    /\ frames' = Left
    /\ raised' = raised \cup ({Next1.target} \ {NoBlock})
    /\ UNCHANGED <<program, shape, values, result, ghostVars>>
Continue ==
    /\ Ready /\ Next1.op = "continue"
    /\ frames' = Again
    /\ UNCHANGED <<program, shape, values, result, raised, ghostVars>>
UnwindLoop ==
    /\ Ready /\ Next1.op = "unwind"
    /\ frames' = IF raised \cap (ToSet(Next1.texts) \cup {NoBlock}) # {} THEN Left ELSE Stepped
    /\ UNCHANGED <<program, shape, values, result, raised, ghostVars>>

\* emitSetResultAndExit
ExitShader ==
    /\ Ready /\ Next1.op = "exit"
    /\ result' = IF Next1.texts = <<>> THEN Zero ELSE ValueOf(Next1.texts[1])
    /\ raised' = raised \cup {NoBlock}
    /\ frames' = Left
    /\ UNCHANGED <<program, shape, values, ghostVars>>

\* The end of a branch, of the body of a loop, which starts again, or of everything.
EndOfFrame ==
    /\ frames # <<>> /\ Head1.rest = <<>>
    /\ frames' = IF Head1.kind = "loop" THEN Again ELSE Tail(frames)
    /\ UNCHANGED <<program, shape, values, result, raised, ghostVars>>

Next == RunBlock \/ AssignSlots \/ SilentEdge \/ (\E taken \in BOOLEAN : Decide(taken)) \/ EnterLoop \/ Break
        \/ Continue \/ UnwindLoop \/ ExitShader \/ EndOfFrame
Spec == Init /\ [][Next]_vars

---------------------------------------------------------------------------------
\* However the graph was copied, split, nested into loops and left by breaks and flags, the shader
\* runs the blocks of the expression in the order of the expression, and stops where it stops.
FollowsThePath ==
    /\ Ready /\ Next1.op = "run" => shape.origin[Next1.target] = where
    /\ frames = <<>> => where = NoBlock

\* Where a shader reads operands, conditions and the result, they are those of the expression, unless
\* the shader took one of the edges for which the README shows that they are not.
OperandsArrive ==
    causes = {} =>
        /\ Ready /\ Next1.op = "run" =>
             \A j \in 1 .. Lesser(Len(stack), Len(Next1.texts)) : ValueOf(Next1.texts[j]) = stack[j]
        /\ Ready /\ Next1.op = "if" => ValueOf(Next1.texts[1]) = cond
        /\ frames = <<>> => result = done

(* What paths say of a graph.  Through: no path leads from a to b but through c.  *)
Without(g, c) == [g EXCEPT !.succ = [b \in DOMAIN @ |-> IF b = c THEN <<>> ELSE SelectSeq(@[b], LAMBDA x : x # c)]]
Through(g, a, b, c) == a = c \/ b \notin Closure(Without(g, c), {a})
EndsFrom(g, b) == {e \in Closure(g, {b}) : g.succ[e] = <<>>}
Closes(g, b, a) == \A e \in EndsFrom(g, b) : Through(g, b, e, a)

\* Every block has the successors of its origin, in their order, and the graph stays in its bounds.
IsCopy(S, original, limit) ==
    /\ \A b \in DOMAIN S.succ : [i \in DOMAIN S.succ[b] |-> S.origin[S.succ[b][i]]] = original[S.origin[b]]
    /\ Len(S.succ) <= Max({limit, Len(original)})

\* Success means that every cycle is entered at one block; without it some blocks that reach each other,
\* with a copy for each way into them but one, exceed the limit.
IsReducible(S, g, limit) ==
    LET reachable == Reachable(g)
        Circle(b) == {c \in Closure(g, {b}) : b \in Closure(g, {c})}
        EnteredOnce(circle) == \E h \in circle : \A b \in circle : Through(g, 1, b, h)
        Doors(circle) == {b \in circle : \E p \in reachable \ circle : b \in Targets(g, p)}
        Fits(circle) == Len(g.succ) + (Cardinality(Doors(circle)) - 1) * Cardinality(circle) <= limit
    IN IF S.success THEN \A b \in reachable : EnteredOnce(Circle(b))
       ELSE \E b \in reachable : ~EnteredOnce(Circle(b)) /\ ~Fits(Circle(b))

\* The loops are exactly those whose header every path to one of their jumps back passes, and a body has
\* exactly the blocks from which such a jump is reached within the loop.
LoopsAreLoops(S, g) ==
    LET reachable == Reachable(g)
        Latches(h) == {u \in reachable : h \in Targets(g, u) /\ Through(g, 1, u, h)}
        Body(h) == {h} \cup {b \in reachable \ {h} : Closure(Without(g, h), {b}) \cap Latches(h) # {}}
    IN /\ DOMAIN S.loops = {h \in reachable : Latches(h) # {}}
       /\ \A h \in DOMAIN S.loops : S.loops[h] = Body(h)

\* ipdom is the first of the blocks that close all paths from a block, and follow the first of them
\* outside of the loop; there is none only if no block does.  A block with no way to the end has no such.
ClosersAreFirst(S, g) ==
    LET ending == {b \in Reachable(g) : EndsFrom(g, b) # {}}
        closers == [b \in ending |-> {a \in ending \ {b} : Closes(g, b, a)}]
        IsFirst(a, among) == IF among = {} THEN a = NoBlock ELSE a \in among /\ \A c \in among : Closes(g, a, c)
    IN /\ \A b \in ending : IsFirst(S.ipdom[b], closers[b])
       /\ \A h \in DOMAIN S.loops \cap ending : IsFirst(S.follow[h], closers[h] \ S.loops[h])

\* The structure the shader is written from is that of the paths of the expression: a copy of its graph;
\* it passes for reducible exactly if each component is entered at one block, and fails to be only for the
\* limit; loops, follow blocks and post-dominators are those of paths, none more and none less.  (A cycle
\* with several entries inside of a loop with one is not looked for, see the README.)  The structure never
\* changes, so it is looked at before the first block runs.
StructureIsSound ==
    DOMAIN values = {} =>
        LET g == [succ |-> shape.succ] IN
        /\ IsCopy(shape, GraphOf(program).succ, program.limit)
        /\ IsReducible(shape, g, program.limit)
        /\ shape.success => LoopsAreLoops(shape, g) /\ ClosersAreFirst(shape, g)
================================================================================
