----------------------------- MODULE StructurizeCFG -----------------------------
(***************************************************************************)
(* StructurizeCFGPass: prepares the control-flow graph of an expression    *)
(* for GLSL, which has no goto.  Small joins are copied into their         *)
(* predecessors, and if the graph is not reducible, components with more   *)
(* than one entry are copied, once for each entry but the first.  Then     *)
(* loops, their follow blocks and immediate post-dominators are computed.  *)
(*                                                                         *)
(* A graph is a record: succ, the successors of each block in order; pred, *)
(* the edges <<from, place, to>> there were when predecessors were last    *)
(* written down, which copying leaves behind; and origin, the block of the *)
(* expression that each is a copy of.  Block 1 is the entry.               *)
(***************************************************************************)
EXTENDS Integers, Sequences, FiniteSets, SequencesExt, FiniteSetsExt

CONSTANT MaxRounds  \* components split in one pass; the code takes 128

NoBlock == 0        \* -1 in the code; also the virtual exit

Blocks(g) == DOMAIN g.succ
Targets(g, b) == ToSet(g.succ[b])
\* rebuild_predecessors, those that cannot be reached included
Rebuilt(g) == [g EXCEPT !.pred = UNION {{<<u, i, g.succ[u][i]>> : i \in DOMAIN g.succ[u]} : u \in Blocks(g)}]
EdgesTo(g, b) == {e \in g.pred : e[3] = b}
Preds(g, b) == {e[1] : e \in EdgesTo(g, b)}
Replaced(s, old, new) == [i \in DOMAIN s |-> IF s[i] = old THEN new ELSE s[i]]

Closure(g, from) ==
    LET reach[k \in 0 .. Len(g.succ)] ==
            IF k = 0 THEN from
            ELSE LET before == reach[k - 1] IN before \cup UNION {Targets(g, b) : b \in before}
    IN reach[Len(g.succ)]
\* compute_reachable
Reachable(g) == Closure(g, {1})

\* compute_scc_kosaraju
Components(g) ==
    LET reachable == Reachable(g)
        reaches == UNION {{b} \X Closure(g, {b}) : b \in reachable}
    IN {{c \in reachable : <<b, c>> \in reaches /\ <<c, b>> \in reaches} : b \in reachable}
IsCyclic(g, comp) == Cardinality(comp) > 1 \/ \E b \in comp : b \in Targets(g, b)
\* scc_entry_nodes
Entries(g, comp) == LET outside == Reachable(g) \ comp IN {b \in comp : Preds(g, b) \cap outside # {}}
ManyEntries(g) == {comp \in Components(g) : IsCyclic(g, comp) /\ Cardinality(Entries(g, comp)) > 1}
\* check_reducible
CheckReducible(g) == ManyEntries(g) = {}

Sorted(S) == SetToSortSeq(S, LAMBDA a, b : a < b)

(* tail_duplicate_trivial_joins: a small block that does not branch, is in no cycle and joins several
   predecessors is copied for each of them. *)
TrivialJoins(g, small) ==
    LET cyclic == UNION {comp \in Components(g) : IsCyclic(g, comp)} IN
    {c \in (Reachable(g) \ {1}) \ cyclic : Len(g.succ[c]) = 1 /\ small /\ Cardinality(EdgesTo(g, c)) >= 2}
CopiedFor(g, c, p) ==
    [succ |-> [Append(g.succ, g.succ[c]) EXCEPT ![p] = Replaced(g.succ[p], c, Len(g.succ) + 1)],
     pred |-> g.pred, origin |-> Append(g.origin, g.origin[c])]
\* The graph counts as changed once all copies of a block are made; the limit may come before that.
TailDuplicate(g, small, limit) ==
    LET joins == Sorted(TrivialJoins(g, small))
        copies == FlattenSeq([i \in DOMAIN joins |->
                     LET preds == Sorted(Preds(g, joins[i])) IN
                     [j \in DOMAIN preds |-> [join |-> joins[i], pred |-> preds[j], last |-> j = Len(preds)]]])
        after[k \in 0 .. Len(copies)] ==
            IF k = 0 THEN [graph |-> g, changed |-> FALSE]
            ELSE LET before == after[k - 1] IN
                 IF Len(before.graph.succ) + 1 > limit THEN before
                 ELSE [graph |-> CopiedFor(before.graph, copies[k].join, copies[k].pred),
                       changed |-> before.changed \/ copies[k].last]
    IN [after[Len(copies)] EXCEPT !.graph = Rebuilt(@)]

(* node_split_make_reducible *)
\* The component is copied; edges from outside of it that lead to the entry lead to its copy.
SplitFor(g, comp, entry, n, reachable) ==
    LET nodes == Sorted(comp)
        clone == [b \in comp |-> Len(g.succ) + (CHOOSE i \in DOMAIN nodes : nodes[i] = b)]
        Wired(s) == [i \in DOMAIN s |-> IF s[i] \in comp THEN clone[s[i]] ELSE s[i]]
        Redirected(b) == IF b <= n /\ b \in reachable \ comp THEN Replaced(g.succ[b], entry, clone[entry]) ELSE g.succ[b]
    IN [succ |-> [b \in DOMAIN g.succ |-> Redirected(b)] \o [i \in DOMAIN nodes |-> Wired(g.succ[nodes[i]])],
        pred |-> g.pred,
        origin |-> g.origin \o [i \in DOMAIN nodes |-> g.origin[nodes[i]]]]
\* One component: the first that is found, for which no other one leads to it.  full: the limit was met
\* before it was copied for all its entries.
SplitComponent(g, limit) ==
    LET many == ManyEntries(g)
        comp == CHOOSE c \in many : \A d \in many \ {c} : ~(c \subseteq Closure(g, d))
        entries == Sorted(Entries(g, comp))
        reachable == Reachable(g)
        after[k \in 1 .. Len(entries)] ==
            IF k = 1 THEN [graph |-> g, full |-> FALSE]
            ELSE LET before == after[k - 1] IN
                 IF before.full \/ Len(before.graph.succ) + Cardinality(comp) > limit
                 THEN [before EXCEPT !.full = TRUE]
                 ELSE [before EXCEPT !.graph = SplitFor(@, comp, entries[k], Len(g.succ), reachable)]
    IN after[Len(entries)]
\* A round starts with predecessors rebuilt; the graph the last one leaves keeps those it started with.
NodeSplit(g, limit) ==
    LET round[k \in 0 .. MaxRounds] ==
            IF k = 0 THEN [graph |-> g, full |-> FALSE, changed |-> FALSE]
            ELSE LET before == round[k - 1]
                     fresh == Rebuilt(before.graph)
                 IN IF before.full THEN before
                    ELSE IF CheckReducible(fresh) THEN [before EXCEPT !.graph = fresh]
                    ELSE LET split == SplitComponent(fresh, limit) IN
                         [graph |-> split.graph, full |-> split.full, changed |-> before.changed \/ ~split.full]
    IN round[MaxRounds]

---------------------------------------------------------------------------------
(* Both fixed points start from everything and shrink. *)

Meeting(sets, all) == IF sets = {} THEN all ELSE {x \in all : \A s \in sets : x \in s}

\* compute_dominators
Dominators(g) ==
    LET reachable == Reachable(g)
        round[k \in 0 .. Len(g.succ)] ==
            IF k = 0 THEN [b \in Blocks(g) |-> IF b = 1 THEN {1} ELSE IF b \in reachable THEN Blocks(g) ELSE {b}]
            ELSE LET before == round[k - 1] IN
                 [b \in Blocks(g) |->
                    IF b = 1 \/ b \notin reachable THEN before[b]
                    ELSE IF Preds(g, b) = {} THEN {b}
                    ELSE {b} \cup Meeting({before[p] : p \in Preds(g, b) \cap reachable}, Blocks(g))]
    IN round[Len(g.succ)]

\* compute_postdominators, with the virtual exit after blocks without successors
PostDominators(g) ==
    LET all == Blocks(g) \cup {NoBlock}
        reachable == Reachable(g)
        Next(b) == IF g.succ[b] = <<>> THEN {NoBlock} ELSE Targets(g, b)
        round[k \in 0 .. Len(g.succ) + 1] ==
            IF k = 0 THEN [b \in all |-> IF b = NoBlock THEN {NoBlock} ELSE all]
            ELSE LET before == round[k - 1] IN
                 [b \in all |-> IF b \notin reachable THEN before[b]
                                ELSE {b} \cup Meeting({before[s] : s \in Next(b)}, all)]
    IN round[Len(g.succ) + 1]

\* compute_ipdom_for_node: the strict post-dominator that post-dominates no other one
ImmediatePostDominator(g) ==
    LET pdom == PostDominators(g)
        Closest(b) == LET strict == pdom[b] \ {b}
                          best == {c \in strict : \A other \in strict \ {c} : c \notin pdom[other]}
                      IN IF best \ {NoBlock} = {} THEN NoBlock ELSE Min(best \ {NoBlock})
    IN [b \in Blocks(g) |-> IF b \in Reachable(g) THEN Closest(b) ELSE NoBlock]

\* compute_natural_loops: headers and the blocks that reach a back edge without passing the header
BackEdges(g, dom) ==
    {e \in Reachable(g) \X Reachable(g) : e[2] \in Targets(g, e[1]) /\ e[2] \in dom[e[1]]}
NaturalLoops(g) ==
    LET edges == BackEdges(g, Dominators(g))
        Body(h) ==
            LET grown[k \in 0 .. Len(g.succ)] ==
                    IF k = 0 THEN {e[1] : e \in {e \in edges : e[2] = h}} \cup {h}
                    ELSE LET before == grown[k - 1] IN
                         before \cup (UNION {Preds(g, b) : b \in before \ {h}} \cap Reachable(g))
            IN grown[Len(g.succ)]
    IN [h \in {e[2] : e \in edges} |-> Body(h)]

\* compute_loop_follow: the first post-dominator of the header outside of the loop
Follow(ipdom, body, h) ==
    LET after[k \in 0 .. Cardinality(body)] ==
            IF k = 0 THEN ipdom[h]
            ELSE LET before == after[k - 1] IN IF before # NoBlock /\ before \in body THEN ipdom[before] ELSE before
    IN after[Cardinality(body)]

\* run: the graph is made reducible, then described.  A graph that does not count as changed is not used.
\* Faulty: a graph that was not made reducible, because of the limit, passes for one that was.
StructureUnchecked(graph, ipdom, loops) ==
    [graph |-> graph, success |-> TRUE, ipdom |-> ipdom, loops |-> loops,
     follow |-> [h \in DOMAIN loops |-> Follow(ipdom, loops[h], h)]]
Structure(graph, ipdom, loops) ==
    [graph |-> graph, success |-> CheckReducible(graph), ipdom |-> ipdom, loops |-> loops,
     follow |-> [h \in DOMAIN loops |-> Follow(ipdom, loops[h], h)]]
Describe(graph) == Structure(graph, ImmediatePostDominator(graph), NaturalLoops(graph))
MakeReducible(g, joined, limit) ==
    LET split == IF CheckReducible(g) THEN joined ELSE NodeSplit(joined.graph, limit)
    IN IF joined.changed \/ split.changed THEN split.graph ELSE g
Reduced(g, small, limit) == MakeReducible(g, TailDuplicate(g, small, limit), limit)
================================================================================
