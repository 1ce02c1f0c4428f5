------------------------------ MODULE MCGlslControl ------------------------------
(* Instances of GlslControl for TLC: every expression of a few blocks. *)
EXTENDS GlslControl

(* Blocks of n; the last does not jump, and the depths of the two sides of a jump agree. *)
Targets1(n) == [1 .. n - 1 -> 0 .. n]
Shapes(n, depths) ==
    {[target |-> Append(t, 0), depth |-> <<0>> \o d] : t \in Targets1(n), d \in [1 .. n - 1 -> depths]}
Consistent(s) == \A b \in DOMAIN s.target : s.target[b] # 0 => s.depth[s.target[b]] = s.depth[b + 1]
With(shapes, modes, smalls, limits) ==
    {[target |-> s.target, depth |-> s.depth, mode |-> m, small |-> k, limit |-> l] :
        s \in {s \in shapes : Consistent(s)}, m \in modes, k \in smalls, l \in limits}

Empty == With(Shapes(5, {0}), {"fresh"}, BOOLEAN, {12})
Deep == With(Shapes(4, 0 .. 2), {"keep", "reverse"}, {FALSE}, {12}) \cup With(Shapes(4, 0 .. 1), {"test", "fresh"}, BOOLEAN, {12})
(* The limit met at once, where it matters. *)
Full == {p \in With(Shapes(5, {0}), {"fresh"}, BOOLEAN, {8}) : ~CheckReducible(GraphOf(p))}
(* Three blocks that reach each other, each entered from outside; after them a block that is copied.  The
   limit is met with one of two copies made. *)
Third == {p \in With({[target |-> <<a, b, c, d, e, 0, 0>>, depth |-> <<0>> \o [i \in 1 .. 6 |-> k]] :
                       a \in {4, 5}, b \in {4, 5}, c \in {0, 5, 6}, d \in {0, 3, 6}, e \in {3, 4}, k \in 0 .. 1},
                     {"fresh"}, BOOLEAN, {12}) : ~CheckReducible(GraphOf(p))}
All == Empty \cup Deep \cup Full \cup Third
================================================================================
