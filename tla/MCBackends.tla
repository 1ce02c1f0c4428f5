------------------------------- MODULE MCBackends -------------------------------
(* Instances of Backends for TLC. *)
EXTENDS Backends

(* Library functions: any function will do. *)
MCUnaryFn(type, a) == IF type = "Sqrt" THEN a ELSE 1 - a
MCBinaryFn(type, a, b) == (a - 2 * b) % 5
MCPixelAt(source, cx, cy) == 1 + ((3 * source + 2 * cx + 5 * cy) % 7)

W(types) == {[type |-> t] : t \in types}
Numbers(values) == {[type |-> "Number", value |-> v] : v \in values}
Counted(type, ns) == {[type |-> type, n |-> n] : n \in ns}
Variable == {[type |-> t, name |-> "u"] : t \in {"VarStore", "VarLoad"}}
Access(type, clip, xs, ys, suffixes) ==
    {[type |-> type, clip |-> clip, x |-> cx, y |-> cy, suffix |-> s] : cx \in xs, cy \in ys, s \in suffixes}
Plain(w, h) == [width |-> w, height |-> h, tileX |-> 0, tileY |-> 0, minX |-> 0, maxX |-> 0]
Geometry(ws, hs, txs, tys, mins, maxs) ==
    [width : ws, height : hs, tileX : txs, tileY : tys, minX : mins, maxX : maxs]

Family(words, limit, geometries, pixels, stacks) ==
    [words |-> words, limit |-> limit, geometries |-> geometries, watched |-> pixels, stacks |-> stacks]

Arithmetic == Family(W(Unary \cup Binary \cup Ternary) \cup Numbers({-2, 1, 3}), 4,
                     {Plain(1, 1)}, {<<0, 0>>}, {<<>>})
StackOps == Numbers({2, 4}) \cup Counted("Dup", {None, 0, 1}) \cup Counted("Drop", {None, 2})
            \cup Counted("Swap", {None, 2})
Moves == Family(StackOps \cup Variable \cup W({"Add", "ExitNoWrite"}), 6, {Plain(1, 1)}, {<<0, 0>>}, {<<>>})
Arrays == Family(W({"ArrayAllocStatic", "ArrayLoad", "ArrayStore", "Add"}) \cup Numbers({0, 2}), 7,
                 {Plain(1, 1)}, {<<0, 0>>}, {<<>>})
Reads == Family(Access("ClipRel", 0, -2 .. 2, {0}, {"", "m"}) \cup Access("ClipRel", 1, {1}, {-1, 2}, {"c", "b"})
                \cup Access("ClipAbs", 1, {None}, {None}, {"", "m", "b"})
                \cup Access("BufferRel", 0, {-1}, {0, 1}, {""}) \cup Access("BufferAbs", 0, {None}, {None}, {"c"})
                \cup {[type |-> "ClipCur", clip |-> 0], [type |-> "ClipCur", clip |-> 2], [type |-> "BufferCur", clip |-> 0]}
                \cup Numbers({-3, 7}) \cup W({"ConstantX", "ConstantY"}), 3,
                Geometry({1, 3}, {2}, {0, 2}, {1}, {-2, 0}, {0, 1}) \cup Geometry({4}, {1}, {3}, {0}, {-1}, {2}),
                (0 .. 3) \X (0 .. 1), {<<>>})
Writes == Family({[type |-> "PropAccess", clip |-> 0]} \cup W({"StoreAbs", "PropExists", "ConstantN", "ConstantPi", "ConstantWidth", "ConstantHeight"})
                 \cup Numbers({-2, 0, 2}) \cup W({"ConstantX", "ConstantY", "ExitNoWrite"}), 5,
                 Geometry({2}, {1}, {1}, {1}, {0}, {0}), {<<1, 0>>}, {<<>>})
Loops == Family({}, 0, Geometry(1 .. 5, 1 .. 2, {0, 1, 2, 3}, {0, 1}, -3 .. 0, 0 .. 2), {}, {<<>>})
ZeroOne(n) == [1 .. n -> {0, 2}]
SortWords(ns) == UNION {Counted(t, ns) : t \in Sorts}
(* By the zero-one principle these stacks show a network to sort; the last family has ties too, and a rest below. *)
Sorting == {Family(SortWords({n}), 1, {Plain(1, 1)}, {<<0, 0>>}, ZeroOne(n)) : n \in 1 .. 9}
           \cup {Family(SortWords(0 .. 4), 1, {Plain(1, 1)}, {<<0, 0>>}, [1 .. 4 -> {0, 1, 2, 3}])}

AllFamilies == {Arithmetic, Moves, Arrays, Reads, Writes, Loops} \cup Sorting

AllGeometries == UNION {f.geometries : f \in AllFamilies}
================================================================================
