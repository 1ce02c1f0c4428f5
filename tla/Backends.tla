-------------------------------- MODULE Backends --------------------------------
(***************************************************************************)
(* One expression on two back ends.  The CPU runs the code of              *)
(* ExprIRGenerator in the loops of PixelLoops; when they reach the pixel   *)
(* that is watched, the words of the expression are taken one by one, and  *)
(* an invocation of the shader that GLSLGenerator writes takes the same    *)
(* words for the same pixel.                                               *)
(*                                                                         *)
(* The stack of the IR generator holds values.  The stack of the GLSL      *)
(* generator holds text: a temporary, which is assigned once and stands    *)
(* for its value, a literal, or the name of a variable, which is read when *)
(* the text is used and not when it is pushed.                             *)
(***************************************************************************)
EXTENDS Operators, SortingNetworks, PixelLoops

CONSTANTS
    Families,       \* [words, limit, geometries, watched, stacks]: see Init
    Inputs,         \* clips; a buffer of an earlier stage is one more, see CpuAccess
    Buffers,
    PixelAt(_, _, _),   \* PixelAt(source, x, y)
    PropValue,
    MaxSample,      \* the largest sample of the output format, None for floats
    MaxDepth, MaxValue,     \* bounds of the exploration
    Excluded        \* the causes of divergence that expressions avoid

Exit == 1000000         \* the NaN of ^exit^
Unwritten == 1000001
Broken == 1000002       \* of a shader that does not compile

\* All causes of divergence, see Causes.
Known == {"alias", "literal", "Mod", "Copysign", "halves", "undefined"}

VARIABLES
    family, watched, mirror, hasProp,
    phase,          \* loops, words, stored
    count,          \* words taken
    depth,          \* the depth of the stack by the table of the tokenizer
    cpu, cpuVars, cpuArray, cpuOut,
    gpu, gpuVars, gpuArray, gpuOut

exprVars == <<phase, count, depth, cpu, cpuVars, cpuArray, cpuOut, gpu, gpuVars, gpuArray, gpuOut>>
allVars == <<loopVars, family, watched, mirror, hasProp, exprVars>>

Relative == {"ClipCur", "ClipRel", "BufferCur", "BufferRel"}
Absolute == {"ClipAbs", "BufferAbs"}
StackWords == {"Dup", "Drop", "Swap"}
Sorts == {"SortN", "ArgsortN", "ArgminN", "ArgmaxN"}
Variables == {"u"}
Cells == 0 .. 1         \* of the array a{}^2
Explored == -MaxValue .. MaxValue \cup {Exit}

\* The words that Expr and VkExpr have in common, and the reads of buffers; labels and jumps are
\* those of StackCodegen and GlslControl.
IsWord(w) ==
    /\ w.type \in Binary \cup Unary \cup Ternary \cup Constants \cup StackWords \cup Sorts \cup Relative \cup Absolute
                  \cup {"Number", "VarStore", "VarLoad", "ExitNoWrite", "PropAccess", "PropExists",
                        "ArrayAllocStatic", "ArrayLoad", "ArrayStore", "StoreAbs"}
    /\ w.type \in StackWords => w.n \in Nat \cup {None}
    /\ w.type \in Sorts => w.n \in 0 .. LargestNetwork
    /\ w.type \in {"VarStore", "VarLoad"} => w.name \in Variables
    /\ w.type \in {"ClipRel", "BufferRel"} => w.x \in Int /\ w.y \in Int
ASSUME BackendsAssumption ==
    /\ MaxSample \in Nat \cup {None} /\ MaxValue \in 0 .. Exit - 1
    /\ \A f \in Families : f.stacks \subseteq Seq(Explored) /\ \A w \in f.words : IsWord(w)

Value(v) == [text |-> "temp", value |-> v]
Literal(v) == [text |-> "literal", value |-> v]
Name(v) == [text |-> "name", name |-> v]
Texts == {Value(v) : v \in Int} \cup {Literal(v) : v \in Int} \cup {Name(v) : v \in Variables}
\* What a text stands for when it is used.
Read(e) == IF e.text = "name" THEN gpuVars[e.name] ELSE e.value

Pixels == Columns \X Rows
NoPixel == <<None, None>>

Init ==
    /\ LoopInit
    /\ family \in Families
    /\ geo \in family.geometries
    /\ watched \in IF family.watched = {} THEN {NoPixel} ELSE family.watched \cap Pixels
    /\ mirror \in BOOLEAN /\ hasProp \in BOOLEAN
    /\ watched = NoPixel => ~mirror /\ ~hasProp
    /\ phase = "loops" /\ count = 0
    /\ cpu \in family.stacks
    /\ depth = Len(cpu) /\ gpu = [i \in 1 .. Len(cpu) |-> Literal(cpu[i])]
    /\ cpuVars = [v \in Variables |-> Unwritten] /\ gpuVars = [v \in Variables |-> Unwritten]
    /\ cpuArray = [i \in Cells |-> Unwritten] /\ gpuArray = [i \in Cells |-> Unwritten]
    /\ cpuOut = [p \in Pixels |-> Unwritten] /\ gpuOut = [p \in Pixels |-> Unwritten]

Top(s, k) == SubSeq(s, Len(s) - k + 1, Len(s))
Below(s, k) == SubSeq(s, 1, Len(s) - k)
Popped(s, k) == Reverse(Top(s, k))      \* the order in which k values are popped

---------------------------------------------------------------------------------
(* The stack operations of both generators. *)

\* A comparator of sortN: IR selects on a comparison, GLSL uses min() and max().  A comparator of
\* argsortN, in both: nodes are ordered by value and then by index.
Select(v, i, j) == IF v[i] > v[j] THEN [v EXCEPT ![i] = v[j], ![j] = v[i]] ELSE v
MinMax(v, i, j) == [v EXCEPT ![i] = Lesser(v[i], v[j]), ![j] = Greater(v[i], v[j])]
SwapNodes(v, i, j) ==
    IF v[i][1] > v[j][1] \/ (v[i][1] = v[j][1] /\ v[i][2] > v[j][2])
    THEN [v EXCEPT ![i] = v[j], ![j] = v[i]] ELSE v
\* The network, applied to v with one of the comparators
Compare(comparator, pair, v) ==
    CASE comparator = "select" -> Select(v, pair[1] + 1, pair[2] + 1)
      [] comparator = "minmax" -> MinMax(v, pair[1] + 1, pair[2] + 1)
      [] comparator = "nodes" -> SwapNodes(v, pair[1] + 1, pair[2] + 1)
After(comparator, network, v) ==
    LET after[k \in 0 .. Len(network)] ==
            IF k = 0 THEN <<>> \o v ELSE Compare(comparator, network[k], after[k - 1])
    IN  after
Through(comparator, v) == After(comparator, Network[Len(v)], v)[Len(Network[Len(v)])]

\* The nodes of argminN, argmaxN and argsortN: a value and its index, counted from the bottom.
Nodes(v) == [i \in 1 .. Len(v) |-> <<v[i], Len(v) - i>>]
\* A round of argminN or argmaxN compares neighbours, and an odd one out passes.
\* Faulty: ties go to the value on the left.
BeatsOnTies(l, r, isMax) == IF isMax THEN l[1] >= r[1] ELSE l[1] <= r[1]
Beats(l, r, isMax) == (IF isMax THEN l[1] > r[1] ELSE l[1] < r[1]) \/ (l[1] = r[1] /\ l[2] < r[2])
NextLevel(level, isMax) ==
    [i \in 1 .. (Len(level) + 1) \div 2 |->
       IF 2 * i > Len(level) THEN level[2 * i - 1]
       ELSE IF Beats(level[2 * i - 1], level[2 * i], isMax) THEN level[2 * i - 1] ELSE level[2 * i]]
Winner(v, isMax) ==
    LET level[k \in 0 .. Len(v)] == IF k = 0 THEN Nodes(v) ELSE LET below == level[k - 1] IN <<>> \o NextLevel(below, isMax)
    IN level[Len(v)][1][2]
ArgSorted(v) == LET nodes == Through("nodes", Nodes(v)) IN [i \in 1 .. Len(v) |-> nodes[i][2]]
Index(i) == One * i

---------------------------------------------------------------------------------
(* Reading planes. *)

MirrorOf(t) == IF t.boundary = "global" THEN mirror ELSE t.boundary = "mirror"
\* A buffer of an earlier stage of VkExpr; on the CPU the stages are chained filters, and the
\* buffer is one more clip.
Source(t) == IF t.type \in BufferTypes THEN Inputs + t.clip ELSE t.clip

\* generateLoadFromRowPtr, generatePixelLoad: the column and the row that is read
ColumnCpu(c, m) == IF Unchecked THEN c ELSE FinalCoordCpu(c, geo.width, m)
RowCpu(c, m) == FinalCoordCpu(c, geo.height, m)
PlaceCpu(t, a) ==
    IF t.type \in {"ClipCur", "BufferCur"} THEN <<ColumnCpu(x, mirror), RowCpu(y, mirror)>>
    ELSE IF t.type \in {"ClipRel", "BufferRel"}
    THEN <<ColumnCpu(x + t.x, MirrorOf(t)), RowCpu(y + t.y, MirrorOf(t))>>
    ELSE <<FinalCoordCpu(IntegerPart(RoundEven(a[1])), geo.width, MirrorOf(t)),
           FinalCoordCpu(IntegerPart(RoundEven(a[2])), geo.height, MirrorOf(t))>>
AccessCpu(t, a) == PixelAt(Source(t), PlaceCpu(t, a)[1], PlaceCpu(t, a)[2])

\* The invocation of the shader for the watched pixel; planes are packed row after row.
gid == watched[2] * geo.width + watched[1]
X == gid % geo.width
Y == gid \div geo.width
PixelIndex(cx, cy) == cx + cy * geo.width
IndexOf(t, cx, cy) ==
    PixelIndex(FinalCoordGlsl(cx, geo.width, MirrorOf(t)), FinalCoordGlsl(cy, geo.height, MirrorOf(t)))
IndexGlsl(t, a) ==
    IF t.type \in {"ClipCur", "BufferCur"} THEN gid
    ELSE IF t.type \in {"ClipRel", "BufferRel"} THEN IndexOf(t, X + t.x, Y + t.y)
    ELSE IndexOf(t, IntegerPart(RoundEven(a[1])), IntegerPart(RoundEven(a[2])))
AccessGlsl(t, a) == PixelAt(Source(t), IndexGlsl(t, a) % geo.width, IndexGlsl(t, a) \div geo.width)

---------------------------------------------------------------------------------
(* The stacks after a word. *)

ConstantCpu(t) ==
    CASE t.type = "ConstantX" -> One * x
      [] t.type = "ConstantY" -> One * y
      [] t.type = "ConstantWidth" -> One * geo.width
      [] t.type = "ConstantHeight" -> One * geo.height
      [] t.type = "ConstantN" -> PropValue
      [] t.type = "ConstantPi" -> 6
ConstantGlsl(t) ==
    CASE t.type = "ConstantX" -> One * X
      [] t.type = "ConstantY" -> One * Y
      [] OTHER -> ConstantCpu(t)

MoveWords(t, s) ==
    CASE t.type = "Dup" -> Append(s, s[Len(s) - t.n])
      [] t.type = "Drop" -> IF t.n > 0 THEN Below(s, t.n) ELSE s
      [] t.type = "Swap" -> [s EXCEPT ![Len(s)] = s[Len(s) - t.n], ![Len(s) - t.n] = s[Len(s)]]

StackCpu(t) ==
    LET s == cpu
        Computed(k) == Append(Below(s, k), CpuCompute(t.type, Top(s, k)))
    IN CASE t.type \in Binary -> Computed(2)
         [] t.type \in Unary -> Computed(1)
         [] t.type \in Ternary -> Computed(3)
         [] t.type \in Constants -> Append(s, ConstantCpu(t))
         [] t.type = "Number" -> Append(s, t.value)
         [] t.type \in StackWords -> MoveWords(t, s)
         [] t.type = "SortN" ->
              IF t.n < 2 THEN s ELSE Below(s, t.n) \o Reverse(Through("select", Popped(s, t.n)))
         [] t.type \in {"ArgminN", "ArgmaxN"} ->
              IF t.n < 1 THEN Append(s, 0)
              ELSE Append(Below(s, t.n), Index(Winner(Popped(s, t.n), t.type = "ArgmaxN")))
         [] t.type = "ArgsortN" ->
              IF t.n < 1 THEN s ELSE IF t.n = 1 THEN Append(Below(s, 1), 0)
              ELSE Below(s, t.n) \o [i \in 1 .. t.n |-> Index(Reverse(ArgSorted(Popped(s, t.n)))[i])]
         [] t.type = "VarStore" -> Below(s, 1)
         [] t.type = "VarLoad" -> Append(s, cpuVars[t.name])
         [] t.type \in Relative -> Append(s, AccessCpu(t, <<>>))
         [] t.type \in Absolute -> Append(Below(s, 2), AccessCpu(t, Top(s, 2)))
         [] t.type = "ExitNoWrite" -> Append(s, Exit)
         [] t.type = "PropAccess" -> Append(s, PropValue)
         [] t.type = "PropExists" -> Append(s, Truth(hasProp))
         [] t.type = "ArrayAllocStatic" -> s
         [] t.type = "ArrayLoad" -> Append(Below(s, 1), cpuArray[IntegerPart(s[Len(s)])])
         [] t.type = "ArrayStore" -> Below(s, 2)
         [] t.type = "StoreAbs" -> Below(s, 3)

ReadAll(texts) == [i \in 1 .. Len(texts) |-> Read(texts[i])]
ValuesOf(values) == [i \in 1 .. Len(values) |-> Value(values[i])]
\* -a with the text of a negative number reads --1.0, which is no expression
RejectedByGlsl(t) == t.type = "Neg" /\ gpu[Len(gpu)].text = "literal" /\ gpu[Len(gpu)].value < 0

StackGlsl(t) ==
    LET s == gpu
        Computed(k) == Append(Below(s, k), Value(IF RejectedByGlsl(t) THEN Broken
                                                 ELSE GlslCompute(t.type, ReadAll(Top(s, k)))))
    IN CASE t.type \in Binary -> Computed(2)
         [] t.type \in Unary -> Computed(1)
         [] t.type \in Ternary -> Computed(3)
         [] t.type \in Constants -> Append(s, Literal(ConstantGlsl(t)))
         [] t.type = "Number" -> Append(s, Literal(t.value))
         [] t.type \in StackWords -> MoveWords(t, s)
         [] t.type = "SortN" ->
              IF t.n < 2 THEN s
              ELSE Below(s, t.n) \o Reverse(ValuesOf(Through("minmax", ReadAll(Popped(s, t.n)))))
         [] t.type \in {"ArgminN", "ArgmaxN"} ->
              IF t.n < 1 THEN Append(s, Literal(0))
              ELSE Append(Below(s, t.n), Value(Index(Winner(ReadAll(Popped(s, t.n)), t.type = "ArgmaxN"))))
         [] t.type = "ArgsortN" ->
              IF t.n < 1 THEN s ELSE IF t.n = 1 THEN Append(Below(s, 1), Literal(0))
              ELSE Below(s, t.n) \o
                   [i \in 1 .. t.n |-> Value(Index(Reverse(ArgSorted(ReadAll(Popped(s, t.n))))[i]))]
         [] t.type = "VarStore" -> Below(s, 1)
         [] t.type = "VarLoad" -> Append(s, Name(t.name))
         [] t.type \in Relative -> Append(s, Value(AccessGlsl(t, <<>>)))
         [] t.type \in Absolute -> Append(Below(s, 2), Value(AccessGlsl(t, ReadAll(Top(s, 2)))))
         [] t.type = "ExitNoWrite" -> Append(s, Literal(Exit))
         [] t.type = "PropAccess" -> Append(s, Value(PropValue))
         [] t.type = "PropExists" -> Append(s, Value(Truth(hasProp)))
         [] t.type = "ArrayAllocStatic" -> s
         [] t.type = "ArrayLoad" -> Append(Below(s, 1), Value(gpuArray[IntegerPart(Read(s[Len(s)]))]))
         [] t.type = "ArrayStore" -> Below(s, 2)
         [] t.type = "StoreAbs" -> Below(s, 3)

---------------------------------------------------------------------------------
(* Storing pixels. *)

\* generatePixelStore
Quantize(v) == IF MaxSample = None THEN v ELSE RoundEven(Lesser(Greater(v, 0), One * MaxSample))
\* unpack_float_to_plane, after the shader
Unpacked(v) == IF MaxSample = None THEN v ELSE RoundEven(Clamped(v, One * MaxSample + 1))

\* What expressions do that the back ends, or GLSL, do not agree on.
Causes(t) ==
    LET args == Top(cpu, Behavior(t).arity) IN
    (IF t.type = "VarStore" /\ Contains(Below(gpu, 1), Name(t.name)) /\ cpuVars[t.name] # cpu[Len(cpu)]
     THEN {"alias"} ELSE {})
    \cup (IF RejectedByGlsl(t) THEN {"literal"} ELSE {})
    \cup (IF t.type \in {"Mod", "Copysign"} /\ CpuCompute(t.type, args) # GlslCompute(t.type, args)
          THEN {t.type} ELSE {})
    \cup (IF t.type \in Bitwise2 \cup {"Bitnot"} /\ \E i \in 1 .. Len(args) : RoundEven(args[i]) # RoundAway(args[i])
          THEN {"halves"} ELSE {})
    \cup (IF GlslUndefined(t.type, args) THEN {"undefined"} ELSE {})

\* What an accepted program may meet here: operands there are, values that are set (VarInitPass),
\* indices and coordinates inside of arrays and planes, which programs must see to, no arithmetic
\* on the marker of ^exit^, and no property that is missing.
Meaningful(t) ==
    LET b == Behavior(t)
        args == Top(cpu, b.arity)
        at0(s) == IntegerPart(s[Len(s)])
    IN /\ b.arity <= depth
       /\ t.type \notin StackWords \cup {"VarStore"} => \A i \in 1 .. Len(args) : args[i] # Exit
       /\ Exact(t.type, args)
       /\ t.type = "VarLoad" => cpuVars[t.name] # Unwritten
       /\ t.type = "ArrayLoad" => at0(cpu) \in Cells /\ cpuArray[at0(cpu)] # Unwritten
       /\ t.type = "ArrayStore" => at0(cpu) \in Cells
       /\ t.type = "StoreAbs" => <<IntegerPart(args[2]), IntegerPart(args[3])>> \in Pixels
       /\ t.type = "PropAccess" => hasProp
       /\ t.type \in {"ClipRel", "BufferRel"} => t.x \in geo.minX .. geo.maxX    \* RelAccessAnalysisPass
       /\ Causes(t) \cap Excluded = {}

StoreTarget(s) == <<IntegerPart(s[Len(s) - 1]), IntegerPart(s[Len(s)])>>
\* VarStore, ArrayStore and StoreAbs, for one generator: the value under the operands of the store
VarsAfter(t, vars, s) == IF t.type = "VarStore" THEN [vars EXCEPT ![t.name] = s[Len(s)]] ELSE vars
ArrayAfter(t, array, s) ==
    IF t.type = "ArrayStore" THEN [array EXCEPT ![IntegerPart(s[Len(s)])] = s[Len(s) - 1]] ELSE array
OutAfter(t, out, s, v) == IF t.type = "StoreAbs" THEN [out EXCEPT ![StoreTarget(s)] = v] ELSE out

\* The code of the watched pixel begins.
Enter ==
    /\ phase = "loops" /\ InBody /\ <<x, y>> = watched
    /\ phase' = "words"
    /\ UNCHANGED <<loopVars, family, watched, mirror, hasProp, count, depth, cpu, cpuVars, cpuArray, cpuOut,
                   gpu, gpuVars, gpuArray, gpuOut>>

Loop == phase = "loops" /\ ~(InBody /\ <<x, y>> = watched) /\ LoopNext
        /\ UNCHANGED <<family, watched, mirror, hasProp, exprVars>>

\* processToken of both generators, and what the code they emit does
Word(w) ==
    LET t == Parse(w) IN
    /\ phase = "words" /\ count < family.limit
    /\ Tokenizes(w, "VkExpr", Inputs, Buffers)
    /\ Meaningful(t)
    /\ depth' = depth + Behavior(t).effect
    /\ depth' <= MaxDepth
    /\ cpu' = StackCpu(t)
    /\ \A i \in 1 .. Len(cpu') : cpu'[i] \in Explored
    /\ gpu' = StackGlsl(t)
    /\ cpuVars' = VarsAfter(t, cpuVars, cpu)
    /\ gpuVars' = VarsAfter(t, gpuVars, ReadAll(gpu))
    /\ cpuArray' = ArrayAfter(t, cpuArray, cpu)
    /\ gpuArray' = ArrayAfter(t, gpuArray, ReadAll(gpu))
    /\ cpuOut' = OutAfter(t, cpuOut, cpu, Quantize(cpu[Len(cpu) - 2]))
    /\ gpuOut' = OutAfter(t, gpuOut, ReadAll(gpu), Read(gpu[Len(gpu) - 2]))
    /\ count' = count + 1
    /\ UNCHANGED <<loopVars, family, watched, mirror, hasProp, phase>>

\* finalizeAndStoreResult, and the end of main(): the one value left, unless it is the marker
Finish ==
    /\ phase = "words" /\ depth = 1
    /\ phase' = "stored"
    /\ cpuOut' = IF cpu[1] = Exit THEN cpuOut ELSE [cpuOut EXCEPT ![<<x, y>>] = Quantize(cpu[1])]
    /\ LET result == Read(gpu[1]) IN
       gpuOut' = IF result = Exit THEN gpuOut ELSE [gpuOut EXCEPT ![<<gid % geo.width, gid \div geo.width>>] = result]
    /\ UNCHANGED <<loopVars, family, watched, mirror, hasProp, count, depth, cpu, cpuVars, cpuArray,
                   gpu, gpuVars, gpuArray>>

Next == Enter \/ Loop \/ Finish \/ (\E w \in family.words : Word(w))
Spec == Init /\ [][Next]_allVars
---------------------------------------------------------------------------------
\* VkExpr computes what Expr computes: for the same expression, clips and pixel both leave the same
\* samples in the output, those of absolute stores included, as long as the expression avoids the
\* Excluded causes of divergence.  Both stacks always have the depth that the table of the tokenizer
\* gives, which is what the analysis of the stack relies on.
BackendsAgree ==
    /\ Len(cpu) = depth /\ Len(gpu) = depth
    /\ phase = "stored" =>
         \A p \in Pixels : IF gpuOut[p] = Unwritten THEN cpuOut[p] = Unwritten
                           ELSE gpuOut[p] # Broken /\ cpuOut[p] = Unpacked(gpuOut[p])

\* No read leaves the plane, whichever of the three ranges of columns the pixel is in: the main
\* range reads without a check and relies on bounds computed from the offsets of the expression.
LoadsStayInside ==
    phase = "words" =>
        \A t \in {Parse(w) : w \in family.words} :
            t.type \in Relative \cup Absolute /\ Meaningful(t) =>
                LET arity == Behavior(t).arity IN
                /\ PlaceCpu(t, Top(cpu, arity)) \in Pixels
                /\ IndexGlsl(t, ReadAll(Top(gpu, arity))) \in 0 .. geo.width * geo.height - 1

IsPermutation(s, t) == \A i \in 1 .. Len(s) : Len(SelectSeq(s, LAMBDA e : e = s[i])) = Len(SelectSeq(t, LAMBDA e : e = s[i]))
\* old: the operands, bottom first; new: what replaces them
Documented(type, old, new) ==
    LET n == Len(old)
        at0(i) == old[i \div One + 1]
        Extreme(i) == \A j \in 1 .. n : IF type = "ArgminN" THEN old[j] >= at0(i) ELSE old[j] <= at0(i)
    IN CASE type = "SortN" -> IsPermutation(old, new) /\ \A i \in 1 .. n - 1 : new[i] >= new[i + 1]
         [] type \in {"ArgminN", "ArgmaxN"} ->
              Extreme(new[1]) /\ \A j \in 1 .. (new[1] \div One) : old[j] # at0(new[1])
         [] type = "ArgsortN" ->
              /\ IsPermutation([i \in 1 .. n |-> Index(i - 1)], new)
              /\ \A i \in 1 .. n - 1 :
                   at0(new[i + 1]) < at0(new[i]) \/ (at0(new[i + 1]) = at0(new[i]) /\ new[i + 1] < new[i])

\* The sorting words do what docs/postfix.md says, on both back ends: sortN leaves the same values
\* with the smallest on top, argminN and argmaxN give the smallest index of an extreme value, and
\* argsortN is stable with the index of the smallest value on top.
SortsAsDocumented ==
    [][\A w \in family.words :
         (w.type \in Sorts /\ w.n >= 1 /\ Word(w)) =>
            LET results == Behavior(w).effect + w.n IN
            /\ Documented(w.type, Top(cpu, w.n), Top(cpu', results))
            /\ Documented(w.type, ReadAll(Top(gpu, w.n)), ReadAll(Top(gpu, results))')]_allVars
================================================================================
