--------------------------- MODULE SingleExpr_proofs ---------------------------
(***************************************************************************)
(* Proofs about SingleExpr, for every set of calls, programs of any length *)
(* and any number of frames: handles balance, properties are written as    *)
(* the program says, arrays hold what was stored in them, and a program    *)
(* that was accepted compiles.                                             *)
(*                                                                         *)
(* CreationInv says what creation has taken and found, AcceptedInv what is *)
(* known of the program after the analysis, ValuesInv what the stack, the  *)
(* cells and the arrays hold while it runs, PointersInv which allocation   *)
(* the pointers come from, and ContentsInv what has been stored.           *)
(***************************************************************************)
EXTENDS SingleExpr, ArrayTokens_proofs, SequenceTheorems

CreationInv ==
    /\ args \in Calls
    /\ step \in {"clips", "validate", "format", "program", "analyse", "params", "exprs", "plane", "shaders",
                 "executor", "created", "failed", "crashed", "freed"}
    /\ step = "clips" => nodes = <<>>
    /\ step \in {"failed", "freed"} => \A i \in 1 .. Len(nodes) : nodes[i] = 0
    /\ step \notin {"clips", "failed", "freed"} =>
           args.clips # <<>> /\ nodes = [i \in 1 .. Len(args.clips) |-> 1]
    /\ step \notin {"clips", "validate", "failed"} => \A c \in Stages(args.clips) : c.constant
    /\ step \in {"program", "analyse", "params"} => args.filter = "SingleExpr"
    /\ step \in {"exprs", "plane", "shaders", "executor"} => args.filter # "SingleExpr"
    /\ step = "shaders" => args.filter = "VkExpr"
    /\ step = "crashed" => args.filter = "VkExpr" /\ args.clips[1].sub = 0 /\ NumPlanes > 1

FrameInv ==
    /\ frame \in {"none", "key", "compile", "run", "done", "threw"}
    /\ frame \in {"none", "done", "threw"} => refs = 0
    /\ frame \in {"key", "compile", "run"} => step = "created"
    /\ frame # "none" => step \in {"created", "freed"} /\ args.filter = "SingleExpr"

\* What creation collects, and what the analysis has found.
RequiredOf == {<<Program[i].value, Program[i].name>> : i \in {k \in Positions : Reads(Program[k])}}
OutputOf == [p \in Props |-> IF WritesTo(p) = {} THEN "none" ELSE Program[FirstOf(WritesTo(p))].kind]
Collected == required = RequiredOf /\ output = OutputOf
Accepted == ~UndefinedLabel(Program) /\ Balanced(Program) /\ SameTypes /\ Initialised(Program)

AcceptedInv ==
    /\ step \in {"analyse", "params"} \/ (step \in {"created", "freed"} /\ args.filter = "SingleExpr") => Collected
    /\ step = "params" \/ (step \in {"created", "freed"} /\ args.filter = "SingleExpr") => Accepted
    /\ compiled => Compiles
    /\ frame \in {"run", "done"} => Compiles
    /\ frame = "threw" => ~Compiles

\* What the code works on: WriteNaN is not among it.
Values == {"num", "read", "delete"} \X Int
Property == STRING \X ({"num"} \X Int)
CellSet == required \cup {Cell(p) : p \in Written}

\* The cell of a property has what the program did to it.
CellHolds(p) ==
    IF did[p][1] # "no" THEN cells[Cell(p)] = did[p][2]
    ELSE IF <<0, p>> \in required THEN cells[<<0, p>>] = InputValue(source[0][p])
    ELSE p \in Written => cells[Cell(p)] = WriteNaN

DidInv ==
    /\ source \in [0 .. 1 -> [Props -> Property]]
    /\ did \in [Props -> {"no", "wrote", "deleted"} \X Values]
    /\ \A p \in Props : /\ did[p][1] # "no" => p \in Written
                        /\ did[p][1] = "deleted" => did[p][2] = DeleteNaN
CodeInv ==
    /\ dst = source[0]
    /\ pc \in 1 .. Len(Program) + 1 /\ stack \in Seq(Values) /\ Len(stack) = Heights(Program)[pc]
    /\ cells \in [CellSet -> Values \cup {WriteNaN}]
    /\ \A c \in required : cells[c] \in Values
    /\ \A p \in Props : CellHolds(p)
ArraysInv ==
    /\ buffer \in [Arrays -> Int \X Int \X [Indices -> Values]]
    /\ stored \in [Arrays -> [Indices -> Values \cup {Nothing}]]

\* The new frame has what the cells had at the end.
StoredRight(p) ==
    CASE did[p][1] = "wrote" ->
             IF did[p][2] = DeleteNaN THEN TRUE ELSE dst[p] = Typed(output[p], source[0][p], did[p][2])
      [] did[p][1] = "deleted" -> dst[p] = Absent
      [] did[p][1] = "no" -> dst[p] = source[0][p] \/ (p \in Written /\ <<0, p>> \in required)

ValuesInv ==
    /\ ArraysInv
    /\ frame \in {"key", "compile", "run"} => DidInv /\ CodeInv
    /\ frame = "done" => DidInv /\ \A p \in Props : StoredRight(p)

\* The pointer of an allocation is where the array is now, unless no path has taken the allocation, or
\* one leads here from another allocation past it.
Pointed(a, j) ==
    pc <= Len(Program) =>
        \/ pointer[j] = buffer[a][2]
        \/ pc \in ReachableFrom(Program, {1}, {j})
        \/ \E k \in AllocationsOf(Program, a) \ {j} : pc \in ReachableFrom(Program, NextOf(Program, k), {j})
PointersInv ==
    frame \in {"key", "compile", "run"} =>
        /\ pointer \in [Positions -> Int]
        /\ \A a \in Arrays : \A j \in AllocationsOf(Program, a) : Pointed(a, j)
\* Where no access uses the pointer of another place, an array has what was stored in it.
Contains(a) == ~Dangles(a) => \A i \in Indices : stored[a][i] \in {Nothing, buffer[a][3][i]}
ContentsInv == \A a \in Arrays : Contains(a)

-------------------------------------------------------------------------------
(* Creation and frames *)

LEMMA CallFacts ==
    ASSUME args \in Calls
    PROVE  /\ args.clips \in Seq([planes : Nat, sub : Nat, size : Nat, constant : BOOLEAN])
           /\ Len(args.clips) \in Nat /\ (args.clips # <<>> => Len(args.clips) > 0)
<1>1. args.clips \in Seq([planes : Nat, sub : Nat, size : Nat, constant : BOOLEAN])
  BY CallsAssumption
<1>2. Len(args.clips) \in Nat /\ (Len(args.clips) = 0 <=> args.clips = <<>>)
  BY <1>1, EmptySeq
<1>3. QED
  BY <1>1, <1>2

LEMMA CreationInit == FrameInit => CreationInv /\ FrameInv
BY DEF FrameInit, CreateInit, CreationInv, FrameInv

LEMMA CreateKeeps ==
    ASSUME CreationInv, Create
    PROVE  CreationInv' /\ args' = args /\ step \notin {"created", "freed"}
<1>0. Len(args.clips) \in Nat /\ args.clips \in Seq([planes : Nat, sub : Nat, size : Nat, constant : BOOLEAN])
  BY CallFacts DEF CreationInv
<1>1. ASSUME Throw, step \notin {"clips", "failed", "freed"} PROVE CreationInv' /\ args' = args
  BY <1>0, <1>1 DEF Throw, CreationInv
<1>2. CASE TakeClips
  <2>1. CASE args.clips = <<>>
    BY <1>0, <1>2, <2>1 DEF TakeClips, CreationInv, Stages, NumPlanes
  <2>2. CASE args.clips # <<>>
    BY <1>0, <1>2, <2>2 DEF TakeClips, CreationInv, Stages, NumPlanes
  <2>3. QED
    BY <1>2, <2>1, <2>2 DEF TakeClips
<1>3. CASE Validate
  <2>1. CASE Throw
    BY <1>1, <1>3, <2>1 DEF Validate
  <2>2. CASE ~Throw
    BY <1>3, <2>2 DEF Validate, Continue, CreationInv, Stages, NumPlanes
  <2>3. QED
    BY <1>3, <2>1, <2>2 DEF Validate
<1>4. CASE ParseFormat
  <2>1. CASE Throw
    BY <1>1, <1>4, <2>1 DEF ParseFormat
  <2>2. CASE ~Throw
    BY <1>4, <2>2 DEF ParseFormat, Continue, CreationInv, Stages, NumPlanes
  <2>3. QED
    BY <1>4, <2>1, <2>2 DEF ParseFormat
<1>5. CASE TakeExprs
  <2>1. CASE Throw
    BY <1>1, <1>5, <2>1 DEF TakeExprs
  <2>2. CASE ~Throw
    <3>1. step = "exprs" /\ Continue("plane")
      BY <1>5, <2>2 DEF TakeExprs
    <3>2. QED
      BY <3>1 DEF Continue, CreationInv, Stages, NumPlanes
  <2>3. QED
    BY <2>1, <2>2
<1>6. CASE AnalysePlane
  <2>1. CASE Throw
    BY <1>1, <1>6, <2>1 DEF AnalysePlane
  <2>2. CASE ~Throw
    <3>1. step = "plane" /\ UNCHANGED <<args, step, nodes>>
      BY <1>6, <2>2 DEF AnalysePlane
    <3>2. QED
      BY <3>1 DEF CreationInv, Stages, NumPlanes
  <2>3. QED
    BY <2>1, <2>2
<1>7. CASE ParseParams
  <2>1. CASE Throw
    BY <1>1, <1>7, <2>1 DEF ParseParams
  <2>2. CASE ~Throw
    BY <1>7, <2>2 DEF ParseParams, Continue, CreationInv, Stages, NumPlanes
  <2>3. QED
    BY <1>7, <2>1, <2>2 DEF ParseParams
<1>8. CASE GenerateShaders
  <2>1. args.clips[1].planes \in Nat
    <3>1. args \in Calls /\ args.clips # <<>>
      BY <1>8 DEF GenerateShaders, CreationInv
    <3>2. 1 \in 1 .. Len(args.clips)
      BY <3>1, CallFacts
    <3>3. args.clips[1] \in [planes : Nat, sub : Nat, size : Nat, constant : BOOLEAN]
      BY <1>0, <3>2, ElementOfSeq
    <3>4. QED
      BY <3>3
  <2>2. (\E p \in 2 .. NumPlanes : plane_op[p] = "process") => NumPlanes > 1
    BY <2>1 DEF NumPlanes
  <2>3. QED
    BY <1>8, <2>2 DEF GenerateShaders, Continue, CreationInv, Stages, NumPlanes
<1>9. CASE MakeExecutor
  <2>1. CASE Throw
    BY <1>1, <1>9, <2>1 DEF MakeExecutor
  <2>2. CASE ~Throw
    BY <1>9, <2>2 DEF MakeExecutor, Continue, CreationInv, Stages, NumPlanes
  <2>3. QED
    BY <1>9, <2>1, <2>2 DEF MakeExecutor
<1>10. QED
  BY <1>2, <1>3, <1>4, <1>5, <1>6, <1>7, <1>8, <1>9 DEF Create, TakeClips, Validate, ParseFormat,
     TakeExprs, AnalysePlane, ParseParams, GenerateShaders, MakeExecutor

LEMMA CreationStep ==
    ASSUME CreationInv, FrameInv, [Next]_vars
    PROVE  CreationInv' /\ FrameInv' /\ args' = args
<1>0. Len(args.clips) \in Nat /\ args.clips \in Seq([planes : Nat, sub : Nat, size : Nat, constant : BOOLEAN])
  BY CallFacts DEF CreationInv
<1>1. CASE CreateStep
  <2>1. CreationInv' /\ args' = args /\ step \notin {"created", "freed"}
    BY <1>1, CreateKeeps DEF CreateStep
  <2>2. UNCHANGED <<frame, refs>> /\ frame = "none"
    BY <1>1, <2>1 DEF CreateStep, frameVars, FrameInv
  <2>3. QED
    BY <2>1, <2>2 DEF FrameInv
<1>2. CASE CollectProps \/ Analyse \/ ParseCommonParams
  <2>1. CASE Throw
    BY <1>0, <1>2, <2>1 DEF CollectProps, Analyse, ParseCommonParams, Throw, CreationInv, FrameInv, frameVars,
       Continue
  <2>2. CASE ~Throw
    BY <1>2, <2>2 DEF CollectProps, Analyse, ParseCommonParams, Continue, CreationInv, FrameInv, frameVars,
       Stages, NumPlanes
  <2>3. QED
    BY <2>1, <2>2
<1>3. CASE Request \/ MakeKey \/ Compile \/ Run \/ StoreProps \/ UNCHANGED vars
  <2>1. UNCHANGED <<args, step, nodes>>
    BY <1>3 DEF Request, MakeKey, Compile, Run, StoreProps, vars, creation
  <2>2. CreationInv'
    BY <2>1 DEF CreationInv, Stages, NumPlanes
  <2>3. FrameInv'
    <3>1. CASE MakeKey
      <4>1. \A c \in Stages(args.clips) : c.constant
        BY <3>1 DEF MakeKey, CreationInv, FrameInv
      <4>2. QED
        BY <2>1, <3>1, <4>1 DEF MakeKey, FrameInv
    <3>2. CASE ~MakeKey
      BY <1>3, <2>1, <3>2 DEF Request, GetFrames, Compile, Run, StoreProps, vars, frameVars, FrameInv
    <3>3. QED
      BY <3>1, <3>2
  <2>4. QED
    BY <2>1, <2>2, <2>3
<1>4. CASE FreeFilter
  BY <1>0, <1>4 DEF FreeFilter, Free, CreationInv, FrameInv, frameVars, Stages, NumPlanes
<1>5. QED
  BY <1>1, <1>2, <1>3, <1>4 DEF Next

LEMMA CreationInvariant == Spec => [](CreationInv /\ FrameInv)
BY CreationInit, CreationStep, PTL DEF Spec

\* Clips and frames are given back, whatever fails: validation makes sure that the formats have
\* names, which the key of the cache depends on outside of the try block.
THEOREM Balance == Spec => []HandlesBalance
<1>1. CreationInv /\ FrameInv => HandlesBalance
  <2> SUFFICES ASSUME CreationInv, FrameInv PROVE HandlesBalance
    OBVIOUS
  <2>2. args \in Calls
    BY DEF CreationInv
  <2>3. CASE step = "created"
    <3>1. args.clips # <<>> /\ nodes = [i \in 1 .. Len(args.clips) |-> 1]
      BY <2>3 DEF CreationInv
    <3>2. Len(args.clips) \in Nat /\ Len(args.clips) > 0
      BY <2>2, <3>1, CallFacts
    <3>3. Len(nodes) > 0 /\ \A i \in 1 .. Len(nodes) : nodes[i] = 1
      BY <3>1, <3>2
    <3>4. QED
      BY <2>3, <3>3 DEF FrameInv, HandlesBalance
  <2>4. CASE step # "created"
    BY <2>4 DEF CreationInv, FrameInv, HandlesBalance
  <2>5. QED
    BY <2>3, <2>4
<1>2. QED
  BY <1>1, CreationInvariant, PTL

-------------------------------------------------------------------------------
(* Programs *)

LEMMA ProgramFacts ==
    ASSUME args \in Calls
    PROVE  /\ Program \in Seq(TokenRecord) /\ Len(Program) \in Nat /\ Positions = 1 .. Len(Program)
           /\ \A i \in Positions : Program[i] \in TokenRecord /\ IsToken(Program[i])
<1>1. Program \in Seq(TokenRecord) /\ \A i \in Positions : IsToken(Program[i])
  BY ProgramsAssumption DEF Program, Positions
<1>2. QED
  BY <1>1, LenProperties, ElementOfSeq DEF Positions

\* What the tokens of a kind are like.
LEMMA TokenFacts ==
    ASSUME NEW t \in TokenRecord, IsToken(t)
    PROVE  /\ Reads(t) => t.name \in Props /\ t.value \in 0 .. 1 /\ t.arity = 0 /\ t.effect = 1
           /\ Writes(t) => /\ t.name \in Props
                           /\ t.arity = (IF t.kind = "delete" THEN 0 ELSE 1) /\ t.effect = 0 - t.arity
           /\ Allocates(t) => /\ t.name \in Arrays
                              /\ t.arity = (IF t.kind = "alloc_dyn" THEN 1 ELSE 0) /\ t.effect = 0 - t.arity
           /\ t.kind = "load" => t.name \in Arrays /\ t.arity = 1 /\ t.effect = 0
           /\ t.kind = "store" => t.name \in Arrays /\ t.arity = 2 /\ t.effect = -2
           /\ t.kind = "num" => t.arity = 0 /\ t.effect = 1
           /\ ~Reads(t) /\ ~Writes(t) /\ ~Allocates(t) /\ t.kind \notin {"load", "store", "num", "clip_abs"} =>
                  t.effect = 0 - t.arity
<1> DEFINE Is(kind, arity, effect) == t.kind = kind /\ t.arity = arity /\ t.effect = effect
<1>1. CASE t = Num(t.value) \/ t \in {Drop1, ClipAbs}
  <2>1. t = Num(t.value) => Is("num", 0, 1)
    BY DEF Tok, Num
  <2>2. Drop1.kind = "drop" /\ Drop1.arity = 1 /\ Drop1.effect = -1 /\ ClipAbs.kind = "clip_abs"
    BY DEF Tok, Drop1, ClipAbs
  <2>3. QED
    BY <1>1, <2>1, <2>2 DEF Reads, Writes, Allocates, Types
<1>2. CASE t.label \in Labels /\ t \in {Here(t.label), Goto(t.label)}
  <2>1. Is("label", 0, 0) \/ Is("jump", 1, -1)
    BY <1>2 DEF Tok, Here, Goto
  <2>2. QED
    BY <2>1 DEF Reads, Writes, Allocates, Types
<1>3. CASE t.name \in Props /\ t.value \in 0 .. 1 /\ t \in {ReadProp(t.value, t.name), PropExists(t.value, t.name)}
  <2>1. Is("read", 0, 1) \/ Is("exists", 0, 1)
    BY <1>3 DEF Tok, ReadProp, PropExists
  <2>2. QED
    BY <1>3, <2>1 DEF Reads, Writes, Allocates, Types
<1>4. CASE t.name \in Props /\ t \in {Set(t.name, t.kind), Unset(t.name)} /\ t.kind \in Types
  <2>1. t.kind # "delete"
    BY <1>4 DEF Types
  <2>2. Is(t.kind, 1, -1)
    <3>1. t # Unset(t.name)
      BY <2>1 DEF Unset, Tok
    <3>2. QED
      BY <1>4, <3>1 DEF Set, Tok
  <2>3. QED
    BY <1>4, <2>2 DEF Reads, Writes, Allocates, Types
<1>5. CASE t.name \in Props /\ t = Unset(t.name)
  <2>1. Is("delete", 0, 0)
    BY <1>5 DEF Unset, Tok
  <2>2. QED
    BY <1>5, <2>1 DEF Reads, Writes, Allocates, Types
<1>6. CASE t.name \in Arrays /\ t \in {Load(t.name), Store(t.name), AllocDyn(t.name), AllocStatic(t.name, t.value)}
  <2>1. Is("load", 1, 0) \/ Is("store", 2, -2) \/ Is("alloc_dyn", 1, -1) \/ Is("alloc_static", 0, 0)
    BY <1>6 DEF Tok, Load, Store, AllocDyn, AllocStatic
  <2>2. QED
    BY <1>6, <2>1 DEF Reads, Writes, Allocates, Types
<1>7. QED
  BY <1>1, <1>2, <1>3, <1>4, <1>5, <1>6 DEF IsToken

\* The recursion that counts the depths has a solution: one for the first n tokens extends to the next.
LEMMA HeightsFollow ==
    ASSUME NEW p \in Seq(TokenRecord)
    PROVE  /\ Heights(p)[1] = 0
           /\ \A i \in 1 .. Len(p) : Heights(p)[i + 1] = Heights(p)[i] + p[i].effect
<1>0. Len(p) \in Nat
  OBVIOUS
<1> DEFINE Solves(h, n) ==
               h = [i \in 1 .. n + 1 |-> IF i = 1 THEN 0 ELSE h[i - 1] + p[i - 1].effect]
           bad == {n \in Nat : ~ \E h : Solves(h, n)}
<1>1. \E h : Solves(h, 0)
  <2> DEFINE h == [i \in 1 .. 1 |-> 0]
  <2>1. Solves(h, 0)
    OBVIOUS
  <2>2. QED
    BY <2>1
<1>2. ASSUME NEW n \in Nat, \E h : Solves(h, n) PROVE \E h : Solves(h, n + 1)
  <2>1. PICK f : Solves(f, n)
    BY <1>2
  <2> DEFINE h == [i \in 1 .. (n + 1) + 1 |-> IF i = n + 2 THEN f[n + 1] + p[n + 1].effect ELSE f[i]]
  <2>2. ASSUME NEW i \in 1 .. (n + 1) + 1
        PROVE  h[i] = IF i = 1 THEN 0 ELSE h[i - 1] + p[i - 1].effect
    <3>1. CASE i = n + 2
      <4>1. i # 1 /\ i - 1 = n + 1 /\ h[n + 1] = f[n + 1] /\ h[i] = f[n + 1] + p[n + 1].effect
        BY <3>1
      <4>2. QED
        BY <4>1
    <3>2. CASE i # n + 2
      <4>1. i \in 1 .. n + 1 /\ h[i] = f[i] /\ (i # 1 => i - 1 \in 1 .. n + 1 /\ i - 1 # n + 2)
        BY <3>2
      <4>2. f[i] = IF i = 1 THEN 0 ELSE f[i - 1] + p[i - 1].effect
        BY <2>1, <4>1
      <4>3. i # 1 => h[i - 1] = f[i - 1]
        BY <4>1
      <4>4. QED
        BY <4>1, <4>2, <4>3
    <3>3. QED
      BY <3>1, <3>2
  <2>3. Solves(h, n + 1)
    BY <2>2
  <2>4. QED
    BY <2>3
<1>3. \E h : Solves(h, Len(p))
  <2> SUFFICES ASSUME bad # {} PROVE FALSE
    BY <1>0
  <2>1. PICK m \in bad : \A k \in bad : m <= k
    <3> bad \in SUBSET Nat
      OBVIOUS
    <3> HIDE DEF bad
    <3> QED
      BY LeastOf
  <2> HIDE DEF Solves
  <2>2. m \in Nat /\ m # 0 /\ ~ \E h : Solves(h, m)
    BY <1>1, <2>1
  <2>3. m - 1 \in Nat /\ m - 1 \notin bad /\ (m - 1) + 1 = m
    BY <2>1, <2>2
  <2>4. \E h : Solves(h, m - 1)
    BY <2>3
  <2>5. \E h : Solves(h, (m - 1) + 1)
    BY <1>2, <2>3, <2>4
  <2>6. QED
    BY <2>2, <2>3, <2>5
<1>4. Heights(p) = CHOOSE h : Solves(h, Len(p))
  BY DEF Heights
<1>5. Solves(Heights(p), Len(p))
  <2> HIDE DEF Solves
  <2>1. QED
    BY <1>3, <1>4
<1>6. Heights(p)[1] = 0
  BY <1>0, <1>5
<1>7. ASSUME NEW i \in 1 .. Len(p) PROVE Heights(p)[i + 1] = Heights(p)[i] + p[i].effect
  <2>1. i + 1 \in 1 .. Len(p) + 1 /\ i + 1 # 1 /\ (i + 1) - 1 = i
    BY <1>0
  <2>2. QED
    BY <1>5, <2>1
<1>8. QED
  BY <1>6, <1>7

\* The jumps of an accepted program have targets.
LEMMA ProgramLinked ==
    ASSUME NEW p \in Seq(TokenRecord), ~UndefinedLabel(p)
    PROVE  /\ Linked(p)
           /\ \A i \in 1 .. Len(p) : p[i].kind = "jump" =>
                  TargetOf(p, i) \in 1 .. Len(p) /\ TargetOf(p, i) \in NextOf(p, i)
           /\ \A i \in 1 .. Len(p) : i < Len(p) => i + 1 \in NextOf(p, i)
           /\ \A i \in 1 .. Len(p) : \A k \in NextOf(p, i) :
                  k = i + 1 \/ (p[i].kind = "jump" /\ k = TargetOf(p, i))
<1>1. Len(p) \in Nat
  OBVIOUS
<1>2. QED
  BY <1>1, JumpsLinked

-------------------------------------------------------------------------------
(* What creation and the first frame find out about the program *)

\* A program does not change.
LEMMA SameProgram ==
    ASSUME args' = args
    PROVE  /\ Program' = Program /\ Positions' = Positions /\ Accesses' = Accesses
           /\ \A p : WritesTo(p)' = WritesTo(p) /\ \A i : Allocation(i)' = Allocation(i)
           /\ RequiredOf' = RequiredOf /\ OutputOf' = OutputOf
           /\ Accepted' = Accepted /\ Compiles' = Compiles
<1>1. Program' = Program /\ Positions' = Positions
  BY DEF Program, Positions
<1>2. \A p : WritesTo(p)' = WritesTo(p)
  BY <1>1 DEF WritesTo
<1>3. \A i : Allocation(i)' = Allocation(i)
  BY <1>1 DEF Allocation
<1>4. Accesses' = Accesses
  BY <1>1 DEF Accesses
<1>5. RequiredOf' = RequiredOf /\ OutputOf' = OutputOf
  BY <1>1, <1>2 DEF RequiredOf, OutputOf
<1>6. SameTypes' = SameTypes
  BY <1>1, <1>2 DEF SameTypes
<1>7. Accepted' = Accepted
  BY <1>1, <1>6 DEF Accepted
<1>8. Compiles' = Compiles
  BY <1>1, <1>3, <1>4 DEF Compiles
<1>9. QED
  BY <1>1, <1>2, <1>3, <1>4, <1>5, <1>7, <1>8

LEMMA AcceptedInit == FrameInit => AcceptedInv
BY DEF FrameInit, CreateInit, AcceptedInv

LEMMA AcceptedStep ==
    ASSUME CreationInv, FrameInv, AcceptedInv, [Next]_vars
    PROVE  AcceptedInv'
<1>0. /\ CreationInv' /\ FrameInv' /\ args' = args
      /\ RequiredOf' = RequiredOf /\ OutputOf' = OutputOf
      /\ Accepted' = Accepted /\ Compiles' = Compiles
  BY CreationStep, SameProgram
<1>1. CASE CreateStep
  <2>1. step \notin {"created", "freed", "analyse", "params"}
    <3>1. step \notin {"analyse", "params"}
      BY <1>1 DEF CreateStep, Create, TakeClips, Validate, ParseFormat, TakeExprs, AnalysePlane, ParseParams,
         GenerateShaders, MakeExecutor
    <3>2. QED
      BY <1>1, <3>1, CreateKeeps DEF CreateStep
  <2>2. UNCHANGED <<required, output, frame, compiled>>
    BY <1>1 DEF CreateStep, frameVars
  <2>3. step' \notin {"analyse", "params"} /\ (step' \in {"created", "freed"} => args.filter # "SingleExpr")
    <3>1. CASE TakeClips \/ Validate \/ ParseFormat
      BY <3>1 DEF TakeClips, Validate, ParseFormat, Throw, Continue
    <3>2. CASE TakeExprs \/ AnalysePlane \/ ParseParams
      BY <3>2 DEF TakeExprs, AnalysePlane, ParseParams, Throw, Continue, CreationInv
    <3>3. CASE GenerateShaders \/ MakeExecutor
      BY <3>3 DEF GenerateShaders, MakeExecutor, Throw, Continue, CreationInv
    <3>4. QED
      BY <1>1, <3>1, <3>2, <3>3 DEF CreateStep, Create
  <2>4. frame = "none"
    BY <2>1 DEF FrameInv
  <2>5. QED
    BY <1>0, <2>2, <2>3, <2>4 DEF AcceptedInv
<1>2. CASE CollectProps
  <2>1. required' = RequiredOf /\ output' = OutputOf
    BY <1>2 DEF CollectProps, RequiredOf, OutputOf
  <2>2. step' = "analyse" /\ UNCHANGED <<frame, compiled>>
    BY <1>2 DEF CollectProps, Continue, frameVars
  <2>3. frame = "none"
    BY <1>2 DEF CollectProps, FrameInv
  <2>4. QED
    BY <1>0, <2>1, <2>2, <2>3 DEF AcceptedInv, Collected
<1>3. CASE Analyse
  <2>1. UNCHANGED <<required, output, frame, compiled>> /\ step = "analyse"
    BY <1>3 DEF Analyse, frameVars
  <2>2. step' = "failed" \/ (step' = "params" /\ Accepted)
    BY <1>3 DEF Analyse, Throw, Continue, Accepted
  <2>3. frame = "none"
    BY <2>1 DEF FrameInv
  <2>4. QED
    BY <1>0, <2>1, <2>2, <2>3 DEF AcceptedInv, Collected
<1>4. CASE ParseCommonParams
  BY <1>0, <1>4 DEF ParseCommonParams, Throw, Continue, frameVars, FrameInv, AcceptedInv, Collected
<1>5. CASE Request
  BY <1>0, <1>5 DEF Request, GetFrames, creation, AcceptedInv, Collected
<1>6. CASE MakeKey \/ Compile
  BY <1>0, <1>6 DEF MakeKey, Compile, creation, AcceptedInv, Collected
<1>7. CASE Run \/ StoreProps
  BY <1>0, <1>7 DEF Run, StoreProps, creation, AcceptedInv, Collected
<1>8. CASE FreeFilter
  BY <1>0, <1>8 DEF FreeFilter, Free, frameVars, AcceptedInv, Collected
<1>9. CASE UNCHANGED vars
  BY <1>0, <1>9 DEF vars, creation, frameVars, AcceptedInv, Collected
<1>10. QED
  BY <1>1, <1>2, <1>3, <1>4, <1>5, <1>6, <1>7, <1>8, <1>9 DEF Next

-------------------------------------------------------------------------------
(* What is accepted compiles *)

\* Control falls through to every token that has no stop before it.
LEMMA FallsThrough ==
    ASSUME NEW p \in Seq(TokenRecord), ~UndefinedLabel(p), NEW stops,
           NEW i \in 1 .. Len(p), \A k \in 1 .. i - 1 : k \notin stops
    PROVE  i \in ReachableFrom(p, {1}, stops)
<1> DEFINE R == ReachableFrom(p, {1}, stops)
           bad == {n \in Nat : n \in 1 .. i /\ n \notin R}
<1>0. Len(p) \in Nat /\ {1} \in SUBSET (1 .. Len(p)) /\ Linked(p)
  BY ProgramLinked
<1>1. 1 \in R /\ ClosedUnder(p, R, stops)
  BY <1>0, ReachIsClosed
<1> HIDE DEF R
<1>2. bad = {}
  <2> SUFFICES ASSUME bad # {} PROVE FALSE
    OBVIOUS
  <2>1. PICK m \in bad : \A k \in bad : m <= k
    <3> bad \in SUBSET Nat
      OBVIOUS
    <3> HIDE DEF bad
    <3> QED
      BY LeastOf
  <2>2. m \in 1 .. i /\ m # 1 /\ m \notin R
    BY <1>1, <2>1
  <2>3. m - 1 \in 1 .. i - 1 /\ m - 1 \in R /\ m - 1 < Len(p) /\ (m - 1) + 1 = m /\ m - 1 \in 1 .. Len(p)
    BY <1>0, <2>1, <2>2
  <2>4. m \in NextOf(p, m - 1)
    <3>1. (m - 1) + 1 \in NextOf(p, m - 1)
      BY <2>3, ProgramLinked
    <3>2. QED
      BY <2>3, <3>1
  <2>5. m \in R
    BY <1>1, <2>3, <2>4 DEF ClosedUnder
  <2>6. QED
    BY <2>2, <2>5
<1>3. QED
  BY <1>2 DEF R

\* Without jumps nothing leads past a stop.
LEMMA NothingPasses ==
    ASSUME NEW p \in Seq(TokenRecord), ~UndefinedLabel(p), NEW j \in 1 .. Len(p),
           \A i \in 1 .. Len(p) : p[i].kind # "jump"
    PROVE  ReachableFrom(p, {1}, {j}) \subseteq 1 .. j
<1>0. Len(p) \in Nat /\ {1} \in SUBSET (1 .. Len(p)) /\ Linked(p) /\ {1} \subseteq 1 .. j
  BY ProgramLinked
<1>1. ClosedUnder(p, 1 .. j, {j})
  <2> SUFFICES ASSUME NEW i \in (1 .. j) \ {j}, NEW k \in NextOf(p, i) PROVE k \in 1 .. j
    BY DEF ClosedUnder
  <2>1. i \in 1 .. Len(p) /\ i < j
    BY <1>0
  <2>2. k = i + 1
    BY <2>1, ProgramLinked
  <2>3. QED
    BY <2>1, <2>2
<1>2. QED
  BY <1>0, <1>1, ReachIsLeast

\* The allocation whose pointer an access uses is the last one before it in the text.
LEMMA AllocationFacts ==
    ASSUME args \in Calls, NEW i \in Positions,
           \E j \in AllocationsOf(Program, Program[i].name) : j < i
    PROVE  /\ Allocation(i) \in AllocationsOf(Program, Program[i].name) /\ Allocation(i) < i
           /\ \A k \in AllocationsOf(Program, Program[i].name) : k < i => k <= Allocation(i)
<1> DEFINE A == AllocationsOf(Program, Program[i].name)
           behind == {n \in Nat : \E j \in A : j < i /\ n = i - j}
<1>0. Len(Program) \in Nat /\ i \in 1 .. Len(Program) /\ A \subseteq 1 .. Len(Program)
  BY ProgramFacts DEF AllocationsOf
<1> HIDE DEF A
<1>1. PICK m \in behind : \A k \in behind : m <= k
  <2>1. PICK j \in A : j < i
    BY DEF A
  <2>2. i - j \in behind
    BY <1>0, <2>1
  <2>3. behind \in SUBSET Nat /\ behind # {}
    BY <2>2
  <2> HIDE DEF behind
  <2>4. QED
    BY <2>3, LeastOf
<1>2. PICK j \in A : j < i /\ m = i - j
  BY <1>1
<1>3. ASSUME NEW k \in A, k < i PROVE k <= j
  <2>1. i - k \in behind
    BY <1>0, <1>3
  <2>2. i - j <= i - k
    BY <1>1, <1>2, <2>1
  <2>3. QED
    BY <1>0, <2>2
<1>4. \E l \in A : l < i /\ \A k \in A : k < i => k <= l
  BY <1>2, <1>3
<1>5. Allocation(i) = CHOOSE l \in A : l < i /\ \A k \in A : k < i => k <= l
  BY DEF Allocation, A
<1>6. QED
  BY <1>4, <1>5 DEF A

LEMMA AcceptedProgram ==
    ASSUME args \in Calls, Accepted, ~Compiles
    PROVE  \/ \E i \in Positions : Program[i].kind = "clip_abs"
           \/ \E a \in Arrays : Cardinality(AllocationsOf(Program, a)) > 1
                  /\ \E i \in Positions : Program[i].kind = "jump"
<1> SUFFICES ASSUME \A i \in Positions : Program[i].kind # "clip_abs"
             PROVE  \E a \in Arrays : Cardinality(AllocationsOf(Program, a)) > 1
                        /\ \E i \in Positions : Program[i].kind = "jump"
  OBVIOUS
<1>0. /\ Program \in Seq(TokenRecord) /\ Len(Program) \in Nat /\ Positions = 1 .. Len(Program)
      /\ ~UndefinedLabel(Program)
  BY ProgramFacts DEF Accepted
<1>1. PICK i \in Accesses :
          ~ (/\ \E j \in AllocationsOf(Program, Program[i].name) : j < i
             /\ i \notin ReachableFrom(Program, {1}, {Allocation(i)}))
  BY DEF Compiles
<1> DEFINE a == Program[i].name
           A == AllocationsOf(Program, a)
<1>2. i \in Positions /\ a \in Arrays /\ AccessTo(a, Program[i])
  <2>1. i \in Positions /\ Program[i].kind \in {"load", "store"}
    BY <1>1 DEF Accesses
  <2>2. Program[i] \in TokenRecord /\ IsToken(Program[i])
    BY <2>1, ProgramFacts
  <2>3. QED
    BY <2>1, <2>2, TokenFacts DEF AccessTo
<1>3. i \notin ReachableFrom(Program, {1}, A)
  <2>1. i \in AccessesTo(Program, a) /\ a \in Accessed(Program)
    BY <1>0, <1>2 DEF AccessesTo, Accessed, AccessTo
  <2>2. QED
    BY <2>1 DEF Accepted, Initialised
<1>4. \E j \in A : j < i
  <2> SUFFICES ASSUME \A j \in A : ~(j < i) PROVE FALSE
    OBVIOUS
  <2>1. \A k \in 1 .. i - 1 : k \notin A
    BY <1>0, <1>2
  <2> HIDE DEF A
  <2>2. QED
    BY <1>0, <1>2, <1>3, <2>1, FallsThrough
<1>5. /\ Allocation(i) \in A /\ Allocation(i) < i /\ i \in ReachableFrom(Program, {1}, {Allocation(i)})
  BY <1>1, <1>2, <1>4, AllocationFacts
<1>6. A # {Allocation(i)}
  BY <1>3, <1>5
<1>7. Cardinality(A) > 1
  <2>1. A \subseteq 1 .. Len(Program)
    BY DEF AllocationsOf
  <2>2. IsFiniteSet(1 .. Len(Program))
    BY <1>0, FS_Interval
  <2> HIDE DEF A
  <2>3. IsFiniteSet(A) /\ Cardinality(A) \in Nat
    BY <2>1, <2>2, FS_Subset, FS_CardinalityType
  <2>4. IsFiniteSet({Allocation(i)}) /\ Cardinality({Allocation(i)}) = 1
    BY FS_Singleton
  <2>5. Cardinality({Allocation(i)}) <= Cardinality(A) /\ Cardinality({Allocation(i)}) # Cardinality(A)
    BY <1>5, <1>6, <2>3, FS_Subset
  <2>6. QED
    BY <2>3, <2>4, <2>5
<1>8. \E k \in Positions : Program[k].kind = "jump"
  <2> SUFFICES ASSUME \A k \in 1 .. Len(Program) : Program[k].kind # "jump" PROVE FALSE
    BY <1>0
  <2>1. Allocation(i) \in 1 .. Len(Program)
    BY <1>5 DEF AllocationsOf
  <2>2. ReachableFrom(Program, {1}, {Allocation(i)}) \subseteq 1 .. Allocation(i)
    BY <1>0, <2>1, NothingPasses
  <2>3. i \in 1 .. Allocation(i) /\ Allocation(i) < i
    BY <1>5, <2>2
  <2>4. QED
    BY <2>1, <2>3
<1>9. QED
  BY <1>2, <1>7, <1>8

LEMMA AcceptedInvariant == Spec => [](CreationInv /\ FrameInv /\ AcceptedInv)
BY CreationInit, AcceptedInit, CreationStep, AcceptedStep, PTL DEF Spec

\* ExpressionAnalyzer and the generator look for the allocation of an access in different ways,
\* over paths and in the text: they agree unless an array is allocated twice and there are jumps.
THEOREM WhatIsAcceptedCompiles == Spec => []AcceptedCompiles
<1>1. CreationInv /\ FrameInv /\ AcceptedInv => AcceptedCompiles
  <2> SUFFICES ASSUME CreationInv, FrameInv, AcceptedInv, frame = "threw"
               PROVE  \/ \E i \in Positions : Program[i].kind = "clip_abs"
                      \/ \E a \in Arrays : Cardinality(AllocationsOf(Program, a)) > 1
                             /\ \E i \in Positions : Program[i].kind = "jump"
    BY DEF AcceptedCompiles
  <2>1. args \in Calls /\ ~Compiles
    BY DEF CreationInv, AcceptedInv
  <2>2. Accepted
    BY DEF FrameInv, AcceptedInv
  <2>3. QED
    BY <2>1, <2>2, AcceptedProgram
<1>2. QED
  BY <1>1, AcceptedInvariant, PTL

-------------------------------------------------------------------------------
(* Values *)

\* What the tables of properties say of the program.
LEMMA CollectedFacts ==
    ASSUME args \in Calls, Collected
    PROVE  /\ required \subseteq (0 .. 1) \X Props
           /\ \A p \in Props : p \in Written => /\ FirstOf(WritesTo(p)) \in WritesTo(p)
                                               /\ output[p] = Program[FirstOf(WritesTo(p))].kind
           /\ \A i \in Positions : /\ Writes(Program[i]) => Program[i].name \in Written
                                   /\ Reads(Program[i]) => <<Program[i].value, Program[i].name>> \in required
<1>0. /\ Positions = 1 .. Len(Program) /\ Len(Program) \in Nat
      /\ \A i \in Positions : Program[i] \in TokenRecord /\ IsToken(Program[i])
  BY ProgramFacts
<1>1. required \subseteq (0 .. 1) \X Props
  BY <1>0, TokenFacts DEF Collected, RequiredOf
<1>2. ASSUME NEW p \in Props, WritesTo(p) # {}
      PROVE  FirstOf(WritesTo(p)) \in WritesTo(p) /\ p \in Written
             /\ output[p] = Program[FirstOf(WritesTo(p))].kind
  <2>1. WritesTo(p) \in SUBSET Nat
    BY <1>0 DEF WritesTo
  <2>2. \E i \in WritesTo(p) : \A k \in WritesTo(p) : i <= k
    BY <1>2, <2>1, LeastOf
  <2>3. FirstOf(WritesTo(p)) \in WritesTo(p)
    BY <2>2 DEF FirstOf
  <2>4. output[p] = Program[FirstOf(WritesTo(p))].kind
    BY <1>2 DEF Collected, OutputOf
  <2>5. Writes(Program[FirstOf(WritesTo(p))])
    BY <2>3 DEF WritesTo
  <2>6. output[p] # "none"
    BY <2>4, <2>5 DEF Writes, Types
  <2>7. QED
    BY <2>3, <2>4, <2>6 DEF Written
<1>3. ASSUME NEW p \in Props, p \in Written PROVE WritesTo(p) # {}
  BY <1>3 DEF Written, Collected, OutputOf
<1>4. ASSUME NEW i \in Positions, Writes(Program[i]) PROVE Program[i].name \in Written
  <2>1. Program[i].name \in Props
    BY <1>0, <1>4, TokenFacts
  <2>2. i \in WritesTo(Program[i].name)
    BY <1>4 DEF WritesTo
  <2>3. QED
    BY <1>2, <2>1, <2>2
<1>5. ASSUME NEW i \in Positions, Reads(Program[i]) PROVE <<Program[i].value, Program[i].name>> \in required
  BY <1>5 DEF Collected, RequiredOf
<1>6. QED
  BY <1>1, <1>2, <1>3, <1>4, <1>5

LEMMA CellFacts ==
    /\ \A p, q : Cell(p) = Cell(q) => p = q
    /\ \A p : Cell(p) = <<0, p>> \/ Cell(p) = <<-1, p>>
    /\ \A p : <<0, p>> \in required => Cell(p) = <<0, p>>
BY DEF Cell, OutputOnly

\* While the code runs.
Context ==
    /\ args \in Calls /\ Collected /\ Accepted /\ Compiles
    /\ ArraysInv /\ DidInv /\ CodeInv /\ pc \in Positions
    /\ UNCHANGED <<required, output, source>>
\* What a token leaves.
Kept(t) ==
    /\ stack' \in Seq(Values) /\ Len(stack') = Len(stack) + t.effect
    /\ cells' \in [CellSet -> Values \cup {WriteNaN}] /\ \A c \in required : cells'[c] \in Values
    /\ ArraysInv' /\ DidInv' /\ \A p \in Props : CellHolds(p)'

\* The token finds its arguments.
LEMMA Arguments ==
    ASSUME Context
    PROVE  /\ Program[pc] \in TokenRecord /\ IsToken(Program[pc]) /\ Program[pc].kind # "clip_abs"
           /\ stack \in Seq(Values) /\ Len(stack) \in Nat /\ Program[pc].arity <= Len(stack)
           /\ \A n \in 0 .. Len(stack) : Pop(n) \in Seq(Values) /\ Len(Pop(n)) = Len(stack) - n
           /\ \A n \in 1 .. Len(stack) : stack[n] \in Values
           /\ Len(stack) > 0 => Top \in Values
<1>1. Program[pc] \in TokenRecord /\ IsToken(Program[pc]) /\ Positions = 1 .. Len(Program)
  BY ProgramFacts DEF Context
<1>2. Program[pc].kind # "clip_abs"
  BY DEF Context, Compiles
<1>3. stack \in Seq(Values) /\ Len(stack) \in Nat
  BY DEF Context, CodeInv
<1>4. Program[pc].arity <= Len(stack)
  BY <1>1 DEF Context, Accepted, Balanced, CodeInv
<1>5. \A n \in 1 .. Len(stack) : stack[n] \in Values
  BY <1>3
<1>6. ASSUME NEW n \in 0 .. Len(stack) PROVE Pop(n) \in Seq(Values) /\ Len(Pop(n)) = Len(stack) - n
  <2>1. 1 \in Int /\ Len(stack) - n \in Int /\ \A k \in 1 .. Len(stack) - n : stack[k] \in Values
    BY <1>3, <1>5
  <2>2. /\ SubSeq(stack, 1, Len(stack) - n) \in Seq(Values)
        /\ Len(SubSeq(stack, 1, Len(stack) - n)) =
               IF 1 <= Len(stack) - n THEN Len(stack) - n - 1 + 1 ELSE 0
    BY <2>1, SubSeqProperties
  <2>3. QED
    BY <1>3, <2>2 DEF Pop
<1>7. Len(stack) > 0 => Top \in Values
  BY <1>3, <1>5 DEF Top
<1>8. QED
  BY <1>1, <1>2, <1>3, <1>4, <1>5, <1>6, <1>7

LEMMA SameCells ==
    ASSUME Context, UNCHANGED <<cells, did>>
    PROVE  /\ cells' \in [CellSet -> Values \cup {WriteNaN}] /\ \A c \in required : cells'[c] \in Values
           /\ DidInv' /\ \A p \in Props : CellHolds(p)'
<1>1. Written' = Written /\ \A p : Cell(p)' = Cell(p)
  BY DEF Context, Written, Cell
<1>2. DidInv'
  BY <1>1 DEF Context, DidInv
<1>3. \A p \in Props : CellHolds(p)'
  BY <1>1 DEF Context, CodeInv, CellHolds
<1>4. QED
  BY <1>2, <1>3 DEF Context, CodeInv

LEMMA AllocateKeeps ==
    ASSUME Context, Allocates(Program[pc]), Allocate(Program[pc])
    PROVE  Kept(Program[pc])
<1> DEFINE t == Program[pc]
           size == IF t.kind = "alloc_static" THEN t.value ELSE Truncated(Top)
           new == EnsureBuffer(t.name, size)
<1>0. /\ t \in TokenRecord /\ t.name \in Arrays
      /\ t.arity = (IF t.kind = "alloc_dyn" THEN 1 ELSE 0) /\ t.effect = 0 - t.arity
      /\ t.kind \in {"alloc_static", "alloc_dyn"}
  BY Arguments, TokenFacts DEF Allocates
<1>1. size \in Int
  <2>1. CASE t.kind = "alloc_static"
    BY <1>0, <2>1 DEF TokenRecord
  <2>2. CASE t.kind = "alloc_dyn"
    <3>1. Top \in Values
      BY <1>0, <2>2, Arguments
    <3>2. Top[2] \in Int
      BY <3>1 DEF Values
    <3>3. QED
      BY <2>2, <3>2 DEF Truncated
  <2>3. QED
    BY <1>0, <2>1, <2>2
<1>2. ArraysInv'
  <2>1. buffer' = [buffer EXCEPT ![t.name] = new] /\ UNCHANGED stored
    BY DEF Allocate
  <2>2. buffer[t.name] \in Int \X Int \X [Indices -> Values] /\ ArraysInv
    BY <1>0 DEF Context, ArraysInv
  <2> HIDE DEF size
  <2>3. new \in Int \X Int \X [Indices -> Values]
    BY <1>1, <2>2 DEF EnsureBuffer
  <2> HIDE DEF new
  <2>4. buffer' \in [Arrays -> Int \X Int \X [Indices -> Values]]
    BY <2>1, <2>2, <2>3 DEF ArraysInv
  <2>5. QED
    BY <2>1, <2>2, <2>4 DEF ArraysInv
<1>3. stack' \in Seq(Values) /\ Len(stack') = Len(stack) + t.effect
  <2>1. stack' = Pop(t.arity) /\ t.arity \in 0 .. Len(stack)
    BY <1>0, Arguments DEF Allocate
  <2>2. QED
    BY <1>0, <2>1, Arguments
<1>4. QED
  BY <1>2, <1>3, SameCells DEF Kept, Allocate

LEMMA ReadKeeps ==
    ASSUME Context, Reads(Program[pc]), ReadCell(Program[pc])
    PROVE  Kept(Program[pc])
<1> DEFINE t == Program[pc]
           c == IF t.value = 0 /\ t.name \in Written THEN Cell(t.name) ELSE <<t.value, t.name>>
<1>1. t \in TokenRecord /\ t.value \in 0 .. 1 /\ t.effect = 1 /\ <<t.value, t.name>> \in required
  BY Arguments, TokenFacts, CollectedFacts DEF Context
<1>2. c \in required
  BY <1>1, CellFacts
<1>3. cells[c] \in Values
  BY <1>2 DEF Context, CodeInv
<1>4. Holds(cells[c]) \in Values
  BY DEF Holds, Zero, Number, Values
<1>5. stack' \in Seq(Values) /\ Len(stack') = Len(stack) + t.effect
  <2> HIDE DEF c
  <2>1. PICK v \in Values : stack' = Append(stack, v)
    BY <1>3, <1>4 DEF ReadCell, c
  <2>2. QED
    BY <1>1, <2>1, Arguments, AppendProperties
<1>6. ArraysInv'
  BY DEF Context, ArraysInv, ReadCell
<1>7. QED
  BY <1>5, <1>6, SameCells DEF Kept, ReadCell

LEMMA WriteKeeps ==
    ASSUME Context, Writes(Program[pc]), WriteCell(Program[pc])
    PROVE  Kept(Program[pc])
<1> DEFINE t == Program[pc]
           value == IF t.kind = "delete" THEN DeleteNaN ELSE Top
           done == <<IF t.kind = "delete" THEN "deleted" ELSE "wrote", value>>
           c == Cell(t.name)
<1>1. /\ t \in TokenRecord /\ t.name \in Props /\ t.name \in Written
      /\ t.arity = (IF t.kind = "delete" THEN 0 ELSE 1) /\ t.effect = 0 - t.arity
  BY Arguments, TokenFacts, CollectedFacts DEF Context
<1>2. value \in Values
  <2>1. CASE t.kind = "delete"
    BY <2>1 DEF DeleteNaN, Values
  <2>2. CASE t.kind # "delete"
    BY <1>1, <2>2, Arguments
  <2>3. QED
    BY <2>1, <2>2
<1>3. done \in {"no", "wrote", "deleted"} \X Values /\ done[1] # "no" /\ done[2] = value
      /\ (done[1] = "deleted" => done[2] = DeleteNaN)
  BY <1>2
<1>4. /\ stack' = Pop(t.arity) /\ UNCHANGED <<buffer, stored>>
      /\ cells' = [cells EXCEPT ![c] = value] /\ did' = [did EXCEPT ![t.name] = done]
  BY DEF WriteCell
<1>5. c \in CellSet /\ cells \in [CellSet -> Values \cup {WriteNaN}]
  BY <1>1 DEF Context, CodeInv, CellSet
<1> HIDE DEF value, done, c
<1>6. cells' \in [CellSet -> Values \cup {WriteNaN}] /\ \A d \in required : cells'[d] \in Values
  BY <1>2, <1>4, <1>5 DEF Context, CodeInv
<1>7. did \in [Props -> {"no", "wrote", "deleted"} \X Values]
  BY DEF Context, DidInv
<1>8. Written' = Written /\ \A p : Cell(p)' = Cell(p)
  BY DEF Context, Written, Cell
<1>9. DidInv'
  BY <1>1, <1>3, <1>4, <1>7, <1>8 DEF Context, DidInv
<1>10. ASSUME NEW p \in Props PROVE CellHolds(p)'
  <2>1. CASE p = t.name
    BY <1>1, <1>3, <1>4, <1>5, <1>7, <1>8, <2>1 DEF CellHolds, c
  <2>2. CASE p # t.name
    <3>1. did'[p] = did[p]
      BY <1>4, <1>7, <2>2
    <3>2. Cell(p) # c
      BY <2>2, CellFacts DEF c
    <3>3. Cell(p) \in CellSet => cells'[Cell(p)] = cells[Cell(p)]
      BY <1>4, <1>5, <3>2
    <3>4. p \in Written => Cell(p) \in CellSet
      BY DEF CellSet
    <3>5. <<0, p>> \in required => Cell(p) = <<0, p>> /\ Cell(p) \in CellSet
      BY CellFacts DEF CellSet
    <3>6. did[p][1] # "no" => p \in Written
      BY DEF Context, DidInv
    <3>7. CellHolds(p)
      BY DEF Context, CodeInv
    <3>8. UNCHANGED <<required, source>>
      BY DEF Context
    <3>9. QED
      BY <1>8, <3>1, <3>3, <3>4, <3>5, <3>6, <3>7, <3>8 DEF CellHolds
  <2>3. QED
    BY <2>1, <2>2
<1>11. stack' \in Seq(Values) /\ Len(stack') = Len(stack) + t.effect
  <2>1. t.arity \in 0 .. Len(stack)
    BY <1>1, Arguments
  <2>2. QED
    BY <1>1, <1>4, <2>1, Arguments
<1>12. ArraysInv'
  BY <1>4 DEF Context, ArraysInv
<1>13. QED
  BY <1>6, <1>9, <1>10, <1>11, <1>12 DEF Kept

\* What a store does to the arrays.
Stores(a, v) ==
    /\ \A b \in Arrays : b # a => buffer'[b][3] = buffer[b][3] /\ stored'[b] = stored[b]
    /\ buffer'[a][3] = IF Reaches(a) THEN [buffer[a][3] EXCEPT ![Index] = v] ELSE buffer[a][3]
    /\ stored'[a] = IF InBounds(a) THEN [stored[a] EXCEPT ![Index] = v] ELSE stored[a]
LEMMA StoreGivesElement ==
    ASSUME ArraysInv, NEW a \in Arrays, NEW v \in Values, v = stack[Len(stack) - 1], StoreElement(a)
    PROVE  ArraysInv' /\ (\A b \in Arrays : buffer'[b][2] = buffer[b][2]) /\ Stores(a, v)
<1>1. /\ buffer \in [Arrays -> Int \X Int \X [Indices -> Values]]
      /\ stored \in [Arrays -> [Indices -> Values \cup {Nothing}]]
  BY DEF ArraysInv
<1>2. InBounds(a) => Index \in Indices
  BY DEF InBounds
<1>3. Reaches(a) => InBounds(a)
  BY DEF Reaches
<1>4. /\ buffer' = IF Reaches(a) THEN [buffer EXCEPT ![a][3][Index] = v] ELSE buffer
      /\ stored' = IF InBounds(a) THEN [stored EXCEPT ![a][Index] = v] ELSE stored
  BY DEF StoreElement
<1> DEFINE contents == [buffer[a][3] EXCEPT ![Index] = v]
           whole == [buffer[a] EXCEPT ![3] = contents]
           noted == [stored[a] EXCEPT ![Index] = v]
<1>5. buffer[a] \in Int \X Int \X [Indices -> Values] /\ stored[a] \in [Indices -> Values \cup {Nothing}]
  BY <1>1
<1>6. /\ Reaches(a) => buffer' = [buffer EXCEPT ![a] = whole]
      /\ InBounds(a) => stored' = [stored EXCEPT ![a] = noted]
  BY <1>4
<1>7. contents \in [Indices -> Values] /\ noted \in [Indices -> Values \cup {Nothing}]
  BY <1>5
<1> HIDE DEF contents, noted
<1>8. whole \in Int \X Int \X [Indices -> Values] /\ whole[3] = contents /\ whole[2] = buffer[a][2]
  BY <1>5, <1>7
<1> HIDE DEF whole
<1>9. CASE Reaches(a)
  <2>1. buffer' \in [Arrays -> Int \X Int \X [Indices -> Values]]
    BY <1>1, <1>6, <1>8, <1>9
  <2>2. /\ \A b \in Arrays : buffer'[b][2] = buffer[b][2]
        /\ \A b \in Arrays : b # a => buffer'[b][3] = buffer[b][3]
        /\ buffer'[a][3] = contents
    BY <1>1, <1>6, <1>8, <1>9
  <2>3. stored' \in [Arrays -> [Indices -> Values \cup {Nothing}]] /\ stored'[a] = noted
        /\ \A b \in Arrays : b # a => stored'[b] = stored[b]
    BY <1>1, <1>3, <1>6, <1>7, <1>9
  <2>4. QED
    BY <1>3, <1>9, <2>1, <2>2, <2>3 DEF ArraysInv, Stores, contents, noted
<1>10. CASE ~Reaches(a) /\ InBounds(a)
  <2>1. buffer' = buffer
    BY <1>4, <1>10
  <2>2. stored' \in [Arrays -> [Indices -> Values \cup {Nothing}]] /\ stored'[a] = noted
        /\ \A b \in Arrays : b # a => stored'[b] = stored[b]
    BY <1>1, <1>6, <1>7, <1>10
  <2>3. QED
    BY <1>1, <1>10, <2>1, <2>2 DEF ArraysInv, Stores, noted
<1>11. CASE ~Reaches(a) /\ ~InBounds(a)
  BY <1>1, <1>4, <1>11 DEF ArraysInv, Stores
<1>12. QED
  BY <1>3, <1>9, <1>10, <1>11

LEMMA AccessKeeps ==
    ASSUME Context, Program[pc].kind \in {"load", "store"}, Access(Program[pc])
    PROVE  Kept(Program[pc])
<1> DEFINE t == Program[pc]
           a == t.name
<1>1. /\ t \in TokenRecord /\ a \in Arrays /\ Len(stack) \in Nat /\ t.arity <= Len(stack)
      /\ t.kind = "load" => t.arity = 1 /\ t.effect = 0
      /\ t.kind = "store" => t.arity = 2 /\ t.effect = -2
  BY Arguments, TokenFacts
<1>2. buffer \in [Arrays -> Int \X Int \X [Indices -> Values]] /\ ArraysInv
  BY DEF Context, ArraysInv
<1>3. CASE t.kind = "load"
  <2>1. PICK v \in Values : stack' = Append(Pop(1), v) /\ UNCHANGED <<buffer, stored>>
    <3>1. Garbage \subseteq Values
      BY DEF Garbage, Zero, Number, Values
    <3>2. buffer[a][3] \in [Indices -> Values]
      BY <1>1, <1>2
    <3>3. Reaches(a) => buffer[a][3][Index] \in Values
      BY <3>2 DEF Reaches, InBounds
    <3>4. LoadElement(a)
      BY <1>3 DEF Access
    <3>5. QED
      BY <3>1, <3>3, <3>4 DEF LoadElement
  <2>2. 1 \in 0 .. Len(stack)
    BY <1>1, <1>3
  <2>3. Pop(1) \in Seq(Values) /\ Len(Pop(1)) = Len(stack) - 1
    BY <2>2, Arguments
  <2>4. stack' \in Seq(Values) /\ Len(stack') = Len(stack) - 1 + 1
    BY <2>1, <2>3, AppendProperties
  <2>5. ArraysInv'
    BY <1>2, <2>1 DEF ArraysInv
  <2>6. QED
    BY <1>1, <1>3, <2>4, <2>5, SameCells DEF Kept, Access
<1>4. CASE t.kind = "store"
  <2>1. StoreElement(a)
    BY <1>4 DEF Access
  <2>2. stack[Len(stack) - 1] \in Values
    <3>1. Len(stack) - 1 \in 1 .. Len(stack)
      BY <1>1, <1>4
    <3>2. QED
      BY <3>1, Arguments
  <2>3. ArraysInv'
    BY <1>1, <1>2, <2>1, <2>2, StoreGivesElement
  <2>4. 2 \in 0 .. Len(stack)
    BY <1>1, <1>4
  <2>5. stack' = Pop(2)
    BY <2>1 DEF StoreElement
  <2>6. stack' \in Seq(Values) /\ Len(stack') = Len(stack) - 2
    BY <2>4, <2>5, Arguments
  <2>7. QED
    BY <1>1, <1>4, <2>3, <2>6, SameCells DEF Kept, Access
<1>5. QED
  BY <1>3, <1>4

LEMMA MoveKeeps ==
    ASSUME Context, LET t == Program[pc] IN
               ~Reads(t) /\ ~Writes(t) /\ ~Allocates(t) /\ t.kind \notin {"load", "store"},
           Move(Program[pc])
    PROVE  Kept(Program[pc])
<1> DEFINE t == Program[pc]
<1>1. /\ t \in TokenRecord /\ Len(stack) \in Nat /\ t.arity <= Len(stack) /\ stack \in Seq(Values)
      /\ t.kind = "num" => t.arity = 0 /\ t.effect = 1
      /\ t.kind # "num" => t.effect = 0 - t.arity
  BY Arguments, TokenFacts
<1>0. UNCHANGED <<cells, did>> /\ ArraysInv'
  BY DEF Move, Context, ArraysInv
<1>2. CASE t.kind = "num"
  <2>1. Number(t.value) \in Values
    BY <1>1 DEF Number, Values, TokenRecord
  <2>2. stack' = Append(stack, Number(t.value))
    BY <1>2 DEF Move
  <2>3. stack' \in Seq(Values) /\ Len(stack') = Len(stack) + 1
    BY <1>1, <2>1, <2>2, AppendProperties
  <2>4. QED
    BY <1>0, <1>1, <1>2, <2>3, SameCells DEF Kept
<1>3. CASE t.kind # "num"
  <2>1. stack' = Pop(t.arity)
    BY <1>3 DEF Move
  <2>2. t.arity \in 0 .. Len(stack)
    BY <1>1 DEF TokenRecord
  <2>3. stack' \in Seq(Values) /\ Len(stack') = Len(stack) - t.arity
    BY <2>1, <2>2, Arguments
  <2>4. t.arity \in Nat /\ Len(stack') = Len(stack) + t.effect
    BY <1>1, <1>3, <2>3 DEF TokenRecord
  <2>5. QED
    BY <1>0, <2>3, <2>4, SameCells DEF Kept
<1>4. QED
  BY <1>2, <1>3

LEMMA SameValues ==
    ASSUME UNCHANGED <<args, required, output, codeVars>>
    PROVE  /\ ArraysInv' = ArraysInv /\ DidInv' = DidInv /\ CodeInv' = CodeInv
           /\ \A p \in Props : StoredRight(p)' = StoredRight(p)
<1>1. /\ UNCHANGED <<source, dst, cells, pc, stack, pointer, buffer, did, stored>>
      /\ Written' = Written /\ CellSet' = CellSet /\ \A p : Cell(p)' = Cell(p)
  BY DEF codeVars, Written, CellSet, Cell
<1>2. Program' = Program
  BY DEF Program
<1>3. \A p \in Props : CellHolds(p)' = CellHolds(p)
  BY <1>1 DEF CellHolds
<1>4. ArraysInv' = ArraysInv /\ DidInv' = DidInv
  BY <1>1 DEF ArraysInv, DidInv
<1>5. CodeInv' = CodeInv
  BY <1>1, <1>2, <1>3 DEF CodeInv
<1>6. \A p \in Props : StoredRight(p)' = StoredRight(p)
  BY <1>1 DEF StoredRight
<1>7. QED
  BY <1>4, <1>5, <1>6

\* The first values of the cells.
LEMMA RequestGives ==
    ASSUME args \in Calls, Collected, ArraysInv, NEW new \in Sources, GetFrames(new),
           UNCHANGED <<args, required, output>>
    PROVE  ArraysInv' /\ DidInv' /\ CodeInv'
<1>0. Program' = Program /\ Program \in Seq(TokenRecord) /\ Len(Program) \in Nat
      /\ Written' = Written /\ CellSet' = CellSet /\ \A p : Cell(p)' = Cell(p)
  BY ProgramFacts DEF Program, Written, CellSet, Cell
<1>1. new \in [0 .. 1 -> [Props -> Property]]
  BY SourcesAssumption DEF Property
<1>2. Zero \in Values /\ ReadNaN \in Values
  BY DEF Zero, Number, ReadNaN, Values
<1>3. ArraysInv'
  <2>1. /\ buffer' = [a \in Arrays |-> <<0, buffer[a][2], [i \in Indices |-> Zero]>>]
        /\ stored' = [a \in Arrays |-> [i \in Indices |-> Nothing]]
    BY DEF GetFrames, ClearArrays
  <2>2. \A a \in Arrays : buffer[a][2] \in Int
    BY DEF ArraysInv
  <2>3. [i \in Indices |-> Zero] \in [Indices -> Values]
    BY <1>2
  <2>4. QED
    BY <2>1, <2>2, <2>3 DEF ArraysInv
<1>4. did' = [p \in Props |-> <<"no", Zero>>] /\ source' = new /\ cells' = FirstValues(new)
  BY DEF GetFrames
<1>5. DidInv'
  BY <1>0, <1>1, <1>2, <1>4 DEF DidInv
<1>6. ASSUME NEW c \in required PROVE cells'[c] \in Values /\ cells'[c] = InputValue(new[c[1]][c[2]])
  <2>1. c \in (0 .. 1) \X Props
    BY CollectedFacts
  <2>2. new[c[1]][c[2]] \in Property
    BY <1>1, <2>1
  <2>3. InputValue(new[c[1]][c[2]]) \in Values
    BY <1>2, <2>2 DEF InputValue, Property, Values
  <2>4. QED
    BY <1>4, <2>3 DEF FirstValues
<1>7. ASSUME NEW c \in CellSet, c \notin required PROVE cells'[c] = WriteNaN
  BY <1>4, <1>7 DEF FirstValues, CellSet
<1>8. cells' \in [CellSet -> Values \cup {WriteNaN}]
  <2>1. cells' = [c \in CellSet |-> cells'[c]]
    BY <1>4 DEF FirstValues, CellSet
  <2>2. QED
    BY <1>6, <1>7, <2>1
<1>9. ASSUME NEW p \in Props PROVE CellHolds(p)'
  <2>1. did'[p][1] = "no"
    BY <1>4
  <2>2. CASE <<0, p>> \in required
    BY <1>4, <1>6, <2>1, <2>2 DEF CellHolds
  <2>3. CASE <<0, p>> \notin required
    <3>1. Cell(p) = <<-1, p>> /\ Cell(p) \notin required
      BY <2>3, CollectedFacts DEF Cell, OutputOnly
    <3>2. p \in Written => cells'[Cell(p)] = WriteNaN
      BY <1>7, <3>1 DEF CellSet
    <3>3. QED
      BY <1>0, <2>1, <2>3, <3>2 DEF CellHolds
  <2>4. QED
    BY <2>2, <2>3
<1>10. pc' = 1 /\ stack' = <<>> /\ dst' = source'[0]
  BY <1>4 DEF GetFrames
<1>11. Heights(Program)[1] = 0
  BY <1>0, HeightsFollow
<1>12. CodeInv'
  BY <1>0, <1>6, <1>8, <1>9, <1>10, <1>11 DEF CodeInv
<1>13. QED
  BY <1>3, <1>5, <1>12

\* A token of the program.
LEMMA RunGives ==
    ASSUME CreationInv, FrameInv, AcceptedInv, ValuesInv, Run
    PROVE  ArraysInv' /\ DidInv' /\ CodeInv'
<1> DEFINE t == Program[pc]
<1>1. Context
  <2>1. frame = "run" /\ pc <= Len(Program) /\ UNCHANGED <<required, output, source>>
    BY DEF Run
  <2>2. args \in Calls /\ Collected /\ Accepted /\ Compiles
    BY <2>1 DEF CreationInv, FrameInv, AcceptedInv
  <2>3. ArraysInv /\ DidInv /\ CodeInv
    BY <2>1 DEF ValuesInv
  <2>4. pc \in Positions
    BY <2>1, <2>2, <2>3, ProgramFacts DEF CodeInv
  <2>5. QED
    BY <2>1, <2>2, <2>3, <2>4 DEF Context
<1>2. Kept(t)
  <2>1. CASE Allocates(t)
    <3>1. ~Reads(t) /\ ~Writes(t) /\ t.kind \notin {"load", "store"}
      BY <2>1 DEF Reads, Allocates, Writes, Types
    <3>2. QED
      BY <1>1, <2>1, <3>1, AllocateKeeps DEF Run
  <2>2. CASE Reads(t)
    <3>1. ~Allocates(t) /\ ~Writes(t) /\ t.kind \notin {"load", "store"}
      BY <2>2 DEF Reads, Allocates, Writes, Types
    <3>2. QED
      BY <1>1, <2>2, <3>1, ReadKeeps DEF Run
  <2>3. CASE Writes(t)
    <3>1. ~Allocates(t) /\ ~Reads(t) /\ t.kind \notin {"load", "store"}
      BY <2>3 DEF Reads, Allocates, Writes, Types
    <3>2. QED
      BY <1>1, <2>3, <3>1, WriteKeeps DEF Run
  <2>4. CASE t.kind \in {"load", "store"}
    <3>1. ~Allocates(t) /\ ~Reads(t) /\ ~Writes(t)
      BY <2>4 DEF Reads, Allocates, Writes, Types
    <3>2. QED
      BY <1>1, <2>4, <3>1, AccessKeeps DEF Run
  <2>5. CASE ~Allocates(t) /\ ~Reads(t) /\ ~Writes(t) /\ t.kind \notin {"load", "store"}
    BY <1>1, <2>5, MoveKeeps DEF Run
  <2>6. QED
    BY <2>1, <2>2, <2>3, <2>4, <2>5
<1>3. /\ Program \in Seq(TokenRecord) /\ Len(Program) \in Nat /\ pc \in 1 .. Len(Program)
      /\ ~UndefinedLabel(Program) /\ Balanced(Program) /\ Len(stack) = Heights(Program)[pc]
  BY <1>1, ProgramFacts DEF Context, Accepted, CodeInv
<1>4. Len(stack') = Heights(Program)[pc + 1]
  BY <1>2, <1>3, HeightsFollow DEF Kept
<1>5. \/ pc' = pc + 1
      \/ t.kind = "jump" /\ pc' = TargetOf(Program, pc)
  BY DEF Run
<1>6. pc' \in 1 .. Len(Program) + 1 /\ Len(stack') = Heights(Program)[pc']
  <2>1. CASE pc' = pc + 1
    BY <1>3, <1>4, <2>1
  <2>2. CASE t.kind = "jump" /\ pc' = TargetOf(Program, pc)
    <3>1. TargetOf(Program, pc) \in 1 .. Len(Program)
      BY <1>3, <2>2, ProgramLinked
    <3>2. Heights(Program)[TargetOf(Program, pc)] = Heights(Program)[pc + 1]
      BY <1>3, <2>2 DEF Balanced
    <3>3. QED
      BY <1>3, <1>4, <2>2, <3>1, <3>2
  <2>3. QED
    BY <1>5, <2>1, <2>2
<1>7. Program' = Program /\ CellSet' = CellSet /\ required' = required /\ dst' = source'[0]
  <2>1. UNCHANGED <<args, required, output, source, dst>>
    BY DEF Run, creation
  <2>2. dst = source[0]
    BY <1>1 DEF Context, CodeInv
  <2>3. QED
    BY <2>1, <2>2 DEF Program, CellSet, Cell, Written
<1>8. QED
  BY <1>2, <1>6, <1>7 DEF Kept, CodeInv

\* The end of a frame.
LEMMA StoreGives ==
    ASSUME DidInv, CodeInv, StoreProps
    PROVE  DidInv' /\ \A p \in Props : StoredRight(p)'
<1>1. UNCHANGED <<required, output, source, cells, did>> /\ Written' = Written
  BY DEF StoreProps, Written
<1>2. DidInv'
  BY <1>1 DEF DidInv
<1>3. ASSUME NEW p \in Props PROVE StoredRight(p)'
  <2>1. did[p] \in {"no", "wrote", "deleted"} \X Values
    BY DEF DidInv
  <2>2. dst = source[0] /\ CellHolds(p)
    BY DEF CodeInv
  <2>3. /\ p \notin Written => dst'[p] = dst[p]
        /\ p \in Written /\ cells[Cell(p)] = WriteNaN => dst'[p] = dst[p]
        /\ p \in Written /\ cells[Cell(p)] = DeleteNaN => dst'[p] = Absent
        /\ p \in Written /\ cells[Cell(p)] \notin {WriteNaN, DeleteNaN} =>
               dst'[p] = Typed(output[p], source[0][p], cells[Cell(p)])
    <3>1. dst'[p] = IF p \notin Written THEN dst[p]
                    ELSE CASE cells[Cell(p)] = WriteNaN -> dst[p]
                           [] cells[Cell(p)] = DeleteNaN -> Absent
                           [] OTHER -> Typed(output[p], source[0][p], cells[Cell(p)])
      BY DEF StoreProps
    <3>2. WriteNaN # DeleteNaN
      BY DEF WriteNaN, DeleteNaN
    <3>3. QED
      BY <3>1, <3>2
  <2>4. CASE did[p][1] # "no"
    <3>1. p \in Written /\ cells[Cell(p)] = did[p][2] /\ (did[p][1] = "deleted" => did[p][2] = DeleteNaN)
      BY <2>2, <2>4 DEF DidInv, CellHolds
    <3>2. did[p][2] # WriteNaN /\ WriteNaN # DeleteNaN
      BY <2>1 DEF WriteNaN, DeleteNaN, Values
    <3>3. \A type, property, v : Typed(type, property, v)' = Typed(type, property, v)
      BY DEF Typed, Rounded, AsInt
    <3>4. QED
      BY <1>1, <2>1, <2>3, <2>4, <3>1, <3>2, <3>3 DEF StoredRight
  <2>5. CASE did[p][1] = "no"
    BY <1>1, <2>2, <2>3, <2>5 DEF StoredRight, CellHolds
  <2>6. QED
    BY <2>4, <2>5
<1>4. QED
  BY <1>2, <1>3

LEMMA ValuesInit == FrameInit => ValuesInv
<1> SUFFICES ASSUME FrameInit PROVE ValuesInv
  OBVIOUS
<1>1. Zero \in Values
  BY DEF Zero, Number, Values
<1>2. /\ frame = "none" /\ buffer = [a \in Arrays |-> <<0, 0, [i \in Indices |-> Zero]>>]
      /\ stored = [a \in Arrays |-> [i \in Indices |-> Nothing]]
  BY DEF FrameInit
<1>3. [i \in Indices |-> Zero] \in [Indices -> Values]
  BY <1>1
<1>4. QED
  BY <1>2, <1>3 DEF ValuesInv, ArraysInv

LEMMA ValuesStep ==
    ASSUME CreationInv, FrameInv, AcceptedInv, ValuesInv, [Next]_vars
    PROVE  ValuesInv'
<1>0. args' = args /\ args \in Calls
  BY CreationStep DEF CreationInv
<1>1. CASE CreateStep \/ CollectProps \/ Analyse \/ ParseCommonParams
  <2>1. step \notin {"created", "freed"}
    BY <1>1, CreateKeeps DEF CreateStep, CollectProps, Analyse, ParseCommonParams
  <2>2. UNCHANGED <<frame, buffer, stored>> /\ frame = "none"
    BY <1>1, <2>1 DEF CreateStep, CollectProps, Analyse, ParseCommonParams, frameVars, codeVars, FrameInv
  <2>3. QED
    BY <2>2 DEF ValuesInv, ArraysInv
<1>2. CASE Request
  <2>1. step = "created" /\ args.filter = "SingleExpr" /\ UNCHANGED <<required, output>>
        /\ frame' \in {"run", "key"} /\ \E new \in Sources : GetFrames(new)
    BY <1>2 DEF Request
  <2>2. Collected
    BY <2>1 DEF AcceptedInv
  <2>3. ArraysInv' /\ DidInv' /\ CodeInv'
    BY <1>0, <2>1, <2>2, RequestGives DEF ValuesInv
  <2>4. QED
    BY <2>1, <2>3 DEF ValuesInv
<1>3. CASE MakeKey \/ Compile \/ FreeFilter \/ UNCHANGED vars
  <2>1. UNCHANGED <<args, required, output, codeVars>>
    BY <1>0, <1>3 DEF MakeKey, Compile, FreeFilter, vars, frameVars
  <2>2. frame' = frame \/ (frame \in {"key", "compile"} /\ frame' \in {"compile", "run", "leaked", "threw"})
    BY <1>3 DEF MakeKey, Compile, FreeFilter, vars, frameVars
  <2>3. QED
    BY <2>1, <2>2, SameValues DEF ValuesInv
<1>4. CASE Run
  <2>1. frame' = "run"
    BY <1>4 DEF Run
  <2>2. QED
    BY <1>4, <2>1, RunGives DEF ValuesInv
<1>5. CASE StoreProps
  <2>1. frame = "run" /\ frame' = "done" /\ UNCHANGED <<buffer, stored>>
    BY <1>5 DEF StoreProps
  <2>2. DidInv' /\ \A p \in Props : StoredRight(p)'
    BY <1>5, <2>1, StoreGives DEF ValuesInv
  <2>3. QED
    BY <2>1, <2>2 DEF ValuesInv, ArraysInv
<1>6. QED
  BY <1>1, <1>2, <1>3, <1>4, <1>5 DEF Next

LEMMA ValuesInvariant == Spec => [](CreationInv /\ FrameInv /\ AcceptedInv /\ ValuesInv)
BY CreationInit, AcceptedInit, ValuesInit, CreationStep, AcceptedStep, ValuesStep, PTL DEF Spec

\* The type of the first write in the text is that of all of them, if it is not a deletion.
LEMMA OneType ==
    ASSUME args \in Calls, Collected, Accepted, NEW p \in Props, p \in Written, ~DeletedFirst(p)
    PROVE  TypeWritten(p) = output[p]
<1> DEFINE kinds == {Program[i].kind : i \in WritesTo(p)} \ {"delete"}
           first == Program[FirstOf(WritesTo(p))].kind
<1>1. FirstOf(WritesTo(p)) \in WritesTo(p) /\ output[p] = first
  BY CollectedFacts
<1>2. first \in Types /\ first \in kinds
  BY <1>1 DEF DeletedFirst, WritesTo, Writes
<1>3. TypeWritten(p) \in Types /\ TypeWritten(p) \in kinds
  <2>1. \E t \in Types : \E i \in WritesTo(p) : Program[i].kind = t
    BY <1>1, <1>2
  <2>2. TypeWritten(p) \in Types /\ \E i \in WritesTo(p) : Program[i].kind = TypeWritten(p)
    BY <2>1 DEF TypeWritten
  <2>3. QED
    BY <2>2 DEF Types
<1>4. Cardinality(kinds) <= 1
  BY DEF Accepted, SameTypes
<1>5. kinds \subseteq Types
  BY DEF WritesTo, Writes
<1> HIDE DEF kinds, first
<1>6. IsFiniteSet(kinds) /\ Cardinality(kinds) \in Nat
  <2>1. IsFiniteSet({"int"} \cup {"float"}) /\ IsFiniteSet({"auto_int"} \cup {"auto_float"})
    BY FS_Singleton, FS_Union
  <2>2. IsFiniteSet(({"int"} \cup {"float"}) \cup ({"auto_int"} \cup {"auto_float"}))
    BY <2>1, FS_Union
  <2>3. Types = ({"int"} \cup {"float"}) \cup ({"auto_int"} \cup {"auto_float"})
    BY DEF Types
  <2>4. QED
    BY <1>5, <2>2, <2>3, FS_Subset, FS_CardinalityType
<1>7. Cardinality(kinds) = 1
  <2>1. kinds # {}
    BY <1>2
  <2>2. Cardinality(kinds) # 0
    BY <1>6, <2>1, FS_EmptySet
  <2>3. QED
    BY <1>4, <1>6, <2>2
<1>8. QED
  BY <1>1, <1>2, <1>3, <1>6, <1>7, FS_Singleton

\* What the writes of a program do to a property is what the new frame has and the program sees.
THEOREM FramesAreWritten == Spec => []PropsAsWritten
<1>1. CreationInv /\ FrameInv /\ AcceptedInv /\ ValuesInv => PropsAsWritten
  <2> SUFFICES ASSUME CreationInv, FrameInv, AcceptedInv, ValuesInv PROVE PropsAsWritten
    OBVIOUS
  <2>1. ASSUME frame = "done", NEW p \in Props
        PROVE  CASE did[p][1] = "wrote" ->
                        \/ did[p][2] = DeleteNaN \/ DeletedFirst(p)
                        \/ dst[p] = Typed(TypeWritten(p), source[0][p], did[p][2])
                 [] did[p][1] = "deleted" -> dst[p] = Absent
                 [] did[p][1] = "no" -> dst[p] = source[0][p] \/ (p \in Written /\ <<0, p>> \in required)
    <3>1. DidInv /\ StoredRight(p)
      BY <2>1 DEF ValuesInv
    <3>2. args \in Calls /\ Collected /\ Accepted
      BY <2>1 DEF CreationInv, FrameInv, AcceptedInv
    <3>3. did[p][1] \in {"no", "wrote", "deleted"} /\ (did[p][1] # "no" => p \in Written)
      BY <3>1 DEF DidInv
    <3>4. CASE did[p][1] = "wrote"
      <4>1. did[p][2] = DeleteNaN \/ dst[p] = Typed(output[p], source[0][p], did[p][2])
        BY <3>1, <3>4 DEF StoredRight
      <4>2. DeletedFirst(p) \/ TypeWritten(p) = output[p]
        BY <3>2, <3>3, <3>4, OneType
      <4>3. QED
        BY <3>4, <4>1, <4>2
    <3>5. CASE did[p][1] # "wrote"
      BY <3>1, <3>3, <3>5 DEF StoredRight
    <3>6. QED
      BY <3>4, <3>5
  <2>2. ASSUME frame = "run", NEW p \in Props, <<0, p>> \in required
        PROVE  cells[<<0, p>>] = IF did[p][1] = "no" THEN InputValue(source[0][p]) ELSE did[p][2]
    <3>1. CellHolds(p)
      BY <2>2 DEF ValuesInv, CodeInv
    <3>2. Cell(p) = <<0, p>>
      BY <2>2, CellFacts
    <3>3. QED
      BY <2>2, <3>1, <3>2 DEF CellHolds
  <2>3. QED
    BY <2>1, <2>2 DEF PropsAsWritten
<1>2. QED
  BY <1>1, ValuesInvariant, PTL

-------------------------------------------------------------------------------
(* Pointers *)

\* Only an allocation changes a pointer, and where an array is; only a store, what is in it.
LEMMA WhatMoves ==
    ASSUME CreationInv, FrameInv, AcceptedInv, ValuesInv, Run
    PROVE  LET t == Program[pc]
           IN  \/ /\ t.name \in Arrays /\ pc \in AllocationsOf(Program, t.name)
                  /\ pointer' = [pointer EXCEPT ![pc] = buffer'[t.name][2]]
                  /\ \A a \in Arrays : a # t.name => buffer'[a][2] = buffer[a][2]
                  /\ stored' = stored /\ \A a \in Arrays : buffer'[a][3] = buffer[a][3]
               \/ /\ ~Allocates(t) /\ pointer' = pointer /\ \A a \in Arrays : buffer'[a][2] = buffer[a][2]
                  /\ \/ pc \in Accesses /\ t.name \in Arrays /\ \E v \in Values : Stores(t.name, v)
                     \/ UNCHANGED <<buffer, stored>>
<1> DEFINE t == Program[pc]
<1>1. /\ pc \in Positions /\ t \in TokenRecord /\ IsToken(t) /\ Positions = 1 .. Len(Program)
      /\ buffer \in [Arrays -> Int \X Int \X [Indices -> Values]] /\ ArraysInv /\ CodeInv
      /\ Balanced(Program)
  <2>1. frame = "run" /\ pc <= Len(Program) /\ args \in Calls /\ Accepted
    BY DEF Run, CreationInv, FrameInv, AcceptedInv
  <2>2. Program \in Seq(TokenRecord) /\ pc \in 1 .. Len(Program) + 1 /\ ArraysInv /\ CodeInv
    BY <2>1, ProgramFacts DEF ValuesInv, CodeInv
  <2>3. pc \in Positions /\ Positions = 1 .. Len(Program)
    BY <2>1, <2>2, ProgramFacts
  <2>4. QED
    BY <2>1, <2>2, <2>3, ProgramFacts DEF ArraysInv, Accepted
<1>2. CASE Allocates(t)
  <2>1. ~Reads(t) /\ ~Writes(t) /\ t.kind \notin {"load", "store"}
    BY <1>2 DEF Reads, Allocates, Writes, Types
  <2>2. Allocate(t)
    BY <1>2, <2>1 DEF Run
  <2>3. t.name \in Arrays
    BY <1>1, <1>2, TokenFacts
  <2>4. PICK size : buffer' = [buffer EXCEPT ![t.name] = EnsureBuffer(t.name, size)] /\ stored' = stored
                    /\ pointer' = [pointer EXCEPT ![pc] = EnsureBuffer(t.name, size)[2]]
    BY <2>2 DEF Allocate
  <2> DEFINE new == EnsureBuffer(t.name, size)
  <2>5. new[3] = buffer[t.name][3]
    BY DEF EnsureBuffer
  <2> HIDE DEF new
  <2>6. buffer'[t.name] = new /\ \A a \in Arrays : a # t.name => buffer'[a] = buffer[a]
    BY <1>1, <2>3, <2>4 DEF new
  <2>7. pc \in AllocationsOf(Program, t.name)
    BY <1>1, <1>2 DEF AllocationsOf
  <2>8. pointer' = [pointer EXCEPT ![pc] = buffer'[t.name][2]]
    BY <2>4, <2>6 DEF new
  <2>9. QED
    BY <2>3, <2>4, <2>5, <2>6, <2>7, <2>8
<1>3. CASE ~Allocates(t)
  <2>1. CASE Reads(t)
    <3>1. ~Writes(t) /\ t.kind \notin {"load", "store"}
      BY <2>1 DEF Reads, Writes, Types
    <3>2. ReadCell(t)
      BY <1>3, <2>1, <3>1 DEF Run
    <3>3. QED
      BY <1>3, <3>2 DEF ReadCell
  <2>2. CASE Writes(t)
    <3>1. ~Reads(t) /\ t.kind \notin {"load", "store"}
      BY <2>2 DEF Reads, Writes, Types
    <3>2. WriteCell(t)
      BY <1>3, <2>2, <3>1 DEF Run
    <3>3. QED
      BY <1>3, <3>2 DEF WriteCell
  <2>3. CASE t.kind \in {"load", "store"}
    <3>1. ~Reads(t) /\ ~Writes(t)
      BY <2>3 DEF Reads, Writes, Types
    <3>2. Access(t)
      BY <1>3, <2>3, <3>1 DEF Run
    <3>3. CASE t.kind = "load"
      BY <1>3, <3>2, <3>3 DEF Access, LoadElement
    <3>4. CASE t.kind = "store"
      <4>1. StoreElement(t.name) /\ pointer' = pointer
        BY <3>2, <3>4 DEF Access
      <4>2. t.name \in Arrays /\ t.arity = 2
        BY <1>1, <3>4, TokenFacts
      <4>3. stack[Len(stack) - 1] \in Values
        <5>1. stack \in Seq(Values) /\ Len(stack) \in Nat /\ 2 <= Len(stack)
          BY <1>1, <4>2 DEF CodeInv, Balanced
        <5>2. QED
          BY <5>1
      <4>4. pc \in Accesses
        BY <1>1, <3>4 DEF Accesses
      <4>5. QED
        BY <1>1, <1>3, <4>1, <4>2, <4>3, <4>4, StoreGivesElement
    <3>5. QED
      BY <2>3, <3>3, <3>4
  <2>4. CASE ~Reads(t) /\ ~Writes(t) /\ t.kind \notin {"load", "store"}
    <3>1. Move(t)
      BY <1>3, <2>4 DEF Run
    <3>2. QED
      BY <1>3, <3>1 DEF Move
  <2>5. QED
    BY <2>1, <2>2, <2>3, <2>4
<1>4. QED
  BY <1>2, <1>3

LEMMA PointedStep ==
    ASSUME CreationInv, FrameInv, AcceptedInv, ValuesInv, PointersInv, Run,
           NEW a \in Arrays, NEW j \in AllocationsOf(Program, a)
    PROVE  Pointed(a, j)'
<1> DEFINE t == Program[pc]
           A == AllocationsOf(Program, a)
           Past(from) == ReachableFrom(Program, from, {j})
<1>0. frame = "run" /\ args \in Calls /\ Accepted /\ pc <= Len(Program)
  BY DEF Run, CreationInv, FrameInv, AcceptedInv
<1>1. /\ Program \in Seq(TokenRecord) /\ Len(Program) \in Nat /\ Positions = 1 .. Len(Program)
      /\ Linked(Program) /\ ~UndefinedLabel(Program) /\ pc \in 1 .. Len(Program) /\ A \subseteq 1 .. Len(Program)
  <2>1. CodeInv
    BY <1>0 DEF ValuesInv
  <2>2. QED
    BY <1>0, <2>1, ProgramFacts, ProgramLinked DEF CodeInv, Accepted, AllocationsOf
<1>2. pc' <= Len(Program) => pc' \in NextOf(Program, pc)
  BY <1>1, ProgramLinked DEF Run
<1>3. \A from \in SUBSET (1 .. Len(Program)) :
          from \subseteq Past(from) /\ (pc \in Past(from) /\ pc # j /\ pc' <= Len(Program) => pc' \in Past(from))
  BY <1>1, <1>2, ReachIsClosed DEF ClosedUnder
<1>4. {1} \in SUBSET (1 .. Len(Program)) /\ \A k \in 1 .. Len(Program) : NextOf(Program, k) \in SUBSET (1 .. Len(Program))
  BY <1>1 DEF Linked
<1>5. Program' = Program
  BY DEF Run, creation, Program
<1> HIDE DEF Past
<1>6. CASE pc = j
  <2>1. t.name = a /\ Allocates(t)
    BY <1>6 DEF AllocationsOf
  <2>2. pointer' = [pointer EXCEPT ![pc] = buffer'[a][2]]
    BY <2>1, WhatMoves
  <2>3. pointer \in [Positions -> Int]
    BY <1>0 DEF PointersInv
  <2>4. pointer'[j] = buffer'[a][2]
    BY <1>1, <1>6, <2>2, <2>3
  <2>5. QED
    BY <2>4 DEF Pointed
<1>7. CASE pc \in A /\ pc # j
  <2>1. pc' <= Len(Program) => pc' \in Past(NextOf(Program, pc))
    BY <1>1, <1>2, <1>3, <1>4
  <2>2. QED
    BY <1>5, <1>7, <2>1 DEF Pointed, Past
<1>8. CASE pc \notin A /\ pc # j
  <2>1. pointer'[j] = pointer[j] /\ buffer'[a][2] = buffer[a][2]
    <3>1. pointer \in [Positions -> Int] /\ j \in Positions
      BY <1>0, <1>1 DEF PointersInv
    <3>2. t.name = a => pc \notin AllocationsOf(Program, t.name)
      BY <1>8
    <3>3. QED
      BY <1>8, <3>1, <3>2, WhatMoves
  <2>2. \/ pointer[j] = buffer[a][2] \/ pc \in Past({1})
        \/ \E k \in A \ {j} : pc \in Past(NextOf(Program, k))
    BY <1>0 DEF PointersInv, Pointed, Past
  <2>3. pc' <= Len(Program) =>
            \/ pointer[j] = buffer[a][2] \/ pc' \in Past({1})
            \/ \E k \in A \ {j} : pc' \in Past(NextOf(Program, k))
    BY <1>1, <1>3, <1>4, <1>8, <2>2
  <2>4. QED
    BY <1>5, <2>1, <2>3 DEF Pointed, Past
<1>9. QED
  BY <1>6, <1>7, <1>8

\* An access of an array without such paths has the pointer of where the array is.
LEMMA PointerIsCurrent ==
    ASSUME CreationInv, FrameInv, AcceptedInv, ValuesInv, PointersInv, frame = "run", pc \in Accesses,
           ~Dangles(Program[pc].name)
    PROVE  pointer[Allocation(pc)] = buffer[Program[pc].name][2]
<1> DEFINE a == Program[pc].name
           j == Allocation(pc)
<1>1. args \in Calls /\ Compiles /\ pc \in Positions /\ Program[pc].kind \in {"load", "store"}
  BY DEF CreationInv, AcceptedInv, Accesses
<1>2. a \in Arrays
  BY <1>1, ProgramFacts, TokenFacts
<1>3. /\ \E k \in AllocationsOf(Program, a) : k < pc
      /\ pc \notin ReachableFrom(Program, {1}, {j})
  BY <1>1 DEF Compiles
<1>4. j \in AllocationsOf(Program, a)
  BY <1>1, <1>3, AllocationFacts
<1>5. \A k \in AllocationsOf(Program, a) \ {j} : pc \notin ReachableFrom(Program, NextOf(Program, k), {j})
  BY DEF Dangles
<1>6. pc <= Len(Program)
  BY <1>1, ProgramFacts
<1>7. Pointed(a, j)
  BY <1>2, <1>4 DEF PointersInv
<1>8. QED
  BY <1>3, <1>5, <1>6, <1>7 DEF Pointed

LEMMA ContentsStep ==
    ASSUME CreationInv, FrameInv, AcceptedInv, ValuesInv, PointersInv, ContentsInv, Run
    PROVE  ContentsInv'
<1> SUFFICES ASSUME NEW a \in Arrays, ~Dangles(a), NEW i \in Indices
             PROVE  stored'[a][i] \in {Nothing, buffer'[a][3][i]}
  <2>1. Program' = Program /\ Positions' = Positions
    BY SameProgram, CreationStep DEF Run, creation, CreationInv
  <2>2. \A b : Dangles(b)' = Dangles(b)
    BY <2>1 DEF Dangles, Accesses, Allocation
  <2>3. QED
    BY <2>2 DEF ContentsInv, Contains
<1>0. /\ buffer \in [Arrays -> Int \X Int \X [Indices -> Values]]
      /\ stored \in [Arrays -> [Indices -> Values \cup {Nothing}]]
      /\ frame = "run" /\ stored[a][i] \in {Nothing, buffer[a][3][i]}
  BY DEF Run, ValuesInv, ArraysInv, ContentsInv, Contains
<1>1. CASE stored'[a] = stored[a] /\ buffer'[a][3] = buffer[a][3]
  BY <1>0, <1>1
<1>2. CASE ~(stored'[a] = stored[a] /\ buffer'[a][3] = buffer[a][3])
  <2>1. PICK v \in Values : pc \in Accesses /\ Program[pc].name = a /\ Stores(a, v)
    <3> DEFINE b == Program[pc].name
    <3>1. ~(stored' = stored /\ \A c \in Arrays : buffer'[c][3] = buffer[c][3])
      BY <1>2
    <3>2. pc \in Accesses /\ b \in Arrays /\ \E v \in Values : Stores(b, v)
      BY <3>1, WhatMoves
    <3>3. b = a
      BY <1>2, <3>2 DEF Stores
    <3>4. QED
      BY <3>2, <3>3
  <2>2. InBounds(a) => Reaches(a)
    BY <1>0, <2>1, PointerIsCurrent DEF Reaches
  <2>3. stored'[a] = [stored[a] EXCEPT ![Index] = v] /\ buffer'[a][3] = [buffer[a][3] EXCEPT ![Index] = v]
    BY <1>2, <2>1, <2>2 DEF Stores, Reaches
  <2>4. buffer[a][3] \in [Indices -> Values] /\ stored[a] \in [Indices -> Values \cup {Nothing}]
    BY <1>0
  <2>5. QED
    BY <1>0, <2>3, <2>4
<1>3. QED
  BY <1>1, <1>2

LEMMA PointersInit == FrameInit => PointersInv /\ ContentsInv
BY DEF FrameInit, PointersInv, ContentsInv, Contains

LEMMA PointersStep ==
    ASSUME CreationInv, FrameInv, AcceptedInv, ValuesInv, PointersInv, ContentsInv, [Next]_vars
    PROVE  PointersInv' /\ ContentsInv'
<1>0. /\ args' = args /\ args \in Calls /\ Program' = Program /\ Positions' = Positions
      /\ \A a : Dangles(a)' = Dangles(a)
  <2>1. args' = args /\ args \in Calls
    BY CreationStep DEF CreationInv
  <2>2. Program' = Program /\ Positions' = Positions
    BY <2>1, SameProgram
  <2>3. QED
    BY <2>1, <2>2 DEF Dangles, Accesses, Allocation
<1>1. CASE CreateStep \/ CollectProps \/ Analyse \/ ParseCommonParams
  <2>1. step \notin {"created", "freed"}
    BY <1>1, CreateKeeps DEF CreateStep, CollectProps, Analyse, ParseCommonParams
  <2>2. UNCHANGED <<frame, buffer, stored>> /\ frame = "none"
    BY <1>1, <2>1 DEF CreateStep, CollectProps, Analyse, ParseCommonParams, frameVars, codeVars, FrameInv
  <2>3. QED
    BY <1>0, <2>2 DEF PointersInv, ContentsInv, Contains
<1>2. CASE Request
  <2>1. /\ pc' = 1 /\ pointer' = [j \in Positions |-> 0] /\ step = "created" /\ args.filter = "SingleExpr"
        /\ stored' = [a \in Arrays |-> [i \in Indices |-> Nothing]]
    BY <1>2 DEF Request, GetFrames
  <2>2. /\ Program \in Seq(TokenRecord) /\ Len(Program) \in Nat /\ Positions = 1 .. Len(Program)
        /\ ~UndefinedLabel(Program)
    BY <1>0, <2>1, ProgramFacts DEF AcceptedInv, Accepted
  <2>3. ASSUME NEW a \in Arrays, NEW j \in AllocationsOf(Program, a) PROVE Pointed(a, j)'
    <3>1. j \in 1 .. Len(Program)
      BY DEF AllocationsOf
    <3>2. Linked(Program) /\ {1} \in SUBSET (1 .. Len(Program))
      BY <2>2, <3>1, ProgramLinked
    <3>3. 1 \in ReachableFrom(Program, {1}, {j})
      BY <3>2, ReachIsClosed
    <3>4. QED
      BY <1>0, <2>1, <3>1, <3>3 DEF Pointed
  <2>4. pointer' \in [Positions' -> Int]
    BY <1>0, <2>1
  <2>5. ContentsInv'
    BY <2>1 DEF ContentsInv, Contains
  <2>6. QED
    BY <1>0, <2>3, <2>4, <2>5 DEF PointersInv
<1>3. CASE MakeKey \/ Compile \/ FreeFilter \/ StoreProps \/ UNCHANGED vars
  <2>1. UNCHANGED <<pc, pointer, buffer, stored>>
    BY <1>3 DEF MakeKey, Compile, FreeFilter, StoreProps, vars, frameVars, codeVars
  <2>2. frame' \in {"key", "compile", "run"} => frame \in {"key", "compile", "run"}
    BY <1>3 DEF MakeKey, Compile, FreeFilter, StoreProps, vars, frameVars
  <2>3. \A a, j : Pointed(a, j)' = Pointed(a, j)
    BY <1>0, <2>1 DEF Pointed
  <2>4. ContentsInv'
    BY <1>0, <2>1 DEF ContentsInv, Contains
  <2>5. QED
    BY <1>0, <2>1, <2>2, <2>3, <2>4 DEF PointersInv
<1>4. CASE Run
  <2>1. frame = "run"
    BY <1>4 DEF Run
  <2>2. pointer' \in [Positions -> Int]
    <3>1. pointer \in [Positions -> Int]
      BY <2>1 DEF PointersInv
    <3>2. ArraysInv'
      BY <1>4, RunGives
    <3>3. \A a \in Arrays : buffer'[a][2] \in Int
      BY <3>2 DEF ArraysInv
    <3>4. QED
      BY <1>4, <3>1, <3>3, WhatMoves
  <2>3. \A a \in Arrays : \A j \in AllocationsOf(Program, a) : Pointed(a, j)'
    BY <1>4, PointedStep
  <2>4. ContentsInv'
    BY <1>4, ContentsStep
  <2>5. QED
    BY <1>0, <2>2, <2>3, <2>4 DEF PointersInv
<1>5. QED
  BY <1>1, <1>2, <1>3, <1>4 DEF Next

LEMMA PointersInvariant ==
    Spec => [](CreationInv /\ FrameInv /\ AcceptedInv /\ ValuesInv /\ PointersInv /\ ContentsInv)
BY CreationInit, AcceptedInit, ValuesInit, PointersInit, CreationStep, AcceptedStep, ValuesStep, PointersStep,
   PTL DEF Spec

\* Through all growing, an access uses the array where it is now and finds what the request stored last,
\* unless the array has an access that another allocation leads to past its own.
THEOREM ArraysAreKept == Spec => []ArraysHold
<1>1. CreationInv /\ FrameInv /\ AcceptedInv /\ ValuesInv /\ PointersInv /\ ContentsInv => ArraysHold
  <2> SUFFICES ASSUME CreationInv, FrameInv, AcceptedInv, ValuesInv, PointersInv, ContentsInv,
                      frame = "run", pc \in Accesses, InBounds(Program[pc].name), ~Dangles(Program[pc].name)
               PROVE  LET a == Program[pc].name
                      IN  /\ pointer[Allocation(pc)] = buffer[a][2]
                          /\ stored[a][Index] \in {Nothing, buffer[a][3][Index]}
    BY DEF ArraysHold
  <2> DEFINE a == Program[pc].name
  <2>1. a \in Arrays
    <3>1. args \in Calls /\ pc \in Positions /\ Program[pc].kind \in {"load", "store"}
      BY DEF CreationInv, Accesses
    <3>2. QED
      BY <3>1, ProgramFacts, TokenFacts
  <2>2. Index \in Indices
    BY DEF InBounds
  <2>3. stored[a][Index] \in {Nothing, buffer[a][3][Index]}
    BY <2>1, <2>2 DEF ContentsInv, Contains
  <2>4. QED
    BY <2>3, PointerIsCurrent
<1>2. QED
  BY <1>1, PointersInvariant, PTL

================================================================================
