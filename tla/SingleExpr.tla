------------------------------- MODULE SingleExpr -------------------------------
(***************************************************************************)
(* A SingleExpr filter from its creation to its end: the properties its    *)
(* program reads and writes, the code generated for it (one memory cell    *)
(* for each property, one pointer for each allocation of an array), and    *)
(* the requests of frames, one after the other on one thread: arrays       *)
(* belong to the thread and are cleared by every request.                  *)
(*                                                                         *)
(* Numbers are counted in halves.  A value is a number or one of the NaN   *)
(* payloads; a property of a frame is <<type, value>>.                     *)
(***************************************************************************)
EXTENDS Filters, ArrayTokens

CONSTANTS
    Props,      \* the names of frame properties
    Arrays,     \* the names of arrays
    Indices,    \* the elements of an array that are looked at (bound)
    Sources,    \* the properties of the source frames, Sources[k][clip][p] (bound)
    MaxFrames   \* frames that are requested (bound)

VARIABLES
    required,   \* prop_map: the <<clip, property>> that are read
    output,     \* output_props: the type each property is written with, "none" if it is not
    frame,      \* none, key, compile, run, store, done, threw or leaked
    frames,     \* how many were requested
    refs,       \* the references to frames that are held
    compiled,   \* d->compiled
    source,     \* the properties of the source frames
    dst,        \* those of the new frame
    cells,      \* prop_allocas
    pc, stack,  \* the generated code
    pointer,    \* pointer[j]: what the allocation at token j returned last
    buffer,     \* g_frame_data.dynamic_arrays
    did,        \* what the program did to a property: <<"no" | "wrote" | "deleted", value>> (history)
    stored      \* what this request stored last in the elements of the arrays, or Nothing (history)

codeVars == <<source, dst, cells, pc, stack, pointer, buffer, did, stored>>
frameVars == <<frame, frames, refs, compiled, codeVars>>
vars == <<creation, required, output, frameVars>>

ASSUME SingleExprAssumption == Indices \subseteq Nat /\ MaxFrames \in Nat /\ NoName \notin Props

Number(h) == <<"num", h>>
Zero == Number(0)
ReadNaN == <<"read", 0>>        \* PROP_READ_NAN_PAYLOAD: not there, or no number
WriteNaN == <<"write", 0>>      \* PROP_WRITE_NAN_PAYLOAD: not written
DeleteNaN == <<"delete", 0>>    \* PROP_DELETE_NAN_PAYLOAD
Unspecified == <<"any", 0>>
Absent == <<"absent", Zero>>
Nothing == <<"none", 0>>
IsNumber(v) == v[1] = "num"
Truncated(v) == v[2] \div 2     \* of numbers that are not negative

\* clip.name, clip.name?, name$, name$d, arrays, and clip[] that SingleExpr does not have.
ReadProp(c, p) == [Tok("read", 0, 1) EXCEPT !.name = p, !.value = c]
PropExists(c, p) == [Tok("exists", 0, 1) EXCEPT !.name = p, !.value = c]
Set(p, type) == [Tok(type, 1, -1) EXCEPT !.name = p]
Unset(p) == [Tok("delete", 0, 0) EXCEPT !.name = p]
Load(a) == [Tok("load", 1, 0) EXCEPT !.name = a]
Store(a) == [Tok("store", 2, -2) EXCEPT !.name = a]
ClipAbs == Tok("clip_abs", 2, -1)
Types == {"int", "float", "auto_int", "auto_float"}

\* The words of SingleExpr programs; the names they use are those of the tables.
IsToken(t) ==
    \/ t = Num(t.value) \/ t \in {Drop1, ClipAbs}
    \/ t.label \in Labels /\ t \in {Here(t.label), Goto(t.label)}
    \/ t.name \in Props /\ t.value \in 0 .. 1 /\ t \in {ReadProp(t.value, t.name), PropExists(t.value, t.name)}
    \/ t.name \in Props /\ (t = Unset(t.name) \/ (t.kind \in Types /\ t = Set(t.name, t.kind)))
    \/ t.name \in Arrays /\ t \in {Load(t.name), Store(t.name), AllocDyn(t.name), AllocStatic(t.name, t.value)}
TokenRecord == [kind : STRING, label : STRING, name : STRING, value : Int, arity : Nat, effect : Int]

\* Whatever a frame has as a property is a number here, and there are two clips at most.
ASSUME SourcesAssumption == Sources \subseteq [0 .. 1 -> [Props -> STRING \X ({"num"} \X Int)]]
ASSUME ProgramsAssumption ==
    \A c \in Calls : /\ c.program \in Seq(TokenRecord)
                     /\ \A i \in 1 .. Len(c.program) : IsToken(c.program[i])

Program == args.program
Positions == 1 .. Len(Program)
Reads(t) == t.kind \in {"read", "exists"}
Writes(t) == t.kind \in Types \cup {"delete"}
FirstOf(S) == CHOOSE i \in S : \A k \in S : i <= k
WritesTo(p) == {i \in Positions : Writes(Program[i]) /\ Program[i].name = p}

FrameInit ==
    /\ CreateInit
    /\ required = {} /\ output = [p \in Props |-> "none"]
    /\ frame = "none" /\ frames = 0 /\ refs = 0 /\ compiled = FALSE
    /\ source \in {[c \in 0 .. 1 |-> [p \in Props |-> Absent]]}
    /\ dst = [p \in Props |-> Absent]
    /\ cells = <<>> /\ pc = 1 /\ stack = <<>>
    /\ pointer = [j \in Positions |-> 0]
    /\ buffer = [a \in Arrays |-> <<0, 0, [i \in Indices |-> Zero]>>]
    /\ did = [p \in Props |-> <<"no", Zero>>]
    /\ stored = [a \in Arrays |-> [i \in Indices |-> Nothing]]

-------------------------------------------------------------------------------
(* singleExprCreate *)

\* The type of the first write in the text counts.
CollectProps ==
    /\ step = "program"
    /\ required' = {<<Program[i].value, Program[i].name>> : i \in {k \in Positions : Reads(Program[k])}}
    /\ output' = [p \in Props |-> IF WritesTo(p) = {} THEN "none"
                                  ELSE Program[FirstOf(WritesTo(p))].kind]
    /\ Continue("analyse")
    /\ UNCHANGED frameVars

\* PropWriteTypeSafetyPass: a deletion goes with every type.
SameTypes == \A p \in Props : Cardinality({Program[i].kind : i \in WritesTo(p)} \ {"delete"}) <= 1

\* The depth of the stack before each token, if every token finds its arguments.
Heights(p) ==
    LET height[i \in 1 .. Len(p) + 1] == IF i = 1 THEN 0 ELSE height[i - 1] + p[i - 1].effect
    IN  height
\* What StackSafetyPass accepts (see StackSafety): jumps are conditional, so that the depths
\* follow the text, and targets must agree; nothing is left at the end, which is looked at
\* where the last block has no successor.
Balanced(p) ==
    /\ \A i \in 1 .. Len(p) :
           /\ p[i].arity <= Heights(p)[i]
           /\ p[i].kind = "jump" => Heights(p)[TargetOf(p, i)] = Heights(p)[i + 1]
    /\ Heights(p)[Len(p) + 1] = 0 \/ (p # <<>> /\ p[Len(p)].kind = "jump")

\* Faulty: an array may be accessed on paths that do not allocate it.
AnalyseTypes ==
    /\ step = "analyse"
    /\ IF ~UndefinedLabel(Program) /\ ~DuplicateLabel(Program) /\ Balanced(Program) /\ SameTypes
          /\ AllocatedOnce(Program)
       THEN Continue("params") ELSE Throw
    /\ UNCHANGED <<required, output, frameVars>>
\* ExpressionAnalyzer
Analyse ==
    /\ step = "analyse"
    /\ IF ~UndefinedLabel(Program) /\ ~DuplicateLabel(Program) /\ Balanced(Program) /\ SameTypes
          /\ Initialised(Program) /\ AllocatedOnce(Program)
       THEN Continue("params") ELSE Throw
    /\ UNCHANGED <<required, output, frameVars>>

ParseCommonParams ==
    /\ step = "params"
    /\ IF args.params THEN Continue("created") ELSE Throw
    /\ UNCHANGED <<required, output, frameVars>>

-------------------------------------------------------------------------------
(* The code generated for the program *)

\* An access uses the pointer of the allocation that was compiled last.
Allocation(i) ==
    CHOOSE j \in AllocationsOf(Program, Program[i].name) :
        j < i /\ \A k \in AllocationsOf(Program, Program[i].name) : k < i => k <= j
Accesses == {i \in Positions : Program[i].kind \in {"load", "store"}}

\* The generator knows the token and the array, and LLVM's verifier finds a pointer on every path.
Compiles ==
    /\ \A i \in Positions : Program[i].kind # "clip_abs"
    /\ \A i \in Accesses :
           /\ \E j \in AllocationsOf(Program, Program[i].name) : j < i
           /\ i \notin ReachableFrom(Program, {1}, {Allocation(i)})

OutputOnly == -1
\* A property that is written and read from the first clip has one cell.
Cell(p) == IF <<0, p>> \in required THEN <<0, p>> ELSE <<OutputOnly, p>>
Written == {p \in Props : output[p] # "none"}

InputValue(property) ==
    IF property[1] \in {"int", "float", "data"} THEN property[2] ELSE ReadNaN
FirstValues(src) ==
    [c \in required \cup {Cell(p) : p \in Written} |->
        IF c \in required THEN InputValue(src[c[1]][c[2]]) ELSE WriteNaN]

\* g_frame_data.dynamic_arrays.clear(); the next buffer of an array is a new one.
ClearArrays == [a \in Arrays |-> <<0, buffer[a][2], [i \in Indices |-> Zero]>>]
\* The frames, copies of the properties, and the values the code starts with.
GetFrames(new) ==
    /\ refs' = Len(args.clips) + 1 /\ frames' = frames + 1
    /\ source' = new /\ dst' = new[0] /\ cells' = FirstValues(new)
    /\ pc' = 1 /\ stack' = <<>>
    /\ pointer' = [j \in Positions |-> 0]
    /\ buffer' = ClearArrays
    /\ did' = [p \in Props |-> <<"no", Zero>>]
    /\ stored' = [a \in Arrays |-> [i \in Indices |-> Nothing]]
Request ==
    /\ step = "created" /\ args.filter = "SingleExpr"
    /\ frame \in {"none", "done", "threw"} /\ frames < MaxFrames
    /\ \E new \in Sources : GetFrames(new)
    /\ frame' = IF compiled THEN "run" ELSE "key"
    /\ UNCHANGED <<creation, required, output, compiled>>

\* generate_cache_key, outside the try block, throws if a format has no name.
MakeKey ==
    /\ frame = "key"
    /\ frame' = IF \A c \in Stages(args.clips) : c.constant THEN "compile" ELSE "leaked"
    /\ UNCHANGED <<creation, required, output, frames, refs, compiled, codeVars>>

\* A failure frees the frames, and the exception leaves the filter.
Compile ==
    /\ frame = "compile"
    /\ frame' = IF Compiles THEN "run" ELSE "threw"
    /\ refs' = IF Compiles THEN refs ELSE 0
    /\ compiled' = Compiles
    /\ UNCHANGED <<creation, required, output, frames, codeVars>>

-------------------------------------------------------------------------------
(* Its execution: a buffer is <<size, version, contents>> and moves when it grows *)

Pop(n) == SubSeq(stack, 1, Len(stack) - n)
Top == stack[Len(stack)]

\* llvmexpr_ensure_buffer.  A negative size, which the documents leave undefined, is not among the programs.
\* Faulty: an array that grows starts empty.
GrowEmpty(a, size) ==
    IF size > buffer[a][1] THEN <<size, buffer[a][2] + 1, [i \in Indices |-> Zero]>> ELSE buffer[a]
EnsureBuffer(a, size) ==
    IF size > buffer[a][1] THEN <<size, buffer[a][2] + 1, buffer[a][3]>> ELSE buffer[a]
Allocate(t) ==
    LET size == IF t.kind = "alloc_static" THEN t.value ELSE Truncated(Top)
        new == EnsureBuffer(t.name, size)
    IN  /\ buffer' = [buffer EXCEPT ![t.name] = new]
        /\ pointer' = [pointer EXCEPT ![pc] = new[2]]
        /\ stack' = Pop(t.arity)
        /\ UNCHANGED <<cells, did, stored>>

Holds(v) == IF v \in {ReadNaN, DeleteNaN} THEN Zero ELSE Number(2)
ReadCell(t) ==
    LET value == cells[IF t.value = 0 /\ t.name \in Written THEN Cell(t.name) ELSE <<t.value, t.name>>]
    IN  /\ stack' = Append(stack, IF t.kind = "exists" THEN Holds(value) ELSE value)
        /\ UNCHANGED <<cells, pointer, buffer, did, stored>>
WriteCell(t) ==
    LET value == IF t.kind = "delete" THEN DeleteNaN ELSE Top
    IN  /\ cells' = [cells EXCEPT ![Cell(t.name)] = value]
        /\ stack' = Pop(t.arity)
        /\ did' = [did EXCEPT ![t.name] = <<IF t.kind = "delete" THEN "deleted" ELSE "wrote", value>>]
        /\ UNCHANGED <<pointer, buffer, stored>>

Index == Truncated(Top)
InBounds(a) == IsNumber(Top) /\ Index \in Indices /\ Index < buffer[a][1]
\* Behind the end of an array, and where it was before it moved, anything may be found (bound: one of two).
Garbage == {Zero, Number(2)}
Reaches(a) == InBounds(a) /\ pointer[Allocation(pc)] = buffer[a][2]
LoadElement(a) ==
    /\ \E v \in (IF Reaches(a) THEN {buffer[a][3][Index]} ELSE Garbage) : stack' = Append(Pop(1), v)
    /\ UNCHANGED <<buffer, stored>>
StoreElement(a) ==
    LET v == stack[Len(stack) - 1]
    IN  /\ stack' = Pop(2)
        /\ buffer' = IF Reaches(a) THEN [buffer EXCEPT ![a][3][Index] = v] ELSE buffer
        /\ stored' = IF InBounds(a) THEN [stored EXCEPT ![a][Index] = v] ELSE stored
Access(t) ==
    /\ IF t.kind = "load" THEN LoadElement(t.name) ELSE StoreElement(t.name)
    /\ UNCHANGED <<cells, pointer, did>>

\* The other tokens only move values.
Move(t) ==
    /\ stack' = IF t.kind = "num" THEN Append(stack, Number(t.value)) ELSE Pop(t.arity)
    /\ UNCHANGED <<cells, pointer, buffer, did, stored>>

Run ==
    /\ frame = "run" /\ pc <= Len(Program)
    /\ LET t == Program[pc]
       IN  /\ CASE Allocates(t) -> Allocate(t)
                [] Reads(t) -> ReadCell(t)
                [] Writes(t) -> WriteCell(t)
                [] t.kind \in {"load", "store"} -> Access(t)
                [] OTHER -> Move(t)
           /\ pc' = IF t.kind = "jump" /\ IsNumber(Top) /\ Top[2] > 0 THEN TargetOf(Program, pc)
                    ELSE pc + 1
    /\ UNCHANGED <<creation, required, output, frame, frames, refs, compiled, source, dst>>

\* lroundf
Rounded(v) ==
    IF ~IsNumber(v) THEN Unspecified
    ELSE Number(2 * (IF v[2] >= 0 THEN (v[2] + 1) \div 2 ELSE -((1 - v[2]) \div 2)))
\* Whether a write of a type makes an integer, given the property of the source frame.
AsInt(type, property) ==
    \/ type = "int"
    \/ type \in {"auto_int", "auto_float"} /\ property[1] = "int"
    \/ type = "auto_int" /\ property[1] # "float"
Typed(type, property, v) ==
    IF AsInt(type, property) THEN <<"int", Rounded(v)>> ELSE <<"float", v>>

\* Faulty: a deletion is taken for a value.
StoreAll ==
    /\ frame = "run" /\ pc > Len(Program)
    /\ dst' = [p \in Props |->
                  IF p \notin Written \/ cells[Cell(p)] = WriteNaN THEN dst[p]
                  ELSE Typed(output[p], source[0][p], cells[Cell(p)])]
    /\ refs' = 0 /\ frame' = "done"
    /\ UNCHANGED <<creation, required, output, frames, compiled, source, cells, pc, stack, pointer, buffer, did, stored>>
\* The cells of the properties that are written go to the new frame, which is returned.
StoreProps ==
    /\ frame = "run" /\ pc > Len(Program)
    /\ dst' = [p \in Props |->
                  IF p \notin Written THEN dst[p]
                  ELSE CASE cells[Cell(p)] = WriteNaN -> dst[p]
                         [] cells[Cell(p)] = DeleteNaN -> Absent
                         [] OTHER -> Typed(output[p], source[0][p], cells[Cell(p)])]
    /\ refs' = 0 /\ frame' = "done"
    /\ UNCHANGED <<creation, required, output, frames, compiled, source, cells, pc, stack, pointer, buffer, did, stored>>

CreateStep == Create /\ UNCHANGED <<required, output, frameVars>>
FreeFilter == frame \in {"none", "done", "threw"} /\ Free /\ UNCHANGED <<required, output, frameVars>>
Next == CreateStep \/ CollectProps \/ Analyse \/ ParseCommonParams \/ Request \/ MakeKey \/ Compile
            \/ Run \/ StoreProps \/ FreeFilter

Spec == FrameInit /\ [][Next]_vars

-------------------------------------------------------------------------------

\* Whatever fails during creation, and after any number of frames, every clip that was taken
\* is given back exactly once; a request leaves no frame behind, even if the compiler throws.
\* Creation is cut short only where VkExpr divides by zero: planes without subsampling.
HandlesBalance ==
    /\ step \in {"failed", "freed"} => \A i \in 1 .. Len(nodes) : nodes[i] = 0
    /\ step = "created" => Len(nodes) > 0 /\ \A i \in 1 .. Len(nodes) : nodes[i] = 1
    /\ frame \in {"none", "done", "threw", "leaked"} => refs = 0
    /\ step = "crashed" => args.filter = "VkExpr" /\ args.clips[1].sub = 0 /\ NumPlanes > 1

TypeWritten(p) == CHOOSE t \in Types : \E i \in WritesTo(p) : Program[i].kind = t
DeletedFirst(p) == Program[FirstOf(WritesTo(p))].kind = "delete"

\* What the program says it does to a property is what the new frame has, and what the program
\* sees itself: the value of the last write that was executed, in the type the writes agree
\* on, or nothing after a deletion.  Excepted are the type where a deletion stands first in
\* the text, a value that was read from a deleted property, which deletes again, and
\* properties that the program reads too: docs/postfix.md:424 has "that property will not be
\* modified on the output frame", but what was read is written back.
PropsAsWritten ==
    /\ frame = "done" => \A p \in Props :
        CASE did[p][1] = "wrote" ->
                 \/ did[p][2] = DeleteNaN \/ DeletedFirst(p)
                 \/ dst[p] = Typed(TypeWritten(p), source[0][p], did[p][2])
          [] did[p][1] = "deleted" -> dst[p] = Absent
          [] did[p][1] = "no" -> dst[p] = source[0][p] \/ (p \in Written /\ <<0, p>> \in required)
    /\ frame = "run" => \A p \in Props : <<0, p>> \in required =>
        cells[<<0, p>>] = IF did[p][1] = "no" THEN InputValue(source[0][p]) ELSE did[p][2]

\* An access of the array may be reached from an allocation that is not its own, past its own.
Dangles(a) ==
    \E i \in Accesses : \E k \in AllocationsOf(Program, a) :
        Program[i].name = a /\ k # Allocation(i)
            /\ i \in ReachableFrom(Program, NextOf(Program, k), {Allocation(i)})

\* An access uses the array where it is now, and finds what this request has stored last in the element,
\* through all growing and moving.  Nothing is said of elements this request has not stored, nor of an
\* array with an access that a jump leads to from another allocation than the one whose pointer it was
\* compiled with: that pointer is used after the array has moved.
ArraysHold ==
    frame = "run" /\ pc \in Accesses /\ InBounds(Program[pc].name) /\ ~Dangles(Program[pc].name) =>
        LET a == Program[pc].name
        IN  /\ pointer[Allocation(pc)] = buffer[a][2]
            /\ stored[a][Index] \in {Nothing, buffer[a][3][Index]}

\* A program that was accepted at creation compiles when the first frame is requested, unless
\* it has the absolute access of Expr, or an array with two allocations and a jump between them.
AcceptedCompiles ==
    frame = "threw" =>
        \/ \E i \in Positions : Program[i].kind = "clip_abs"
        \/ \E a \in Arrays : Cardinality(AllocationsOf(Program, a)) > 1
               /\ \E i \in Positions : Program[i].kind = "jump"

================================================================================
