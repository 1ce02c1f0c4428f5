------------------------------- MODULE Operators -------------------------------
(***************************************************************************)
(* The words of the postfix language, the table of Tokenizer.cpp that      *)
(* turns them into tokens and says what each takes from the stack, and     *)
(* what the two code generators emit for one token: LLVM IR for Expr, GLSL *)
(* for VkExpr.                                                             *)
(*                                                                         *)
(* A value is an integer that counts halves, so that rounding shows.       *)
(* Functions that both generators hand to a library are constants.         *)
(***************************************************************************)
EXTENDS Integers, Sequences, SequencesExt, FiniteSetsExt

CONSTANTS
    UnaryFn(_, _),      \* UnaryFn(type, a): sin, exp, ...
    BinaryFn(_, _, _)   \* BinaryFn(type, a, b): pow, atan2 and the integer operations

None == -1      \* a part of a word that is not written
One == 2        \* 1.0
Truth(b) == IF b THEN One ELSE 0

(* Types of tokens, by what the table says of them. *)
LibraryUnary == {"Exp", "Log", "Sin", "Cos", "Tan", "Asin", "Acos", "Atan", "Exp2", "Log10",
                 "Log2", "Sinh", "Cosh", "Tanh"}
Unary == LibraryUnary \cup {"Not", "Abs", "Sgn", "Neg", "Sqrt", "Ceil", "Floor", "Trunc", "Round", "Bitnot"}
Bitwise2 == {"Bitand", "Bitor", "Bitxor"}
Binary == {"Add", "Sub", "Mul", "Div", "Mod", "Gt", "Lt", "Eq", "Ge", "Le", "Pow", "Or", "And", "Xor",
           "Min", "Max", "Atan2", "Copysign"} \cup Bitwise2
Ternary == {"Ternary", "Clip", "Clamp", "Fma"}
Constants == {"ConstantX", "ConstantY", "ConstantN", "ConstantPi", "ConstantWidth", "ConstantHeight"}
PlaneConstants == {"ConstantPlaneWidth", "ConstantPlaneHeight", "ConstantClipWidth", "ConstantClipHeight",
                   "ConstantClipPlaneWidth", "ConstantClipPlaneHeight"}
Pushes == Constants \cup PlaneConstants \cup
          {"Number", "VarLoad", "ClipCur", "ClipRel", "PropAccess", "PropExists", "BufferCur", "BufferRel",
           "ExitNoWrite"}
BufferTypes == {"BufferCur", "BufferRel", "BufferAbs"}

\* supports_mode: the modes in which the table offers a type.
SingleOnly == PlaneConstants \cup {"ArrayAllocDyn", "ClipAbsPlane", "StoreAbsPlane", "PropStore"}
NotSingle == {"ConstantX", "ConstantY", "ExitNoWrite", "StoreAbs", "ClipRel", "ClipCur"} \cup BufferTypes
AvailableIn(type, mode) ==
    /\ type \in BufferTypes => mode = "VkExpr"
    /\ type \in SingleOnly => mode = "SingleExpr"
    /\ type \in NotSingle => mode # "SingleExpr"

\* get_token_behavior
Behavior(t) ==
    LET type == t.type
        B(arity, effect) == [arity |-> arity, effect |-> effect]
    IN CASE type \in Binary -> B(2, -1)
         [] type \in Unary \cup {"ArrayLoad"} -> B(1, 0)
         [] type \in Ternary -> B(3, -2)
         [] type \in Pushes -> B(0, 1)
         [] type \in {"ClipAbs", "BufferAbs", "ClipAbsPlane"} -> B(2, -1)
         [] type \in {"StoreAbs", "StoreAbsPlane"} -> B(3, -3)
         [] type \in {"Jump", "VarStore", "ArrayAllocDyn"} -> B(1, -1)
         [] type \in {"LabelDef", "ArrayAllocStatic"} -> B(0, 0)
         [] type = "ArrayStore" -> B(2, -2)
         [] type = "Dup" -> B(t.n + 1, 1)
         [] type = "Drop" -> B(t.n, 0 - t.n)
         [] type = "Swap" -> B(t.n + 1, 0)
         [] type \in {"SortN", "ArgsortN"} -> B(t.n, 0)
         [] type \in {"ArgminN", "ArgmaxN"} -> B(t.n, 1 - t.n)
         [] type = "PropStore" -> IF t.kind = "Delete" THEN B(0, 0) ELSE B(1, -1)

(* The parsers.  A word has the type of the definition that accepts it and the parts its pattern captures. *)

\* parse_dup, parse_drop, parse_swap: the number may be left out.
ParseStackWord(w) ==
    [type |-> w.type, n |-> IF w.n # None THEN w.n ELSE IF w.type = "Dup" THEN 0 ELSE 1]

\* parse_clip_rel, parse_clip_abs, parse_buffer_access: which boundary a suffix, or none, selects.
\* A clip read at absolute coordinates is clamped when nothing is written, :b asks for the global
\* setting; everywhere else the global setting is what nothing means.
BoundaryOf(type, suffix) ==
    CASE suffix = "m" -> "mirror"
      [] suffix = "c" -> "clamp"
      [] suffix = "b" -> "global"
      [] suffix = "" -> IF type = "ClipAbs" THEN "clamp" ELSE "global"
ParseAccess(w) ==
    [type |-> w.type, clip |-> w.clip, x |-> w.x, y |-> w.y, boundary |-> BoundaryOf(w.type, w.suffix)]

\* parse_prop_store
ParsePropStore(w) ==
    [type |-> "PropStore", name |-> w.name,
     kind |-> CASE w.suffix \in {"", "f"} -> "Float" [] w.suffix = "i" -> "Int" [] w.suffix = "ai" -> "AutoInt"
                [] w.suffix = "af" -> "AutoFloat" [] w.suffix = "d" -> "Delete"]

\* The first definition of the table whose parser accepts the word.
Parse(w) ==
    CASE w.type \in {"Dup", "Drop", "Swap"} -> ParseStackWord(w)
      [] w.type \in {"ClipRel", "ClipAbs", "BufferRel", "BufferAbs"} -> ParseAccess(w)
      [] w.type = "PropStore" -> ParsePropStore(w)
      [] OTHER -> w

\* tokenize: a word is an error when the mode does not offer it, and when the clip or buffer it
\* names does not exist.  Only the types listed in the code are checked.
IndexChecked == {"ClipRel", "ClipAbs", "ClipCur", "PropAccess", "ClipAbsPlane"}
Tokenizes(w, mode, inputs, buffers) ==
    LET t == Parse(w) IN
    /\ AvailableIn(t.type, mode)
    /\ t.type \in IndexChecked => t.clip \in 0 .. inputs - 1
    /\ t.type \in BufferTypes => t.clip \in 0 .. buffers - 1

(* Arithmetic on halves. *)
Magnitude(a) == IF a < 0 THEN 0 - a ELSE a
SignOf(a) == IF a > 0 THEN One ELSE IF a < 0 THEN 0 - One ELSE 0
FloorOf(a) == 2 * (a \div 2)
CeilOf(a) == 0 - FloorOf(0 - a)
TruncOf(a) == IF a < 0 THEN CeilOf(a) ELSE FloorOf(a)
RoundAway(a) == IF a < 0 THEN CeilOf(a - 1) ELSE FloorOf(a + 1)
RoundEven(a) == IF a % 2 = 0 THEN a ELSE IF (a - 1) % 4 = 0 THEN a - 1 ELSE a + 1
Lesser(a, b) == IF a < b THEN a ELSE b
Greater(a, b) == IF a > b THEN a ELSE b
IntegerPart(a) == TruncOf(a) \div 2       \* FPToSI, int()
Remainder(a, b) == (Magnitude(a) % Magnitude(b)) * (IF a < 0 THEN -1 ELSE 1)         \* frem
FlooredModulo(a, b) == IF b > 0 THEN a % b ELSE 0 - ((0 - a) % (0 - b))              \* mod()

\* Results that are a whole number of halves; the model takes no other step.
Exact(type, a) ==
    CASE type = "Mul" -> (a[1] * a[2]) % 2 = 0
      [] type = "Fma" -> (a[1] * a[2]) % 2 = 0
      [] type = "Div" -> a[2] # 0 /\ (2 * a[1]) % Magnitude(a[2]) = 0
      [] type = "Mod" -> a[2] # 0
      [] OTHER -> TRUE

\* processCommonToken: arithmetic as LLVM IR.  The common ones are the same in GLSL.
CommonBinary(type, a, b) ==
    CASE type = "Add" -> a + b
      [] type = "Sub" -> a - b
      [] type = "Mul" -> (a * b) \div 2
      [] type = "Div" -> IF b > 0 THEN (2 * a) \div b ELSE 0 - ((2 * a) \div (0 - b))
      [] type = "Min" -> Lesser(a, b)
      [] type = "Max" -> Greater(a, b)
      [] type = "Gt" -> Truth(a > b)
      [] type = "Lt" -> Truth(a < b)
      [] type = "Ge" -> Truth(a >= b)
      [] type = "Le" -> Truth(a <= b)
      [] type = "Eq" -> Truth(a = b)
      [] type = "And" -> Truth(a > 0 /\ b > 0)
      [] type = "Or" -> Truth(a > 0 \/ b > 0)
      [] type = "Xor" -> Truth((a > 0) # (b > 0))
      [] type \in {"Pow", "Atan2"} -> BinaryFn(type, a, b)
CpuBinary(type, a, b) ==
    CASE type = "Mod" -> Remainder(a, b)
      [] type = "Copysign" -> IF b < 0 THEN 0 - Magnitude(a) ELSE Magnitude(a)
      [] type \in Bitwise2 -> BinaryFn(type, RoundEven(a), RoundEven(b))
      [] OTHER -> CommonBinary(type, a, b)

CommonUnary(type, a) ==
    CASE type = "Not" -> Truth(a <= 0)
      [] type = "Neg" -> 0 - a
      [] type = "Abs" -> Magnitude(a)
      [] type = "Floor" -> FloorOf(a)
      [] type = "Ceil" -> CeilOf(a)
      [] type = "Trunc" -> TruncOf(a)
      [] type = "Sqrt" -> UnaryFn("Sqrt", Greater(a, 0))
      [] type \in LibraryUnary -> UnaryFn(type, a)
CpuUnary(type, a) ==
    CASE type = "Bitnot" -> 0 - RoundEven(a) - One
      [] type = "Round" -> RoundAway(a)
      [] type = "Sgn" -> IF a # 0 THEN (IF a < 0 THEN 0 - One ELSE One) ELSE 0
      [] OTHER -> CommonUnary(type, a)

\* The same in GLSL, which defines clamp() by min() and max().
TernaryOf(type, a, b, c) ==
    CASE type = "Ternary" -> IF a > 0 THEN b ELSE c
      [] type \in {"Clip", "Clamp"} -> Lesser(Greater(a, b), c)
      [] type = "Fma" -> (a * b) \div 2 + c

\* processToken: arithmetic as GLSL
\* Faulty: halves below zero are rounded up.
LlvmexprRoundUp(a) == FloorOf(a + 1)
LlvmexprRound(a) == IF a >= 0 THEN FloorOf(a + 1) ELSE CeilOf(a - 1)
GlslBinary(type, a, b) ==
    CASE type = "Mod" -> FlooredModulo(a, b)
      [] type = "Copysign" -> (SignOf(b) * Magnitude(a)) \div 2
      [] type \in Bitwise2 -> BinaryFn(type, LlvmexprRound(a), LlvmexprRound(b))
      [] OTHER -> CommonBinary(type, a, b)
GlslUnary(type, a) ==
    CASE type = "Bitnot" -> 0 - LlvmexprRound(a) - One
      [] type = "Round" -> LlvmexprRound(a)
      [] type = "Sgn" -> IF a # 0 THEN SignOf(a) ELSE 0
      [] OTHER -> CommonUnary(type, a)
CpuCompute(type, a) ==
    CASE type \in Binary -> CpuBinary(type, a[1], a[2])
      [] type \in Unary -> CpuUnary(type, a[1])
      [] type \in Ternary -> TernaryOf(type, a[1], a[2], a[3])
GlslCompute(type, a) ==
    CASE type \in Binary -> GlslBinary(type, a[1], a[2])
      [] type \in Unary -> GlslUnary(type, a[1])
      [] type \in Ternary -> TernaryOf(type, a[1], a[2], a[3])

\* What the GLSL specification leaves undefined.
GlslUndefined(type, a) ==
    \/ type \in {"Clip", "Clamp"} /\ a[2] > a[3]
    \/ type = "Pow" /\ (a[1] < 0 \/ (a[1] = 0 /\ a[2] <= 0))
    \/ type = "Atan2" /\ a[1] = 0 /\ a[2] = 0
    \/ type \in {"Log", "Log2", "Log10"} /\ a[1] <= 0
    \/ type \in {"Asin", "Acos"} /\ Magnitude(a[1]) > One
================================================================================
