---------------------------- MODULE Backends_proofs ----------------------------
(***************************************************************************)
(* Proofs about Backends and the loops around an expression, for planes    *)
(* and tiles of every size, every range of offsets, all library functions, *)
(* clips and stacks, and expressions of any length: the code runs once for *)
(* each pixel, no read leaves its plane, and both back ends leave the same *)
(* samples.                                                                *)
(*                                                                         *)
(* Passed(p) says which pixels control has left behind; LoopInv is that    *)
(* these have been visited once and the others never.  AgreeInv says that  *)
(* the texts on the stack of the GLSL generator stand for the values on    *)
(* the stack of the IR generator.                                          *)
(***************************************************************************)
EXTENDS Backends, WellFoundedInduction, TLAPS

-------------------------------------------------------------------------------
(* The loops *)

Geometry == [width : Nat \ {0}, height : Nat \ {0}, tileX : Int, tileY : Int,
             minX : {n \in Int : n <= 0}, maxX : Nat]

RowEnd == Smaller(yTile + TileY, geo.height)
PlaceOK ==
    /\ geo \in Geometry
    /\ at \in {"tileRow", "row", "tile", "done"} \cup Ranges
    /\ yTile \in Nat /\ y \in Nat /\ xTile \in Nat /\ x \in Nat
    /\ at = "done" => yTile >= geo.height
    /\ at = "row" => yTile < geo.height /\ yTile <= y /\ y <= RowEnd
    /\ at \in {"tile"} \cup Ranges => yTile <= y /\ y < RowEnd
    /\ at \in Ranges => xTile < geo.width /\ xTile <= x /\ x <= TileEnd
    /\ at = "main" => Smaller(TileEnd, StartMain) <= x
    /\ at = "right" => HasRightPeel

Passed(cx, cy) ==
    \/ at \in {"tileRow", "done"} /\ cy < yTile
    \/ at \in {"row", "tile"} \cup Ranges /\ cy < y
    \/ at = "tile" /\ cy = y /\ cx < xTile
    \/ at \in Ranges /\ cy = y /\ cx < x
VisitsOK ==
    /\ visits \in [Columns \X Rows -> Nat]
    /\ \A cx \in Columns, cy \in Rows : visits[<<cx, cy>>] = IF Passed(cx, cy) THEN 1 ELSE 0

LoopInv == PlaceOK /\ VisitsOK

\* Where a read at an offset of the expression is not brought into the plane, it is there.
UncheckedInside ==
    Unchecked /\ InBody => \A dx \in geo.minX .. geo.maxX : x + dx \in Columns

LEMMA TileFacts == ASSUME geo \in Geometry PROVE TileX \in Nat \ {0} /\ TileY \in Nat \ {0}
BY DEF Geometry, TileX, TileY

LEMMA LoopsInit == LoopInit => LoopInv
<1> SUFFICES ASSUME LoopInit PROVE LoopInv
  OBVIOUS
<1>1. geo \in Geometry
  BY GeometryAssumption DEF LoopInit, Geometry
<1>2. PlaceOK
  BY <1>1 DEF LoopInit, PlaceOK, Ranges
<1>3. VisitsOK
  BY DEF LoopInit, VisitsOK, Passed, Ranges, Columns, Rows
<1> QED
  BY <1>2, <1>3 DEF LoopInv

\* Control stays in the plane: every loop leaves what the next one out expects.
LEMMA PlaceStep == ASSUME LoopInv, LoopNext PROVE PlaceOK'
<1> USE DEF LoopInv
<1>1. CASE NextTileRow
  BY <1>1, TileFacts DEF NextTileRow, PlaceOK, RowEnd, Smaller, Geometry, Ranges, TileY
<1>2. CASE NextRow
  BY <1>2, TileFacts DEF NextRow, PlaceOK, RowEnd, Smaller, Geometry, Ranges, TileY
<1>3. CASE NextTile
  <2>1. CASE xTile < geo.width
    BY <1>3, <2>1, TileFacts DEF NextTile, PlaceOK, RowEnd, Smaller, Geometry, Ranges, TileEnd, TileX, TileY, StartMain, HasLeftPeel
  <2>2. CASE ~(xTile < geo.width)
    BY <1>3, <2>2, TileFacts DEF NextTile, PlaceOK, RowEnd, Smaller, Geometry, Ranges, TileY
  <2> QED
    BY <2>1, <2>2
<1>4. CASE Body
  BY <1>4, TileFacts DEF Body, InBody, RangeEnd, PlaceOK, RowEnd, Smaller, Geometry, Ranges, TileEnd, TileX, TileY, StartMain, EndMain, HasRightPeel
<1>5. CASE EndRange
  BY <1>5, TileFacts DEF EndRange, RangeEnd, PlaceOK, RowEnd, Smaller, Geometry, Ranges, TileEnd, TileX, TileY, StartMain, EndMain, HasRightPeel
<1> QED
  BY <1>1, <1>2, <1>3, <1>4, <1>5 DEF LoopNext

\* A loop header passes control on, and no pixel by.
LEMMA HeaderPasses ==
    ASSUME LoopInv, NextTileRow \/ NextRow \/ NextTile \/ EndRange, NEW cx \in Columns, NEW cy \in Rows
    PROVE  Passed(cx, cy)' <=> Passed(cx, cy)
<1> USE DEF LoopInv
<1>0. cx \in Nat /\ cx < geo.width /\ cy \in Nat /\ cy < geo.height
  BY DEF Columns, Rows, PlaceOK, Geometry
<1>1. CASE NextTileRow
  BY <1>0, <1>1 DEF NextTileRow, Passed, PlaceOK, Ranges
<1>2. CASE NextRow
  BY <1>0, <1>2, TileFacts DEF NextRow, Passed, PlaceOK, RowEnd, Smaller, Ranges, Geometry
<1>3. CASE NextTile
  BY <1>0, <1>3 DEF NextTile, Passed, PlaceOK, Ranges, Geometry
<1>4. CASE EndRange
  BY <1>0, <1>4, TileFacts DEF EndRange, RangeEnd, Passed, PlaceOK, Smaller, Ranges, Geometry, TileEnd, StartMain, EndMain, HasRightPeel
<1> QED
  BY <1>1, <1>2, <1>3, <1>4

LEMMA VisitsStep == ASSUME LoopInv, LoopNext PROVE VisitsOK'
<1> USE DEF LoopInv
<1>1. CASE NextTileRow \/ NextRow \/ NextTile \/ EndRange
  <2>1. UNCHANGED <<geo, visits>>
    BY <1>1 DEF NextTileRow, NextRow, NextTile, EndRange
  <2> QED
    BY <1>1, <2>1, HeaderPasses DEF VisitsOK, Columns, Rows
<1>2. CASE Body
  <2>1. UNCHANGED <<geo, at, y>> /\ at \in Ranges /\ x' = x + 1 /\ visits' = [visits EXCEPT ![<<x, y>>] = @ + 1]
    BY <1>2 DEF Body, InBody
  <2>2. x \in Columns /\ y \in Rows
    BY <1>2, TileFacts DEF Body, InBody, RangeEnd, PlaceOK, RowEnd, Smaller, Geometry, Ranges, TileEnd, Columns, Rows
  <2>3. ASSUME NEW cx \in Columns, NEW cy \in Rows PROVE Passed(cx, cy)' <=> Passed(cx, cy) \/ (cx = x /\ cy = y)
    BY <2>1 DEF Passed, PlaceOK, Ranges, Columns, Rows, Geometry
  <2>4. ~Passed(x, y)
    BY <2>1 DEF Passed, PlaceOK, Ranges
  <2>5. ASSUME NEW cx \in Columns, NEW cy \in Rows
        PROVE  visits'[<<cx, cy>>] = IF cx = x /\ cy = y THEN visits[<<x, y>>] + 1 ELSE visits[<<cx, cy>>]
    BY <2>1, <2>2 DEF VisitsOK
  <2>6. visits' \in [Columns \X Rows -> Nat]
    BY <2>1, <2>2 DEF VisitsOK
  <2>7. Columns' = Columns /\ Rows' = Rows
    BY <2>1 DEF Columns, Rows
  <2> QED
    BY <2>2, <2>3, <2>4, <2>5, <2>6, <2>7 DEF VisitsOK
<1> QED
  BY <1>1, <1>2 DEF LoopNext

LEMMA LoopsKeep == ASSUME LoopInv, LoopNext \/ UNCHANGED loopVars PROVE LoopInv'
<1>1. CASE LoopNext
  BY <1>1, PlaceStep, VisitsStep DEF LoopInv
<1>2. CASE UNCHANGED loopVars
  BY <1>2 DEF loopVars, LoopInv, PlaceOK, VisitsOK, Passed, Columns, Rows, RowEnd, TileEnd, TileX, TileY, StartMain, HasRightPeel
<1> QED
  BY <1>1, <1>2

LEMMA OnceEach == LoopInv => EveryPixelOnce
<1> SUFFICES ASSUME LoopInv PROVE EveryPixelOnce
  OBVIOUS
<1>1. DOMAIN visits = Columns \X Rows
  BY DEF LoopInv, VisitsOK
<1>2. \A cx \in Columns, cy \in Rows : visits[<<cx, cy>>] = IF Passed(cx, cy) THEN 1 ELSE 0
  BY DEF LoopInv, VisitsOK
<1>3. ASSUME at = "done", NEW cx \in Columns, NEW cy \in Rows PROVE Passed(cx, cy)
  BY <1>3 DEF LoopInv, PlaceOK, Passed, Rows, Geometry
<1> QED
  BY <1>1, <1>2, <1>3 DEF EveryPixelOnce

\* Where no_x_bounds_check is set, every column the expression may read is in the plane.
LEMMA UncheckedHolds == LoopInv => UncheckedInside
<1> SUFFICES ASSUME LoopInv, at = "main", x < RangeEnd, NEW dx \in geo.minX .. geo.maxX PROVE x + dx \in Columns
  BY DEF UncheckedInside, Unchecked, InBody
<1>1. TileEnd \in Int /\ x \in Nat /\ geo \in Geometry /\ Smaller(TileEnd, StartMain) <= x
  BY TileFacts DEF LoopInv, PlaceOK, TileEnd, Smaller, Geometry
<1>2. RangeEnd = Smaller(TileEnd, EndMain)
  BY DEF RangeEnd
<1>3. 0 <= x + geo.minX /\ x + geo.maxX < geo.width
  BY <1>1, <1>2 DEF Smaller, StartMain, EndMain, Geometry
<1> QED
  BY <1>1, <1>3 DEF Columns, Geometry

-------------------------------------------------------------------------------
(* Coordinates and packed planes *)

LEMMA Division ==
    ASSUME NEW c \in Int, NEW d \in Nat \ {0}
    PROVE  c \div d \in Int /\ c % d \in 0 .. d - 1 /\ c = d * (c \div d) + (c % d)
BY SMT

LEMMA Multiples ==
    ASSUME NEW a \in Int, NEW b \in Int, NEW d \in Nat \ {0}, a < b
    PROVE  d * a + d <= d * b
<1>1. PICK k \in Nat : b = a + 1 + k
  <2>1. b - a - 1 \in Nat /\ b = a + 1 + (b - a - 1)
    OBVIOUS
  <2>2. QED
    BY <2>1
<1>2. d * k >= 0
  BY SMT
<1>3. d * (a + 1 + k) = d * a + d + d * k
  BY SMT
<1>4. d * a \in Int /\ d * k \in Int
  BY SMT
<1>5. QED
  BY <1>1, <1>2, <1>3, <1>4

LEMMA QuotientUnique ==
    ASSUME NEW d \in Nat \ {0}, NEW q \in Int, NEW p \in Int, NEW r \in 0 .. d - 1, NEW s \in 0 .. d - 1,
           d * q + r = d * p + s
    PROVE  q = p /\ r = s
<1>1. d * q \in Int /\ d * p \in Int
  BY SMT
<1>2. ~(q < p)
  <2> SUFFICES ASSUME q < p PROVE FALSE
    OBVIOUS
  <2>1. d * q + d <= d * p
    BY Multiples
  <2>2. QED
    BY <1>1, <2>1
<1>3. ~(p < q)
  <2> SUFFICES ASSUME p < q PROVE FALSE
    OBVIOUS
  <2>1. d * p + d <= d * q
    BY Multiples
  <2>2. QED
    BY <1>1, <2>1
<1>4. q = p
  BY <1>2, <1>3
<1>5. QED
  BY <1>1, <1>4

LEMMA DivisionOf ==
    ASSUME NEW d \in Nat \ {0}, NEW q \in Int, NEW r \in 0 .. d - 1
    PROVE  (d * q + r) % d = r /\ (d * q + r) \div d = q
<1>1. d * q + r \in Int
  BY SMT
<1> DEFINE c == d * q + r
<1>2. c \div d \in Int /\ c % d \in 0 .. d - 1 /\ c = d * (c \div d) + (c % d)
  <2> HIDE DEF c
  <2> QED
    BY <1>1, Division DEF c
<1>3. d * q + r = d * (c \div d) + (c % d)
  BY <1>2
<1>4. QED
  <2> HIDE DEF c
  <2>1. q = c \div d /\ r = c % d
    BY <1>2, <1>3, QuotientUnique
  <2>2. QED
    BY <2>1 DEF c

LEMMA MirrorsAgree ==
    ASSUME NEW c \in Int, NEW size \in Nat \ {0}
    PROVE  /\ MirrorCpu(c, size) = MirrorGlsl(c, size)
           /\ MirrorGlsl(c, size) \in 0 .. size - 1
           /\ c \in 0 .. size - 1 => MirrorGlsl(c, size) = c
<1> DEFINE period == 2 * size
<1>1. period \in Nat \ {0} /\ period > size
  OBVIOUS
<1>2. c % period \in 0 .. period - 1 /\ (0 - c) % period \in 0 .. period - 1
  <2> HIDE DEF period
  <2> QED
    BY <1>1, Division
<1>3. MirrorGlsl(c, size) \in 0 .. size - 1
  <2>1. MirrorGlsl(c, size) = IF c % period >= size THEN period - 1 - (c % period) ELSE c % period
    BY DEF MirrorGlsl
  <2>2. QED
    <3> DEFINE m == c % period
    <3>1. m \in 0 .. 2 * size - 1
      BY <1>2
    <3> HIDE DEF m
    <3>2. (IF m >= size THEN 2 * size - 1 - m ELSE m) \in 0 .. size - 1
      BY <3>1
    <3>3. QED
      BY <2>1, <3>2 DEF m
<1>4. ASSUME c \in 0 .. size - 1 PROVE c % period = c
  <2>1. period * 0 + c = c /\ c \in 0 .. period - 1
    BY <1>4
  <2>2. (period * 0 + c) % period = c
    <3> HIDE DEF period
    <3> QED
      BY <1>1, <2>1, DivisionOf
  <2>3. QED
    BY <2>1, <2>2
<1>5. ASSUME c < 0
      PROVE  c % period = IF (0 - c) % period = 0 THEN 0 ELSE period - ((0 - c) % period)
  <2> DEFINE n == (0 - c) % period
             q == (0 - c) \div period
  <2>1. n \in 0 .. period - 1 /\ q \in Int /\ 0 - c = period * q + n
    <3> DEFINE b == 0 - c
    <3>1. b \in Int
      OBVIOUS
    <3> HIDE DEF period, b
    <3>2. b \div period \in Int /\ b % period \in 0 .. period - 1 /\ b = period * (b \div period) + (b % period)
      BY <1>1, <3>1, Division
    <3> QED
      BY <3>2 DEF b
  <2> HIDE DEF n, q, period
  <2>2. period * (0 - q) = 0 - period * q /\ period * (0 - q - 1) = 0 - period * q - period /\ period * q \in Int
    BY <1>1, <2>1, SMT
  <2>3. CASE n = 0
    <3>1. c = period * (0 - q) + 0 /\ 0 \in 0 .. period - 1 /\ 0 - q \in Int
      BY <1>1, <2>1, <2>2, <2>3
    <3>2. (period * (0 - q) + 0) % period = 0
      BY <1>1, <3>1, DivisionOf
    <3>3. QED
      BY <2>3, <3>1, <3>2 DEF n
  <2>4. CASE n # 0
    <3>1. c = period * (0 - q - 1) + (period - n) /\ period - n \in 0 .. period - 1 /\ 0 - q - 1 \in Int
      BY <1>1, <2>1, <2>2, <2>4
    <3>2. (period * (0 - q - 1) + (period - n)) % period = period - n
      BY <1>1, <3>1, DivisionOf
    <3>3. QED
      BY <2>4, <3>1, <3>2 DEF n
  <2>5. QED
    BY <2>3, <2>4
<1>6. MirrorCpu(c, size) = MirrorGlsl(c, size)
  <2> DEFINE m == c % period
             n == (0 - c) % period
             rem == IF c < 0 THEN 0 - n ELSE m
             k == IF rem < 0 THEN rem + period ELSE rem
  <2>1. MirrorCpu(c, size) = IF k < size THEN k ELSE period - 1 - k
    BY DEF MirrorCpu
  <2>2. MirrorGlsl(c, size) = IF m >= size THEN period - 1 - m ELSE m
    BY DEF MirrorGlsl
  <2>3. m \in 0 .. period - 1 /\ n \in 0 .. period - 1 /\ (c < 0 => m = IF n = 0 THEN 0 ELSE period - n)
    BY <1>2, <1>5
  <2>4. k = m
    <3> HIDE DEF m, n, period
    <3>1. CASE c < 0
      BY <1>1, <2>3, <3>1
    <3>2. CASE ~(c < 0)
      BY <1>1, <2>3, <3>2
    <3> QED
      BY <3>1, <3>2
  <2> HIDE DEF k, m, period
  <2>5. (IF m < size THEN m ELSE period - 1 - m) = IF m >= size THEN period - 1 - m ELSE m
    BY <1>1, <2>3
  <2>6. QED
    BY <2>1, <2>2, <2>4, <2>5
<1>7. c \in 0 .. size - 1 => MirrorGlsl(c, size) = c
  BY <1>4 DEF MirrorGlsl
<1> QED
  BY <1>3, <1>6, <1>7

LEMMA FinalCoords ==
    ASSUME NEW c \in Int, NEW size \in Nat \ {0}, NEW m
    PROVE  /\ FinalCoordCpu(c, size, m) = FinalCoordGlsl(c, size, m)
           /\ FinalCoordGlsl(c, size, m) \in 0 .. size - 1
           /\ c \in 0 .. size - 1 => FinalCoordGlsl(c, size, m) = c
<1>1. Clamped(c, size) \in 0 .. size - 1 /\ (c \in 0 .. size - 1 => Clamped(c, size) = c)
  BY DEF Clamped
<1>2. QED
  BY <1>1, MirrorsAgree DEF FinalCoordCpu, FinalCoordGlsl

LEMMA Packed ==
    ASSUME NEW w \in Nat \ {0}, NEW h \in Nat \ {0}, NEW cx \in 0 .. w - 1, NEW cy \in 0 .. h - 1
    PROVE  /\ cx + cy * w \in 0 .. w * h - 1
           /\ (cx + cy * w) % w = cx /\ (cx + cy * w) \div w = cy
<1>1. cy * w = w * cy /\ w * cy \in Nat /\ w * h \in Nat
  BY SMT
<1>2. w * cy + w <= w * h
  BY Multiples
<1>3. cx + cy * w = w * cy + cx /\ cx + cy * w \in 0 .. w * h - 1
  BY <1>1, <1>2
<1>4. (w * cy + cx) % w = cx /\ (w * cy + cx) \div w = cy
  BY DivisionOf
<1> QED
  BY <1>3, <1>4

-------------------------------------------------------------------------------
(* What both generators compute *)

LEMMA UnaryAgrees ==
    ASSUME NEW type \in Unary, NEW a \in Int, type = "Bitnot" => RoundEven(a) = RoundAway(a)
    PROVE  CpuUnary(type, a) = GlslUnary(type, a)
<1>1. LlvmexprRound(a) = RoundAway(a)
  BY DEF LlvmexprRound, RoundAway
<1>2. CASE type = "Bitnot"
  BY <1>1, <1>2 DEF CpuUnary, GlslUnary
<1>3. CASE type = "Round"
  BY <1>1, <1>3 DEF CpuUnary, GlslUnary
<1>4. CASE type = "Sgn"
  BY <1>4 DEF CpuUnary, GlslUnary, SignOf, One
<1>5. CASE type \notin {"Bitnot", "Round", "Sgn"}
  BY <1>5 DEF CpuUnary, GlslUnary
<1>6. QED
  BY <1>2, <1>3, <1>4, <1>5

LEMMA BinaryAgrees ==
    ASSUME NEW type \in Binary, NEW a \in Int, NEW b \in Int,
           type \in {"Mod", "Copysign"} => CpuBinary(type, a, b) = GlslBinary(type, a, b),
           type \in Bitwise2 => RoundEven(a) = RoundAway(a) /\ RoundEven(b) = RoundAway(b)
    PROVE  CpuBinary(type, a, b) = GlslBinary(type, a, b)
<1>1. LlvmexprRound(a) = RoundAway(a) /\ LlvmexprRound(b) = RoundAway(b)
  BY DEF LlvmexprRound, RoundAway
<1>2. CASE type \in {"Mod", "Copysign"}
  BY <1>2
<1>3. CASE type \in Bitwise2
  BY <1>1, <1>3 DEF CpuBinary, GlslBinary, Bitwise2
<1>4. CASE type \notin {"Mod", "Copysign"} \cup Bitwise2
  BY <1>4 DEF CpuBinary, GlslBinary
<1>5. QED
  BY <1>2, <1>3, <1>4

LEMMA ComputeAgrees ==
    ASSUME NEW t, t.type \in Binary \cup Unary \cup Ternary, NEW a \in Seq(Int),
           Len(a) = IF t.type \in Binary THEN 2 ELSE IF t.type \in Unary THEN 1 ELSE 3,
           t.type \in {"Mod", "Copysign"} => CpuCompute(t.type, a) = GlslCompute(t.type, a),
           t.type \in Bitwise2 \cup {"Bitnot"} => \A i \in 1 .. Len(a) : RoundEven(a[i]) = RoundAway(a[i])
    PROVE  CpuCompute(t.type, a) = GlslCompute(t.type, a)
<1>1. CASE t.type \in Binary
  <2>1. a[1] \in Int /\ a[2] \in Int /\ 1 \in 1 .. Len(a) /\ 2 \in 1 .. Len(a)
    BY <1>1
  <2>2. CpuCompute(t.type, a) = CpuBinary(t.type, a[1], a[2]) /\ GlslCompute(t.type, a) = GlslBinary(t.type, a[1], a[2])
    BY <1>1 DEF CpuCompute, GlslCompute, Binary, Unary, Ternary, Bitwise2, LibraryUnary
  <2>3. /\ t.type \in {"Mod", "Copysign"} => CpuBinary(t.type, a[1], a[2]) = GlslBinary(t.type, a[1], a[2])
        /\ t.type \in Bitwise2 => RoundEven(a[1]) = RoundAway(a[1]) /\ RoundEven(a[2]) = RoundAway(a[2])
    BY <2>1, <2>2
  <2>4. CpuBinary(t.type, a[1], a[2]) = GlslBinary(t.type, a[1], a[2])
    BY <1>1, <2>1, <2>3, BinaryAgrees
  <2>5. QED
    BY <2>2, <2>4
<1>2. CASE t.type \in Unary
  <2>1. a[1] \in Int /\ 1 \in 1 .. Len(a)
    BY <1>2 DEF Unary, Binary, LibraryUnary, Bitwise2
  <2>2. CpuCompute(t.type, a) = CpuUnary(t.type, a[1]) /\ GlslCompute(t.type, a) = GlslUnary(t.type, a[1])
    BY <1>2 DEF CpuCompute, GlslCompute, Binary, Unary, Ternary, Bitwise2, LibraryUnary
  <2>3. QED
    BY <1>2, <2>1, <2>2, UnaryAgrees
<1>3. CASE t.type \in Ternary
  BY <1>3 DEF CpuCompute, GlslCompute, Binary, Unary, Ternary, Bitwise2, LibraryUnary
<1> QED
  BY <1>1, <1>2, <1>3

LEMMA StoresAgree ==
    ASSUME NEW v \in Int
    PROVE  Quantize(v) = Unpacked(v) /\ Quantize(v) \in Int
<1>1. CASE MaxSample = None
  BY <1>1 DEF Quantize, Unpacked
<1>2. CASE MaxSample # None
  <2>1. MaxSample \in Nat
    BY <1>2, BackendsAssumption
  <2> DEFINE m == One * MaxSample
  <2>2. m \in Nat /\ m % 2 = 0
    BY <2>1 DEF One
  <2>3. Quantize(v) = RoundEven(Lesser(Greater(v, 0), m)) /\ Unpacked(v) = RoundEven(Clamped(v, m + 1))
    BY <1>2 DEF Quantize, Unpacked
  <2> HIDE DEF m
  <2>4. Lesser(Greater(v, 0), m) = Clamped(v, m + 1) /\ Clamped(v, m + 1) \in Int
    BY <2>2 DEF Lesser, Greater, Clamped
  <2>5. RoundEven(Clamped(v, m + 1)) \in Int
    BY <2>4 DEF RoundEven
  <2>6. QED
    BY <2>3, <2>4, <2>5
<1> QED
  BY <1>1, <1>2

LEMMA LeastOf ==
    ASSUME NEW T \in SUBSET Nat, T # {}
    PROVE  \E m \in T : \A k \in T : m <= k
<1> DEFINE less == {p \in Nat \X Nat : p[1] < p[2]}
<1>1. IsWellFoundedOn(less, Nat)
  BY NatLessThanWellFounded DEF OpToRel
<1>2. PICK m \in T : \A k \in T : ~(<<k, m>> \in less)
  <2> HIDE DEF less
  <2> QED
    BY <1>1, WFMin
<1>3. \A k \in T : ~(k < m)
  BY <1>2
<1> QED
  BY <1>3

LEMMA AfterFollows ==
    ASSUME NEW c, NEW network, NEW v, Len(network) \in Nat
    PROVE  /\ After(c, network, v)[0] = <<>> \o v
           /\ \A k \in 1 .. Len(network) : After(c, network, v)[k] = Compare(c, network[k], After(c, network, v)[k - 1])
<1> DEFINE Solves(f, n) ==
               f = [k \in 0 .. n |-> IF k = 0 THEN <<>> \o v ELSE Compare(c, network[k], f[k - 1])]
           bad == {n \in Nat : ~ \E f : Solves(f, n)}
<1>1. \E f : Solves(f, 0)
  <2> DEFINE f == [k \in 0 .. 0 |-> <<>> \o v]
  <2>1. Solves(f, 0)
    OBVIOUS
  <2>2. QED
    BY <2>1
<1>2. ASSUME NEW n \in Nat, \E f : Solves(f, n) PROVE \E f : Solves(f, n + 1)
  <2>1. PICK f : Solves(f, n)
    BY <1>2
  <2> DEFINE g == [k \in 0 .. n + 1 |-> IF k = n + 1 THEN Compare(c, network[k], f[n]) ELSE f[k]]
  <2>2. ASSUME NEW k \in 0 .. n + 1
        PROVE  g[k] = IF k = 0 THEN <<>> \o v ELSE Compare(c, network[k], g[k - 1])
    <3>1. CASE k = n + 1
      <4>1. k # 0 /\ k - 1 = n /\ g[n] = f[n] /\ g[k] = Compare(c, network[k], f[n])
        BY <3>1
      <4>2. QED
        BY <4>1
    <3>2. CASE k # n + 1
      <4>1. k \in 0 .. n /\ g[k] = f[k] /\ (k # 0 => k - 1 \in 0 .. n /\ k - 1 # n + 1)
        BY <3>2
      <4>2. f[k] = IF k = 0 THEN <<>> \o v ELSE Compare(c, network[k], f[k - 1])
        BY <2>1, <4>1
      <4>3. k # 0 => g[k - 1] = f[k - 1]
        BY <4>1
      <4>4. QED
        BY <4>1, <4>2, <4>3
    <3>3. QED
      BY <3>1, <3>2
  <2>3. Solves(g, n + 1)
    BY <2>2
  <2>4. QED
    BY <2>3
<1>3. \E f : Solves(f, Len(network))
  <2> SUFFICES ASSUME bad # {} PROVE FALSE
    OBVIOUS
  <2>1. PICK m \in bad : \A k \in bad : m <= k
    <3> bad \in SUBSET Nat
      OBVIOUS
    <3> HIDE DEF bad
    <3> QED
      BY LeastOf
  <2> HIDE DEF Solves
  <2>2. m \in Nat /\ m # 0 /\ ~ \E f : Solves(f, m)
    BY <1>1, <2>1
  <2>3. m - 1 \in Nat /\ m - 1 \notin bad /\ (m - 1) + 1 = m
    BY <2>1, <2>2
  <2>4. \E f : Solves(f, m - 1)
    BY <2>3
  <2>5. \E f : Solves(f, (m - 1) + 1)
    BY <1>2, <2>3, <2>4
  <2>6. QED
    BY <2>2, <2>3, <2>5
<1>4. After(c, network, v) = CHOOSE f : Solves(f, Len(network))
  BY DEF After
<1>5. Solves(After(c, network, v), Len(network))
  <2> HIDE DEF Solves
  <2>1. QED
    BY <1>3, <1>4
<1>6. QED
  BY <1>5

LEMMA SortsAgree ==
    ASSUME NEW v \in Seq(Int), Len(v) \in 1 .. LargestNetwork
    PROVE  Through("select", v) = Through("minmax", v) /\ Through("minmax", v) \in [1 .. Len(v) -> Int]
<1> DEFINE n == Len(v)
           network == Network[n]
           f == After("select", network, v)
           g == After("minmax", network, v)
           bad == {k \in 0 .. Len(network) : ~(f[k] = g[k] /\ g[k] \in [1 .. n -> Int])}
<1>1. n \in Nat /\ Len(network) \in Nat /\ \A k \in 1 .. Len(network) : network[k] \in (0 .. n - 1) \X (0 .. n - 1)
  <2>1. n \in 1 .. LargestNetwork /\ n \in Nat
    BY DEF LargestNetwork
  <2> HIDE DEF n
  <2>2. /\ Len(Network[n]) \in Nat
        /\ \A k \in 1 .. Len(Network[n]) : Network[n][k] \in (0 .. n - 1) \X (0 .. n - 1)
    BY <2>1, NetworkAssumption
  <2>3. QED
    BY <2>1, <2>2
<1>2. /\ f[0] = v /\ \A k \in 1 .. Len(network) : f[k] = Compare("select", network[k], f[k - 1])
      /\ g[0] = v /\ \A k \in 1 .. Len(network) : g[k] = Compare("minmax", network[k], g[k - 1])
  <2>1. <<>> \o v = v
    OBVIOUS
  <2> HIDE DEF network
  <2>2. f[0] = <<>> \o v /\ \A k \in 1 .. Len(network) : f[k] = Compare("select", network[k], f[k - 1])
    BY <1>1, AfterFollows
  <2>3. g[0] = <<>> \o v /\ \A k \in 1 .. Len(network) : g[k] = Compare("minmax", network[k], g[k - 1])
    BY <1>1, AfterFollows
  <2> HIDE DEF f, g
  <2>4. QED
    BY <2>1, <2>2, <2>3
<1>3. v \in [1 .. n -> Int]
  OBVIOUS
<1> HIDE DEF network, f, g, n
<1>4. ASSUME NEW u \in [1 .. n -> Int], NEW pair \in (0 .. n - 1) \X (0 .. n - 1)
      PROVE  /\ Compare("select", pair, u) = Compare("minmax", pair, u)
             /\ Compare("minmax", pair, u) \in [1 .. n -> Int]
  <2> DEFINE i == pair[1] + 1
             j == pair[2] + 1
  <2>1. i \in 1 .. n /\ j \in 1 .. n
    BY <1>1
  <2>2. Compare("select", pair, u) = Select(u, i, j) /\ Compare("minmax", pair, u) = MinMax(u, i, j)
    BY DEF Compare
  <2> HIDE DEF i, j
  <2>0. u[i] \in Int /\ u[j] \in Int
    BY <2>1
  <2>3. Lesser(u[i], u[j]) \in Int /\ Greater(u[i], u[j]) \in Int
    BY <2>0 DEF Lesser, Greater
  <2>4. MinMax(u, i, j) \in [1 .. n -> Int]
    <3>1. ASSUME NEW a \in Int, NEW b \in Int PROVE [u EXCEPT ![i] = a, ![j] = b] \in [1 .. n -> Int]
      BY <2>1
    <3>2. QED
      BY <2>3, <3>1 DEF MinMax
  <2>5. ASSUME u[i] > u[j] PROVE Select(u, i, j) = MinMax(u, i, j)
    <3>1. Lesser(u[i], u[j]) = u[j] /\ i # j /\ Greater(u[i], u[j]) = u[i]
      BY <2>0, <2>5 DEF Lesser, Greater
    <3>2. MinMax(u, i, j) = [u EXCEPT ![i] = u[j], ![j] = u[i]]
      <4>1. MinMax(u, i, j) = [u EXCEPT ![i] = Lesser(u[i], u[j]), ![j] = Greater(u[i], u[j])]
        BY Zenon DEF MinMax
      <4>2. QED
        BY <3>1, <4>1
    <3>3. QED
      BY <2>5, <3>2 DEF Select
  <2>6. ASSUME ~(u[i] > u[j]) PROVE Select(u, i, j) = MinMax(u, i, j)
    <3>1. Lesser(u[i], u[j]) = u[i] /\ Greater(u[i], u[j]) = u[j]
      BY <2>0, <2>6 DEF Lesser, Greater
    <3>2. MinMax(u, i, j) = u
      <4>1. MinMax(u, i, j) = [u EXCEPT ![i] = Lesser(u[i], u[j]), ![j] = Greater(u[i], u[j])]
        BY Zenon DEF MinMax
      <4>2. QED
        BY <2>1, <3>1, <4>1
    <3>3. QED
      BY <2>6, <3>2 DEF Select
  <2>7. QED
    BY <2>2, <2>4, <2>5, <2>6
<1>5. bad = {}
  <2> SUFFICES ASSUME bad # {} PROVE FALSE
    OBVIOUS
  <2>1. PICK m \in bad : \A k \in bad : m <= k
    <3> bad \in SUBSET Nat
      BY <1>1
    <3> HIDE DEF bad
    <3> QED
      BY LeastOf
  <2>2. m \in 1 .. Len(network)
    BY <1>1, <1>2, <1>3, <2>1
  <2>3. f[m - 1] = g[m - 1] /\ g[m - 1] \in [1 .. n -> Int]
    BY <1>1, <2>1, <2>2
  <2>4. f[m] = Compare("select", network[m], f[m - 1]) /\ g[m] = Compare("minmax", network[m], g[m - 1])
    BY <1>2, <2>2
  <2>5. network[m] \in (0 .. n - 1) \X (0 .. n - 1)
    BY <1>1, <2>2
  <2>6. f[m] = g[m] /\ g[m] \in [1 .. n -> Int]
    BY <1>4, <2>3, <2>4, <2>5
  <2>7. QED
    BY <2>1, <2>6
<1>6. Through("select", v) = f[Len(network)] /\ Through("minmax", v) = g[Len(network)]
  BY DEF Through, f, g, network, n
<1>7. QED
  BY <1>1, <1>5, <1>6 DEF n

-------------------------------------------------------------------------------
(* Stacks of values and stacks of texts *)

Stands(e, vars) == IF e.text = "name" THEN vars[e.name] ELSE e.value
Matches(g, c, vars) == Len(g) = Len(c) /\ \A i \in 1 .. Len(c) : Stands(g[i], vars) = c[i]

LEMMA Parts ==
    ASSUME NEW S, NEW s \in Seq(S), NEW k \in 0 .. Len(s)
    PROVE  /\ Below(s, k) \in Seq(S) /\ Len(Below(s, k)) = Len(s) - k
           /\ \A i \in 1 .. Len(s) - k : Below(s, k)[i] = s[i]
           /\ Top(s, k) \in Seq(S) /\ Len(Top(s, k)) = k
           /\ \A i \in 1 .. k : Top(s, k)[i] = s[Len(s) - k + i]
<1>1. Below(s, k) = [i \in 1 .. Len(s) - k |-> s[i]]
  BY DEF Below
<1>2. Top(s, k) = [i \in 1 .. k |-> s[Len(s) - k + i]]
  BY DEF Top
<1>3. QED
  BY <1>1, <1>2

LEMMA Reversed ==
    ASSUME NEW S, NEW s \in Seq(S)
    PROVE  /\ Reverse(s) \in Seq(S) /\ Len(Reverse(s)) = Len(s)
           /\ \A i \in 1 .. Len(s) : Reverse(s)[i] = s[Len(s) - i + 1]
<1>1. Reverse(s) = [i \in 1 .. Len(s) |-> s[Len(s) - i + 1]]
  BY DEF Reverse
<1>2. QED
  BY <1>1

\* The order in which the upper part of a stack is popped.
LEMMA PoppedFacts ==
    ASSUME NEW S, NEW s \in Seq(S), NEW k \in 0 .. Len(s)
    PROVE  /\ Popped(s, k) \in Seq(S) /\ Len(Popped(s, k)) = k
           /\ \A i \in 1 .. k : Popped(s, k)[i] = Top(s, k)[k - i + 1]
<1> DEFINE u == Top(s, k)
<1>1. u \in Seq(S) /\ Len(u) = k
  BY Parts
<1> HIDE DEF u
<1>2. Reverse(u) \in Seq(S) /\ Len(Reverse(u)) = Len(u) /\ \A i \in 1 .. Len(u) : Reverse(u)[i] = u[Len(u) - i + 1]
  BY <1>1, Reversed
<1>3. Popped(s, k) = Reverse(u)
  BY DEF Popped, u
<1>4. QED
  BY <1>1, <1>2, <1>3 DEF u

LEMMA SameSequence ==
    ASSUME NEW S, NEW s \in Seq(S), NEW u \in Seq(S), Len(s) = Len(u), \A i \in 1 .. Len(s) : s[i] = u[i]
    PROVE  s = u
OBVIOUS

LEMMA ReadsMatch ==
    ASSUME NEW g \in Seq(Texts), NEW c \in Seq(Int), Matches(g, c, gpuVars), NEW k \in 0 .. Len(c)
    PROVE  ReadAll(Top(g, k)) = Top(c, k) /\ ReadAll(Popped(g, k)) = Popped(c, k)
<1>1. k \in 0 .. Len(g) /\ Len(g) = Len(c)
  BY DEF Matches
<1>2. /\ Top(g, k) \in Seq(Texts) /\ Len(Top(g, k)) = k
      /\ \A i \in 1 .. k : Top(g, k)[i] = g[Len(g) - k + i]
  BY <1>1, Parts
<1>3. /\ Top(c, k) \in Seq(Int) /\ Len(Top(c, k)) = k
      /\ \A i \in 1 .. k : Top(c, k)[i] = c[Len(c) - k + i]
  BY Parts
<1>4. ASSUME NEW i \in 1 .. k PROVE Read(Top(g, k)[i]) = Top(c, k)[i]
  <2> DEFINE m == Len(c) - k + i
  <2>1. m \in 1 .. Len(c)
    OBVIOUS
  <2>2. Top(g, k)[i] = g[m] /\ Top(c, k)[i] = c[m]
    BY <1>1, <1>2, <1>3
  <2> HIDE DEF m
  <2>3. Stands(g[m], gpuVars) = c[m]
    BY <1>1, <2>1 DEF Matches
  <2>4. QED
    BY <2>2, <2>3 DEF Stands, Read
<1>5. ReadAll(Top(g, k)) = [i \in 1 .. k |-> Read(Top(g, k)[i])]
  BY <1>2 DEF ReadAll
<1>6. ReadAll(Top(g, k)) = Top(c, k)
  BY <1>3, <1>4, <1>5
<1>7. Popped(g, k) \in Seq(Texts) /\ Len(Popped(g, k)) = k
      /\ \A i \in 1 .. k : Popped(g, k)[i] = Top(g, k)[k - i + 1]
  BY <1>1, PoppedFacts
<1>8. Popped(c, k) \in Seq(Int) /\ Len(Popped(c, k)) = k
      /\ \A i \in 1 .. k : Popped(c, k)[i] = Top(c, k)[k - i + 1]
  BY PoppedFacts
<1>9. ASSUME NEW i \in 1 .. k PROVE Read(Popped(g, k)[i]) = Popped(c, k)[i]
  <2>1. k - i + 1 \in 1 .. k
    OBVIOUS
  <2>2. QED
    BY <1>4, <1>7, <1>8, <2>1
<1>10. ReadAll(Popped(g, k)) = [i \in 1 .. k |-> Read(Popped(g, k)[i])]
  BY <1>7 DEF ReadAll
<1>11. ReadAll(Popped(g, k)) = Popped(c, k)
  BY <1>8, <1>9, <1>10
<1>12. QED
  BY <1>6, <1>11

LEMMA BelowMatches ==
    ASSUME NEW g \in Seq(Texts), NEW c \in Seq(Int), NEW vars, Matches(g, c, vars), NEW k \in 0 .. Len(c)
    PROVE  Matches(Below(g, k), Below(c, k), vars)
<1>1. k \in 0 .. Len(g) /\ Len(g) = Len(c)
  BY DEF Matches
<1>2. /\ Len(Below(g, k)) = Len(c) - k /\ Len(Below(c, k)) = Len(c) - k
      /\ \A i \in 1 .. Len(c) - k : Below(g, k)[i] = g[i] /\ Below(c, k)[i] = c[i]
  BY <1>1, Parts
<1>3. QED
  BY <1>2 DEF Matches

LEMMA TextFacts ==
    ASSUME NEW v, NEW vars
    PROVE  /\ Stands(Value(v), vars) = v /\ Stands(Literal(v), vars) = v /\ Stands(Name(v), vars) = vars[v]
           /\ v \in Int => Value(v) \in Texts /\ Literal(v) \in Texts
           /\ v \in Variables => Name(v) \in Texts
<1>1. Value(v).text = "temp" /\ Value(v).value = v
  BY DEF Value
<1>2. Literal(v).text = "literal" /\ Literal(v).value = v
  BY DEF Literal
<1>3. Name(v).text = "name" /\ Name(v).name = v
  BY DEF Name
<1>4. QED
  BY <1>1, <1>2, <1>3 DEF Stands, Texts

LEMMA PushMatches ==
    ASSUME NEW g \in Seq(Texts), NEW c \in Seq(Int), NEW vars, Matches(g, c, vars),
           NEW e \in Texts, NEW v \in Int, Stands(e, vars) = v
    PROVE  /\ Append(g, e) \in Seq(Texts) /\ Append(c, v) \in Seq(Int)
           /\ Len(Append(c, v)) = Len(c) + 1 /\ Matches(Append(g, e), Append(c, v), vars)
<1>1. Len(g) = Len(c)
  BY DEF Matches
<1>2. /\ Append(g, e) \in Seq(Texts) /\ Len(Append(g, e)) = Len(c) + 1
      /\ Append(g, e)[Len(c) + 1] = e /\ \A i \in 1 .. Len(c) : Append(g, e)[i] = g[i]
  BY <1>1
<1>3. /\ Append(c, v) \in Seq(Int) /\ Len(Append(c, v)) = Len(c) + 1
      /\ Append(c, v)[Len(c) + 1] = v /\ \A i \in 1 .. Len(c) : Append(c, v)[i] = c[i]
  OBVIOUS
<1>4. ASSUME NEW i \in 1 .. Len(c) + 1 PROVE Stands(Append(g, e)[i], vars) = Append(c, v)[i]
  <2>1. CASE i = Len(c) + 1
    BY <1>2, <1>3, <2>1
  <2>2. CASE i # Len(c) + 1
    <3>1. i \in 1 .. Len(c)
      BY <2>2
    <3>2. QED
      BY <1>2, <1>3, <3>1 DEF Matches
  <2>3. QED
    BY <2>1, <2>2
<1>5. QED
  BY <1>2, <1>3, <1>4 DEF Matches

LEMMA Joined ==
    ASSUME NEW S, NEW s \in Seq(S), NEW u \in Seq(S)
    PROVE  /\ s \o u \in Seq(S) /\ Len(s \o u) = Len(s) + Len(u)
           /\ \A i \in 1 .. Len(s) + Len(u) : (s \o u)[i] = IF i <= Len(s) THEN s[i] ELSE u[i - Len(s)]
OBVIOUS

LEMMA JoinMatches ==
    ASSUME NEW g \in Seq(Texts), NEW c \in Seq(Int), NEW vars, Matches(g, c, vars),
           NEW h \in Seq(Texts), NEW d \in Seq(Int), Matches(h, d, vars)
    PROVE  /\ g \o h \in Seq(Texts) /\ c \o d \in Seq(Int)
           /\ Len(c \o d) = Len(c) + Len(d) /\ Matches(g \o h, c \o d, vars)
<1>1. Len(g) = Len(c) /\ Len(h) = Len(d)
  BY DEF Matches
<1>2. /\ g \o h \in Seq(Texts) /\ Len(g \o h) = Len(c) + Len(d)
      /\ \A i \in 1 .. Len(c) + Len(d) : (g \o h)[i] = IF i <= Len(c) THEN g[i] ELSE h[i - Len(c)]
  <2>1. /\ g \o h \in Seq(Texts) /\ Len(g \o h) = Len(g) + Len(h)
        /\ \A i \in 1 .. Len(g) + Len(h) : (g \o h)[i] = IF i <= Len(g) THEN g[i] ELSE h[i - Len(g)]
    BY Joined
  <2>2. QED
    BY <1>1, <2>1
<1>3. /\ c \o d \in Seq(Int) /\ Len(c \o d) = Len(c) + Len(d)
      /\ \A i \in 1 .. Len(c) + Len(d) : (c \o d)[i] = IF i <= Len(c) THEN c[i] ELSE d[i - Len(c)]
  BY Joined
<1>4. ASSUME NEW i \in 1 .. Len(c) + Len(d) PROVE Stands((g \o h)[i], vars) = (c \o d)[i]
  <2>1. CASE i <= Len(c)
    <3>1. i \in 1 .. Len(c)
      BY <2>1
    <3>2. QED
      BY <1>2, <1>3, <2>1, <3>1 DEF Matches
  <2>2. CASE ~(i <= Len(c))
    <3>1. i - Len(c) \in 1 .. Len(d)
      BY <2>2
    <3>2. QED
      BY <1>2, <1>3, <2>2, <3>1 DEF Matches
  <2>3. QED
    BY <2>1, <2>2
<1>5. QED
  BY <1>2, <1>3, <1>4 DEF Matches

LEMMA ValuesMatch ==
    ASSUME NEW c \in Seq(Int), NEW vars
    PROVE  ValuesOf(c) \in Seq(Texts) /\ Len(ValuesOf(c)) = Len(c) /\ Matches(ValuesOf(c), c, vars)
           /\ \A i \in 1 .. Len(c) : ValuesOf(c)[i] = Value(c[i])
<1>1. ValuesOf(c) = [i \in 1 .. Len(c) |-> Value(c[i])]
  BY DEF ValuesOf
<1>2. \A i \in 1 .. Len(c) : Value(c[i]) \in Texts /\ Stands(Value(c[i]), vars) = c[i]
  BY TextFacts
<1>3. QED
  BY <1>1, <1>2 DEF Matches

\* What the exploration admits is a number, and none of the markers of outputs.
LEMMA ExploredNumbers == /\ Explored \subseteq Int /\ Unwritten \in Int
                         /\ \A v \in Explored : v # Unwritten /\ v # Broken
<1>1. MaxValue \in 0 .. Exit - 1 /\ Explored = -MaxValue .. MaxValue \cup {Exit}
  BY BackendsAssumption DEF Explored
<1>2. Exit \in Int /\ Unwritten = Exit + 1 /\ Broken = Exit + 2
  BY SMT DEF Exit, Unwritten, Broken
<1>3. QED
  BY <1>1, <1>2

LEMMA PushedNumber ==
    ASSUME NEW s \in Seq(Int), NEW v, \A i \in 1 .. Len(Append(s, v)) : Append(s, v)[i] \in Explored
    PROVE  v \in Int
<1>1. s \in Seq(Int \cup {v})
  OBVIOUS
<1>2. Append(s, v)[Len(s) + 1] = v /\ Len(Append(s, v)) = Len(s) + 1
  BY <1>1
<1>3. Explored \subseteq Int
  BY ExploredNumbers
<1>4. Len(s) + 1 \in 1 .. Len(s) + 1
  OBVIOUS
<1>5. Append(s, v)[Len(s) + 1] \in Explored
  BY <1>2, <1>4
<1>6. QED
  BY <1>2, <1>3, <1>5

LEMMA JoinedNumbers ==
    ASSUME NEW s \in Seq(Int), NEW n \in Nat, NEW f, f = [i \in 1 .. n |-> f[i]],
           \A i \in 1 .. Len(s \o f) : (s \o f)[i] \in Explored
    PROVE  f \in Seq(Int) /\ Len(f) = n
<1> DEFINE S == Int \cup {f[i] : i \in 1 .. n}
<1>1. s \in Seq(S) /\ f \in Seq(S) /\ Len(f) = n
  <2>1. s \in Seq(S)
    OBVIOUS
  <2>2. f \in [1 .. n -> S]
    OBVIOUS
  <2>3. QED
    BY <2>1, <2>2
<1> HIDE DEF S
<1>2. Len(s \o f) = Len(s) + n /\ \A i \in 1 .. n : (s \o f)[Len(s) + i] = f[i]
  BY <1>1
<1>3. Explored \subseteq Int
  BY ExploredNumbers
<1>4. ASSUME NEW i \in 1 .. n PROVE f[i] \in Int
  <2>1. Len(s) + i \in 1 .. Len(s) + n
    OBVIOUS
  <2>2. (s \o f)[Len(s) + i] \in Explored
    BY <1>2, <2>1
  <2>3. QED
    BY <1>2, <1>3, <2>2
<1>5. QED
  BY <1>1, <1>4

-------------------------------------------------------------------------------
(* Words *)

PlaceInv ==
    /\ LoopInv /\ family \in Families
    /\ phase \in {"loops", "words", "stored"}
    /\ phase = "words" => InBody /\ <<x, y>> = watched

LEMMA InThePlane ==
    ASSUME PlaceInv, phase = "words"
    PROVE  /\ geo \in Geometry /\ geo.width \in Nat \ {0} /\ geo.height \in Nat \ {0}
           /\ x \in Columns /\ y \in Rows /\ watched = <<x, y>>
<1>1. InBody /\ watched = <<x, y>> /\ LoopInv
  BY DEF PlaceInv
<1>2. geo \in Geometry /\ geo.width \in Nat \ {0} /\ geo.height \in Nat \ {0}
  BY <1>1 DEF LoopInv, PlaceOK, Geometry
<1>3. x \in Columns /\ y \in Rows
  BY <1>1, <1>2, TileFacts DEF InBody, RangeEnd, LoopInv, PlaceOK, RowEnd, Smaller, Geometry, Ranges, TileEnd, Columns, Rows
<1>4. QED
  BY <1>1, <1>2, <1>3

\* The invocation of the shader is the one for this pixel.
LEMMA ThisInvocation ==
    ASSUME PlaceInv, phase = "words"
    PROVE  gid \in 0 .. geo.width * geo.height - 1 /\ X = x /\ Y = y /\ gid % geo.width = x /\ gid \div geo.width = y
<1>1. /\ geo.width \in Nat \ {0} /\ geo.height \in Nat \ {0} /\ watched[1] = x /\ watched[2] = y
      /\ x \in 0 .. geo.width - 1 /\ y \in 0 .. geo.height - 1
  BY InThePlane DEF Columns, Rows
<1> DEFINE w == geo.width
           h == geo.height
<1>2. gid = y * w + x
  BY <1>1 DEF gid
<1> HIDE DEF w, h
<1>3. y * w + x = x + y * w
  <2>1. y * w \in Int
    BY <1>1, SMT DEF w
  <2>2. QED
    BY <1>1, <2>1
<1>4. w \in Nat \ {0} /\ h \in Nat \ {0} /\ x \in 0 .. w - 1 /\ y \in 0 .. h - 1
  BY <1>1 DEF w, h
<1>5. x + y * w \in 0 .. w * h - 1 /\ (x + y * w) % w = x /\ (x + y * w) \div w = y
  BY <1>4, Packed
<1>6. gid \in 0 .. w * h - 1 /\ gid % w = x /\ gid \div w = y
  BY <1>2, <1>3, <1>5
<1>7. QED
  BY <1>6 DEF X, Y, w, h

LEMMA IntegerParts ==
    ASSUME NEW a \in Int
    PROVE  RoundEven(a) \in Int /\ RoundAway(a) \in Int /\ IntegerPart(a) \in Int /\ IntegerPart(RoundEven(a)) \in Int
<1>1. ASSUME NEW b \in Int PROVE RoundEven(b) \in Int /\ RoundAway(b) \in Int /\ IntegerPart(b) \in Int
  BY DEF RoundEven, RoundAway, IntegerPart, TruncOf, CeilOf, FloorOf
<1>2. QED
  BY <1>1

\* What is read at a word: both generators read the same place, and it is in the plane.
LEMMA SamePlace ==
    ASSUME PlaceInv, phase = "words", NEW t, t.type \in Relative \cup Absolute,
           t.type \in {"ClipRel", "BufferRel"} => t.x \in geo.minX .. geo.maxX /\ t.y \in Int,
           NEW a, t.type \in Absolute => a \in Seq(Int) /\ Len(a) = 2
    PROVE  /\ PlaceCpu(t, a) \in Pixels /\ IndexGlsl(t, a) \in 0 .. geo.width * geo.height - 1
           /\ PlaceCpu(t, a)[1] = IndexGlsl(t, a) % geo.width
           /\ PlaceCpu(t, a)[2] = IndexGlsl(t, a) \div geo.width
<1>1. /\ geo \in Geometry /\ geo.width \in Nat \ {0} /\ geo.height \in Nat \ {0}
      /\ x \in Columns /\ y \in Rows /\ x \in Int /\ y \in Int
  BY InThePlane DEF Columns, Rows
<1>2. ASSUME NEW cx \in Int, NEW cy \in Int, NEW m,
             Unchecked => cx \in Columns
      PROVE  /\ ColumnCpu(cx, m) = FinalCoordGlsl(cx, geo.width, m) /\ ColumnCpu(cx, m) \in Columns
             /\ RowCpu(cy, m) = FinalCoordGlsl(cy, geo.height, m) /\ RowCpu(cy, m) \in Rows
  BY <1>1, <1>2, FinalCoords DEF ColumnCpu, RowCpu, Columns, Rows
<1>3. ASSUME NEW cx \in Columns, NEW cy \in Rows
      PROVE  /\ PixelIndex(cx, cy) \in 0 .. geo.width * geo.height - 1
             /\ PixelIndex(cx, cy) % geo.width = cx /\ PixelIndex(cx, cy) \div geo.width = cy
  <2> DEFINE w == geo.width
             h == geo.height
  <2>1. w \in Nat \ {0} /\ h \in Nat \ {0} /\ cx \in 0 .. w - 1 /\ cy \in 0 .. h - 1
    BY <1>1 DEF Columns, Rows
  <2> HIDE DEF w, h
  <2>2. cx + cy * w \in 0 .. w * h - 1 /\ (cx + cy * w) % w = cx /\ (cx + cy * w) \div w = cy
    BY <2>1, Packed
  <2>3. QED
    BY <2>2 DEF PixelIndex, w, h
<1>4. ASSUME NEW cx \in Columns, NEW cy \in Rows, PlaceCpu(t, a) = <<cx, cy>>,
             IndexGlsl(t, a) \in 0 .. geo.width * geo.height - 1,
             IndexGlsl(t, a) % geo.width = cx, IndexGlsl(t, a) \div geo.width = cy
      PROVE  /\ PlaceCpu(t, a) \in Pixels /\ IndexGlsl(t, a) \in 0 .. geo.width * geo.height - 1
             /\ PlaceCpu(t, a)[1] = IndexGlsl(t, a) % geo.width
             /\ PlaceCpu(t, a)[2] = IndexGlsl(t, a) \div geo.width
  BY <1>4 DEF Pixels
<1>5. CASE t.type \in {"ClipCur", "BufferCur"}
  <2>1. PlaceCpu(t, a) = <<ColumnCpu(x, mirror), RowCpu(y, mirror)>> /\ IndexGlsl(t, a) = gid
    BY <1>5 DEF PlaceCpu, IndexGlsl
  <2>2. ColumnCpu(x, mirror) = x /\ RowCpu(y, mirror) = y
    BY <1>1, FinalCoords DEF ColumnCpu, RowCpu, Columns, Rows
  <2>3. QED
    BY <1>1, <1>4, <2>1, <2>2, ThisInvocation
<1>6. CASE t.type \in {"ClipRel", "BufferRel"}
  <2> DEFINE cx == x + t.x
             cy == y + t.y
             m == MirrorOf(t)
  <2>1. /\ PlaceCpu(t, a) = <<ColumnCpu(cx, m), RowCpu(cy, m)>>
        /\ IndexGlsl(t, a) = PixelIndex(FinalCoordGlsl(cx, geo.width, m), FinalCoordGlsl(cy, geo.height, m))
    BY <1>6, ThisInvocation DEF PlaceCpu, IndexGlsl, IndexOf
  <2>2. t.x \in Int /\ t.y \in Int /\ cx \in Int /\ cy \in Int
    BY <1>1, <1>6 DEF Geometry
  <2>3. Unchecked => cx \in Columns
    <3>1. UncheckedInside /\ InBody
      BY UncheckedHolds DEF PlaceInv
    <3>2. QED
      BY <1>6, <3>1 DEF UncheckedInside
  <2> HIDE DEF cx, cy, m
  <2>4. QED
    BY <1>2, <1>3, <1>4, <2>1, <2>2, <2>3
<1>7. CASE t.type \in Absolute
  <2> DEFINE cx == IntegerPart(RoundEven(a[1]))
             cy == IntegerPart(RoundEven(a[2]))
             m == MirrorOf(t)
  <2>1. /\ PlaceCpu(t, a) = <<FinalCoordCpu(cx, geo.width, m), FinalCoordCpu(cy, geo.height, m)>>
        /\ IndexGlsl(t, a) = PixelIndex(FinalCoordGlsl(cx, geo.width, m), FinalCoordGlsl(cy, geo.height, m))
    BY <1>7 DEF PlaceCpu, IndexGlsl, IndexOf, Absolute
  <2>2. cx \in Int /\ cy \in Int
    <3>1. a \in Seq(Int) /\ Len(a) = 2
      BY <1>7
    <3>2. a[1] \in Int /\ a[2] \in Int
      <4>1. \A i \in 1 .. Len(a) : a[i] \in Int
        BY <3>1
      <4>2. 1 \in 1 .. 2 /\ 2 \in 1 .. 2
        OBVIOUS
      <4>3. QED
        BY <3>1, <4>1, <4>2
    <3>3. QED
      BY <3>2, IntegerParts
  <2> HIDE DEF cx, cy, m
  <2>3. /\ FinalCoordCpu(cx, geo.width, m) = FinalCoordGlsl(cx, geo.width, m) /\ FinalCoordCpu(cx, geo.width, m) \in Columns
        /\ FinalCoordCpu(cy, geo.height, m) = FinalCoordGlsl(cy, geo.height, m) /\ FinalCoordCpu(cy, geo.height, m) \in Rows
    BY <1>1, <2>2, FinalCoords DEF Columns, Rows
  <2>4. QED
    BY <1>3, <1>4, <2>1, <2>3
<1>8. QED
  BY <1>5, <1>6, <1>7 DEF Relative

\* The tokens of the words that the model takes.
IsToken(t) ==
    /\ t.type \in Binary \cup Unary \cup Ternary \cup Constants \cup StackWords \cup Sorts \cup Relative \cup Absolute
                  \cup {"Number", "VarStore", "VarLoad", "ExitNoWrite", "PropAccess", "PropExists",
                        "ArrayAllocStatic", "ArrayLoad", "ArrayStore", "StoreAbs"}
    /\ t.type \in StackWords => t.n \in Nat
    /\ t.type \in Sorts => t.n \in 0 .. LargestNetwork
    /\ t.type \in {"VarStore", "VarLoad"} => t.name \in Variables
    /\ t.type \in {"ClipRel", "BufferRel"} => t.x \in Int /\ t.y \in Int

LEMMA ParsedToken == ASSUME NEW w, IsWord(w) PROVE IsToken(Parse(w))
<1>1. CASE w.type \in StackWords
  <2>1. Parse(w) = ParseStackWord(w)
    BY <1>1 DEF Parse, StackWords
  <2>2. Parse(w).type = w.type /\ Parse(w).n \in Nat
    BY <1>1, <2>1 DEF ParseStackWord, IsWord, None
  <2>3. QED
    BY <1>1, <2>2 DEF IsToken, IsWord, StackWords, Sorts
<1>2. CASE w.type \in {"ClipRel", "ClipAbs", "BufferRel", "BufferAbs"}
  <2>1. Parse(w) = ParseAccess(w)
    BY <1>2 DEF Parse
  <2>2. Parse(w).type = w.type /\ Parse(w).x = w.x /\ Parse(w).y = w.y
    BY <2>1 DEF ParseAccess
  <2>3. QED
    BY <1>2, <2>2 DEF IsToken, IsWord, StackWords, Sorts
<1>3. CASE w.type \notin StackWords \cup {"ClipRel", "ClipAbs", "BufferRel", "BufferAbs"}
  <2>1. w.type # "PropStore"
    BY DEF IsWord, Binary, Unary, Ternary, Constants, StackWords, Sorts, Relative, Absolute, Bitwise2, LibraryUnary
  <2>2. Parse(w) = w
    BY <1>3, <2>1 DEF Parse, StackWords
  <2>3. QED
    BY <1>3, <2>2 DEF IsToken, IsWord
<1>4. QED
  BY <1>1, <1>2, <1>3

SameSample(p) ==
    IF gpuOut[p] = Unwritten THEN cpuOut[p] = Unwritten
    ELSE gpuOut[p] # Broken /\ cpuOut[p] = Unpacked(gpuOut[p])
AgreeInv ==
    /\ cpu \in Seq(Int) /\ gpu \in Seq(Texts) /\ Matches(gpu, cpu, gpuVars) /\ Len(cpu) = depth
    /\ \A i \in 1 .. Len(cpu) : cpu[i] \in Explored
    /\ cpuVars \in [Variables -> Int] /\ gpuVars = cpuVars
    /\ gpuArray = cpuArray
    /\ cpuOut \in [Pixels -> Int] /\ gpuOut \in [Pixels -> Int]
    /\ \A p \in Pixels : SameSample(p)

\* A word that the expression may take now, and what must come of it.
Ready(t) ==
    /\ PlaceInv /\ AgreeInv /\ phase = "words" /\ Known \subseteq Excluded
    /\ IsToken(t) /\ Meaningful(t)
    /\ \A i \in 1 .. Len(StackCpu(t)) : StackCpu(t)[i] \in Explored
Simulated(t, vars) ==
    /\ StackCpu(t) \in Seq(Int) /\ StackGlsl(t) \in Seq(Texts)
    /\ Len(StackCpu(t)) = depth + Behavior(t).effect
    /\ Matches(StackGlsl(t), StackCpu(t), vars)

\* Operands there are.
LEMMA Operands ==
    ASSUME NEW t, Ready(t), Behavior(t).arity \in Nat
    PROVE  Behavior(t).arity \in 0 .. Len(cpu) /\ Len(gpu) = Len(cpu) /\ Len(cpu) \in Nat
<1>1. cpu \in Seq(Int) /\ Len(gpu) = Len(cpu) /\ Len(cpu) = depth
  BY DEF Ready, AgreeInv, Matches
<1>2. Behavior(t).arity <= depth
  BY DEF Ready, Meaningful
<1>3. QED
  BY <1>1, <1>2

\* A word that replaces k values by one.
LEMMA Replaces ==
    ASSUME NEW t, Ready(t), NEW k \in 0 .. Len(cpu), NEW v, NEW e,
           StackCpu(t) = Append(Below(cpu, k), v), StackGlsl(t) = Append(Below(gpu, k), e),
           v \in Int => e \in Texts /\ Stands(e, gpuVars) = v,
           Behavior(t).effect = 1 - k
    PROVE  Simulated(t, gpuVars)
<1>1. cpu \in Seq(Int) /\ gpu \in Seq(Texts) /\ Matches(gpu, cpu, gpuVars) /\ Len(gpu) = Len(cpu) /\ Len(cpu) = depth
  BY DEF Ready, AgreeInv, Matches
<1>2. Below(cpu, k) \in Seq(Int) /\ Below(gpu, k) \in Seq(Texts) /\ Len(Below(cpu, k)) = Len(cpu) - k
  BY <1>1, Parts
<1>3. Matches(Below(gpu, k), Below(cpu, k), gpuVars)
  BY <1>1, BelowMatches
<1>4. v \in Int
  BY <1>2, PushedNumber DEF Ready
<1>5. /\ Append(Below(gpu, k), e) \in Seq(Texts) /\ Append(Below(cpu, k), v) \in Seq(Int)
      /\ Len(Append(Below(cpu, k), v)) = Len(Below(cpu, k)) + 1
      /\ Matches(Append(Below(gpu, k), e), Append(Below(cpu, k), v), gpuVars)
  BY <1>2, <1>3, <1>4, PushMatches
<1>6. QED
  BY <1>1, <1>2, <1>5 DEF Simulated

\* A word that pushes one.
LEMMA Pushed ==
    ASSUME NEW t, Ready(t), NEW v, NEW e,
           StackCpu(t) = Append(cpu, v), StackGlsl(t) = Append(gpu, e),
           v \in Int => e \in Texts /\ Stands(e, gpuVars) = v,
           Behavior(t).effect = 1
    PROVE  Simulated(t, gpuVars)
<1>1. cpu \in Seq(Int) /\ gpu \in Seq(Texts) /\ Matches(gpu, cpu, gpuVars) /\ Len(gpu) = Len(cpu) /\ Len(cpu) = depth
  BY DEF Ready, AgreeInv, Matches
<1>2. v \in Int
  BY <1>1, PushedNumber DEF Ready
<1>3. /\ Append(gpu, e) \in Seq(Texts) /\ Append(cpu, v) \in Seq(Int)
      /\ Len(Append(cpu, v)) = Len(cpu) + 1 /\ Matches(Append(gpu, e), Append(cpu, v), gpuVars)
  BY <1>1, <1>2, PushMatches
<1>4. QED
  BY <1>1, <1>3 DEF Simulated

\* A word that replaces k values by a row of them.
LEMMA Rearranged ==
    ASSUME NEW t, Ready(t), NEW k \in 0 .. Len(cpu), NEW n \in Nat, NEW f, NEW g,
           f = [i \in 1 .. n |-> f[i]],
           StackCpu(t) = Below(cpu, k) \o f, StackGlsl(t) = Below(gpu, k) \o g,
           f \in Seq(Int) => g \in Seq(Texts) /\ Matches(g, f, gpuVars),
           Behavior(t).effect = n - k
    PROVE  Simulated(t, gpuVars)
<1>1. cpu \in Seq(Int) /\ gpu \in Seq(Texts) /\ Matches(gpu, cpu, gpuVars) /\ Len(gpu) = Len(cpu) /\ Len(cpu) = depth
  BY DEF Ready, AgreeInv, Matches
<1>2. Below(cpu, k) \in Seq(Int) /\ Below(gpu, k) \in Seq(Texts) /\ Len(Below(cpu, k)) = Len(cpu) - k
  BY <1>1, Parts
<1>3. Matches(Below(gpu, k), Below(cpu, k), gpuVars)
  BY <1>1, BelowMatches
<1>4. f \in Seq(Int) /\ Len(f) = n
  BY <1>2, JoinedNumbers DEF Ready
<1>5. /\ Below(gpu, k) \o g \in Seq(Texts) /\ Below(cpu, k) \o f \in Seq(Int)
      /\ Len(Below(cpu, k) \o f) = Len(Below(cpu, k)) + Len(f)
      /\ Matches(Below(gpu, k) \o g, Below(cpu, k) \o f, gpuVars)
  BY <1>2, <1>3, <1>4, JoinMatches
<1>6. QED
  BY <1>1, <1>2, <1>4, <1>5 DEF Simulated

\* A word that takes k values away.
LEMMA Removed ==
    ASSUME NEW t, Ready(t), NEW k \in 0 .. Len(cpu),
           StackCpu(t) = Below(cpu, k), StackGlsl(t) = Below(gpu, k), Behavior(t).effect = 0 - k
    PROVE  Simulated(t, gpuVars)
<1>1. cpu \in Seq(Int) /\ gpu \in Seq(Texts) /\ Matches(gpu, cpu, gpuVars) /\ Len(gpu) = Len(cpu) /\ Len(cpu) = depth
  BY DEF Ready, AgreeInv, Matches
<1>2. Below(cpu, k) \in Seq(Int) /\ Below(gpu, k) \in Seq(Texts) /\ Len(Below(cpu, k)) = Len(cpu) - k
  BY <1>1, Parts
<1>3. Matches(Below(gpu, k), Below(cpu, k), gpuVars)
  BY <1>1, BelowMatches
<1>4. QED
  BY <1>1, <1>2, <1>3 DEF Simulated

LEMMA Untouched ==
    ASSUME NEW t, Ready(t), StackCpu(t) = cpu, StackGlsl(t) = gpu, Behavior(t).effect = 0
    PROVE  Simulated(t, gpuVars)
BY DEF Ready, AgreeInv, Simulated

NotCaused(t) ==
    LET args == Top(cpu, Behavior(t).arity) IN
    /\ ~RejectedByGlsl(t)
    /\ t.type \in {"Mod", "Copysign"} => CpuCompute(t.type, args) = GlslCompute(t.type, args)
    /\ t.type \in Bitwise2 \cup {"Bitnot"} => \A i \in 1 .. Len(args) : RoundEven(args[i]) = RoundAway(args[i])
    /\ t.type = "VarStore" /\ Contains(Below(gpu, 1), Name(t.name)) => cpuVars[t.name] = cpu[Len(cpu)]

LEMMA NoCause == ASSUME NEW t, Ready(t) PROVE NotCaused(t)
<1>1. Causes(t) \cap Excluded = {} /\ Known \subseteq Excluded
  BY DEF Ready, Meaningful
<1>2. \A c \in Known : c \notin Causes(t)
  BY <1>1
<1>3. "alias" \notin Causes(t) /\ "literal" \notin Causes(t) /\ "Mod" \notin Causes(t) /\ "Copysign" \notin Causes(t)
      /\ "halves" \notin Causes(t)
  BY <1>2 DEF Known
<1>4. QED
  BY <1>3 DEF NotCaused, Causes

Computing == Binary \cup Unary \cup Ternary
Count(t) == IF t.type \in Binary THEN 2 ELSE IF t.type \in Unary THEN 1 ELSE 3

\* The words of the rows of the tables that name single types: no type is in two rows.
PlainPushes == {"Number", "VarLoad", "ClipCur", "ClipRel", "PropAccess", "PropExists", "BufferCur", "BufferRel", "ExitNoWrite"}
Singles == {"ArrayLoad", "ClipAbs", "BufferAbs", "ClipAbsPlane", "StoreAbs", "StoreAbsPlane", "Jump", "VarStore",
            "ArrayAllocDyn", "LabelDef", "ArrayAllocStatic", "ArrayStore", "Dup", "Drop", "Swap", "SortN", "ArgsortN",
            "ArgminN", "ArgmaxN", "PropStore"}
LEMMA TypesApart ==
    ASSUME NEW type
    PROVE  /\ type \in Binary => type \notin Unary \cup Ternary \cup Constants \cup PlaneConstants \cup PlainPushes \cup Singles
           /\ type \in Unary => type \notin Binary \cup Ternary \cup Constants \cup PlaneConstants \cup PlainPushes \cup Singles
           /\ type \in Ternary => type \notin Binary \cup Unary \cup Constants \cup PlaneConstants \cup PlainPushes \cup Singles
           /\ type \in Constants => type \notin Binary \cup Unary \cup Ternary \cup PlaneConstants \cup PlainPushes \cup Singles
           /\ type \in PlainPushes => type \notin Binary \cup Unary \cup Ternary \cup Constants \cup PlaneConstants \cup Singles
           /\ type \in Singles => type \notin Binary \cup Unary \cup Ternary \cup Constants \cup PlaneConstants \cup PlainPushes
<1> USE DEF Binary, Bitwise2, Unary, LibraryUnary, Ternary, Constants, PlaneConstants, PlainPushes, Singles
<1>1. ASSUME type \in Binary PROVE type \notin Unary \cup Ternary \cup Constants \cup PlaneConstants \cup PlainPushes \cup Singles
  BY <1>1
<1>2. ASSUME type \in Unary PROVE type \notin Binary \cup Ternary \cup Constants \cup PlaneConstants \cup PlainPushes \cup Singles
  BY <1>2
<1>3. ASSUME type \in Ternary PROVE type \notin Binary \cup Unary \cup Constants \cup PlaneConstants \cup PlainPushes \cup Singles
  BY <1>3
<1>4. ASSUME type \in Constants PROVE type \notin Binary \cup Unary \cup Ternary \cup PlaneConstants \cup PlainPushes \cup Singles
  BY <1>4
<1>5. ASSUME type \in PlainPushes PROVE type \notin Binary \cup Unary \cup Ternary \cup Constants \cup PlaneConstants \cup Singles
  BY <1>5
<1>6. ASSUME type \in Singles PROVE type \notin Binary \cup Unary \cup Ternary \cup Constants \cup PlaneConstants \cup PlainPushes
  BY <1>6
<1> HIDE DEF Binary, Bitwise2, Unary, LibraryUnary, Ternary, Constants, PlaneConstants, PlainPushes, Singles
<1>7. QED
  BY <1>1, <1>2, <1>3, <1>4, <1>5, <1>6

LEMMA ComputingFacts ==
    ASSUME NEW t, t.type \in Computing
    PROVE  /\ StackCpu(t) = Append(Below(cpu, Count(t)), CpuCompute(t.type, Top(cpu, Count(t))))
           /\ StackGlsl(t) = Append(Below(gpu, Count(t)), Value(IF RejectedByGlsl(t) THEN Broken
                                                         ELSE GlslCompute(t.type, ReadAll(Top(gpu, Count(t))))))
           /\ Behavior(t).arity = Count(t) /\ Behavior(t).effect = 1 - Count(t) /\ Count(t) \in Nat
<1> DEFINE cpuBy(k) == Append(Below(cpu, k), CpuCompute(t.type, Top(cpu, k)))
           gpuBy(k) == Append(Below(gpu, k), Value(IF RejectedByGlsl(t) THEN Broken
                                                   ELSE GlslCompute(t.type, ReadAll(Top(gpu, k)))))
<1>1. CASE t.type \in Binary
  <2>1. Behavior(t) = [arity |-> 2, effect |-> -1]
    BY <1>1, TypesApart DEF Behavior, Pushes, PlainPushes, Singles
  <2>2. StackCpu(t) = cpuBy(2)
    BY <1>1, TypesApart DEF StackCpu, PlainPushes, Singles, Relative, Absolute, StackWords, Sorts
  <2>3. StackGlsl(t) = gpuBy(2)
    BY <1>1, TypesApart DEF StackGlsl, PlainPushes, Singles, Relative, Absolute, StackWords, Sorts
  <2>4. Count(t) = 2
    BY <1>1 DEF Count
  <2> HIDE DEF cpuBy, gpuBy
  <2>5. StackCpu(t) = cpuBy(Count(t)) /\ StackGlsl(t) = gpuBy(Count(t))
    BY <2>2, <2>3, <2>4
  <2>6. Behavior(t).arity = Count(t) /\ Behavior(t).effect = 1 - Count(t) /\ Count(t) \in Nat
    BY <2>1, <2>4
  <2>7. QED
    BY <2>5, <2>6 DEF cpuBy, gpuBy
<1>2. CASE t.type \in Unary
  <2>1. Behavior(t) = [arity |-> 1, effect |-> 0]
    BY <1>2, TypesApart DEF Behavior, Pushes, PlainPushes, Singles
  <2>2. StackCpu(t) = cpuBy(1)
    BY <1>2, TypesApart DEF StackCpu, PlainPushes, Singles, Relative, Absolute, StackWords, Sorts
  <2>3. StackGlsl(t) = gpuBy(1)
    BY <1>2, TypesApart DEF StackGlsl, PlainPushes, Singles, Relative, Absolute, StackWords, Sorts
  <2>4. Count(t) = 1
    BY <1>2, TypesApart DEF Count
  <2> HIDE DEF cpuBy, gpuBy
  <2>5. StackCpu(t) = cpuBy(Count(t)) /\ StackGlsl(t) = gpuBy(Count(t))
    BY <2>2, <2>3, <2>4
  <2>6. Behavior(t).arity = Count(t) /\ Behavior(t).effect = 1 - Count(t) /\ Count(t) \in Nat
    BY <2>1, <2>4
  <2>7. QED
    BY <2>5, <2>6 DEF cpuBy, gpuBy
<1>3. CASE t.type \in Ternary
  <2>1. Behavior(t) = [arity |-> 3, effect |-> -2]
    BY <1>3, TypesApart DEF Behavior, Pushes, PlainPushes, Singles
  <2>2. StackCpu(t) = cpuBy(3)
    BY <1>3, TypesApart DEF StackCpu, PlainPushes, Singles, Relative, Absolute, StackWords, Sorts
  <2>3. StackGlsl(t) = gpuBy(3)
    BY <1>3, TypesApart DEF StackGlsl, PlainPushes, Singles, Relative, Absolute, StackWords, Sorts
  <2>4. Count(t) = 3
    BY <1>3, TypesApart DEF Count
  <2> HIDE DEF cpuBy, gpuBy
  <2>5. StackCpu(t) = cpuBy(Count(t)) /\ StackGlsl(t) = gpuBy(Count(t))
    BY <2>2, <2>3, <2>4
  <2>6. Behavior(t).arity = Count(t) /\ Behavior(t).effect = 1 - Count(t) /\ Count(t) \in Nat
    BY <2>1, <2>4
  <2>7. QED
    BY <2>5, <2>6 DEF cpuBy, gpuBy
<1>4. QED
  BY <1>1, <1>2, <1>3 DEF Computing

LEMMA ComputingWord == ASSUME NEW t, Ready(t), t.type \in Computing PROVE Simulated(t, gpuVars)
<1>1. Count(t) \in 0 .. Len(cpu) /\ cpu \in Seq(Int) /\ gpu \in Seq(Texts) /\ Matches(gpu, cpu, gpuVars)
  BY ComputingFacts, Operands DEF Ready, AgreeInv
<1> DEFINE args == Top(cpu, Count(t))
<1>2. args \in Seq(Int) /\ Len(args) = Count(t) /\ ReadAll(Top(gpu, Count(t))) = args
  BY <1>1, Parts, ReadsMatch
<1>3. /\ ~RejectedByGlsl(t)
      /\ t.type \in {"Mod", "Copysign"} => CpuCompute(t.type, args) = GlslCompute(t.type, args)
      /\ t.type \in Bitwise2 \cup {"Bitnot"} => \A i \in 1 .. Len(args) : RoundEven(args[i]) = RoundAway(args[i])
  BY ComputingFacts, NoCause DEF NotCaused
<1> HIDE DEF args
<1>4. CpuCompute(t.type, args) = GlslCompute(t.type, args)
  BY <1>2, <1>3, ComputeAgrees DEF Count, Computing
<1> DEFINE v == CpuCompute(t.type, args)
<1>5. StackCpu(t) = Append(Below(cpu, Count(t)), v) /\ StackGlsl(t) = Append(Below(gpu, Count(t)), Value(v))
  BY <1>2, <1>3, <1>4, ComputingFacts DEF args
<1> HIDE DEF v
<1>6. v \in Int => Value(v) \in Texts /\ Stands(Value(v), gpuVars) = v
  BY TextFacts
<1>7. QED
  BY <1>1, <1>5, <1>6, Replaces, ComputingFacts

Pushing == Constants \cup Relative \cup {"Number", "VarLoad", "ExitNoWrite", "PropAccess", "PropExists"}
CpuPush(t) ==
    CASE t.type \in Constants -> ConstantCpu(t)
      [] t.type = "Number" -> t.value
      [] t.type = "VarLoad" -> cpuVars[t.name]
      [] t.type \in Relative -> AccessCpu(t, <<>>)
      [] t.type = "ExitNoWrite" -> Exit
      [] t.type = "PropAccess" -> PropValue
      [] t.type = "PropExists" -> Truth(hasProp)
GlslPush(t) ==
    CASE t.type \in Constants -> Literal(ConstantGlsl(t))
      [] t.type = "Number" -> Literal(t.value)
      [] t.type = "VarLoad" -> Name(t.name)
      [] t.type \in Relative -> Value(AccessGlsl(t, <<>>))
      [] t.type = "ExitNoWrite" -> Literal(Exit)
      [] t.type = "PropAccess" -> Value(PropValue)
      [] t.type = "PropExists" -> Value(Truth(hasProp))

LEMMA PushingFacts ==
    ASSUME NEW t, t.type \in Pushing
    PROVE  /\ StackCpu(t) = Append(cpu, CpuPush(t)) /\ StackGlsl(t) = Append(gpu, GlslPush(t))
           /\ Behavior(t).arity = 0 /\ Behavior(t).effect = 1
<1>1. t.type \in Constants \/ t.type \in PlainPushes
  BY DEF Pushing, PlainPushes, Relative
<1>2. Behavior(t) = [arity |-> 0, effect |-> 1]
  BY <1>1, TypesApart DEF Behavior, Pushes, PlainPushes, Singles
<1>3. StackCpu(t) = Append(cpu, CpuPush(t))
  <2>1. CASE t.type \in Constants
    BY <2>1, TypesApart DEF StackCpu, CpuPush, PlainPushes, Singles, Relative, Absolute, StackWords, Sorts
  <2>2. CASE t.type \in PlainPushes
    BY <1>1, <2>2, TypesApart DEF StackCpu, CpuPush, PlainPushes, Singles, Relative, Absolute, StackWords, Sorts, Pushing
  <2>3. QED
    BY <1>1, <2>1, <2>2
<1>4. StackGlsl(t) = Append(gpu, GlslPush(t))
  <2>1. CASE t.type \in Constants
    BY <2>1, TypesApart DEF StackGlsl, GlslPush, PlainPushes, Singles, Relative, Absolute, StackWords, Sorts
  <2>2. CASE t.type \in PlainPushes
    BY <1>1, <2>2, TypesApart DEF StackGlsl, GlslPush, PlainPushes, Singles, Relative, Absolute, StackWords, Sorts, Pushing
  <2>3. QED
    BY <1>1, <2>1, <2>2
<1>5. QED
  BY <1>2, <1>3, <1>4

LEMMA PushingWord == ASSUME NEW t, Ready(t), t.type \in Pushing PROVE Simulated(t, gpuVars)
<1>0. PlaceInv /\ phase = "words" /\ IsToken(t) /\ gpuVars = cpuVars
  BY DEF Ready, AgreeInv
<1>1. CASE t.type \in Constants
  <2>1. ConstantGlsl(t) = ConstantCpu(t)
    BY <1>0, <1>1, ThisInvocation DEF ConstantGlsl, ConstantCpu
  <2>2. CpuPush(t) = ConstantCpu(t) /\ GlslPush(t) = Literal(ConstantCpu(t))
    BY <1>1, <2>1, TypesApart DEF CpuPush, GlslPush, PlainPushes, Relative
  <2>3. QED
    BY <2>2, TextFacts, Pushed, PushingFacts
<1>2. CASE t.type = "VarLoad"
  <2>1. CpuPush(t) = cpuVars[t.name] /\ GlslPush(t) = Name(t.name) /\ t.name \in Variables
    BY <1>0, <1>2 DEF CpuPush, GlslPush, Constants, Relative, IsToken
  <2>2. QED
    BY <1>0, <2>1, TextFacts, Pushed, PushingFacts
<1>3. CASE t.type \in Relative
  <2>1. t.type \in {"ClipRel", "BufferRel"} => t.x \in geo.minX .. geo.maxX /\ t.y \in Int
    BY <1>0 DEF Ready, Meaningful, IsToken
  <2>2. t.type \notin Absolute
    BY <1>3 DEF Relative, Absolute
  <2>3. AccessGlsl(t, <<>>) = AccessCpu(t, <<>>)
    BY <1>0, <1>3, <2>1, <2>2, SamePlace DEF AccessCpu, AccessGlsl
  <2>4. CpuPush(t) = AccessCpu(t, <<>>) /\ GlslPush(t) = Value(AccessCpu(t, <<>>))
    BY <1>3, <2>3 DEF CpuPush, GlslPush, Constants, Relative
  <2>5. QED
    BY <2>4, TextFacts, Pushed, PushingFacts
<1>4. CASE t.type \in {"Number", "ExitNoWrite"}
  <2>1. GlslPush(t) = Literal(CpuPush(t))
    BY <1>4 DEF CpuPush, GlslPush, Constants, Relative
  <2>2. QED
    BY <2>1, TextFacts, Pushed, PushingFacts
<1>5. CASE t.type \in {"PropAccess", "PropExists"}
  <2>1. GlslPush(t) = Value(CpuPush(t))
    BY <1>5 DEF CpuPush, GlslPush, Constants, Relative
  <2>2. QED
    BY <2>1, TextFacts, Pushed, PushingFacts
<1>6. QED
  BY <1>1, <1>2, <1>3, <1>4, <1>5 DEF Pushing

LEMMA AbsoluteFacts ==
    ASSUME NEW t, t.type \in Absolute
    PROVE  /\ StackCpu(t) = Append(Below(cpu, 2), AccessCpu(t, Top(cpu, 2)))
           /\ StackGlsl(t) = Append(Below(gpu, 2), Value(AccessGlsl(t, ReadAll(Top(gpu, 2)))))
           /\ Behavior(t).arity = 2 /\ Behavior(t).effect = -1
<1>1. t.type \notin Binary \cup Unary \cup Ternary \cup Constants \cup StackWords \cup Sorts \cup Relative
                    \cup Pushes \cup {"ArrayLoad", "VarStore"}
  BY DEF Pushes, Binary, Unary, Ternary, Constants, PlaneConstants, StackWords, Sorts, Relative, Absolute, Bitwise2, LibraryUnary
<1>2. Behavior(t) = [arity |-> 2, effect |-> -1]
  BY <1>1 DEF Behavior, Absolute
<1>3. StackCpu(t) = Append(Below(cpu, 2), AccessCpu(t, Top(cpu, 2)))
  BY <1>1 DEF StackCpu, Absolute
<1>4. StackGlsl(t) = Append(Below(gpu, 2), Value(AccessGlsl(t, ReadAll(Top(gpu, 2)))))
  BY <1>1 DEF StackGlsl, Absolute
<1>5. QED
  BY <1>2, <1>3, <1>4

LEMMA AbsoluteWord == ASSUME NEW t, Ready(t), t.type \in Absolute PROVE Simulated(t, gpuVars)
<1>1. 2 \in 0 .. Len(cpu) /\ cpu \in Seq(Int) /\ gpu \in Seq(Texts) /\ Matches(gpu, cpu, gpuVars)
  <2>1. Behavior(t).arity = 2
    BY AbsoluteFacts
  <2>2. 2 \in 0 .. Len(cpu)
    BY <2>1, Operands
  <2>3. QED
    BY <2>2 DEF Ready, AgreeInv
<1>2. ReadAll(Top(gpu, 2)) = Top(cpu, 2) /\ Top(cpu, 2) \in Seq(Int) /\ Len(Top(cpu, 2)) = 2
  BY <1>1, ReadsMatch, Parts
<1>3. t.type \notin {"ClipRel", "BufferRel"} /\ PlaceInv /\ phase = "words"
  BY DEF Absolute, Ready
<1>4. AccessGlsl(t, Top(cpu, 2)) = AccessCpu(t, Top(cpu, 2))
  BY <1>2, <1>3, SamePlace DEF AccessCpu, AccessGlsl
<1> DEFINE v == AccessCpu(t, Top(cpu, 2))
<1>5. StackCpu(t) = Append(Below(cpu, 2), v) /\ StackGlsl(t) = Append(Below(gpu, 2), Value(v))
  BY <1>2, <1>4, AbsoluteFacts
<1> HIDE DEF v
<1>6. Behavior(t).effect = 1 - 2
  BY AbsoluteFacts
<1>7. v \in Int => Value(v) \in Texts /\ Stands(Value(v), gpuVars) = v
  BY TextFacts
<1>8. QED
  BY <1>1, <1>5, <1>6, <1>7, Replaces

LEMMA ArrayFacts ==
    ASSUME NEW t, t.type \in {"ArrayLoad", "ArrayStore", "StoreAbs", "VarStore", "ArrayAllocStatic"}
    PROVE  /\ t.type = "ArrayLoad" =>
                /\ StackCpu(t) = Append(Below(cpu, 1), cpuArray[IntegerPart(cpu[Len(cpu)])])
                /\ StackGlsl(t) = Append(Below(gpu, 1), Value(gpuArray[IntegerPart(Read(gpu[Len(gpu)]))]))
                /\ Behavior(t).arity = 1 /\ Behavior(t).effect = 0
           /\ t.type = "ArrayAllocStatic" => StackCpu(t) = cpu /\ StackGlsl(t) = gpu /\ Behavior(t).effect = 0
           /\ t.type = "ArrayStore" => /\ StackCpu(t) = Below(cpu, 2) /\ StackGlsl(t) = Below(gpu, 2)
                                       /\ Behavior(t).arity = 2 /\ Behavior(t).effect = -2
           /\ t.type = "StoreAbs" => /\ StackCpu(t) = Below(cpu, 3) /\ StackGlsl(t) = Below(gpu, 3)
                                     /\ Behavior(t).arity = 3 /\ Behavior(t).effect = -3
           /\ t.type = "VarStore" => /\ StackCpu(t) = Below(cpu, 1) /\ StackGlsl(t) = Below(gpu, 1)
                                     /\ Behavior(t).arity = 1 /\ Behavior(t).effect = -1
<1>1. t.type \notin Binary \cup Unary \cup Ternary \cup Constants \cup StackWords \cup Sorts \cup Relative \cup Absolute
                    \cup Pushes
  BY DEF Pushes, Binary, Unary, Ternary, Constants, PlaneConstants, StackWords, Sorts, Relative, Absolute, Bitwise2, LibraryUnary
<1>2. CASE t.type = "ArrayLoad"
  BY <1>1, <1>2 DEF Behavior, StackCpu, StackGlsl
<1>3. CASE t.type = "ArrayAllocStatic"
  BY <1>1, <1>3 DEF Behavior, StackCpu, StackGlsl
<1>4. CASE t.type = "ArrayStore"
  BY <1>1, <1>4 DEF Behavior, StackCpu, StackGlsl
<1>5. CASE t.type = "StoreAbs"
  BY <1>1, <1>5 DEF Behavior, StackCpu, StackGlsl
<1>6. CASE t.type = "VarStore"
  BY <1>1, <1>6 DEF Behavior, StackCpu, StackGlsl
<1>7. QED
  BY <1>2, <1>3, <1>4, <1>5, <1>6

LEMMA ArrayWord ==
    ASSUME NEW t, Ready(t), t.type \in {"ArrayLoad", "ArrayStore", "StoreAbs", "VarStore", "ArrayAllocStatic"}
    PROVE  Simulated(t, gpuVars)
<1>1. CASE t.type = "ArrayLoad"
  <2>1. 1 \in 0 .. Len(cpu) /\ Len(gpu) = Len(cpu) /\ Len(cpu) \in 1 .. Len(cpu) /\ gpuArray = cpuArray
    <3>1. Behavior(t).arity = 1
      BY <1>1, ArrayFacts
    <3>2. 1 \in 0 .. Len(cpu) /\ Len(gpu) = Len(cpu) /\ Len(cpu) \in Nat
      BY <3>1, Operands
    <3>3. QED
      BY <3>2 DEF Ready, AgreeInv
  <2>2. Read(gpu[Len(gpu)]) = cpu[Len(cpu)]
    BY <2>1 DEF Ready, AgreeInv, Matches, Stands, Read
  <2> DEFINE v == cpuArray[IntegerPart(cpu[Len(cpu)])]
  <2>3. StackCpu(t) = Append(Below(cpu, 1), v) /\ StackGlsl(t) = Append(Below(gpu, 1), Value(v))
    BY <1>1, <2>1, <2>2, ArrayFacts
  <2> HIDE DEF v
  <2>4. Behavior(t).effect = 1 - 1
    BY <1>1, ArrayFacts
  <2>5. QED
    BY <2>1, <2>3, <2>4, TextFacts, Replaces
<1>2. CASE t.type = "ArrayAllocStatic"
  BY <1>2, ArrayFacts, Untouched
<1>3. CASE t.type = "ArrayStore"
  <2>1. 2 \in 0 .. Len(cpu) /\ Behavior(t).effect = 0 - 2
    BY <1>3, ArrayFacts, Operands
  <2>2. QED
    BY <1>3, <2>1, ArrayFacts, Removed
<1>4. CASE t.type = "StoreAbs"
  <2>1. 3 \in 0 .. Len(cpu) /\ Behavior(t).effect = 0 - 3
    BY <1>4, ArrayFacts, Operands
  <2>2. QED
    BY <1>4, <2>1, ArrayFacts, Removed
<1>5. CASE t.type = "VarStore"
  <2>1. 1 \in 0 .. Len(cpu) /\ Behavior(t).effect = 0 - 1
    BY <1>5, ArrayFacts, Operands
  <2>2. QED
    BY <1>5, <2>1, ArrayFacts, Removed
<1>6. QED
  BY <1>1, <1>2, <1>3, <1>4, <1>5

LEMMA MoveFacts ==
    ASSUME NEW t, t.type \in StackWords
    PROVE  /\ StackCpu(t) = MoveWords(t, cpu) /\ StackGlsl(t) = MoveWords(t, gpu)
           /\ t.type = "Dup" => Behavior(t).arity = t.n + 1 /\ Behavior(t).effect = 1
           /\ t.type = "Drop" => Behavior(t).arity = t.n /\ Behavior(t).effect = 0 - t.n
           /\ t.type = "Swap" => Behavior(t).arity = t.n + 1 /\ Behavior(t).effect = 0
<1>1. t.type \in {"Dup", "Drop", "Swap"}
  BY DEF StackWords
<1>2. StackCpu(t) = MoveWords(t, cpu)
  BY <1>1, TypesApart DEF StackCpu, PlainPushes, Singles, Relative, Absolute, StackWords, Sorts
<1>3. StackGlsl(t) = MoveWords(t, gpu)
  BY <1>1, TypesApart DEF StackGlsl, PlainPushes, Singles, Relative, Absolute, StackWords, Sorts
<1>4. ASSUME t.type = "Dup" PROVE Behavior(t) = [arity |-> t.n + 1, effect |-> 1]
  BY <1>4, TypesApart DEF Behavior, Pushes, PlainPushes, Singles
<1>5. ASSUME t.type = "Drop" PROVE Behavior(t) = [arity |-> t.n, effect |-> 0 - t.n]
  BY <1>5, TypesApart DEF Behavior, Pushes, PlainPushes, Singles
<1>6. ASSUME t.type = "Swap" PROVE Behavior(t) = [arity |-> t.n + 1, effect |-> 0]
  BY <1>6, TypesApart DEF Behavior, Pushes, PlainPushes, Singles
<1>7. QED
  BY <1>2, <1>3, <1>4, <1>5, <1>6

LEMMA MovingWord == ASSUME NEW t, Ready(t), t.type \in StackWords PROVE Simulated(t, gpuVars)
<1>1. /\ cpu \in Seq(Int) /\ gpu \in Seq(Texts) /\ Matches(gpu, cpu, gpuVars) /\ Len(gpu) = Len(cpu)
      /\ Len(cpu) = depth /\ t.n \in Nat
  BY DEF Ready, AgreeInv, Matches, IsToken
<1>2. CASE t.type = "Dup"
  <2>1. t.n + 1 \in 0 .. Len(cpu)
    BY <1>1, <1>2, MoveFacts, Operands
  <2>2. Len(cpu) - t.n \in 1 .. Len(cpu)
    BY <1>1, <2>1
  <2>3. StackCpu(t) = Append(cpu, cpu[Len(cpu) - t.n]) /\ StackGlsl(t) = Append(gpu, gpu[Len(cpu) - t.n])
    BY <1>1, <1>2, MoveFacts DEF MoveWords
  <2>4. gpu[Len(cpu) - t.n] \in Texts /\ Stands(gpu[Len(cpu) - t.n], gpuVars) = cpu[Len(cpu) - t.n]
    BY <1>1, <2>2 DEF Matches
  <2>5. QED
    BY <1>2, <2>3, <2>4, Pushed, MoveFacts
<1>3. CASE t.type = "Drop"
  <2>1. t.n \in 0 .. Len(cpu)
    BY <1>1, <1>3, MoveFacts, Operands
  <2>2. CASE t.n > 0
    <3>1. StackCpu(t) = Below(cpu, t.n) /\ StackGlsl(t) = Below(gpu, t.n)
      BY <1>3, <2>2, MoveFacts DEF MoveWords
    <3>2. QED
      BY <1>3, <2>1, <3>1, Removed, MoveFacts
  <2>3. CASE ~(t.n > 0)
    <3>1. StackCpu(t) = cpu /\ StackGlsl(t) = gpu /\ Behavior(t).effect = 0
      BY <1>1, <1>3, <2>3, MoveFacts DEF MoveWords
    <3>2. QED
      BY <3>1, Untouched
  <2>4. QED
    BY <2>2, <2>3
<1>4. CASE t.type = "Swap"
  <2>1. t.n + 1 \in 0 .. Len(cpu)
    BY <1>1, <1>4, MoveFacts, Operands
  <2> DEFINE n == Len(cpu)
             m == Len(cpu) - t.n
  <2>2. n \in 1 .. n /\ m \in 1 .. n /\ n \in Nat
    BY <1>1, <2>1
  <2>3. StackCpu(t) = [cpu EXCEPT ![n] = cpu[m], ![m] = cpu[n]] /\ StackGlsl(t) = [gpu EXCEPT ![n] = gpu[m], ![m] = gpu[n]]
    BY <1>1, <1>4, MoveFacts DEF MoveWords
  <2>4. cpu \in [1 .. n -> Int] /\ gpu \in [1 .. n -> Texts]
    BY <1>1
  <2> HIDE DEF n, m
  <2>5. /\ StackCpu(t) \in [1 .. n -> Int] /\ StackGlsl(t) \in [1 .. n -> Texts]
        /\ \A i \in 1 .. n : StackCpu(t)[i] = IF i = m THEN cpu[n] ELSE IF i = n THEN cpu[m] ELSE cpu[i]
        /\ \A i \in 1 .. n : StackGlsl(t)[i] = IF i = m THEN gpu[n] ELSE IF i = n THEN gpu[m] ELSE gpu[i]
    BY <2>2, <2>3, <2>4
  <2>6. \A i \in 1 .. n : Stands(gpu[i], gpuVars) = cpu[i]
    BY <1>1 DEF Matches, n
  <2>7. \A i \in 1 .. n : Stands(StackGlsl(t)[i], gpuVars) = StackCpu(t)[i]
    BY <2>2, <2>5, <2>6
  <2>8. /\ StackCpu(t) \in Seq(Int) /\ StackGlsl(t) \in Seq(Texts) /\ Len(StackCpu(t)) = n /\ Len(StackGlsl(t)) = n
    BY <2>2, <2>5
  <2>9. n = depth /\ Behavior(t).effect = 0
    BY <1>1, <1>4, MoveFacts DEF n
  <2>10. QED
    BY <2>2, <2>7, <2>8, <2>9 DEF Simulated, Matches
<1>5. QED
  BY <1>2, <1>3, <1>4 DEF StackWords

SortedRow(s, n) == [i \in 1 .. n |-> Index(Reverse(ArgSorted(s))[i])]
LEMMA SortFacts ==
    ASSUME NEW t, t.type \in Sorts
    PROVE  /\ t.type = "SortN" =>
                /\ StackCpu(t) = IF t.n < 2 THEN cpu ELSE Below(cpu, t.n) \o Reverse(Through("select", Popped(cpu, t.n)))
                /\ StackGlsl(t) = IF t.n < 2 THEN gpu
                                  ELSE Below(gpu, t.n) \o Reverse(ValuesOf(Through("minmax", ReadAll(Popped(gpu, t.n)))))
                /\ Behavior(t).arity = t.n /\ Behavior(t).effect = 0
           /\ t.type \in {"ArgminN", "ArgmaxN"} =>
                /\ StackCpu(t) = IF t.n < 1 THEN Append(cpu, 0)
                                 ELSE Append(Below(cpu, t.n), Index(Winner(Popped(cpu, t.n), t.type = "ArgmaxN")))
                /\ StackGlsl(t) = IF t.n < 1 THEN Append(gpu, Literal(0))
                                  ELSE Append(Below(gpu, t.n),
                                              Value(Index(Winner(ReadAll(Popped(gpu, t.n)), t.type = "ArgmaxN"))))
                /\ Behavior(t).arity = t.n /\ Behavior(t).effect = 1 - t.n
           /\ t.type = "ArgsortN" =>
                /\ StackCpu(t) = IF t.n < 1 THEN cpu ELSE IF t.n = 1 THEN Append(Below(cpu, 1), 0)
                                 ELSE Below(cpu, t.n) \o SortedRow(Popped(cpu, t.n), t.n)
                /\ StackGlsl(t) = IF t.n < 1 THEN gpu ELSE IF t.n = 1 THEN Append(Below(gpu, 1), Literal(0))
                                  ELSE Below(gpu, t.n) \o
                                       [i \in 1 .. t.n |-> Value(SortedRow(ReadAll(Popped(gpu, t.n)), t.n)[i])]
                /\ Behavior(t).arity = t.n /\ Behavior(t).effect = 0
<1>1. t.type \in {"SortN", "ArgminN", "ArgmaxN", "ArgsortN"}
  BY DEF Sorts
<1>2. CASE t.type = "SortN"
  <2>1. Behavior(t) = [arity |-> t.n, effect |-> 0]
    BY <1>2, TypesApart DEF Behavior, Pushes, PlainPushes, Singles
  <2>2. StackCpu(t) = IF t.n < 2 THEN cpu ELSE Below(cpu, t.n) \o Reverse(Through("select", Popped(cpu, t.n)))
    BY <1>2, TypesApart DEF StackCpu, PlainPushes, Singles, Relative, Absolute, StackWords, Sorts
  <2>3. StackGlsl(t) = IF t.n < 2 THEN gpu
                       ELSE Below(gpu, t.n) \o Reverse(ValuesOf(Through("minmax", ReadAll(Popped(gpu, t.n)))))
    BY <1>2, TypesApart DEF StackGlsl, PlainPushes, Singles, Relative, Absolute, StackWords, Sorts
  <2>4. QED
    BY <1>2, <2>1, <2>2, <2>3
<1>3. CASE t.type \in {"ArgminN", "ArgmaxN"}
  <2>1. Behavior(t) = [arity |-> t.n, effect |-> 1 - t.n]
    BY <1>3, TypesApart DEF Behavior, Pushes, PlainPushes, Singles
  <2>2. StackCpu(t) = IF t.n < 1 THEN Append(cpu, 0)
                      ELSE Append(Below(cpu, t.n), Index(Winner(Popped(cpu, t.n), t.type = "ArgmaxN")))
    BY <1>3, TypesApart DEF StackCpu, PlainPushes, Singles, Relative, Absolute, StackWords, Sorts
  <2>3. StackGlsl(t) = IF t.n < 1 THEN Append(gpu, Literal(0))
                       ELSE Append(Below(gpu, t.n),
                                   Value(Index(Winner(ReadAll(Popped(gpu, t.n)), t.type = "ArgmaxN"))))
    BY <1>3, TypesApart DEF StackGlsl, PlainPushes, Singles, Relative, Absolute, StackWords, Sorts
  <2>4. QED
    BY <1>3, <2>1, <2>2, <2>3
<1>4. CASE t.type = "ArgsortN"
  <2>1. Behavior(t) = [arity |-> t.n, effect |-> 0]
    BY <1>4, TypesApart DEF Behavior, Pushes, PlainPushes, Singles
  <2>2. StackCpu(t) = IF t.n < 1 THEN cpu ELSE IF t.n = 1 THEN Append(Below(cpu, 1), 0)
                      ELSE Below(cpu, t.n) \o [i \in 1 .. t.n |-> Index(Reverse(ArgSorted(Popped(cpu, t.n)))[i])]
    BY <1>4, TypesApart DEF StackCpu, PlainPushes, Singles, Relative, Absolute, StackWords, Sorts
  <2>3. StackGlsl(t) = IF t.n < 1 THEN gpu ELSE IF t.n = 1 THEN Append(Below(gpu, 1), Literal(0))
                       ELSE Below(gpu, t.n) \o
                            [i \in 1 .. t.n |-> Value(Index(Reverse(ArgSorted(ReadAll(Popped(gpu, t.n))))[i]))]
    BY <1>4, TypesApart DEF StackGlsl, PlainPushes, Singles, Relative, Absolute, StackWords, Sorts
  <2>4. [i \in 1 .. t.n |-> Value(SortedRow(ReadAll(Popped(gpu, t.n)), t.n)[i])]
        = [i \in 1 .. t.n |-> Value(Index(Reverse(ArgSorted(ReadAll(Popped(gpu, t.n))))[i]))]
    BY DEF SortedRow
  <2>5. SortedRow(Popped(cpu, t.n), t.n) = [i \in 1 .. t.n |-> Index(Reverse(ArgSorted(Popped(cpu, t.n)))[i])]
    BY DEF SortedRow
  <2>6. StackCpu(t) = IF t.n < 1 THEN cpu ELSE IF t.n = 1 THEN Append(Below(cpu, 1), 0)
                      ELSE Below(cpu, t.n) \o SortedRow(Popped(cpu, t.n), t.n)
    BY <2>2, <2>5
  <2>7. StackGlsl(t) = IF t.n < 1 THEN gpu ELSE IF t.n = 1 THEN Append(Below(gpu, 1), Literal(0))
                       ELSE Below(gpu, t.n) \o
                            [i \in 1 .. t.n |-> Value(SortedRow(ReadAll(Popped(gpu, t.n)), t.n)[i])]
    BY <2>3, <2>4
  <2>8. Behavior(t).arity = t.n /\ Behavior(t).effect = 0
    BY <2>1
  <2>9. t.type # "SortN" /\ t.type \notin {"ArgminN", "ArgmaxN"}
    BY <1>4
  <2>10. QED
    BY <2>6, <2>7, <2>8, <2>9
<1>5. QED
  BY <1>1, <1>2, <1>3, <1>4

LEMMA RowIsSeq ==
    ASSUME NEW S, NEW n \in Nat, NEW f \in [1 .. n -> S]
    PROVE  f \in Seq(S) /\ Len(f) = n
OBVIOUS

LEMMA SortingWord == ASSUME NEW t, Ready(t), t.type \in Sorts PROVE Simulated(t, gpuVars)
<1>1. /\ cpu \in Seq(Int) /\ gpu \in Seq(Texts) /\ Matches(gpu, cpu, gpuVars)
      /\ t.n \in 0 .. LargestNetwork /\ t.n \in Nat
  BY DEF Ready, AgreeInv, IsToken, LargestNetwork
<1>2. t.n \in 0 .. Len(cpu)
  BY <1>1, SortFacts, Operands DEF Sorts
<1> DEFINE v == Popped(cpu, t.n)
<1>3. ReadAll(Popped(gpu, t.n)) = v /\ v \in Seq(Int) /\ Len(v) = t.n
  <2>1. Top(cpu, t.n) \in Seq(Int) /\ Len(Top(cpu, t.n)) = t.n
    BY <1>1, <1>2, Parts
  <2>2. QED
    BY <1>1, <1>2, <2>1, ReadsMatch, Reversed DEF Popped
<1> HIDE DEF v
<1>4. CASE t.type = "SortN"
  <2>1. CASE t.n < 2
    BY <1>4, <2>1, SortFacts, Untouched
  <2>2. CASE ~(t.n < 2)
    <3> DEFINE r == Through("select", v)
               f == Reverse(r)
               g == Reverse(ValuesOf(r))
    <3>1. Len(v) \in 1 .. LargestNetwork
      BY <1>1, <1>3, <2>2 DEF LargestNetwork
    <3>2. Through("minmax", v) = r /\ r \in [1 .. t.n -> Int]
      BY <1>3, <3>1, SortsAgree
    <3>3. StackCpu(t) = Below(cpu, t.n) \o f /\ StackGlsl(t) = Below(gpu, t.n) \o g
      BY <1>3, <1>4, <2>2, <3>2, SortFacts DEF v
    <3> HIDE DEF r
    <3>4. r \in Seq(Int) /\ Len(r) = t.n
      BY <1>1, <3>2, RowIsSeq
    <3>5. f \in Seq(Int) /\ Len(f) = t.n /\ \A i \in 1 .. t.n : f[i] = r[t.n - i + 1]
      BY <3>4, Reversed
    <3>6. /\ ValuesOf(r) \in Seq(Texts) /\ Len(ValuesOf(r)) = t.n
          /\ \A i \in 1 .. t.n : Stands(ValuesOf(r)[i], gpuVars) = r[i]
      BY <3>4, ValuesMatch DEF Matches
    <3>7. g \in Seq(Texts) /\ Len(g) = t.n /\ \A i \in 1 .. t.n : g[i] = ValuesOf(r)[t.n - i + 1]
      BY <3>6, Reversed
    <3> HIDE DEF f, g
    <3>8. ASSUME NEW i \in 1 .. t.n PROVE Stands(g[i], gpuVars) = f[i]
      <4>1. t.n - i + 1 \in 1 .. t.n
        BY <1>1
      <4>2. g[i] = ValuesOf(r)[t.n - i + 1] /\ f[i] = r[t.n - i + 1]
        BY <3>5, <3>7
      <4>3. Stands(ValuesOf(r)[t.n - i + 1], gpuVars) = r[t.n - i + 1]
        BY <3>6, <4>1
      <4>4. QED
        BY <4>2, <4>3
    <3>9. Matches(g, f, gpuVars) /\ f = [i \in 1 .. t.n |-> f[i]]
      BY <3>5, <3>7, <3>8 DEF Matches
    <3>10. Behavior(t).effect = t.n - t.n
      BY <1>1, <1>4, SortFacts
    <3>11. QED
      BY <1>1, <1>2, <3>3, <3>7, <3>9, <3>10, Rearranged
  <2>3. QED
    BY <2>1, <2>2
<1>5. CASE t.type \in {"ArgminN", "ArgmaxN"}
  <2>1. CASE t.n < 1
    <3>1. StackCpu(t) = Append(cpu, 0) /\ StackGlsl(t) = Append(gpu, Literal(0)) /\ Behavior(t).effect = 1
      BY <1>1, <1>5, <2>1, SortFacts
    <3>2. QED
      BY <3>1, TextFacts, Pushed
  <2>2. CASE ~(t.n < 1)
    <3> DEFINE e == Index(Winner(v, t.type = "ArgmaxN"))
    <3>1. StackCpu(t) = Append(Below(cpu, t.n), e) /\ StackGlsl(t) = Append(Below(gpu, t.n), Value(e))
      BY <1>3, <1>5, <2>2, SortFacts DEF v
    <3> HIDE DEF e
    <3>2. Behavior(t).effect = 1 - t.n
      BY <1>5, SortFacts
    <3>3. QED
      BY <1>2, <3>1, <3>2, TextFacts, Replaces
  <2>3. QED
    BY <2>1, <2>2
<1>6. CASE t.type = "ArgsortN"
  <2>1. CASE t.n < 1
    BY <1>6, <2>1, SortFacts, Untouched
  <2>2. CASE t.n = 1
    <3>1. StackCpu(t) = Append(Below(cpu, 1), 0) /\ StackGlsl(t) = Append(Below(gpu, 1), Literal(0)) /\ Behavior(t).effect = 1 - 1
      BY <1>6, <2>2, SortFacts
    <3>2. QED
      BY <1>2, <2>2, <3>1, TextFacts, Replaces
  <2>3. CASE t.n > 1
    <3> DEFINE f == SortedRow(v, t.n)
               g == [i \in 1 .. t.n |-> Value(f[i])]
    <3>1. StackCpu(t) = Below(cpu, t.n) \o f /\ StackGlsl(t) = Below(gpu, t.n) \o g
      <4>1. ~(t.n < 1) /\ t.n # 1
        BY <1>1, <2>3
      <4>2. StackCpu(t) = Below(cpu, t.n) \o SortedRow(Popped(cpu, t.n), t.n)
        BY <1>6, <4>1, SortFacts
      <4>3. StackGlsl(t) = Below(gpu, t.n) \o [i \in 1 .. t.n |-> Value(SortedRow(ReadAll(Popped(gpu, t.n)), t.n)[i])]
        BY <1>6, <4>1, SortFacts
      <4>4. QED
        BY <1>3, <4>2, <4>3 DEF v
    <3>2. f = [i \in 1 .. t.n |-> f[i]]
      BY DEF SortedRow
    <3> HIDE DEF f
    <3>3. ASSUME f \in Seq(Int) PROVE g \in Seq(Texts) /\ Matches(g, f, gpuVars)
      <4>1. Len(f) = t.n
        BY <1>1, <3>2, <3>3
      <4>2. g = ValuesOf(f)
        BY <4>1 DEF ValuesOf
      <4> HIDE DEF g
      <4>3. QED
        BY <3>3, <4>2, ValuesMatch
    <3> HIDE DEF g
    <3>4. Behavior(t).effect = t.n - t.n
      BY <1>1, <1>6, SortFacts
    <3>5. QED
      BY <1>1, <1>2, <3>1, <3>2, <3>3, <3>4, Rearranged
  <2>4. QED
    BY <1>1, <2>1, <2>2, <2>3
<1>7. QED
  BY <1>4, <1>5, <1>6 DEF Sorts

\* Every word does the same to both stacks.
LEMMA EveryWord == ASSUME NEW t, Ready(t) PROVE Simulated(t, gpuVars)
<1>1. \/ t.type \in Computing \/ t.type \in Pushing \/ t.type \in Absolute \/ t.type \in StackWords \/ t.type \in Sorts
      \/ t.type \in {"ArrayLoad", "ArrayStore", "StoreAbs", "VarStore", "ArrayAllocStatic"}
  BY DEF Ready, IsToken, Computing, Pushing
<1>2. QED
  BY <1>1, ComputingWord, PushingWord, AbsoluteWord, MovingWord, SortingWord, ArrayWord

\* A text stays what it was when a variable is stored: it is another variable's, or what is stored is
\* what the variable had.
LEMMA TextsKeep ==
    ASSUME NEW t, Ready(t)
    PROVE  Simulated(t, VarsAfter(t, gpuVars, ReadAll(gpu)))
<1>1. Simulated(t, gpuVars)
  BY EveryWord
<1>2. CASE t.type # "VarStore"
  BY <1>1, <1>2 DEF VarsAfter
<1>3. CASE t.type = "VarStore"
  <2>1. /\ cpu \in Seq(Int) /\ gpu \in Seq(Texts) /\ Matches(gpu, cpu, gpuVars) /\ Len(gpu) = Len(cpu)
        /\ t.name \in Variables /\ gpuVars = cpuVars /\ cpuVars \in [Variables -> Int]
    BY <1>3 DEF Ready, AgreeInv, Matches, IsToken
  <2>2. 1 \in 0 .. Len(cpu)
    BY <1>3, ArrayFacts, Operands
  <2>3. ReadAll(gpu)[Len(ReadAll(gpu))] = cpu[Len(cpu)]
    <3>1. ReadAll(gpu) = [i \in 1 .. Len(cpu) |-> Read(gpu[i])]
      BY <2>1 DEF ReadAll
    <3>2. Len(ReadAll(gpu)) = Len(cpu) /\ Len(cpu) \in 1 .. Len(cpu)
      BY <2>1, <2>2, <3>1
    <3>3. QED
      BY <2>1, <3>1, <3>2 DEF Matches, Stands, Read
  <2> DEFINE after == [gpuVars EXCEPT ![t.name] = cpu[Len(cpu)]]
             g == Below(gpu, 1)
  <2>4. VarsAfter(t, gpuVars, ReadAll(gpu)) = after
    BY <1>3, <2>3 DEF VarsAfter
  <2>5. Contains(g, Name(t.name)) => gpuVars[t.name] = cpu[Len(cpu)]
    BY <1>3, <2>1, NoCause DEF NotCaused
  <2>6. g \in Seq(Texts) /\ StackGlsl(t) = g /\ Len(StackCpu(t)) = Len(g)
    <3>1. g \in Seq(Texts)
      BY <2>1, <2>2, Parts
    <3>2. StackGlsl(t) = g
      BY <1>3, ArrayFacts
    <3>3. QED
      BY <1>1, <3>1, <3>2 DEF Simulated, Matches
  <2> HIDE DEF g
  <2>7. ASSUME NEW i \in 1 .. Len(g) PROVE Stands(g[i], after) = Stands(g[i], gpuVars)
    <3>1. g[i] \in Texts
      BY <2>6
    <3>2. CASE \E n \in Variables : g[i] = Name(n)
      <4>1. PICK n \in Variables : g[i] = Name(n)
        BY <3>2
      <4>2. Stands(g[i], after) = after[n] /\ Stands(g[i], gpuVars) = gpuVars[n]
        BY <4>1, TextFacts
      <4>3. CASE n = t.name
        <5>1. Contains(g, Name(t.name))
          BY <4>1, <4>3 DEF Contains
        <5>2. QED
          BY <2>1, <2>5, <4>2, <4>3, <5>1
      <4>4. CASE n # t.name
        BY <2>1, <4>2, <4>4
      <4>5. QED
        BY <4>3, <4>4
    <3>3. CASE \E n \in Int : g[i] = Value(n) \/ g[i] = Literal(n)
      BY <3>3, TextFacts
    <3>4. QED
      BY <3>1, <3>2, <3>3 DEF Texts
  <2> HIDE DEF after
  <2>8. QED
    BY <1>1, <2>4, <2>6, <2>7 DEF Simulated, Matches
<1>4. QED
  BY <1>2, <1>3

-------------------------------------------------------------------------------
(* The behaviours *)

LEMMA PlaceInit == Init => PlaceInv
BY LoopsInit DEF Init, PlaceInv

LEMMA PlaceKeeps == ASSUME PlaceInv, [Next]_allVars PROVE PlaceInv'
<1>1. LoopInv /\ family \in Families
  BY DEF PlaceInv
<1>2. CASE Enter
  <2>1. LoopInv'
    BY <1>1, <1>2, LoopsKeep DEF Enter
  <2>2. family' = family /\ phase' = "words" /\ InBody' /\ <<x, y>>' = watched'
    BY <1>2 DEF Enter, loopVars, InBody, RangeEnd, Smaller, TileEnd, TileX, StartMain, EndMain
  <2>3. QED
    BY <1>1, <2>1, <2>2 DEF PlaceInv
<1>3. CASE Loop
  <2>1. LoopInv'
    BY <1>1, <1>3, LoopsKeep DEF Loop
  <2>2. QED
    BY <1>1, <1>3, <2>1 DEF PlaceInv, Loop, exprVars
<1>4. CASE Finish
  <2>1. LoopInv'
    BY <1>1, <1>4, LoopsKeep DEF Finish
  <2>2. family' = family /\ phase' = "stored"
    BY <1>4 DEF Finish
  <2>3. QED
    BY <1>1, <2>1, <2>2 DEF PlaceInv
<1>5. ASSUME UNCHANGED <<loopVars, family, watched, phase>> PROVE PlaceInv'
  <2>1. LoopInv'
    BY <1>1, <1>5, LoopsKeep
  <2>2. InBody' = InBody
    BY <1>5 DEF loopVars, InBody, RangeEnd, Smaller, TileEnd, TileX, StartMain, EndMain
  <2>3. QED
    BY <1>5, <2>1, <2>2 DEF PlaceInv, loopVars
<1>6. CASE \E w \in family.words : Word(w)
  BY <1>5, <1>6 DEF Word
<1>7. CASE UNCHANGED allVars
  BY <1>5, <1>7 DEF allVars, exprVars
<1>8. QED
  BY <1>2, <1>3, <1>4, <1>6, <1>7 DEF Next

LEMMA AgreeInit == Init => AgreeInv
<1> SUFFICES ASSUME Init PROVE AgreeInv
  OBVIOUS
<1>1. cpu \in Seq(Explored)
  BY BackendsAssumption DEF Init
<1>2. cpu \in Seq(Int) /\ \A i \in 1 .. Len(cpu) : cpu[i] \in Explored
  <2>1. Explored \subseteq Int
    BY ExploredNumbers
  <2>2. /\ Len(cpu) \in Nat /\ cpu = [i \in 1 .. Len(cpu) |-> cpu[i]]
        /\ \A i \in 1 .. Len(cpu) : cpu[i] \in Explored
    BY <1>1
  <2>3. cpu \in [1 .. Len(cpu) -> Int]
    BY <2>1, <2>2
  <2>4. QED
    BY <2>2, <2>3, RowIsSeq
<1>3. gpu = [i \in 1 .. Len(cpu) |-> Literal(cpu[i])] /\ depth = Len(cpu)
  BY DEF Init
<1>4. \A i \in 1 .. Len(cpu) : Literal(cpu[i]) \in Texts /\ Stands(Literal(cpu[i]), gpuVars) = cpu[i]
  BY <1>2, TextFacts
<1>5. gpu \in Seq(Texts) /\ Len(gpu) = Len(cpu) /\ Matches(gpu, cpu, gpuVars)
  BY <1>2, <1>3, <1>4 DEF Matches
<1>6. /\ cpuVars \in [Variables -> Int] /\ gpuVars = cpuVars /\ gpuArray = cpuArray
      /\ cpuOut \in [Pixels -> Int] /\ gpuOut \in [Pixels -> Int]
      /\ \A p \in Pixels : gpuOut[p] = Unwritten /\ cpuOut[p] = Unwritten
  BY ExploredNumbers DEF Init
<1>7. QED
  BY <1>2, <1>3, <1>5, <1>6 DEF AgreeInv, SameSample

\* Storing a number of the stack at a pixel keeps both outputs alike.
LEMMA StoringKeeps ==
    ASSUME AgreeInv, NEW q, NEW v \in Explored, Pixels' = Pixels,
           cpuOut' = [cpuOut EXCEPT ![q] = Quantize(v)], gpuOut' = [gpuOut EXCEPT ![q] = v]
    PROVE  /\ cpuOut' \in [Pixels -> Int] /\ gpuOut' \in [Pixels -> Int]
           /\ \A p \in Pixels : SameSample(p)'
<1>1. v \in Int /\ v # Unwritten /\ v # Broken /\ Quantize(v) = Unpacked(v) /\ Quantize(v) \in Int
  BY ExploredNumbers, StoresAgree
<1>2. cpuOut \in [Pixels -> Int] /\ gpuOut \in [Pixels -> Int] /\ \A p \in Pixels : SameSample(p)
  BY DEF AgreeInv
<1>3. cpuOut' \in [Pixels -> Int] /\ gpuOut' \in [Pixels -> Int]
  BY <1>1, <1>2
<1>4. ASSUME NEW p \in Pixels PROVE SameSample(p)'
  <2>1. CASE p = q
    BY <1>1, <1>2, <2>1 DEF SameSample
  <2>2. CASE p # q
    BY <1>2, <2>2 DEF SameSample
  <2>3. QED
    BY <2>1, <2>2
<1>5. QED
  BY <1>3, <1>4

LEMMA WordKeeps ==
    ASSUME Known \subseteq Excluded, PlaceInv, AgreeInv, NEW w \in family.words, Word(w)
    PROVE  AgreeInv'
<1> DEFINE t == Parse(w)
<1>1. IsToken(t)
  BY ParsedToken, BackendsAssumption DEF PlaceInv
<1> HIDE DEF t
<1>2. /\ phase = "words" /\ Meaningful(t) /\ depth' = depth + Behavior(t).effect
      /\ cpu' = StackCpu(t) /\ gpu' = StackGlsl(t)
      /\ \A i \in 1 .. Len(cpu') : cpu'[i] \in Explored
      /\ cpuVars' = VarsAfter(t, cpuVars, cpu) /\ gpuVars' = VarsAfter(t, gpuVars, ReadAll(gpu))
      /\ cpuArray' = ArrayAfter(t, cpuArray, cpu) /\ gpuArray' = ArrayAfter(t, gpuArray, ReadAll(gpu))
      /\ cpuOut' = OutAfter(t, cpuOut, cpu, Quantize(cpu[Len(cpu) - 2]))
      /\ gpuOut' = OutAfter(t, gpuOut, ReadAll(gpu), Read(gpu[Len(gpu) - 2]))
      /\ geo' = geo
  BY DEF Word, t, loopVars
<1>3. Ready(t)
  BY <1>1, <1>2 DEF Ready
<1>4. Simulated(t, gpuVars')
  BY <1>2, <1>3, TextsKeep
<1>5. /\ cpu \in Seq(Int) /\ gpu \in Seq(Texts) /\ Len(gpu) = Len(cpu) /\ Len(cpu) \in Nat
      /\ \A i \in 1 .. Len(cpu) : Read(gpu[i]) = cpu[i] /\ cpu[i] \in Explored
  BY DEF AgreeInv, Matches, Stands, Read
<1>6. ReadAll(gpu) = cpu
  <2>1. ReadAll(gpu) = [i \in 1 .. Len(cpu) |-> Read(gpu[i])]
    BY <1>5 DEF ReadAll
  <2>2. QED
    BY <1>5, <2>1
<1>7. cpu' \in Seq(Int) /\ gpu' \in Seq(Texts) /\ Len(cpu') = depth' /\ Matches(gpu', cpu', gpuVars')
  BY <1>2, <1>4 DEF Simulated
<1>8. gpuVars' = cpuVars' /\ cpuVars' \in [Variables -> Int] /\ gpuArray' = cpuArray'
  <2>1. gpuVars' = cpuVars' /\ gpuArray' = cpuArray'
    BY <1>2, <1>6 DEF AgreeInv
  <2>2. CASE t.type # "VarStore"
    BY <1>2, <2>1, <2>2 DEF VarsAfter, AgreeInv
  <2>3. CASE t.type = "VarStore"
    <3>1. 1 \in 0 .. Len(cpu)
      BY <1>3, <2>3, ArrayFacts, Operands
    <3>2. cpu[Len(cpu)] \in Int
      BY <1>5, <3>1
    <3>3. cpuVars' = [cpuVars EXCEPT ![t.name] = cpu[Len(cpu)]] /\ cpuVars \in [Variables -> Int]
      BY <1>2, <2>3 DEF VarsAfter, AgreeInv
    <3>4. QED
      BY <2>1, <3>2, <3>3
  <2>4. QED
    BY <2>2, <2>3
<1>9. Pixels' = Pixels
  BY <1>2 DEF Pixels, Columns, Rows
<1>10. /\ cpuOut' \in [Pixels -> Int] /\ gpuOut' \in [Pixels -> Int]
       /\ \A p \in Pixels : SameSample(p)'
  <2>1. CASE t.type # "StoreAbs"
    <3>1. cpuOut' = cpuOut /\ gpuOut' = gpuOut
      BY <1>2, <2>1 DEF OutAfter
    <3>2. QED
      BY <3>1 DEF AgreeInv, SameSample
  <2>2. CASE t.type = "StoreAbs"
    <3>1. 3 \in 0 .. Len(cpu)
      BY <1>3, <2>2, ArrayFacts, Operands
    <3>2. Len(cpu) - 2 \in 1 .. Len(cpu)
      BY <1>5, <3>1
    <3>3. Read(gpu[Len(gpu) - 2]) = cpu[Len(cpu) - 2] /\ cpu[Len(cpu) - 2] \in Explored
      BY <1>5, <3>2
    <3>4. /\ cpuOut' = [cpuOut EXCEPT ![StoreTarget(cpu)] = Quantize(cpu[Len(cpu) - 2])]
          /\ gpuOut' = [gpuOut EXCEPT ![StoreTarget(cpu)] = cpu[Len(cpu) - 2]]
      BY <1>2, <1>6, <2>2, <3>3 DEF OutAfter
    <3>5. QED
      BY <1>9, <3>3, <3>4, StoringKeeps
  <2>3. QED
    BY <2>1, <2>2
<1>11. QED
  BY <1>2, <1>7, <1>8, <1>9, <1>10 DEF AgreeInv

LEMMA FinishKeeps == ASSUME PlaceInv, AgreeInv, Finish PROVE AgreeInv'
<1>1. phase = "words" /\ depth = 1 /\ geo' = geo /\ UNCHANGED <<depth, cpu, cpuVars, cpuArray, gpu, gpuVars, gpuArray>>
  BY DEF Finish, loopVars
<1>2. Pixels' = Pixels
  BY <1>1 DEF Pixels, Columns, Rows
<1>3. cpu[1] \in Explored /\ Read(gpu[1]) = cpu[1]
  BY <1>1 DEF AgreeInv, Matches, Stands, Read
<1>4. <<gid % geo.width, gid \div geo.width>> = <<x, y>>
  BY <1>1, ThisInvocation
<1>5. /\ cpuOut' \in [Pixels -> Int] /\ gpuOut' \in [Pixels -> Int]
      /\ \A p \in Pixels : SameSample(p)'
  <2>1. CASE cpu[1] = Exit
    <3>1. cpuOut' = cpuOut /\ gpuOut' = gpuOut
      BY <1>3, <2>1 DEF Finish
    <3>2. QED
      BY <3>1 DEF AgreeInv, SameSample
  <2>2. CASE cpu[1] # Exit
    <3>1. /\ cpuOut' = [cpuOut EXCEPT ![<<x, y>>] = Quantize(cpu[1])]
          /\ gpuOut' = [gpuOut EXCEPT ![<<x, y>>] = cpu[1]]
      BY <1>3, <1>4, <2>2 DEF Finish
    <3>2. QED
      BY <1>2, <1>3, <3>1, StoringKeeps
  <2>3. QED
    BY <2>1, <2>2
<1>6. QED
  BY <1>1, <1>2, <1>5 DEF AgreeInv, Matches, Stands

LEMMA AgreeKeeps ==
    ASSUME Known \subseteq Excluded, PlaceInv, AgreeInv, [Next]_allVars
    PROVE  AgreeInv'
<1>1. ASSUME geo' = geo, UNCHANGED <<depth, cpu, cpuVars, cpuArray, cpuOut, gpu, gpuVars, gpuArray, gpuOut>>
      PROVE  AgreeInv'
  <2>1. Pixels' = Pixels
    BY <1>1 DEF Pixels, Columns, Rows
  <2>2. QED
    BY <1>1, <2>1 DEF AgreeInv, Matches, Stands, SameSample
<1>2. CASE Enter
  BY <1>1, <1>2 DEF Enter, loopVars
<1>3. CASE Loop
  <2>1. geo' = geo
    BY <1>3 DEF Loop, LoopNext, NextTileRow, NextRow, NextTile, Body, EndRange
  <2>2. QED
    BY <1>1, <1>3, <2>1 DEF Loop, exprVars
<1>4. CASE UNCHANGED allVars
  BY <1>1, <1>4 DEF allVars, loopVars, exprVars
<1>5. QED
  BY <1>2, <1>3, <1>4, WordKeeps, FinishKeeps DEF Next

LEMMA PlaceInvariant == Spec => []PlaceInv
BY PlaceInit, PlaceKeeps, PTL DEF Spec

LEMMA AgreeInvariant == ASSUME Known \subseteq Excluded PROVE Spec => [](PlaceInv /\ AgreeInv)
<1>1. Init => PlaceInv /\ AgreeInv
  BY PlaceInit, AgreeInit
<1>2. PlaceInv /\ AgreeInv /\ [Next]_allVars => (PlaceInv /\ AgreeInv)'
  BY PlaceKeeps, AgreeKeeps
<1>3. QED
  BY <1>1, <1>2, PTL DEF Spec

\* generateLoops: the ranges and tiles cover every plane, and no two of them overlap.
THEOREM PixelsOnce == Spec => []EveryPixelOnce
<1>1. PlaceInv => EveryPixelOnce
  BY OnceEach DEF PlaceInv
<1>2. QED
  BY <1>1, PlaceInvariant, PTL

\* processToken of both generators: the same expression leaves the same samples, whatever its words,
\* if it avoids all known causes of divergence.
THEOREM SameSamples == ASSUME Known \subseteq Excluded PROVE Spec => []BackendsAgree
<1>1. PlaceInv /\ AgreeInv => BackendsAgree
  BY DEF AgreeInv, Matches, SameSample, BackendsAgree
<1>2. QED
  BY <1>1, AgreeInvariant, PTL

\* generatePixelLoad, emitPixelLoad: no read of either back end leaves its plane, whichever range of
\* columns the pixel is in.
THEOREM ReadsStayInside == ASSUME Known \subseteq Excluded PROVE Spec => []LoadsStayInside
<1>1. PlaceInv /\ AgreeInv => LoadsStayInside
  <2> SUFFICES ASSUME PlaceInv, AgreeInv, phase = "words", NEW w \in family.words,
                      Parse(w).type \in Relative \cup Absolute, Meaningful(Parse(w))
               PROVE  /\ PlaceCpu(Parse(w), Top(cpu, Behavior(Parse(w)).arity)) \in Pixels
                      /\ IndexGlsl(Parse(w), ReadAll(Top(gpu, Behavior(Parse(w)).arity)))
                             \in 0 .. geo.width * geo.height - 1
    BY DEF LoadsStayInside
  <2> DEFINE t == Parse(w)
             arity == Behavior(t).arity
  <2>1. IsToken(t) /\ Meaningful(t) /\ t.type \in Relative \cup Absolute
    BY ParsedToken, BackendsAssumption DEF PlaceInv
  <2> HIDE DEF t
  <2>2. cpu \in Seq(Int) /\ gpu \in Seq(Texts) /\ Matches(gpu, cpu, gpuVars) /\ Len(cpu) = depth /\ arity <= depth
    BY <2>1 DEF AgreeInv, Meaningful
  <2>3. arity \in Nat /\ (t.type \in Absolute => arity = 2)
    <3>1. CASE t.type \in Absolute
      BY <3>1, AbsoluteFacts
    <3>2. CASE t.type \in Relative
      <4>1. t.type \notin Absolute
        BY <3>2 DEF Relative, Absolute
      <4>2. QED
        BY <3>2, <4>1, PushingFacts DEF Pushing
    <3>3. QED
      BY <2>1, <3>1, <3>2
  <2> HIDE DEF arity
  <2>4. arity \in 0 .. Len(cpu)
    BY <2>2, <2>3
  <2>5. ReadAll(Top(gpu, arity)) = Top(cpu, arity) /\ Top(cpu, arity) \in Seq(Int) /\ Len(Top(cpu, arity)) = arity
    BY <2>2, <2>4, ReadsMatch, Parts
  <2>6. t.type \in {"ClipRel", "BufferRel"} => t.x \in geo.minX .. geo.maxX /\ t.y \in Int
    BY <2>1 DEF Meaningful, IsToken
  <2>7. PlaceCpu(t, Top(cpu, arity)) \in Pixels /\ IndexGlsl(t, Top(cpu, arity)) \in 0 .. geo.width * geo.height - 1
    BY <2>1, <2>3, <2>5, <2>6, SamePlace
  <2>8. QED
    BY <2>5, <2>7 DEF t, arity
<1>2. QED
  BY <1>1, AgreeInvariant, PTL

================================================================================
