------------------------------- MODULE PixelLoops -------------------------------
(***************************************************************************)
(* The loops ExprIRGenerator puts around the code of an expression: tiles  *)
(* of rows, rows, tiles of columns, and in a tile up to three ranges of    *)
(* columns: a left peel and a right peel, where reads relative to the      *)
(* pixel are brought into the plane, and between them the main range,      *)
(* where they are not.                                                     *)
(***************************************************************************)
EXTENDS Integers

CONSTANT Geometries
\* [width, height, tileX, tileY, minX, maxX]: the plane, the tiles that the tuner chose (0: the
\* whole plane) and the least and greatest column offset read, as RelAccessAnalysisPass finds them.

ASSUME GeometryAssumption ==
    Geometries \subseteq [width : Nat \ {0}, height : Nat \ {0}, tileX : Int, tileY : Int,
                          minX : {n \in Int : n <= 0}, maxX : Nat]

VARIABLES
    geo,
    at,         \* tileRow, row, tile, left, main, right, done: the loop header control is at
    yTile, y, xTile, x,
    visits      \* how often the code ran for each pixel

loopVars == <<geo, at, yTile, y, xTile, x, visits>>

Smaller(a, b) == IF a < b THEN a ELSE b
Columns == 0 .. geo.width - 1
Rows == 0 .. geo.height - 1
TileX == IF geo.tileX <= 0 THEN geo.width ELSE geo.tileX
TileY == IF geo.tileY <= 0 THEN geo.height ELSE geo.tileY

\* has_left_peel, has_right_peel, start_main_x, end_main_x
HasLeftPeel == geo.minX < 0
HasRightPeel == geo.maxX > 0
StartMain == 0 - geo.minX
\* Faulty: one column too many.
EndMainAfter == geo.width - geo.maxX + 1
EndMain == geo.width - geo.maxX

LoopInit ==
    /\ geo \in Geometries
    /\ at = "tileRow"
    /\ yTile = 0 /\ y = 0 /\ xTile = 0 /\ x = 0
    /\ visits = [p \in Columns \X Rows |-> 0]

NextTileRow ==
    /\ at = "tileRow"
    /\ IF yTile < geo.height THEN y' = yTile /\ at' = "row" ELSE at' = "done" /\ y' = y
    /\ UNCHANGED <<geo, yTile, xTile, x, visits>>

NextRow ==
    /\ at = "row"
    /\ IF y < Smaller(yTile + TileY, geo.height)
       THEN xTile' = 0 /\ at' = "tile" /\ yTile' = yTile
       ELSE yTile' = yTile + TileY /\ at' = "tileRow" /\ xTile' = xTile
    /\ UNCHANGED <<geo, y, x, visits>>

NextTile ==
    /\ at = "tile"
    /\ IF xTile < geo.width
       THEN x' = xTile /\ at' = (IF HasLeftPeel THEN "left" ELSE "main") /\ y' = y
       ELSE y' = y + 1 /\ at' = "row" /\ x' = x
    /\ UNCHANGED <<geo, yTile, xTile, visits>>

Ranges == {"left", "main", "right"}
TileEnd == Smaller(xTile + TileX, geo.width)
\* Faulty: the left peel does not stop at the end of the tile.
RangeEndBeyondTile ==
    CASE at = "left" -> StartMain
      [] at = "main" -> Smaller(TileEnd, EndMain)
      [] at = "right" -> TileEnd
RangeEnd ==
    CASE at = "left" -> Smaller(TileEnd, StartMain)
      [] at = "main" -> Smaller(TileEnd, EndMain)
      [] at = "right" -> TileEnd

\* no_x_bounds_check
Unchecked == at = "main"

InBody == at \in Ranges /\ x < RangeEnd

\* generate_x_loop_body, its code taken as one step
Body ==
    /\ InBody
    /\ visits' = [visits EXCEPT ![<<x, y>>] = @ + 1]
    /\ x' = x + 1
    /\ UNCHANGED <<geo, at, yTile, y, xTile>>

EndRange ==
    /\ at \in Ranges /\ x >= RangeEnd
    /\ IF at = "left" THEN at' = "main" /\ xTile' = xTile
       ELSE IF at = "main" /\ HasRightPeel THEN at' = "right" /\ xTile' = xTile
       ELSE at' = "tile" /\ xTile' = xTile + TileX
    /\ UNCHANGED <<geo, yTile, y, x, visits>>

LoopNext == NextTileRow \/ NextRow \/ NextTile \/ Body \/ EndRange

\* Every pixel gets its code once, whatever the tiles and however far the expression reads:
\* the ranges of a tile neither overlap nor leave a gap, although each is cut by bounds that
\* know nothing of the others.
EveryPixelOnce ==
    /\ \A p \in DOMAIN visits : visits[p] <= 1
    /\ at = "done" => \A p \in DOMAIN visits : visits[p] = 1

\* getFinalCoord: mirrored with srem, or clamped
MirrorCpu(c, size) ==
    LET period == 2 * size
        rem == IF c < 0 THEN 0 - ((0 - c) % period) ELSE c % period
        m == IF rem < 0 THEN rem + period ELSE rem
    IN IF m < size THEN m ELSE period - 1 - m
Clamped(c, size) == IF c < 0 THEN 0 ELSE IF c > size - 1 THEN size - 1 ELSE c
FinalCoordCpu(c, size, mirror) == IF mirror THEN MirrorCpu(c, size) ELSE Clamped(c, size)

\* emitMirrorCoord, emitClampCoord: the same with the floored mod() of GLSL
MirrorGlsl(c, size) ==
    LET period == 2 * size
        m == c % period
    IN IF m >= size THEN period - 1 - m ELSE m
FinalCoordGlsl(c, size, mirror) == IF mirror THEN MirrorGlsl(c, size) ELSE Clamped(c, size)
================================================================================
