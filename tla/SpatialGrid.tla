----------------------------- MODULE SpatialGrid -----------------------------
(***************************************************************************)
(* The grid index of compute/src/lib.rs: entities by the cell they are in. *)
(* Degrees are scaled down to whole numbers, 180 to HalfTurn.  A cell's    *)
(* list of entities is a set here; an insert appends to it, and an entity  *)
(* is inserted once after each clear.                                      *)
(***************************************************************************)
EXTENDS Integers

CONSTANTS
  HalfTurn,  \* 180 degrees
  CellSize   \* cell_size_deg

ASSUME GridAssumption ==
  HalfTurn \in Nat \ {0} /\ HalfTurn % 2 = 0 /\ CellSize \in Nat \ {0}

QuarterTurn == HalfTurn \div 2

CeilDiv(a, b) == (a + b - 1) \div b
GridWidth == CeilDiv(2 * HalfTurn, CellSize)
GridHeight == CeilDiv(2 * QuarterTurn, CellSize)
CellIds == 0 .. GridWidth * GridHeight - 1

Column(lon) == (lon + HalfTurn) \div CellSize
Row(lat) == (lat + QuarterTurn) \div CellSize
ComputeCell(lat, lon) == Row(lat) * GridWidth + Column(lon)

\* new, and what clear leaves.
EmptyGrid == [c \in CellIds |-> {}]

\* A position outside the grid is not indexed.
Insert(grid, i, lat, lon) ==
  [c \in CellIds |-> grid[c] \cup (IF c = ComputeCell(lat, lon) THEN {i} ELSE {})]

\* Fault: the cells at the upper edges of the box are left out.
TouchedBelow(box) ==
  {y * GridWidth + x : y \in Row(box.minLat) .. Row(box.maxLat) - 1,
                       x \in Column(box.minLon) .. Column(box.maxLon)}

\* The cells query visits.
Touched(box) ==
  {y * GridWidth + x : y \in Row(box.minLat) .. Row(box.maxLat),
                       x \in Column(box.minLon) .. Column(box.maxLon)}

Query(grid, box) == UNION {grid[c] : c \in CellIds \cap Touched(box)}
=============================================================================
