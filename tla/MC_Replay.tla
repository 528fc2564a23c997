------------------------------ MODULE MC_Replay ------------------------------
(***************************************************************************)
(* Small instances of Replay: a globe of 8 by 4 units, cells of 2.         *)
(***************************************************************************)
EXTENDS Replay

At(lat, lon) == [lat |-> lat, lon |-> lon]

\* Next to the corner where both the wrapping and the clamping happen.
MCStart == {At(0, 3), At(-1, -4)}
MCSteps == {At(0, 0), At(1, 1), At(-1, -1)}

Box(lat1, lon1, lat2, lon2) ==
  [minLat |-> lat1, minLon |-> lon1, maxLat |-> lat2, maxLon |-> lon2]

\* A point, a column, a row, boxes across cell borders, the whole globe without
\* and with its seam.
MCBoxes ==
  {Box(1, 3, 1, 3), Box(-2, 3, 1, 3), Box(-1, -4, -1, 3), Box(-1, -3, 0, -2), Box(0, 1, 1, 2),
   Box(-2, -4, 1, 3), Box(-2, -4, 2, 4)}
=============================================================================
