--------------------------- MODULE MC_AdsbTracker ---------------------------
(***************************************************************************)
(* Small instances of AdsbTracker: five even and four odd zones of 16 and  *)
(* 20 cells, so that a quarter of the circle has 20.                       *)
(***************************************************************************)
EXTENDS AdsbTracker

CONSTANT p1

\* Across the border of two even zones, at 16; and south of the equator.
North == 12 .. 19
South == -6 .. -3
=============================================================================
