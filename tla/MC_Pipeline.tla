---------------------------- MODULE MC_Pipeline ----------------------------
(***************************************************************************)
(* Small instances of Pipeline.                                            *)
(***************************************************************************)
EXTENDS Pipeline

CONSTANTS a1, s1,      \* an aircraft receiver, a vessel receiver
          i1, i3,      \* an aircraft, a vessel
          g1           \* a synthetic entity

A1 == <<a1>>
S1 == <<s1>>

\* The aircraft receiver hears one entity, the vessel receiver another.
OneEach == [f \in FeedNames |-> IF f = a1 THEN {i1} ELSE {i3}]
=============================================================================
