---------------------------- MODULE MC_EdgeServer ----------------------------
(***************************************************************************)
(* Small instances of EdgeServer.                                          *)
(***************************************************************************)
EXTENDS EdgeServer

CONSTANTS w1, t1, e1, e2, near, far

R(e, p, s) == [id |-> e, pos |-> p, seq |-> s]
Valid(recs) == [valid |-> TRUE, recs |-> recs]

\* An entity that stands still while another enters or leaves the viewport,
\* the same entity with a newer sequence number, and a frame too short to
\* parse (server_test.go sends one).
FilterFrames == {Valid({R(e1, near, 1), R(e2, far, 1)}),
                 Valid({R(e1, near, 1), R(e2, near, 2)}),
                 [valid |-> FALSE, recs |-> {}]}

\* One frame is enough where nobody subscribes.
PlainFrames == {Valid({R(e1, near, 1)})}

NearOrFar == {{near}, {far}}
NoViewports == {}
==============================================================================
