---------------------------- MODULE MC_BeastFeed ----------------------------
(***************************************************************************)
(* Small instances of BeastFeed.                                           *)
(***************************************************************************)
EXTENDS BeastFeed, TLC

CONSTANTS
  Short,  \* types '1', '2' and '4', which the decoder passes over
  Other   \* a type the decoder does not know

MCByte == {Esc, Long, Short, Other} \cup 1 .. MaxFrames

\* As short as still have a beginning and an end.
MCMinLen == Long :> 4 @@ Short :> 3

\* Long messages with an escape byte at either end; a short one; one of an unknown
\* type, in whose data an escape byte is followed by what looks like a type.
MCPatterns ==
  {[type |-> Long, payload |-> <<Number, Esc>>],
   [type |-> Long, payload |-> <<Esc, Number>>],
   [type |-> Short, payload |-> <<Esc>>],
   [type |-> Other, payload |-> <<Esc, Long>>]}
=============================================================================
