--------------------------- MODULE MC_AisDecoder ---------------------------
(***************************************************************************)
(* Small instances of AisDecoder.                                          *)
(***************************************************************************)
EXTENDS AisDecoder

CONSTANTS v1, b1,  \* a ship, another station
          voy, bin \* static data of the ship; a message the decoder ignores

Frags == [m \in Messages |-> IF m = bin THEN 3 ELSE 2]
\* Both messages use sequence id 1.
SameSeqId == [m \in Messages |-> 1]
FromV1 == [m \in Static |-> v1]
Tanker == [m \in Static |-> 80]

\* Not available; too fast for a tanker; too fast for any ship.
Speeds == {-1, 80, 103}
=============================================================================
