---------------------------- MODULE BeastFraming ----------------------------
(***************************************************************************)
(* How the ADS-B decoder finds Beast frames in a byte stream               *)
(* (applications/adsb/decoder.go, Feed, unescape, findConsumed).           *)
(*                                                                         *)
(* A frame is an escape byte, a type byte and data of a length the type    *)
(* gives, in which an escape byte is doubled.  The stream comes in chunks  *)
(* cut anywhere.  Time stamp and signal level are left out.  The loops are *)
(* recursive functions, so that they can be proved about.                  *)
(***************************************************************************)
EXTENDS Integers, Sequences, FiniteSetsExt

CONSTANTS
  Byte,   \* the bytes told apart
  Esc,    \* 0x1A
  Long,   \* type '3', a Mode-S long message
  MinLen  \* bytes of an unescaped frame, by the types the decoder knows

Types == DOMAIN MinLen
BufferLimit == 2 * MinLen[Long]

\* A frame has at least the two bytes it begins with; none is longer than a Mode-S
\* long message.
ASSUME FramingAssumption ==
  /\ Esc \in Byte /\ Long \in Types /\ Types \subseteq Byte \ {Esc}
  /\ MinLen \in [Types -> Nat \ {0, 1}]
  /\ \A t \in Types : MinLen[t] <= MinLen[Long]

Bytes == Seq(Byte)

\* s without its first n bytes.
Drop(s, n) == SubSeq(s, n + 1, Len(s))

-----------------------------------------------------------------------------
(* Escaping.                                                               *)

\* How data looks in a stream.
Width(byte) == IF byte = Esc THEN 2 ELSE 1
Escaped[data \in Bytes] ==
  IF data = <<>> THEN <<>>
  ELSE [k \in 1 .. Width(Head(data)) |-> Head(data)] \o Escaped[Tail(data)]

\* Fault: an escape byte at the end of what has arrived is taken for data.
Hasty(s) == s = <<>> \/ (Head(s) = Esc /\ Len(s) > 1 /\ s[2] # Esc)

\* Where unescape stops: at a lone escape byte, which starts the next frame or
\* waits for its second half.
DataEnds(s) == s = <<>> \/ (Head(s) = Esc /\ (Len(s) = 1 \/ s[2] # Esc))

\* unescape: the data at the beginning of s.
Unescape[s \in Bytes] ==
  IF DataEnds(s) THEN <<>> ELSE <<Head(s)>> \o Unescape[Drop(s, Width(Head(s)))]

-----------------------------------------------------------------------------
(* Framing.  A candidate c is the buffer from an escape byte on that        *)
(* another byte follows.                                                    *)

\* Feed's search.
Starts(b) == {i \in 1 .. Len(b) - 1 : b[i] = Esc /\ b[i + 1] # Esc}
FromStart(b) == Drop(b, Min(Starts(b)) - 1)

\* The data behind a candidate's escape byte; its type comes first.
Data(c) == Unescape[Tail(c)]

\* A frame of a type Feed knows that has arrived.
Whole(c) == c[2] \in Types /\ Len(Data(c)) + 1 >= MinLen[c[2]]

\* findConsumed: the bytes of the stream that hold a whole frame; an escape byte
\* in its data takes two.
Consumed(c) == 1 + Len(Escaped[SubSeq(Data(c), 1, MinLen[c[2]] - 1)])

Payload(c) == SubSeq(Data(c), 2, MinLen[c[2]] - 1)

\* Fault: a frame that is too short is waited for, however much has arrived.
Patient(c) == TRUE

Impatient(c) == FALSE  \* fault: it is not waited for at all

\* A frame that is too short may still be on its way: the rest can be no longer
\* than if each of its bytes were doubled.
MayGrow(c) == Len(c) < 2 * MinLen[c[2]]

Waits(c) == c[2] \in Types /\ ~Whole(c) /\ MayGrow(c)

\* What the loop goes on with: behind a whole frame, or one byte ahead.
Rest(c) == Drop(c, IF Whole(c) THEN Consumed(c) ELSE 1)

\* The messages the loop decodes at a candidate.
Found(c) == IF Whole(c) /\ c[2] = Long THEN <<Payload(c)>> ELSE <<>>

\* The loop of Feed over the buffer b: what is left of it, and the payloads of
\* long messages found.
Scan[b \in Bytes] ==
  LET c == FromStart(b)
  IN IF Starts(b) = {} THEN [buf |-> b, out |-> <<>>]
     ELSE IF Waits(c) THEN [buf |-> c, out |-> <<>>]
     ELSE [buf |-> Scan[Rest(c)].buf, out |-> Found(c) \o Scan[Rest(c)].out]

Feed(buf, chunk) == Scan[buf \o chunk]

\* What the receiver sends for a frame.
Encode(f) == <<Esc>> \o Escaped[<<f.type>> \o f.payload]
=============================================================================
