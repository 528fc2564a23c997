------------------------------ MODULE BeastFeed ------------------------------
(***************************************************************************)
(* The connector of a Beast feed and the framing behind it: sessions that  *)
(* end anywhere, read in chunks cut anywhere, all fed into one decoder,    *)
(* whose buffer outlives the sessions.                                     *)
(***************************************************************************)
EXTENDS BeastFraming, FeedConnector

CONSTANTS
  Patterns,  \* what a frame may look like: its type and payload
  Number,    \* stands in a pattern's payload for the frame's number
  MaxFrames, \* bound on the frames the receiver sends
  Backlog    \* bound on the bytes on their way when a frame is sent

\* The frames' numbers are bytes of their own, and no two long messages are alike.
Numbers == 1 .. MaxFrames
Plain == Byte \ Numbers

ASSUME PatternAssumption ==
  /\ MaxFrames \in Nat /\ Numbers \subseteq Byte /\ Number \notin Byte
  /\ Esc \in Plain /\ Types \subseteq Plain
  /\ \A p \in Patterns :
       /\ p.type \in Plain \ {Esc} /\ p.payload \in Seq(Plain \cup {Number})
       /\ p.type \in Types => Len(p.payload) = MinLen[p.type] - 2
       /\ p.type = Long => \E j \in DOMAIN p.payload : p.payload[j] = Number

VARIABLES
  buf,      \* Decoder.buf
  decoded,  \* for each call of decodeModeSLong the number of the frame, or 0
  wire,     \* what the session will still bring
  sent,     \* history: the frames sent, by number
  heard,    \* history: the bytes read, in all sessions
  half      \* history: the next byte read is taken for the second half of an escape

dataVars == <<buf, decoded, wire, sent, heard, half>>
vars == <<connVars, dataVars>>

-----------------------------------------------------------------------------
(* The receiver's side of a session.                                       *)

Numbered(pattern) ==
  [type |-> pattern.type,
   payload |-> [j \in DOMAIN pattern.payload |->
      IF pattern.payload[j] = Number THEN Len(sent) + 1 ELSE pattern.payload[j]]]

\* The receiver sends a frame.  Noted of it are the offset in heard at which it
\* ends, and whether its first byte completes an escape that the session before
\* left half done.
Send(pattern) ==
  /\ session \in open /\ Len(sent) < MaxFrames /\ Len(wire) < Backlog
  /\ LET f == Numbered(pattern)
         end == Len(heard) + Len(wire) + Len(Encode(f))
     IN /\ wire' = wire \o Encode(f)
        /\ sent' = Append(sent, [type |-> f.type, payload |-> f.payload, end |-> end,
                                 spoiled |-> half /\ wire = <<>>])
  /\ UNCHANGED <<connVars, buf, decoded, heard, half>>

\* How much of the frame has been read.
Read_(f) == Len(Encode(f)) - (f.end - Len(heard))

\* A frame of which something was read, in this session or another.
Begun(f) == f.end = 0 \/ Read_(f) > 0

\* The session is over.  Frames of which nothing was read were never sent, and
\* these are the last ones; the end of one that was read in part never comes.
Cut(frames) ==
  [i \in {j \in DOMAIN frames : Begun(frames[j])} |->
     IF frames[i].end > Len(heard) THEN [frames[i] EXCEPT !.end = 0] ELSE frames[i]]

\* A session was cut within frame j, or brought a frame of a type Feed does not
\* know: Feed may take what it left for the start of a frame that is yet to come.
Ragged(frames) ==
  \E j \in DOMAIN frames : frames[j].end = 0 \/ frames[j].type \notin Types

\* The first n bytes of a frame end between the two halves of an escape.
SplitsEscape(f, n) ==
  n > 1 /\ \A k \in 0 .. Len(f.payload) : n # 2 + Len(Escaped[SubSeq(f.payload, 1, k)])

\* The last byte read is an escape byte that waits for another: the first half of
\* an escape, or the start of a frame that Feed reads as data of a stump.
InEscape ==
  \E i \in DOMAIN sent :
    LET f == sent[i]
    IN /\ f.end > Len(heard) /\ Read_(f) > 0
       /\ \/ SplitsEscape(f, Read_(f))
          \/ Read_(f) = 1 /\ Ragged(SubSeq(sent, 1, i - 1))

-----------------------------------------------------------------------------
(* Actions.                                                                *)

Connect == DialSucceeds /\ UNCHANGED dataVars

AnyPayload(p) == {CHOOSE i \in DOMAIN sent : TRUE}  \* fault: no check at all

\* ValidateCRC finds every mixture of frames out.
CRCMatches(p) == {i \in DOMAIN sent : sent[i].type = Long /\ sent[i].payload = p}

\* decodeModeSLong accepts a frame or drops what fails the check.
Match(p) == IF CRCMatches(p) = {} THEN 0 ELSE CHOOSE i \in CRCMatches(p) : TRUE
Accepted(payloads) == [k \in DOMAIN payloads |-> Match(payloads[k])]

\* conn.Read returns n bytes, which go to the decoder.
Read(n) ==
  /\ ReadData
  /\ LET fed == Feed(buf, SubSeq(wire, 1, n))
     IN buf' = fed.buf /\ decoded' = decoded \o Accepted(fed.out)
  /\ heard' = heard \o SubSeq(wire, 1, n)
  /\ wire' = SubSeq(wire, n + 1, Len(wire))
  /\ half' = FALSE
  /\ UNCHANGED sent

\* The connection breaks; what it still held is lost.
Hangup ==
  /\ PeerGone
  /\ wire' = <<>> /\ sent' = Cut(sent)
  /\ half' = (InEscape \/ half)
  /\ UNCHANGED <<buf, decoded, heard>>

\* After cancellation nothing is read again.
ReadAborted == ReadFails /\ wire' = <<>> /\ UNCHANGED <<buf, decoded, sent, heard, half>>

Control ==
  /\ UNCHANGED dataVars
  /\ \/ Check \/ DialFails \/ CancelledInWait \/ DelayOver \/ Cancel
     \/ \E k \in Sessions : Watch(k)

Init ==
  /\ ConnInit
  /\ buf = <<>> /\ decoded = <<>> /\ wire = <<>>
  /\ sent = <<>> /\ heard = <<>> /\ half = FALSE

Next ==
  \/ Connect
  \/ \E p \in Patterns : Send(p)
  \/ \E n \in 1 .. Len(wire) : Read(n)
  \/ Hangup \/ ReadAborted
  \/ Control

\* The dialler gives up or succeeds, timers fire, goroutines run; that the peer
\* sends or hangs up is not assumed.
Fairness ==
  /\ WF_vars(UNCHANGED dataVars /\ (Check \/ DialFails \/ CancelledInWait \/ DelayOver))
  /\ WF_vars(Connect) /\ WF_vars(ReadAborted)
  /\ \A k \in Sessions : WF_vars(Watch(k) /\ UNCHANGED dataVars)

Spec == Init /\ [][Next]_vars /\ Fairness

-----------------------------------------------------------------------------
(* Properties.                                                             *)

TypeOK ==
  /\ ConnTypeOK
  /\ buf \in Bytes /\ wire \in Bytes /\ heard \in Bytes /\ half \in BOOLEAN
  /\ sent \in Seq([type : Byte, payload : Bytes, end : Nat, spoiled : BOOLEAN])
  /\ Len(sent) <= MaxFrames /\ decoded \in Seq(0 .. Len(sent))

\* TCP may cut the stream anywhere, within a frame or an escape: what Feed has
\* made of it is what it makes of all of it at once.
ChunkingIsInvisible ==
  LET once == Feed(<<>>, heard)
  IN buf = once.buf /\ decoded = Accepted(once.out)

\* The tracker is given the frames in the order they were sent, each once, and
\* nothing else: what a dropped session left in the buffer is never joined to the
\* frames of the next one into a message, nor decoded again.
InOrderOnce ==
  \A i, j \in DOMAIN decoded :
    i < j /\ decoded[i] # 0 /\ decoded[j] # 0 => decoded[i] < decoded[j]

\* The frame with number i has arrived with its last byte.
Arrived(i) == sent[i].end # 0 /\ sent[i].end <= Len(heard)

\* All its bytes are still in the buffer.
Kept(i) == Len(heard) - sent[i].end + Len(Encode(sent[i])) <= Len(buf)

\* A frame that has arrived is decoded at once, or, behind the stump of another,
\* kept until enough has arrived to tell.  Excepted is the frame whose start is
\* taken for the second half of an escape.
NothingLost ==
  \A i \in DOMAIN sent :
    sent[i].type = Long /\ Arrived(i) /\ ~sent[i].spoiled
      => \/ \E k \in DOMAIN decoded : decoded[k] = i
         \/ Ragged(SubSeq(sent, 1, i)) /\ Kept(i)

\* What waits for the rest of a frame is shorter than two frames: on a stream of
\* frames the buffer does not grow.
BufferBounded == Starts(buf) # {} => Len(buf) < BufferLimit
=============================================================================
