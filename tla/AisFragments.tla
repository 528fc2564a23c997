---------------------------- MODULE AisFragments ----------------------------
(***************************************************************************)
(* How the AIS decoder puts multi-sentence messages together (FeedLine in  *)
(* applications/ais/decoder.go).  Sentences come over the air: any of them *)
(* may be lost, garbled (the checksum rejects it), repeated or mixed with  *)
(* those of other messages.  The sets of fragments under way live in a map *)
(* by sequence id; a set knows neither its message nor its length.         *)
(***************************************************************************)
EXTENDS Integers, Sequences

CONSTANTS
  Messages,    \* multi-sentence messages stations transmit
  FragsOf,     \* number of sentences of each
  SeqIds,      \* sequence ids 0 .. 9
  NoSeqId,     \* the field is empty
  SeqIdOf,     \* sequence id of each message
  MaxPending,  \* bound: fragments that pile up in one set
  NoSet        \* no entry of the map

Sentences == UNION {{[msg |-> m, num |-> n] : n \in 1 .. FragsOf[m]} : m \in Messages}

ASSUME FragsAssumption ==
  /\ FragsOf \in [Messages -> Nat \ {0, 1}]
  /\ SeqIdOf \in [Messages -> SeqIds \cup {NoSeqId}]
  /\ MaxPending \in Nat /\ NoSet \notin Seq(Sentences)

VARIABLES
  fragments,  \* Decoder.fragments
  intact      \* history: per key, how much of which message has arrived in
              \* order since its first sentence, with no other in between

fragVars == <<fragments, intact>>

\* Without a sequence id, messages of one length share a key, "_2" or "_3".
Key(m) == IF SeqIdOf[m] = NoSeqId THEN [len |-> FragsOf[m]] ELSE [seq |-> SeqIdOf[m]]
FragKeys == {Key(m) : m \in Messages}

NothingIntact == [msg |-> NoSet, num |-> 0]

FragInit ==
  /\ fragments = [k \in FragKeys |-> NoSet]
  /\ intact = [k \in FragKeys |-> NothingIntact]

StartAnywhere(s) == TRUE  \* fault: a later sentence opens a set
Accepted(s) == s.num = 1 \/ fragments[Key(s.msg)] # NoSet

\* Fault: a first sentence joins the set that is there.
JoinAlways(s) ==
  Append(IF fragments[Key(s.msg)] = NoSet THEN <<>> ELSE fragments[Key(s.msg)], s)

\* A first sentence starts its set anew, any other is appended unchecked.
Extended(s) ==
  IF s.num = 1 \/ fragments[Key(s.msg)] = NoSet THEN <<s>>
  ELSE Append(fragments[Key(s.msg)], s)

\* The sentence that calls itself the last completes the message, whatever is
\* in the set.
Completes(s) == Accepted(s) /\ s.num = FragsOf[s.msg]

\* A sentence whose checksum is right is read.
Collect(s) ==
  LET k == Key(s.msg) IN
  /\ Accepted(s) => Len(Extended(s)) <= MaxPending
  /\ fragments' = IF ~Accepted(s) THEN fragments
                  ELSE [fragments EXCEPT ![k] =
                          IF Completes(s) THEN NoSet ELSE Extended(s)]
  /\ intact' = [intact EXCEPT ![k] =
       IF s.num = 1 \/ (@.msg = s.msg /\ @.num = s.num - 1) THEN s
       ELSE NothingIntact]

\* s is the last sentence of a message that has arrived whole.
ArrivesWhole(s) ==
  /\ s.num = FragsOf[s.msg]
  /\ intact[Key(s.msg)] = [msg |-> s.msg, num |-> s.num - 1]

\* The sentences of a message, as sent.
Whole(m) == [n \in 1 .. FragsOf[m] |-> [msg |-> m, num |-> n]]

=============================================================================
