------------------------------ MODULE Pipeline ------------------------------
(***************************************************************************)
(* The pipeline (edge/pipeline.go): each tick of a ticker it prunes and    *)
(* samples the table of every decoder, ADS-B feeds before AIS feeds, falls *)
(* back to the synthetic generator when there is nothing, caps the list,   *)
(* stamps and encodes it, and broadcasts the frame.  The feeds' goroutines *)
(* write their decoders' tables meanwhile; a decoder's mutex makes each    *)
(* pruning and each sampling one step, and nothing more than that.         *)
(*                                                                         *)
(* What a decoder knows of an entity is reduced to the time since it was   *)
(* heard and whether it has a position; what a message says about it, to   *)
(* whether it gives a position.  The broadcast itself is EdgeServer's.     *)
(***************************************************************************)
EXTENDS Integers, Sequences, FiniteSets

CONSTANTS
  AdsbFeeds,     \* the pipeline's adsbFeeds, in order of registration
  AisFeeds,      \* its aisFeeds
  Ids,           \* entity ids: ICAO addresses and MMSIs
  HeardBy,       \* for each feed, the ids its receivers can hear
  Synthetic,     \* ids of the fallback generator's entities; {} when nil
  MaxAge,        \* 60 s, in steps of the clock
  MaxEntities,   \* cap on the entities of a frame
  CountModulus,  \* 65536: the width of the header's entity count
  SeqModulus,    \* 2^32: the width of a sequence number
  None           \* no entry of a table

Feeds == AdsbFeeds \o AisFeeds
FeedNames == {Feeds[i] : i \in 1 .. Len(Feeds)}

ASSUME FeedsAssumption ==
  /\ AdsbFeeds \in Seq(FeedNames) /\ AisFeeds \in Seq(FeedNames)
  /\ \A i, j \in 1 .. Len(Feeds) : i # j => Feeds[i] # Feeds[j]
  /\ HeardBy \in [FeedNames -> SUBSET Ids]
  /\ IsFiniteSet(Ids) /\ IsFiniteSet(Synthetic)

ASSUME BoundsAssumption ==
  /\ MaxAge \in Nat \ {0} /\ MaxEntities \in Nat \ {0}
  /\ CountModulus \in Nat \ {0} /\ SeqModulus \in Nat \ {0, 1}

VARIABLES
  table,      \* per feed, the decoder's map from id to entity
  pc,         \* where the pipeline's goroutine is
  at,         \* number of the feed collectStates is at
  due,        \* the ticker's channel holds a tick
  cancelled,  \* the context is cancelled
  seq,        \* Start's tick counter
  genSeq,     \* the generator's counter
  states,     \* the list collectStates is building
  frame,      \* the frame of the last tick; NoFrame if it sent none
  steady      \* history: feed and id active all the time since the tick began

vars == <<table, pc, at, due, cancelled, seq, genSeq, states, frame, steady>>
local == <<pc, at, seq, genSeq, states, frame>>

-----------------------------------------------------------------------------
(* The decoders' tables.                                                   *)

\* age saturates one step after MaxAge.
Entry == [age : 0 .. MaxAge + 1, pos : BOOLEAN]

ASSUME NoneAssumption == None \notin FeedNames \cup Entry

\* GetActiveAircraft and GetActiveVessels agree on who is active.
Active(f) ==
  {i \in Ids : table[f][i] # None /\ table[f][i].age < MaxAge /\ table[f][i].pos}

ActiveNow == {p \in FeedNames \X Ids : p[2] \in Active(p[1])}

\* PruneStale: an aircraft must be older than the limit, a vessel may reach it.
NeverStale(f, e) == FALSE  \* fault: the table only grows
Stale(f, e) ==
  IF f \in {AisFeeds[i] : i \in 1 .. Len(AisFeeds)}
  THEN e.age >= MaxAge ELSE e.age > MaxAge

\* A message about entity i: the decoder finds or makes its entry, refreshes
\* LastSeen and, when the message completes a position, sets PosValid.
Hear(f, i, positioned) ==
  /\ i \in HeardBy[f]
  /\ table' = [table EXCEPT ![f][i] =
       [age |-> 0,
        pos |-> positioned \/ (table[f][i] # None /\ table[f][i].pos)]]
  /\ UNCHANGED <<local, due, cancelled, steady>>

\* The clock moves: every LastSeen is one step further away.
TimePasses ==
  /\ table' = [f \in FeedNames |-> [i \in Ids |->
       IF table[f][i] = None \/ table[f][i].age > MaxAge THEN table[f][i]
       ELSE [table[f][i] EXCEPT !.age = @ + 1]]]
  /\ steady' = {p \in steady :
       table[p[1]][p[2]] # None => table'[p[1]][p[2]].age < MaxAge}
  /\ UNCHANGED <<local, due, cancelled>>

-----------------------------------------------------------------------------
(* The pipeline's goroutine.                                               *)

\* The ticker's channel has room for one tick; further ones are dropped.
TickerFires ==
  /\ due' = TRUE
  /\ UNCHANGED <<table, local, cancelled, steady>>

Cancel ==
  /\ cancelled' = TRUE
  /\ UNCHANGED <<table, local, due, steady>>

NextSeq(n) == (n + 1) % SeqModulus

\* select takes the tick, even when the context is cancelled as well.
StartTick ==
  /\ pc = "waiting" /\ due
  /\ pc' = "pruning" /\ at' = 1 /\ due' = FALSE
  /\ seq' = NextSeq(seq) /\ states' = {} /\ steady' = ActiveNow
  /\ UNCHANGED <<table, cancelled, genSeq, frame>>

\* Fault: a waiting tick goes first.
LeaveUnlessDue ==
  /\ pc = "waiting" /\ cancelled /\ ~due
  /\ pc' = "stopped"
  /\ UNCHANGED <<table, at, due, cancelled, seq, genSeq, states, frame, steady>>

Leave ==
  /\ pc = "waiting" /\ cancelled
  /\ pc' = "stopped"
  /\ UNCHANGED <<table, at, due, cancelled, seq, genSeq, states, frame, steady>>

\* PruneStale of the feed's decoder, under its lock.
Prune ==
  /\ pc = "pruning" /\ at <= Len(Feeds)
  /\ pc' = "sampling"
  /\ LET f == Feeds[at] IN
       table' = [table EXCEPT ![f] = [i \in Ids |->
         IF @[i] # None /\ Stale(f, @[i]) THEN None ELSE @[i]]]
  /\ UNCHANGED <<at, due, cancelled, seq, genSeq, states, frame, steady>>

\* ToEntityState stamps every sampled record with the tick's number.
Stamped(f, i) == [feed |-> f, id |-> i, seq |-> seq]

\* Fault: the records of an earlier feed are forgotten.
OnlyThisFeed(f) == {Stamped(f, i) : i \in Active(f)}
Sampled(f) == states \cup {Stamped(f, i) : i \in Active(f)}

\* GetActiveAircraft or GetActiveVessels of the same decoder, under its lock
\* again.
Sample ==
  /\ pc = "sampling"
  /\ states' = Sampled(Feeds[at])
  /\ at' = at + 1 /\ pc' = "pruning"
  /\ UNCHANGED <<table, due, cancelled, seq, genSeq, frame, steady>>

Live(r) == r.feed # None

\* The generator's entities carry the generator's own number.
Fallback(n) == {[feed |-> None, id |-> i, seq |-> n] : i \in Synthetic}

\* Position of a record's feed in the list; synthetic records are alone in it.
FeedRank(f) == CHOOSE k \in 1 .. Len(Feeds) : Feeds[k] = f
Rank(r) == IF Live(r) THEN FeedRank(r.feed) ELSE 0

Uncapped(list) == {list}  \* fault: the cap is forgotten

\* The ways states[:MaxEntities] can go: maps are ranged over in any order, but
\* the list is feed after feed.
Capped(list) ==
  IF Cardinality(list) <= MaxEntities THEN {list}
  ELSE {s \in SUBSET list : /\ Cardinality(s) = MaxEntities
                            /\ \A r \in s, q \in list \ s : Rank(r) <= Rank(q)}

NoFrame == [recs |-> {}, count |-> 0]

\* EncodeFrameInto: the header's count is the low 16 bits of the length.
Encode(list) == [recs |-> list, count |-> Cardinality(list) % CountModulus]

\* All feeds are sampled: fall back, cap, encode, broadcast; none of it touches
\* what others share.  An empty list is not sent, and shows here as a frame
\* without records; EncodeFrameInto's buffer has room for MaxEntities.
Broadcast ==
  /\ pc = "pruning" /\ at > Len(Feeds)
  /\ IF states = {} /\ Synthetic # {}
     THEN /\ genSeq' = (genSeq + 1) % SeqModulus
          /\ \E s \in Capped(Fallback(genSeq')) : frame' = Encode(s)
     ELSE /\ genSeq' = genSeq
          /\ \E s \in Capped(states) : frame' = Encode(s)
  /\ pc' = "waiting"
  /\ states' = {}
  /\ UNCHANGED <<table, at, due, cancelled, seq, steady>>

Tick == StartTick \/ Prune \/ Sample \/ Broadcast

Init ==
  /\ table = [f \in FeedNames |-> [i \in Ids |-> None]]
  /\ pc = "waiting" /\ at = 1 /\ due = FALSE /\ cancelled = FALSE
  /\ seq = 0 /\ genSeq = 0 /\ states = {} /\ frame = NoFrame
  /\ steady = {}

Next ==
  \/ \E f \in FeedNames, i \in Ids, p \in BOOLEAN : Hear(f, i, p)
  \/ TimePasses \/ TickerFires \/ Cancel
  \/ Tick \/ Leave

Spec == Init /\ [][Next]_vars

\* The clock moves, the ticker fires, a goroutine that can run runs, and a
\* select whose cancelled context keeps being ready takes that branch in the
\* end: Go picks among ready cases at random.
Fairness == /\ WF_vars(TimePasses) /\ WF_vars(TickerFires)
            /\ WF_vars(Tick) /\ SF_vars(Leave)

FairSpec == Spec /\ Fairness

-----------------------------------------------------------------------------
(* Properties.                                                             *)

Rec == [feed : FeedNames \cup {None}, id : Ids \cup Synthetic,
        seq : 0 .. SeqModulus - 1]

\* Every variable keeps its type; a list under construction holds only live
\* records of the feeds already visited, and no frame is longer than the cap its
\* buffer is made for.
TypeOK ==
  /\ table \in [FeedNames -> [Ids -> Entry \cup {None}]]
  /\ pc \in {"waiting", "pruning", "sampling", "stopped"}
  /\ at \in 1 .. Len(Feeds) + 1 /\ (pc = "sampling" => at <= Len(Feeds))
  /\ due \in BOOLEAN /\ cancelled \in BOOLEAN
  /\ seq \in 0 .. SeqModulus - 1 /\ genSeq \in 0 .. SeqModulus - 1
  /\ states \subseteq Rec
  /\ \A r \in states : Live(r) /\ Rank(r) < at
  /\ Cardinality(frame.recs) <= MaxEntities
  /\ frame.recs \subseteq Rec /\ frame.count \in 0 .. CountModulus - 1
  /\ steady \subseteq FeedNames \X Ids

Finishes == pc = "pruning" /\ pc' = "waiting"

\* An entity active all through the tick is in the frame: synthetic data never
\* displaces it, and when the frame is full, only records of its own feed or of an
\* earlier one do.
Complete ==
  \A p \in steady :
    \/ \E r \in frame'.recs : r.feed = p[1] /\ r.id = p[2] /\ r.seq = seq
    \/ /\ Cardinality(frame'.recs) = MaxEntities
       /\ \A r \in frame'.recs : Live(r) /\ Rank(r) <= FeedRank(p[1])

\* "Total frame size: 16 + (N x 64) bytes" (entity-model.md:126), N being the
\* header's count, as long as the cap is below the count's modulus.
Counted == MaxEntities < CountModulus => frame'.count = Cardinality(frame'.recs)

\* No live record bears a number that one of the last frame bore: the server's
\* filter, which skips a number it has sent (server.go:190-195), hides no update.
Renumbered ==
  \A r \in frame.recs, s \in frame'.recs : Live(r) /\ Live(s) => r.seq # s.seq

\* Whatever the decoders do during a tick, the frame at its end leaves out no
\* entity that stayed active, is counted right and bears fresh numbers.
CompleteFrames == [][Finishes => Complete /\ Counted /\ Renumbered]_vars

\* An entity that says nothing any more leaves its decoder's table and the
\* frames, as long as the pipeline runs.
SilentLeave ==
  \A f \in FeedNames, i \in Ids :
    \/ []<><<\E p \in BOOLEAN : Hear(f, i, p)>>_vars
    \/ <>cancelled
    \/ <>[](table[f][i] = None /\ \A r \in frame.recs : r.feed = f => r.id # i)

\* A pipeline whose context is cancelled stops, although ticks keep coming.
CancelStops == cancelled ~> pc = "stopped"

=============================================================================
