-------------------------- MODULE AisDecoderProofs --------------------------
(***************************************************************************)
(* Theorems about AisDecoder for every set of ships and stations, every    *)
(* set of messages with any lengths and sequence ids, every size of the    *)
(* globe and all limits of the checks.                                     *)
(***************************************************************************)
EXTENDS AisDecoder, TLAPS

-----------------------------------------------------------------------------
(***************************************************************************)
(* Type correctness.  TypeOK does not say that the sets are sequences of   *)
(* sentences under the keys there are; TypeInv does.                       *)
(***************************************************************************)

FragTypeInv ==
  /\ fragments \in [FragKeys -> Seq(Sentences) \cup {NoSet}]
  /\ intact \in [FragKeys -> Sentences \cup {NothingIntact}]
  /\ \A k \in FragKeys : fragments[k] # NoSet => Len(fragments[k]) \in 1 .. MaxPending

TrackTypeInv ==
  /\ vessels \in [Stations -> Vessel \cup {NoVessel}]
  /\ truth \in [Ships -> Cells] /\ honest \in [Ships -> BOOLEAN]

TypeInv == FragTypeInv /\ TrackTypeInv

\* A sentence is one of its message's, and its message has a key.
LEMMA SentenceType ==
  ASSUME NEW s \in Sentences
  PROVE  /\ s.msg \in Messages /\ FragsOf[s.msg] \in Nat \ {0, 1}
         /\ s.num \in 1 .. FragsOf[s.msg]
         /\ s = [msg |-> s.msg, num |-> s.num]
         /\ Key(s.msg) \in FragKeys
<1>1. PICK m \in Messages : s \in {[msg |-> m, num |-> n] : n \in 1 .. FragsOf[m]}
  BY DEF Sentences
<1>2. PICK n \in 1 .. FragsOf[m] : s = [msg |-> m, num |-> n]
  BY <1>1
<1> QED BY <1>2, FragsAssumption DEF FragKeys

\* What a set becomes when it takes in a sentence.
LEMMA ExtendedType ==
  ASSUME FragTypeInv, NEW s \in Sentences
  PROVE  /\ Extended(s) \in Seq(Sentences) /\ Len(Extended(s)) \in Nat \ {0}
         /\ Extended(s) # NoSet
<1>1. fragments[Key(s.msg)] \in Seq(Sentences) \cup {NoSet}
  BY SentenceType DEF FragTypeInv
<1>2. Extended(s) \in Seq(Sentences) /\ Len(Extended(s)) \in Nat \ {0}
  BY <1>1 DEF Extended
<1> QED BY <1>2, FragsAssumption

LEMMA CollectType ==
  ASSUME FragTypeInv, NEW s \in Sentences, Collect(s)
  PROVE  FragTypeInv'
<1> DEFINE k == Key(s.msg)
<1>1. k \in FragKeys
  BY SentenceType
<1>2. intact' \in [FragKeys -> Sentences \cup {NothingIntact}]
  BY <1>1 DEF Collect, FragTypeInv
<1>3. CASE ~Accepted(s)
  BY <1>2, <1>3 DEF Collect, FragTypeInv
<1>4. CASE Accepted(s)
  <2> DEFINE new == IF Completes(s) THEN NoSet ELSE Extended(s)
  <2>1. fragments' = [fragments EXCEPT ![k] = new]
    BY <1>4 DEF Collect
  <2>2. Len(Extended(s)) \in 1 .. MaxPending
    BY <1>4, ExtendedType, FragsAssumption DEF Collect
  <2>3. new \in Seq(Sentences) \cup {NoSet} /\ (new # NoSet => Len(new) \in 1 .. MaxPending)
    BY <2>2, ExtendedType
  <2> HIDE DEF new, k
  <2>4. fragments' \in [FragKeys -> Seq(Sentences) \cup {NoSet}]
    BY <1>1, <2>1, <2>3 DEF FragTypeInv
  <2>5. \A j \in FragKeys : fragments'[j] = IF j = k THEN new ELSE fragments[j]
    BY <2>1 DEF FragTypeInv
  <2> QED BY <1>2, <2>3, <2>4, <2>5 DEF FragTypeInv
<1> QED BY <1>3, <1>4

\* The entry a message starts from is a vessel's.
LEMMA SeenType ==
  ASSUME TrackTypeInv, NEW m \in Stations
  PROVE  Seen(m) \in Vessel
<1>1. /\ GapLimit \in Nat \ {0} /\ SeenLimit \in Nat \ {0} /\ 0 \in Cells
  BY ScaleAssumption DEF Cells
<1>2. CASE vessels[m] = NoVessel
  BY <1>1, <1>2 DEF Seen, Vessel
<1>3. CASE vessels[m] # NoVessel
  <2>1. vessels[m] \in Vessel
    BY <1>3 DEF TrackTypeInv
  <2>2. Seen(m) = [vessels[m] EXCEPT !.seen = 0]
    BY <1>3 DEF Seen
  <2> QED BY <1>1, <2>1, <2>2 DEF Vessel
<1> QED BY <1>2, <1>3

\* A message that places a vessel places it where it says, now; any other leaves
\* position and time of position alone.
Places(v, w, lon) ==
  \/ lon \in Cells /\ w.lon = lon /\ w.posAge = 0
  \/ w.lon = v.lon /\ w.valid = v.valid /\ w.posAge = v.posAge

\* A message that is checked does not make a cargo ship faster than 50 knots.
Tames(v, w) == Cargo(w) /\ w.speed # v.speed => w.speed <= 50

\* An entry that takes a position takes nothing else.
LEMMA PlacedType ==
  ASSUME NEW v \in Vessel, NEW lon \in Cells
  PROVE  LET w == Placed(v, lon)
         IN  /\ w \in Vessel /\ w.lon = lon /\ w.posAge = 0
             /\ w.type = v.type /\ w.speed = v.speed
<1>1. 0 \in 0 .. GapLimit
  BY ScaleAssumption
<1> DEFINE u == [v EXCEPT !.lon = lon, !.valid = TRUE]
           w == [u EXCEPT !.posAge = 0]
<1>2. w = Placed(v, lon)
  BY DEF Placed
<1>3. /\ u \in Vessel /\ u.lon = lon
      /\ u.type = v.type /\ u.speed = v.speed
  BY DEF Vessel
<1> HIDE DEF u
<1>4. /\ w \in Vessel /\ w.lon = lon /\ w.posAge = 0
      /\ w.type = v.type /\ w.speed = v.speed
  BY <1>1, <1>3 DEF Vessel
<1> HIDE DEF w
<1> QED BY <1>2, <1>4

\* The sanity checks of the reports of types 1-3, 18 and 19.
LEMMA CheckedType ==
  ASSUME NEW v \in Vessel, NEW type \in Types \cup {0},
         NEW lon \in Cells \cup {NoPosition}, NEW sog \in Sogs
  PROVE  LET w == Checked(v, type, lon, sog)
         IN  w \in Vessel /\ Places(v, w, lon) /\ Tames(v, w)
<1> DEFINE t == [v EXCEPT !.type = type]
           p == IF lon # NoPosition /\ SpeedOK(t, sog) /\ PositionOK(t, lon)
                THEN Placed(t, lon) ELSE t
           speed == IF lon # NoPosition /\ SpeedOK(t, sog) /\ sog >= 0
                    THEN sog ELSE p.speed
           w == [p EXCEPT !.speed = speed]
<1>0. GapLimit \in Nat /\ sog \in Int /\ NoPosition \notin Cells
  BY ScaleAssumption DEF Cells, NoPosition
<1>1. /\ t \in Vessel /\ t.type = type /\ t.speed = v.speed /\ t.lon = v.lon
      /\ t.valid = v.valid /\ t.posAge = v.posAge
  BY DEF Vessel
<1> HIDE DEF t
<1>2. /\ p \in Vessel /\ p.type = type /\ p.speed = v.speed /\ Places(v, p, lon)
  <2>1. CASE lon # NoPosition /\ SpeedOK(t, sog) /\ PositionOK(t, lon)
    <3>1. p = Placed(t, lon) /\ lon \in Cells
      BY <2>1
    <3>2. /\ p \in Vessel /\ p.lon = lon /\ p.posAge = 0
          /\ p.type = t.type /\ p.speed = t.speed
      BY <1>1, <3>1, PlacedType
    <3> QED BY <1>1, <3>1, <3>2 DEF Places
  <2>2. CASE ~(lon # NoPosition /\ SpeedOK(t, sog) /\ PositionOK(t, lon))
    BY <1>1, <2>2 DEF Places
  <2> QED BY <2>1, <2>2
<1> HIDE DEF p
<1>3. /\ speed \in Nat
      /\ speed # v.speed => SpeedOK(t, sog) /\ speed = sog
  BY <1>0, <1>2 DEF Vessel
<1> HIDE DEF speed
<1>4. /\ w \in Vessel /\ w.type = type /\ w.speed = speed /\ w.lon = p.lon
      /\ w.valid = p.valid /\ w.posAge = p.posAge
  BY <1>2, <1>3 DEF Vessel
<1> HIDE DEF w
<1>5. Places(v, w, lon)
  BY <1>2, <1>4 DEF Places
<1>6. Tames(v, w)
  <2>1. Cargo(w) <=> Cargo(t)
    BY <1>1, <1>4 DEF Cargo
  <2> QED BY <1>3, <1>4, <2>1 DEF Tames, SpeedOK
<1>7. w = Checked(v, type, lon, sog)
  BY DEF w, speed, p, t, Checked
<1> QED BY <1>4, <1>5, <1>6, <1>7

\* Every message that names a ship updates its entry, if at all, in a way that
\* places it or leaves its position alone, and tames it.
LEMMA ShipUpdates ==
  ASSUME TrackTypeInv, NEW m \in Ships,
         ShipReport(m) \/ \E type \in Types : StaticData(m, type)
  PROVE  \E w \in Vessel, lon \in Cells \cup {NoPosition} :
           Update(m, w, lon) /\ Places(Seen(m), w, lon) /\ Tames(Seen(m), w)
<1>1. /\ Seen(m) \in Vessel /\ Seen(m).type \in Types \cup {0}
      /\ Reported(m) \subseteq Cells \cup {NoPosition}
  <2>1. Seen(m) \in Vessel
    BY SeenType DEF Stations
  <2> QED BY <2>1, ScaleAssumption DEF Vessel, Reported, TrackTypeInv
<1>2. ASSUME NEW lon \in Reported(m), NEW sog \in Sogs,
             PositionReport(m, lon, sog)
      PROVE  \E w \in Vessel :
               Update(m, w, lon) /\ Places(Seen(m), w, lon) /\ Tames(Seen(m), w)
  BY <1>1, <1>2, CheckedType DEF PositionReport
<1>3. ASSUME NEW lon \in Reported(m), NEW sog \in Sogs, NEW type \in Types,
             ExtendedReport(m, type, lon, sog)
      PROVE  \E w \in Vessel :
               Update(m, w, lon) /\ Places(Seen(m), w, lon) /\ Tames(Seen(m), w)
  BY <1>1, <1>3, CheckedType DEF ExtendedReport
<1>4. ASSUME NEW type \in Types
      PROVE  LET w == [Seen(m) EXCEPT !.type = type]
             IN  /\ w \in Vessel /\ Places(Seen(m), w, NoPosition)
                 /\ Tames(Seen(m), w)
  BY <1>1 DEF Vessel, Places, Tames
<1>5. Places(Seen(m), Seen(m), NoPosition) /\ Tames(Seen(m), Seen(m))
  BY DEF Places, Tames
<1> QED
  BY <1>1, <1>2, <1>3, <1>4, <1>5 DEF ShipReport, StaticData, NameOnly

\* Messages of other stations update the entry of a station.
LEMMA OtherUpdates ==
  ASSUME TrackTypeInv, NEW m \in Unchecked, UncheckedReport(m)
  PROVE  \E w \in Vessel, lon \in Cells \cup {NoPosition} : Update(m, w, lon)
<1>0. /\ Seen(m) \in Vessel /\ GapLimit \in Nat
      /\ {NoPosition} \cup Glitches \subseteq Cells \cup {NoPosition}
  BY SeenType, ScaleAssumption DEF Stations
<1>1. ASSUME NEW v \in Vessel, NEW lon \in {NoPosition} \cup Glitches
      PROVE  Unverified(v, lon) \in Vessel
  <2>1. CASE lon = NoPosition
    BY <2>1 DEF Unverified
  <2>2. CASE lon # NoPosition
    <3>1. lon \in Cells
      BY <1>0, <2>2
    <3> QED BY <2>2, <3>1, PlacedType DEF Unverified
  <2> QED BY <2>1, <2>2
<1>2. [Seen(m) EXCEPT !.type = 0] \in Vessel
  BY <1>0 DEF Vessel
<1>3. ASSUME NEW v \in Vessel, NEW sog \in Sogs
      PROVE  [v EXCEPT !.speed = IF sog >= 0 THEN sog ELSE @] \in Vessel
  <2>1. (IF sog >= 0 THEN sog ELSE v.speed) \in Nat
    BY ScaleAssumption DEF Vessel
  <2> QED BY <2>1 DEF Vessel
<1>4. PICK lon \in {NoPosition} \cup Glitches :
        \/ BaseStationReport(m, lon) \/ AtoNReport(m, lon)
        \/ \E sog \in Sogs : SarReport(m, lon, sog)
  BY DEF UncheckedReport
<1>5. \E w \in Vessel : Update(m, w, lon)
  <2>1. CASE BaseStationReport(m, lon)
    BY <1>1, <1>2, <2>1 DEF BaseStationReport
  <2>2. CASE AtoNReport(m, lon)
    BY <1>0, <1>1, <2>2 DEF AtoNReport
  <2>3. ASSUME NEW sog \in Sogs, SarReport(m, lon, sog)
        PROVE  \E w \in Vessel : Update(m, w, lon)
    BY <1>0, <1>1, <1>3, <2>3 DEF SarReport
  <2> QED BY <1>4, <2>1, <2>2, <2>3
<1> QED BY <1>0, <1>5

LEMMA UpdateType ==
  ASSUME TrackTypeInv, NEW m \in Stations, NEW w \in Vessel, NEW lon, Update(m, w, lon)
  PROVE  TrackTypeInv'
<1>1. vessels' \in [Stations -> Vessel \cup {NoVessel}]
  BY DEF Update, TrackTypeInv
<1>2. honest' \in [Ships -> BOOLEAN]
  <2>1. \A s \in Ships : (IF s = m /\ w.posAge = 0 /\ w.lon = lon THEN lon = truth[s]
                         ELSE honest[s]) \in BOOLEAN
    BY DEF TrackTypeInv
  <2> QED BY <2>1 DEF Update
<1> QED BY <1>1, <1>2 DEF Update, TrackTypeInv

LEMMA ClockType ==
  ASSUME TrackTypeInv, TimePasses \/ PruneStale
  PROVE  TrackTypeInv'
<1>1. CASE TimePasses
  <2>1. ASSUME NEW v \in Vessel
        PROVE  [v EXCEPT !.posAge = Older(@, GapLimit),
                         !.seen = Older(@, SeenLimit)] \in Vessel
    <3>1. Older(v.posAge, GapLimit) \in 0 .. GapLimit
      BY ScaleAssumption DEF Older, Vessel
    <3>2. Older(v.seen, SeenLimit) \in 0 .. SeenLimit
      BY ScaleAssumption DEF Older, Vessel
    <3> QED BY <3>1, <3>2 DEF Vessel
  <2>2. vessels' \in [Stations -> Vessel \cup {NoVessel}]
    BY <1>1, <2>1 DEF TimePasses, TrackTypeInv
  <2>3. truth' \in [Ships -> Cells]
    BY <1>1 DEF TimePasses
  <2> QED BY <1>1, <2>2, <2>3 DEF TimePasses, TrackTypeInv
<1>2. CASE PruneStale
  <2>1. vessels' \in [Stations -> Vessel \cup {NoVessel}]
    BY <1>2 DEF PruneStale, TrackTypeInv
  <2>2. honest' \in [Ships -> BOOLEAN]
    <3>1. \A m \in Ships : (vessels'[m] = NoVessel \/ honest[m]) \in BOOLEAN
      OBVIOUS
    <3> QED BY <1>2, <3>1 DEF PruneStale
  <2> QED BY <1>2, <2>1, <2>2 DEF PruneStale, TrackTypeInv
<1> QED BY <1>1, <1>2

\* A sentence that completes a message of a ship is a message of that ship.
LEMMA FragmentUpdates ==
  ASSUME NEW s \in Sentences, FeedFragment(s)
  PROVE  \/ UNCHANGED trackVars
         \/ \E m \in Ships : \E type \in Types : StaticData(m, type)
BY StaticAssumption DEF FeedFragment, Decode

LEMMA TypeInit == Init => TypeInv
<1> SUFFICES ASSUME Init PROVE TypeInv
  OBVIOUS
<1>1. TrackTypeInv
  BY DEF Init, TrackInit, TrackTypeInv
<1>2. FragTypeInv
  BY DEF Init, FragInit, FragTypeInv
<1> QED BY <1>1, <1>2 DEF TypeInv

LEMMA TypeNext == TypeInv /\ [Next]_vars => TypeInv'
<1> SUFFICES ASSUME TypeInv, [Next]_vars PROVE TypeInv'
  OBVIOUS
<1>0. FragTypeInv /\ TrackTypeInv
  BY DEF TypeInv
<1>1. ASSUME UNCHANGED trackVars PROVE TrackTypeInv'
  BY <1>0, <1>1 DEF trackVars, TrackTypeInv
<1>2. ASSUME UNCHANGED fragVars PROVE FragTypeInv'
  BY <1>0, <1>2 DEF fragVars, FragTypeInv
<1>3. ASSUME NEW m \in Ships,
             ShipReport(m) \/ \E type \in Types : StaticData(m, type)
      PROVE  TrackTypeInv'
  BY <1>0, <1>3, ShipUpdates, UpdateType DEF Stations
<1>4. ASSUME NEW m \in Unchecked, UncheckedReport(m)
      PROVE  TrackTypeInv'
  BY <1>0, <1>4, OtherUpdates, UpdateType DEF Stations
<1>5. CASE FeedSingle
  BY <1>2, <1>3, <1>4, <1>5 DEF FeedSingle, TypeInv
<1>6. ASSUME NEW s \in Sentences, FeedFragment(s)
      PROVE  TypeInv'
  <2>1. FragTypeInv'
    BY <1>0, <1>6, CollectType DEF FeedFragment
  <2>2. TrackTypeInv'
    BY <1>1, <1>3, <1>6, FragmentUpdates
  <2> QED BY <2>1, <2>2 DEF TypeInv
<1>7. CASE Clock \/ Prune
  BY <1>0, <1>2, <1>7, ClockType DEF Clock, Prune, TypeInv
<1>8. CASE UNCHANGED vars
  BY <1>1, <1>2, <1>8 DEF vars, TypeInv
<1> QED BY <1>5, <1>6, <1>7, <1>8 DEF Next

\* The types hold in every behaviour.
LEMMA TypeInvariant == Spec => []TypeInv
BY TypeInit, TypeNext, PTL DEF Spec

\* The decoder's sets and vessels keep their types and bounds.
THEOREM TypeCorrect == Spec => []TypeOK
<1>1. TypeInv => TypeOK
  <2> SUFFICES ASSUME TypeInv PROVE TypeOK
    OBVIOUS
  <2>1. ASSUME NEW k \in FragKeys, fragments[k] # NoSet
        PROVE  /\ Len(fragments[k]) \in 1 .. MaxPending
               /\ \A i \in 1 .. Len(fragments[k]) : fragments[k][i] \in Sentences
    BY <2>1 DEF TypeInv, FragTypeInv
  <2> QED BY <2>1 DEF TypeInv, TrackTypeInv, TypeOK
<1> QED BY <1>1, TypeInvariant, PTL

-----------------------------------------------------------------------------
(***************************************************************************)
(* The assembly of messages.  As long as a message has arrived in order    *)
(* and is not complete, its set holds exactly what has arrived of it.      *)
(***************************************************************************)

\* The first n sentences of a message.
Prefix(m, n) == [i \in 1 .. n |-> [msg |-> m, num |-> i]]

PrefixInv ==
  \A k \in FragKeys : LET t == intact[k] IN
    t.num > 0 /\ t.num < FragsOf[t.msg] => fragments[k] = Prefix(t.msg, t.num)

LEMMA FirstPrefix ==
  ASSUME NEW m
  PROVE  Prefix(m, 1) = <<[msg |-> m, num |-> 1]>>
BY DEF Prefix

\* A prefix with the sentence after it is the next prefix.
LEMMA NextPrefix ==
  ASSUME NEW m \in Messages, NEW n \in Nat, n \in 1 .. FragsOf[m], n + 1 <= FragsOf[m]
  PROVE  /\ Prefix(m, n) \in Seq(Sentences)
         /\ Append(Prefix(m, n), [msg |-> m, num |-> n + 1]) = Prefix(m, n + 1)
<1>1. Prefix(m, n) \in Seq(Sentences) /\ Len(Prefix(m, n)) = n
  <2>1. \A i \in 1 .. n : [msg |-> m, num |-> i] \in Sentences
    <3>1. \A i \in 1 .. n : i \in 1 .. FragsOf[m]
      BY FragsAssumption
    <3> QED BY <3>1 DEF Sentences
  <2> QED BY <2>1 DEF Prefix
<1>2. ASSUME NEW i \in 1 .. n + 1
      PROVE  Append(Prefix(m, n), [msg |-> m, num |-> n + 1])[i] = Prefix(m, n + 1)[i]
  BY <1>1 DEF Prefix
<1>3. /\ Len(Append(Prefix(m, n), [msg |-> m, num |-> n + 1])) = n + 1
      /\ DOMAIN Append(Prefix(m, n), [msg |-> m, num |-> n + 1]) = 1 .. n + 1
      /\ DOMAIN Prefix(m, n + 1) = 1 .. n + 1
  BY <1>1 DEF Prefix
<1> QED BY <1>1, <1>2, <1>3 DEF Prefix

LEMMA PrefixCollect ==
  ASSUME FragTypeInv, PrefixInv, NEW s \in Sentences, Collect(s)
  PROVE  PrefixInv'
<1> DEFINE k == Key(s.msg)
           t == intact[k]
<1>1. /\ k \in FragKeys /\ s.msg \in Messages /\ FragsOf[s.msg] \in Nat \ {0, 1}
      /\ s.num \in 1 .. FragsOf[s.msg] /\ s = [msg |-> s.msg, num |-> s.num]
  BY SentenceType
<1>2. ASSUME NEW j \in FragKeys, j # k
      PROVE  intact'[j] = intact[j] /\ fragments'[j] = fragments[j]
  BY <1>1, <1>2 DEF Collect, FragTypeInv
<1>3. LET u == intact'[k] IN
        u.num > 0 /\ u.num < FragsOf[u.msg] => fragments'[k] = Prefix(u.msg, u.num)
  <2>1. intact'[k] = IF s.num = 1 \/ (t.msg = s.msg /\ t.num = s.num - 1) THEN s
                     ELSE NothingIntact
    BY <1>1 DEF Collect, FragTypeInv
  <2>2. Accepted(s) /\ s.num < FragsOf[s.msg] => fragments'[k] = Extended(s)
    BY <1>1 DEF Collect, FragTypeInv, Completes
  <2>3. CASE s.num = 1
    <3>1. Extended(s) = Prefix(s.msg, s.num)
      BY <1>1, <2>3, FirstPrefix DEF Extended
    <3> QED BY <2>1, <2>2, <2>3, <3>1 DEF Accepted
  <2>4. CASE s.num # 1 /\ t.msg = s.msg /\ t.num = s.num - 1
    <3>1. t.num \in Nat /\ t.num \in 1 .. FragsOf[s.msg] /\ s.num = t.num + 1
      BY <1>1, <2>4
    <3>2. fragments[k] = Prefix(s.msg, t.num)
      BY <1>1, <2>4, <3>1 DEF PrefixInv
    <3>3. /\ Prefix(s.msg, t.num) \in Seq(Sentences)
          /\ Append(Prefix(s.msg, t.num), s) = Prefix(s.msg, s.num)
      BY <1>1, <3>1, NextPrefix
    <3>4. fragments[k] # NoSet
      BY <3>2, <3>3, FragsAssumption
    <3>5. Accepted(s) /\ Extended(s) = Prefix(s.msg, s.num)
      BY <2>4, <3>2, <3>3, <3>4 DEF Accepted, Extended
    <3> QED BY <2>1, <2>2, <2>4, <3>5
  <2>5. CASE s.num # 1 /\ ~(t.msg = s.msg /\ t.num = s.num - 1)
    BY <2>1, <2>5 DEF NothingIntact
  <2> QED BY <2>3, <2>4, <2>5
<1> QED BY <1>2, <1>3 DEF PrefixInv

\* A step that is not a sentence's leaves the sets alone.
LEMMA FragNext ==
  [Next]_vars => UNCHANGED fragVars \/ \E s \in Sentences : Collect(s)
BY DEF Next, FeedSingle, FeedFragment, Clock, Prune, vars

LEMMA PrefixInvariant == Spec => []PrefixInv
<1>1. Init => PrefixInv
  BY DEF Init, FragInit, PrefixInv, NothingIntact
<1>2. TypeInv /\ PrefixInv /\ [Next]_vars => PrefixInv'
  <2>1. PrefixInv /\ UNCHANGED fragVars => PrefixInv'
    BY DEF PrefixInv, fragVars
  <2> QED BY <2>1, FragNext, PrefixCollect DEF TypeInv
<1> QED BY <1>1, <1>2, TypeInvariant, PTL DEF Spec

\* A message whose sentences arrive one after the other is assembled as it was
\* sent, whatever was lost, repeated or left over in its set before.
THEOREM MessagesAssemble == Spec => []WholeMessagesAssemble
<1>1. TypeInv /\ PrefixInv => WholeMessagesAssemble
  <2> SUFFICES ASSUME PrefixInv, NEW s \in Sentences, ArrivesWhole(s)
               PROVE  Accepted(s) /\ Extended(s) = Whole(s.msg)
    BY DEF WholeMessagesAssemble
  <2> DEFINE n == s.num - 1
  <2>1. /\ Key(s.msg) \in FragKeys /\ s.msg \in Messages
        /\ FragsOf[s.msg] \in Nat \ {0, 1}
        /\ s.num = FragsOf[s.msg] /\ s = [msg |-> s.msg, num |-> s.num]
    BY SentenceType DEF ArrivesWhole
  <2>2. n \in Nat /\ n \in 1 .. FragsOf[s.msg] /\ n + 1 = s.num /\ s.num # 1
    BY <2>1
  <2>3. intact[Key(s.msg)].msg = s.msg /\ intact[Key(s.msg)].num = n
    BY DEF ArrivesWhole
  <2> HIDE DEF n
  <2>4. fragments[Key(s.msg)] = Prefix(s.msg, n)
    BY <2>1, <2>2, <2>3 DEF PrefixInv
  <2>5. /\ Prefix(s.msg, n) \in Seq(Sentences)
        /\ Append(Prefix(s.msg, n), s) = Prefix(s.msg, s.num)
    BY <2>1, <2>2, NextPrefix
  <2>6. fragments[Key(s.msg)] # NoSet
    BY <2>4, <2>5, FragsAssumption
  <2>7. Prefix(s.msg, s.num) = Whole(s.msg)
    BY <2>1 DEF Prefix, Whole
  <2> QED BY <2>2, <2>4, <2>5, <2>6, <2>7 DEF Accepted, Extended
<1> QED BY <1>1, TypeInvariant, PrefixInvariant, PTL

\* No set of fragments is ever started by a continuation.
THEOREM FirstSentenceFirst == Spec => []SetsStartWithFirst
<1>1. Init => SetsStartWithFirst
  BY DEF Init, FragInit, SetsStartWithFirst
<1>2. TypeInv /\ SetsStartWithFirst /\ [Next]_vars => SetsStartWithFirst'
  <2>1. SetsStartWithFirst /\ UNCHANGED fragVars => SetsStartWithFirst'
    BY DEF SetsStartWithFirst, fragVars
  <2>2. ASSUME FragTypeInv, SetsStartWithFirst, NEW s \in Sentences, Collect(s)
        PROVE  SetsStartWithFirst'
    <3> DEFINE k == Key(s.msg)
    <3>1. k \in FragKeys
      BY SentenceType
    <3>2. \A j \in FragKeys : j # k => fragments'[j] = fragments[j]
      BY <2>2, <3>1 DEF Collect, FragTypeInv
    <3>3. ~Accepted(s) => fragments'[k] = fragments[k]
      BY <2>2 DEF Collect
    <3>4. Accepted(s) => fragments'[k] \in {NoSet, Extended(s)}
      BY <2>2, <3>1 DEF Collect, FragTypeInv
    <3>5. Accepted(s) => Extended(s)[1].num = 1
      <4> SUFFICES ASSUME Accepted(s) PROVE Extended(s)[1].num = 1
        OBVIOUS
      <4>1. CASE s.num = 1
        BY <4>1 DEF Extended
      <4>2. CASE s.num # 1
        <5>1. fragments[k] # NoSet
          BY <4>2 DEF Accepted
        <5>2. /\ fragments[k] \in Seq(Sentences) /\ Len(fragments[k]) \in Nat \ {0}
              /\ fragments[k][1].num = 1
          BY <2>2, <3>1, <5>1 DEF FragTypeInv, SetsStartWithFirst
        <5>3. Extended(s) = Append(fragments[k], s)
          BY <4>2, <5>1 DEF Extended
        <5> QED BY <5>2, <5>3
      <4> QED BY <4>1, <4>2
    <3> QED BY <2>2, <3>2, <3>3, <3>4, <3>5 DEF SetsStartWithFirst
  <2> QED BY <2>1, <2>2, FragNext DEF TypeInv
<1> QED BY <1>1, <1>2, TypeInvariant, PTL DEF Spec

-----------------------------------------------------------------------------
(***************************************************************************)
(* The sanity checks.  The position of an honest entry is no further from  *)
(* the ship, the shorter way round, than the ship can have sailed since.   *)
(***************************************************************************)

\* The way between a and b, round the globe if it is shorter, is at most d.
Within(a, b, d) == Distance(a, b) <= d \/ (Closed /\ Lons - Distance(a, b) <= d)

TruthInv ==
  \A m \in Ships :
    /\ honest[m] /\ vessels[m] # NoVessel
    /\ vessels[m].valid /\ vessels[m].posAge < GapLimit
    => Within(vessels[m].lon, truth[m], vessels[m].posAge)

\* A ship that moves by one cell comes at most one cell further away.
LEMMA WithinMoves ==
  ASSUME NEW a \in Cells, NEW b \in Cells, NEW c \in Cells, NEW d \in Nat,
         Within(a, b, d), Neighbour(b, c)
  PROVE  Within(a, c, d + 1)
BY ScaleAssumption DEF Within, Neighbour, Distance, Cells

LEMMA TruthUpdate ==
  ASSUME TrackTypeInv, TruthInv, NEW m \in Ships, NEW w \in Vessel,
         NEW lon \in Cells \cup {NoPosition}, Update(m, w, lon),
         Places(Seen(m), w, lon)
  PROVE  TruthInv'
<1>1. m \in Stations /\ truth' = truth /\ truth[m] \in Cells
  BY DEF Stations, Update, TrackTypeInv
<1>2. \A s \in Ships : s # m => vessels'[s] = vessels[s] /\ honest'[s] = honest[s]
  BY DEF Update, TrackTypeInv, Stations
<1>3. /\ vessels'[m] = w
      /\ honest'[m] = IF w.posAge = 0 /\ w.lon = lon THEN lon = truth[m]
                      ELSE honest[m]
  BY <1>1 DEF Update, TrackTypeInv
<1>4. ASSUME honest'[m], w.valid, w.posAge < GapLimit
      PROVE  Within(w.lon, truth[m], w.posAge)
  <2>1. CASE w.posAge = 0 /\ w.lon = lon
    <3>1. w.lon = truth[m]
      BY <1>3, <1>4, <2>1
    <3>2. truth[m] \in Int
      BY <1>1, ScaleAssumption DEF Cells
    <3>3. Distance(w.lon, truth[m]) = 0
      BY <3>1, <3>2 DEF Distance
    <3> QED BY <2>1, <3>3 DEF Within
  <2>2. CASE ~(w.posAge = 0 /\ w.lon = lon)
    <3>1. honest[m] /\ w.lon = Seen(m).lon /\ w.valid = Seen(m).valid
          /\ w.posAge = Seen(m).posAge
      BY <1>3, <1>4, <2>2 DEF Places
    <3>2. vessels[m] # NoVessel
      BY <1>4, <3>1 DEF Seen
    <3>3. /\ w.lon = vessels[m].lon /\ w.valid = vessels[m].valid
          /\ w.posAge = vessels[m].posAge
      BY <1>1, <3>1, <3>2 DEF Seen, TrackTypeInv, Vessel
    <3> QED BY <1>4, <3>1, <3>2, <3>3 DEF TruthInv
  <2> QED BY <2>1, <2>2
<1> QED BY <1>1, <1>2, <1>3, <1>4 DEF TruthInv, Within

LEMMA TruthOther ==
  ASSUME TrackTypeInv, TruthInv, NEW m \in Unchecked, NEW w, NEW lon,
         Update(m, w, lon)
  PROVE  TruthInv'
<1>1. \A s \in Ships : s # m
  BY ScaleAssumption
<1>2. \A s \in Ships : vessels'[s] = vessels[s] /\ honest'[s] = honest[s]
  BY <1>1 DEF Update, TrackTypeInv, Stations
<1> QED BY <1>2 DEF Update, TruthInv, Within

LEMMA TruthClock ==
  ASSUME TrackTypeInv, TruthInv, TimePasses
  PROVE  TruthInv'
<1> SUFFICES ASSUME NEW m \in Ships, honest'[m], vessels'[m] # NoVessel,
                    vessels'[m].valid, vessels'[m].posAge < GapLimit
             PROVE  Within(vessels'[m].lon, truth'[m], vessels'[m].posAge)
  BY DEF TruthInv, Within
<1>1. m \in Stations /\ GapLimit \in Nat
  BY ScaleAssumption DEF Stations
<1>2. vessels[m] # NoVessel /\ vessels[m] \in Vessel /\ honest[m]
  BY <1>1 DEF TimePasses, TrackTypeInv
<1>3. /\ vessels'[m].lon = vessels[m].lon /\ vessels'[m].valid = vessels[m].valid
      /\ vessels'[m].posAge = Older(vessels[m].posAge, GapLimit)
  BY <1>1, <1>2 DEF TimePasses, Vessel
<1>4. /\ vessels[m].posAge \in Nat /\ vessels[m].posAge < GapLimit
      /\ vessels'[m].posAge = vessels[m].posAge + 1
  BY <1>1, <1>2, <1>3 DEF Older, Vessel
<1>5. Within(vessels[m].lon, truth[m], vessels[m].posAge)
  BY <1>2, <1>3, <1>4 DEF TruthInv
<1>6. /\ Neighbour(truth[m], truth'[m]) /\ truth[m] \in Cells /\ truth'[m] \in Cells
      /\ vessels[m].lon \in Cells
  BY <1>2 DEF TimePasses, TrackTypeInv, Vessel
<1> QED BY <1>3, <1>4, <1>5, <1>6, WithinMoves

LEMMA TruthPrune ==
  ASSUME TrackTypeInv, TruthInv, PruneStale
  PROVE  TruthInv'
<1>1. ASSUME NEW m \in Ships, vessels'[m] # NoVessel
      PROVE  vessels'[m] = vessels[m] /\ honest'[m] = honest[m]
  <2>1. m \in Stations
    BY DEF Stations
  <2>2. vessels'[m] = vessels[m]
    BY <1>1, <2>1 DEF PruneStale
  <2>3. honest'[m] = (vessels'[m] = NoVessel \/ honest[m]) /\ honest[m] \in BOOLEAN
    BY DEF PruneStale, TrackTypeInv
  <2> QED BY <1>1, <2>2, <2>3
<1> QED BY <1>1 DEF PruneStale, TruthInv, Within

LEMMA TruthNext == TypeInv /\ TruthInv /\ [Next]_vars => TruthInv'
<1> SUFFICES ASSUME TypeInv, TruthInv, [Next]_vars PROVE TruthInv'
  OBVIOUS
<1>0. TrackTypeInv
  BY DEF TypeInv
<1>1. ASSUME NEW m \in Ships,
             ShipReport(m) \/ \E type \in Types : StaticData(m, type)
      PROVE  TruthInv'
  BY <1>0, <1>1, ShipUpdates, TruthUpdate
<1>2. ASSUME NEW m \in Unchecked, UncheckedReport(m)
      PROVE  TruthInv'
  BY <1>0, <1>2, OtherUpdates, TruthOther
<1>3. ASSUME UNCHANGED trackVars PROVE TruthInv'
  BY <1>3 DEF trackVars, TruthInv, Within
<1>4. ASSUME NEW s \in Sentences, FeedFragment(s)
      PROVE  TruthInv'
  BY <1>1, <1>3, <1>4, FragmentUpdates
<1>5. CASE Clock \/ Prune
  BY <1>0, <1>5, TruthClock, TruthPrune DEF Clock, Prune
<1> QED BY <1>1, <1>2, <1>3, <1>4, <1>5 DEF Next, FeedSingle, vars

\* A ship that reports where it is passes the jump check, unless it crossed the
\* 180th meridian, as long as the position it is compared with was true.
THEOREM TruthIsAccepted == Spec => []TruthAccepted
<1>1. Init => TruthInv
  BY DEF Init, TrackInit, TruthInv, Stations
<1>2. TypeInv /\ TruthInv => TruthAccepted
  <2> SUFFICES ASSUME TypeInv, TruthInv, NEW m \in Ships,
                      honest[m], vessels[m] # NoVessel,
                      ~AcrossMeridian(vessels[m].lon, truth[m]),
                      vessels[m].valid, vessels[m].posAge < GapLimit
               PROVE  Distance(truth[m], vessels[m].lon) <= JumpLimit
    BY DEF TruthAccepted, PositionOK
  <2> DEFINE a == vessels[m].lon
             b == truth[m]
             d == vessels[m].posAge
  <2>1. vessels[m] \in Vessel /\ b \in Cells
    BY DEF TypeInv, TrackTypeInv, Stations
  <2>2. a \in Cells /\ d \in Nat
    BY <2>1, ScaleAssumption DEF Vessel
  <2>3. Within(a, b, d) /\ d < GapLimit /\ ~AcrossMeridian(a, b)
    BY DEF TruthInv
  <2> HIDE DEF a, b, d
  <2>4. Distance(a, b) <= d
    BY <2>1, <2>2, <2>3, ScaleAssumption DEF Within, AcrossMeridian, Distance, Cells
  <2>5. Distance(b, a) <= JumpLimit
    BY <2>1, <2>2, <2>3, <2>4, ScaleAssumption, MotionAssumption DEF Distance, Cells
  <2> QED BY <2>5 DEF a, b
<1> QED BY <1>1, <1>2, TruthNext, TypeInvariant, PTL DEF Spec

\* No message gives a ship whose entry is of a cargo or tanker type a new speed
\* above 50 knots.
THEOREM CargoStaysSlow == Spec => CargoSpeedLimit
<1>1. ASSUME TypeInv, [Next]_vars, NEW m \in Ships, vessels'[m] # NoVessel,
             Cargo(vessels'[m]), vessels'[m].speed # Speed(vessels[m])
      PROVE  vessels'[m].speed <= 50
  <2>0. TrackTypeInv /\ m \in Stations
    BY <1>1 DEF TypeInv, Stations
  <2>1. ASSUME NEW s \in Ships,
               ShipReport(s) \/ \E type \in Types : StaticData(s, type)
        PROVE  vessels'[m].speed <= 50
    <3>1. PICK w \in Vessel, lon \in Cells \cup {NoPosition} :
            Update(s, w, lon) /\ Tames(Seen(s), w)
      BY <2>0, <2>1, ShipUpdates
    <3>2. CASE s # m
      BY <1>1, <2>0, <3>1, <3>2 DEF Update, TrackTypeInv, Speed
    <3>3. CASE s = m
      <4>1. vessels'[m] = w
        BY <2>0, <3>1, <3>3 DEF Update, TrackTypeInv
      <4>2. Seen(m).speed = Speed(vessels[m])
        BY <2>0 DEF Seen, Speed, TrackTypeInv, Vessel
      <4> QED BY <1>1, <3>1, <3>3, <4>1, <4>2 DEF Tames
    <3> QED BY <3>2, <3>3
  <2>2. ASSUME NEW s \in Unchecked, UncheckedReport(s)
        PROVE  vessels'[m].speed <= 50
    <3>1. PICK w \in Vessel, lon \in Cells \cup {NoPosition} : Update(s, w, lon)
      BY <2>0, <2>2, OtherUpdates
    <3>2. s # m
      BY ScaleAssumption
    <3> QED BY <1>1, <2>0, <3>1, <3>2 DEF Update, TrackTypeInv, Speed
  <2>3. ASSUME UNCHANGED trackVars PROVE vessels'[m].speed <= 50
    BY <1>1, <2>3 DEF trackVars, Speed
  <2>4. ASSUME NEW s \in Sentences, FeedFragment(s)
        PROVE  vessels'[m].speed <= 50
    BY <2>1, <2>3, <2>4, FragmentUpdates
  <2>5. CASE Clock
    BY <1>1, <2>0, <2>5 DEF Clock, TimePasses, TrackTypeInv, Vessel, Speed
  <2>6. CASE Prune
    BY <1>1, <2>0, <2>6 DEF Prune, PruneStale, Speed
  <2> QED BY <1>1, <2>1, <2>2, <2>3, <2>4, <2>5, <2>6 DEF Next, FeedSingle, vars
<1>2. TypeInv /\ [Next]_vars =>
        [\A m \in Ships :
           vessels'[m] # NoVessel /\ Cargo(vessels'[m])
             /\ vessels'[m].speed # Speed(vessels[m]) => vessels'[m].speed <= 50]_vars
  BY <1>1
<1> QED BY <1>2, TypeInvariant, PTL DEF Spec, CargoSpeedLimit

=============================================================================
