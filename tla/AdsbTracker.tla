----------------------------- MODULE AdsbTracker -----------------------------
(***************************************************************************)
(* The ADS-B decoder's table of aircraft (applications/adsb/decoder.go,    *)
(* cpr_local.go): what each kind of Mode-S message does to an aircraft, in *)
(* its two critical sections, and the pruning the pipeline does.           *)
(*                                                                         *)
(* A position travels in compact form (CPR): the circle is divided into    *)
(* EvenZones equal zones, or into OddZones, and a frame says where in its  *)
(* zone the aircraft is, not which zone that is.  The decoder finds the    *)
(* zone from an even and an odd frame together, or from the position it    *)
(* has.  The model keeps the latitude, in cells, and computes with whole   *)
(* numbers what the code computes with floats.  Frames on the ground use   *)
(* zones a quarter as wide.                                                *)
(***************************************************************************)
EXTENDS Integers, FiniteSets

CONSTANTS
  Planes,      \* aircraft
  EvenZones,   \* 60, scaled down
  OddZones,    \* 59
  EvenWidth,   \* 6 degrees, in cells
  OddWidth,    \* 360/59 degrees
  Route,       \* the cells the aircraft fly over
  NLBounds,    \* latitudes at which the number of longitude zones drops
  PairLimit,   \* 10 s, in steps of the clock
  ShortGap,    \* 60 s: from here on the jump limit is fixed
  Creep,       \* the jump allowed within a step
  Rate,        \* 0.25 degrees per second, in cells per step
  Jump,        \* 0.83 degrees
  SeenLimit,   \* 60 s, staleTimeout
  NoPlane,     \* no entry of the table
  NoCode,      \* a CPR slot that cannot be used
  Nothing      \* no message in hand

Circle == EvenZones * EvenWidth
Quarter == Circle \div 4

ASSUME ZoneAssumption ==
  /\ EvenZones \in Nat \ {0} /\ OddZones \in Nat \ {0}
  /\ EvenWidth \in Nat \ {0} /\ OddWidth \in Nat \ {0}
  /\ EvenWidth % 4 = 0 /\ OddWidth % 4 = 0
  /\ EvenZones * EvenWidth = OddZones * OddWidth
  /\ Route \subseteq -Quarter .. Quarter
  /\ NLBounds \subseteq Nat /\ IsFiniteSet(NLBounds)

ASSUME TimeAssumption ==
  /\ PairLimit \in Nat \ {0} /\ ShortGap \in Nat \ {0} /\ SeenLimit \in Nat
  /\ Creep \in Nat /\ Rate \in Nat /\ Jump \in Nat

VARIABLES
  aircraft,  \* Decoder.aircraft
  hand,      \* the message between decodeModeSLong's two critical sections
  truth,     \* where each aircraft really is
  grounded,  \* the aircraft that are on the ground
  honest     \* history: the table's position of it was true when accepted

vars == <<aircraft, hand, truth, grounded, honest>>

-----------------------------------------------------------------------------
(* Compact positions.                                                      *)

Encodings == {"air", "surface"}

\* Surface zones are a quarter as wide; a code is a fraction of the zone, in
\* parts of an airborne zone.
Scale(enc) == IF enc = "surface" THEN 4 ELSE 1
Width(enc, odd) == (IF odd THEN OddWidth ELSE EvenWidth) \div Scale(enc)
Code(enc, odd, p) == (p % Width(enc, odd)) * Scale(enc)

\* Go's math.Mod takes the sign of its first argument.
GoMod(a, b) == IF a >= 0 THEN a % b ELSE -((-a) % b)

Failed == [ok |-> FALSE, lat |-> 0]
Unbounded(x) == [ok |-> TRUE, lat |-> x]  \* fault: no latitude is impossible
Latitude(x) == IF x \in -Quarter .. Quarter THEN [ok |-> TRUE, lat |-> x] ELSE Failed

\* Fault: without the half, the zone below is as likely as the right one.
LocalFloor(enc, odd, ref, c) ==
  LET w == Width(enc, odd)
      off == c \div Scale(enc)
      j == (ref \div w) + ((GoMod(ref, w) - off) \div w)
  IN Latitude(w * j + off)

\* decodeCPRLocal, decodeCPRSurfaceLocal: the zone nearest to a reference.
LocalDecode(enc, odd, ref, c) ==
  LET w == Width(enc, odd)
      off == c \div Scale(enc)
      j == (ref \div w) + ((w + 2 * GoMod(ref, w) - 2 * off) \div (2 * w))
  IN Latitude(w * j + off)

Abs(x) == IF x < 0 THEN -x ELSE x
NL(lat) == Cardinality({b \in NLBounds : b <= Abs(lat)})

\* decodeCPRGlobal, decodeCPRSurfaceGlobal: the zone from an even and an odd
\* code; the two latitudes must lie in one band of longitude zones.
GlobalDecode(enc, e, o, odd) ==
  LET j == (2 * OddZones * e * OddWidth - 2 * EvenZones * o * EvenWidth
              + EvenWidth * OddWidth) \div (2 * EvenWidth * OddWidth)
      Turn(x) == IF x >= 3 * Quarter THEN x - Circle ELSE x
      even == Turn(Width(enc, FALSE) * (j % EvenZones) + e \div Scale(enc))
      odd_ == Turn(Width(enc, TRUE) * (j % OddZones) + o \div Scale(enc))
  IN IF NL(even) # NL(odd_) THEN Failed ELSE Latitude(IF odd THEN odd_ ELSE even)

-----------------------------------------------------------------------------
(* The table.                                                              *)

\* A frame's code with its age; enc, the encoding it came in, is history: the
\* code keeps no note of it.
Slot == [code : 0 .. Circle, age : 0 .. PairLimit - 1, enc : Encodings]

Plane == [valid : BOOLEAN, lat : -Quarter .. Quarter, posAge : 0 .. ShortGap,
          seen : 0 .. SeenLimit + 1, even : Slot \cup {NoCode}, odd : Slot \cup {NoCode}]

NewPlane == [valid |-> FALSE, lat |-> 0, posAge |-> ShortGap, seen |-> 0,
             even |-> NoCode, odd |-> NoCode]

MaxOf(a, b) == IF a < b THEN b ELSE a

\* validatePosition: below a minute the limit grows with the time since the last
\* accepted position, above it is fixed.
MaxDist(age) == IF age < ShortGap THEN MaxOf(Creep, Rate * age) ELSE Jump
Plausible(v, lat) == v.valid => Abs(lat - v.lat) <= MaxDist(v.posAge)

Fixed(v, lat) == [v EXCEPT !.lat = lat, !.valid = TRUE, !.posAge = 0]

Stored(v, odd, s) == IF odd THEN [v EXCEPT !.odd = s] ELSE [v EXCEPT !.even = s]

\* What a frame makes of its aircraft: its code is stored, the local decode is
\* tried when there is a position, the global one when the local one failed or
\* was implausible.
Positioned(v, enc, odd, c) ==
  LET s == Stored(v, odd, [code |-> c, age |-> 0, enc |-> enc])
      l == LocalDecode(enc, odd, v.lat, c)
      paired == s.even # NoCode /\ s.odd # NoCode
      g == GlobalDecode(enc, s.even.code, s.odd.code, odd)
  IN IF v.valid /\ l.ok /\ Plausible(v, l.lat) THEN Fixed(s, l.lat)
     ELSE IF paired /\ g.ok /\ Plausible(v, g.lat) THEN Fixed(s, g.lat)
     ELSE s

\* What decodeModeSLong keeps of a message between its two critical sections.
Hands == [plane : Planes, kind : Encodings \cup {"other"}, odd : BOOLEAN]

ASSUME NothingAssumption == NoPlane \notin Plane /\ Nothing \notin Hands

Messages == [kind : Encodings, odd : BOOLEAN] \cup [kind : {"other"}, odd : {FALSE}]

-----------------------------------------------------------------------------
(* Actions.                                                                *)

\* Fault: an aircraft that is known is not marked as seen here.
FoundOrMade(a) == IF aircraft[a] = NoPlane THEN NewPlane ELSE aircraft[a]

\* The first critical section: find or make the entry, and mark it as seen.
Touched(a) == [FoundOrMade(a) EXCEPT !.seen = 0]

\* A message whose CRC is right.
Receive(a, m) ==
  /\ hand = Nothing
  /\ m.kind = "other" \/ (m.kind = "surface" <=> a \in grounded)
  /\ hand' = [plane |-> a, kind |-> m.kind, odd |-> m.odd]
  /\ aircraft' = [aircraft EXCEPT ![a] = Touched(a)]
  /\ UNCHANGED <<truth, grounded, honest>>

\* The second one writes through the pointer the first one got; the entry may
\* have left the table in between.  Identification, velocity and a frame
\* with an impossible altitude change nothing the model keeps.
Decode ==
  /\ hand # Nothing
  /\ hand' = Nothing
  /\ LET a == hand.plane
         v == aircraft[a]
         w == Positioned(v, hand.kind, hand.odd, Code(hand.kind, hand.odd, truth[a]))
     IN IF hand.kind = "other" \/ v = NoPlane THEN UNCHANGED <<aircraft, honest>>
        ELSE /\ aircraft' = [aircraft EXCEPT ![a] = w]
             /\ honest' = [honest EXCEPT ![a] =
                  IF w.valid /\ w.posAge = 0 /\ (v.posAge # 0 \/ v.lat # w.lat)
                  THEN w.lat = truth[a] ELSE @]
  /\ UNCHANGED <<truth, grounded>>

Older(age, limit) == IF age < limit THEN age + 1 ELSE age

NeverAged(s) == s  \* fault: frames of any two times make a pair

\* A code older than PairLimit pairs with none that is still to come.
Aged(s) == IF s = NoCode \/ s.age + 1 >= PairLimit THEN NoCode
           ELSE [s EXCEPT !.age = @ + 1]

\* The clock moves.  The aircraft fly at most one cell, those on the ground move
\* much less; some land and some take off.  Decoding takes no time on this scale.
TimePasses ==
  /\ hand = Nothing
  /\ aircraft' = [a \in Planes |->
       IF aircraft[a] = NoPlane THEN NoPlane
       ELSE [aircraft[a] EXCEPT !.posAge = Older(@, ShortGap),
                                !.seen = Older(@, SeenLimit + 1),
                                !.even = Aged(@), !.odd = Aged(@)]]
  /\ truth' \in {t \in [Planes -> Route] : \A a \in Planes :
                   Abs(t[a] - truth[a]) <= (IF a \in grounded THEN 0 ELSE 1)}
  /\ grounded' \in SUBSET Planes
  /\ UNCHANGED <<hand, honest>>

\* PruneStale, which each tick of the pipeline calls, at any time.
Prune ==
  /\ aircraft' = [a \in Planes |->
       IF aircraft[a] # NoPlane /\ aircraft[a].seen > SeenLimit THEN NoPlane
       ELSE aircraft[a]]
  /\ honest' = [a \in Planes |-> aircraft'[a] = NoPlane \/ honest[a]]
  /\ UNCHANGED <<hand, truth, grounded>>

Init ==
  /\ aircraft = [a \in Planes |-> NoPlane]
  /\ hand = Nothing
  /\ truth \in [Planes -> Route]
  /\ grounded \in SUBSET Planes
  /\ honest = [a \in Planes |-> TRUE]

Next ==
  \/ \E a \in Planes, m \in Messages : Receive(a, m)
  \/ Decode \/ TimePasses \/ Prune

Spec == Init /\ [][Next]_vars

-----------------------------------------------------------------------------
(* Properties.                                                             *)

\* Every entry has the shape of its Go struct, within bounds.
TypeOK ==
  /\ aircraft \in [Planes -> Plane \cup {NoPlane}]
  /\ hand \in Hands \cup {Nothing}
  /\ truth \in [Planes -> Route] /\ grounded \subseteq Planes
  /\ honest \in [Planes -> BOOLEAN]

\* The aircraft a message is being decoded for is still in the table: the
\* pipeline's pruning between the two critical sections does not make the
\* decoder write into an entry nobody will read.
DecodedIsTabled == hand # Nothing => aircraft[hand.plane] # NoPlane

\* A position frame of aircraft a is decoded in this step.
Heard(a) == hand # Nothing /\ hand.plane = a /\ hand.kind \in Encodings /\ hand' = Nothing

\* The local decode can tell the zone: the aircraft is less than half a zone
\* away from its entry's position.
Near(a) == 2 * Abs(truth[a] - aircraft[a].lat) < Width(hand.kind, hand.odd)

\* Codes of both encodings at hand: an aircraft that takes off or lands.
Mixed(v) == v.even # NoCode /\ v.odd # NoCode /\ v.even.enc # v.odd.enc

\* Every position that is accepted is where the aircraft is, be it decoded from
\* the last one or from a pair, of frames received at different places.  Excepted
\* are aircraft taking off or landing before the first fix, aircraft on the ground
\* of the southern half before it, and aircraft out of the local decode's range.
AcceptedIsTrue ==
  [][\A a \in Planes :
       /\ Heard(a) /\ aircraft[a] # NoPlane /\ honest[a]
       /\ aircraft'[a].valid /\ aircraft'[a].posAge = 0
       /\ IF aircraft[a].valid THEN aircraft[a].posAge # 0 /\ Near(a)
          ELSE ~Mixed(aircraft'[a]) /\ (hand.kind = "surface" => truth[a] >= 0)
       => aircraft'[a].lat = truth[a]]_vars

\* "Local CPR decode (preferred after initial fix)" (decoder.go:330): an aircraft
\* whose last position was true and that is where the sanity check lets it be
\* is found with one frame.
OneFrameSuffices ==
  [][\A a \in Planes :
       Heard(a) /\ aircraft[a] # NoPlane /\ aircraft[a].valid /\ honest[a] /\ Near(a)
         /\ Abs(truth[a] - aircraft[a].lat) <= MaxDist(aircraft[a].posAge)
       => aircraft'[a].lat = truth[a]]_vars

=============================================================================
