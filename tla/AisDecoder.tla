----------------------------- MODULE AisDecoder -----------------------------
(***************************************************************************)
(* The AIS decoder as a whole: FeedLine takes one sentence, alone or into  *)
(* a set of fragments, and decodes the message it completes; the pipeline  *)
(* prunes the table meanwhile.  Each message is decoded under the mutex    *)
(* that PruneStale takes, so the two never overlap.                        *)
(***************************************************************************)
EXTENDS AisFragments, AisTracker

CONSTANTS
  Static,   \* the multi-sentence messages that are of type 5
  Sender,   \* the ship each of them is from
  TypeIn    \* the ship type it gives

ASSUME StaticAssumption ==
  /\ Static \subseteq Messages
  /\ Sender \in [Static -> Ships] /\ TypeIn \in [Static -> Types]

vars == <<fragVars, trackVars>>

\* What the sentences of a set decode to.  Sender and ship type are in the
\* first sentence; a wrong continuation may leave the message too short, and a
\* message of another type changes no vessel.
Decode(list) ==
  LET m == list[1].msg IN
  \/ m \in Static /\ StaticData(Sender[m], TypeIn[m])
  \/ (m \notin Static \/ list # Whole(m)) /\ UNCHANGED trackVars

\* A sentence of a longer message.
FeedFragment(s) ==
  /\ Collect(s)
  /\ IF Completes(s) THEN Decode(Extended(s)) ELSE UNCHANGED trackVars

\* A message in one sentence.
FeedSingle ==
  /\ \/ \E m \in Ships : ShipReport(m)
     \/ \E m \in Unchecked : UncheckedReport(m)
  /\ UNCHANGED fragVars

Clock == TimePasses /\ UNCHANGED fragVars
Prune == PruneStale /\ UNCHANGED fragVars

Init == FragInit /\ TrackInit

Next == FeedSingle \/ (\E s \in Sentences : FeedFragment(s)) \/ Clock \/ Prune

\* The clock moves on; nobody has to send anything.
Spec == Init /\ [][Next]_vars /\ WF_vars(Clock)

-----------------------------------------------------------------------------
(* Properties.                                                             *)

\* Sets and vessels have the shape their Go types give them, within bounds.
TypeOK ==
  /\ \A k \in FragKeys : fragments[k] # NoSet =>
       /\ Len(fragments[k]) \in 1 .. MaxPending
       /\ \A i \in 1 .. Len(fragments[k]) : fragments[k][i] \in Sentences
  /\ vessels \in [Stations -> Vessel \cup {NoVessel}]
  /\ truth \in [Ships -> Cells] /\ honest \in [Ships -> BOOLEAN]

\* Whatever was lost, repeated or mixed before: a message whose sentences arrive
\* one after the other, none with the same key between them, is assembled as it
\* was sent.
WholeMessagesAssemble ==
  \A s \in Sentences :
    ArrivesWhole(s) => Accepted(s) /\ Extended(s) = Whole(s.msg)

\* A set starts with a first sentence, so a message is never decoded as coming
\* from a station, or being of a type, that only a continuation stood for.
SetsStartWithFirst ==
  \A k \in FragKeys : fragments[k] # NoSet => fragments[k][1].num = 1

\* The 180th meridian lies between the two, so that their longitudes differ by
\* more than half the way round.
AcrossMeridian(a, b) == Closed /\ 2 * Distance(a, b) > Lons

\* "Position jump check: reject implausible jumps" (decoder.go:219), and no
\* others: a ship whose entry holds a position that was true when it was accepted
\* and that reports where it is now is believed.  Excepted is one that has crossed
\* the 180th meridian: the code takes the plain difference of the longitudes.
TruthAccepted ==
  \A m \in Ships :
    honest[m] /\ vessels[m] # NoVessel /\ ~AcrossMeridian(vessels[m].lon, truth[m])
      => PositionOK(vessels[m], truth[m])

Speed(v) == IF v = NoVessel THEN 0 ELSE v.speed

\* "SOG > 50 knots must be rejected for ship types 60-89" (state_test.go:254):
\* no message gives a ship of such a type, as its entry then says, a new speed
\* above that.
CargoSpeedLimit ==
  [][\A m \in Ships :
       vessels'[m] # NoVessel /\ Cargo(vessels'[m])
         /\ vessels'[m].speed # Speed(vessels[m]) => vessels'[m].speed <= 50]_vars

TrueReport(m) == \E sog \in Sogs : sog <= 50 /\ PositionReport(m, truth[m], sog)
WrongReport(m) == \E g \in Glitches : g # truth[m] /\
  (\/ \E sog \in Sogs : PositionReport(m, g, sog)
   \/ \E sog \in Sogs, type \in Types : ExtendedReport(m, type, g, sog))

\* A wrong position does not last: a ship that goes on reporting where it is is
\* shown there again and again, unless wrong reports keep coming too.
GlitchOvercome ==
  \A m \in Ships :
    \/ []<><<WrongReport(m)>>_vars
    \/ <>[][~TrueReport(m)]_vars
    \/ []<>(vessels[m] # NoVessel /\ vessels[m].valid /\ vessels[m].lon = truth[m])

=============================================================================
