----------------------------- MODULE AisTracker -----------------------------
(***************************************************************************)
(* The AIS decoder's table of vessels (applications/ais/decoder.go): what  *)
(* each message type does to a vessel, the sanity checks on speed and      *)
(* position, and the pruning the pipeline does.                            *)
(*                                                                         *)
(* Of a position the model keeps the longitude, as a cell of a parallel;   *)
(* cells 0 and Lons - 1 are neighbours on the globe when the parallel is   *)
(* Closed, at the 180th meridian.  Ships move no further in one step of    *)
(* the clock than to the next cell.                                        *)
(***************************************************************************)
EXTENDS Integers

CONSTANTS
  Ships,      \* stations that send ships' messages
  Unchecked,  \* base stations, aids to navigation, search and rescue aircraft
  Lons,       \* number of cells of the parallel
  Closed,     \* whether the parallel goes round the globe
  Glitches,   \* positions a station may report though it is not there
  Types,      \* ship types
  Sogs,       \* speeds over ground; -1 is "not available"
  JumpLimit,  \* 0.33 degrees, in cells
  GapLimit,   \* 5 minutes, in steps of the clock
  SeenLimit,  \* 60 s, the pipeline's maxAge
  NoVessel    \* no entry of the table

Stations == Ships \cup Unchecked
Cells == 0 .. Lons - 1
NoPosition == -1  \* the sentinel for a position that is not available

Vessel == [type : Types \cup {0}, lon : Cells, valid : BOOLEAN, speed : Nat,
           posAge : 0 .. GapLimit, seen : 0 .. SeenLimit]

ASSUME ScaleAssumption ==
  /\ Lons \in Nat \ {0} /\ JumpLimit \in Nat /\ Closed \in BOOLEAN
  /\ GapLimit \in Nat \ {0} /\ SeenLimit \in Nat \ {0}
  /\ Glitches \subseteq Cells /\ Types \subseteq 0 .. 255
  /\ Sogs \subseteq {-1} \cup Nat /\ Ships \cap Unchecked = {}

\* No ship gets past the jump limit before the gap is over: 0.33 degrees in 5
\* minutes is 240 knots at the equator, and still 40 at a latitude of 80 degrees.
ASSUME MotionAssumption == GapLimit <= JumpLimit + 1

VARIABLES
  vessels,  \* Decoder.vessels
  truth,    \* where each ship really is
  honest    \* history: the table's position of it was true when accepted

trackVars == <<vessels, truth, honest>>

TrackInit ==
  /\ vessels = [m \in Stations |-> NoVessel]
  /\ truth \in [Ships -> Cells]
  /\ honest = [m \in Ships |-> TRUE]

Cargo(v) == v.type \in 60 .. 89

\* The vessel's entry, or a new one, just seen.
Seen(m) ==
  IF vessels[m] = NoVessel
  THEN [type |-> 0, lon |-> 0, valid |-> FALSE, speed |-> 0,
        posAge |-> GapLimit, seen |-> 0]
  ELSE [vessels[m] EXCEPT !.seen = 0]

SpeedOK(v, sog) == sog <= 102 /\ (Cargo(v) => sog <= 50)

Distance(a, b) == IF a < b THEN b - a ELSE a - b

JumpAnyGap(v, lon) == v.valid => Distance(lon, v.lon) <= JumpLimit  \* fault: no gap

\* A jump is rejected within the gap; the time of the last accepted position
\* counts, and the difference of the longitudes as numbers.
PositionOK(v, lon) ==
  v.valid /\ v.posAge < GapLimit => Distance(lon, v.lon) <= JumpLimit

Placed(v, lon) == [v EXCEPT !.lon = lon, !.valid = TRUE, !.posAge = 0]

\* Fault: speed and position are checked before the new type is entered.
CheckedFirst(v, type, lon, sog) ==
  LET p == IF lon # NoPosition /\ SpeedOK(v, sog) /\ PositionOK(v, lon)
           THEN Placed(v, lon) ELSE v
  IN [p EXCEPT !.type = type,
               !.speed = IF lon # NoPosition /\ SpeedOK(v, sog) /\ sog >= 0
                         THEN sog ELSE @]

\* Fault: a rejected position refreshes the time of the last one.
RejectRefreshes(v, type, lon, sog) ==
  LET t == [v EXCEPT !.type = type]
      p == IF lon = NoPosition THEN t
           ELSE IF SpeedOK(t, sog) /\ PositionOK(t, lon) THEN Placed(t, lon)
           ELSE [t EXCEPT !.posAge = 0]
  IN [p EXCEPT !.speed = IF lon # NoPosition /\ SpeedOK(t, sog) /\ sog >= 0
                         THEN sog ELSE @]

\* What a report of type, position and speed makes of an entry.  A speed that
\* is too high takes the position with it; a jump does not take the speed.
Checked(v, type, lon, sog) ==
  LET t == [v EXCEPT !.type = type]
      p == IF lon # NoPosition /\ SpeedOK(t, sog) /\ PositionOK(t, lon)
           THEN Placed(t, lon) ELSE t
  IN [p EXCEPT !.speed = IF lon # NoPosition /\ SpeedOK(t, sog) /\ sog >= 0
                         THEN sog ELSE @]

\* The entry of m becomes what a message with this position made of it.
Update(m, v, lon) ==
  /\ vessels' = [vessels EXCEPT ![m] = v]
  /\ honest' = [s \in Ships |->
       IF s = m /\ v.posAge = 0 /\ v.lon = lon THEN lon = truth[s] ELSE honest[s]]
  /\ UNCHANGED truth

\* Types 1-3 and 18.
PositionReport(m, lon, sog) ==
  Update(m, Checked(Seen(m), Seen(m).type, lon, sog), lon)

\* Type 19, which also gives the ship type.
ExtendedReport(m, type, lon, sog) ==
  Update(m, Checked(Seen(m), type, lon, sog), lon)

\* Type 5, and part B of type 24.
StaticData(m, type) == Update(m, [Seen(m) EXCEPT !.type = type], NoPosition)

\* Part A of type 24: the name.
NameOnly(m) == Update(m, Seen(m), NoPosition)

SentinelPlaced(v, lon) == Placed(v, lon)  \* fault: "not available" is a position
Unverified(v, lon) == IF lon = NoPosition THEN v ELSE Placed(v, lon)

\* Types 4 and 11.
BaseStationReport(m, lon) ==
  Update(m, Unverified([Seen(m) EXCEPT !.type = 0], lon), lon)

\* Type 21.
AtoNReport(m, lon) == Update(m, Unverified(Seen(m), lon), lon)

\* Type 9: the speed is taken without a position, too.
SarReport(m, lon, sog) ==
  LET v == Unverified(Seen(m), lon) IN
  Update(m, [v EXCEPT !.speed = IF sog >= 0 THEN sog ELSE @], lon)

Reported(m) == {truth[m], NoPosition} \cup Glitches

\* Any message of one sentence.
ShipReport(m) ==
  \/ \E lon \in Reported(m), sog \in Sogs : PositionReport(m, lon, sog)
  \/ \E lon \in Reported(m), sog \in Sogs, type \in Types :
       ExtendedReport(m, type, lon, sog)
  \/ \E type \in Types : StaticData(m, type)
  \/ NameOnly(m)

\* Nothing is asked of these positions.
UncheckedReport(m) ==
  \E lon \in {NoPosition} \cup Glitches :
    \/ BaseStationReport(m, lon) \/ AtoNReport(m, lon)
    \/ \E sog \in Sogs : SarReport(m, lon, sog)

Neighbour(a, b) ==
  Distance(a, b) <= 1 \/ (Closed /\ Distance(a, b) = Lons - 1)

Older(age, limit) == IF age < limit THEN age + 1 ELSE age

\* The clock moves, and the ships with it.
TimePasses ==
  /\ vessels' = [m \in Stations |->
       IF vessels[m] = NoVessel THEN NoVessel
       ELSE [vessels[m] EXCEPT !.posAge = Older(@, GapLimit),
                               !.seen = Older(@, SeenLimit)]]
  /\ truth' \in {t \in [Ships -> Cells] : \A m \in Ships : Neighbour(truth[m], t[m])}
  /\ UNCHANGED honest

\* PruneStale(60 s), which each tick of the pipeline calls.
PruneStale ==
  /\ vessels' = [m \in Stations |->
       IF vessels[m] # NoVessel /\ vessels[m].seen >= SeenLimit THEN NoVessel
       ELSE vessels[m]]
  /\ honest' = [m \in Ships |-> vessels'[m] = NoVessel \/ honest[m]]
  /\ UNCHANGED truth

=============================================================================
