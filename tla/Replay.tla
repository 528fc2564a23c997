------------------------------- MODULE Replay -------------------------------
(***************************************************************************)
(* The synthetic path from end to end: the generator's ticks               *)
(* (generator/generator.go), their frames recorded into a file             *)
(* (benchmarks/replay/replay.go), the recorder's end or crash, the file    *)
(* played back at some speed, and the spatial index (compute/src/lib.rs)   *)
(* built from each frame's records.  The repository's player leaves to its *)
(* caller what onFrame does; a consumer of frames that keeps the index is  *)
(* assumed here, because the generator's frames are the positions the      *)
(* index is made for.  The checks of decode_frame are not modelled: a      *)
(* frame that is played is whole.                                          *)
(***************************************************************************)
EXTENDS SpatialGrid, Sequences, SequencesExt

CONSTANTS
  Entities,  \* the entities' ids, 1 .. EntityCount
  Moving,    \* those that move; the others are sensors
  Start,     \* the places they may start from
  Steps,     \* what the motion models may do in a tick
  Speeds,    \* playback speeds; 0 means without timing
  Boxes,     \* the boxes the index is asked for
  MaxFrames, \* bound on the frames recorded
  MaxClock   \* bound on the clock

\* Where the generator keeps its entities.
Globe == [lat : 1 - QuarterTurn .. QuarterTurn - 1, lon : -HalfTurn .. HalfTurn]

\* Boxes on the globe.
BoxSet ==
  [minLat : -QuarterTurn .. QuarterTurn, maxLat : -QuarterTurn .. QuarterTurn,
   minLon : -HalfTurn .. HalfTurn, maxLon : -HalfTurn .. HalfTurn]

\* Nothing goes round the globe in a tick; an orbit that crosses 180 degrees is
\* computed from its centre, which up to a turn is the same.
ASSUME ReplayAssumption ==
  /\ IsFiniteSet(Entities) /\ Moving \subseteq Entities
  /\ Speeds \subseteq Nat /\ Boxes \subseteq BoxSet
  /\ Start \subseteq Globe
  /\ Steps \subseteq [lat : Int, lon : -2 * HalfTurn .. 2 * HalfTurn]
  /\ MaxFrames \in Nat /\ MaxClock \in Nat

VARIABLES
  clock,
  place,     \* Generator.entities: where each is
  sequence,  \* Generator.sequence
  recorder,  \* recording, in a record (its header is written), or over
  file,      \* the whole records in the file, with the time since its start
  tail,      \* what the file ends with: nothing, or the beginning of something
  player,    \* what the player is doing, or how PlayFromFile returned
  speed, read, started,
  grid,      \* the index of the frame played last
  made,      \* history: the frames recorded
  played     \* history: the frames played, and when

genVars == <<place, sequence>>
recVars == <<recorder, file, tail, made>>
playVars == <<player, speed, read, started, grid, played>>
vars == <<clock, genVars, recVars, playVars>>

-----------------------------------------------------------------------------
(* The generator and the codec.                                            *)

\* Fault: only an entity that leaves to the east comes back.
WrapEast(lon) == IF lon > HalfTurn THEN lon - 2 * HalfTurn ELSE lon

\* updateEntity, after the motion model: wrap the longitude, clamp the latitude
\* (89 degrees is the last but one unit).
Wrap(lon) == CASE lon > HalfTurn -> lon - 2 * HalfTurn
               [] lon < -HalfTurn -> lon + 2 * HalfTurn
               [] OTHER -> lon
Clamp(lat) == CASE lat > QuarterTurn - 1 -> QuarterTurn - 1
                [] lat < 1 - QuarterTurn -> 1 - QuarterTurn
                [] OTHER -> lat

Moved(p, step) == [lat |-> Clamp(p.lat + step.lat), lon |-> Wrap(p.lon + step.lon)]

\* TickInto and EncodeFrameInto: the records in the order of the entities, each
\* with the tick's number.  The count's width is the pipeline's concern.
Frame(at, seq) ==
  [i \in Entities |-> [id |-> i, lat |-> at[i].lat, lon |-> at[i].lon, sequence |-> seq]]

\* The index cleared, and the records of a frame inserted one after the other.
Indexed(frame) ==
  FoldSet(LAMBDA i, g : Insert(g, i, frame[i].lat, frame[i].lon), EmptyGrid, Entities)

-----------------------------------------------------------------------------
(* The recorder.                                                           *)

\* RecordToFile's tick: the frame is made and the record's header written.
BeginRecord ==
  /\ recorder = "recording" /\ Len(made) < MaxFrames
  /\ \E step \in [Moving -> Steps] :
       place' = [i \in Entities |-> IF i \in Moving THEN Moved(place[i], step[i]) ELSE place[i]]
  /\ sequence' = sequence + 1
  /\ made' = Append(made, [elapsed |-> clock, frame |-> Frame(place', sequence')])
  /\ recorder' = "in-record" /\ tail' = "record-header"
  /\ UNCHANGED <<clock, file, playVars>>

EndRecord ==
  /\ recorder = "in-record"
  /\ file' = Append(file, Last(made))
  /\ recorder' = "recording" /\ tail' = "nothing"
  /\ UNCHANGED <<clock, genVars, made, playVars>>

\* The deadline has passed.
Finish ==
  /\ recorder = "recording"
  /\ recorder' = "over"
  /\ UNCHANGED <<clock, genVars, file, tail, made, playVars>>

\* A write fails, or the process dies and the file keeps what had reached the
\* disk: any beginning of what was written.
Crash ==
  /\ recorder # "over"
  /\ recorder' = "over"
  /\ \E n \in 0 .. Len(file) :
       /\ file' = SubSeq(file, 1, n)
       /\ \/ tail' \in {"nothing", "part-of-header"}
          \/ tail' \in {"record-header", "part-of-data"}
             /\ (n < Len(file) \/ recorder = "in-record")
          \/ tail' = "part-of-file-header" /\ n = 0
  /\ UNCHANGED <<clock, genVars, made, playVars>>

-----------------------------------------------------------------------------
(* The player.                                                             *)

\* PlayFromFile: NewPlayer reads the file header, and SetSpeed.
Open(s) ==
  /\ player = "closed" /\ recorder = "over"
  /\ player' = IF tail = "part-of-file-header" THEN "failed" ELSE "playing"
  /\ speed' = s
  /\ UNCHANGED <<clock, genVars, recVars, read, started, grid, played>>

\* Fault: the time since the record before, though still counted from the start.
TargetOfGap(elapsed) == (elapsed - file[read].elapsed) \div speed

\* How long after the first frame a record is due: the quotient cut down to a whole
\* number of units (nanoseconds).
Target(elapsed) == elapsed \div speed

AfterWait(elapsed) ==
  IF speed = 0 \/ started = -1 \/ started + Target(elapsed) < clock THEN clock
  ELSE started + Target(elapsed)

\* NextFrame and onFrame, which may refuse the frame with an error of its own.
PlayFrame ==
  /\ player = "playing" /\ read < Len(file)
  /\ read' = read + 1
  /\ LET r == file[read + 1]
     IN /\ clock' = AfterWait(r.elapsed)
        /\ played' = Append(played, [at |-> clock', frame |-> r.frame])
        /\ grid' = Indexed(r.frame)
  /\ started' = IF speed # 0 /\ started = -1 THEN clock ELSE started
  /\ player' \in {"playing", "refused"}
  /\ UNCHANGED <<genVars, recVars, speed>>

\* Fault: every error that comes from the end of the file ends the playing.
EndPlayedOut ==
  /\ player = "playing" /\ read = Len(file)
  /\ player' = "done"
  /\ UNCHANGED <<clock, genVars, recVars, speed, read, started, grid, played>>

\* io.EOF comes only from a file that ends before a record; a record cut short is
\* an error, io.ErrUnexpectedEOF or one that wraps io.EOF.
EndOfFile ==
  /\ player = "playing" /\ read = Len(file)
  /\ player' = IF tail = "nothing" THEN "done" ELSE "failed"
  /\ UNCHANGED <<clock, genVars, recVars, speed, read, started, grid, played>>

\* Recording, decoding and drawing take their time.
TimePasses ==
  /\ clock < MaxClock
  /\ recorder # "over" \/ player = "playing"
  /\ clock' = clock + 1
  /\ UNCHANGED <<genVars, recVars, playVars>>

Init ==
  /\ clock = 0
  /\ place \in [Entities -> Start] /\ sequence = 0
  /\ recorder = "recording" /\ file = <<>> /\ tail = "nothing" /\ made = <<>>
  /\ player = "closed" /\ speed = 0 /\ read = 0 /\ started = -1
  /\ grid = EmptyGrid /\ played = <<>>

Next ==
  \/ BeginRecord \/ EndRecord \/ Finish \/ Crash
  \/ \E s \in Speeds : Open(s)
  \/ PlayFrame \/ EndOfFile \/ TimePasses

Spec == Init /\ [][Next]_vars

-----------------------------------------------------------------------------
(* Properties.                                                             *)

\* Every variable keeps its type; the generator's records are on the globe, so
\* that the codec's consumers need no check.
TypeOK ==
  /\ clock \in 0 .. 3 * MaxClock /\ sequence = Len(made)
  /\ place \in [Entities -> Globe]
  /\ recorder \in {"recording", "in-record", "over"}
  /\ tail \in {"nothing", "record-header", "part-of-header", "part-of-data",
               "part-of-file-header"}
  /\ player \in {"closed", "playing", "done", "failed", "refused"}
  /\ read \in 0 .. Len(file) /\ started \in -1 .. MaxClock

\* Wherever the recorder stopped, the frames played are the first ones recorded,
\* whole and in order; and PlayFromFile returns without an error only after the
\* last record of a file that is not cut within one, with one of its own only from a
\* file that is cut, and otherwise with that of onFrame.
PlaysWhatWasRecorded ==
  /\ IsPrefix([k \in DOMAIN played |-> played[k].frame], [k \in DOMAIN made |-> made[k].frame])
  /\ player = "done" => Len(played) = Len(file) /\ tail = "nothing"
  /\ player = "failed" => tail # "nothing"

\* "sleeps to maintain original timing (adjusted by speed)" (replay.go:146): played
\* with timing, a frame comes after the first one no earlier than the recording and
\* the speed say, by less than the one unit of the clock the quotient loses; that is
\* not lost again with every frame, and playing never runs further ahead, however
\* long the consumer takes.
NeverAhead ==
  speed # 0 =>
    \A k \in 2 .. Len(played) :
      speed * (played[k].at - played[1].at + 1) > file[k].elapsed - file[1].elapsed

Inside(p, box) == p.lat \in box.minLat .. box.maxLat /\ p.lon \in box.minLon .. box.maxLon

\* A query of a box on the globe finds every entity in it, and none that is a
\* cell's width or more away from it.  Excepted are entities at 180 degrees east
\* exactly, which are filed under the west end of the next row, and what else a box
\* finds that reaches there.
IndexFinds ==
  played # <<>> =>
    \A box \in Boxes, i \in Entities :
      LET p == Last(played).frame[i]
          wide == [minLat |-> box.minLat - CellSize + 1, maxLat |-> box.maxLat + CellSize - 1,
                   minLon |-> box.minLon - CellSize + 1, maxLon |-> box.maxLon + CellSize - 1]
      IN p.lon < HalfTurn =>
           /\ Inside(p, box) => i \in Query(grid, box)
           /\ box.maxLon < HalfTurn /\ i \in Query(grid, box) => Inside(p, wide)
=============================================================================
