---------------------------- MODULE ReplayProofs ----------------------------
(***************************************************************************)
(* Theorems about Replay for every set of entities, every motion, every    *)
(* length of the recording, every point at which the recorder may stop or  *)
(* crash and every playback speed.                                         *)
(***************************************************************************)
EXTENDS Replay, FiniteSetTheorems, Recursion, TLAPS

-----------------------------------------------------------------------------
(***************************************************************************)
(* Arithmetic.                                                             *)
(***************************************************************************)

\* Whole division: the multiple below.
LEMMA DivBounds ==
  ASSUME NEW a \in Nat, NEW c \in Nat \ {0}
  PROVE  a \div c \in Nat /\ c * (a \div c) <= a /\ a < c * (a \div c) + c
OBVIOUS

\* Division rounded up: the multiple reaches the dividend, and does not pass
\* it when the divisor is one.
LEMMA CeilDivBounds ==
  ASSUME NEW a \in Nat, NEW b \in Nat \ {0}
  PROVE  CeilDiv(a, b) \in Nat /\ b * CeilDiv(a, b) >= a /\ CeilDiv(a, b) <= a
BY DEF CeilDiv

LEMMA MultiplyGeq ==
  ASSUME NEW s \in Nat \ {0}, NEW a \in Int, NEW b \in Int, a >= b
  PROVE  s * a >= s * b
OBVIOUS

\* An entity that moves stays on the globe.
LEMMA MovedOnGlobe ==
  ASSUME NEW p \in Globe, NEW step \in Steps
  PROVE  Moved(p, step) \in Globe
<1>1. /\ HalfTurn \in Nat \ {0} /\ QuarterTurn \in Nat \ {0}
      /\ p.lat \in Int /\ p.lon \in -HalfTurn .. HalfTurn
      /\ step.lat \in Int /\ step.lon \in -2 * HalfTurn .. 2 * HalfTurn
  BY GridAssumption, ReplayAssumption DEF Globe, QuarterTurn
<1>2. Wrap(p.lon + step.lon) \in -HalfTurn .. HalfTurn
  BY <1>1 DEF Wrap
<1>3. Clamp(p.lat + step.lat) \in 1 - QuarterTurn .. QuarterTurn - 1
  BY <1>1 DEF Clamp
<1> QED BY <1>2, <1>3 DEF Moved, Globe

-----------------------------------------------------------------------------
(***************************************************************************)
(* The invariants.                                                         *)
(***************************************************************************)

\* The frames the generator can make, and what is recorded and played.
GenFrames == {Frame(at, n) : at \in [Entities -> Globe], n \in Nat}
Recorded  == [elapsed : 0 .. MaxClock, frame : GenFrames]
Played    == [at : Nat, frame : GenFrames]

\* Types.  The clock passes MaxClock only by waiting for a frame that is due.
TypeInv ==
  /\ clock \in 0 .. 2 * MaxClock
  /\ recorder # "over" \/ read = 0 => clock <= MaxClock
  /\ place \in [Entities -> Globe] /\ sequence = Len(made)
  /\ recorder \in {"recording", "in-record", "over"}
  /\ tail \in {"nothing", "record-header", "part-of-header", "part-of-data",
               "part-of-file-header"}
  /\ made \in Seq(Recorded) /\ file \in Seq(Recorded) /\ played \in Seq(Played)
  /\ player \in {"closed", "playing", "done", "failed", "refused"}
  /\ speed \in Nat /\ read \in 0 .. Len(file) /\ started \in -1 .. MaxClock
  /\ started = -1 <=> speed = 0 \/ read = 0

\* The file holds what was recorded, but for the record being written.
FileInv ==
  /\ Len(file) <= Len(made)
  /\ \A k \in 1 .. Len(file) : file[k] = made[k]
  /\ recorder = "recording" => Len(file) = Len(made)
  /\ recorder = "in-record" => Len(made) = Len(file) + 1

\* What has been read of the file has been played; nothing writes to it then.
PlayInv ==
  /\ recorder # "over" => player = "closed"
  /\ player = "closed" => read = 0
  /\ Len(played) = read
  /\ \A k \in 1 .. Len(played) : played[k].frame = file[k].frame
  /\ player = "done" => read = Len(file) /\ tail = "nothing"
  /\ player = "failed" => tail # "nothing"

\* With timing, the first frame starts the clock the others are held against.
TimeInv ==
  speed # 0 =>
    \A k \in 1 .. Len(played) :
      IF k = 1 THEN played[k].at = started
      ELSE speed * (played[k].at - started + 1) > file[k].elapsed

ReplayInv == TypeInv /\ FileInv /\ PlayInv /\ TimeInv

LEMMA ReplayInit == Init => ReplayInv
<1> SUFFICES ASSUME Init PROVE ReplayInv
  OBVIOUS
<1>1. place \in [Entities -> Globe]
  BY ReplayAssumption DEF Init
<1> QED
  BY <1>1, ReplayAssumption DEF Init, ReplayInv, TypeInv, FileInv, PlayInv, TimeInv

LEMMA ReplayRecord ==
  ASSUME ReplayInv, BeginRecord
  PROVE  ReplayInv'
<1>0. TypeInv /\ FileInv /\ PlayInv /\ TimeInv
  BY DEF ReplayInv
<1>1. /\ UNCHANGED <<clock, file, player, speed, read, started, grid, played>>
      /\ recorder = "recording" /\ recorder' = "in-record"
      /\ tail' = "record-header" /\ sequence' = sequence + 1
      /\ made' = Append(made, [elapsed |-> clock, frame |-> Frame(place', sequence')])
  BY DEF BeginRecord, playVars
<1>2. place' \in [Entities -> Globe]
  <2>1. PICK step \in [Moving -> Steps] :
          place' = [i \in Entities |->
                      IF i \in Moving THEN Moved(place[i], step[i]) ELSE place[i]]
    BY DEF BeginRecord
  <2>2. \A i \in Entities : (IF i \in Moving THEN Moved(place[i], step[i])
                             ELSE place[i]) \in Globe
    BY <1>0, MovedOnGlobe DEF TypeInv
  <2> QED BY <2>1, <2>2
<1>3. [elapsed |-> clock, frame |-> Frame(place', sequence')] \in Recorded
  <2>1. sequence' \in Nat /\ clock \in 0 .. MaxClock
    BY <1>0, <1>1 DEF TypeInv
  <2> QED BY <1>2, <2>1 DEF Recorded, GenFrames
<1> DEFINE r == [elapsed |-> clock, frame |-> Frame(place', sequence')]
<1> HIDE DEF r
<1>4. /\ made' \in Seq(Recorded) /\ Len(made') = Len(made) + 1
      /\ \A k \in 1 .. Len(made) : made'[k] = made[k]
  BY <1>0, <1>1, <1>3 DEF TypeInv, r
<1>5. TypeInv'
  BY <1>0, <1>1, <1>2, <1>4 DEF TypeInv
<1>6. FileInv'
  BY <1>0, <1>1, <1>4 DEF FileInv, TypeInv
<1>7. PlayInv' /\ TimeInv'
  BY <1>0, <1>1 DEF PlayInv, TimeInv
<1> QED BY <1>5, <1>6, <1>7 DEF ReplayInv

LEMMA ReplayFile ==
  ASSUME ReplayInv, EndRecord \/ Finish \/ Crash
  PROVE  ReplayInv'
<1>0. TypeInv /\ FileInv /\ PlayInv /\ TimeInv
  BY DEF ReplayInv
<1>1. /\ UNCHANGED <<clock, place, sequence, made, player, speed, read, started,
                     grid, played>>
      /\ recorder # "over" /\ recorder' \in {"recording", "over"}
  BY DEF EndRecord, Finish, Crash, genVars, playVars
<1>2. read = 0 /\ Len(played) = 0 /\ player = "closed"
  BY <1>0, <1>1 DEF PlayInv
<1>3. tail' \in {"nothing", "record-header", "part-of-header", "part-of-data",
                 "part-of-file-header"}
  BY <1>0 DEF EndRecord, Finish, Crash, TypeInv
<1>4. /\ file' \in Seq(Recorded) /\ Len(file') <= Len(made)
      /\ \A k \in 1 .. Len(file') : file'[k] = made[k]
      /\ recorder' = "recording" => Len(file') = Len(made)
  <2>1. /\ made \in Seq(Recorded) /\ file \in Seq(Recorded)
        /\ Len(file) <= Len(made)
        /\ \A k \in 1 .. Len(file) : file[k] = made[k]
    BY <1>0 DEF TypeInv, FileInv
  <2>2. CASE EndRecord
    <3>1. /\ file' = Append(file, made[Len(made)]) /\ Len(made) = Len(file) + 1
      BY <1>0, <2>2 DEF EndRecord, Last, FileInv
    <3>2. made[Len(made)] \in Recorded
      BY <2>1, <3>1
    <3> QED BY <2>1, <3>1, <3>2
  <2>3. CASE Finish
    BY <1>0, <2>1, <2>3 DEF Finish, FileInv
  <2>4. CASE Crash
    <3>1. PICK n \in 0 .. Len(file) : file' = SubSeq(file, 1, n)
      BY <2>4 DEF Crash
    <3>2. /\ file' \in Seq(Recorded) /\ Len(file') = n
          /\ \A k \in 1 .. n : file'[k] = file[k]
      BY <2>1, <3>1
    <3> QED BY <2>1, <2>4, <3>1, <3>2 DEF Crash
  <2> QED BY <2>2, <2>3, <2>4
<1>5. TypeInv'
  BY <1>0, <1>1, <1>2, <1>3, <1>4 DEF TypeInv
<1>6. FileInv'
  BY <1>1, <1>4 DEF FileInv
<1>7. PlayInv' /\ TimeInv'
  BY <1>0, <1>1, <1>2 DEF PlayInv, TimeInv
<1> QED BY <1>5, <1>6, <1>7 DEF ReplayInv

\* The player waits until less than a unit before a frame is due, or longer.
LEMMA WaitIsLongEnough ==
  ASSUME ReplayInv, NEW e \in 0 .. MaxClock
  PROVE  /\ AfterWait(e) \in 0 .. 2 * MaxClock /\ AfterWait(e) >= clock
         /\ read = 0 => AfterWait(e) = clock
         /\ speed # 0 /\ read # 0 => speed * (AfterWait(e) - started + 1) > e
<1>1. /\ clock \in 0 .. 2 * MaxClock /\ MaxClock \in Nat /\ speed \in Nat
      /\ started \in -1 .. MaxClock /\ (started = -1 <=> speed = 0 \/ read = 0)
  BY ReplayAssumption DEF ReplayInv, TypeInv
<1>2. CASE speed = 0 \/ read = 0
  BY <1>1, <1>2 DEF AfterWait
<1>3. CASE speed # 0 /\ read # 0
  <2> DEFINE d == e \div speed
  <2>1. /\ d \in Nat /\ speed * d <= e /\ e < speed * d + speed
        /\ e \in Nat /\ speed \in Nat \ {0}
    BY <1>1, <1>3, DivBounds
  <2>2. AfterWait(e) = IF started + d < clock THEN clock ELSE started + d
    BY <1>1, <1>3 DEF AfterWait, Target
  <2> HIDE DEF d
  <2>3. d <= speed * d
    <3>1. CASE d = 0
      BY <2>1, <3>1
    <3>2. CASE d # 0
      <4>1. d * speed >= d * 1
        BY <2>1, <3>2, MultiplyGeq
      <4> QED BY <2>1, <4>1
    <3> QED BY <3>1, <3>2
  <2>4. d <= e
    <3>1. speed * d \in Int
      BY <2>1
    <3> QED BY <2>1, <2>3, <3>1
  <2>5. /\ AfterWait(e) \in 0 .. 2 * MaxClock /\ AfterWait(e) >= clock
        /\ AfterWait(e) - started + 1 >= d + 1 /\ AfterWait(e) - started + 1 \in Int
    BY <1>1, <1>3, <2>1, <2>2, <2>4
  <2>6. /\ speed * (AfterWait(e) - started + 1) >= speed * (d + 1)
        /\ speed * (d + 1) = speed * d + speed
    BY <2>1, <2>5, MultiplyGeq
  <2>7. speed * (AfterWait(e) - started + 1) \in Int /\ speed * d \in Int
    BY <2>1, <2>5
  <2> QED BY <1>3, <2>1, <2>5, <2>6, <2>7
<1> QED BY <1>2, <1>3

LEMMA ReplayPlayFrame ==
  ASSUME ReplayInv, PlayFrame
  PROVE  ReplayInv'
<1>0. TypeInv /\ FileInv /\ PlayInv /\ TimeInv
  BY DEF ReplayInv
<1> DEFINE r == file[read + 1]
           p == [at |-> clock', frame |-> r.frame]
<1>1. /\ UNCHANGED <<place, sequence, recorder, file, tail, made, speed>>
      /\ player = "playing" /\ player' \in {"playing", "refused"} /\ read < Len(file) /\ read' = read + 1
      /\ clock' = AfterWait(r.elapsed) /\ played' = Append(played, p)
      /\ started' = IF speed # 0 /\ started = -1 THEN clock ELSE started
  BY DEF PlayFrame, genVars, recVars
<1>2. /\ r \in Recorded /\ read \in Nat /\ Len(file) \in Nat /\ MaxClock \in Nat
      /\ read' \in 1 .. Len(file) /\ clock \in 0 .. 2 * MaxClock
      /\ file \in Seq(Recorded) /\ played \in Seq(Played) /\ Len(played) = read
      /\ recorder = "over" /\ speed \in Nat
  BY <1>0, <1>1, ReplayAssumption DEF TypeInv, PlayInv
<1>3. r.elapsed \in 0 .. MaxClock /\ r.frame \in GenFrames
  BY <1>2 DEF Recorded
<1>4. /\ clock' \in 0 .. 2 * MaxClock
      /\ read = 0 => clock' = clock
      /\ speed # 0 /\ read # 0 => speed * (clock' - started + 1) > r.elapsed
  BY <1>1, <1>3, WaitIsLongEnough
<1>5. p \in Played
  BY <1>3, <1>4 DEF Played
<1>6. p.at = clock' /\ p.frame = r.frame
  OBVIOUS
<1>7. r = file[read + 1]
  OBVIOUS
<1> HIDE DEF p, r
<1>8. /\ played' \in Seq(Played) /\ Len(played') = read + 1
      /\ played'[read + 1] = p /\ \A k \in 1 .. read : played'[k] = played[k]
  BY <1>1, <1>2, <1>5
<1>9. started' \in -1 .. MaxClock /\ (started' = -1 <=> speed = 0)
  BY <1>0, <1>1, <1>2 DEF TypeInv
<1>10. TypeInv'
  BY <1>0, <1>1, <1>2, <1>4, <1>8, <1>9 DEF TypeInv
<1>11. FileInv'
  BY <1>0, <1>1 DEF FileInv
<1>12. PlayInv'
  <2>1. ASSUME NEW k \in 1 .. read + 1
        PROVE  played'[k].frame = file[k].frame
    <3>1. CASE k \in 1 .. read
      BY <1>0, <1>2, <1>8, <3>1 DEF PlayInv
    <3>2. CASE k = read + 1
      BY <1>6, <1>7, <1>8, <3>2
    <3> QED BY <1>2, <3>1, <3>2
  <2> QED BY <1>1, <1>2, <1>8, <2>1 DEF PlayInv
<1>13. TimeInv'
  <2> SUFFICES ASSUME speed # 0, NEW k \in 1 .. read + 1
               PROVE  IF k = 1 THEN played'[k].at = started'
                      ELSE speed * (played'[k].at - started' + 1) > file[k].elapsed
    BY <1>1, <1>8 DEF TimeInv
  <2>1. CASE read = 0
    BY <1>0, <1>1, <1>4, <1>6, <1>8, <2>1 DEF TypeInv
  <2>2. CASE read # 0
    <3>1. started' = started
      BY <1>0, <1>1, <2>2 DEF TypeInv
    <3>2. CASE k \in 1 .. read
      BY <1>0, <1>2, <1>8, <3>1, <3>2 DEF TimeInv
    <3>3. CASE k = read + 1
      BY <1>2, <1>4, <1>6, <1>7, <1>8, <2>2, <3>1, <3>3
    <3> QED BY <1>2, <3>2, <3>3
  <2> QED BY <2>1, <2>2
<1> QED BY <1>10, <1>11, <1>12, <1>13 DEF ReplayInv

LEMMA ReplayNext == ReplayInv /\ [Next]_vars => ReplayInv'
<1> SUFFICES ASSUME ReplayInv, [Next]_vars PROVE ReplayInv'
  OBVIOUS
<1>0. TypeInv /\ FileInv /\ PlayInv /\ TimeInv
  BY DEF ReplayInv
<1>1. ASSUME NEW s \in Speeds, Open(s)
      PROVE  ReplayInv'
  <2>1. /\ UNCHANGED <<clock, place, sequence, recorder, file, tail, made, read,
                       started, played>>
        /\ player = "closed" /\ recorder = "over" /\ speed' = s
        /\ player' = IF tail = "part-of-file-header" THEN "failed" ELSE "playing"
    BY <1>1 DEF Open, genVars, recVars
  <2>2. read = 0 /\ Len(played) = 0 /\ s \in Nat
    BY <1>0, <2>1, ReplayAssumption DEF PlayInv
  <2> QED BY <1>0, <2>1, <2>2 DEF ReplayInv, TypeInv, FileInv, PlayInv, TimeInv
<1>2. CASE EndOfFile
  <2>1. /\ UNCHANGED <<clock, place, sequence, recorder, file, tail, made, speed,
                       read, started, played>>
        /\ player = "playing" /\ read = Len(file)
        /\ player' = IF tail = "nothing" THEN "done" ELSE "failed"
    BY <1>2 DEF EndOfFile, genVars, recVars
  <2> QED BY <1>0, <2>1 DEF ReplayInv, TypeInv, FileInv, PlayInv, TimeInv
<1>3. CASE TimePasses
  <2>1. /\ UNCHANGED <<place, sequence, recorder, file, tail, made, player, speed,
                       read, started, played>>
        /\ clock < MaxClock /\ clock' = clock + 1
    BY <1>3 DEF TimePasses, genVars, recVars, playVars
  <2> QED
    BY <1>0, <2>1, ReplayAssumption
    DEF ReplayInv, TypeInv, FileInv, PlayInv, TimeInv
<1>4. CASE UNCHANGED vars
  BY <1>0, <1>4
  DEF vars, genVars, recVars, playVars, ReplayInv, TypeInv, FileInv, PlayInv, TimeInv
<1> QED
  BY <1>1, <1>2, <1>3, <1>4, ReplayRecord, ReplayFile, ReplayPlayFrame DEF Next

LEMMA ReplayInvariant == Spec => []ReplayInv
BY ReplayInit, ReplayNext, PTL DEF Spec

-----------------------------------------------------------------------------
(***************************************************************************)
(* The index: what the fold over a frame's records makes, and which cells  *)
(* a query visits.                                                         *)
(***************************************************************************)

\* The cell an entity of a frame is filed in.
Cell(frame, i) == ComputeCell(frame[i].lat, frame[i].lon)

\* A grid in which the entities of s are filed.
Filed(frame, s) == [c \in CellIds |-> {i \in s : Cell(frame, i) = c}]

LEMMA InsertFiles ==
  ASSUME NEW frame, NEW s, NEW x \in s
  PROVE  Filed(frame, s) = Insert(Filed(frame, s \ {x}), x, frame[x].lat, frame[x].lon)
BY DEF Filed, Insert, Cell

LEMMA EmptyFiles ==
  ASSUME NEW frame
  PROVE  Filed(frame, {}) = EmptyGrid
BY DEF Filed, EmptyGrid

\* Building the index files every entity in its cell, in whatever order the
\* records are taken.
LEMMA IndexedFiles ==
  ASSUME NEW frame
  PROVE  Indexed(frame) = Filed(frame, Entities)
<1> DEFINE E == SUBSET Entities
           pick(s) == CHOOSE x \in s : TRUE
           Body(g, s) == IF s = {} THEN EmptyGrid
                         ELSE Insert(g[s \ {pick(s)}], pick(s),
                                     frame[pick(s)].lat, frame[pick(s)].lon)
           iter == CHOOSE g : g = [s \in E |-> Body(g, s)]
           files == [s \in E |-> Filed(frame, s)]
<1>1. Indexed(frame) = iter[Entities]
  BY DEF Indexed, FoldSet, MapThenFoldSet
<1>2. ASSUME NEW s \in E, s # {} PROVE pick(s) \in s /\ s \ {pick(s)} \in E
  BY <1>2
<1>3. files = [s \in E |-> Body(files, s)]
  <2>1. ASSUME NEW s \in E PROVE Filed(frame, s) = Body(files, s)
    <3>1. CASE s = {}
      BY <3>1, EmptyFiles
    <3>2. CASE s # {}
      <4>1. pick(s) \in s /\ s \ {pick(s)} \in E
        BY <1>2, <3>2
      <4>2. files[s \ {pick(s)}] = Filed(frame, s \ {pick(s)})
        BY <4>1
      <4> HIDE DEF pick, files
      <4> QED BY <3>2, <4>1, <4>2, InsertFiles
    <3> QED BY <3>1, <3>2
  <2> HIDE DEF Body
  <2> QED BY <2>1
<1>4. iter = [s \in E |-> Body(iter, s)]
  <2> HIDE DEF files, Body, E
  <2> QED BY <1>3
<1> HIDE DEF iter
<1>5. \A s \in E : iter[s] = Filed(frame, s)
  <2> DEFINE T == {s \in E : iter[s] # Filed(frame, s)}
             m == [s \in E |-> Cardinality(s)]
  <2> SUFFICES ASSUME T # {} PROVE FALSE
    OBVIOUS
  <2>1. ASSUME NEW s \in E PROVE IsFiniteSet(s) /\ Cardinality(s) \in Nat
    BY ReplayAssumption, FS_Subset, FS_CardinalityType
  <2>2. m \in [E -> Nat]
    BY <2>1
  <2>3. PICK s \in T : \A t \in E : m[t] < m[s] => t \notin T
    <3>1. T \subseteq E
      OBVIOUS
    <3> HIDE DEF T, m, E
    <3> QED BY <2>2, <3>1, LeastByMeasure
  <2>4. s \in E /\ iter[s] # Filed(frame, s)
    BY <2>3
  <2>5. CASE s = {}
    BY <1>4, <2>4, <2>5, EmptyFiles
  <2>6. CASE s # {}
    <3> DEFINE x == pick(s)
               t == s \ {x}
    <3>1. x \in s /\ t \in E
      BY <1>2, <2>4, <2>6
    <3> HIDE DEF pick
    <3>2. m[t] < m[s]
      <4>1. Cardinality(t) = Cardinality(s) - 1
        <5> HIDE DEF x
        <5> QED BY <2>1, <2>4, <3>1, FS_RemoveElement
      <4>2. Cardinality(s) \in Nat
        BY <2>1, <2>4
      <4> HIDE DEF t
      <4> QED BY <2>4, <3>1, <4>1, <4>2
    <3>3. iter[t] = Filed(frame, t)
      <4> HIDE DEF t, m
      <4> QED BY <2>3, <3>1, <3>2
    <3>4. iter[s] = Insert(iter[t], x, frame[x].lat, frame[x].lon)
      BY <1>4, <2>4, <2>6
    <3>5. Filed(frame, s) = Insert(Filed(frame, t), x, frame[x].lat, frame[x].lon)
      <4> HIDE DEF x
      <4> QED BY <3>1, InsertFiles
    <3> QED BY <2>4, <3>3, <3>4, <3>5
  <2> QED BY <2>5, <2>6
<1> QED BY <1>1, <1>5

\* Monotony of the whole division.
LEMMA LessByMultiple ==
  ASSUME NEW c \in Nat \ {0}, NEW q \in Nat, NEW r \in Nat, c * q < c * r + c
  PROVE  q <= r
<1> SUFFICES ASSUME q >= r + 1 PROVE FALSE
  OBVIOUS
<1>1. c * q >= c * (r + 1) /\ c * (r + 1) = c * r + c
  BY MultiplyGeq
<1>2. c * q \in Int /\ c * r \in Int
  OBVIOUS
<1> QED BY <1>1, <1>2

LEMMA DivMonotone ==
  ASSUME NEW c \in Nat \ {0}, NEW a \in Nat, NEW b \in Nat, a <= b
  PROVE  a \div c <= b \div c
<1> DEFINE q == a \div c
           r == b \div c
<1>1. q \in Nat /\ r \in Nat /\ c * q <= a /\ b < c * r + c
  BY DivBounds
<1> HIDE DEF q, r
<1>2. c * q < c * r + c
  <2>1. c * q \in Int /\ c * r \in Int
    BY <1>1
  <2> QED BY <1>1, <2>1
<1>3. q <= r
  BY <1>1, <1>2, LessByMultiple
<1> QED BY <1>3 DEF q, r

\* A cell's number gives its row and its column.
LEMMA CellIsUnique ==
  ASSUME NEW w \in Nat \ {0}, NEW y1 \in Nat, NEW y2 \in Nat,
         NEW x1 \in 0 .. w - 1, NEW x2 \in 0 .. w - 1, y1 * w + x1 = y2 * w + x2
  PROVE  y1 = y2 /\ x1 = x2
<1>1. w * y1 \in Int /\ w * y2 \in Int /\ y1 * w = w * y1 /\ y2 * w = w * y2
  OBVIOUS
<1>2. w * y1 < w * y2 + w /\ w * y2 < w * y1 + w
  BY <1>1
<1>3. y1 <= y2 /\ y2 <= y1
  BY <1>2, LessByMultiple
<1>4. y1 = y2
  BY <1>3
<1> QED BY <1>1, <1>4

\* The grid's size.
LEMMA GridSize ==
  /\ HalfTurn \in Nat \ {0} /\ QuarterTurn \in Nat \ {0} /\ CellSize \in Nat \ {0}
  /\ HalfTurn = 2 * QuarterTurn
  /\ GridWidth \in Nat \ {0} /\ GridHeight \in Nat
  /\ CellSize * GridWidth >= 2 * HalfTurn /\ CellSize * GridHeight >= 2 * QuarterTurn
<1>1. /\ HalfTurn \in Nat \ {0} /\ CellSize \in Nat \ {0} /\ QuarterTurn \in Nat \ {0}
      /\ HalfTurn = 2 * QuarterTurn
  BY GridAssumption DEF QuarterTurn
<1>2. 2 * HalfTurn \in Nat /\ 2 * QuarterTurn \in Nat
  BY <1>1
<1>3. /\ GridWidth \in Nat /\ CellSize * GridWidth >= 2 * HalfTurn
      /\ GridHeight \in Nat /\ CellSize * GridHeight >= 2 * QuarterTurn
  BY <1>1, <1>2, CeilDivBounds DEF GridWidth, GridHeight
<1>4. GridWidth # 0
  BY <1>1, <1>3
<1> QED BY <1>1, <1>3, <1>4

\* A place short of 180 degrees is in a column, a place short of a pole in a row.
LEMMA InGrid ==
  ASSUME NEW n \in Nat, NEW a \in Nat, NEW size \in Nat, a < size,
         CellSize * n >= size
  PROVE  a \div CellSize \in 0 .. n - 1
<1> DEFINE q == a \div CellSize
<1>1. CellSize \in Nat \ {0}
  BY GridSize
<1>2. q \in Nat /\ CellSize * q <= a
  BY <1>1, DivBounds
<1> HIDE DEF q
<1>3. ~(q >= n)
  <2> SUFFICES ASSUME q >= n PROVE FALSE
    OBVIOUS
  <2>1. CellSize * q >= CellSize * n
    BY <1>1, <1>2, MultiplyGeq
  <2>2. CellSize * q \in Int /\ CellSize * n \in Int
    BY <1>1, <1>2
  <2> QED BY <1>2, <2>1, <2>2
<1>4. q \in 0 .. n - 1
  BY <1>2, <1>3
<1> QED BY <1>4 DEF q

LEMMA PlaceInGrid ==
  ASSUME NEW p \in Globe, p.lon < HalfTurn
  PROVE  /\ Column(p.lon) \in 0 .. GridWidth - 1 /\ Row(p.lat) \in 0 .. GridHeight - 1
         /\ ComputeCell(p.lat, p.lon) \in CellIds
<1>1. /\ p.lon + HalfTurn \in Nat /\ p.lon + HalfTurn < 2 * HalfTurn
      /\ p.lat + QuarterTurn \in Nat /\ p.lat + QuarterTurn < 2 * QuarterTurn
      /\ 2 * HalfTurn \in Nat /\ 2 * QuarterTurn \in Nat
  BY GridSize DEF Globe
<1>2. Column(p.lon) \in 0 .. GridWidth - 1
  BY <1>1, GridSize, InGrid DEF Column
<1>3. Row(p.lat) \in 0 .. GridHeight - 1
  BY <1>1, GridSize, InGrid DEF Row
<1> DEFINE x == Column(p.lon)
           y == Row(p.lat)
<1>4. y * GridWidth + x \in 0 .. GridWidth * GridHeight - 1
  <2> HIDE DEF x, y
  <2>1. GridWidth \in Nat \ {0} /\ GridHeight \in Nat
        /\ x \in 0 .. GridWidth - 1 /\ y \in 0 .. GridHeight - 1
    BY <1>2, <1>3, GridSize DEF x, y
  <2>2. GridWidth * (GridHeight - 1) >= GridWidth * y
    BY <2>1, MultiplyGeq
  <2>3. /\ GridWidth * (GridHeight - 1) = GridWidth * GridHeight - GridWidth
        /\ y * GridWidth = GridWidth * y /\ GridWidth * y \in Nat
        /\ GridWidth * GridHeight \in Nat
    BY <2>1
  <2> QED BY <2>1, <2>2, <2>3
<1> QED BY <1>2, <1>3, <1>4 DEF ComputeCell, CellIds

\* Along one axis: a place in the box is in the cells the query visits, one in
\* these cells is less than a cell away from the box.
LEMMA AxisCells ==
  ASSUME NEW a \in Nat, NEW lo \in Nat, NEW hi \in Nat
  PROVE  /\ a \in lo .. hi => a \div CellSize \in lo \div CellSize .. hi \div CellSize
         /\ a \div CellSize \in lo \div CellSize .. hi \div CellSize
              => a >= lo - CellSize + 1 /\ a <= hi + CellSize - 1
<1>1. CellSize \in Nat \ {0}
  BY GridSize
<1> DEFINE q == a \div CellSize
           l == lo \div CellSize
           h == hi \div CellSize
<1>2. /\ q \in Nat /\ CellSize * q <= a /\ a < CellSize * q + CellSize
      /\ l \in Nat /\ CellSize * l <= lo /\ lo < CellSize * l + CellSize
      /\ h \in Nat /\ CellSize * h <= hi /\ hi < CellSize * h + CellSize
  BY <1>1, DivBounds
<1>3. ASSUME a \in lo .. hi PROVE l <= q /\ q <= h
  BY <1>1, <1>3, DivMonotone
<1>4. ASSUME l <= q, q <= h PROVE a >= lo - CellSize + 1 /\ a <= hi + CellSize - 1
  <2> HIDE DEF q, l, h
  <2>1. CellSize * q >= CellSize * l /\ CellSize * h >= CellSize * q
    BY <1>1, <1>2, <1>4, MultiplyGeq
  <2>2. CellSize * q \in Int /\ CellSize * l \in Int /\ CellSize * h \in Int
    BY <1>1, <1>2
  <2> QED BY <1>1, <1>2, <2>1, <2>2
<1>5. q \in Int /\ l \in Int /\ h \in Int
  BY <1>2
<1> HIDE DEF q, l, h
<1>6. /\ a \in lo .. hi => q \in l .. h
      /\ q \in l .. h => a >= lo - CellSize + 1 /\ a <= hi + CellSize - 1
  BY <1>3, <1>4, <1>5
<1> QED BY <1>6 DEF q, l, h

\* The same where the axis begins at -o.
LEMMA ShiftedAxisCells ==
  ASSUME NEW o \in Nat, NEW a \in Int, NEW lo \in Int, NEW hi \in Int,
         a + o \in Nat, lo + o \in Nat, hi + o \in Nat
  PROVE  /\ a \in lo .. hi
              => (a + o) \div CellSize \in (lo + o) \div CellSize .. (hi + o) \div CellSize
         /\ (a + o) \div CellSize \in (lo + o) \div CellSize .. (hi + o) \div CellSize
              => a \in lo - CellSize + 1 .. hi + CellSize - 1
<1> DEFINE x == a + o
           l == lo + o
           h == hi + o
<1>1. x \in Nat /\ l \in Nat /\ h \in Nat /\ CellSize \in Nat
  BY GridSize
<1>2. a \in lo .. hi => x \in l .. h
  OBVIOUS
<1>3. x >= l - CellSize + 1 /\ x <= h + CellSize - 1
        => a \in lo - CellSize + 1 .. hi + CellSize - 1
  BY <1>1
<1> HIDE DEF x, l, h
<1>4. /\ x \in l .. h => x \div CellSize \in l \div CellSize .. h \div CellSize
      /\ x \div CellSize \in l \div CellSize .. h \div CellSize
           => x >= l - CellSize + 1 /\ x <= h + CellSize - 1
  BY <1>1, AxisCells
<1>5. /\ a \in lo .. hi => x \div CellSize \in l \div CellSize .. h \div CellSize
      /\ x \div CellSize \in l \div CellSize .. h \div CellSize
           => a \in lo - CellSize + 1 .. hi + CellSize - 1
  BY <1>2, <1>3, <1>4
<1> QED BY <1>5 DEF x, l, h

\* A query visits the cell of every place in its box, and of none that is a
\* cell or more away from it.
LEMMA TouchedCells ==
  ASSUME NEW p \in Globe, p.lon < HalfTurn, NEW box \in BoxSet
  PROVE  /\ Inside(p, box) => ComputeCell(p.lat, p.lon) \in Touched(box)
         /\ box.maxLon < HalfTurn /\ ComputeCell(p.lat, p.lon) \in Touched(box)
              => /\ p.lat \in box.minLat - CellSize + 1 .. box.maxLat + CellSize - 1
                 /\ p.lon \in box.minLon - CellSize + 1 .. box.maxLon + CellSize - 1
<1>1. /\ p.lat \in Int /\ p.lon \in Int /\ CellSize \in Nat \ {0}
      /\ box.minLat \in Int /\ box.maxLat \in Int /\ box.minLon \in Int /\ box.maxLon \in Int
      /\ QuarterTurn \in Nat /\ HalfTurn \in Nat
  BY GridSize DEF Globe, BoxSet
<1>2. /\ p.lat + QuarterTurn \in Nat /\ p.lon + HalfTurn \in Nat
      /\ box.minLat + QuarterTurn \in Nat /\ box.maxLat + QuarterTurn \in Nat
      /\ box.minLon + HalfTurn \in Nat /\ box.maxLon + HalfTurn \in Nat
  BY GridSize DEF Globe, BoxSet
<1>3. /\ p.lat \in box.minLat .. box.maxLat
           => Row(p.lat) \in Row(box.minLat) .. Row(box.maxLat)
      /\ Row(p.lat) \in Row(box.minLat) .. Row(box.maxLat)
           => p.lat \in box.minLat - CellSize + 1 .. box.maxLat + CellSize - 1
  BY <1>1, <1>2, ShiftedAxisCells DEF Row
<1>4. /\ p.lon \in box.minLon .. box.maxLon
           => Column(p.lon) \in Column(box.minLon) .. Column(box.maxLon)
      /\ Column(p.lon) \in Column(box.minLon) .. Column(box.maxLon)
           => p.lon \in box.minLon - CellSize + 1 .. box.maxLon + CellSize - 1
  BY <1>1, <1>2, ShiftedAxisCells DEF Column
<1>5. ASSUME Inside(p, box) PROVE ComputeCell(p.lat, p.lon) \in Touched(box)
  BY <1>3, <1>4, <1>5 DEF Inside, ComputeCell, Touched
<1>6. ASSUME box.maxLon < HalfTurn, ComputeCell(p.lat, p.lon) \in Touched(box)
      PROVE  /\ Row(p.lat) \in Row(box.minLat) .. Row(box.maxLat)
             /\ Column(p.lon) \in Column(box.minLon) .. Column(box.maxLon)
  <2>1. PICK y \in Row(box.minLat) .. Row(box.maxLat),
             x \in Column(box.minLon) .. Column(box.maxLon) :
          Row(p.lat) * GridWidth + Column(p.lon) = y * GridWidth + x
    BY <1>6 DEF ComputeCell, Touched
  <2>2. Row(box.minLat) \in Nat /\ Row(box.maxLat) \in Nat
    BY <1>1, <1>2, DivBounds DEF Row
  <2>3. Column(box.minLon) \in Nat /\ Column(box.maxLon) \in 0 .. GridWidth - 1
    <3>1. /\ box.maxLon + HalfTurn < 2 * HalfTurn /\ 2 * HalfTurn \in Nat
          /\ GridWidth \in Nat /\ CellSize * GridWidth >= 2 * HalfTurn
      BY <1>1, <1>6, GridSize
    <3>2. Column(box.maxLon) \in 0 .. GridWidth - 1
      BY <1>2, <3>1, InGrid DEF Column
    <3> QED BY <1>1, <1>2, <3>2, DivBounds DEF Column
  <2>4. y \in Nat /\ x \in 0 .. GridWidth - 1 /\ GridWidth \in Nat \ {0}
    BY <2>2, <2>3, GridSize
  <2>5. Row(p.lat) \in Nat /\ Column(p.lon) \in 0 .. GridWidth - 1
    BY PlaceInGrid, GridSize
  <2>6. Row(p.lat) = y /\ Column(p.lon) = x
    BY <2>1, <2>4, <2>5, CellIsUnique
  <2> QED BY <2>6
<1> QED BY <1>3, <1>4, <1>5, <1>6

\* The grid is the index of the frame played last.
GridInv == played # <<>> => grid = Indexed(Last(played).frame)

LEMMA GridNext == ReplayInv /\ GridInv /\ [Next]_vars => GridInv'
<1> SUFFICES ASSUME ReplayInv, GridInv, [Next]_vars PROVE GridInv'
  OBVIOUS
<1>1. CASE PlayFrame
  <2>1. played \in Seq(Played)
    BY DEF ReplayInv, TypeInv
  <2> DEFINE p == [at |-> clock', frame |-> file[read + 1].frame]
  <2>2. played' = Append(played, p) /\ grid' = Indexed(file[read + 1].frame)
    BY <1>1 DEF PlayFrame
  <2>3. p.frame = file[read + 1].frame
    OBVIOUS
  <2> HIDE DEF p
  <2>4. Last(played') = p
    BY <2>1, <2>2 DEF Last
  <2> QED BY <2>2, <2>3, <2>4 DEF GridInv
<1>2. CASE UNCHANGED <<played, grid>>
  BY <1>2 DEF GridInv
<1> QED
  BY <1>1, <1>2
  DEF Next, vars, playVars, BeginRecord, EndRecord, Finish, Crash, Open, EndOfFile, TimePasses

-----------------------------------------------------------------------------
(***************************************************************************)
(* What follows from them.                                                 *)
(***************************************************************************)

\* The state keeps its types; no entity leaves the globe.
THEOREM TypeCorrect == Spec => []TypeOK
<1>1. ReplayInv => TypeOK
  BY ReplayAssumption DEF ReplayInv, TypeInv, TypeOK
<1> QED BY <1>1, ReplayInvariant, PTL

\* Wherever the recorder stopped or crashed, what is played is a beginning of
\* what was recorded, and PlayFromFile tells a file that is cut within a record
\* from one that is not.
THEOREM PlaysTheRecording == Spec => []PlaysWhatWasRecorded
<1>1. ReplayInv => PlaysWhatWasRecorded
  <2> SUFFICES ASSUME ReplayInv PROVE PlaysWhatWasRecorded
    OBVIOUS
  <2>0. TypeInv /\ FileInv /\ PlayInv
    BY DEF ReplayInv
  <2> DEFINE s == [k \in DOMAIN played |-> played[k].frame]
             t == [k \in DOMAIN made |-> made[k].frame]
  <2>1. /\ DOMAIN played = 1 .. Len(played) /\ DOMAIN made = 1 .. Len(made)
        /\ Len(played) \in Nat /\ Len(made) \in Nat /\ Len(played) <= Len(made)
    BY <2>0 DEF TypeInv, FileInv, PlayInv
  <2>2. /\ s \in Seq(GenFrames) /\ Len(s) = Len(played)
        /\ t \in Seq(GenFrames) /\ Len(t) = Len(made)
    <3>1. ASSUME NEW k \in 1 .. Len(played) PROVE played[k].frame \in GenFrames
      <4>1. played \in Seq(Played)
        BY <2>0 DEF TypeInv
      <4>2. played[k] \in Played
        BY <4>1
      <4> QED BY <4>2 DEF Played
    <3>2. ASSUME NEW k \in 1 .. Len(made) PROVE made[k].frame \in GenFrames
      <4>1. made \in Seq(Recorded)
        BY <2>0 DEF TypeInv
      <4>2. made[k] \in Recorded
        BY <4>1
      <4> QED BY <4>2 DEF Recorded
    <3> QED BY <2>1, <3>1, <3>2
  <2>3. ASSUME NEW k \in 1 .. Len(played) PROVE s[k] = t[k]
    <3>1. read \in 0 .. Len(file) /\ Len(file) \in Nat /\ Len(played) = read
      BY <2>0 DEF TypeInv, PlayInv
    <3>2. played[k].frame = file[k].frame /\ file[k] = made[k]
      BY <2>0, <3>1 DEF FileInv, PlayInv
    <3> QED BY <2>1, <3>2
  <2> HIDE DEF s, t
  <2>4. SubSeq(s, 1, Len(s)) = SubSeq(t, 1, Len(s))
    BY <2>1, <2>2, <2>3
  <2>5. IsPrefix(s, t)
    BY <2>1, <2>2, <2>4 DEF IsPrefix
  <2>6. /\ player = "done" => Len(played) = Len(file) /\ tail = "nothing"
        /\ player = "failed" => tail # "nothing"
    BY <2>0 DEF PlayInv
  <2> QED BY <2>5, <2>6 DEF PlaysWhatWasRecorded, s, t
<1> QED BY <1>1, ReplayInvariant, PTL

\* Played with timing, no frame comes a whole unit of the clock before it is due.
THEOREM PlayingNeverAhead == Spec => []NeverAhead
<1>1. ReplayInv => NeverAhead
  <2> SUFFICES ASSUME ReplayInv, speed # 0, NEW k \in 2 .. Len(played)
               PROVE  speed * (played[k].at - played[1].at + 1)
                        > file[k].elapsed - file[1].elapsed
    BY DEF NeverAhead
  <2>0. TypeInv /\ FileInv /\ PlayInv /\ TimeInv
    BY DEF ReplayInv
  <2>1. /\ Len(played) \in Nat /\ k \in 1 .. Len(played) /\ 1 \in 1 .. Len(played)
        /\ k # 1
    BY <2>0 DEF TypeInv
  <2>2. /\ played[1].at = started
        /\ speed * (played[k].at - started + 1) > file[k].elapsed
    BY <2>0, <2>1 DEF TimeInv
  <2>3. file[k] \in Recorded /\ file[1] \in Recorded
    BY <2>0, <2>1 DEF TypeInv, PlayInv
  <2>4. file[k].elapsed \in Nat /\ file[1].elapsed \in Nat
    BY <2>3, ReplayAssumption DEF Recorded
  <2>5. speed * (played[k].at - started + 1) \in Int
    <3>1. played[k] \in Played
      BY <2>0, <2>1 DEF TypeInv
    <3> QED BY SMTT(30), <2>0, <3>1, ReplayAssumption DEF TypeInv, Played
  <2> QED BY <2>2, <2>4, <2>5
<1> QED BY <1>1, ReplayInvariant, PTL

\* Whatever was played last, a query of the index made of it finds what is in
\* the box and nothing that is a cell or more away from it.
THEOREM QueriesFind == Spec => []IndexFinds
<1>1. Init => GridInv
  BY DEF Init, GridInv
<1>2. ReplayInv /\ GridInv => IndexFinds
  <2> SUFFICES ASSUME ReplayInv, GridInv, played # <<>>, NEW box \in Boxes, NEW i \in Entities,
                      Last(played).frame[i].lon < HalfTurn
               PROVE  LET p == Last(played).frame[i]
                      IN /\ Inside(p, box) => i \in Query(grid, box)
                         /\ box.maxLon < HalfTurn /\ i \in Query(grid, box)
                              => /\ p.lat \in box.minLat - CellSize + 1
                                                .. box.maxLat + CellSize - 1
                                 /\ p.lon \in box.minLon - CellSize + 1
                                                .. box.maxLon + CellSize - 1
    BY DEF IndexFinds, Inside
  <2> DEFINE f == Last(played).frame
             r == f[i]
             p == [lat |-> r.lat, lon |-> r.lon]
  <2>1. f \in GenFrames
    <3>1. played \in Seq(Played)
      BY DEF ReplayInv, TypeInv
    <3>2. Last(played) \in Played
      BY <3>1 DEF Last
    <3> QED BY <3>2 DEF Played
  <2>2. p \in Globe
    <3> HIDE DEF f
    <3>1. PICK at \in [Entities -> Globe], n \in Nat : f = Frame(at, n)
      BY <2>1 DEF GenFrames
    <3>2. r = [id |-> i, lat |-> at[i].lat, lon |-> at[i].lon, sequence |-> n]
      BY <3>1 DEF Frame
    <3>3. at[i] \in Globe
      BY <3>1
    <3>4. r.lat = at[i].lat /\ r.lon = at[i].lon
      BY <3>2
    <3> HIDE DEF r
    <3> QED BY <3>3, <3>4 DEF Globe
  <2>3. grid = Filed(f, Entities)
    BY IndexedFiles DEF GridInv
  <2>4. i \in Query(grid, box) <=> ComputeCell(r.lat, r.lon) \in CellIds \cap Touched(box)
    <3> HIDE DEF f
    <3> QED BY <2>3 DEF Query, Filed, Cell
  <2>5. p.lat = r.lat /\ p.lon = r.lon /\ box \in BoxSet
    BY ReplayAssumption
  <2>6. p.lon < HalfTurn
    BY <2>5
  <2> HIDE DEF p, r, f
  <2>7. ComputeCell(p.lat, p.lon) \in CellIds
    BY <2>2, <2>6, PlaceInGrid
  <2>8. /\ Inside(p, box) => ComputeCell(p.lat, p.lon) \in Touched(box)
        /\ box.maxLon < HalfTurn /\ ComputeCell(p.lat, p.lon) \in Touched(box)
             => /\ p.lat \in box.minLat - CellSize + 1 .. box.maxLat + CellSize - 1
                /\ p.lon \in box.minLon - CellSize + 1 .. box.maxLon + CellSize - 1
    BY <2>2, <2>5, <2>6, TouchedCells
  <2>9. Inside(p, box) <=> Inside(r, box)
    BY <2>5 DEF Inside
  <2> USE DEF r, f
  <2> QED BY <2>4, <2>5, <2>7, <2>8, <2>9
<1> QED BY <1>1, <1>2, ReplayInvariant, GridNext, PTL DEF Spec

=============================================================================
