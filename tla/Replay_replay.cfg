\* Two entities, up to three frames, played at the speed of the recording, at
\* twice that and without timing.
CONSTANTS
  HalfTurn = 4
  CellSize = 2
  Entities = {1, 2}
  Moving = {1}
  Start <- MCStart
  Steps <- MCSteps
  Speeds = {0, 1, 2}
  Boxes <- MCBoxes
  MaxFrames = 3
  MaxClock = 3
SPECIFICATION Spec
INVARIANTS TypeOK PlaysWhatWasRecorded NeverAhead IndexFinds
CHECK_DEADLOCK FALSE
