\* Two workers, one after the other or both at once, with two frames or with a frame
\* and a disconnect.
CONSTANTS
  MaxWorkers = 2
  MaxEvents = 2
SPECIFICATION Spec
INVARIANTS TypeOK ReleaseFence FlagSettles
PROPERTIES DisconnectCloses
CHECK_DEADLOCK FALSE
