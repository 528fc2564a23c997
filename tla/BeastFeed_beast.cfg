\* Three frames in up to two sessions.
CONSTANTS
  Esc = Esc  Long = Long  Short = Short  Other = Other  Number = Number
  Byte <- MCByte  MinLen <- MCMinLen  Patterns <- MCPatterns
  MaxFrames = 3  Backlog = 6
  MaxSessions = 2
  MaxFailures = 1
SPECIFICATION Spec
INVARIANTS TypeOK ChunkingIsInvisible InOrderOnce NothingLost BufferBounded
PROPERTIES CancelEnds
CHECK_DEADLOCK FALSE
