\* An aircraft and a vessel of which one fits a frame, and the fallback.
CONSTANTS
  a1 = a1  s1 = s1  i1 = i1  i3 = i3  g1 = g1
  AdsbFeeds <- A1
  AisFeeds <- S1
  Ids = {i1, i3}
  HeardBy <- OneEach
  Synthetic = {g1}
  MaxAge = 1
  MaxEntities = 1
  CountModulus = 2
  SeqModulus = 2
  None = None
SPECIFICATION FairSpec
INVARIANT TypeOK
PROPERTIES CompleteFrames SilentLeave CancelStops
