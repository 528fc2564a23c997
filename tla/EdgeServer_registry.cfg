\* One client of each kind that comes, goes and falls behind during broadcasts.
CONSTANTS
  w1 = w1  t1 = t1  e1 = e1  e2 = e2  near = near  far = far
  Conns = {w1, t1}
  WebSockets = {w1}
  Entities = {e1, e2}
  Positions = {near, far}
  Viewports <- NoViewports
  Frames <- PlainFrames
  MaxBufferFrames = 2
  MaxTicks = 3
  NoViewport = NoViewport
  NoMap = NoMap
SPECIFICATION Spec
INVARIANTS CountMatchesRegistry CaughtUp OnlyLeavingClientsPanic
PROPERTIES DeliveryInOrder ImplementsFeed
\* the process may panic, and every connection may be gone
CHECK_DEADLOCK FALSE
