\* A client disconnects while a broadcast is under way.
CONSTANTS
  w1 = w1  t1 = t1  e1 = e1  e2 = e2  near = near  far = far
  Conns = {w1}
  WebSockets = {w1}
  Entities = {e1, e2}
  Positions = {near, far}
  Viewports <- NoViewports
  Frames <- PlainFrames
  MaxBufferFrames = 1
  MaxTicks = 1
  NoViewport = NoViewport
  NoMap = NoMap
SPECIFICATION Spec
INVARIANT BroadcastNeverPanics
\* the process may panic, and every connection may be gone
CHECK_DEADLOCK FALSE
