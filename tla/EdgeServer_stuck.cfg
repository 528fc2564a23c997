\* A WebTransport client whose write never returns and whose channel is full.
CONSTANTS
  w1 = w1  t1 = t1  e1 = e1  e2 = e2  near = near  far = far
  Conns = {t1}
  WebSockets = {}
  Entities = {e1, e2}
  Positions = {near, far}
  Viewports <- NoViewports
  Frames <- PlainFrames
  MaxBufferFrames = 1
  MaxTicks = 4
  NoViewport = NoViewport
  NoMap = NoMap
SPECIFICATION FairSpec
PROPERTY BroadcastCompletes
\* the process may panic, and every connection may be gone
CHECK_DEADLOCK FALSE
