\* A WebSocket client that is slow or goes away.
CONSTANTS
  w1 = w1  t1 = t1  e1 = e1  e2 = e2  near = near  far = far
  Conns = {w1}
  WebSockets = {w1}
  Entities = {e1, e2}
  Positions = {near, far}
  Viewports <- NoViewports
  Frames <- PlainFrames
  MaxBufferFrames = 1
  MaxTicks = 3
  NoViewport = NoViewport
  NoMap = NoMap
SPECIFICATION FairSpec
PROPERTIES WebSocketReaped QueueMoves
\* the process may panic, and every connection may be gone
CHECK_DEADLOCK FALSE
