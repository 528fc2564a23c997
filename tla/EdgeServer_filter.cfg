\* One WebSocket client that subscribes, changes its viewport, unsubscribes
\* and falls behind.
CONSTANTS
  w1 = w1  t1 = t1  e1 = e1  e2 = e2  near = near  far = far
  Conns = {w1}
  WebSockets = {w1}
  Entities = {e1, e2}
  Positions = {near, far}
  Viewports <- NearOrFar
  Frames <- FilterFrames
  MaxBufferFrames = 1
  MaxTicks = 3
  NoViewport = NoViewport
  NoMap = NoMap
SPECIFICATION Spec
INVARIANTS TypeOK SubscriptionHonoured LastSentUnlessLossy CaughtUp
\* the process may panic, and every connection may be gone
CHECK_DEADLOCK FALSE
