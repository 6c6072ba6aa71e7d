CONSTANTS
  h1 = h1
  h2 = h2
  h3 = h3
  h4 = h4
  h5 = h5
  h6 = h6
  INVALID = INVALID
  Handles <- SixHandles
  AcceptCount = 2
SPECIFICATION Spec
SYMMETRY Symmetry
INVARIANTS OutstandingIsReady ClosedHandsOverOnce
CHECK_DEADLOCK FALSE
