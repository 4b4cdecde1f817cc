\* A draft of three groups; two handlers at once, and a whole draft without overlap.
CONSTANTS
  composeCount = 3
  PackThreads = {p1, p2}
  Starts <- mcStarts
  MaxTimers = 9
SPECIFICATION Spec
\* The draft has ended and the packets are handled.
CHECK_DEADLOCK FALSE
INVARIANTS
  BothBanned
  OwnBans
PROPERTIES
  AtomicWhenAlone
  DraftEnds
