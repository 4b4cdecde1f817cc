\* One card, offered for a second place of its group.
CONSTANTS
  composeCount = 2
  Places = {0, 4}
  Card = {1}
  myTeam = 0
  OtherPlaces <- mcOther
  PackThreads = {p1, p2}
  MaxPackets = 2
SPECIFICATION Spec
SYMMETRY mcSymmetry
\* The page has left for the result.
CHECK_DEADLOCK FALSE
INVARIANT
  CardOnce
