\* The blue captain's page, linked at any moment of a draft of two groups.
CONSTANTS
  composeCount = 2
  Places = {0, 4}
  Card = {1}
  myTeam = 0
  OtherPlaces <- mcOther
  PackThreads = {p1, p2}
  MaxPackets = 2
SPECIFICATION Spec
SYMMETRY mcSymmetry
\* The page has left for the result.
CHECK_DEADLOCK FALSE
INVARIANTS
  GroupsTrue
  BansAgainstTheOther
