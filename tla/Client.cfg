\* A browser with either client, from the form to the result of a draft of two groups.
CONSTANTS
  Clients = {"LOLM", "HP"}
  Typed <- mcTyped
  composeCount = 2
  MaxOnTheWay = 3
SPECIFICATION Spec
\* The page has shown the result, is not answered, or has lost its connection.
CHECK_DEADLOCK FALSE
INVARIANTS
  SideAsLabelled
  RefusedOnlyIfGone
  ResultTrue
PROPERTY
  ReachesResult
