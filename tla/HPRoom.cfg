\* A whole draft, with a watcher; and that it ends.
CONSTANTS
  composeCount = 2
  Cards = {1}
  Composed <- mcComposed
  ChooseNums = {0, 1}
  b = b
  r = r
  w = w
  Ctx = {b, r, w}
  Joins <- mcJoins
  Asks <- mcAsks
  MaxPlayers = 3
SPECIFICATION Spec
\* Once everybody is gone and the draft is over nothing happens any more.
CHECK_DEADLOCK FALSE
INVARIANTS
  TypeOK
  ClockMatchesPhase
  HiddenUntilEnd
  BansOnTheFinalGroups
  LinkedUpToDate
PROPERTIES
  ImplementsDraft
