\* A whole draft: safety, that it ends, and refinement.  Previews come from the
\* hero table, as those of the pages do; a CHOOSE may carry any number.
CONSTANTS
  BanCount = 2
  MaxHeroCount = 3
  b = b
  r = r
  Ctx = {b, r}
  Joins <- mcJoins
  HeroNums = {0, 1, 2, 3}
  PreviewNums = {0, 1}
  MaxPlayers = 2
SPECIFICATION Spec
\* Once both captains are gone and the draft is over nothing happens any more.
CHECK_DEADLOCK FALSE
INVARIANTS
  TypeOK
  ClockRuns
  TurnOrder
  HeroOnce
  PreviewFree
  LinkedUpToDate
PROPERTIES
  ImplementsDraft
