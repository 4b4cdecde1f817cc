\* A previewed hero chosen as the time runs out.
CONSTANTS
  BanCount = 1
  MaxHeroCount = 3
  PackThreads = {p1, p2}
  Starts <- mcRace
  MaxTimers = 2
SYMMETRY mcSymmetry
SPECIFICATION Spec
\* The packets and the timers run out.
CHECK_DEADLOCK FALSE
INVARIANT
  HeroOnce
