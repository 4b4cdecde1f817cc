\* The start on two threads and a choice against the clock, at the last ban and
\* at the last pick; and every kind of packet, one handler at a time.
CONSTANTS
  BanCount = 1
  MaxHeroCount = 3
  PackThreads = {p1, p2}
  Starts <- mcStarts
  MaxTimers = 5
SYMMETRY mcSymmetry
CONSTRAINT mcAtOnce
SPECIFICATION Spec
\* The packets and the timers run out.
CHECK_DEADLOCK FALSE
INVARIANTS
  StartNotLost
  ClockKept
PROPERTY
  AtomicWhenAlone
