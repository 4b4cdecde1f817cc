\* Every order of creation, expiry and sweep, keys that are reused included.
CONSTANTS
  Keys = {1, 2, 3}
  gameTypes = {2, 3}
  MaxRooms = 4
SPECIFICATION TableSpec
\* Once the sweep is dead and the rooms are used up nothing happens any more.
CHECK_DEADLOCK FALSE
INVARIANT
  TypeOK
PROPERTIES
  OnlyExpiredLeave
  SweepComplete
  ExpiredLeaveOrDead
