\* Only rooms of a known game, and none that is created while a sweep runs.
CONSTANTS
  Keys = {1, 2}
  gameTypes = {2}
  MaxRooms = 2
SPECIFICATION QuietSpec
CHECK_DEADLOCK FALSE
PROPERTY
  ExpiredLeave
