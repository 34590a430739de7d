SPECIFICATION MCSpec
CONSTANTS
  Callers = {auto, manual}
  Haltable = {auto}
  Patches = {p1}
  Roots = {r1, r2}
  FirstRoot = r1
  Attempts = 2
  MaxBuilds = 2
  MaxCalls = 2
  MaxEvents = 1
INVARIANTS
  TypeOK
  ActiveIsFollowed
  FirstUploadIsFull
  UndisturbedCallShips
CHECK_DEADLOCK FALSE
