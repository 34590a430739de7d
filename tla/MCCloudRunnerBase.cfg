SPECIFICATION MCSpec
CONSTANTS
  Callers = {auto}
  Haltable = {auto}
  Patches = {p1, p2}
  Roots = {r1, r2}
  FirstRoot = r1
  Attempts = 2
  MaxBuilds = 2
  MaxCalls = 2
  MaxEvents = 0
INVARIANT OnlyApprovedIsLive
CHECK_DEADLOCK FALSE
