SPECIFICATION MCSpec
CONSTANTS
  Errors = {e}
  Perfs = {p}
  Counts = {0, 9, 10}
  Webhooks = {w1, w2}
  CacheTTL = 1
  MaxStale = 2
  MaxNamed = 1
  None = none
  MaxEvents = 3
PROPERTY
  RearmedRepost
CHECK_DEADLOCK FALSE
