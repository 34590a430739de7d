SPECIFICATION MCSpec
CONSTANTS
  Errors = {e}
  Perfs = {p}
  Counts = {0, 9, 10}
  Webhooks = {w1}
  CacheTTL = 1
  MaxStale = 2
  MaxNamed = 1
  None = none
  MaxEvents = 3
INVARIANTS
  TypeOK
PROPERTIES
  NoSpam
  NoFalseAllClear
  DigestFollows
