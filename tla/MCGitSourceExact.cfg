SPECIFICATION MCSpec
CONSTANTS
  A = A
  B = B
  a = a
  b = b
  Working = Working
  Problems = {A, B}
  Fixes = {a, b}
  FixFor <- MCFixFor
  MaxCommits = 4
  MaxWork = 3
  MaxEvents = 1
CHECK_DEADLOCK FALSE
INVARIANT HoldsExactlyTheFix
