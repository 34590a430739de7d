SPECIFICATION MCSpec
CONSTANTS
  Problems = {p1, p2}
  Files = {f1, f2}
  Callers = {c1, c2}
  None = none
  MaxRequests = 3
  MaxProposals = 2
  MaxEvents = 1
INVARIANTS
  TypeOK
  OwnProposal
  RunningHasARun
PROPERTIES
  RestartKeepsProposals
  RunsEnd
CHECK_DEADLOCK FALSE
