SPECIFICATION MCSpec
CONSTANTS
  Problems = {p1, p2}
  Files = {f1, f2}
  Callers = {c1, c2}
  None = none
  MaxRequests = 3
  MaxProposals = 2
  MaxEvents = 1
INVARIANT
  ProposalIsOwn
CHECK_DEADLOCK FALSE
