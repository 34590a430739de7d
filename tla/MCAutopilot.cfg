SPECIFICATION MCSpec
CONSTANTS
  Problems = {p1, p2}
  NoProblem = none
  QueueCap = 2
  MaxBatch = 2
  ApplyRetries = 1
  DeployChoices = {TRUE}
  MaxCalls = 2
SYMMETRY ProblemSymmetry
INVARIANTS
  TypeOK
  NoOrphanRun
  LiveBatchIsWanted
  ManualMeansReleased
  StoppingIsScoped
  DeployedWasShipped
PROPERTY
  ImplementsAutoPatch
