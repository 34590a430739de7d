SPECIFICATION MCFairSpec
CONSTANTS
  Problems = {p1, p2}
  NoProblem = none
  QueueCap = 4
  MaxBatch = 2
  ApplyRetries = 1
  DeployChoices = {TRUE}
  MaxCalls = 1
PROPERTIES
  OffComesToRest
  RunsSettle
  HandoverCompletes
