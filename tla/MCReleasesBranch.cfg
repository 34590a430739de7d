SPECIFICATION MCSpec
CONSTANTS
  Files = {f1, f2}
  f1 = f1
  f2 = f2
  fix = fix
  Tracked = {f1, f2}
  MainFile = f1
  Contents = {fix}
  Pristine = pristine
  None = none
  Callers = {ap, manual}
  Autopilot = ap
  Options <- MCOptions
  PatchSets <- MCPatchSets
  Branches <- MCBranches
  MaxRepair = 1
  MaxCalls = 4
  MaxGit = 1
INVARIANT
  RevertIsExact
CHECK_DEADLOCK FALSE
