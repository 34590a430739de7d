SPECIFICATION MCSpec
CONSTANTS
  Files = {f1, f2}
  Contents = {c1}
  Pristine = pristine
  Retention = 2
  MaxRecords = 4
  MaxRestarts = 2
SYMMETRY VersionsSymmetry
INVARIANTS
  TypeOK
  CumulativeIsNewest
  NumbersGrow
  RevertCarriesTarget
PROPERTIES
  OnlyOldestPruned
  RestartResumes
  ImplementsLog
CHECK_DEADLOCK FALSE
