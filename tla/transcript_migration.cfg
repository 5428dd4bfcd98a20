SPECIFICATION Spec
CONSTANTS
  Plain = {}
  Composite = {"call_1|fc_1"}
  Odd = {}
  Marked = {}
  None = None
  Files <- TwoFiles
  Contents <- SomeRows
  Natures <- SomeNatures
  NewRows <- AppendedRows
  MaxRuns = 2
  MaxAppends = 1
  MaxCrashes = 1
INVARIANTS BackupFirst RowsKept MatchKept
CHECK_DEADLOCK FALSE
