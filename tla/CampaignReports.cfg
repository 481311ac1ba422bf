SPECIFICATION ReportsSpec
CONSTANTS
  Run = {1}
  File = {f}
  Reporter = {c1, c2}
  Observed <- MCObserved
  MaxMoves = 1
  MaxStamps = 4
INVARIANTS LogInv ReportsFresh OverviewTellsAll
CHECK_DEADLOCK FALSE
SYMMETRY Symmetry
