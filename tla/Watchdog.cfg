SPECIFICATION FairSpec
CONSTANTS
  Runs = {1, 2}
  MaxActive = 1
  Batch = 2
  Budget = 1
  CooldownBase = 1
  CooldownStep = 1
  CooldownMax = 2
  MaxExits = 2
  SessionMay = {"recover", "launch"}
INVARIANTS BarrenExitsBounded
PROPERTIES BudgetsKept QueuedIsLaunched ClosedIsFinalized
CHECK_DEADLOCK FALSE
