SPECIFICATION SessionSpec
CONSTANTS
  YieldBudget = 1
  Chunks = 2
  ReadAhead = 2
  StageCap = 2
INVARIANT CleanEndIsComplete
