SPECIFICATION Spec
CONSTANTS
  NumPages = 2
  PageSize = 2
  IgnSetPage = 2
  Values = {0, 1}
  Blank = 0
  Budgets = {2}
  Tunes <- MCCurrentTune
  MaxCommands = 3
  MaxLosses = 0
INVARIANT
  PendingUntilSaved
