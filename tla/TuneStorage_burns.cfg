SPECIFICATION FairSpec
CONSTANTS
  NumPages = 2
  PageSize = 2
  IgnSetPage = 2
  Values = {0, 1}
  Blank = 0
  Budgets = {1, 2}
  Tunes <- MCTunes
  MaxCommands = 2
  MaxLosses = 1
INVARIANTS
  TypeOK
  BurnsAreKept
  ConvertedOnce
PROPERTY
  SavesEnd
