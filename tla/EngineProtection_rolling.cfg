SPECIFICATION FairSpec
CONSTANTS
  IgnWidths = {1, 2, 3}
  InjWidths = {2}
  protectType = "BOTH"
  nonSequential = TRUE
  fourStroke = TRUE
  StgCycles = 1
  MaxRevs = 12
  MaxResyncs = 2
INVARIANTS
  TypeOK
  CutChannelsStayCut
PROPERTIES
  SparkFollowsFuel
  SparkWaitsForFuel
