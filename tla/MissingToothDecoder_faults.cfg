SPECIFICATION FairSpec
CONSTANTS
  triggerTeeth = 6
  triggerMissingTeeth = 1
  sequential = TRUE
  triggerFilter = 2
  logging = FALSE
  SlotTimes = {4, 5}
  RestPositions = {0, 1, 2, 3, 4, 5, 6, 7, 8, 9, 10, 11}
  Speeds = {"slow", "fast"}
  Faults = {"pulse", "cam", "noise", "stall"}
  MaxFaults = 3
INVARIANTS
  TypeOK
  FullMeansAligned
  AngleCorrectMeansOneSlot
PROPERTY
  SyncReturns
