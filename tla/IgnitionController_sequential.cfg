SPECIFICATION FairSpec
CONSTANTS
  NumChannels = 4
  Outputs = {1, 2, 3, 4, 5, 6, 7, 8}
  sparkMode = "SEQUENTIAL"
  nCylinders = 4
  rotaryType = "FC"
INVARIANTS
  TypeOK
  NoOrphanCharge
  EveryCylinderSparks
PROPERTIES
  UnusedChannelsRunOut
  FullSyncAdopted
