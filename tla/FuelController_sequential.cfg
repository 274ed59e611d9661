SPECIFICATION FairSpec
CONSTANTS
  NumChannels = 4
  Outputs = {1, 2, 3, 4, 5, 6, 7, 8}
  injLayout = "SEQUENTIAL"
  nCylinders = 4
  inj4cylPairing = "13_24"
INVARIANTS
  TypeOK
  NoOrphanInjector
  EveryCylinderFed
  FedOnce
PROPERTY
  FullDoseAdopted
