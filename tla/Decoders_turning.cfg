SPECIFICATION Spec
CONSTANTS
  Never = 19440
  StgCycles = 1
  useResync = TRUE
  sequential = TRUE
  Patterns = {"DualWheel", "non360", "DRZ400", "BasicDistributor", "24X", "Jeep2000",
              "Audi135", "4G63_4", "4G63_6", "Miata9905", "MazdaAU", "Subaru67", "Nissan360_4",
              "Nissan360_6", "420a", "GM7X", "HondaD17", "HondaJ32", "Daihatsu_3",
              "Daihatsu_4", "Harley", "36-2-2-2_4", "36-2-2-2_6", "36-2-1", "NGC4", "NGC6", "Vmax",
              "Renix_4", "Renix_6", "RoverMEMS_2", "RoverMEMS_3", "SuzukiK6A", "FordTFI"}
  Speeds = {8, 9}
  MaxEvents = 1
  QuietMax = 5
INVARIANTS
  AngleIsTrue
  IntervalsAreTrue
  SyncReturns
  EndToothPrecedes
