SPECIFICATION FairSpec
CONSTANTS
  IGN_CHANNELS = 1
  TimerPeriod = 8
  MicrosWrap = 16
  UsPerTick = 4
  UINT16_MAX = 40
  Delays = {3, 8, 24}
  Durations = {12, 36}
  Corrections = {1, 5}
  OverDwellActive = TRUE
  DwellLimit = 12
  MsTicks = 4
  Latency = 1
  PassTicks = 1
INVARIANTS
  TypeOK
  CoilFollowsStatus
  DwellBounded
PROPERTY
  EveryDwellEnds
