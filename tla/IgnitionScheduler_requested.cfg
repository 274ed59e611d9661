SPECIFICATION FairSpec
CONSTANTS
  IGN_CHANNELS = 1
  TimerPeriod = 8
  MicrosWrap = 16
  UsPerTick = 4
  UINT16_MAX = 40
  Delays = {3, 8, 24}
  Durations = {4, 12}
  Corrections = {}
  OverDwellActive = FALSE
  DwellLimit = 12
  MsTicks = 4
  Latency = 1
  PassTicks = 1
PROPERTIES
  DwellAsRequested
  PendingStarts
  ImplementsStateMachine
