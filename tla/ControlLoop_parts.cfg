SPECIFICATION Spec
CONSTANTS
  Tunes <- MCTunes
  FirstReading <- MCReading
  SpeedsRead <- MCSpeeds
  Watched <- MCWatched
  PassTimes <- MCPassTimes
  LaunchTunes <- MCLaunchTunes
  Algorithms = {"STEP_OL", "PWM_OL"}
  SeclModulus = 8
  vvtMaxCount = 3
  VvtModulus = 7
  MaxPrimings = 2
  HomeSteps = 3
  MaxSteps = 2
  TestChannels = {1, 2}
  Rates <- MCRates
  Period <- MCPeriod
  MsModulus = 4
  tachoDuration = 2
  CanReports <- MCCanReports
  Received <- MCReceived
  Channels = {0, 1}
  Levels = {513}
INVARIANTS
  OutputsAgree
  PulsesKept
  TimesKept
  ReadingsAreSampled
  MessagesKept
CHECK_DEADLOCK FALSE
