SPECIFICATION MCSpec
CONSTANTS
  SilentLate = TRUE
  PingInterval = 1
  PingRestart = 1
  WarmupFast = 1
  ThresholdFast = 1
  FastWindow = 1
  WarmupSteady = 1
  ThresholdSteady = 1
  CheckPeriod = 1
  HardResetThreshold = 1
  HardResetPeriod = 1
  WakeGap = 1
  WakePeriod = 1
  L4 = {}
  ServerInterval = 1
  SleepLengths = {}
PROPERTIES
  DialReturns
CHECK_DEADLOCK FALSE
