SPECIFICATION Spec
CONSTANTS
  PingInterval = 3
  PingRestart = 8
  WarmupFast = 1
  ThresholdFast = 2
  FastWindow = 4
  WarmupSteady = 2
  ThresholdSteady = 3
  CheckPeriod = 2
  HardResetThreshold = 2
  HardResetPeriod = 2
  WakeGap = 4
  WakePeriod = 1
  L4 = {"tcp"}
  ServerInterval = 4
  SleepLengths = {5}
INVARIANTS
  NoticedInTime
  HealthySessionKept
  PingsFlow
CHECK_DEADLOCK FALSE
