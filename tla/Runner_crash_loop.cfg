SPECIFICATION FairSpec
CONSTANTS
  WindowSec = 300
  MaxCrashes = 5
  BackoffMax = 30
  EscalatedCurve <- EscalatedOfCode
  StartRetryCurve <- RetryOfCode
  FAST_FAIL_WINDOW_SEC = 10
  FAST_FAIL_STREAK = 3
  CONFIG_FAIL_CAP = 5
  START_FAIL_CAP = 10
  RESTART_FAIL_STREAK = 3
  DrainGrace = 30
  PrewarmTimeout = 60
  PollHealthy = 15
  PollUnhealthy = 2
  LockDelays = {0}
  AutoUp = TRUE
  Operations = {}
  StartModes <- OnlyOk
  Probes = {"port"}
  FlakyProbes <- Truthful
  MaxFaults = 0
PROPERTIES OutageResolved
