SPECIFICATION CooperativeSpec
CONSTANTS
  WindowSec = 8
  MaxCrashes = 1
  BackoffMax = 2
  EscalatedCurve <- ShortEscalated
  StartRetryCurve <- ShortRetry
  FAST_FAIL_WINDOW_SEC = 2
  FAST_FAIL_STREAK = 2
  CONFIG_FAIL_CAP = 2
  START_FAIL_CAP = 2
  RESTART_FAIL_STREAK = 2
  DrainGrace = 1
  PrewarmTimeout = 2
  PollHealthy = 1
  PollUnhealthy = 1
  LockDelays = {0, 1}
  AutoUp = TRUE
  Operations = {"drain", "rollout"}
  StartModes <- SteadyStarts
  Probes = {"port", "socket"}
  FlakyProbes <- Truthful
  MaxFaults = 1
PROPERTIES OutageResolved DrainEnds
