SPECIFICATION Spec
CONSTANTS
  WindowSec = 2
  MaxCrashes = 1
  BackoffMax = 2
  EscalatedCurve <- ShortEscalated
  StartRetryCurve <- ShortRetry
  FAST_FAIL_WINDOW_SEC = 2
  FAST_FAIL_STREAK = 1
  CONFIG_FAIL_CAP = 2
  START_FAIL_CAP = 2
  RESTART_FAIL_STREAK = 2
  DrainGrace = 1
  PrewarmTimeout = 2
  PollHealthy = 1
  PollUnhealthy = 1
  LockDelays = {0}
  AutoUp = FALSE
  Operations = {"up", "down", "restart", "drain", "cancel_drain", "rollout", "daemon_restart", "script"}
  StartModes <- AnyStart
  Probes = {"port", "socket"}
  FlakyProbes <- Misleading
  MaxFaults = 0
INVARIANTS TypeOK RestartEvidence OutageBudget StopHolds
PROPERTIES ParkedStaysParked OnlyCrashesCharged Contract
