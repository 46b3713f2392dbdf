SPECIFICATION Spec
CONSTANTS
  mlx = mlx
  identity = identity
  cowork = cowork
  postgres = postgres
  redis = redis
  Services = {mlx, identity, cowork}
  Sidecars = {postgres, redis}
  layer_of <- Layers
  boot_tier <- Tiers
  deps_for <- Deps
  needs_injection = {identity}
  MaxConcurrentStart = 1
  ComposeOn = TRUE
  AutoUp = TRUE
  Operations = {"up_all", "down_all", "up_one", "down_one", "group_up", "group_down", "app", "pinned", "pin", "drain_all", "daemon_restart"}
  Pinnable = {cowork}
INVARIANTS TypeOK LayersInOrder PinsAgree BootSetHonoured SummaryHonest OperationNeverStuck
PROPERTIES OperationAdvances
