SPECIFICATION Spec
CONSTANTS
  Uds = {"cli"}
  Http = {"web"}
  Workers = 3
  MaxConcurrentStart = 2
  AutoUp = TRUE
  Asked = {"ping", "restart", "shutdown"}
  CanHang = TRUE
INVARIANTS TypeOK
PROPERTIES OneOperation SupervisionGoesOn EveryTurnComes AliveWhileBusy ShutdownEnds
