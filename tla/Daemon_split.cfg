SPECIFICATION Spec
CONSTANTS
  Uds = {"cli"}
  Http = {"web"}
  Workers = 3
  MaxConcurrentStart = 2
  AutoUp = TRUE
  Asked = {"ping", "restart", "boot.pin", "down", "shutdown"}
  CanHang = FALSE
INVARIANTS NamedServiceOnly
