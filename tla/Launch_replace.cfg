SPECIFICATION Spec
CONSTANTS
  p1 = p1
  p2 = p2
  p3 = p3
  nopid = nopid
  Pids <- MCPids
  NoPid <- nopid
SYMMETRY Renamings
INVARIANTS TypeOK Replaced NeverBlocked
PROPERTIES RightKey
