SPECIFICATION Spec
CONSTANTS
  postgres = postgres
  redis = redis
  Containers <- OfTwo
  DedupSec = 4
  Escalation = 3
  Conditions <- SeenByDocker
  Intervals = {1, 2}
  GapBound = 3
SYMMETRY AnyOrder
INVARIANTS TypeOK ReminderDue
PROPERTIES EscalatesAtThreshold
