SPECIFICATION Spec
CONSTANTS
  Schedule = 2
  PruneSchedule = 1
  Retain = 2
  Retention = 1
  Native = TRUE
  MaxSets = 3
  MaxMisses = 1
PROPERTIES AlertsKept
