\* One task (tasks share nothing on disk), three overlapping writes, two stops.
SPECIFICATION Spec
CONSTANTS
  t1 = t1
  Task = {t1}
  MaxWrites = 3
  MaxStops = 2
  Faults = TRUE
INVARIANTS
  NoFalseEnd
  LoadSucceeds
CHECK_DEADLOCK FALSE
