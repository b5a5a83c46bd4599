SPECIFICATION Spec
CONSTANTS
  Schedules = {s1}
  Ticks = {t1, t2}
  Edits = {e1}
  Crons = {1, 2}
  Batch = 1
  MaxTime = 2
  MaxEdits = 1
  MaxFaults = 1
  None = None
SYMMETRY Symmetry
INVARIANTS
  LeaseExclusive
  ClaimedOnce
  NoOccurrenceLost
CHECK_DEADLOCK FALSE
