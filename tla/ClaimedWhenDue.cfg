SPECIFICATION Spec
CONSTANTS
  Schedules = {s1}
  Ticks = {t1, t2}
  Edits = {e1}
  Crons = {1, 2}
  Batch = 1
  MaxTime = 2
  MaxEdits = 0
  MaxFaults = 0
  None = None
INVARIANTS
  ClaimedWhenDue
CHECK_DEADLOCK FALSE
