SPECIFICATION InTurn
CONSTANTS
  PresenceKeys = {p1}
  MetricKeys = {m1, m2}
  Alerts = {1, 2, 3, 4}
  Legacy = {1}
  Reports = {r1, r2}
  Sweeps = {w1, w2}
  MaxReports = 2
  MaxFlips = 3
  MaxCommands = 2
  MaxReopens = 1
  MaxFaults = 1
  None = None
SYMMETRY Symmetry
INVARIANTS
  ActiveKeyKept
  NotifiedOnce
  ToldUnlessDropped
CHECK_DEADLOCK FALSE
