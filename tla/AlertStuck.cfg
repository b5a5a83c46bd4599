SPECIFICATION FairSpec
CONSTANTS
  PresenceKeys = {p1}
  MetricKeys = {}
  Alerts = {1, 2, 3, 4, 5}
  Legacy = {}
  Reports = {r1}
  Sweeps = {w1}
  MaxReports = 0
  MaxFlips = 3
  MaxCommands = 2
  MaxReopens = 1
  MaxFaults = 0
  None = None
PROPERTIES
  OfflineIsAlerted
CHECK_DEADLOCK FALSE
