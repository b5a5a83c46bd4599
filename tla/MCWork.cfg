SPECIFICATION InTurn
CONSTANTS
  Sessions = {1, 2}
  Openers = {o1, o2}
  MaxFaults = 1
  o1 = o1
  o2 = o2
  d1 = d1
  d2 = d2
  j1 = j1
  j2 = j2
  w1 = w1
  w2 = w2
  Anyone = Anyone
  None = None
INVARIANTS
  ActiveIsConsented
  RestorePointVerified
PROPERTIES
  SecondOpensOnlyByRace
  PendingIsAnswered
  ImplementsCommands
  ScansKept
  ScanCloses
  ScansImplementCommands
  RestorePointKept
  RunSettles
CHECK_DEADLOCK FALSE
