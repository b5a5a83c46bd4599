SPECIFICATION InTurn
CONSTANTS
  m1 = m1
  m2 = m2
  s1 = s1
  r1 = r1
  r2 = r2
  h1 = h1
  Machines = {m1, m2, s1}
  Identities = {i1, i2}
  Serviced = {s1}
  Tokens = {t1}
  MaxUses = 3
  Requests = {r1, r2}
  Webhooks = {h1}
  Limits = {0, 1, 2}
  MaxFails = 2
  MaxFaults = 1
  None = None
SYMMETRY Symmetry
INVARIANTS
  LimitsKept
  OldCredentialDead
PROPERTIES
  DeletesStaleOnly
CHECK_DEADLOCK FALSE
