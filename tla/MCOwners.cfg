SPECIFICATION InTurn
CONSTANTS
  Users = {u1, u2}
  Orgs = {o1, o2}
  Furnished = {o1}
  Requests = {r1, r2}
  MaxRows = 3
  MaxCommands = 3
  MaxFaults = 1
  None = None
SYMMETRY Symmetry
INVARIANTS
  EnabledIsProven
  CodesOfEnrolment
  OwnerKept
  LastOrgKept
  LoginPossible
CHECK_DEADLOCK FALSE
