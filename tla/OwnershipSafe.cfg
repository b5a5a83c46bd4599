SPECIFICATION Spec
CONSTANTS
  Users = {u1, u2}
  Orgs = {o1, o2}
  Furnished = {o1}
  Requests = {r1, r2}
  MaxRows = 4
  MaxCommands = 3
  MaxFaults = 0
  None = None
SYMMETRY Symmetry
INVARIANTS
  OwnershipSafe
CHECK_DEADLOCK FALSE
