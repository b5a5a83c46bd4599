SPECIFICATION Spec
CONSTANTS
  Invitees = {i1}
  Invitations = {n1, n2}
  Requests = {r1, r2}
  MaxTokens = 4
  MaxRemovals = 1
  None = None
SYMMETRY Symmetry
INVARIANTS
  OnePending
  ConsumedOnce
PROPERTIES
  FinalStatus
CHECK_DEADLOCK FALSE
