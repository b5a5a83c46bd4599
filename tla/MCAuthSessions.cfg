SPECIFICATION MCSpec
CONSTANTS
  Users = {u1}
  Orgs = {o1, o2}
  Requests = {r1, r2}
  Tokens = {t1, t2, t3}
  Sids = {s1, s2}
  ResetTokens = {k1}
  MaxPassword = 2
  None = None
SYMMETRY Symmetry
INVARIANTS
  RotationSingleUse
  OneHolderPerSession
  OnlyOlderRightsSurvive
  ResetSingleUse
