SPECIFICATION InTurn
CONSTANTS
  s1 = s1
  s2 = s2
  t1 = t1
  t2 = t2
  e1 = e1
  p1 = p1
  m1 = m1
  r1 = r1
  w1 = w1
  w2 = w2
  u1 = u1
  u2 = u2
  k1 = k1
  k2 = k2
  None = None
  Chunks <- ThreeTexts
INVARIANTS
  RestingIsEmbedded
  RefreshKept
  FindingAlertedOnce
PROPERTIES
  DueIsHandled
  OfflineIsAlerted
  RecoveryIsResolved
  ArticleIsEmbedded
  InstalledIsShown
  SevereIsAlerted
CHECK_DEADLOCK FALSE
