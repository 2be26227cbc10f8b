SPECIFICATION Spec
CONSTANTS
  u1 = u1
  u2 = u2
  i1 = i1
  i2 = i2
  l1 = l1
  l2 = l2
  m1 = m1
  m2 = m2
  g1 = g1
  g2 = g2
  None = None
  Users <- OneUser
  Installs <- OneInstall
  Logins <- TwoLogins
  Sessions <- TwoSessions
  Requests <- TwoRequests
  Kinds <- SessionKinds
  Limits <- NoLimits
  Blockable <- OneUser
  Expiring <- SessionsOnly
  Cleaning = TRUE
  MaxRotations = 1
SYMMETRY Symmetry
INVARIANT NobodyWaitsInACircle
INVARIANT NoAccessOnceRevoked
PROPERTY ReuseEndsSession
PROPERTY ImplementsAccess
