SPECIFICATION Spec
CONSTANTS
  u1 = u1
  u2 = u2
  i1 = i1
  i2 = i2
  l1 = l1
  l2 = l2
  m1 = m1
  m2 = m2
  g1 = g1
  g2 = g2
  None = None
  Users <- TwoUsers
  Installs <- TwoInstalls
  Logins <- TwoLogins
  Sessions <- TwoSessions
  Requests <- TwoRequests
  Kinds <- LoginKinds
  Limits <- SomeLimits
  Blockable <- Nobody
  Expiring <- LoginsOnly
  Cleaning = TRUE
  MaxRotations = 1
SYMMETRY Symmetry
INVARIANT TypeOK
INVARIANT OneSessionPerLogin
INVARIANT SessionsOfTheOwner
INVARIANT RequestsGoOn
PROPERTY DeviceLimitHolds
