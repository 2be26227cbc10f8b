SPECIFICATION Spec
CONSTANTS
  s1 = s1
  s2 = s2
  r1 = r1
  r2 = r2
  k1 = k1
  k2 = k2
  o1 = o1
  o2 = o2
  AnyServer = AnyServer
  None = None
  NoServer = None
  Servers <- OneServer
  Requests <- OneRequest
  Keys <- TwoKeys
  Operations <- TwoOperations
  Targets <- OneTarget
  Faults <- NoFaults
  Kinds <- Connecting
  Flapping = FALSE
  Relogin = FALSE
  NamesAction = TRUE
INVARIANT ConnectFindsDeployment
CHECK_DEADLOCK FALSE
