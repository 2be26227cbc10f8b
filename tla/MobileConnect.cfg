SPECIFICATION Spec
CONSTANTS
  s1 = s1
  s2 = s2
  r1 = r1
  r2 = r2
  k1 = k1
  k2 = k2
  o1 = o1
  o2 = o2
  AnyServer = AnyServer
  None = None
  NoServer = None
  Servers <- OneServer
  Requests <- TwoRequests
  Keys <- OneKey
  Operations <- TwoOperations
  Targets <- AutoTarget
  Faults <- AllFaults
  Kinds <- AllKinds
  Flapping = TRUE
  Relogin = TRUE
  NamesAction = TRUE
SYMMETRY Symmetry
INVARIANT TypeOK
INVARIANT ProvisionedOncePerKey
INVARIANT RecordHasOperation
INVARIANT AnswersAgree
INVARIANT SuccessIsReported
CHECK_DEADLOCK FALSE
