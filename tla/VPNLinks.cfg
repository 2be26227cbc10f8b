SPECIFICATION Spec
CONSTANTS
  j1 = j1
  j2 = j2
  b1 = b1
  b2 = b2
  r1 = r1
  None = None
  Jobs <- TwoJobs
  Batches <- TwoBatches
  Rows <- Columns
  Requests <- OneRequest
  MaxQueued = 2
  MaxFaults = 1
INVARIANT TypeOK
INVARIANT BatchFollowsJobs
INVARIANT SuccessHasLink
PROPERTY NeverDeniesALink
PROPERTY LinksOnlyGrow
CHECK_DEADLOCK FALSE
