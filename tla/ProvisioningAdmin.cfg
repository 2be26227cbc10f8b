SPECIFICATION Spec
CONSTANTS
  s1 = s1
  s2 = s2
  request1 = request1
  request2 = request2
  cron = cron
  Servers <- OneServer
  Requests <- OneRequest
  Crons <- OneCron
  DesiredInputs <- Disable
  Audited <- OneServer
  Faults <- AdminFaults
  Flapping <- OneServer
  Limit = 2
  Elsewhere = 0
  Misaddressed = FALSE
  OmitsCommandType = FALSE
  MaxCommands = 1
  MaxResults = 1
INVARIANT OnlyRequestedActions
PROPERTY ImplementsDeployment
INVARIANT PendingActionMatchesDesired
