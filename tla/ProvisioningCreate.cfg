SPECIFICATION Spec
CONSTANTS
  s1 = s1
  s2 = s2
  request1 = request1
  request2 = request2
  cron = cron
  Servers <- TwoServers
  Requests <- TwoRequests
  Crons <- NoCron
  DesiredInputs <- NoInputs
  Audited <- TwoServers
  Faults <- CreateFaults
  Flapping <- NoServer
  Limit = 2
  Elsewhere = 0
  Misaddressed = TRUE
  OmitsCommandType = FALSE
  MaxCommands = 1
  MaxResults = 1
SYMMETRY Symmetry
INVARIANT TypeOK
INVARIANT StatusIsAcknowledged
INVARIANT ReadyIsAcknowledged
INVARIANT NotifiedAtMostOnce
PROPERTY LateFailureKeepsSuccess
