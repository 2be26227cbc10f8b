SPECIFICATION FairSpec
CONSTANTS
  s1 = s1
  s2 = s2
  request1 = request1
  request2 = request2
  cron = cron
  Servers <- OneServer
  Requests <- OneRequest
  Crons <- OneCron
  DesiredInputs <- Disable
  Audited <- NoServer
  Faults <- ReconcileFaults
  Flapping <- NoServer
  Limit = 2
  Elsewhere = 1
  Misaddressed = FALSE
  OmitsCommandType = FALSE
  MaxCommands = 1
  MaxResults = 1
PROPERTY PendingRowsSettle
CHECK_DEADLOCK FALSE
