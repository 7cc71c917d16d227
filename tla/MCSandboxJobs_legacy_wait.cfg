SPECIFICATION FairSpec
CONSTANTS
  c1 = c1
  k1 = k1
  Clients = {c1}
  Killers = {k1}
  Meters = {}
  Pids <- MCPids2
  Requests <- OneRequest
  Statuses <- MCStatuses
  KilledStatus = 1009
  KILLED = 7777
  FdChunkSize = 2
  PidfdSupported = FALSE
  Faults = {}
  None = None
PROPERTY WaitResolves
