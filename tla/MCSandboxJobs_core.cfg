SPECIFICATION FairSpec
CONSTANTS
  c1 = c1
  c2 = c2
  k1 = k1
  m1 = m1
  Clients = {c1, c2}
  Killers = {k1}
  Meters = {m1}
  Pids <- MCPids2
  Requests <- FullRequests
  Statuses <- MCStatuses
  KilledStatus = 1009
  KILLED = 7777
  FdChunkSize = 2
  PidfdSupported = TRUE
  Faults = {}
  None = None
INVARIANT TypeOK
INVARIANT InSync
INVARIANT NeverFails
PROPERTY ImplementsJobService
PROPERTY WaitResolves
