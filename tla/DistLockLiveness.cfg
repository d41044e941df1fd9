SPECIFICATION MCFairSpec
CONSTANTS
  c1 = c1
  c2 = c2
  p1 = p1
  Nodes = {n1, n2, n3}
  Clients = {c1, c2}
  Procs = {p1}
  ProcOf <- MCProcOf
  Quorum <- MCQuorum
  NoMode = NoMode
  QueueCap = 1
  MaxAttempts = 1
  MaxRequests = 2
  MaxFaults = 0
  MaxCancels = 1
  MaxRestarts = 1
PROPERTY
  EventuallyAllFree
