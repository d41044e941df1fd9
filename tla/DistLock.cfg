SPECIFICATION MCSpec
CONSTANTS
  c1 = c1
  c2 = c2
  p1 = p1
  Nodes = {n1, n2, n3}
  Clients = {c1, c2}
  Procs = {p1}
  ProcOf <- MCProcOf
  Quorum <- MCQuorum
  NoMode = NoMode
  QueueCap = 1
  MaxAttempts = 2
  MaxRequests = 3
  MaxFaults = 2
  MaxCancels = 0
  MaxRestarts = 0
SYMMETRY MCSymmetry
INVARIANTS
  TypeOK
  MutualExclusion
  HolderKeepsQuorum
  GuardsRemembered
PROPERTY
  ImplementsRWLock
