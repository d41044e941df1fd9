SPECIFICATION Spec
CONSTANTS
  t1 = t1
  t2 = t2
  t3 = t3
  nodeA = nodeA
  nodeB = nodeB
  None = None
  Tasks = {t1, t2, t3}
  Owners = {nodeA, nodeB}
  OwnerOf <- MCOwnerOf
  MaxReaders = 2
  MaxWaiting = 3
  MaxStates = 1
  MaxRetries = 0
  MaxWaiters = 1
  MaxCancels = 1
  SharedSlot = FALSE
  CleanupWindow = FALSE
SYMMETRY MCSymmetry
INVARIANTS
  TypeOK
  MutualExclusion
  WordCountsHolders
  OwnerTablesAgree
  WaitingCountsExact
  ParkedReachable
