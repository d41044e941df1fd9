SPECIFICATION Spec
CONSTANTS
  t1 = t1
  t2 = t2
  t3 = t3
  nodeA = nodeA
  nodeB = nodeB
  None = None
  Tasks = {t1, t2}
  Owners = {nodeA, nodeB}
  OwnerOf <- MCOwnerOf
  MaxReaders = 2
  MaxWaiting = 3
  MaxStates = 2
  MaxRetries = 0
  MaxWaiters = 2
  MaxCancels = 1
  SharedSlot = TRUE
  CleanupWindow = TRUE
INVARIANT
  MutualExclusion
