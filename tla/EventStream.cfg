SPECIFICATION FairSpec
CONSTANTS
  MaxEvents = 3
  EntryLimit = 1
  MaxInflight = 2
  BatchSize = 1
  MaxRetries = 2
  MaxTargets = 2
  MaxFaults = 1
  Watched = {2}
CHECK_DEADLOCK FALSE
INVARIANTS
  NoLoss
  StoredIsListed
  PhantomsBounded
  CopiesBounded
PROPERTIES
  StoreBounded
  StreamDrains
