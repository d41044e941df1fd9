SPECIFICATION FairSpec
CONSTANTS
  Batches = {b1, b2}
  Keys = {1, 2, 3}
  ShardOf <- MCShardOf
  Kinds = {"two_phase", "best_effort", "delete_objects"}
  MaxBatch = 2
INVARIANTS
  TypeOK
  NoCircularWait
  ResultComplete
PROPERTY
  BatchEnds
