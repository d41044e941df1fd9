SPECIFICATION Spec
CONSTANTS
  Disks = {d1, d2, d3, d4}
  Settings <- MCSettings
  MaxWrites = 2
  MaxDeletes = 1
SYMMETRY MCSymmetry
VIEW MCView
CHECK_DEADLOCK FALSE
INVARIANTS
  TypeOK
  NoStaleRead
  NoFalseNotFound
  ReadAfterWrite
  PreconditionKept
PROPERTY
  HealKeepsShards
