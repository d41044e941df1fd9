SPECIFICATION Spec
CONSTANTS
  Disks = {d1, d2, d3, d4}
  Settings <- MCUndoSettings
  MaxWrites = 3
  MaxDeletes = 0
SYMMETRY MCSymmetry
VIEW MCView
CHECK_DEADLOCK FALSE
INVARIANT
  StaysReadable
