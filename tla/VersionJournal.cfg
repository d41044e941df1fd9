SPECIFICATION Spec
CONSTANTS
  Disks = {d1, d2, d3, d4}
  Parity = 2
  MaxOps = 3
  MaxMisses = 2
SYMMETRY MCSymmetry
VIEW MCView
CHECK_DEADLOCK FALSE
INVARIANTS
  TypeOK
  ListingComplete
  DeletedNotShown
  MergedIsJournal
  ShownByQuorum
  VersionsListed
