SPECIFICATION PackedSpec
CONSTANTS
  MaxReaders = 3
  MaxWaiting = 7
  ReaderUnit = 4
INVARIANT
  MasksAgree
PROPERTY
  PackedStepIsFieldStep
