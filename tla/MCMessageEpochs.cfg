SPECIFICATION Spec
CONSTANTS
  EPOCH_KEEP_WINDOW = 1
  MaxSkip = 1
  MaxCache = 2
  MaxEpoch = 2
  MaxPerEpoch = 3
INVARIANT EpochBoundary
CHECK_DEADLOCK FALSE
