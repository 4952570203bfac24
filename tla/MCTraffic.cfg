SPECIFICATION TrafficSpec
CONSTANTS
  EPOCH_KEEP_WINDOW = 1
  MaxSkip = 1
  MaxCache = 2
  MaxEpoch = 2
  MaxPerEpoch = 3
  Peer = {p, q}
  Chunks = 7
  WINDOW = 4
  ACK_INTERVAL = 2
  BufferCap = 11
  MaxJoins = 1
INVARIANTS TypeOK OpenedOnce WithinReach BoundedStores TransferTypeOK WindowHeld
PROPERTIES TransferEnds
CHECK_DEADLOCK FALSE
