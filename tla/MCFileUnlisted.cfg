SPECIFICATION TransferSpec
CONSTANTS
  Peer = {p, q}
  Chunks = 12
  WINDOW = 4
  ACK_INTERVAL = 2
  BufferCap = 11
  MaxJoins = 1
INVARIANTS NoBufferOverflow
CHECK_DEADLOCK FALSE
