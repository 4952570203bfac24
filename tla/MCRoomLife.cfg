SPECIFICATION LifeFairSpec
CONSTANTS
  n1 = n1  n2 = n2
  Null = Null
  Conn = {c1, c2}
  RoomId = {r1, r2}
  Name <- MCName
  RawName <- MCName
  Canon <- MCCanon
  Ek = {k}  GoodEk = {k}
  Claim = {cl}  GoodClaim = {cl}
  Sig = {s}  GoodSig = {s}
  Payload = {p}
  Token = {}
  AdminToken = Null
  Version = {4}
  PROTOCOL_VERSION = 4
  MaxRoomSize = 0
  RoomTtl = 1
  MaxUnread = 0
PROPERTIES UsedRoomKept AbandonedRoomPruned
CHECK_DEADLOCK FALSE
