SPECIFICATION Spec
CONSTANTS
  c1 = c1  c2 = c2  c3 = c3  n1 = n1  n2 = n2
  padded = padded  control = control  empty = empty
  Null = Null
  Conn = {c1, c2, c3}
  RoomId = {r1, r2}
  Name <- MCName
  RawName <- MCRawName
  Canon <- MCCanon
  Ek = {k}  GoodEk = {k}
  Claim = {cl, empty}  GoodClaim = {cl}
  Sig = {s}  GoodSig = {s}
  Payload = {p}
  Token = {t}
  AdminToken = t
  Version = {3, 4}
  PROTOCOL_VERSION = 4
  MaxRoomSize = 2
  RoomTtl = 1
  MaxUnread = 0
INVARIANTS TypeOK UniqueNames Capacity NoStrandedMember
PROPERTIES DirSpec
SYMMETRY MCSymmetry
CHECK_DEADLOCK FALSE
