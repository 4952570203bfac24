SPECIFICATION RoomSpec
CONSTANTS
  c1 = c1  c2 = c2  c3 = c3  c4 = c4  a = a  b = b  x = x
  Null = Null
  Conn = {c1, c2, c3, c4}
  Creator = c1
  Browsers <- MCAnyBrowsers
  Resumes = "current"
  UserOf <- MCFour
  MaxRotations = 2
  MaxDepartures = 4
  OneAtATime = TRUE
  RoomId = {r1}
  Name = {a, b, x}
  RawName = {a, b, x}
  Canon <- MCCanon
  Ek <- MCEk  GoodEk <- MCEk
  Claim <- MCClaim  GoodClaim <- MCClaim
  Sig <- Sids  GoodSig <- Sids
  Payload = {}
  Token = {}
  AdminToken = Null
  Version = {4}
  PROTOCOL_VERSION = 4
  MaxRoomSize = 0
  RoomTtl = 0
  MaxUnread = 0
INVARIANT KeysAgree
CHECK_DEADLOCK FALSE
