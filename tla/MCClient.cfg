SPECIFICATION BenchSpec
CONSTANTS
  MaxDrops = 3
  MaxOutages = 2
  MaxAsks = 2
  Sock = {s1, s2, s3}
  NoSock = noSock
  Peers = {p, q}
  Fp = {f, g}
  NoFp = noFp
  EventCap = 2
  MaxEvents = 9
  LogCap = 4
  MaxLogId = 5
  BodyHeights <- MCHeights
  ListHeight = 2
  MaxMsgs = 4
  WrapWidths <- MCWidths
  MaxGlyphs = 5
CHECK_DEADLOCK FALSE
INVARIANTS
  OneWayBack BannerCleared NoOrphanSession OnePerAttempt ShowsTheStore BarFits
  FocusShown KeysBarAtInput SelectedShown ScreenShown LinesFit TextKept MarksStay
PROPERTIES
  LostComesBack FpWarned FatalShown ExpandedInView LogBacklogKept MessageLands
  QuitConfirmed
