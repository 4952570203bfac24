SPECIFICATION TerminalSpec
CONSTANTS
  Sock = {s1, s2, s3}
  NoSock = noSock
CHECK_DEADLOCK FALSE
PROPERTY ClosedForGood
