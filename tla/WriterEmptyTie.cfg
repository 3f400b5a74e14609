SPECIFICATION MCSpec
CONSTANTS
  a = a
  b = b
  v = v
  w = w
  Names = {a, b, v, w}
  OpenRequests <- AllRequests
  Lens = {0, 1, 2}
  Times <- SignedTimes
  PackedLens = {1, 2}
  IdSpace = 3
  SinkMayFail = TRUE
  MaxMsgs = 4
  MaxGroups = 2
  MaxCloses = 2
  Infinity = 99
  NoConfig = NoConfig
INVARIANTS
  EveryMessageItsBytes
