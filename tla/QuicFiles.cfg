SPECIFICATION Spec
CONSTANTS
  long = long
  part = part
  Flights = {long, part}
  Size <- MCSize
  Complete = {long}
  SNI <- MCSNI
  PeerID <- MCPeerID
  Hint = "chromeparrot"
  Unknown = "unknown"
  Parallel = 2
  MaxSecond = 1
  MaxFaults = 1
  MaxKills = 1
  Absent = absent
  Empty = empty
  Mixed = mixed
INVARIANTS
  PromotedIsCaptured
  PromotionIsNotUndone
  PromotionRepairs
\* Every flight is finished and the bounds are reached.
CHECK_DEADLOCK FALSE
