SPECIFICATION FairSpec
CONSTANTS
  Conns = {c1, c2}
  Targets = {t}
  Unknown = unknown
  JA4s = {a}
  Parallel = 2
  MaxNumber = 2
  Faults = {"disk", "kill"}
  MaxFaults = 2
  MaxRestarts = 1
  Absent = absent
  Empty = empty
  Mixed = mixed
INVARIANTS
  CaptureDirsPrivate
  AnsweredIsCaptured
  LatestWins
  ProfileHasCapture
  ProfileIsOneCapture
PROPERTIES
  ConnectionsEnd
\* Every connection is closed and the bounds are reached.
CHECK_DEADLOCK FALSE
