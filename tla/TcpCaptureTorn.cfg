SPECIFICATION Spec
CONSTANTS
  Conns = {c1, c2}
  Targets = {t}
  Unknown = unknown
  JA4s = {a, b}
  Parallel = 2
  MaxNumber = 2
  Faults = {}
  MaxFaults = 0
  MaxRestarts = 0
  Absent = absent
  Empty = empty
  Mixed = mixed
INVARIANTS
  ExpectsItsHello
\* Every connection is closed and the bounds are reached.
CHECK_DEADLOCK FALSE
