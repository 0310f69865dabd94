SPECIFICATION Spec
CONSTANTS
  a = a
  b = b
  None = None
  JA4s = {a, b}
  Configs <- MCConfigs
  States <- MCStates
  IDRank <- Ranks
  MaxExports = 2
  MaxCaptures = 1
  MaxCrashes = 2
CONSTRAINT
  Bounds
INVARIANTS
  MembersAreOrdered
  OneNamePerJA4
  EveryMemberIsNamed
  CatalogIsComplete
  CatalogIsTrue
\* labctl has ended and the bounds are reached.
CHECK_DEADLOCK FALSE
