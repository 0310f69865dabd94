SPECIFICATION Spec
CONSTANTS
  t1 = t1
  t2 = t2
  h1 = h1
  h2 = h2
  h3 = h3
  x = x
  fam = fam
  None = None
  Broken = Broken
  Targets = {t1}
  Hellos = {h1, h2, h3}
  Family <- MCFamily
  Prefix <- SharedPrefix
  Majors = {1}
  MaxRuns = 5
  Faults = {}
  MaxFaults = 0
INVARIANTS
  NoHelloLost
\* labctl exits after its last target.
CHECK_DEADLOCK FALSE
