SPECIFICATION Spec
CONSTANTS
  t1 = t1
  t2 = t2
  h1 = h1
  h2 = h2
  h3 = h3
  x = x
  fam = fam
  None = None
  Broken = Broken
  Targets = {t1, t2}
  Hellos = {h1, h2, h3}
  Family <- MCFamily
  Prefix <- DistinctPrefix
  Majors = {1, 2}
  MaxRuns = 4
  Faults = {"run", "crash", "disk", "ignored", "server", "late", "overlap"}
  MaxFaults = 2
SYMMETRY Symmetry
CONSTRAINT Explored
INVARIANTS
  NoHelloLostBeforeFaults
  ArchiveLabels
PROPERTIES
  RowsComeAfterProfiles
  NoSpuriousArchive
  KeepsSlotHistory
\* labctl exits after its last target.
CHECK_DEADLOCK FALSE
