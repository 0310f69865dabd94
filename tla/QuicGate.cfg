SPECIFICATION Spec
CONSTANTS
  DirOrder <- MCDirOrder
  Hidden <- MCHidden
  LiveShort <- MCLiveShort
  Clients <- MCClients
  Initially <- MCInitially
  Family <- MCFamily
  ExtraPairs = {}
  MaxDials = 2
  MaxFaults = 1
  MaxScripts = 1
INVARIANTS
  RefsClassify
  GatesAgree
  LiveRoundTrip
  ParityIsIdentity
  DraftsKeepDialable
  JA4IsOfItsFlight
\* The bounds on scripts and dials are reached.
CHECK_DEADLOCK FALSE
ACTION_CONSTRAINT Explored
