SPECIFICATION Spec
CONSTANTS
  p1 = p1
  p2 = p2
  f1 = f1
  f2 = f2
  Peers = {p1, p2}
  Frags = {f1, f2}
  MaxDatagrams = 3
  DiskMayFail = FALSE
INVARIANTS
  OneGatherPerPeer
\* The server waits in ReadFrom when no datagram comes.
CHECK_DEADLOCK FALSE
