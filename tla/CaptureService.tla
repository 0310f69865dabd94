--------------------------- MODULE CaptureService ---------------------------
(***************************************************************************)
(* What the QUIC capture server promises the operator of the lab, without  *)
(* its table of peers, timers and mutexes: datagrams are received one by   *)
(* one, and captures of them are written and never taken back.  A          *)
(* capture is a run of datagrams of one peer, in the order they arrived.   *)
(* A datagram may be stored more than once (the server promises "at least  *)
(* once", not "exactly once").                                             *)
(***************************************************************************)
EXTENDS Integers, Sequences

CONSTANTS Peers, Frags, MaxDatagrams

Packet == [num : 1..MaxDatagrams, peer : Peers, frag : Frags]

VARIABLES received,   \* set of packets read from the socket
          log         \* set of captures written to disk

vars == <<received, log>>

OnePeerInOrder(s) ==
  \A i, j \in DOMAIN s : i < j => s[i].peer = s[j].peer /\ s[i].num < s[j].num

Stored == UNION {{s[i] : i \in DOMAIN s} : s \in log}

Init == received = {} /\ log = {}

\* A datagram arrives; its number is its position in the order of arrival.
Receive == \E p \in Packet :
  /\ \A q \in received : q.num < p.num
  /\ received' = received \cup {p}
  /\ UNCHANGED log

\* A capture of datagrams received so far is written.
Store(s) ==
  /\ s # <<>> /\ OnePeerInOrder(s)
  /\ \A i \in DOMAIN s : s[i] \in received
  /\ log' = log \cup {s}
  /\ UNCHANGED received

Next == Receive \/ \E s \in log' : Store(s)

Spec == Init /\ [][Next]_vars
=============================================================================
