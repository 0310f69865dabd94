---------------------------- MODULE QuicCapture ----------------------------
(***************************************************************************)
(* The QUIC Initial capture server, quic/capture/main.go: one loop that    *)
(* reads UDP datagrams, a sync.Map from peer address to *peerState, a      *)
(* mutex per peerState, and one time.AfterFunc goroutine per datagram that *)
(* left its gather incomplete.                                             *)
(*                                                                         *)
(* A critical section of the loop (lock .. unlock) is one action: what it  *)
(* touches is protected by the mutex, except for the timer, whose Stop and *)
(* firing are atomic.  LoadOrStore happens BEFORE the lock is taken, so it *)
(* is an action of its own, and so is every acquisition of the mutex by a  *)
(* finalizer.                                                              *)
(*                                                                         *)
(* The parser library (clienthellod) is external: a gather is complete     *)
(* once it has been given every fragment of the ClientHello, and it takes  *)
(* no packet after its 30 s deadline.  A datagram that is no Initial is    *)
(* skipped without a change of state (main.go:74-78): a stuttering step.   *)
(***************************************************************************)
EXTENDS Integers, Sequences, FiniteSets

CONSTANTS Peers,          \* UDP source addresses
          Frags,          \* the CRYPTO fragments one ClientHello is sent in
          MaxDatagrams,   \* bound: datagrams read in a behaviour
          DiskMayFail     \* whether finishPeer may return an error

ASSUME BoundsAssumption ==
  /\ MaxDatagrams \in Nat
  /\ DiskMayFail \in BOOLEAN

\* The peerState allocated while datagram n is handled is object n.
Objs == 1..MaxDatagrams
NoObj == 0
NoTimer == 0

Packet == [num : 1..MaxDatagrams, peer : Peers, frag : Frags]

VARIABLES
  pc,         \* the loop: "read", "append", "inline" or "finishing"
  pkt,        \* the datagram the loop handles (<<>> before the first)
  cur,        \* its peerState `st`, as LoadOrStore returned it
  arrived,    \* number of datagrams read
  peers,      \* the sync.Map: peer address -> peerState or NoObj
  datagram,   \* per peerState, the datagrams appended
  gathered,   \* per peerState, the fragments its gather holds
  expired,    \* peerStates whose gather is past its deadline
  mutex,      \* per peerState: "free", "loop" or "timer"
  timer,      \* the armed timer: NoTimer, or the length at which it was armed
  fired,      \* finalizers started by a timer and waiting for the mutex, each
              \* named by the length at which its timer was armed
  captures,   \* captures written: what finishPeer was given
  covered     \* history: datagrams of a peerState that finishPeer was given

loopVars == <<pc, pkt, cur, arrived>>
gatherVars == <<datagram, gathered, expired>>
vars == <<loopVars, peers, gatherVars, mutex, timer, fired, captures, covered>>

Capture == [datagrams : Seq(Packet), completed : BOOLEAN]

Init ==
  /\ pc = "read" /\ pkt = <<>> /\ cur = NoObj /\ arrived = 0
  /\ peers = [p \in Peers |-> NoObj]
  /\ datagram = [o \in Objs |-> <<>>]
  /\ gathered = [o \in Objs |-> {}]
  /\ expired = {}
  /\ mutex = [o \in Objs |-> "free"]
  /\ timer = [o \in Objs |-> NoTimer]
  /\ fired = [o \in Objs |-> {}]
  /\ captures = {}
  /\ covered = [o \in Objs |-> 0]

-----------------------------------------------------------------------------
(* The loop                                                                *)

\* Mutated form: one gather serves whoever sends, as if the key were not the
\* full address.
LoadAnyPeer(p, n) ==
  IF \E q \in Peers : peers[q] # NoObj
  THEN peers[CHOOSE q \in Peers : peers[q] # NoObj] ELSE n

\* peers.LoadOrStore(key, &peerState{})
LoadOrStore(p, n) == IF peers[p] = NoObj THEN n ELSE peers[p]

\* ReadFrom, then LoadOrStore; the mutex of st is not taken yet.
ReadAndLoad(p, f) ==
  LET n  == arrived + 1
      st == LoadOrStore(p, n)
  IN  /\ pc = "read" /\ arrived < MaxDatagrams
      /\ arrived' = n
      /\ pkt' = [num |-> n, peer |-> p, frag |-> f]
      /\ cur' = st
      /\ peers' = [peers EXCEPT ![p] = st]
      /\ pc' = "append"
      /\ UNCHANGED <<gatherVars, mutex, timer, fired, captures, covered>>

\* AddPacket: a gather past its deadline returns an error, which is logged.
AddPacket(o, f) == IF o \in expired THEN gathered[o] ELSE gathered[o] \cup {f}

\* Mutated form: an off-by-one in the test for the last fragment.
CompletedLate(frags) == Cardinality(frags) > Cardinality(Frags)

Completed(frags) == frags = Frags

\* Mutated form: a timer is armed only when the peerState has none.
ArmOnce(o, done) == IF done \/ timer[o] # NoTimer THEN NoTimer ELSE Len(datagram[o]) + 1

\* timer.Stop(), and time.AfterFunc(idle, finalize) unless the gather is done.
StopAndArm(o, done) == IF done THEN NoTimer ELSE Len(datagram[o]) + 1

\* The loop's critical section.  timer.Stop() cannot stop a timer that has
\* fired (`fired` keeps its finalizer), and its result is not looked at.
AppendDatagram ==
  LET o    == cur
      got  == AddPacket(o, pkt.frag)
      done == Completed(got)
  IN  /\ pc = "append" /\ mutex[o] = "free"
      /\ datagram' = [datagram EXCEPT ![o] = Append(@, pkt)]
      /\ gathered' = [gathered EXCEPT ![o] = got]
      /\ timer' = [timer EXCEPT ![o] = StopAndArm(o, done)]
      /\ pc' = IF done THEN "inline" ELSE "read"
      /\ UNCHANGED <<pkt, cur, arrived, peers, expired, mutex, fired, captures, covered>>

-----------------------------------------------------------------------------
(* finalize(): run by the loop once the gather is complete, or by a timer  *)

\* Mutated form: the finalizer leaves the table of peers alone.
LockOnly(o, key, who) ==
  /\ mutex[o] = "free"
  /\ mutex' = [mutex EXCEPT ![o] = who]
  /\ UNCHANGED peers

\* st.mu.Lock(); peers.Delete(key): whatever object the key maps to by now.
LockAndDelete(o, key, who) ==
  /\ mutex[o] = "free"
  /\ mutex' = [mutex EXCEPT ![o] = who]
  /\ peers' = [peers EXCEPT ![key] = NoObj]

\* Mutated form: the capture is given the datagrams newest first.
FinishPeerNewestFirst(o) ==
  /\ captures' = captures \cup
       {[datagrams |-> [i \in DOMAIN datagram[o] |-> datagram[o][Len(datagram[o]) + 1 - i]],
         completed |-> Completed(gathered[o])]}
  /\ covered' = [covered EXCEPT ![o] = Len(datagram[o])]
  /\ mutex' = [mutex EXCEPT ![o] = "free"]

\* finishPeer has written the capture, then the deferred Unlock.
FinishPeer(o) ==
  /\ captures' = captures \cup
       {[datagrams |-> datagram[o], completed |-> Completed(gathered[o])]}
  /\ covered' = [covered EXCEPT ![o] = Len(datagram[o])]
  /\ mutex' = [mutex EXCEPT ![o] = "free"]

\* finishPeer returned an error: it is logged, the datagrams are not retried.
FinishPeerError(o) ==
  /\ DiskMayFail
  /\ covered' = [covered EXCEPT ![o] = Len(datagram[o])]
  /\ mutex' = [mutex EXCEPT ![o] = "free"]
  /\ UNCHANGED captures

InlineBegin ==
  /\ pc = "inline"
  /\ LockAndDelete(cur, pkt.peer, "loop")
  /\ pc' = "finishing"
  /\ UNCHANGED <<pkt, cur, arrived, gatherVars, timer, fired, captures, covered>>

InlineEnd ==
  /\ pc = "finishing"
  /\ FinishPeer(cur) \/ FinishPeerError(cur)
  /\ pc' = "read"
  /\ UNCHANGED <<pkt, cur, arrived, peers, gatherVars, timer, fired>>

\* The timer fires: its goroutine exists from now on and cannot be stopped.
TimerFires(o) ==
  /\ timer[o] # NoTimer
  /\ fired' = [fired EXCEPT ![o] = @ \cup {timer[o]}]
  /\ timer' = [timer EXCEPT ![o] = NoTimer]
  /\ UNCHANGED <<loopVars, peers, gatherVars, mutex, captures, covered>>

\* The closure's key: every datagram of a peerState has the same one.
KeyOf(o) == datagram[o][1].peer

FinalizeBegin(o) == \E k \in fired[o] :
  /\ LockAndDelete(o, KeyOf(o), "timer")
  /\ fired' = [fired EXCEPT ![o] = @ \ {k}]
  /\ UNCHANGED <<loopVars, gatherVars, timer, captures, covered>>

FinalizeEnd(o) ==
  /\ mutex[o] = "timer"
  /\ FinishPeer(o) \/ FinishPeerError(o)
  /\ UNCHANGED <<loopVars, peers, gatherVars, timer, fired>>

\* The gather's 30 s deadline (external): later packets are refused.
DeadlinePasses(o) ==
  /\ datagram[o] # <<>> /\ o \notin expired
  /\ expired' = expired \cup {o}
  /\ UNCHANGED <<loopVars, peers, datagram, gathered, mutex, timer, fired, captures, covered>>

-----------------------------------------------------------------------------
Next ==
  \/ \E p \in Peers, f \in Frags : ReadAndLoad(p, f)
  \/ AppendDatagram
  \/ InlineBegin
  \/ InlineEnd
  \/ \E o \in Objs : TimerFires(o) \/ FinalizeBegin(o) \/ FinalizeEnd(o) \/ DeadlinePasses(o)

Spec == Init /\ [][Next]_vars

\* The Go scheduler runs every runnable goroutine and fires every timer; that
\* a datagram arrives or a deadline passes is not assumed.
Fairness ==
  /\ WF_vars(AppendDatagram) /\ WF_vars(InlineBegin) /\ WF_vars(InlineEnd)
  /\ \A o \in Objs : WF_vars(TimerFires(o)) /\ WF_vars(FinalizeBegin(o)) /\ WF_vars(FinalizeEnd(o))

FairSpec == Spec /\ Fairness

-----------------------------------------------------------------------------
(* Properties                                                              *)

\* Every variable has its type, and the loop holds a peerState and a datagram
\* whenever it is past LoadOrStore (main.go:80-81).
TypeOK ==
  /\ pc \in {"read", "append", "inline", "finishing"}
  /\ arrived \in 0..MaxDatagrams
  /\ cur \in Objs \cup {NoObj}
  /\ pkt \in Packet \cup {<<>>}
  /\ pc # "read" => cur \in Objs /\ pkt \in Packet
  /\ peers \in [Peers -> Objs \cup {NoObj}]
  /\ datagram \in [Objs -> Seq(Packet)]
  /\ gathered \in [Objs -> SUBSET Frags]
  /\ expired \subseteq Objs
  /\ mutex \in [Objs -> {"free", "loop", "timer"}]
  /\ timer \in [Objs -> Nat]
  /\ fired \in [Objs -> SUBSET Nat]
  /\ captures \subseteq Capture
  /\ covered \in [Objs -> Nat]

Last(o) == Len(datagram[o])

\* Demultiplexing (main.go:72-87): a gather holds datagrams of one peer, in
\* the order they arrived, and no datagram is in two gathers -- whatever stale
\* peerStates the loop appended to.
GathersAreFlights ==
  /\ \A o \in Objs : \A i, j \in DOMAIN datagram[o] :
       i < j => /\ datagram[o][i].peer = datagram[o][j].peer
                /\ datagram[o][i].num < datagram[o][j].num
  /\ \A o1, o2 \in Objs : o1 # o2 =>
       \A i \in DOMAIN datagram[o1], j \in DOMAIN datagram[o2] :
         datagram[o1][i].num # datagram[o2][j].num
  /\ \A o \in Objs : \A i \in DOMAIN datagram[o] :
       /\ datagram[o][i].num <= arrived
       /\ pc = "append" => datagram[o][i].num < arrived

\* A finish that covers all of o's datagrams is certain: its last datagram's
\* timer is armed or has fired, or somebody is about to finish it.
FinishAhead(o) ==
  \/ timer[o] = Last(o)
  \/ Last(o) \in fired[o]
  \/ mutex[o] # "free"
  \/ pc = "inline" /\ cur = o

\* No datagram is stranded in a gather nobody will finish, also when a timer
\* fired before Stop, or finalize() ran between LoadOrStore and the lock
\* (main.go:80-117).
NoStrandedDatagram == \A o \in Objs : covered[o] < Last(o) => FinishAhead(o)

\* A peerState that is fresh, or whose only finalizer is yet to come.
Live(o) ==
  /\ covered[o] = 0 /\ mutex[o] = "free"
  /\ \/ pc = "append" /\ cur = o
     \/ Last(o) > 0 /\ FinishAhead(o)

\* The table of peers never leads to a gather that has been finished or that
\* nobody will remove from it (main.go:80, 103).
TableIsLive == \A p \in Peers : peers[p] # NoObj => Live(peers[p])

\* A peerState nothing was appended to yet: no timer, no finalizer, no lock.
Untouched(o) ==
  Last(o) = 0 /\ timer[o] = NoTimer /\ fired[o] = {} /\ covered[o] = 0 /\ mutex[o] = "free"

\* The key each finalize() closure captured (main.go:72, 103) is the key its
\* peerState was stored under, and the address the loop is handling: deleting
\* it removes the peerState being finished from the table, if it is there.
KeysMatch ==
  /\ \A o \in Objs : o > arrived \/ Last(o) = 0 => Untouched(o)
  /\ cur <= arrived /\ \A q \in Peers : peers[q] <= arrived
  /\ \A q \in Peers : LET o == peers[q] IN
       o # NoObj /\ Last(o) > 0 => KeyOf(o) = q
  /\ \A q, r \in Peers : peers[q] = peers[r] /\ peers[q] # NoObj => q = r
  /\ pc # "read" =>
       /\ pkt.num = arrived
       /\ Last(cur) > 0 => KeyOf(cur) = pkt.peer
       /\ \A q \in Peers : peers[q] = cur => q = pkt.peer
  /\ pc \in {"inline", "finishing"} => Last(cur) > 0
  /\ \A o \in Objs : mutex[o] = "loop" <=> pc = "finishing" /\ cur = o

\* A complete ClientHello never waits for the idle timer: finishPeer has been
\* given it, or the loop does so before it reads again (main.go:111-115).
CompletedIsCaptured == \A o \in Objs :
  gathered[o] = Frags => \/ covered[o] = Last(o)
                         \/ pc \in {"inline", "finishing"} /\ cur = o

\* A peer that has gone quiet leaves the table of peers (main.go:103, 116),
\* also when finishPeer fails.
EntriesAreRemoved == \A p \in Peers, o \in Objs : peers[p] = o ~> peers[p] # o

\* The server implements CaptureService: a datagram is received when it is
\* read, and captures are logged by finishPeer (main.go:149-205).
Received ==
  (UNION {{datagram[o][i] : i \in DOMAIN datagram[o]} : o \in Objs})
    \cup (IF pc = "append" THEN {pkt} ELSE {})

Service == INSTANCE CaptureService WITH
  received <- Received, log <- {c.datagrams : c \in captures}

\* Captures are runs of one peer's datagrams in their order of arrival, and
\* are never taken back.
CaptureServiceSafety == Service!Spec

\* Every datagram read is part of a capture in the end, or of a gather for which
\* finishPeer returned an error (main.go:93-116, 107-109).
Failed == (UNION {{datagram[o][i] : i \in 1 .. covered[o]} : o \in Objs}) \ Service!Stored
EveryDatagramIsStored == \A p \in Packet : p \in Received ~> p \in Service!Stored \cup Failed

-----------------------------------------------------------------------------
(* A claim of the docs that the code does not keep                         *)

\* quic/docs/CAPTURE.md, demultiplex by peer address and gather until the
\* ClientHello is complete: the uncaptured datagrams of a peer are in one gather.
Uncaptured(o) == {datagram[o][i] : i \in covered[o] + 1 .. Last(o)}
OneGatherPerPeer == \A o1, o2 \in Objs :
  \A a \in Uncaptured(o1), b \in Uncaptured(o2) : a.peer = b.peer => o1 = o2
=============================================================================
