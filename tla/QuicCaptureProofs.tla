-------------------------- MODULE QuicCaptureProofs --------------------------
(***************************************************************************)
(* Proofs about the QUIC capture server for every set of peers, every set  *)
(* of fragments and every number of datagrams.  Each invariant is proved   *)
(* inductive with the help of those before it.                             *)
(***************************************************************************)
EXTENDS QuicCapture, TLAPS

USE BoundsAssumption DEF Objs, NoObj, NoTimer

\* What Append and Len do, once, so that no later step expands sequences.
LEMMA AppendFacts ==
  ASSUME NEW S, NEW s \in Seq(S), NEW e \in S
  PROVE  /\ Append(s, e) \in Seq(S)
         /\ Len(s) \in Nat
         /\ Len(Append(s, e)) = Len(s) + 1
         /\ DOMAIN s = 1 .. Len(s)
         /\ DOMAIN Append(s, e) = 1 .. Len(s) + 1
         /\ \A i \in 1 .. Len(s) : Append(s, e)[i] = s[i]
         /\ Append(s, e)[Len(s) + 1] = e
         /\ \A i \in 1 .. Len(s) : s[i] \in S
  OBVIOUS

-----------------------------------------------------------------------------
(* Type correctness                                                        *)

LEMMA TypeInit == Init => TypeOK
  BY DEF Init, TypeOK, Packet

LEMMA TypeStep == TypeOK /\ [Next]_vars => TypeOK'
<1> SUFFICES ASSUME TypeOK, [Next]_vars PROVE TypeOK'
  OBVIOUS
<1> USE DEF TypeOK
<1>1. ASSUME NEW p \in Peers, NEW f \in Frags, ReadAndLoad(p, f) PROVE TypeOK'
  <2>1. arrived + 1 \in Objs /\ pkt' \in Packet
    BY <1>1 DEF ReadAndLoad, Packet
  <2>2. cur' \in Objs /\ peers' \in [Peers -> Objs \cup {NoObj}]
    BY <1>1, <2>1 DEF ReadAndLoad, LoadOrStore
  <2> QED BY <1>1, <2>1, <2>2 DEF ReadAndLoad, gatherVars
<1>2. CASE AppendDatagram
  <2>1. cur \in Objs /\ pkt \in Packet /\ datagram[cur] \in Seq(Packet)
    BY <1>2 DEF AppendDatagram
  <2>2. Append(datagram[cur], pkt) \in Seq(Packet) /\ Len(datagram[cur]) + 1 \in Nat
    BY <2>1, AppendFacts
  <2>3. pkt.frag \in Frags
    BY <2>1 DEF Packet
  <2>4. AddPacket(cur, pkt.frag) \in SUBSET Frags
    BY <2>1, <2>3 DEF AddPacket
  <2>5. datagram' \in [Objs -> Seq(Packet)]
    BY <1>2, <2>1, <2>2 DEF AppendDatagram
  <2>6. gathered' \in [Objs -> SUBSET Frags]
    BY <1>2, <2>4 DEF AppendDatagram
  <2>7. timer' \in [Objs -> Nat]
    BY <1>2, <2>2 DEF AppendDatagram, StopAndArm
  <2> QED BY <1>2, <2>1, <2>5, <2>6, <2>7 DEF AppendDatagram
<1>3. CASE InlineBegin
  <2>1. peers' \in [Peers -> Objs \cup {NoObj}] /\ mutex' \in [Objs -> {"free", "loop", "timer"}]
    BY <1>3 DEF InlineBegin, LockAndDelete
  <2> QED BY <1>3, <2>1 DEF InlineBegin, gatherVars
<1>4. ASSUME NEW o \in Objs, FinishPeer(o) \/ FinishPeerError(o), UNCHANGED <<datagram, gathered>>
      PROVE  /\ captures' \subseteq Capture
             /\ covered' \in [Objs -> Nat]
             /\ mutex' \in [Objs -> {"free", "loop", "timer"}]
  <2>1. datagram[o] \in Seq(Packet) /\ Len(datagram[o]) \in Nat
    BY <1>4
  <2>2. Completed(gathered[o]) \in BOOLEAN
    BY DEF Completed
  <2>3. [datagrams |-> datagram[o], completed |-> Completed(gathered[o])] \in Capture
    BY <2>1, <2>2 DEF Capture
  <2> QED BY <1>4, <2>1, <2>3 DEF FinishPeer, FinishPeerError
<1>5. CASE InlineEnd
  <2>1. /\ cur \in Objs
        /\ FinishPeer(cur) \/ FinishPeerError(cur)
        /\ UNCHANGED <<datagram, gathered>>
    BY <1>5 DEF InlineEnd, gatherVars
  <2> QED BY <1>5, <1>4, <2>1 DEF InlineEnd, gatherVars
<1>6. ASSUME NEW o \in Objs, TimerFires(o) PROVE TypeOK'
  BY <1>6 DEF TimerFires, gatherVars, loopVars
<1>7. ASSUME NEW o \in Objs, FinalizeBegin(o) PROVE TypeOK'
  <2>1. peers' \in [Peers -> Objs \cup {NoObj}] /\ mutex' \in [Objs -> {"free", "loop", "timer"}]
    BY <1>7 DEF FinalizeBegin, LockAndDelete
  <2>2. fired' \in [Objs -> SUBSET Nat]
    BY <1>7 DEF FinalizeBegin
  <2> QED BY <1>7, <2>1, <2>2 DEF FinalizeBegin, gatherVars, loopVars
<1>8. ASSUME NEW o \in Objs, FinalizeEnd(o) PROVE TypeOK'
  <2>1. /\ FinishPeer(o) \/ FinishPeerError(o)
        /\ UNCHANGED <<datagram, gathered>>
    BY <1>8 DEF FinalizeEnd, gatherVars
  <2> QED BY <1>8, <1>4, <2>1 DEF FinalizeEnd, gatherVars, loopVars
<1>9. ASSUME NEW o \in Objs, DeadlinePasses(o) PROVE TypeOK'
  BY <1>9 DEF DeadlinePasses, loopVars
<1>10. CASE UNCHANGED vars
  BY <1>10 DEF vars, loopVars, gatherVars
<1> QED
  BY <1>1, <1>2, <1>3, <1>5, <1>6, <1>7, <1>8, <1>9, <1>10 DEF Next

\* Every variable keeps its type, for every instance.
THEOREM TypeCorrect == Spec => []TypeOK
<1>1. Init => TypeOK
  BY TypeInit
<1>2. TypeOK /\ [Next]_vars => TypeOK'
  BY TypeStep
<1> QED BY <1>1, <1>2, PTL DEF Spec

-----------------------------------------------------------------------------
(* No datagram is stranded                                                 *)

\* A call of finishPeer, whether it succeeds or not, covers all the datagrams
\* of its peerState and frees the mutex.
LEMMA FinishCovers ==
  ASSUME TypeOK, NEW o \in Objs, FinishPeer(o) \/ FinishPeerError(o)
  PROVE  /\ covered' = [covered EXCEPT ![o] = Last(o)]
         /\ mutex' = [mutex EXCEPT ![o] = "free"]
  BY DEF FinishPeer, FinishPeerError, Last

\* How an append changes its own peerState, and only that one.
LEMMA AppendChanges ==
  ASSUME TypeOK, AppendDatagram
  PROVE  /\ cur \in Objs /\ pkt \in Packet /\ mutex[cur] = "free"
         /\ datagram' = [datagram EXCEPT ![cur] = Append(@, pkt)]
         /\ Last(cur) \in Nat /\ Last(cur)' = Last(cur) + 1
         /\ \A o \in Objs : o # cur =>
              /\ datagram'[o] = datagram[o] /\ gathered'[o] = gathered[o]
              /\ timer'[o] = timer[o] /\ Last(o)' = Last(o)
         /\ pc' = "inline" \/ timer'[cur] = Last(cur)'
         /\ gathered'[cur] = Frags <=> pc' = "inline"
         /\ pc' \in {"inline", "read"}
<1>1. cur \in Objs /\ pkt \in Packet /\ datagram[cur] \in Seq(Packet)
  BY DEF AppendDatagram, TypeOK
<1>2. Len(Append(datagram[cur], pkt)) = Len(datagram[cur]) + 1 /\ Len(datagram[cur]) \in Nat
  BY <1>1, AppendFacts
<1>3. datagram' = [datagram EXCEPT ![cur] = Append(@, pkt)] /\ mutex[cur] = "free"
  BY DEF AppendDatagram
<1>4. datagram'[cur] = Append(datagram[cur], pkt)
  BY <1>1, <1>3 DEF TypeOK
<1> QED
  BY <1>1, <1>2, <1>3, <1>4 DEF AppendDatagram, TypeOK, Last, StopAndArm, Completed

LEMMA StrandedStep ==
  TypeOK /\ NoStrandedDatagram /\ [Next]_vars => NoStrandedDatagram'
<1> SUFFICES ASSUME TypeOK, NoStrandedDatagram, [Next]_vars, NEW x \in Objs,
                    (covered[x] < Last(x))'
             PROVE  FinishAhead(x)'
  BY DEF NoStrandedDatagram
<1>1. Last(x) \in Nat /\ covered[x] \in Nat /\ (covered[x] < Last(x) => FinishAhead(x))
  BY AppendFacts DEF NoStrandedDatagram, TypeOK, Last
<1>2. CASE UNCHANGED vars
  BY <1>1, <1>2 DEF vars, loopVars, gatherVars, FinishAhead, Last
<1>3. ASSUME NEW p \in Peers, NEW f \in Frags, ReadAndLoad(p, f) PROVE FinishAhead(x)'
  BY <1>1, <1>3 DEF ReadAndLoad, gatherVars, FinishAhead, Last
<1>4. CASE AppendDatagram
  <2>1. CASE x = cur
    BY <2>1, <1>4, AppendChanges DEF AppendDatagram, FinishAhead
  <2>2. CASE x # cur
    BY <2>2, <1>1, <1>4, AppendChanges DEF AppendDatagram, FinishAhead
  <2> QED BY <2>1, <2>2
<1>5. CASE InlineBegin
  BY <1>1, <1>5 DEF InlineBegin, LockAndDelete, gatherVars, FinishAhead, Last, TypeOK
<1>6. CASE InlineEnd
  <2>1. cur \in Objs /\ covered' = [covered EXCEPT ![cur] = Last(cur)]
          /\ mutex' = [mutex EXCEPT ![cur] = "free"]
    BY <1>6, FinishCovers DEF InlineEnd, TypeOK
  <2>2. Last(x)' = Last(x) /\ UNCHANGED <<timer, fired>>
    BY <1>6 DEF InlineEnd, gatherVars, Last
  <2>3. x # cur
    BY <2>1, <2>2, <1>1 DEF TypeOK
  <2> QED BY <1>1, <1>6, <2>1, <2>2, <2>3 DEF InlineEnd, FinishAhead, TypeOK
<1>7. ASSUME NEW o \in Objs, TimerFires(o) PROVE FinishAhead(x)'
  BY <1>1, <1>7 DEF TimerFires, gatherVars, loopVars, FinishAhead, Last, TypeOK
<1>8. ASSUME NEW o \in Objs, FinalizeBegin(o) PROVE FinishAhead(x)'
  BY <1>1, <1>8 DEF FinalizeBegin, LockAndDelete, gatherVars, loopVars, FinishAhead, Last, TypeOK
<1>9. ASSUME NEW o \in Objs, FinalizeEnd(o) PROVE FinishAhead(x)'
  <2>1. covered' = [covered EXCEPT ![o] = Last(o)] /\ mutex' = [mutex EXCEPT ![o] = "free"]
    BY <1>9, FinishCovers DEF FinalizeEnd
  <2>2. Last(x)' = Last(x) /\ UNCHANGED <<timer, fired, pc, cur>>
    BY <1>9 DEF FinalizeEnd, gatherVars, loopVars, Last
  <2>3. x # o
    BY <2>1, <2>2, <1>1 DEF TypeOK
  <2> QED BY <1>1, <2>1, <2>2, <2>3 DEF FinishAhead, TypeOK
<1>10. ASSUME NEW o \in Objs, DeadlinePasses(o) PROVE FinishAhead(x)'
  BY <1>1, <1>10 DEF DeadlinePasses, loopVars, FinishAhead, Last
<1> QED
  BY <1>2, <1>3, <1>4, <1>5, <1>6, <1>7, <1>8, <1>9, <1>10 DEF Next

\* No datagram is left in a gather that nobody will finish, whatever the order
\* in which timers fire and finalizers and the loop take the mutex.
THEOREM NeverStranded == Spec => []NoStrandedDatagram
<1>1. Init => NoStrandedDatagram
  BY DEF Init, NoStrandedDatagram, Last
<1>2. TypeOK /\ NoStrandedDatagram /\ [Next]_vars => NoStrandedDatagram'
  BY StrandedStep
<1> QED BY <1>1, <1>2, TypeCorrect, PTL DEF Spec

-----------------------------------------------------------------------------
(* The keys, and the table of peers                                        *)

LEMMA KeysStep == TypeOK /\ KeysMatch /\ [Next]_vars => KeysMatch'
<1> SUFFICES ASSUME TypeOK, KeysMatch, [Next]_vars PROVE KeysMatch'
  OBVIOUS
<1>t. TypeOK'
  BY TypeStep
<1>l. \A o \in Objs : Last(o) \in Nat /\ Last(o)' \in Nat
  BY <1>t, AppendFacts DEF TypeOK, Last
<1> USE DEF KeysMatch
<1>1. CASE UNCHANGED vars
  BY <1>1 DEF vars, loopVars, gatherVars, Last, Untouched, KeyOf
<1>2. ASSUME NEW p \in Peers, NEW f \in Frags, ReadAndLoad(p, f) PROVE KeysMatch'
  <2>1. /\ arrived' = arrived + 1 /\ arrived + 1 \in Objs /\ arrived \in Nat
        /\ cur' = IF peers[p] = NoObj THEN arrived + 1 ELSE peers[p]
        /\ peers' = [peers EXCEPT ![p] = cur']
        /\ pkt'.num = arrived + 1 /\ pkt'.peer = p /\ pc = "read" /\ pc' = "append"
        /\ UNCHANGED <<datagram, timer, fired, covered, mutex>>
    <3>1. arrived' = arrived + 1 /\ arrived + 1 \in Objs /\ arrived \in Nat
      BY <1>2 DEF ReadAndLoad, TypeOK
    <3>2. /\ cur' = IF peers[p] = NoObj THEN arrived + 1 ELSE peers[p]
          /\ peers' = [peers EXCEPT ![p] = cur']
      BY <1>2 DEF ReadAndLoad, LoadOrStore
    <3>3. /\ pkt'.num = arrived + 1 /\ pkt'.peer = p /\ pc = "read" /\ pc' = "append"
          /\ UNCHANGED <<datagram, timer, fired, covered, mutex>>
      BY <1>2 DEF ReadAndLoad, gatherVars
    <3> QED BY <3>1, <3>2, <3>3
  <2>2. \A o \in Objs : /\ Last(o)' = Last(o) /\ KeyOf(o)' = KeyOf(o)
                        /\ Untouched(o)' <=> Untouched(o)
    BY <2>1 DEF Last, Untouched, KeyOf
  <2>3. Last(arrived + 1) = 0
    BY <2>1 DEF Untouched
  <2>4. \A q \in Peers : q # p => peers'[q] = peers[q]
    BY <2>1 DEF TypeOK
  <2>5. peers'[p] = cur' /\ cur' \in Objs /\ cur' <= arrived'
    BY <2>1, <1>t DEF TypeOK
  <2>6. \A q \in Peers : peers[q] \in Objs \cup {NoObj} /\ peers[q] # arrived + 1
    BY <2>1 DEF TypeOK
  <2>7. \A q \in Peers : peers'[q] = cur' => q = p
    BY <2>1, <2>4, <2>5, <2>6
  <2>8. Last(cur') > 0 => KeyOf(cur') = p
    BY <2>1, <2>3
  <2>9. /\ \A o \in Objs : o > arrived' \/ Last(o)' = 0 => Untouched(o)'
        /\ cur' <= arrived' /\ \A q \in Peers : peers'[q] <= arrived'
    BY <2>1, <2>2, <2>4, <2>5, <2>6
  <2>10. \A q \in Peers : peers'[q] # NoObj /\ Last(peers'[q]) > 0 => KeyOf(peers'[q]) = q
    BY <2>4, <2>5, <2>8
  <2>11. \A q, r \in Peers : peers'[q] = peers'[r] /\ peers'[q] # NoObj => q = r
    BY <2>4, <2>5, <2>7
  <2>12. \A o \in Objs : mutex'[o] = "loop" <=> pc' = "finishing" /\ cur' = o
    BY <2>1
  <2>13. \A q \in Peers : peers'[q] \in Objs \cup {NoObj}
    BY <1>t DEF TypeOK
  <2>14. Last(cur)' = Last(cur') /\ KeyOf(cur)' = KeyOf(cur')
    BY <2>2, <2>5
  <2>15. \A q \in Peers : peers'[q] # NoObj =>
           Last(peers[q])' = Last(peers'[q]) /\ KeyOf(peers[q])' = KeyOf(peers'[q])
    BY <2>2, <2>13
  <2> QED BY <2>1, <2>5, <2>7, <2>8, <2>9, <2>10, <2>11, <2>12, <2>14, <2>15
<1>3. CASE AppendDatagram
  <2>1. cur \in Objs /\ pkt \in Packet /\ datagram[cur] \in Seq(Packet) /\ mutex[cur] = "free"
    BY <1>3, AppendChanges DEF TypeOK
  <2>2. /\ UNCHANGED <<pkt, cur, arrived, peers, mutex, fired, covered>>
        /\ pc = "append" /\ pc' \in {"inline", "read"}
    BY <1>3, AppendChanges DEF AppendDatagram
  <2>3. /\ Last(cur)' = Last(cur) + 1 /\ Last(cur) \in Nat
        /\ datagram'[cur] = Append(datagram[cur], pkt)
        /\ \A o \in Objs : o # cur =>
             datagram'[o] = datagram[o] /\ timer'[o] = timer[o] /\ Last(o)' = Last(o)
    BY <1>3, AppendChanges DEF TypeOK
  <2>4. KeyOf(cur)' = pkt.peer
    <3>1. CASE Last(cur) = 0
      <4>1. Append(datagram[cur], pkt)[1] = pkt
        BY <2>1, <3>1, AppendFacts DEF Last
      <4> QED BY <4>1, <2>2, <2>3 DEF KeyOf
    <3>2. CASE Last(cur) > 0
      <4>1. Append(datagram[cur], pkt)[1] = datagram[cur][1]
        BY <2>1, <2>3, <3>2, AppendFacts DEF Last
      <4>2. datagram[cur][1].peer = pkt.peer
        BY <3>2, <2>2 DEF KeyOf
      <4> QED BY <4>1, <4>2, <2>2, <2>3 DEF KeyOf
    <3> QED BY <3>1, <3>2, <2>3
  <2>5. \A o \in Objs : o # cur => KeyOf(o)' = KeyOf(o) /\ (Untouched(o)' <=> Untouched(o))
    BY <2>2, <2>3 DEF KeyOf, Untouched
  <2>6. \A o \in Objs : o > arrived' \/ Last(o)' = 0 => Untouched(o)'
    <3>1. ~(cur > arrived') /\ Last(cur)' # 0
      BY <2>2, <2>3, <1>l, <1>t DEF TypeOK
    <3>2. \A o \in Objs : o # cur => (o > arrived' \/ Last(o)' = 0 => Untouched(o)')
      BY <2>2, <2>3, <2>5
    <3>3. \A o \in Objs : o = cur => ~(o > arrived') /\ Last(o)' # 0
      BY <3>1, <2>2 DEF Last
    <3> QED BY <3>2, <3>3
  <2>7. \A q \in Peers : peers'[q] # NoObj /\ Last(peers[q])' > 0 => KeyOf(peers[q])' = q
    BY <2>2, <2>3, <2>4, <2>5 DEF TypeOK
  <2>8. Last(cur)' > 0 /\ KeyOf(cur)' = pkt'.peer
    BY <2>2, <2>3, <2>4
  <2> QED BY <2>2, <2>6, <2>7, <2>8
<1>4. ASSUME NEW o \in Objs, NEW key, NEW who, LockAndDelete(o, key, who), Last(o) > 0,
             UNCHANGED <<pkt, cur, arrived, datagram, timer, covered>>,
             fired'[o] \subseteq fired[o],
             \A x \in Objs : x # o => fired'[x] = fired[x],
             pc' # "read" => pc # "read",
             pc' \in {"inline", "finishing"} => pc \in {"inline", "finishing"},
             \A x \in Objs : mutex'[x] = "loop" <=> pc' = "finishing" /\ cur = x
      PROVE  KeysMatch'
  <2>1. \A x \in Objs : Last(x)' = Last(x) /\ KeyOf(x)' = KeyOf(x)
    BY <1>4 DEF Last, KeyOf
  <2>2. \A x \in Objs : x # o => (Untouched(x)' <=> Untouched(x))
    <3>1. \A x \in Objs : x # o => mutex'[x] = mutex[x]
      BY <1>4 DEF LockAndDelete, TypeOK
    <3> QED BY <1>4, <3>1 DEF Untouched, Last
  <2>3. \A x \in Objs : x > arrived' \/ Last(x)' = 0 => Untouched(x)'
    BY <1>4, <2>1, <2>2 DEF Untouched
  <2>4. \A q \in Peers : peers'[q] = NoObj \/ (peers'[q] = peers[q] /\ peers[q] \in Objs)
    <3>1. peers' = [peers EXCEPT ![key] = NoObj] /\ peers \in [Peers -> Objs \cup {NoObj}]
      BY <1>4 DEF LockAndDelete, TypeOK
    <3> QED BY <3>1
  <2>5. /\ cur' <= arrived' /\ \A q \in Peers : peers'[q] <= arrived'
        /\ \A q, r \in Peers : peers'[q] = peers'[r] /\ peers'[q] # NoObj => q = r
    <3>1. arrived' = arrived /\ cur' = cur /\ arrived \in Nat
      BY <1>4 DEF TypeOK
    <3>2. \A q \in Peers : peers'[q] <= arrived'
      BY <2>4, <3>1
    <3>3. \A q, r \in Peers : peers'[q] = peers'[r] /\ peers'[q] # NoObj => q = r
      BY <2>4
    <3> QED BY <3>1, <3>2, <3>3
  <2>6. \A q \in Peers : peers'[q] # NoObj /\ Last(peers[q])' > 0 => KeyOf(peers[q])' = q
    BY <2>1, <2>4
  <2>7. pc' # "read" => /\ cur \in Objs /\ cur' = cur /\ pkt' = pkt
                        /\ Last(cur)' = Last(cur) /\ KeyOf(cur)' = KeyOf(cur)
    BY <1>4, <2>1 DEF TypeOK
  <2>8. pc' # "read" =>
          /\ pkt'.num = arrived'
          /\ Last(cur)' > 0 => KeyOf(cur)' = pkt'.peer
          /\ \A q \in Peers : peers'[q] = cur' => q = pkt'.peer
    BY <1>4, <2>4, <2>7
  <2>9. pc' \in {"inline", "finishing"} => Last(cur)' > 0
    BY <1>4, <2>7
  <2>10. \A x \in Objs : mutex'[x] = "loop" <=> pc' = "finishing" /\ cur' = x
    BY <1>4
  <2> QED BY <2>3, <2>5, <2>6, <2>8, <2>9, <2>10
<1>5. CASE InlineBegin
  <2>1. cur \in Objs /\ LockAndDelete(cur, pkt.peer, "loop") /\ Last(cur) > 0
    BY <1>5 DEF InlineBegin, TypeOK
  <2>2. /\ UNCHANGED <<pkt, cur, arrived, datagram, timer, covered, fired>>
        /\ pc = "inline" /\ pc' = "finishing"
    BY <1>5 DEF InlineBegin, gatherVars
  <2>3. \A x \in Objs : mutex'[x] = "loop" <=> pc' = "finishing" /\ cur = x
    BY <2>1, <2>2 DEF LockAndDelete, TypeOK
  <2> QED BY <1>4, <2>1, <2>2, <2>3
<1>6. ASSUME NEW o \in Objs, FinalizeBegin(o) PROVE KeysMatch'
  <2>1. /\ LockAndDelete(o, KeyOf(o), "timer") /\ fired[o] # {}
        /\ UNCHANGED <<pc, pkt, cur, arrived, datagram, timer, covered>>
    BY <1>6 DEF FinalizeBegin, gatherVars, loopVars
  <2>2. fired'[o] \subseteq fired[o] /\ \A x \in Objs : x # o => fired'[x] = fired[x]
    BY <1>6 DEF FinalizeBegin, TypeOK
  <2>3. Last(o) > 0
    BY <2>1, <1>l DEF Untouched
  <2>4. \A x \in Objs : mutex'[x] = "loop" <=> pc' = "finishing" /\ cur = x
    BY <2>1 DEF LockAndDelete, TypeOK
  <2> QED BY <1>4, <2>1, <2>2, <2>3, <2>4
<1>7. ASSUME NEW o \in Objs, FinishPeer(o) \/ FinishPeerError(o), mutex[o] # "free",
             UNCHANGED <<pkt, cur, arrived, peers, datagram, timer, fired>>,
             pc' # "read" => pc' = pc,
             \A x \in Objs : mutex'[x] = "loop" <=> pc' = "finishing" /\ cur = x
      PROVE  KeysMatch'
  <2>1. \A x \in Objs : Last(x)' = Last(x) /\ KeyOf(x)' = KeyOf(x)
    BY <1>7 DEF Last, KeyOf
  <2>2. \A x \in Objs : x # o => (Untouched(x)' <=> Untouched(x))
    <3>1. covered' = [covered EXCEPT ![o] = Last(o)] /\ mutex' = [mutex EXCEPT ![o] = "free"]
      BY <1>7, FinishCovers
    <3>2. \A x \in Objs : x # o => covered'[x] = covered[x] /\ mutex'[x] = mutex[x]
      BY <3>1 DEF TypeOK
    <3> QED BY <1>7, <3>2 DEF Untouched, Last
  <2>3. \A x \in Objs : x > arrived' \/ Last(x)' = 0 => Untouched(x)'
    BY <1>7, <2>1, <2>2 DEF Untouched
  <2>4. \A q \in Peers : peers[q] # NoObj => peers[q] \in Objs
    BY DEF TypeOK
  <2>5. \A q \in Peers : peers'[q] # NoObj /\ Last(peers[q])' > 0 => KeyOf(peers[q])' = q
    BY <1>7, <2>1, <2>4
  <2>6. pc' # "read" => /\ cur \in Objs /\ pc' = pc
                        /\ Last(cur)' = Last(cur) /\ KeyOf(cur)' = KeyOf(cur)
    BY <1>7, <2>1 DEF TypeOK
  <2>7. pc' # "read" =>
          /\ pkt'.num = arrived'
          /\ Last(cur)' > 0 => KeyOf(cur)' = pkt'.peer
          /\ \A q \in Peers : peers'[q] = cur' => q = pkt'.peer
    BY <1>7, <2>6
  <2>8. pc' \in {"inline", "finishing"} => Last(cur)' > 0
    BY <1>7, <2>6
  <2> QED BY <1>7, <2>3, <2>5, <2>7, <2>8
<1>8. CASE InlineEnd
  <2>1. /\ cur \in Objs /\ (FinishPeer(cur) \/ FinishPeerError(cur))
        /\ UNCHANGED <<pkt, cur, arrived, peers, datagram, timer, fired>>
        /\ pc = "finishing" /\ pc' = "read" /\ mutex[cur] # "free"
    BY <1>8 DEF InlineEnd, gatherVars, TypeOK
  <2>2. mutex' = [mutex EXCEPT ![cur] = "free"]
    BY <2>1, FinishCovers
  <2>3. \A x \in Objs : mutex'[x] = "loop" <=> pc' = "finishing" /\ cur = x
    BY <2>1, <2>2 DEF TypeOK
  <2> QED BY <1>7, <2>1, <2>3
<1>9. ASSUME NEW o \in Objs, FinalizeEnd(o) PROVE KeysMatch'
  <2>1. /\ FinishPeer(o) \/ FinishPeerError(o)
        /\ UNCHANGED <<pc, pkt, cur, arrived, peers, datagram, timer, fired>>
        /\ mutex[o] = "timer"
    BY <1>9 DEF FinalizeEnd, gatherVars, loopVars
  <2>2. mutex' = [mutex EXCEPT ![o] = "free"]
    BY <2>1, FinishCovers
  <2>3. \A x \in Objs : mutex'[x] = "loop" <=> pc' = "finishing" /\ cur = x
    BY <2>1, <2>2 DEF TypeOK
  <2> QED BY <1>7, <2>1, <2>3
<1>10. ASSUME NEW o \in Objs, TimerFires(o) PROVE KeysMatch'
  <2>1. /\ timer[o] # NoTimer
        /\ \A x \in Objs : x # o => fired'[x] = fired[x] /\ timer'[x] = timer[x]
        /\ UNCHANGED <<pc, pkt, cur, arrived, peers, datagram, mutex, covered>>
    BY <1>10 DEF TimerFires, gatherVars, loopVars, TypeOK
  <2>2. \A x \in Objs : Last(x)' = Last(x) /\ KeyOf(x)' = KeyOf(x)
    BY <2>1 DEF Last, KeyOf
  <2>3. \A x \in Objs : x > arrived' \/ Last(x)' = 0 => Untouched(x)'
    BY <2>1, <2>2 DEF Untouched
  <2>4. \A q \in Peers : peers'[q] # NoObj =>
          Last(peers[q])' = Last(peers[q]) /\ KeyOf(peers[q])' = KeyOf(peers[q])
    BY <2>1, <2>2 DEF TypeOK
  <2>5. pc' # "read" => Last(cur)' = Last(cur) /\ KeyOf(cur)' = KeyOf(cur)
    BY <2>1, <2>2 DEF TypeOK
  <2> QED BY <2>1, <2>3, <2>4, <2>5
<1>11. ASSUME NEW o \in Objs, DeadlinePasses(o) PROVE KeysMatch'
  BY <1>11 DEF DeadlinePasses, loopVars, Last, Untouched, KeyOf
<1> QED
  BY <1>1, <1>2, <1>3, <1>5, <1>6, <1>8, <1>9, <1>10, <1>11 DEF Next

\* Every finalizer's key is the key of its peerState: deleting it takes the
\* peerState being finished out of the table, if it is in it.
THEOREM KeysAlwaysMatch == Spec => []KeysMatch
<1>1. Init => KeysMatch
  BY DEF Init, KeysMatch, Untouched, Last
<1>2. TypeOK /\ KeysMatch /\ [Next]_vars => KeysMatch'
  BY KeysStep
<1> QED BY <1>1, <1>2, TypeCorrect, PTL DEF Spec

LEMMA TableStep ==
  TypeOK /\ KeysMatch /\ TableIsLive /\ [Next]_vars => TableIsLive'
<1> SUFFICES ASSUME TypeOK, KeysMatch, TableIsLive, [Next]_vars PROVE TableIsLive'
  OBVIOUS
<1>t. TypeOK'
  BY TypeStep
<1> SUFFICES ASSUME NEW q \in Peers, NEW x \in Objs, peers'[q] = x PROVE Live(x)'
  <2>1. \A p \in Peers : peers'[p] # NoObj => peers'[p] \in Objs
    BY <1>t DEF TypeOK
  <2> QED BY <2>1 DEF TableIsLive, Live, FinishAhead, Last
<1> USE DEF Live
<1>1. peers[q] = x => Live(x)
  BY DEF TableIsLive
<1>l. Last(x) \in Nat
  BY AppendFacts DEF TypeOK, Last
<1>2. CASE UNCHANGED vars
  BY <1>1, <1>2 DEF vars, loopVars, gatherVars, Last, FinishAhead
<1>3. ASSUME NEW p \in Peers, NEW f \in Frags, ReadAndLoad(p, f) PROVE Live(x)'
  <2>1. /\ peers' = [peers EXCEPT ![p] = cur'] /\ pc = "read" /\ pc' = "append"
        /\ cur' = peers[p] \/ (cur' = arrived + 1 /\ cur' > arrived)
        /\ UNCHANGED <<datagram, mutex, timer, fired, covered>>
    BY <1>3 DEF ReadAndLoad, LoadOrStore, gatherVars, TypeOK
  <2>2. CASE q = p
    <3>1. cur' = x
      BY <2>1, <2>2 DEF TypeOK
    <3>2. covered[x] = 0 /\ mutex[x] = "free"
      BY <1>1, <2>1, <2>2, <3>1 DEF KeysMatch, Untouched
    <3> QED BY <2>1, <3>1, <3>2
  <2>3. CASE q # p
    BY <1>1, <2>1, <2>3 DEF TypeOK, Last, FinishAhead
  <2> QED BY <2>2, <2>3
<1>4. CASE AppendDatagram
  <2>1. UNCHANGED <<peers, cur, mutex, fired, covered>> /\ pc = "append" /\ Live(x)
    BY <1>1, <1>4 DEF AppendDatagram
  <2>2. CASE x = cur
    BY <1>4, <2>1, <2>2, AppendChanges DEF FinishAhead
  <2>3. CASE x # cur
    BY <1>4, <2>1, <2>3, AppendChanges DEF FinishAhead
  <2> QED BY <2>2, <2>3
<1>5. ASSUME NEW o \in Objs, NEW key, NEW who, LockAndDelete(o, key, who),
             Last(o) > 0 /\ key = KeyOf(o), UNCHANGED <<cur, datagram, timer, covered>>,
             \A y \in Objs : y # o => fired'[y] = fired[y],
             pc' = pc \/ (pc = "inline" /\ cur = o)
      PROVE  Live(x)'
  <2>1. peers' = [peers EXCEPT ![key] = NoObj] /\ mutex' = [mutex EXCEPT ![o] = who]
    BY <1>5 DEF LockAndDelete
  <2>2. peers[q] = x /\ q # key
    BY <2>1 DEF TypeOK
  <2>3. x # o
    BY <1>5, <2>2 DEF KeysMatch
  <2> QED BY <1>1, <1>5, <2>1, <2>2, <2>3 DEF TypeOK, Last, FinishAhead
<1>6. CASE InlineBegin
  <2>1. /\ cur \in Objs /\ LockAndDelete(cur, pkt.peer, "loop")
        /\ UNCHANGED <<cur, datagram, timer, covered, fired>>
    BY <1>6 DEF InlineBegin, gatherVars, TypeOK
  <2>2. Last(cur) > 0 /\ pkt.peer = KeyOf(cur) /\ pc = "inline"
    BY <1>6 DEF InlineBegin, KeysMatch
  <2> QED BY <1>5, <2>1, <2>2
<1>7. ASSUME NEW o \in Objs, FinalizeBegin(o) PROVE Live(x)'
  <2>1. /\ LockAndDelete(o, KeyOf(o), "timer") /\ fired[o] # {}
        /\ UNCHANGED <<pc, cur, datagram, timer, covered>>
    BY <1>7 DEF FinalizeBegin, gatherVars, loopVars
  <2>2. \A y \in Objs : y # o => fired'[y] = fired[y]
    BY <1>7 DEF FinalizeBegin, TypeOK
  <2>3. Last(o) > 0
    BY <2>1, AppendFacts DEF KeysMatch, Untouched, TypeOK, Last
  <2> QED BY <1>5, <2>1, <2>2, <2>3
<1>8. ASSUME NEW o \in Objs, FinishPeer(o) \/ FinishPeerError(o), mutex[o] # "free",
             UNCHANGED <<cur, peers, datagram, timer, fired>>,
             pc' = pc \/ pc = "finishing"
      PROVE  Live(x)'
  <2>1. /\ covered' = [covered EXCEPT ![o] = Last(o)]
        /\ mutex' = [mutex EXCEPT ![o] = "free"]
    BY <1>8, FinishCovers
  <2>2. x # o
    BY <1>1, <1>8
  <2> QED BY <1>1, <1>8, <2>1, <2>2 DEF TypeOK, Last, FinishAhead
<1>9. CASE InlineEnd
  <2>1. /\ cur \in Objs /\ (FinishPeer(cur) \/ FinishPeerError(cur))
        /\ UNCHANGED <<cur, peers, datagram, timer, fired>>
        /\ pc = "finishing" /\ mutex[cur] # "free"
    BY <1>9 DEF InlineEnd, gatherVars, TypeOK, KeysMatch
  <2> QED BY <1>8, <2>1
<1>10. ASSUME NEW o \in Objs, FinalizeEnd(o) PROVE Live(x)'
  BY <1>8, <1>10 DEF FinalizeEnd, gatherVars, loopVars
<1>11. ASSUME NEW o \in Objs, TimerFires(o) PROVE Live(x)'
  BY <1>1, <1>11, <1>l DEF TimerFires, gatherVars, loopVars, Last, FinishAhead, TypeOK
<1>12. ASSUME NEW o \in Objs, DeadlinePasses(o) PROVE Live(x)'
  BY <1>1, <1>12 DEF DeadlinePasses, loopVars, Last, FinishAhead
<1> QED
  BY <1>2, <1>3, <1>4, <1>6, <1>7, <1>9, <1>10, <1>11, <1>12 DEF Next

\* A lookup in the table never returns a gather that has been finished, nor one
\* that no finalizer will remove.
THEOREM TableAlwaysLive == Spec => []TableIsLive
<1>1. Init => TableIsLive
  BY DEF Init, TableIsLive
<1>2. TypeOK /\ KeysMatch /\ TableIsLive /\ [Next]_vars => TableIsLive'
  BY TableStep
<1> QED BY <1>1, <1>2, TypeCorrect, KeysAlwaysMatch, PTL DEF Spec

-----------------------------------------------------------------------------
(* Demultiplexing                                                          *)

LEMMA PacketFacts ==
  ASSUME TypeOK, NEW o \in Objs, NEW i \in DOMAIN datagram[o]
  PROVE  datagram[o][i] \in Packet /\ datagram[o][i].num \in Nat
<1>1. datagram[o] \in Seq(Packet)
  BY DEF TypeOK
<1>2. datagram[o][i] \in Packet
  BY <1>1
<1> QED BY <1>2 DEF Packet

LEMMA FlightStep ==
  TypeOK /\ KeysMatch /\ GathersAreFlights /\ [Next]_vars => GathersAreFlights'
<1> SUFFICES ASSUME TypeOK, KeysMatch, GathersAreFlights, [Next]_vars
             PROVE  GathersAreFlights'
  OBVIOUS
<1> USE DEF GathersAreFlights
<1>1. CASE datagram' = datagram /\ arrived' = arrived /\ (pc' = "append" => pc = "append")
  BY <1>1
<1>2. ASSUME NEW p \in Peers, NEW f \in Frags, ReadAndLoad(p, f) PROVE GathersAreFlights'
  <2>1. datagram' = datagram /\ arrived' = arrived + 1 /\ arrived \in Nat
    BY <1>2 DEF ReadAndLoad, gatherVars, TypeOK
  <2>2. \A o \in Objs : \A i \in DOMAIN datagram[o] : datagram[o][i].num \in Nat
    BY PacketFacts
  <2> QED BY <2>1, <2>2
<1>3. CASE AppendDatagram
  <2>1. /\ cur \in Objs /\ pkt \in Packet /\ datagram[cur] \in Seq(Packet)
        /\ datagram' = [datagram EXCEPT ![cur] = Append(@, pkt)]
        /\ arrived' = arrived /\ pc = "append" /\ pc' # "append" /\ pkt.num = arrived
        /\ (Len(datagram[cur]) > 0 => datagram[cur][1].peer = pkt.peer)
    BY <1>3, AppendChanges DEF AppendDatagram, TypeOK, KeysMatch, KeyOf, Last
  <2> DEFINE n == Len(datagram[cur])
  <2>2. /\ DOMAIN datagram'[cur] = 1 .. n + 1 /\ DOMAIN datagram[cur] = 1 .. n /\ n \in Nat
        /\ \A i \in 1 .. n : datagram'[cur][i] = datagram[cur][i]
        /\ datagram'[cur][n + 1] = pkt
    BY <2>1, AppendFacts DEF TypeOK
  <2>3. \A o \in Objs : o # cur => datagram'[o] = datagram[o]
    BY <2>1 DEF TypeOK
  <2>4. \A i \in 1 .. n : datagram[cur][i].peer = pkt.peer
    BY <2>1, <2>2
  <2>5. \A o \in Objs : \A i \in DOMAIN datagram[o] :
           datagram[o][i].num \in Nat /\ datagram[o][i].num < arrived
    BY <2>1, PacketFacts
  <2>6. \A i \in DOMAIN datagram'[cur] : i \in 1 .. n \/ (i = n + 1 /\ datagram'[cur][i] = pkt)
    BY <2>2
  <2>7. \A o \in Objs : \A i, j \in DOMAIN datagram'[o] :
          i < j => /\ datagram'[o][i].peer = datagram'[o][j].peer
                   /\ datagram'[o][i].num < datagram'[o][j].num
    <3>1. SUFFICES ASSUME NEW i \in DOMAIN datagram'[cur], NEW j \in DOMAIN datagram'[cur], i < j
                   PROVE  /\ datagram'[cur][i].peer = datagram'[cur][j].peer
                          /\ datagram'[cur][i].num < datagram'[cur][j].num
      BY <2>3
    <3>2. i \in 1 .. n
      BY <2>2, <3>1
    <3>3. CASE j \in 1 .. n
      BY <2>1, <2>2, <3>1, <3>2, <3>3
    <3>4. CASE j = n + 1
      BY <2>1, <2>2, <2>4, <2>5, <3>2, <3>4
    <3> QED BY <2>6, <3>3, <3>4
  <2>8. \A o1, o2 \in Objs : o1 # o2 =>
          \A i \in DOMAIN datagram'[o1], j \in DOMAIN datagram'[o2] :
            datagram'[o1][i].num # datagram'[o2][j].num
    <3>1. \A o \in Objs : o # cur =>
            \A i \in DOMAIN datagram'[cur], j \in DOMAIN datagram'[o] :
              datagram'[cur][i].num # datagram'[o][j].num
      BY <2>1, <2>2, <2>3, <2>5, <2>6
    <3> QED BY <2>3, <3>1
  <2>9. \A o \in Objs : \A i \in DOMAIN datagram'[o] : datagram'[o][i].num <= arrived'
    <3>1. arrived \in Nat
      BY DEF TypeOK
    <3> QED BY <2>1, <2>2, <2>3, <2>5, <2>6, <3>1
  <2> QED BY <2>1, <2>7, <2>8, <2>9
<1> QED
  BY <1>1, <1>2, <1>3
  DEF Next, InlineBegin, InlineEnd, TimerFires, FinalizeBegin, FinalizeEnd, DeadlinePasses,
      gatherVars, loopVars, vars

\* Every gather is a run of one peer's datagrams in their order of arrival, and
\* no datagram is in two of them.
THEOREM AlwaysFlights == Spec => []GathersAreFlights
<1>1. Init => GathersAreFlights
  BY DEF Init, GathersAreFlights
<1>2. TypeOK /\ KeysMatch /\ GathersAreFlights /\ [Next]_vars => GathersAreFlights'
  BY FlightStep
<1> QED BY <1>1, <1>2, TypeCorrect, KeysAlwaysMatch, PTL DEF Spec

-----------------------------------------------------------------------------
(* A complete ClientHello is captured at once                              *)

LEMMA CompletedStep ==
  TypeOK /\ KeysMatch /\ CompletedIsCaptured /\ [Next]_vars => CompletedIsCaptured'
<1> SUFFICES ASSUME TypeOK, KeysMatch, CompletedIsCaptured, [Next]_vars,
                    NEW x \in Objs, gathered'[x] = Frags
             PROVE  (\/ covered[x] = Last(x)
                     \/ pc \in {"inline", "finishing"} /\ cur = x)'
  BY DEF CompletedIsCaptured
<1> USE DEF CompletedIsCaptured
<1>1. CASE UNCHANGED vars
  BY <1>1 DEF vars, loopVars, gatherVars, Last
<1>2. ASSUME NEW p \in Peers, NEW f \in Frags, ReadAndLoad(p, f)
      PROVE  covered'[x] = Last(x)'
  BY <1>2 DEF ReadAndLoad, gatherVars, Last
<1>3. CASE AppendDatagram
  <2>1. CASE x = cur
    <3>1. pc' = "inline" /\ cur' = cur
      BY <1>3, <2>1, AppendChanges DEF AppendDatagram
    <3> QED BY <2>1, <3>1
  <2>2. CASE x # cur
    <3>1. gathered[x] = Frags /\ Last(x)' = Last(x) /\ pc = "append" /\ covered' = covered
      BY <1>3, <2>2, AppendChanges DEF AppendDatagram
    <3> QED BY <3>1
  <2> QED BY <2>1, <2>2
<1>4. CASE InlineBegin
  BY <1>4 DEF InlineBegin, gatherVars, Last
<1>5. ASSUME NEW o \in Objs, FinishPeer(o) \/ FinishPeerError(o), UNCHANGED <<datagram, gathered>>,
             UNCHANGED <<pc, cur>> \/ cur = o
      PROVE  (\/ covered[x] = Last(x)
              \/ pc \in {"inline", "finishing"} /\ cur = x)'
  <2>1. covered' = [covered EXCEPT ![o] = Last(o)] /\ Last(x)' = Last(x)
    BY <1>5, FinishCovers DEF Last
  <2>2. CASE x = o
    BY <2>1, <2>2 DEF TypeOK
  <2>3. CASE x # o
    <3>1. covered'[x] = covered[x]
      BY <2>1, <2>3 DEF TypeOK
    <3> QED BY <1>5, <2>1, <2>3, <3>1
  <2> QED BY <2>2, <2>3
<1>6. CASE InlineEnd
  <2>1. /\ cur \in Objs /\ (FinishPeer(cur) \/ FinishPeerError(cur))
        /\ UNCHANGED <<datagram, gathered>>
    BY <1>6 DEF InlineEnd, gatherVars, TypeOK
  <2> QED BY <1>5, <2>1
<1>7. ASSUME NEW o \in Objs, FinalizeEnd(o)
      PROVE  (\/ covered[x] = Last(x)
              \/ pc \in {"inline", "finishing"} /\ cur = x)'
  BY <1>5, <1>7 DEF FinalizeEnd, gatherVars, loopVars
<1>8. ASSUME NEW o \in Objs, TimerFires(o) \/ FinalizeBegin(o) \/ DeadlinePasses(o)
      PROVE  (\/ covered[x] = Last(x)
              \/ pc \in {"inline", "finishing"} /\ cur = x)'
  BY <1>8 DEF TimerFires, FinalizeBegin, DeadlinePasses, gatherVars, loopVars, Last
<1> QED
  BY <1>1, <1>2, <1>3, <1>4, <1>6, <1>7, <1>8 DEF Next

\* A gather that holds the whole ClientHello has been given to finishPeer, or
\* the loop does it before it reads the next datagram: it never waits for the
\* idle timer.
THEOREM CompletedAtOnce == Spec => []CompletedIsCaptured
<1>1. Init => CompletedIsCaptured
  BY DEF Init, CompletedIsCaptured, Last
<1>2. TypeOK /\ KeysMatch /\ CompletedIsCaptured /\ [Next]_vars => CompletedIsCaptured'
  BY CompletedStep
<1> QED BY <1>1, <1>2, TypeCorrect, KeysAlwaysMatch, PTL DEF Spec

-----------------------------------------------------------------------------
(* The server implements CaptureService                                    *)

LEMMA ReceivedFacts ==
  \A m : m \in Received <=>
    \/ \E o \in Objs : \E i \in DOMAIN datagram[o] : m = datagram[o][i]
    \/ pc = "append" /\ m = pkt
  BY DEF Received

LEMMA ReceivedFactsPrime ==
  \A m : m \in Received' <=>
    \/ \E o \in Objs : \E i \in DOMAIN datagram'[o] : m = datagram'[o][i]
    \/ pc' = "append" /\ m = pkt'
  BY DEF Received

\* A finish stores one run of received datagrams.
LEMMA FinishStores ==
  ASSUME TypeOK, GathersAreFlights, NEW o \in Objs, FinishPeer(o), Last(o) > 0,
         Received' = Received
  PROVE  Service!Next
<1> DEFINE logged == {c.datagrams : c \in captures}
           cap == [datagrams |-> datagram[o], completed |-> Completed(gathered[o])]
<1>1. captures' = captures \cup {cap}
  BY DEF FinishPeer
<1>2. {c.datagrams : c \in captures'} = logged \cup {datagram[o]}
  <2>1. cap.datagrams = datagram[o]
    OBVIOUS
  <2> QED BY <1>1, <2>1
<1>3. PICK s : s = datagram[o]
  OBVIOUS
<1>4. s # <<>> /\ Service!OnePeerInOrder(s)
  BY <1>3 DEF Last, Service!OnePeerInOrder, GathersAreFlights
<1>5. \A i \in DOMAIN s : s[i] \in Received
  BY <1>3, ReceivedFacts
<1>6. Service!Store(s)
  BY <1>2, <1>3, <1>4, <1>5 DEF Service!Store
<1>7. s \in {c.datagrams : c \in captures}'
  BY <1>2, <1>3
<1> QED BY <1>6, <1>7 DEF Service!Next

LEMMA ServiceStep ==
  TypeOK /\ KeysMatch /\ GathersAreFlights /\ [Next]_vars => [Service!Next]_(Service!vars)
<1> SUFFICES ASSUME TypeOK, KeysMatch, GathersAreFlights, [Next]_vars
             PROVE  Service!Next \/ UNCHANGED Service!vars
  OBVIOUS
<1>1. ASSUME datagram' = datagram, pc # "append", pc' # "append" PROVE Received' = Received
  BY <1>1 DEF Received
<1>2. ASSUME datagram' = datagram, pc' = pc, pkt' = pkt PROVE Received' = Received
  BY <1>2 DEF Received
<1>3. ASSUME Received' = Received, captures' = captures PROVE UNCHANGED Service!vars
  BY <1>3 DEF Service!vars
<1>4. CASE UNCHANGED vars
  BY <1>2, <1>3, <1>4 DEF vars, loopVars, gatherVars
<1>5. ASSUME NEW p \in Peers, NEW f \in Frags, ReadAndLoad(p, f) PROVE Service!Next
  <2>1. /\ datagram' = datagram /\ captures' = captures /\ pc = "read" /\ pc' = "append"
        /\ pkt' = [num |-> arrived + 1, peer |-> p, frag |-> f] /\ arrived + 1 \in Objs
    BY <1>5 DEF ReadAndLoad, gatherVars, TypeOK
  <2>2. pkt' \in Service!Packet
    BY <2>1 DEF Service!Packet
  <2>3. \A m \in Received : m.num < pkt'.num
    <3>1. \A o \in Objs : \A i \in DOMAIN datagram[o] :
            datagram[o][i].num \in Nat /\ datagram[o][i].num <= arrived
      BY PacketFacts DEF GathersAreFlights
    <3>2. arrived \in Nat
      BY DEF TypeOK
    <3> QED BY <2>1, <3>1, <3>2, ReceivedFacts
  <2>4. Received' = Received \cup {pkt'}
    BY <2>1, ReceivedFacts, ReceivedFactsPrime
  <2>5. {c.datagrams : c \in captures'} = {c.datagrams : c \in captures}
    BY <2>1
  <2>6. Service!Receive
    BY <2>2, <2>3, <2>4, <2>5 DEF Service!Receive
  <2> QED BY <2>6 DEF Service!Next
<1>6. CASE AppendDatagram
  <2>1. /\ cur \in Objs /\ datagram[cur] \in Seq(Packet) /\ pkt \in Packet
        /\ datagram' = [datagram EXCEPT ![cur] = Append(@, pkt)]
        /\ pc = "append" /\ pc' # "append" /\ captures' = captures
    BY <1>6, AppendChanges DEF AppendDatagram, TypeOK
  <2> DEFINE n == Len(datagram[cur])
  <2>2. /\ DOMAIN datagram'[cur] = 1 .. n + 1 /\ DOMAIN datagram[cur] = 1 .. n /\ n \in Nat
        /\ \A i \in 1 .. n : datagram'[cur][i] = datagram[cur][i]
        /\ datagram'[cur][n + 1] = pkt
    BY <2>1, AppendFacts DEF TypeOK
  <2>3. \A o \in Objs : o # cur => datagram'[o] = datagram[o]
    BY <2>1 DEF TypeOK
  <2>4. \A m : m \in Received => m \in Received'
    BY <2>1, <2>2, <2>3, ReceivedFacts, ReceivedFactsPrime
  <2>5. \A m : m \in Received' => m \in Received
    BY <2>1, <2>2, <2>3, ReceivedFacts, ReceivedFactsPrime
  <2> QED BY <1>3, <2>1, <2>4, <2>5
<1>7. CASE InlineBegin
  BY <1>1, <1>3, <1>7 DEF InlineBegin, gatherVars
<1>8. CASE InlineEnd
  <2>1. /\ datagram' = datagram /\ pc = "finishing" /\ pc' = "read" /\ cur \in Objs
        /\ Last(cur) > 0
    BY <1>8 DEF InlineEnd, gatherVars, TypeOK, KeysMatch
  <2>2. Received' = Received
    BY <1>1, <2>1
  <2>3. CASE FinishPeer(cur)
    BY <2>1, <2>2, <2>3, FinishStores
  <2>4. CASE FinishPeerError(cur)
    BY <1>3, <2>2, <2>4 DEF FinishPeerError
  <2> QED BY <1>8, <2>3, <2>4 DEF InlineEnd
<1>9. ASSUME NEW o \in Objs, TimerFires(o) \/ FinalizeBegin(o) \/ DeadlinePasses(o)
      PROVE  UNCHANGED Service!vars
  BY <1>2, <1>3, <1>9 DEF TimerFires, FinalizeBegin, DeadlinePasses, gatherVars, loopVars
<1>10. ASSUME NEW o \in Objs, FinalizeEnd(o) PROVE Service!Next \/ UNCHANGED Service!vars
  <2>1. Received' = Received
    BY <1>2, <1>10 DEF FinalizeEnd, gatherVars, loopVars
  <2>2. Last(o) > 0
    BY <1>10, AppendFacts DEF FinalizeEnd, KeysMatch, Untouched, TypeOK, Last
  <2>3. CASE FinishPeer(o)
    BY <2>1, <2>2, <2>3, FinishStores
  <2>4. CASE FinishPeerError(o)
    BY <1>3, <2>1, <2>4 DEF FinishPeerError
  <2> QED BY <1>10, <2>3, <2>4 DEF FinalizeEnd
<1> QED
  BY <1>4, <1>5, <1>6, <1>7, <1>8, <1>9, <1>10 DEF Next

\* Every behaviour of the server, with its races and failed writes, is one of
\* CaptureService: captures are runs of one peer's datagrams, in their order of
\* arrival, of datagrams that were received.
THEOREM ImplementsService == Spec => CaptureServiceSafety
<1>1. Init => Service!Init
  <2>1. ASSUME Init PROVE Received = {} /\ {c.datagrams : c \in captures} = {}
    BY <2>1, ReceivedFacts DEF Init
  <2> QED BY <2>1 DEF Service!Init
<1>2. TypeOK /\ KeysMatch /\ GathersAreFlights /\ [Next]_vars => [Service!Next]_(Service!vars)
  BY ServiceStep
<1> QED
  BY <1>1, <1>2, TypeCorrect, KeysAlwaysMatch, AlwaysFlights, PTL
  DEF Spec, CaptureServiceSafety, Service!Spec
=============================================================================
