----------------------------- MODULE MCQuicGate -----------------------------
(***************************************************************************)
(* Instance of QuicGate for TLC: the pairs the experiments insist on, the   *)
(* references of the required shorts, and a live one.  A directory's client *)
(* is the one the lab expects or one that drifted from it.                  *)
(***************************************************************************)
EXTENDS QuicGate, TLC

MCDirOrder == <<"chromeparrot", "chromeparrot-b", "exp-quic-go-datagram-a", "hy2plain", "quicgo",
                "quicgodg", "uquic146", "uquic146-b">>
MCHidden == {"exp-quic-go-datagram-a"}
MCLiveShort == ("exp-quic-go-datagram-a" :> "quic-go-datagram")

Client(form, tp, scid, count, shuffles, hello) ==
  [tokens |-> {Token(form, id) : id \in tp}, scid |-> scid, count |-> count,
   shuffles |-> shuffles, hello |-> hello, values |-> "engine"]
Parrot == Client("hex", Chrome.identity.tp, 0, 2, TRUE, "parrot")
Plain == Client("hex", QuicGo.identity.tp, 4, 2, FALSE, "plain")
Datagram == Client("hex", QuicGoDatagram.identity.tp, 4, 2, FALSE, "plain")
Uquic == Client("hex", UquicChrome146.identity.tp, 0, 2, TRUE, "uquic")

\* Drifts: a marker is gone, one datagram less, another length of the source
\* connection id, another persona's ids, a profile.json edited by hand.
MCClients ==
  [id \in {"chromeparrot", "chromeparrot-b", "hy2plain", "quicgo", "quicgodg", "uquic146", "uquic146-b"} |->
     CASE id = "chromeparrot" -> <<Parrot, Client("hex", Yandex.identity.tp, 0, 2, TRUE, "parrot")>>
       [] id = "chromeparrot-b" -> <<Parrot, [Parrot EXCEPT !.count = 1]>>
       [] id = "hy2plain" -> <<[Datagram EXCEPT !.scid = 0], Client("HEX", QuicGoDatagram.identity.tp, 0, 2, FALSE, "plain")>>
       [] id = "quicgo" -> <<Plain, Client("hex", CurlQuiche.identity.tp, 20, 1, FALSE, "quiche")>>
       [] id = "quicgodg" -> <<Datagram, Client("int", QuicGoDatagram.identity.tp, 4, 2, FALSE, "plain")>>
       [] id = "uquic146" -> <<Uquic, [Uquic EXCEPT !.scid = 3]>>
       [] OTHER -> <<Uquic, [Uquic EXCEPT !.scid = 3]>>]
MCInitially ==
  [id \in LabIDs |-> IF id = "exp-quic-go-datagram-a" THEN {0, 1} ELSE {1}]

\* What is explored of promotions:
\*   - they go on during a script, and fail, in two directories; elsewhere the
\*     scripts run before or after a promotion;
\*   - of two promotions after the start both come before the script, but in one
\*     directory;
\*   - in that one the second overlaps the first, or one of the two fails, with
\*     annotate, which writes, as the script, up to where it leaves the directory;
\*     the two that overlap have different numbers of datagrams, and only initials
\*     that both are at are cut off;
\*   - while annotate is at other directories than the two no promotion goes on, the
\*     order of them making no difference, and nothing is explored after the scripts
\*     that do not write.
Studied == {"chromeparrot-b", "exp-quic-go-datagram-a"}
Dialled == {id \in LabIDs : dirs[id].bins # <<>> /\ \E n \in 1 .. MaxDials : dirs[id].bins[1].n = <<id, n>>}
Explored ==
  LET ids == {p.id : p \in promotions'} IN
  /\ Cardinality(promotions') = 2 => Cardinality({p.flight.count : p \in promotions'}) = 2
  /\ Cardinality(promotions') = 2 \/ (dials' = 2 /\ faults' = 1) =>
       /\ Dialled \cup ids \subseteq {"chromeparrot-b"} /\ script' \in {"idle", "annotate"}
       /\ ~dirs["exp-quic-go-datagram-a"].exists /\ at' <= 3
  /\ ids \subseteq Studied \/ script' = "idle"
  /\ dials' = 2 /\ ids # {} => last' = "none" \/ Dialled \cup ids \subseteq {"chromeparrot-b"}
  /\ faults' # faults => {p.id : p \in promotions} \subseteq Studied
  /\ faults' # faults /\ Cardinality(promotions) = 2 =>
       dirs' # dirs /\ \A p \in promotions : FileAt(p) = "initial"
  /\ script = "annotate" /\ (at \notin DOMAIN DirOrder \/ DirOrder[at] \notin Studied) => UNCHANGED promotions
  /\ script = "idle" /\ last \in {"extract", "match", "experiment"} => UNCHANGED <<dirs, promotions>>

MCFamily == [id \in LabIDs |-> "family"]
=============================================================================
