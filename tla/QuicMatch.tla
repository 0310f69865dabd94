------------------------------ MODULE QuicMatch ------------------------------
(***************************************************************************)
(* How the QUIC scripts read an observation, a lab profile directory with  *)
(* the files of a captured flight, and match it with catalog entries:       *)
(* quic_utls_lib.py, score_match and classify of match_utls_catalog.py, the *)
(* drafts of extract_utls_profile.py, and compare_structural.py.            *)
(*                                                                          *)
(* A transport parameter id, as a profile.json holds it, is a record: the   *)
(* id, and how it is written, "hex" for lower case and for the GREASE token *)
(* (what the capture server writes), "HEX" for upper case, "int" for a JSON *)
(* number.                                                                  *)
(*                                                                          *)
(* A flight is what a client sent: its ids, the length of its source        *)
(* connection id, its number of datagrams, its ClientHello but for what is  *)
(* random in it, whether it shuffles that, named transport parameter values,*)
(* and a number that tells one dial from another.                           *)
(***************************************************************************)
EXTENDS QuicCatalog, FiniteSets

Token(form, id) == [form |-> form, id |-> id]

\* norm_tp of one id.  Of the spellings of 27, "0X1B" is not recognized.
NormID(t) == IF t.id = "GREASE" /\ t.form = "HEX" THEN "0x1b" ELSE t.id

\* tp_set: the order is dropped, and so are repeated ids.
TPSet(tokens) == {NormID(t) : t \in tokens}

MarkersFromTP(tp) == tp \cap MarkerIDs

\* infer_scid_len.  The header of a capture omits a length of zero.
InferSCIDLen(header, expected, markers) ==
  IF expected # None THEN expected
  ELSE IF header.source # None THEN header.source
  ELSE IF header.dest = None THEN None
  ELSE IF markers \cap {"0x3128", "0x11"} # {} THEN 0
  ELSE None

-----------------------------------------------------------------------------
(* A profile directory, as promoteProfile leaves it                        *)

\* A directory holds files of flights: manifest is the flight profile.json is of,
\* ja4 the flight whose JA4 it expects; meta, header and tp are meta.json,
\* header.json and tp.json, and hello is clienthello.bin; bins says of each file
\* in initials/ of which flight it is, and of how many datagrams that was.
\* profile: there is a profile.json.  A file that is not there is NoFlight, one
\* that a write left empty or cut off is Broken.
NoFlight == [tokens |-> {}, scid |-> 0, count |-> 0, shuffles |-> FALSE, hello |-> "none",
             values |-> "none", n |-> <<"none", 0>>]
Broken == [NoFlight EXCEPT !.n = <<"broken", 0>>]
Absent == [exists |-> FALSE, profile |-> FALSE, family |-> "none", manifest |-> NoFlight,
           ja4 |-> NoFlight.n, meta |-> NoFlight, header |-> NoFlight, tp |-> NoFlight,
           hello |-> NoFlight, bins |-> <<>>]

Header(flight) == [source |-> IF flight.scid = 0 THEN None ELSE flight.scid,
                   dest |-> IF flight = NoFlight THEN None ELSE 8]

\* load_observation; the expected scid_len is null in every capture.
Observation(id, dir) ==
  LET tp == TPSet(dir.manifest.tokens)
      markers == MarkersFromTP(tp)
  IN [id |-> id, family |-> dir.family, tp |-> tp, markers |-> markers,
      scid |-> InferSCIDLen(Header(dir.header), None, markers),
      datagrams |-> Len(dir.bins)]

-----------------------------------------------------------------------------
(* Matching                                                                *)

\* score_match's hard failures.  An unknown length does not fail.
Rejected(obs, doc) ==
  \/ doc.identity.markers # obs.markers
  \/ doc.identity.tp # obs.tp
  \/ /\ doc.identity.scid # None /\ obs.scid # None
     /\ doc.identity.scid # obs.scid

Points(condition, points) == IF condition THEN points ELSE 0

InRefs(id, doc) == \E i \in DOMAIN doc.refs : doc.refs[i] = id

\* score_match.
Score(obs, doc) ==
  IF Rejected(obs, doc) THEN -1
  ELSE 100 + Points(doc.identity.scid # None /\ obs.scid = doc.identity.scid, 20)
           + Points(obs.datagrams > 0 /\ obs.datagrams = doc.identity.datagrams, 10)
           + Points(InRefs(obs.id, doc) \/ obs.id = doc.short, 5)

\* The entries that do not fail, and the first one of the highest score, as
\* classify keeps a later one only if it is better.
Candidates(obs, catalog) == {i \in DOMAIN catalog : Score(obs, catalog[i]) >= 0}
Best(obs, catalog) ==
  CHOOSE i \in Candidates(obs, catalog) :
    \A j \in Candidates(obs, catalog) :
      LET si == Score(obs, catalog[i]) sj == Score(obs, catalog[j])
      IN sj < si \/ (sj = si /\ i <= j)

NoMatch == [short |-> "none", status |-> "none", kind |-> "none", capable |-> FALSE, demuxFingerprint |-> FALSE]

\* classify.
Classify(obs, catalog) ==
  IF Candidates(obs, catalog) = {} THEN NoMatch
  ELSE LET doc == catalog[Best(obs, catalog)]
       IN [short |-> doc.short, status |-> doc.status, kind |-> doc.emit.kind,
           capable |-> doc.auth.capable, demuxFingerprint |-> doc.auth.demuxFingerprint]

\* is_dialable.
IsDialable(doc) == doc.status = "emit_ready" /\ doc.emit.kind \notin {"none", "match_only"}

-----------------------------------------------------------------------------
(* Drafts                                                                  *)

Inferred(kind, engine, status, short) ==
  [emit |-> Emit(kind, engine), status |-> status, short |-> short]

\* Mutated form: the datagram marker is not looked at.
InferEmitWithoutDatagram(obs) ==
  IF {"0x11", "0x3128"} \subseteq obs.markers
  THEN Inferred("sagernet_chrome_parrot", Engine(TRUE, TRUE, TRUE), "emit_ready", "chrome")
  ELSE IF obs.markers \cap {"0x11", "0x3128"} = {}
  THEN Inferred("sagernet_plain", Engine(FALSE, FALSE, FALSE), "emit_ready", "quic-go")
  ELSE Inferred("match_only", NoEngine, "observation_only", obs.family)

\* infer_emit; a promoted profile always has a family.
InferEmit(obs) ==
  LET m == obs.markers IN
  CASE {"0x11", "0x3128"} \subseteq m ->
         Inferred("sagernet_chrome_parrot", Engine(TRUE, TRUE, TRUE), "emit_ready", "chrome")
    [] m \cap {"0x11", "0x3128"} = {} /\ "0x20" \in m ->
         Inferred("sagernet_plain", Engine(FALSE, TRUE, FALSE), "emit_ready", "quic-go-datagram")
    [] m \cap {"0x11", "0x3128", "0x20"} = {} ->
         Inferred("sagernet_plain", Engine(FALSE, FALSE, FALSE), "emit_ready", "quic-go")
    [] "0x11" \in m /\ "0x3128" \notin m ->
         Inferred("match_only", Engine(FALSE, "0x20" \in m, obs.scid = 0), "observation_only",
                  "yandex-or-firefox")
    [] OTHER -> Inferred("match_only", NoEngine, "observation_only", obs.family)

\* build_draft: an entry of the catalog's form; never auth-capable.
BuildDraft(obs) ==
  LET inferred == InferEmit(obs)
      grease == "GREASE" \in obs.tp
  IN Profile(inferred.short, obs.family, {obs.id}, inferred.status,
       Identity(obs.tp, obs.markers, obs.scid, IF obs.datagrams \in {1, 2} THEN obs.datagrams ELSE None),
       inferred.emit,
       {Slot("tp_grease_value", FALSE, FALSE), Slot("initial_dcid", FALSE, FALSE)},
       [capable |-> FALSE, channel |-> IF grease THEN "tp_grease_value" ELSE "none",
        demuxFingerprint |-> FALSE],
       <<obs.id>>)

-----------------------------------------------------------------------------
(* Structural comparison                                                   *)

\* compare_structural.load: GREASE becomes a token, other ids stay as written.
StructuralToken(t) ==
  IF t.id = "GREASE" /\ t.form # "HEX" THEN Token("hex", "GREASE") ELSE t

Structure(dir) ==
  LET tp == {StructuralToken(t) : t \in dir.manifest.tokens}
  IN [tp |-> tp, datagrams |-> Len(dir.bins),
      has011 |-> Token("hex", "0x11") \in tp, has3128 |-> Token("hex", "0x3128") \in tp]

\* Mutated form: the markers alone are compared, not the set.
StructuralMatchOfMarkers(a, b) ==
  LET s == Structure(a) t == Structure(b)
  IN s.has011 = t.has011 /\ s.has3128 = t.has3128 /\ s.datagrams = t.datagrams

\* compare_structural.main.
StructuralMatch(a, b) == Structure(a) = Structure(b)
=============================================================================
