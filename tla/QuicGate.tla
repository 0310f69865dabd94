------------------------------ MODULE QuicGate ------------------------------
(***************************************************************************)
(* The scripts that run over profiles/ while the capture server may        *)
(* promote new flights: annotate_ja4.py, extract_utls_profile.py,           *)
(* match_utls_catalog.py and experiment_stable_random.py, and the emitter   *)
(* of the live experiment (exp-stable-random.ps1, emitters/fromprofile).    *)
(*                                                                          *)
(* A promotion writes one file after the other, and several may be under    *)
(* way, also into one directory.  A write may fail, which the server        *)
(* ignores for some files and which ends the promotion for others, and the  *)
(* server may be killed: its promotions break off where they are.           *)
(*                                                                          *)
(* One script runs at a time.  annotate, extract and match go through the   *)
(* directories one after the other; each of the six experiments is one      *)
(* step, so that a promotion may come between two of them.                  *)
(***************************************************************************)
EXTENDS QuicMatch

CONSTANTS DirOrder,    \* the directory names under profiles/, sorted
          Hidden,      \* those that begin with exp- or peer-
          LiveShort,   \* exp-<short>-a or -b |-> <short>
          Clients,     \* the clients that dial with the SNI of a directory
          Initially,   \* the positions in Clients captured at first, 0 for none
          Family,      \* the family promoteProfile gives a directory
          ExtraPairs,  \* --extra-pair arguments
          MaxDials,    \* bound: promotions after the start
          MaxFaults,   \* bound: their writes that fail
          MaxScripts   \* bound: scripts started

LabIDs == {DirOrder[i] : i \in DOMAIN DirOrder}

ASSUME GateAssumption ==
  /\ Hidden \subseteq LabIDs /\ DOMAIN LiveShort \subseteq Hidden
  /\ MaxDials \in Nat /\ MaxFaults \in Nat /\ MaxScripts \in Nat

VARIABLES
  dirs,      \* profiles/<lab id>
  promotions,\* those under way: where, of which flight, how many files are done,
             \* and whether no other was under way in that directory meanwhile
  drafts,    \* catalog/utls/_drafts/<lab id>.json
  script,    \* "idle", "annotate", "extract", "match" or "experiment"
  listed,    \* the names iterdir() returned
  at,        \* the position in DirOrder; for experiment, the number of the next
  held,      \* annotate: the JA4 and the profile.json it holds in memory
  strict,    \* match: --strict-all
  rows,      \* match: what each directory was classified as
  failures,  \* experiment
  verdict,   \* of the last script: "none", "ok", "fail", or "raise"
  moved,     \* history: directories a promotion changed since the script began
  torn,      \* history: directories not left by a promotion that was alone and
             \* came to its end: one is under way, or the last ones broke off or
             \* overlapped
  raced,     \* history: directories changed while annotate was at them, or torn
             \* when it came to them
  last,      \* history: the last script
  dials, faults, scripts

\* What only the scripts change, and what only the promotions do.
work == <<script, listed, at, held, strict, rows, failures, verdict, last, scripts>>
lab == <<promotions, torn, dials, faults>>
vars == <<dirs, drafts, moved, raced, work, lab>>

Catalog == SortedCatalog
NoDraft == [short |-> "none"]
Nothing == [ja4 |-> NoFlight.n, manifest |-> NoFlight]
Obs(id) == Observation(id, dirs[id])
Existing(ids) == {id \in LabIDs : id \in ids /\ dirs[id].exists}

-----------------------------------------------------------------------------
(* Flights and promotions                                                  *)

\* fromprofile's exit status: it refuses what is not dialable by an engine.
FromProfileExit(doc) ==
  CASE doc.status = "observation_only" \/ doc.emit.kind = "match_only" -> 3
    [] doc.emit.kind \in {"uquic_preset", "structured"} -> 4
    [] ~doc.emit.engine.given -> 2
    [] OTHER -> 0

\* What the QUIC library sends under these flags.
EngineClient(engine) ==
  [tokens |-> {Token("hex", id) : id \in
     CommonTP \cup {"0x3", "GREASE"}
       \cup (IF engine.parrot THEN {"0x11", "0x3128"} ELSE {"0xb", "0xe"})
       \cup (IF engine.datagrams THEN {"0x20"} ELSE {})},
   scid |-> IF engine.zeroSCID \/ engine.parrot THEN 0 ELSE 4, count |-> 2,
   shuffles |-> engine.parrot, hello |-> IF engine.parrot THEN "parrot" ELSE "plain", values |-> "engine"]

Docs == {Catalog[i] : i \in DOMAIN Catalog}
Doc(short) == CHOOSE doc \in Docs : doc.short = short

\* The clients of a directory: the live experiment's are emitted from the catalog,
\* if the entry is there and fromprofile does not refuse it.
ClientsOf(id) ==
  IF id \in DOMAIN LiveShort
  THEN IF \E doc \in Docs : doc.short = LiveShort[id] /\ FromProfileExit(doc) = 0
       THEN <<EngineClient(Doc(LiveShort[id]).emit.engine)>> ELSE <<>>
  ELSE Clients[id]

\* A flight has datagrams, and what was captured first came from a client.
ASSUME ClientAssumption == \A id \in LabIDs :
  /\ \A k \in DOMAIN ClientsOf(id) : ClientsOf(id)[k].count \in Nat \ {0}
  /\ Initially[id] \subseteq {0} \cup DOMAIN ClientsOf(id)

Flight(c, n) ==
  [tokens |-> c.tokens, scid |-> c.scid, count |-> c.count, shuffles |-> c.shuffles,
   hello |-> c.hello, values |-> c.values, n |-> n]

\* promoteProfile writes 000.bin, 001.bin ... and removes none of an earlier flight.
WithInitial(bins, i, flight) ==
  LET file == [n |-> flight.n, of |-> flight.count]
  IN IF i \in DOMAIN bins THEN [bins EXCEPT ![i] = file] ELSE Append(bins, file)

\* The files of a promotion, in the order it writes them.
AfterInitials == <<"meta", "header", "tp", "hello", "profile">>
FileAt(p) == IF p.done < p.flight.count THEN "initial" ELSE AfterInitials[p.done - p.flight.count + 1]

\* The writes whose error promoteProfile ignores.
Ignored == {"meta", "header", "tp", "hello"}

\* A directory with the next file of a promotion; the profile expects no JA4 until
\* it is annotated.
WithFile(dir, p, content) ==
  LET file == FileAt(p) IN
  CASE file = "initial" -> [dir EXCEPT !.bins = WithInitial(@, p.done + 1, content)]
    [] file = "meta" -> [dir EXCEPT !.meta = content]
    [] file = "header" -> [dir EXCEPT !.header = content]
    [] file = "tp" -> [dir EXCEPT !.tp = content]
    [] file = "hello" -> [dir EXCEPT !.hello = content]
    [] OTHER -> [dir EXCEPT !.profile = TRUE, !.family = Family[p.id], !.manifest = content,
                            !.ja4 = NoFlight.n]

-----------------------------------------------------------------------------
(* The six experiments: what each adds to failures                         *)

\* exp_catalog_random_slots.
SlotFailures ==
  {<<"slots", doc.short>> : doc \in {d \in Docs :
     \/ \A s \in d.slots : s.stable
     \/ d.auth.capable /\ ~\E s \in d.slots : s.overlay /\ s.id = "tp_grease_value"
     \/ d.auth.capable /\ d.auth.demuxFingerprint}}

PresentRefs(doc) == {i \in DOMAIN doc.refs : doc.refs[i] \in LabIDs /\ dirs[doc.refs[i]].exists}
FirstRef(doc) == doc.refs[CHOOSE i \in PresentRefs(doc) : \A j \in PresentRefs(doc) : i <= j]
OtherRefs(doc) == {doc.refs[i] : i \in PresentRefs(doc)} \ {FirstRef(doc)}

\* Mutated form: the pinned length of the source connection id is not compared.
SameIdentityButSCID(doc, a, b) ==
  /\ a.tp = b.tp /\ a.markers = b.markers
  /\ doc.identity.datagrams = None \/ (a.datagrams = b.datagrams /\ b.datagrams = doc.identity.datagrams)

\* The stable fields of two observations of one short.
SameIdentity(doc, a, b) ==
  /\ a.tp = b.tp /\ a.markers = b.markers
  /\ doc.identity.datagrams = None \/ (a.datagrams = b.datagrams /\ b.datagrams = doc.identity.datagrams)
  /\ doc.identity.scid = None \/ (a.scid = b.scid /\ b.scid = doc.identity.scid)

\* exp_same_short_stable: every reference against the first one.
StableFailures ==
  {<<"stable", doc.short>> : doc \in {d \in Docs :
     /\ Cardinality(PresentRefs(d)) >= 2
     /\ \E ref \in OtherRefs(d) :
          \/ ~SameIdentity(d, Obs(FirstRef(d)), Obs(ref))
          \/ /\ d.short = "chrome" /\ NoFlight \notin {dirs[FirstRef(d)].tp, dirs[ref].tp}
             /\ dirs[FirstRef(d)].tp.values # dirs[ref].tp.values}}

\* expect_for: a Chrome parrot shuffles, anything else is deterministic.
ShortOf(id) ==
  IF \E doc \in Docs : InRefs(id, doc) \/ id = doc.short
  THEN (CHOOSE doc \in Docs : InRefs(id, doc) \/ id = doc.short).short
  ELSE IF id \in DOMAIN LiveShort THEN LiveShort[id] ELSE "none"
ExpectShuffle(id) == ShortOf(id) = "chrome" \/ id \in {"chromeparrot", "chromeparrot-b", "uquic146", "uquic146-b"}

\* tp.json's hex_id is a function of the id set.
SameHexID(a, b) == TPSet(a.tp.tokens) = TPSet(b.tp.tokens)

\* What varies in the ClientHello and the frames meta.json tells of.
Layout(f) == <<f.hello, IF f.shuffles THEN f.n ELSE <<"fixed", 0>>>>

RoundTripOK(pair) ==
  LET a == dirs[pair[1]] b == dirs[pair[2]] IN
  /\ SameIdentity([identity |-> [datagrams |-> None, scid |-> None]], Obs(pair[1]), Obs(pair[2]))
  /\ Len(a.bins) = Len(b.bins) /\ SameHexID(a, b)
  /\ a.meta # NoFlight /\ a.meta.hello = b.meta.hello
  /\ a.bins # b.bins /\ NoFlight \notin {a.hello, b.hello} /\ a.hello # b.hello
  /\ ExpectShuffle(pair[1]) <=> Layout(a.meta) # Layout(b.meta)

\* exp_roundtrip_random.
Pairs == {<<"chromeparrot", "chromeparrot-b">>, <<"uquic146", "uquic146-b">>} \cup ExtraPairs
BothExist(pair) == pair[1] \in Existing(LabIDs) /\ pair[2] \in Existing(LabIDs)
RoundTripFailures == {<<"roundtrip", pair>> : pair \in {p \in Pairs : ~BothExist(p) \/ ~RoundTripOK(p)}}

\* Mutated form: the references are not classified.
CrossFailuresDuplicatesOnly ==
  {<<"duplicate", doc.short>> : doc \in {d \in Docs : \E e \in Docs \ {d} : d.identity.tp = e.identity.tp}}

\* exp_cross_short_separation: the first reference there is must match its short.
CrossFailures ==
  {<<"duplicate", doc.short>> : doc \in {d \in Docs : \E e \in Docs \ {d} : d.identity.tp = e.identity.tp}}
  \cup {<<"cross", doc.short>> : doc \in {d \in Docs :
          PresentRefs(d) # {} /\ Classify(Obs(FirstRef(d)), Catalog).short # d.short}}

\* exp_auth_identity_invariant.
AuthFailures ==
  LET a == "chromeparrot" b == "chromeparrot-b" IN
  IF SameHexID(dirs[a], dirs[b]) /\ Obs(a).tp = Obs(b).tp /\ dirs[a].bins # dirs[b].bins
  THEN {} ELSE {<<"auth">>}

\* The live profiles must match the short they are named after.
LiveFailures ==
  {<<"live", id>> : id \in {e \in DOMAIN LiveShort :
     dirs[e].profile /\ Classify(Obs(e), Catalog).short # LiveShort[e]}}

\* load_observation raises without profile.json, and for JSON that is cut off;
\* load_profile_dir reads meta.json and tp.json too.
Observable(id) == dirs[id].profile /\ Broken \notin {dirs[id].manifest, dirs[id].header}
Loadable(id) == Observable(id) /\ Broken \notin {dirs[id].meta, dirs[id].tp}

Reads(k) == CASE k = 2 -> UNION {{d.refs[i] : i \in PresentRefs(d)} : d \in {e \in Docs : Cardinality(PresentRefs(e)) >= 2}}
              [] k = 3 -> UNION {{p[1], p[2]} : p \in {q \in Pairs : BothExist(q)}}
              [] k = 4 -> {FirstRef(d) : d \in {e \in Docs : PresentRefs(e) # {}}}
              [] k = 5 -> {"chromeparrot", "chromeparrot-b"}
              [] k = 6 -> {id \in DOMAIN LiveShort : dirs[id].profile}
              [] OTHER -> {}
Raises(k) == \E id \in Reads(k) : IF k \in {4, 6} THEN ~Observable(id) ELSE ~Loadable(id)

FailuresOf(k) == CASE k = 1 -> SlotFailures [] k = 2 -> StableFailures [] k = 3 -> RoundTripFailures
                   [] k = 4 -> CrossFailures [] k = 5 -> AuthFailures [] OTHER -> LiveFailures

-----------------------------------------------------------------------------
(* Actions                                                                 *)

\* A lab that was captured before: a directory holds one flight of one of its
\* clients, or does not exist.
Before(id, k) ==
  IF k = 0 THEN Absent
  ELSE LET f == Flight(ClientsOf(id)[k], <<id, 0>>) IN
       [exists |-> TRUE, profile |-> TRUE, family |-> Family[id], manifest |-> f, ja4 |-> NoFlight.n,
        meta |-> f, header |-> f, tp |-> f, hello |-> f,
        bins |-> [i \in 1 .. f.count |-> [n |-> f.n, of |-> f.count]]]

Init ==
  /\ \E which \in [LabIDs -> UNION {Initially[id] : id \in LabIDs}] :
       /\ \A id \in LabIDs : which[id] \in Initially[id]
       /\ dirs = [id \in LabIDs |-> Before(id, which[id])]
  /\ drafts = [id \in LabIDs |-> NoDraft]
  /\ script = "idle" /\ listed = {} /\ at = 0 /\ held = Nothing /\ strict = FALSE
  /\ rows = {} /\ failures = {} /\ verdict = "none"
  /\ promotions = {} /\ moved = {} /\ torn = {} /\ raced = {} /\ last = "none"
  /\ dials = 0 /\ faults = 0 /\ scripts = 0

\* annotate is between reading the initials of a directory and writing its profile.
UnderAnnotate(id) == held # Nothing /\ DirOrder[at] = id

\* A client dials with the SNI of a directory; when its flight is complete, the
\* promotion creates the directory.
Dial(id) ==
  /\ dials < MaxDials
  /\ dials' = dials + 1
  /\ \E k \in DOMAIN ClientsOf(id) :
       promotions' = {[p EXCEPT !.alone = @ /\ p.id # id] : p \in promotions} \cup
         {[id |-> id, flight |-> Flight(ClientsOf(id)[k], <<id, dials'>>), done |-> 0,
           alone |-> \A p \in promotions : p.id # id]}
  /\ dirs' = [dirs EXCEPT ![id].exists = TRUE]
  /\ moved' = moved \cup {id} /\ torn' = torn \cup {id}
  /\ raced' = IF UnderAnnotate(id) THEN raced \cup {id} ELSE raced
  /\ UNCHANGED <<drafts, work, faults>>

\* A promotion is done with a file, whatever became of it.
Advance(p) == promotions' = (promotions \ {p}) \cup {[p EXCEPT !.done = @ + 1]}

\* It writes its next file, profile.json last.
Write(p) ==
  /\ dirs' = [dirs EXCEPT ![p.id] = WithFile(@, p, p.flight)]
  /\ moved' = moved \cup {p.id}
  /\ IF FileAt(p) = "profile"
     THEN /\ promotions' = promotions \ {p}
          /\ torn' = IF p.alone THEN torn \ {p.id} ELSE torn
          /\ raced' = IF UnderAnnotate(p.id) THEN raced \cup {p.id} ELSE raced \ {p.id}
     ELSE /\ Advance(p)
          /\ raced' = IF UnderAnnotate(p.id) THEN raced \cup {p.id} ELSE raced
          /\ UNCHANGED torn
  /\ UNCHANGED <<drafts, work, dials, faults>>

\* A write that fails, or that is not reached, leaves the file there was, or one
\* that is empty or cut off.
NotWritten(p) ==
  /\ faults < MaxFaults
  /\ faults' = faults + 1
  /\ \/ UNCHANGED dirs
     \/ dirs' = [dirs EXCEPT ![p.id] = WithFile(@, p, Broken)]
  /\ moved' = moved \cup {p.id}
  /\ raced' = IF UnderAnnotate(p.id) THEN raced \cup {p.id} ELSE raced
  /\ UNCHANGED <<drafts, work, torn, dials>>

\* The error is ignored: the promotion goes on with the next file.
WriteFails(p) == NotWritten(p) /\ FileAt(p) \in Ignored /\ Advance(p)

\* Two promotions that write one initial at once may leave it cut off.
WritesOver(p) ==
  /\ ~p.alone /\ FileAt(p) = "initial"
  /\ NotWritten(p) /\ dirs' = [dirs EXCEPT ![p.id] = WithFile(@, p, Broken)]
  /\ Advance(p)

\* The error is returned, or the server is killed.
BreaksOff(p) == NotWritten(p) /\ promotions' = promotions \ {p}

Start(s, opt) ==
  /\ script = "idle" /\ scripts < MaxScripts
  /\ script' = s /\ last' = s /\ strict' = opt
  /\ scripts' = scripts + 1
  /\ listed' = Existing(LabIDs) /\ at' = 1
  /\ rows' = {} /\ failures' = {} /\ verdict' = "none" /\ moved' = {}
  /\ UNCHANGED <<dirs, drafts, held, raced, lab>>

End(v) == script' = "idle" /\ verdict' = v /\ at' = 0 /\ listed' = {} /\ held' = Nothing

\* The directories the loops of extract and match pass over, without --id.
Skipped(id) == id \notin listed \/ ~dirs[id].profile \/ id \in Hidden

\* ja4_from_initials: the flights whose datagrams are all there, the last one
\* if there are several.  Datagrams of two flights do not make a ClientHello.
WholeFlights(bins) ==
  {i \in DOMAIN bins : bins[i].of = i /\ \A j \in 1 .. i : bins[j].n = bins[i].n}

\* Mutated form: the last file decides, whether its flight is whole or not.
JA4FromLastFile(bins) == IF bins = <<>> THEN NoFlight.n ELSE bins[Len(bins)].n

JA4FromInitials(bins) ==
  IF WholeFlights(bins) = {} THEN NoFlight.n
  ELSE bins[CHOOSE i \in WholeFlights(bins) : \A j \in WholeFlights(bins) : j <= i].n

\* annotate: the directories it passes over, or finds no JA4 for.
Unannotated(id) ==
  \/ id \notin listed \/ ~dirs[id].profile \/ JA4FromInitials(dirs[id].bins) = NoFlight.n

AnnotateInitials ==
  /\ script = "annotate" /\ at \in DOMAIN DirOrder /\ held = Nothing
  /\ LET id == DirOrder[at] IN
       IF Unannotated(id)
       THEN at' = at + 1 /\ UNCHANGED <<held, raced>>
       ELSE /\ held' = [ja4 |-> JA4FromInitials(dirs[id].bins), manifest |-> NoFlight]
            /\ raced' = IF id \in torn THEN raced \cup {id} ELSE raced
            /\ UNCHANGED at
  /\ UNCHANGED <<dirs, drafts, script, listed, strict, rows, failures, verdict, moved, last, scripts, lab>>

\* profile.json is read after the initials, where it can be ...
AnnotateReads ==
  /\ held # Nothing /\ held.manifest = NoFlight
  /\ LET manifest == dirs[DirOrder[at]].manifest IN
       IF manifest = Broken
       THEN End("raise")
       ELSE held' = [held EXCEPT !.manifest = manifest] /\ UNCHANGED <<script, verdict, at, listed>>
  /\ UNCHANGED <<dirs, drafts, strict, rows, failures, moved, raced, last, scripts, lab>>

\* ... and written back with the JA4 in it.
AnnotateWrites ==
  /\ held # Nothing /\ held.manifest # NoFlight
  /\ dirs' = [dirs EXCEPT ![DirOrder[at]].manifest = held.manifest, ![DirOrder[at]].ja4 = held.ja4]
  /\ held' = Nothing /\ at' = at + 1
  /\ UNCHANGED <<drafts, script, listed, strict, rows, failures, verdict, moved, raced, last, scripts, lab>>

\* The write fails, or annotate is killed: the profile is cut off.
AnnotateBreaksOff ==
  /\ held # Nothing /\ held.manifest # NoFlight
  /\ dirs' = [dirs EXCEPT ![DirOrder[at]].manifest = Broken, ![DirOrder[at]].ja4 = NoFlight.n]
  /\ End("raise")
  /\ UNCHANGED <<drafts, strict, rows, failures, moved, raced, last, scripts, lab>>

\* annotate exits with 1 if it annotated no directory, which nobody reads.
AnnotateEnds ==
  /\ script = "annotate" /\ at \notin DOMAIN DirOrder
  /\ End("ok")
  /\ UNCHANGED <<dirs, drafts, strict, rows, failures, moved, raced, last, scripts, lab>>

\* extract: load_observation, build_draft, write_json.
ExtractDir ==
  /\ script = "extract" /\ at \in DOMAIN DirOrder
  /\ LET id == DirOrder[at] IN
       IF Skipped(id) \/ Observable(id)
       THEN /\ drafts' = IF Skipped(id) THEN drafts ELSE [drafts EXCEPT ![id] = BuildDraft(Obs(id))]
            /\ at' = at + 1 /\ UNCHANGED <<script, verdict, listed, held>>
       ELSE End("raise") /\ UNCHANGED drafts
  /\ UNCHANGED <<dirs, strict, rows, failures, moved, raced, last, scripts, lab>>

ExtractEnds ==
  /\ script = "extract" /\ at \notin DOMAIN DirOrder
  /\ End("ok")
  /\ UNCHANGED <<dirs, drafts, strict, rows, failures, moved, raced, last, scripts, lab>>

\* match: load_observation, classify.
MatchDir ==
  /\ script = "match" /\ at \in DOMAIN DirOrder
  /\ LET id == DirOrder[at] IN
       IF Skipped(id) \/ Observable(id)
       THEN /\ rows' = IF Skipped(id) THEN rows ELSE rows \cup {[id |-> id, match |-> Classify(Obs(id), Catalog)]}
            /\ at' = at + 1 /\ UNCHANGED <<script, verdict, listed, held>>
       ELSE End("raise") /\ UNCHANGED rows
  /\ UNCHANGED <<dirs, drafts, strict, failures, moved, raced, last, scripts, lab>>

Required == {"chrome", "quic-go", "quic-go-datagram"}

\* match's exit status, in the order of its checks.
MatchVerdict(rs, all) ==
  IF \/ ~Required \subseteq {r.match.short : r \in rs}
     \/ all /\ \E r \in rs : r.match = NoMatch
     \/ \E r \in rs : r.match.capable /\ r.match.demuxFingerprint
  THEN "fail" ELSE "ok"

MatchEnds ==
  /\ script = "match" /\ at \notin DOMAIN DirOrder
  /\ End(MatchVerdict(rows, strict))
  /\ UNCHANGED <<dirs, drafts, strict, rows, failures, moved, raced, last, scripts, lab>>

\* One experiment: it raises, or adds its failures.
Experiment ==
  /\ script = "experiment" /\ at \in 1 .. 6
  /\ IF Raises(at)
     THEN End("raise") /\ UNCHANGED failures
     ELSE /\ failures' = failures \cup FailuresOf(at)
          /\ at' = at + 1 /\ UNCHANGED <<script, verdict, listed, held>>
  /\ UNCHANGED <<dirs, drafts, strict, rows, moved, raced, last, scripts, lab>>

ExperimentEnds ==
  /\ script = "experiment" /\ at = 7
  /\ End(IF failures = {} THEN "ok" ELSE "fail")
  /\ UNCHANGED <<dirs, drafts, strict, rows, failures, moved, raced, last, scripts, lab>>

Next ==
  \/ \E id \in LabIDs : Dial(id)
  \/ \E p \in promotions : Write(p) \/ WriteFails(p) \/ WritesOver(p) \/ BreaksOff(p)
  \/ \E s \in {"annotate", "extract", "experiment"} : Start(s, FALSE)
  \/ \E all \in BOOLEAN : Start("match", all)
  \/ AnnotateInitials \/ AnnotateReads \/ AnnotateWrites \/ AnnotateBreaksOff \/ AnnotateEnds
  \/ ExtractDir \/ ExtractEnds
  \/ MatchDir \/ MatchEnds \/ Experiment \/ ExperimentEnds

Spec == Init /\ [][Next]_vars

-----------------------------------------------------------------------------
(* Properties                                                              *)

\* The experiments ended well, on directories that did not change meanwhile.
ExperimentOK == last = "experiment" /\ verdict = "ok" /\ moved = {}

\* Exit 0 of the experiments says more than they look at: every reference of a
\* short matches that short, although only the first one is classified
\* (experiment_stable_random.py:105-149, 254-274).
RefsClassify == ExperimentOK =>
  \A doc \in Docs, id \in LabIDs :
    InRefs(id, doc) /\ dirs[id].exists => Classify(Obs(id), Catalog).short = doc.short

\* The two gates agree: where the experiments pass and every required short has
\* a reference, match_utls_catalog.py passes as well, if it can read all it finds,
\* and nothing it would call auth-capable asks for a fingerprint in the demux
\* (match_utls_catalog.py:155-175).
MatchRows == {[id |-> id, match |-> Classify(Obs(id), Catalog)] :
                id \in {d \in LabIDs \ Hidden : dirs[d].profile}}
GatesAgree ==
  /\ ExperimentOK
  /\ \A id \in LabIDs \ Hidden : dirs[id].profile => Observable(id)
  /\ \A short \in Required : \E id \in LabIDs \ Hidden : InRefs(id, Doc(short)) /\ dirs[id].exists
  => MatchVerdict(MatchRows, FALSE) = "ok"

\* Whatever the catalog calls emit_ready comes back as itself: emitted by
\* fromprofile, captured, promoted and read again, it matches the short it was
\* emitted from, also where promotions failed, broke off or overlapped and left
\* what can be read (exp-stable-random.ps1, experiment_stable_random.py:367-384).
LiveRoundTrip == \A id \in DOMAIN LiveShort :
  Observable(id) => Classify(Obs(id), Catalog).short = LiveShort[id]

\* Directories that compare_structural.py calls equal are not told apart by the
\* matcher, but for the source connection id, which it does not compare.
ParityIsIdentity == script = "idle" /\ promotions = {} => \A a \in LabIDs : Observable(a) => \A b \in LabIDs \ {a} :
  /\ Observable(b) /\ StructuralMatch(dirs[a], dirs[b])
  /\ Obs(a).scid = Obs(b).scid
  => Classify(Obs(a), Catalog).short = Classify(Obs(b), Catalog).short

\* A draft of what matches a dialable short is that short: the same name, kind
\* and engine; and a draft describes the flight it was extracted from
\* (extract_utls_profile.py:19-79, 82-158).
DraftObs(id) == [id |-> id, tp |-> drafts[id].identity.tp, markers |-> drafts[id].identity.markers,
                 scid |-> drafts[id].identity.scid, datagrams |-> drafts[id].identity.datagrams]
DraftsKeepDialable == \A id \in LabIDs :
  drafts[id] # NoDraft =>
    LET short == Classify(DraftObs(id), Catalog).short IN
    /\ ~Rejected(DraftObs(id), drafts[id])
    /\ short # "none" /\ IsDialable(Doc(short)) =>
         drafts[id].short = short /\ drafts[id].emit = Doc(short).emit /\ IsDialable(drafts[id])

\* An annotated profile expects the JA4 of its own flight, also where initials of
\* an earlier, longer flight lie beside, and while and after promotions fail, are
\* killed or overlap.  Excepted are the directories annotate_ja4.py came to when
\* they were left like that, or that were promoted while it was at them, up to
\* their next profile.json (annotate_ja4.py:25-62, capture/main.go:213-217, 352).
JA4IsOfItsFlight == \A id \in LabIDs \ raced :
  dirs[id].ja4 # NoFlight.n => dirs[id].ja4 = dirs[id].manifest.n
=============================================================================
