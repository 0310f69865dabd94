# utls-fingerprint-lab: verification project

TLA+ models of the fingerprint lab, TLC configurations that check them on small
instances, and theorems about them that TLAPS checks for every instance.
Paths are relative to the root of the repository.

## 1. Inventory

The lab captures the TLS ClientHello and the QUIC Initial packets of real
clients, keeps them as profiles, and publishes catalogs of them.

| Component | State it keeps | Operations | Talks to |
|---|---|---|---|
| QUIC capture server, `quic/capture/main.go` | `sync.Map` of peers, per peer a gather, its datagrams, a timer and a mutex; captures and profiles on disk | read a datagram, append, finalize inline or by timer, `finishPeer`, `promoteProfile` | QUIC clients (UDP, never answered); the QUIC scripts read its profiles |
| TCP capture server, `capture/*.go` | sequence number; captures and profiles on disk | per connection: read the ClientHello, analyse it, write capture and profile, answer | clients; labctl and `tools/cmd/verify` read its profiles and its `X-Captured-JA4` header |
| labctl capture and archive, `tools/cmd/labctl/main.go`, `archive.go` | profiles of the latest slots with `slot.json`, archived profiles, `targets.archive.yaml`, a temporary snapshot | snapshot, run client, compare, copy, append row, update slot | starts clients; shares `profiles/` with the TCP capture server |
| labctl export, `export.go` | `dist/` with profiles, `catalog.json`, `NAMES.md` | select, rank, deduplicate, name, publish | reads `profiles/` |
| verify, `tools/cmd/verify`, `labctl verify` | `verify-last.json` | replay a profile, compare the JA4 | TCP capture server |
| QUIC curated catalog, `quic/scripts/sync_utls_catalog.py`, `export_dist.py` | `catalog/utls/`, `dist/export/` | sync (rewrite the catalog from `CATALOG`), load, export | the gates load it |
| QUIC gates, `match_utls_catalog.py`, `experiment_stable_random.py`, `compare_structural.py` | reports and exit statuses | classify, compare, pass or fail | read the QUIC profiles while the capture server may promote new ones |
| QUIC profile scripts, `annotate_ja4.py`, `extract_utls_profile.py` | `expected.ja4` in `profile.json`; drafts | annotate, extract | rewrite, or read, the QUIC profiles |
| QUIC emitters, `quic/emitters/*` | none | refuse, or dial once with the engine's flags | QUIC capture server |
| Compose lab, `scripts/gen-compose.py`, labctl's capture loop, `clients/*` | `compose.yaml`: services and the names of the capture container | scan the targets, generate, run a target's client, report | TCP capture server |

What is hard in it:

- **Interleaving.** The QUIC server's loop, its timers and its finalizers share
  a `peerState`; `LoadOrStore` comes before the lock, and `Stop` may come too
  late. The TCP server handles connections in goroutines that write the same
  profile directory without a lock.
- **Failure between steps.** labctl removes its only copy of the old profile
  when the client fails after the overwrite; a crash anywhere leaves directories
  and rows half done.
- **Names that collide.** Archives, captures and profiles are named after
  prefixes of a JA4, seconds, or the SNI.
- **Ordering.** Export picks one of several members for a short name after a
  sort over an unordered map.
- **Parsing.** Lengths in the ClientHello come from the wire.
- **Stale reads.** The scripts go through `profiles/` for as long as they take,
  while captures go on; `catalog/utls/` is removed and rewritten file by file
  with no lock; `compose.yaml` is made from target files that change afterwards.
- **Agreement.** Five programs say what a persona is: the catalog, the matcher,
  the experiments, the drafts and the emitter. Each reads other fields.
- **Success that says little.** Many services end in `|| true`, the experiments
  classify one reference of several, no reader looks for `index.json`.

What makes each component correct is stated by the properties of its module
(section 3); every hazard is listed in `PROJECT.json` at the line where it bites,
with the properties that would catch it.

## 2. Plan

| # | Module | Composes | Abstract specification | Theorems |
|---|---|---|---|---|
| 1 | `QuicCapture` (done) | | `CaptureService` (done) | type, safety invariants, refinement (done) |
| 2 | `LabArchive` (done) | the TCP server's writes | `SlotHistory` (done) | type, safety, refinement (done) |
| 3 | `TcpCapture` (done) | | | type and all safety invariants (done) |
| 4 | `HelloParser` (done) | | | slices in bounds, progress (done) |
| 5 | `ExportCatalog` (done) | the TCP server's captures | | the ranking is a strict total order, one name per JA4, every member named, the catalog complete and true (done) |
| 6 | `QuicCatalog`, `QuicMatch` (done): the curated catalog and classification | | | the order of the catalog does not matter (done) |
| 7 | `QuicGate` (done): the scripts over `profiles/` | `QuicMatch`, promotions, the emitter | | the experiments' OK, the gates agree, annotated JA4s, the live round trip, parity, drafts (done) |
| 8 | `QuicPublish` (done): sync, load and export | `QuicMatch` | | a whole `index.json` seals the catalog, one catalog is loaded, exports are complete (done) |
| 9 | `ComposeLab` (done): from target to capture | gen-compose, labctl, capture server | | the scanner finds the active targets, an OK means a capture, no run writes another profile (done) |
| 10 | `Ja4`: sort, filter and truncations of `buildJA4` | | a reference definition | bounds of the counts |
| 11 | `QuicFiles` (done): captures and promotions file by file | finalizers of `QuicCapture` | | type, promoted is captured, a promotion stays and repairs (done) |
| 12 | `Verify`: replay of a hello, comparison of JA4s | `TcpCapture` | | |

1 to 9 were taken in the order of what is lost when the component is wrong: a
datagram, an archived fingerprint, a profile, the server itself, a name, the
meaning of a gate's OK.

## 3. What is modelled

### QuicCapture

Source: `quic/capture/main.go:46-205`. One action per atomic piece of the code:

| Action | Code |
|---|---|
| `ReadAndLoad` | `ReadFrom`, `UnmarshalQUICClientInitialPacket`, `peers.LoadOrStore` (66-81) |
| `AppendDatagram` | the critical section: gather, append, `AddPacket`, `Stop`, `AfterFunc` (82-117) |
| `InlineBegin`, `InlineEnd` | `finalize()` called by the loop when the gather is complete |
| `TimerFires` | the timer's goroutine starts; `Stop` is too late from now on |
| `FinalizeBegin`, `FinalizeEnd` | `finalize` in that goroutine: lock and `peers.Delete`; `finishPeer` and unlock |
| `DeadlinePasses` | the gather's 30 s deadline; later packets are refused, their error only logged |

A `peerState` is named after the datagram during which it was allocated. The
critical section is one action because the mutex protects all it touches but
the timer, and a timer that fires inside it could as well have fired before.
Lock and `peers.Delete` are one action: the mutex is free just before, so
nothing tells the lock alone from the state before it. The dead branch
`st.gather == nil` of `finalize` is left out (the gather is set before any
finalizer exists and never reset). The parser library is external: a gather is
complete when it was given every fragment.

`QuicCapture.cfg` (two peers, two fragments, three datagrams, failing writes)
checks `GathersAreFlights`, `NoStrandedDatagram`, `TableIsLive` and
`CompletedIsCaptured`; that the server implements `CaptureService`, in which
captures are runs of one peer's datagrams in their order of arrival
(`CaptureServiceSafety`); that every datagram read is stored in the end, or in a
gather for which `finishPeer` returned an error (`EveryDatagramIsStored`); and
that an entry of the table is removed (`EntriesAreRemoved`). Three datagrams let
one peer lose its gather to a race and start another, and a stale finalizer meet
the new one; any number of them is a matter of the theorems. Fairness: Go runs
every runnable goroutine, its mutexes are not lost, and a timer that stays armed
fires; no datagram has to arrive. The bound on datagrams stands for a peer that
goes quiet: a peer that sends a datagram every 700 ms for ever would keep its
gather until the ClientHello is complete.

`QuicCaptureSplit.cfg` refutes `OneGatherPerPeer` ("Demux by peer addr ... until
CH complete"): a finalizer that runs between `LoadOrStore` and the lock splits a
flight over two gathers. No datagram is stranded by it. For the same reason
`-gather-idle` is not always "idle time after last datagram": a timer that fired
while the loop held the mutex finalizes right after the last datagram.

### QuicFiles

Source: `finishPeer` and `promoteProfile`, `quic/capture/main.go:149-353`. What is one
step in `QuicCapture` is taken apart: a finalizer reads the second and begins
(`Begin`), then opens and fills one file after the other (`Open`, `Write`), first the
datagrams and `meta.json` of `captures/<second>-<id>`, then the datagrams, `meta.json`,
`header.json`, `tp.json` and `clienthello.bin` (a complete flight's) and `profile.json`
of `profiles/<id>`. Finalizers hold the mutex of their own peer only. `WriteFails` is
a failing `MkdirAll`, open or write, whose error ends `finishPeer` or is ignored, as
the code has it at each file; `Kill` ends all finalizers where they are; `Tick` is
the clock. A file's content is the flight it was made of, `Empty` when it was
truncated and not filled, and `Mixed` when two filled it at once. Two peerStates of
one peer can be finished at once too (section QuicCapture), so flights are all
treated as of different ones.

`QuicFiles.cfg`: a complete flight of two datagrams and an incomplete one, named by
`-default-target`, of one target over two seconds, at once or one after the other,
with one failing write and one kill. Two flights are the least that share a
profile; two may also tear it, and for a third that repairs it, as for any number,
there are the theorems of section 4. It checks:

- `PromotedIsCaptured`: whatever lies in a profile, its whole flight lies in its
  capture. It is excepted when two flights of a target came in one second: they
  share the directory, and overwrite each other.
- `PromotionIsNotUndone`: no file a promotion wrote is of a flight that had ended
  before it began.
- `PromotionRepairs`: a promotion that was alone and ended well leaves every file it
  writes its own, whatever kills, failures and promotions at once did before, but
  for files whose error it ignored.

Not a run, but seen in the code and the model: `promoteProfile` removes nothing. A
flight that did not complete is promoted all the same (201-204), and leaves the
`clienthello.bin` and `tp.json` of an earlier one beside its `profile.json`, where
CONTRACT.md:14 calls the file "optional if parse fail". For the same reason initials
of a longer flight stay; `QuicGate` has what readers make of them.

### LabArchive

Source: `tools/cmd/labctl/main.go:91-147`, `archive.go`, `export.go:300-315`, and what
the TCP server does to a profile, `capture/helpers.go:38-77`. One labctl process and
the server's handlers, both file by file:

| Action | Code |
|---|---|
| `Accept`, `Open`, `Fill`, `HandlerFails` | a handler truncates and fills `clienthello.bin`, then `profile.json`; it may fail or be killed at either |
| `Snapshot`, `RunSucceeds`, `RunFails` | `snapshotProfile`, `runCapture` and its error |
| `KeepSlot`, `ChooseID` | `maybeArchiveAfterCapture`, the choice of a directory |
| `CopyHello`, `CopyProfile`, `CopyFails` | `copyFile`, which truncates its target before it copies |
| `Label` | the second write of `profile.json` and that of `slot.json`, whose errors are ignored |
| `Register`, `RegisterFails`, `SlotAfterArchive` | `ensureArchiveTarget`, `writeSlot` |
| `UpdateSlot` | `updateSlotAfterCapture`, with whatever the version probe answers |
| `Crash` | labctl is stopped anywhere, in the middle of a write too |

A hello is identified with its JA4, and the JA4 that `profile.json` and `slot.json`
claim is kept apart from it. A file that was truncated and not filled, or that two
handlers filled at once, is `Broken`: no hello, and JSON that does not parse, which
`readProfileJA4` takes for "". A directory's name is a record: family, major (0 for
`prev`), prefix and suffix. `meta.json` and `README.md`, which no decision reads, are
a failure of the copy only.

`FaultKinds` are what can go wrong, `MaxFaults` how often, and `seen` remembers them:
a failing run, a kill, a failing write of labctl that it reports ("disk") or ignores
("ignored"), a handler that fails or is killed ("server"). Two more are no failures
but orders that nothing excludes: a handler that labctl does not wait for ("late": a
client that aborts after its ClientHello waits for no answer; any other connection
while labctl is elsewhere), and two handlers at once ("overlap"; `tcp_torn` shows the
torn profile they leave). The properties are what the code keeps without them, and
say which they except:

- `NoHelloLostBeforeFaults`, `ArchiveLabels` (the labels of an archived profile are of
  its hello), `NoSpuriousArchive` (nothing is archived while it is still in its slot)
  and `KeepsSlotHistory` (the steps are steps of `SlotHistory`) until the first of
  any kind. After an overlap a torn profile may keep the old JA4 beside a new hello,
  which is then lost, or mislabelled, or archived in vain.
- `RowsComeAfterProfiles`: a row is added only for a directory whose hello and
  `profile.json` are whole and of one hello, whatever runs, copies and rows failed
  and wherever labctl was killed. An ignored failure is excepted (the row is
  appended after a `profile.json` that could not be rewritten, archive.go:238-256),
  and so are torn, late and unfinished profiles of the server, which labctl copies
  as they are.

What is already archived is not safe from faults, and no property says so: a copy to a
directory that has its row can be broken off (archive.go:219-236), and so can the
write of `targets.archive.yaml`.

`LabArchiveKeeps.cfg` has two targets of one family, three hellos with distinct
prefixes, two majors, four runs and two faults of any kinds; four runs let two hellos
of one major be archived and a JA4 come back. By the constraint `Explored` of
`MCLabArchive` only two runs are looked at after the faults that every property
excepts (what was seen stays seen); targets and hellos are symmetric.

`LabArchiveCollision.cfg` shows a way to lose a hello that the docs say is
archived (`NoHelloLost`) with no fault at all: JA4s with the same first 12
characters. Two more are what the faults "run" and "late" stand for: a client run
that fails after the capture server overwrote the profile (main.go:132-136 removes
the snapshot and archives nothing, while docs/VERSIONING.md:10 says the previous slot
is archived), and a handler that writes after labctl compared the old profile with
itself.

### TcpCapture

Source: `capture/main.go:54-168`, `capture/helpers.go:20-86`. A handler reads a
hello and its number (`ReadHello`, with the atomic increment), opens and writes
six files one by one (`Open`, `Write`, `WriteFails`: three of the capture, three
of the profile), and answers (`Answer`, `AnswerFails`). `os.WriteFile` truncates
and fills in two steps, so that two writers of a file may leave one of their
contents or a mixture. `DeadlinePasses` is the connection's 30 s, `Restart` the
container being started again, which kills handlers when the fault is allowed
and sets the sequence number to 0 in any case. A file's content is the
connection that wrote it; the JA4 is what `analyze` makes of its hello.

`TcpCapture.cfg` (two connections of one target, two failing writes, one restart
with or without open connections) checks

- until a restart, after which numbers and so directories are reused:
  `CaptureDirsPrivate`, `AnsweredIsCaptured` and `ProfileHasCapture`;
- while no write failed: `LatestWins`;
- `ProfileIsOneCapture`: connections in turn leave a profile and a capture of one
  of them, although a restart makes the second write over the first's directory;
- `ConnectionsEnd`: every connection is closed, by its deadline if nothing else.

One target and two connections are enough: handlers of different targets share
only the counter, and a handler meets another one file at a time. The theorems
below hold for any number of each. Fairness: a handler's goroutine runs, and an
armed deadline passes; no client has to send anything.

`TcpCaptureTorn.cfg` refutes `ExpectsItsHello`: two connections of one target
with different JA4s that overlap leave `profile.json` and `clienthello.bin` of
two clients for ever, although each handler wrote them in order.

### HelloParser

Source: `capture/main.go:191-309, 420-436`. The parser is a walk over offsets:
each length on the wire is chosen when it is read, the bytes are not kept, and
`access` is the last slice taken. A slice out of bounds would panic in a
goroutine that does not recover and end the server. `HelloParser.cfg` takes, for
each width, the values next to a boundary (nothing, one byte short, exactly,
one byte more, far more): `SlicesInBounds`, `Positions`, and that parsing moves
forward (`Advances`), so that no loop runs for ever. The exhaustive statement is the
theorem below, for any lengths.

### ExportCatalog

Source: `tools/cmd/labctl/export.go:54-315`. `Collect` reads the files of one
target, `Rank` ranks, deduplicates and names in one step (nothing else can see
the program's memory), and publication goes entry by entry: `RemoveEntry` (one
entry of `RemoveAll`), `Cleared`, `CopyFile`, `WriteCatalog`. `Crash` is a kill
or any call that fails; `Capture` is the TCP server overwriting a profile, during
an export too. Lab ids and short names are of one form, a word and a
number, because the code's names are: `openssl-3` may be either.

`ExportCatalog.cfg` enumerates three targets of one or two families over tracks,
kinds, versions and six states of each profile (27,000 initial states) for
`MembersAreOrdered`, `OneNamePerJA4` and `EveryMemberIsNamed`. Three members of a
family are the least in which equal JA4s are not adjacent. By the constraint
`Bounds` of `MCExportCatalog` these are exported once and undisturbed; two more sets
of targets, a latest one and a pinned one, with or without a built-in one, are
exported twice, with a capture at any time and two crashes, which is what
`CatalogIsComplete` and `CatalogIsTrue` are about: catalog.json is removed with the
rest, and written last. What `CatalogIsComplete` excepts is a crash inside
`RemoveAll`, which may take profiles before the catalog. `CatalogIsTrue` needs whole
profiles and no capture during an export, as the JA4 is read long before the hello
is copied.

Not runs, but seen in the code and the model: an archived `openssl-3` with the
JA4 of the latest target is an alias of `openssl` while another profile has
`openssl-3` as its short name (docs/IMPORT.md:49 has aliases resolve duplicates
of unique names); and `betterMember` compares the track before the kind, so that
a built-in target with track latest is not at the tail, where docs/IMPORT.md:26
puts it.

### QuicCatalog and QuicMatch

Sources: `quic/scripts/sync_utls_catalog.py`, `quic_utls_lib.py`,
`match_utls_catalog.py`, `extract_utls_profile.py`, `compare_structural.py`.
`QuicCatalog` has the eleven entries of `CATALOG` as they stand: transport
parameter ids, markers, pinned lengths and counts, emit kind and engine flags,
random slots, auth, aliases and references. Prose, the order of parameters and
the structured skeleton are left out, as no modelled decision reads them.
`QuicMatch` has the operators on them, no state: `Observation` (`load_observation`
over `norm_tp`, `tp_set`, `infer_scid_len`), `Score`, `Classify`, `IsDialable`,
`BuildDraft` over `InferEmit`, and `StructuralMatch`. An id carries how it is
written, as the normalizations of `norm_tp` and of `compare_structural.py`
differ: `norm_tp` knows decimal numbers and `0x` prefixes, but not `0X`.

### QuicGate

Sources: the scripts above, `experiment_stable_random.py`, `annotate_ja4.py`,
`emitters/fromprofile/main.go`, and `promoteProfile` of `quic/capture/main.go`.
A client dials with the SNI of a directory (`Dial`), and its promotion writes one file
after the other (`Write`): the initials, `meta.json`, `header.json`, `tp.json`,
`clienthello.bin` and last `profile.json`. Several may be under way, in one directory
too. A write fails and is ignored (`WriteFails`, for the files whose error
`promoteProfile` drops), ends the promotion or is where the server is killed
(`BreaksOff`), or leaves an initial that two wrote at once (`WritesOver`); the file is
then the old one or `Broken`, and a JSON file that is broken makes a script that reads
it raise. A script starts (`Start`) with the list of directories, then takes one step
per directory (`ExtractDir`, `MatchDir`), three for annotate (`AnnotateInitials`,
`AnnotateReads`, `AnnotateWrites` or `AnnotateBreaksOff`: the initials are parsed, then
`profile.json` is read, then written), one per experiment (`Experiment`), and ends
with its exit status. The initials of an earlier, longer flight stay beside those of a
new one (`WithInitial`); `ja4_from_initials` parses the prefixes of what lies there, and
the last prefix that is a whole ClientHello decides. That datagrams of two
flights are not a whole one is assumed of the parser (`WholeFlights`), and what
the QUIC library sends under an engine's flags of the library (`EngineClient`,
external, as docs and fixtures of the repository describe it). One write is one step
here, and so is a script's reading of one directory; that two finalizers also meet
inside one write is the subject of `QuicFiles`.

`QuicGate.cfg`: eight directories, the required references, the pairs the
experiments insist on and one live directory, each with the client the lab
expects or one that drifted: a marker gone, a datagram less, another length of
the source connection id, another persona, a `profile.json` edited by hand. Two
promotions, one failing write or kill, and one script: the second promotion reaches a
directory between two reads of a script, and all properties compare states after one
script. The action constraint `Explored` of `MCQuicGate` keeps the products of these
apart, and only those: promotions go on during a script, and fail, in a directory of
a pair and in the live one (elsewhere the script comes before or after); promotions
of two directories both come before the script; two promotions of one directory, of
flights of different lengths, meet annotate, the one script that writes, which is
followed until it has left that directory. The theorems have no such limits. Checked:

- `RefsClassify`: the experiments' OK means that *every* reference of a short is
  classified as that short, though only the first one is classified and the rest
  are compared with it. It is excepted where directories moved meanwhile.
- `GatesAgree`: then `match_utls_catalog.py` (without `--strict-all`) passes, if the
  required shorts have references and all it finds can be read.
- `LiveRoundTrip`: what is emitted from an `emit_ready` entry comes back as it, if
  what its promotions left can be read at all.
- `ParityIsIdentity`: directories `compare_structural.py` calls equal are
  classified alike, given equal source connection ids, which it does not compare.
  It compares what it can read while no promotion is under way.
- `DraftsKeepDialable`: a draft of what matches a dialable short keeps its name,
  kind and engine, and describes the flight it was extracted from.
- `JA4IsOfItsFlight`: `expected.ja4` is of the flight of its `profile.json`. Two cases
  are excepted, up to the next `profile.json`, because there the code writes a foreign
  JA4: a promotion while annotate was at the directory, and annotate coming to a
  directory whose promotions broke off, overlapped or were under way (`torn`), where
  new initials lie under an old profile (capture/main.go:213-217, 352).

Observations: the draft of `curl-quiche`, which has no marker, is called `quic-go`
and `emit_ready`, those of `uquic-firefox-116` and `chromium-stale` `quic-go-datagram`
(`infer_emit` looks at markers only). `datagram_count` counts the initials of an
earlier, longer flight too. A reference whose directory lacks `profile.json`
makes the experiments raise, and leave the last report, which may say ok, where
match passes over it.

### QuicPublish

Sources: `write_catalog`, `iter_curated_profiles`, `export_dist.py`, and the
commands `unify` and `export` of `quic/lab.ps1`. Two processes share `catalog/utls/`:
each syncs (`StartSync`, `Unlink` per file, `SyncOpens` and `SyncFills` per file, as
`write_text` truncates and fills, `SyncEnds`) or starts with the load, lists
(`ListCatalog`), loads (`LoadDoc`), and matches (`Match`) or exports (`ClearProfile`,
`ClearCatalog`, `PublishProfile`, `PublishCatalog`, `WriteTemplates`). `Dies` is a kill
or a failing call anywhere, `EditCatalog` another version of `CATALOG`. The drafts
`unify` extracts between sync and match are not read by match and are left out.

`QuicPublish.cfg`: both processes once, one death, a second version that lost an
entry and got another (a million states). `IndexSealsCatalog`: a whole `index.json`
means that exactly its version's entries are there, whatever died, as it is
removed with the rest and written last; it is excepted for two syncs at once and
a death while unlinking. `LoadsOneCatalog`: a process that listed a sealed catalog
and met no sync loaded one version, no older than it synced. No reader checks the
seal: that is what its premise makes visible. `ExportIsComplete`: `catalog.json`
lists what lies beside it, its aliases lead to their entries and hide none, and an
export that ended well agrees with its templates; a death inside `rmtree` is
excepted. The run assumes, as the theorem does, that no two entries declare one alias
(`AliasesAreTheirOwn`); that a clash of aliases in `CATALOG` is noticed is the theorem
`CatalogHasOwnAliases` alone.

### ComposeLab

Sources: `scripts/gen-compose.py`, `labctl/main.go:88-185, 282-347`, the SNI of each
client. `Services` has every service of the template: the SNI it sends, whether it
resolves that name itself or dials `capture`, and whether it ends with 0 after a
failure. `Scan` is the scanner of target files, of which it looks at two lines of a
row, the id (`AtID`) and the status (`AtStatus`); `Aliases` are the names it gives the
capture container. labctl's queue keeps the targets by their position in the files, and
a filter (`-id`, `-group`, `-latest`) is the set of rows it leaves. Actions: `Edit` (a row is appended, by hand or by
labctl's archive), `GenCompose`, `CaptureDies`, `LabctlStarts`, then per target
`RunCaptures`, `RunMisses` or `NoService`, and `Verify`. A client that reaches the server
is answered whether its profile could be written or not (`ServerSaves`,
capture/main.go:110-113). `Scan` takes the layout the target files and labctl's
rows have: the id first, the status on a line of its own, neither of them quoted.

`ComposeLab.cfg` has every compose target of `targets.yaml` and five rows that may
be appended (a new browser with and without its service named, a row without a
status, one whose status is not its neighbour's, an archive row); four steps of
the environment reach every order of an edit, a generation, a start and a death.
`OKIsCaptured`: labctl's OK means that the run wrote the target's own profile,
where `compose.yaml` is of the targets labctl loaded, the client did not break by
itself, and the server could write the profile. Each premise is needed: a forgiving
client whose name is not in a stale `compose.yaml` is reported OK with nothing
captured, and so is any client whose profile the server failed to write, which it
logs only. `OnlyItsOwnProfile`: no run writes another target's profile, whole or in
part. The filters are each target by itself and four of the browsers' group, of which
one stumbles while the next is captured.

## 4. What is proved

The type invariants are proved (`TypeCorrect` in each of the modules of proofs that
has one), for every value of the constants, and not checked by the runs again.

`QuicCaptureProofs` proves, for every set of peers and fragments and every
number of datagrams (the only assumptions: the bound is a natural number and
`DiskMayFail` a Boolean), with failing writes allowed:

1. `TypeCorrect`, by induction.
2. `NeverStranded`: `NoStrandedDatagram` is inductive together with `TypeOK`.
   The timer armed or fired by the *last* datagram is what keeps a gather from
   being stranded, whatever older finalizers do.
3. `KeysAlwaysMatch`: the strengthening the others rest on. It says which
   peerStates are untouched, that the table is injective, and that a finalizer's
   key is the key of its peerState.
4. `TableAlwaysLive`: needs 3, to know that `peers.Delete` removes the gather
   that is being finished.
5. `AlwaysFlights` and `CompletedAtOnce`, with 1 and 3.
6. `ImplementsService`: the initial state maps to the initial state of
   `CaptureService`, `ReadAndLoad` to `Receive`, `FinishPeer` to `Store`, and
   every other step to a stutter, with 1, 3 and 5.

`TcpCaptureProofs` proves, for any connections, targets, JA4s, bounds and
restarts:

1. `TypeCorrect`, by induction.
2. `LatestAlwaysWins`, until a write fails: a handler that answers has written
   its files, and what lies in them since is of a connection that was open then.
3. Until a restart (the number starts again at 0 after one, and directories are
   reused): `DirsStayPrivate`, from the numbers of two handlers being different;
   `AnswersAreCaptured` and `ProfilesHaveCaptures`, which rest on it: no other
   handler can write the directory, and a handler that goes on has written the
   hello.
4. `ProfilesAreOneCapture`, restarts included, where connections came in turn and no
   write failed. At most one handler is at its files then; it finds what it has
   written so far as it left it (`Progress`), and every other profile is of one
   connection, with the capture directory it names (`Turns`), although an earlier
   connection may have had the same number.

It proves of `HelloParser`, the parser of the same server, for every set of lengths:
`PositionsHold` (the positions stay inside the body, the inductive invariant), from it
`NoSliceOutOfBounds`, and `AlwaysAdvances` (a step of the parser moves a position or
its place forward). The parser names its variables and its specification
(`ParserSpec`) so that one module can speak of both.

`ExportCatalogProofs` proves, for any sets of targets, whatever their profiles hold and
whatever happens to them:

1. `TypeCorrect` and `RankingIsDetermined`: `betterMember` is a strict total order of
   the members. It needs that ids are distinct, which is an assumption on
   `targets.yaml` and the archive rows (`ExportAssumption`), and that a target is
   collected once (in `TypeOK`).
2. `JA4sHaveOneName` and `MembersAreNamed`. A member's place in the sorted list is the
   number of members ranked before it (`Places`), so the list exists and is one; the
   names count the JA4s before and tell the published ones apart (`NamesAreUnique`),
   and the first of a JA4 is the one its other members lead to (`FirstIsNamed`).
   `Ranks` keeps that from the ranking to the end of the export.
3. `CatalogsAreComplete` and `CatalogsAreTrue`, after crashes, captures and exports that
   fail. `Publication`: while files are copied there is no catalog, and each file that
   is no longer to do is there. `Faithful`: until a capture comes in between, a
   member's JA4 is that of the hello in its profile and of the copy. The second is
   proved for profiles whose JA4s are those of their hello, where they state any
   (`ProfilesAreWhole`, which `MCExportCatalog` evaluates on its states).

`LabArchiveProofs` proves, for any targets, families, hellos, majors, numbers of
runs and faults:

1. `TypeCorrect`, and `RowsAlwaysComeAfterProfiles`, after failed and killed runs, copies
   and rows too: while labctl is on its way to a row, the directory it chose holds the
   snapshot's hello and, once copied, its `profile.json`; a copy that is broken off never
   gets to the row.
2. Before the first fault of any kind, overlapping and late handlers included:
   `ArchiveIsLabelled`, from an invariant on what labctl holds in memory at each place
   and on the one handler that may be at work, which labctl's run waits for (a profile
   is whole whenever labctl reads it), and `NothingIsArchivedInVain`.
3. Under `DistinctPrefixes`, that no two JA4s share their first 12 characters:
   `ImplementsSlotHistory` (each step maps to a step of `SlotHistory` or a stutter)
   and `NoReportedHelloIsLost`. Their invariant says that a directory's prefix is
   its hello's and that the directory `FreeID` picks is empty or has the same
   JA4. The assumption cannot be dropped: `archive_collision` is the
   counterexample.

`QuicGateProofs` proves, for the catalog of the repository and any directories,
clients, live shorts, extra pairs and bounds:

1. `OrderDoesNotMatter`: no two entries of `CATALOG` have one id set, an
   observation can match one entry at most, and so whatever order the catalog is
   read in, `classify` says the same.
2. `PassedReferencesClassify`: an OK of the experiments says that the first
   reference is classified as its short and that every other has the same
   ids, markers and pinned lengths, so it has the same only candidate. The
   invariant keeps what each experiment has found true of the directories while
   none of them moves.
3. `GatesAlwaysAgree`, from 2: each required short is in match's rows.
4. `AnnotatedJA4IsOfItsFlight`, for flights of any lengths and promotions that fail,
   are killed or overlap at any file. `PromotionsInv`: a promotion that is alone in its
   directory has written the first initial and nobody else did since; so, unless the
   directory is torn, its first initial is of the flight of its `profile.json`
   (`FirstInitial`), and so is a whole flight among the initials, as every whole one
   begins with the first. `HeldInv`: annotate's three steps hold one flight unless a
   promotion writes between them. It assumes that a flight has a datagram
   (`ClientAssumption`).
5. `EqualStructureIsOneIdentity`: what `compare_structural.py` keeps of the ids as they
   are written determines what `norm_tp` makes of them, and an id set has one
   candidate at most, so the five points for a reference cannot change the short.
6. `EmittedComesBack`: fromprofile refuses all entries but three, whose engines send
   exactly the ids their entries list (`EnginesSendIdentities`), and whatever can be read
   in a live directory, will be written there by a promotion under way, or is held by
   annotate to be written back, is of that engine (`LiveInv`). A missing `header.json`
   leaves the length of the source connection id unknown, which rejects no entry.
7. `DraftsAlwaysKeepDialable`: every draft was built of an observation (`DraftInv`), and
   for the markers of a dialable entry `infer_emit` says what that entry says.

`QuicPublishProofs` proves, for any versions of `CATALOG`, any number of edits,
starts and deaths, and any interleaving of the two processes:

1. `IndexAlwaysSeals`. A whole index says nothing by itself of the other files, so
   the invariant follows the sync that writes it (`DiskInv`): until two syncs
   overlap or one dies unlinking, a sync is alone and has unlinked and written
   exactly the files its counter says, and when none runs the files are sealed.
2. `OneCatalogIsLoaded`, on top of 1: what a process that listed a sealed catalog
   has loaded so far is what the files still hold (`PureInv`), as a start of a sync
   by the other process takes its `pure` away.
3. `ExportsAreComplete`, for versions in which no two entries declare one alias and
   none a short (`AliasesAreTheirOwn`, an `ASSUME` of `MCQuicPublish` too). `ExportInv`
   says that only the export writes profiles and templates, which of the profiles are
   there while it does, and that a catalog lies beside them unless it is being, or was
   half, removed.
4. `CatalogHasOwnAliases`: versions made of entries of the repository's `CATALOG`, all
   or some of them, meet the premise of 3.

`PublishAssumption` says that versions and the two orders, of the file names and of the
shorts, are finite lists, that each order lists every short once, and that `index` is
not a short.

`QuicFilesProofs` proves, for any flights, targets, sizes, bounds and faults:

1. `PromotedAlwaysCaptured`. `CaptureInv`: a finalizer of an unshared directory has
   captured exactly the files its place says, the file it holds open is empty, and
   nothing of a flight is promoted before all are captured.
2. `PromotionStays` and `LastPromotionRepairs`, from `ProfileInv`: of the files a
   finalizer has promoted so far, none is of a flight before it, and all are its own
   while it is alone; another finalizer that touches one makes it not alone and was
   not before it.

`ComposeLabProofs` proves, for any targets, edits, filters and number of steps:

1. `ScannerFindsActive`: what the scanner returns, which its recursive function says
   line after line, is the set of the ids of the active rows. Both the function's
   existence and its value are shown by their least counterexample
   (`LeastPosition`), as the induction theorems of the library are out of reach.
2. `OKAlwaysMeansCaptured`. `OKIsCaptured` alone is not inductive: a forgiving client
   that finds no name is reported OK. `HasName` keeps that a target which labctl still
   has to run has its name, from 1 when labctl starts with a `compose.yaml` of its own
   targets, whatever edits and generations come later, as a running container keeps
   the names it was made with. A target that is reachable and was not captured
   stumbled, or the server failed to write its profile (`unwritten`).
3. `ProfilesAreTheirTargets`, from the table of services (`ServicesSendTheirName`).

2 and 3 are proved under `TargetsOwnServices`: a compose target runs in the service of
its own name, and a built-in one sends its own id. It cannot be dropped (a row that
names the service of another target writes that one's profile and is reported OK);
every row of `targets.yaml` fulfils it, and `MCComposeLab` assumes it of its instance.

The assumptions of all theorems are the named `ASSUME`s of the modules, which the
runs evaluate on their instances, and `DistinctPrefixes`, `ProfilesAreWhole`,
`AliasesAreTheirOwn` and `TargetsOwnServices` where it is said.

Model-checked only:

- liveness (`EveryDatagramIsStored`, `EntriesAreRemoved`, `ConnectionsEnd`), which the
  prover does not reach;
- the refutations, each a behaviour that TLC finds.

## 5. What is not modelled

- The hashing and the string of JA3 and JA4: data to every property here. The
  sort and the truncations of `buildJA4` are planned.
- `tools/cmd/verify` beyond its result, and the emitters beyond `fromprofile`'s
  dispatch: clients that dial once with a third-party stack.
- `compare_profiles.py`, which prints a table; `--check-only` of the sync, which
  asserts constants.
- What the JSON files of a QUIC capture say beyond the flight they were made of, and
  `-promote=false`, which no command of the repository uses.
- Files that repeat another (`README.md` of a profile, `NAMES.md`, `short.json`),
  certificates, the shell scripts beyond the order in which they start
  programs, and the data under `profiles/` and `fixtures/`.
