----------------------------- MODULE LabArchive -----------------------------
(***************************************************************************)
(* `labctl capture` for the targets of track "latest": the profile of a    *)
(* target is snapshot, a client is run and the capture server overwrites   *)
(* the profile, then the snapshot is archived if the JA4 changed           *)
(* (tools/cmd/labctl/main.go:108-144 and archive.go).                      *)
(*                                                                         *)
(* One labctl process handles the targets one after the other.  The        *)
(* capture server's handlers write the same profiles on their own, file by *)
(* file: each write empties the file and then fills it.                    *)
(*                                                                         *)
(* A ClientHello is identified with its JA4; the JA4 a file CLAIMS is kept *)
(* apart from the hello that lies beside it.  None stands for a missing    *)
(* file and for the empty string, Broken for what is in a file that was    *)
(* emptied and not filled, or that two handlers filled: no hello, no JSON. *)
(***************************************************************************)
EXTENDS Integers, FiniteSets

CONSTANTS Targets,     \* the targets with track: latest
          Family,      \* their families
          Hellos,      \* ClientHellos, one per JA4
          Prefix,      \* the first 12 characters of a JA4
          Majors,      \* software majors a version probe can find
          MaxRuns,     \* bound: client runs started by labctl
          Faults,      \* the kinds of faults that may occur
          MaxFaults,   \* bound: faults in a behaviour
          None, Broken

\* "run": a client run ends with an error.  "crash": labctl is killed.  "disk":
\* a write of labctl fails and it says so.  "ignored": it fails and labctl goes
\* on.  "server": a handler fails or is killed before its last write.  "late":
\* a handler is at work that labctl does not wait for.  "overlap": two handlers
\* are at work at once; nothing failed, but nothing orders their writes either.
FaultKinds == {"run", "crash", "disk", "ignored", "server", "late", "overlap"}

ASSUME ArchiveAssumption ==
  /\ None \notin Hellos /\ Broken \notin Hellos \cup {None}
  /\ \A h \in Hellos : Prefix[h] # None
  /\ Majors \subseteq Nat \ {0}
  /\ MaxRuns \in Nat /\ MaxFaults \in Nat
  /\ Faults \subseteq FaultKinds

Prefixes == {Prefix[h] : h \in Hellos}

\* The id of an archived profile: <family>-<major>, or <family>-prev-<prefix>
\* when the major is unknown (0), each with an optional -<prefix> after it.
ArchIDs == [family : {Family[t] : t \in Targets}, major : Majors \cup {0},
            prev : Prefixes \cup {None}, suffix : Prefixes \cup {None}]

\* slot.json; one that was emptied reads as one that is missing.
Slot == [ja4 : Hellos \cup {None}, major : Majors \cup {0}]
Contents == Hellos \cup {None, Broken}
Profile == [hello : Contents, ja4 : Contents, slot : Slot]

\* A handler of the capture server: the profile and the hello it writes, and
\* the file it is at.
Handler == [target : Targets, hello : Hellos, file : {"hello", "ja4"}, open : BOOLEAN]

NoSlot == [ja4 |-> None, major |-> 0]
NoProfile == [hello |-> None, ja4 |-> None, slot |-> NoSlot]

VARIABLES
  profile,    \* profiles/<target>: clienthello.bin, profile.json, slot.json
  serving,    \* the capture server's handlers
  archive,    \* profiles/<archID>
  rows,       \* the ids in targets.archive.yaml
  pc,         \* where labctl is
  target,     \* the target labctl is at
  before,     \* the snapshot, NoProfile for none
  archID,     \* where the snapshot goes
  runs,       \* client runs so far
  faults,     \* faults so far
  seen,       \* history: their kinds
  reported    \* history: <<target, hello>> pairs labctl reported as captured

labctl == <<archive, rows, target, before, archID, runs, reported>>
vars == <<profile, serving, pc, labctl, faults, seen>>

NoID == [family |-> None, major |-> 0, prev |-> None, suffix |-> None]

Places == {"idle", "run", "compare", "hello", "profile", "label", "register", "latest", "update"}
Copying == {"hello", "profile", "label"}

Init ==
  /\ profile = [t \in Targets |-> NoProfile]
  /\ archive = [id \in ArchIDs |-> NoProfile]
  /\ serving = {} /\ rows = {} /\ pc = "idle" /\ target \in Targets
  /\ before = NoProfile /\ archID = NoID
  /\ runs = 0 /\ faults = 0 /\ seen = {} /\ reported = {}

\* One fault, of the kinds given; none when there are none.
Fault(kinds) ==
  IF kinds = {} THEN UNCHANGED <<faults, seen>>
  ELSE /\ kinds \subseteq Faults /\ faults < MaxFaults
       /\ faults' = faults + 1 /\ seen' = seen \cup kinds

NoFault == UNCHANGED <<faults, seen>>

\* The handlers labctl leaves at work when it stops waiting for the run.
LeftBehind == IF serving = {} THEN {} ELSE {"late"}

\* readProfileJA4: "" for a file that does not parse.
Claimed(p) == IF p.ja4 = Broken THEN None ELSE p.ja4

\* slot.json's JA4, else profile.json's.
SlotJA4(p) == IF p.slot.ja4 # None THEN p.slot.ja4 ELSE Claimed(p)

-----------------------------------------------------------------------------
(* The capture server                                                      *)

\* A client connects with the SNI of t: in labctl's run, as often as it likes,
\* but also while another connection is served and when labctl is elsewhere.
Accept(t, h) ==
  /\ LET c == [target |-> t, hello |-> h, file |-> "hello", open |-> FALSE] IN
       c \notin serving /\ serving' = serving \cup {c}
  /\ Fault((IF serving = {} THEN {} ELSE {"overlap"}) \cup
           (IF pc = "run" /\ t = target THEN {} ELSE {"late"}))
  /\ UNCHANGED <<profile, pc, labctl>>

SetFile(p, file, content) ==
  IF file = "hello" THEN [p EXCEPT !.hello = content] ELSE [p EXCEPT !.ja4 = content]

\* os.WriteFile empties the file ...
Open(c) ==
  /\ ~c.open
  /\ profile' = [profile EXCEPT ![c.target] = SetFile(profile[c.target], c.file, Broken)]
  /\ serving' = (serving \ {c}) \cup {[c EXCEPT !.open = TRUE]}
  /\ NoFault /\ UNCHANGED <<pc, labctl>>

\* ... and fills it, perhaps over or under what another handler fills in.
\* After profile.json the client is answered.
Filled(c) ==
  {c.hello} \cup (IF \E d \in serving \ {c} : d.target = c.target THEN {Broken} ELSE {})
           \cup (IF SetFile(profile[c.target], c.file, Broken) # profile[c.target] THEN {Broken} ELSE {})

Fill(c) ==
  /\ c.open
  /\ \E content \in Filled(c) :
       profile' = [profile EXCEPT ![c.target] = SetFile(profile[c.target], c.file, content)]
  /\ serving' = (serving \ {c}) \cup
       (IF c.file = "hello" THEN {[c EXCEPT !.file = "ja4", !.open = FALSE]} ELSE {})
  /\ NoFault /\ UNCHANGED <<pc, labctl>>

\* A write of the profile fails, which is logged and the client answered all
\* the same, or the server is stopped: the later files are not written.
HandlerFails(c) ==
  /\ Fault({"server"})
  /\ serving' = serving \ {c}
  /\ UNCHANGED <<profile, pc, labctl>>

-----------------------------------------------------------------------------
(* Running a client                                                        *)

\* snapshotProfile: "" when there is no clienthello.bin.
Snapshot(t) ==
  /\ pc = "idle" /\ runs < MaxRuns
  /\ target' = t
  /\ before' = IF profile[t].hello = None THEN NoProfile ELSE profile[t]
  /\ runs' = runs + 1
  /\ pc' = "run"
  /\ NoFault /\ UNCHANGED <<profile, serving, archive, rows, archID, reported>>

\* runCapture returns nil: also for a client that never connected, as the
\* client scripts end in "|| true".  A client that waits for its answer exits
\* after its files were written; one that aborts after its hello does not.
RunSucceeds ==
  /\ pc = "run" /\ Fault(LeftBehind)
  /\ pc' = "compare"
  /\ UNCHANGED <<profile, serving, labctl>>

\* runCapture returns an error, which may come after the capture server wrote
\* the profile: the snapshot is removed.
RunFails ==
  /\ pc = "run" /\ Fault({"run"} \cup LeftBehind)
  /\ before' = NoProfile
  /\ pc' = "idle"
  /\ UNCHANGED <<profile, serving, archive, rows, target, archID, runs, reported>>

-----------------------------------------------------------------------------
(* maybeArchiveAfterCapture                                                *)

BaseID(p) ==
  [family |-> Family[target], major |-> p.slot.major,
   prev   |-> IF p.slot.major = 0 THEN Prefix[SlotJA4(p)] ELSE None,
   suffix |-> None]

\* Mutated form: the suffix is never used.
FreeIDUnsuffixed(id, ja4) == id

\* archiveSnapshot's choice of a directory: the base id when it has no hello
\* or has this JA4, else the base id with the JA4's prefix -- used or not.
FreeID(id, ja4) ==
  IF archive[id].hello = None \/ Claimed(archive[id]) = ja4
  THEN id ELSE [id EXCEPT !.suffix = Prefix[ja4]]

\* Mutated form: the comparison looks at the two slot.json files.
ChangedBySlot(old, new) ==
  SlotJA4(old) # None /\ SlotJA4(new) # None /\ SlotJA4(old) # SlotJA4(new)

Changed(old, new) ==
  SlotJA4(old) # None /\ Claimed(new) # None /\ SlotJA4(old) # Claimed(new)

\* writeSlot for the target labctl is at; its error is ignored.
WriteSlot(slot) ==
  \/ profile' = [profile EXCEPT ![target].slot = slot] /\ NoFault
  \/ profile' \in {profile, [profile EXCEPT ![target].slot = NoSlot]} /\ Fault({"ignored"})

\* Same JA4, or nothing to compare with: only slot.json is rewritten.
KeepSlot ==
  /\ pc = "compare" /\ ~Changed(before, profile[target])
  /\ LET p == profile[target]
         major == IF p.slot.major = 0 THEN before.slot.major ELSE p.slot.major
     IN  IF before = NoProfile THEN UNCHANGED profile /\ NoFault
         ELSE WriteSlot([ja4 |-> Claimed(p), major |-> major])
  /\ pc' = "update"
  /\ UNCHANGED <<serving, labctl>>

\* The JA4 changed: copy the snapshot, unless its JA4 is archived under that id.
ChooseID ==
  /\ pc = "compare" /\ Changed(before, profile[target])
  /\ LET id == BaseID(before) IN
       /\ archID' = FreeID(id, SlotJA4(before))
       /\ pc' = IF archive[id].hello # None /\ Claimed(archive[id]) = SlotJA4(before)
                THEN "register" ELSE "hello"
  /\ NoFault /\ UNCHANGED <<profile, serving, archive, rows, target, before, runs, reported>>

\* Mutated form: the files are copied from the slot instead of the snapshot.
CopyOfSlot ==
  [hello |-> profile[target].hello, ja4 |-> profile[target].ja4,
   slot  |-> [ja4 |-> SlotJA4(before), major |-> before.slot.major]]

\* clienthello.bin and profile.json of the snapshot, if there is one, and a
\* slot.json that claims the JA4 of the old slot.
CopyOfSnapshot ==
  [hello |-> before.hello,
   ja4   |-> IF before.ja4 = None THEN archive[archID].ja4 ELSE before.ja4,
   slot  |-> [ja4 |-> SlotJA4(before), major |-> before.slot.major]]

\* What a directory holds when a write in it is broken off: copyFile empties
\* its target before it copies; profile.json is written once more for its id.
BrokenOff ==
  LET p == archive[archID]
      hello == {p.hello} \cup (IF pc = "hello" THEN {Broken} ELSE {})
      ja4 == {p.ja4} \cup (IF pc = "profile" THEN {Broken, CopyOfSnapshot.ja4} ELSE {})
                    \cup (IF pc = "label" /\ Claimed(p) # None THEN {Broken} ELSE {})
      slot == {p.slot} \cup (IF pc = "label" THEN {NoSlot, CopyOfSnapshot.slot} ELSE {})
  IN  {[archive EXCEPT ![archID] = q] : q \in [hello : hello, ja4 : ja4, slot : slot]}

CopyHello ==
  /\ pc = "hello" /\ pc' = "profile"
  /\ archive' = [archive EXCEPT ![archID].hello = CopyOfSnapshot.hello]
  /\ NoFault /\ UNCHANGED <<profile, serving, rows, target, before, archID, runs, reported>>

CopyProfile ==
  /\ pc = "profile" /\ pc' = "label"
  /\ archive' = [archive EXCEPT ![archID].ja4 = CopyOfSnapshot.ja4]
  /\ NoFault /\ UNCHANGED <<profile, serving, rows, target, before, archID, runs, reported>>

\* Mutated form: the error of a copy is ignored.
CopyFailsIgnored ==
  /\ pc \in {"hello", "profile"} /\ pc' = "register"
  /\ archive' \in BrokenOff /\ Fault({"disk"})
  /\ UNCHANGED <<profile, serving, rows, target, before, archID, runs, reported>>

\* A copy fails, of one of the two or of meta.json or README.md after them: a
\* warning, no row, and the directory is left as it is.
CopyFails ==
  /\ pc \in {"hello", "profile"} /\ pc' = "update"
  /\ archive' \in BrokenOff /\ Fault({"disk"})
  /\ UNCHANGED <<profile, serving, rows, target, before, archID, runs, reported>>

\* profile.json gets its new id, and slot.json is written; errors are ignored.
Label ==
  /\ pc = "label" /\ pc' = "register"
  /\ \/ archive' = [archive EXCEPT ![archID].slot = CopyOfSnapshot.slot] /\ NoFault
     \/ archive' \in BrokenOff /\ Fault({"ignored"})
  /\ UNCHANGED <<profile, serving, rows, target, before, archID, runs, reported>>

\* ensureArchiveTarget: the row, if there is none.
Register ==
  /\ pc = "register" /\ pc' = "latest"
  /\ rows' = rows \cup {archID}
  /\ NoFault /\ UNCHANGED <<profile, serving, archive, target, before, archID, runs, reported>>

\* The write of targets.archive.yaml is broken off: the file was emptied, and
\* holds what was written by then.
RowsBrokenOff == IF archID \in rows THEN {rows} ELSE SUBSET rows

RegisterFails ==
  /\ pc = "register" /\ pc' = "update"
  /\ rows' \in RowsBrokenOff /\ Fault({"disk"})
  /\ UNCHANGED <<profile, serving, archive, target, before, archID, runs, reported>>

\* After the row, the latest slot's slot.json.
SlotAfterArchive ==
  /\ pc = "latest" /\ pc' = "update"
  /\ WriteSlot([profile[target].slot EXCEPT !.ja4 = Claimed(profile[target])])
  /\ UNCHANGED <<serving, labctl>>

-----------------------------------------------------------------------------
\* updateSlotAfterCapture: the JA4 of profile.json, and the software's major
\* when the probe finds one (0: it does not).  labctl prints OK.
UpdateSlot(probe) ==
  /\ pc = "update" /\ pc' = "idle"
  /\ LET p == profile[target] IN
       /\ IF p.hello = None THEN UNCHANGED profile /\ NoFault
          ELSE WriteSlot([ja4 |-> Claimed(p), major |-> IF probe = 0 THEN p.slot.major ELSE probe])
       /\ reported' = IF p.hello \in Hellos THEN reported \cup {<<target, p.hello>>} ELSE reported
  /\ before' = NoProfile
  /\ UNCHANGED <<serving, archive, rows, target, archID, runs>>

\* The next file labctl writes is the slot.json of its target.
WritingSlot ==
  \/ pc = "compare" /\ before # NoProfile /\ ~Changed(before, profile[target])
  \/ pc = "latest"
  \/ pc = "update" /\ profile[target].hello # None

\* labctl is killed, perhaps in the middle of a write; its snapshot is not
\* looked at by the next one.
Crash ==
  /\ pc # "idle" /\ pc' = "idle" /\ Fault({"crash"} \cup LeftBehind)
  /\ archive' \in (IF pc \in Copying THEN BrokenOff ELSE {archive})
  /\ rows' \in (IF pc = "register" THEN RowsBrokenOff ELSE {rows})
  /\ profile' \in {profile} \cup
       (IF WritingSlot THEN {[profile EXCEPT ![target].slot = NoSlot]} ELSE {})
  /\ before' = NoProfile
  /\ UNCHANGED <<serving, target, archID, runs, reported>>

Next ==
  \/ \E t \in Targets : Snapshot(t) \/ \E h \in Hellos : Accept(t, h)
  \/ \E c \in serving : Open(c) \/ Fill(c) \/ HandlerFails(c)
  \/ RunSucceeds \/ RunFails
  \/ KeepSlot \/ ChooseID \/ CopyHello \/ CopyProfile \/ CopyFails \/ Label
  \/ Register \/ RegisterFails \/ SlotAfterArchive
  \/ \E m \in Majors \cup {0} : UpdateSlot(m)
  \/ Crash

Spec == Init /\ [][Next]_vars

-----------------------------------------------------------------------------
(* Properties                                                              *)

\* Every variable has its type.
TypeOK ==
  /\ profile \in [Targets -> Profile] /\ serving \subseteq Handler
  /\ archive \in [ArchIDs -> Profile]
  /\ rows \subseteq ArchIDs
  /\ pc \in Places
  /\ target \in Targets /\ before \in Profile /\ archID \in ArchIDs \cup {NoID}
  /\ runs \in 0..MaxRuns /\ faults \in 0..MaxFaults /\ seen \subseteq Faults
  /\ reported \subseteq Targets \X Hellos

\* A hello labctl reported is still in its slot, or in a directory that has a
\* row in targets.archive.yaml (archive.go:166-307, docs/EXTENDING.md).
NoHelloLost == pc = "idle" => \A th \in reported :
  \/ profile[th[1]].hello = th[2]
  \/ \E id \in rows : archive[id].hello = th[2]

\* Nothing labctl reported is lost as long as no run and no write of labctl's or
\* the capture server's fails, labctl is not killed, and the server writes one
\* connection's files at a time and only while labctl waits for the client
\* (archive.go:166-307).
NoHelloLostBeforeFaults == seen = {} => NoHelloLost

\* With the same exceptions -- any fault, two connections at once, a connection
\* labctl does not wait for -- the labels of an archived profile, which are
\* profile.json, slot.json and the id, are those of the hello it holds, when it
\* is not being written (archive.go:197-250).
ArchiveLabels == seen = {} => \A id \in ArchIDs :
  archive[id].hello # None /\ ~(pc \in {"profile", "label"} /\ id = archID) =>
    LET p == archive[id] IN
    /\ p.ja4 = p.hello /\ p.slot.ja4 = p.hello /\ p.slot.major = id.major
    /\ id.prev \in {None, Prefix[p.hello]} /\ id.suffix \in {None, Prefix[p.hello]}

\* A profile is archived only because its hello left the slot: no archive, and
\* so no short name, while the JA4 is unchanged, as long as nothing has failed
\* and the server served one connection at a time, within labctl's runs; two
\* connections at once can tear the profile, and a torn one is archived in vain
\* (archive.go:181-192).
NoSpuriousArchive ==
  [][seen = {} => \A id \in ArchIDs : archive'[id] # archive[id] => archive'[id].hello # profile[target].hello]_vars

\* What a row should lead to: a hello, and a profile.json with its JA4.
Whole(p) == p.hello \in Hellos /\ p.ja4 = p.hello

\* A row is added to targets.archive.yaml only once its directory is whole:
\* also when runs or writes fail and labctl is killed at any step, now or
\* before.  Excepted are a write whose failure labctl ignores, and profiles the
\* capture server left torn.  That a row's directory stays whole is not said:
\* a later copy into it may be broken off (archive.go:211-256).
RowsComeAfterProfiles ==
  [][seen' \cap {"ignored", "server", "late", "overlap"} = {} =>
       \A id \in rows' \ rows : Whole(archive'[id])]_vars

\* The slot implements SlotHistory: while a target is refreshed its slot counts
\* as what the snapshot holds, and an archived profile counts once it has a row.
Current == [t \in Targets |->
  IF pc # "idle" /\ target = t THEN before.hello ELSE profile[t].hello]

History == INSTANCE SlotHistory WITH
  current <- Current, archived <- {archive[id].hello : id \in rows}

\* Until the first fault, two connections at once and connections labctl does
\* not wait for included, no hello is replaced before it is archived, and none
\* leaves the archive: the steps are those of SlotHistory (archive.go:166-307).
KeepsSlotHistory == History!Init /\ [][seen' = {} => [History!Next]_(History!vars)]_vars
=============================================================================
