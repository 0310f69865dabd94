----------------------------- MODULE QuicPublish -----------------------------
(***************************************************************************)
(* catalog/utls/ on disk, and what is made of it.  sync_utls_catalog.py     *)
(* rewrites it from CATALOG, match_utls_catalog.py and export_dist.py load   *)
(* it, and the export is published to dist/export.                          *)
(*                                                                          *)
(* Two processes share the directory without a lock: "unify" (sync, then    *)
(* match) and "export" (sync, then export).  Each of them may leave out the *)
(* sync, and may be killed, or fail to write, at any step.  CATALOG is      *)
(* edited meanwhile.                                                        *)
(*                                                                          *)
(* The content of a file is the version of CATALOG it comes from: Gone when *)
(* there is no file, Torn when it is not all there.                         *)
(***************************************************************************)
EXTENDS QuicMatch

CONSTANTS Catalogs,    \* the versions of CATALOG, sequences of entries
          ReadOrder,   \* the shorts in the order of their file names
          ShortOrder,  \* the shorts in their own order
          Lab,         \* the observations in profiles/
          MaxStarts,   \* bound: processes started
          MaxDeaths    \* bound: processes killed, or failing to write

Gone == 0
Torn == -1
Index == "index"

Versions == 1 .. Len(Catalogs)
DocsOf(v) == {Catalogs[v][i] : i \in DOMAIN Catalogs[v]}
ShortsOf(v) == {d.short : d \in DocsOf(v)}
Shorts == UNION {ShortsOf(v) : v \in Versions}
Doc(v, short) == CHOOSE d \in DocsOf(v) : d.short = short
Names == Shorts \cup {Index}

ASSUME PublishAssumption ==
  /\ MaxStarts \in Nat /\ MaxDeaths \in Nat /\ Len(Catalogs) \in Nat \ {0}
  /\ \A v \in Versions : Len(Catalogs[v]) \in Nat /\ DOMAIN Catalogs[v] = 1 .. Len(Catalogs[v])
  /\ Index \notin Shorts
  /\ \A order \in {ReadOrder, ShortOrder} :
       /\ Shorts = {order[i] : i \in DOMAIN order}
       /\ Len(order) \in Nat /\ DOMAIN order = 1 .. Len(order)
       /\ \A i, j \in DOMAIN order : order[i] = order[j] => i = j

Procs == {"unify", "export"}

VARIABLES
  source,     \* the version of CATALOG in the script
  files,      \* catalog/utls/<short>.json and index.json
  pc,         \* per process: "idle", "unlink", "write", "fill", "list", "load",
              \* "match", "clear", "profiles", "catalog" or "templates"
  mine,       \* per process: the version of CATALOG it synced, Gone if it did not
  todo,       \* per process: the names still to unlink or to load, shorts to publish
  done,       \* per process: files of the sync written
  docs,       \* per process: the entries it loaded
  profiles,   \* dist/export/profiles/<short>/profile.json
  catalog,    \* dist/export/catalog.json: the entries it lists
  templates,  \* catalog/emit_templates.json: the entries in it
  outcome,    \* per process: "none", "ok", "fail", "raise" or "dead"
  mixed,      \* history: the last sync was not alone, or died unlinking
  pure,       \* history, per process: it loads what a sync left, alone
  cut,        \* history: the last export died clearing the one before
  starts, deaths

dir == <<source, files, mixed>>
syncVars == <<dir, mine, done>>
outVars == <<profiles, catalog, templates, cut>>
bounds == <<starts, deaths>>
vars == <<syncVars, outVars, bounds, pc, todo, docs, outcome, pure>>

NoDocs == [s \in Shorts |-> Gone]
Whole(v) == [s \in Shorts |-> IF s \in ShortsOf(v) THEN v ELSE Gone]
Present(f) == {n \in DOMAIN f : f[n] # Gone}

\* A repository with its catalog, before the first export or after one.
Init ==
  /\ source = 1
  /\ files = [n \in Names |-> IF n = Index THEN 1 ELSE Whole(1)[n]]
  /\ pc = [p \in Procs |-> "idle"] /\ outcome = [p \in Procs |-> "none"]
  /\ mine = [p \in Procs |-> Gone] /\ todo = [p \in Procs |-> {}] /\ done = [p \in Procs |-> 0]
  /\ docs = [p \in Procs |-> NoDocs] /\ pure = [p \in Procs |-> FALSE]
  /\ profiles \in {NoDocs, Whole(1)} /\ catalog = profiles /\ templates = profiles
  /\ mixed = FALSE /\ cut = FALSE /\ starts = 0 /\ deaths = 0

Go(p, where) == pc' = [pc EXCEPT ![p] = where]

\* What a process had in memory is gone with it; kept here if it ended well.
Ends(p, how) ==
  /\ Go(p, "idle") /\ outcome' = [outcome EXCEPT ![p] = how]
  /\ todo' = [todo EXCEPT ![p] = {}] /\ done' = [done EXCEPT ![p] = 0]
  /\ IF how = "ok" THEN UNCHANGED <<docs, mine, pure>>
     ELSE /\ docs' = [docs EXCEPT ![p] = NoDocs] /\ mine' = [mine EXCEPT ![p] = Gone]
          /\ pure' = [pure EXCEPT ![p] = FALSE]
Syncing == {p \in Procs : pc[p] \in {"unlink", "write", "fill"}}
Starts(p) == pc[p] = "idle" /\ starts < MaxStarts /\ starts' = starts + 1

-----------------------------------------------------------------------------
(* write_catalog                                                           *)

\* Mutated form: only the files that will be rewritten are looked for.
FoundOwn(v) == {n \in Present(files) : n = Index \/ n \in ShortsOf(v)}

\* OUT.glob("*.json"); catalog/utls/_drafts is not looked into.
Found(v) == Present(files)

\* The names found are unlinked one by one, in the directory's order.
StartSync(p) ==
  /\ Starts(p) /\ Go(p, "unlink")
  /\ mine' = [mine EXCEPT ![p] = source]
  /\ todo' = [todo EXCEPT ![p] = Found(source)]
  /\ outcome' = [outcome EXCEPT ![p] = "none"]
  /\ mixed' = (Syncing # {}) /\ pure' = [q \in Procs |-> FALSE]
  /\ UNCHANGED <<source, files, done, docs, outVars, deaths>>

\* unlink raises for a file another sync has removed.
Unlink(p) ==
  /\ pc[p] = "unlink"
  /\ \E n \in todo[p] :
       IF files[n] = Gone
       THEN Ends(p, "raise") /\ UNCHANGED files
       ELSE /\ files' = [files EXCEPT ![n] = Gone]
            /\ todo' = [todo EXCEPT ![p] = @ \ {n}]
            /\ UNCHANGED <<pc, outcome, mine, done, docs, pure>>
  /\ UNCHANGED <<source, mixed, outVars, bounds>>

AllUnlinked(p) ==
  /\ pc[p] = "unlink" /\ todo[p] = {}
  /\ Go(p, "write")
  /\ UNCHANGED <<syncVars, todo, docs, outVars, outcome, pure, bounds>>

\* Mutated form: index.json is written first.
SyncTargetIndexFirst(p) ==
  IF done[p] = 0 THEN Index ELSE Catalogs[mine[p]][done[p]].short

\* The entries in the order of CATALOG, then index.json.
SyncTarget(p) ==
  IF done[p] < Len(Catalogs[mine[p]]) THEN Catalogs[mine[p]][done[p] + 1].short ELSE Index

\* write_json truncates the file ...
SyncOpens(p) ==
  /\ pc[p] = "write" /\ done[p] <= Len(Catalogs[mine[p]])
  /\ files' = [files EXCEPT ![SyncTarget(p)] = Torn]
  /\ Go(p, "fill")
  /\ UNCHANGED <<source, mine, done, mixed, todo, docs, outVars, outcome, pure, bounds>>

\* ... and fills it.  Another sync may have replaced the file, or left it longer.
SyncFills(p) ==
  /\ pc[p] = "fill"
  /\ \E content \in {mine[p]} \cup (IF mixed THEN {files[SyncTarget(p)], Torn} ELSE {}) :
       files' = [files EXCEPT ![SyncTarget(p)] = content]
  /\ done' = [done EXCEPT ![p] = @ + 1]
  /\ Go(p, "write")
  /\ UNCHANGED <<source, mine, mixed, todo, docs, outVars, outcome, pure, bounds>>

SyncEnds(p) ==
  /\ pc[p] = "write" /\ done[p] > Len(Catalogs[mine[p]])
  /\ Go(p, "list") /\ done' = [done EXCEPT ![p] = 0]
  /\ UNCHANGED <<dir, mine, todo, docs, outVars, outcome, pure, bounds>>

-----------------------------------------------------------------------------
(* iter_curated_profiles                                                   *)

\* match without sync, or export without --sync-first.
StartLoad(p) ==
  /\ Starts(p) /\ Go(p, "list")
  /\ mine' = [mine EXCEPT ![p] = Gone]
  /\ outcome' = [outcome EXCEPT ![p] = "none"]
  /\ UNCHANGED <<source, files, done, mixed, todo, docs, outVars, pure, deaths>>

\* What is there is loaded: no reader looks into index.json, or for it.
ListCatalog(p) ==
  /\ pc[p] = "list" /\ Go(p, "load")
  /\ todo' = [todo EXCEPT ![p] = Present(files) \ {Index}]
  /\ docs' = [docs EXCEPT ![p] = NoDocs]
  /\ pure' = [pure EXCEPT ![p] = Syncing = {} /\ ~mixed /\ files[Index] \in Versions]
  /\ UNCHANGED <<syncVars, outVars, outcome, bounds>>

First(order, names) ==
  order[CHOOSE i \in DOMAIN order : order[i] \in names /\ \A j \in 1 .. i - 1 : order[j] \notin names]

\* A file that was removed since, or is not all there, raises.
LoadDoc(p) ==
  /\ pc[p] = "load" /\ todo[p] # {}
  /\ LET n == First(ReadOrder, todo[p]) IN
       IF files[n] \in {Gone, Torn}
       THEN Ends(p, "raise")
       ELSE /\ docs' = [docs EXCEPT ![p][n] = files[n]]
            /\ todo' = [todo EXCEPT ![p] = @ \ {n}]
            /\ UNCHANGED <<pc, outcome, mine, done, pure>>
  /\ UNCHANGED <<dir, outVars, bounds>>

Loaded(p) ==
  /\ pc[p] = "load" /\ todo[p] = {}
  /\ Go(p, IF p = "unify" THEN "match" ELSE "clear")
  /\ UNCHANGED <<syncVars, todo, docs, outVars, outcome, pure, bounds>>

\* What was loaded, and as match_utls_catalog.py sees it.
LoadedDocs(f) == {Doc(f[s], s) : s \in Present(f)}
InOrder(f) ==
  [i \in 1 .. Cardinality(Present(f)) |->
     LET s == CHOOSE s \in Present(f) :
           Cardinality({t \in Present(f) : First(ReadOrder, {s, t}) = t}) = i
     IN Doc(f[s], s)]

-----------------------------------------------------------------------------
(* match --strict-all                                                      *)

Required == {"chrome", "quic-go", "quic-go-datagram"}

MatchPasses(f) ==
  LET matches == {Classify(obs, InOrder(f)) : obs \in Lab} IN
  /\ Required \subseteq {m.short : m \in matches}
  /\ NoMatch \notin matches
  /\ ~\E m \in matches : m.capable /\ m.demuxFingerprint

Match ==
  /\ pc["unify"] = "match"
  /\ Ends("unify", IF MatchPasses(docs["unify"]) THEN "ok" ELSE "fail")
  /\ UNCHANGED <<dir, outVars, bounds>>

-----------------------------------------------------------------------------
(* write_export                                                            *)

\* rmtree, entry by entry, in the directory's order.
ClearProfile ==
  /\ pc["export"] = "clear"
  /\ \E s \in Present(profiles) : profiles' = [profiles EXCEPT ![s] = Gone]
  /\ UNCHANGED <<syncVars, catalog, templates, cut, pc, todo, docs, outcome, pure, bounds>>

ClearCatalog ==
  /\ pc["export"] = "clear" /\ catalog # NoDocs
  /\ catalog' = NoDocs
  /\ UNCHANGED <<syncVars, profiles, templates, cut, pc, todo, docs, outcome, pure, bounds>>

Cleared ==
  /\ pc["export"] = "clear" /\ Present(profiles) = {} /\ catalog = NoDocs
  /\ Go("export", "profiles") /\ todo' = [todo EXCEPT !["export"] = Present(docs["export"])]
  /\ cut' = FALSE
  /\ UNCHANGED <<syncVars, profiles, catalog, templates, docs, outcome, pure, bounds>>

\* profile.json is truncated, then filled.
PublishProfile ==
  /\ pc["export"] = "profiles" /\ todo["export"] # {}
  /\ LET s == First(ShortOrder, todo["export"]) IN
       IF profiles[s] = Gone
       THEN profiles' = [profiles EXCEPT ![s] = Torn] /\ UNCHANGED todo
       ELSE /\ profiles' = [profiles EXCEPT ![s] = docs["export"][s]]
            /\ todo' = [todo EXCEPT !["export"] = @ \ {s}]
  /\ UNCHANGED <<syncVars, catalog, templates, cut, pc, docs, outcome, pure, bounds>>

\* Mutated form: catalog.json is written while there are profiles to write.
AllPublishedButOne == Cardinality(todo["export"]) <= 1

AllPublished == todo["export"] = {}

\* catalog.json lists the entries; one that is not all there is as good as none.
PublishCatalog ==
  /\ pc["export"] = "profiles" /\ AllPublished
  /\ catalog' = docs["export"]
  /\ Go("export", "templates")
  /\ UNCHANGED <<syncVars, profiles, templates, cut, todo, docs, outcome, pure, bounds>>

\* write_emit_templates, the last file.
WriteTemplates ==
  /\ pc["export"] = "templates"
  /\ templates' = docs["export"]
  /\ Ends("export", "ok")
  /\ UNCHANGED <<dir, profiles, catalog, cut, bounds>>

\* The alias map: of two entries with one alias the later keeps it.
AliasesOf(f, short) == Doc(f[short], short).aliases \ {short}
Aliases(f) ==
  [a \in UNION {AliasesOf(f, short) : short \in Present(f)} |->
     LET owners == {i \in DOMAIN ShortOrder : ShortOrder[i] \in Present(f) /\ a \in AliasesOf(f, ShortOrder[i])}
     IN ShortOrder[CHOOSE i \in owners : \A j \in owners : j <= i]]

-----------------------------------------------------------------------------
(* A process is killed, or a write fails; CATALOG is edited                *)

Dies(p) ==
  /\ pc[p] # "idle" /\ deaths < MaxDeaths
  /\ deaths' = deaths + 1
  /\ Ends(p, "dead")
  /\ mixed' = (mixed \/ pc[p] = "unlink")
  /\ cut' = (cut \/ pc[p] = "clear")
  /\ templates' \in {templates} \cup (IF pc[p] = "templates" THEN {NoDocs} ELSE {})
  /\ UNCHANGED <<source, files, profiles, catalog, starts>>

EditCatalog ==
  /\ source < Len(Catalogs) /\ source' = source + 1
  /\ UNCHANGED <<files, mine, done, mixed, outVars, bounds, pc, todo, docs, outcome, pure>>

Next ==
  \/ \E p \in Procs :
       \/ StartSync(p) \/ Unlink(p) \/ AllUnlinked(p) \/ SyncOpens(p) \/ SyncFills(p) \/ SyncEnds(p)
       \/ StartLoad(p) \/ ListCatalog(p) \/ LoadDoc(p) \/ Loaded(p) \/ Dies(p)
  \/ Match
  \/ ClearProfile \/ ClearCatalog \/ Cleared \/ PublishProfile \/ PublishCatalog \/ WriteTemplates
  \/ EditCatalog

Spec == Init /\ [][Next]_vars

-----------------------------------------------------------------------------
(* Properties                                                              *)

\* index.json seals the catalog: where it is whole, every entry of its version is,
\* and no other file is there, although a sync may have died writing; but for a
\* sync that was not alone or died unlinking (sync_utls_catalog.py:591-620).
IndexSealsCatalog ==
  files[Index] \in Versions /\ ~mixed /\ (\A p \in Procs : pc[p] # "unlink") =>
    \A s \in Shorts : files[s] = Whole(files[Index])[s]

\* What a process made of its catalog is one version of CATALOG, and none older
\* than it synced, when it listed what a sync had left alone and no sync began
\* meanwhile: so for the export, and for an OK of match (export_dist.py:34-36,
\* 194-207; match_utls_catalog.py:121-124).
LoadsOneCatalog == \A p \in Procs :
  outcome[p] = "ok" /\ pure[p] =>
    \E v \in Versions : docs[p] = Whole(v) /\ mine[p] <= v

\* No two entries of any versions declare one alias, and none declares a short.
AliasesAreTheirOwn == \A v, w \in Versions : \A d \in DocsOf(v), e \in DocsOf(w) :
  /\ d.short # e.short => d.aliases \cap e.aliases = {}
  /\ d.aliases \cap Shorts = {}

\* A catalog.json lists the profiles that lie beside it, and its aliases lead to
\* the entry that declares them and hide no short; but while the export before is
\* removed, and after a death there.  Where the export ended well, the templates
\* agree (export_dist.py:89-188).
ExportIsComplete ==
  /\ catalog # NoDocs /\ pc["export"] # "clear" /\ ~cut =>
       /\ profiles = catalog
       /\ \A d \in LoadedDocs(catalog) : \A a \in d.aliases :
            Aliases(catalog)[a] = d.short /\ a \notin Present(catalog)
  /\ outcome["export"] = "ok" => templates = catalog /\ catalog = docs["export"]
=============================================================================
