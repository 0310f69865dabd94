---------------------------- MODULE ExportCatalog ----------------------------
(***************************************************************************)
(* `labctl export`: the profiles of the active targets are ranked within   *)
(* their family, profiles of one JA4 share a short name, and the result    *)
(* replaces dist/export (tools/cmd/labctl/export.go:54-315).               *)
(*                                                                         *)
(* A name -- a lab id or a short name -- is a word with a number:          *)
(* <<"go", 0>> is "go" and <<"go", 1>> is "go-1". NAMES.md and short.json, *)
(* which repeat the catalog, are left out; so is the fixed alias list,     *)
(* whose target "chrome" is not looked up.                                 *)
(***************************************************************************)
EXTENDS Integers, FiniteSets

CONSTANTS Configs,      \* sets of targets: the active ones that are utls_ready
          States,       \* what a profile directory can hold when labctl starts
          JA4s,
          IDRank,       \* the order of lab ids as strings
          MaxExports,   \* bound: exports started
          MaxCaptures,  \* bound: captures after the first state
          MaxCrashes,   \* bound: labctl killed or stopped by an error
          None

Target == [id : DOMAIN IDRank, family : STRING, latest : BOOLEAN, builtin : BOOLEAN, version : Nat]

\* clienthello.bin with the JA4 of its hello, the JA4 and captured_at of
\* meta.json, the JA4 of profile.json; None for a file that is not there.
Profile == [hello : JA4s \cup {None}, meta : JA4s \cup {None}, at : Nat, manifest : JA4s \cup {None}]

ASSUME ExportAssumption ==
  /\ \A config \in Configs : \A t \in config : t \in Target
  /\ \A config \in Configs : \A t, u \in config : t.id = u.id => t = u
  /\ States \subseteq Profile
  /\ \A x \in DOMAIN IDRank : IDRank[x] \in Nat
  /\ \A x, y \in DOMAIN IDRank : IDRank[x] = IDRank[y] => x = y
  /\ MaxExports \in Nat /\ MaxCaptures \in Nat /\ MaxCrashes \in Nat

VARIABLES
  targets,   \* targets.yaml and targets.archive.yaml
  profile,   \* profiles/<id>
  pc,        \* labctl: "idle", "collect", "remove", "copy", "failed"
  todo,      \* targets to be read, then files to be copied
  members,   \* the ranked members
  out,       \* outProfiles: short name -> member
  aliases,   \* lab id -> short name
  dirs,      \* dist/export/profiles: short name -> files
  catalog,   \* dist/export/catalog.json, None when there is none
  cut,       \* history: a RemoveAll has begun and not ended
  overtaken, \* history: a client was captured during an export
  exports, captures, crashes

vars == <<targets, profile, pc, todo, members, out, aliases, dirs, catalog, cut,
          overtaken, exports, captures, crashes>>
result == <<members, out, aliases>>
dist == <<dirs, catalog, cut>>

IDs == {t.id : t \in targets}

Init ==
  /\ targets \in Configs
  /\ profile \in [IDs -> States]
  /\ pc = "idle" /\ todo = {} /\ members = {} /\ out = <<>> /\ aliases = <<>>
  /\ dirs = <<>> /\ catalog = None /\ cut = FALSE
  /\ overtaken = FALSE /\ exports = 0 /\ captures = 0 /\ crashes = 0

-----------------------------------------------------------------------------
(* Members and their order                                                 *)

Start ==
  /\ pc \in {"idle", "failed"} /\ exports < MaxExports
  /\ exports' = exports + 1
  /\ pc' = "collect" /\ todo' = targets /\ members' = {}
  /\ UNCHANGED <<targets, profile, out, aliases, dist, overtaken, captures, crashes>>

Member(t) ==
  LET p == profile[t.id] IN
  [id |-> t.id, family |-> t.family, latest |-> t.latest, builtin |-> t.builtin, version |-> t.version,
   at |-> IF p.meta = None THEN 0 ELSE p.at,
   ja4 |-> IF p.meta # None THEN p.meta ELSE p.manifest]

\* Without a clienthello.bin or a JA4 a target is skipped with a warning.
Usable(t) == profile[t.id].hello # None /\ Member(t).ja4 # None

Collect(t) ==
  /\ pc = "collect" /\ t \in todo
  /\ members' = members \cup (IF Usable(t) THEN {Member(t)} ELSE {})
  /\ todo' = todo \ {t}
  /\ UNCHANGED <<targets, profile, pc, out, aliases, dist, overtaken, exports, captures, crashes>>

\* Mutated form: the last comparison is missing.
BetterUntied(a, b) ==
  IF a.latest # b.latest THEN a.latest
  ELSE IF a.builtin # b.builtin THEN b.builtin
  ELSE IF a.version # b.version THEN a.version > b.version
  ELSE a.at > b.at

\* betterMember: track latest first, builtins last, then version and
\* captured_at, the newest first, then the id.
Better(a, b) ==
  IF a.latest # b.latest THEN a.latest
  ELSE IF a.builtin # b.builtin THEN b.builtin
  ELSE IF a.version # b.version THEN a.version > b.version
  ELSE IF a.at # b.at THEN a.at > b.at
  ELSE IDRank[a.id] < IDRank[b.id]

Families == {m.family : m \in members}

\* sort.SliceStable: no member comes before one that betterMember prefers.
Ranked(f) ==
  LET list == {m \in members : m.family = f} IN
  CHOOSE s \in [1 .. Cardinality(list) -> list] :
    /\ \A m \in list : \E i \in DOMAIN s : s[i] = m
    /\ \A i, j \in DOMAIN s : i < j => ~Better(s[j], s[i])

\* Mutated form: a member is compared with the last one only.
FirstOfAdjacent(list) == {i \in DOMAIN list : i = 1 \/ list[i - 1].ja4 # list[i].ja4}

\* byJA4 and order: where the list has the first member of a JA4.
FirstOfJA4(list) == {i \in DOMAIN list : \A j \in 1 .. i - 1 : list[j].ja4 # list[i].ja4}

\* The short name has the number of JA4s that came before.
NamedOf(f) ==
  LET list == Ranked(f) firsts == FirstOfJA4(list) IN
  {<<<<f, Cardinality({j \in firsts : j < i})>>, list[i]>> : i \in firsts}
Named == UNION {NamedOf(f) : f \in Families}

\* Mutated form: a duplicate gets the name of its family.
NameOfFamily(names, m) == <<m.family, 0>>

\* The short name a member shares.
NameOf(names, m) == CHOOSE n \in DOMAIN names : names[n].family = m.family /\ names[n].ja4 = m.ja4

Duplicates(names) == {m \in members : \A n \in DOMAIN names : names[n] # m}

\* Ranks, deduplicates and names; only --check-dedup looks at the outcome.
Rank ==
  /\ pc = "collect" /\ todo = {}
  /\ out' = [n \in {x[1] : x \in Named} |-> (CHOOSE x \in Named : x[1] = n)[2]]
  /\ aliases' = [id \in {m.id : m \in Duplicates(out')} |-> NameOf(out', CHOOSE m \in members : m.id = id)]
  /\ \/ pc' = "remove"
     \/ /\ \E n, o \in DOMAIN out' : n # o /\ out'[n].family = out'[o].family /\ out'[n].ja4 = out'[o].ja4
        /\ pc' = "failed"
  /\ UNCHANGED <<targets, profile, todo, members, dist, overtaken, exports, captures, crashes>>

-----------------------------------------------------------------------------
(* Publication                                                             *)

\* os.RemoveAll takes one entry after the other, in the order of the directory.
RemoveEntry ==
  /\ pc = "remove"
  /\ \/ /\ catalog # None /\ catalog' = None /\ UNCHANGED dirs
     \/ \E n \in DOMAIN dirs : dirs' = [m \in DOMAIN dirs \ {n} |-> dirs[m]] /\ UNCHANGED catalog
  /\ cut' = TRUE
  /\ UNCHANGED <<targets, profile, pc, todo, result, overtaken, exports, captures, crashes>>

\* Mutated form: the old export is not removed.
RemovedAnyway == TRUE

Removed == catalog = None /\ dirs = <<>>

Cleared ==
  /\ pc = "remove" /\ Removed
  /\ cut' = FALSE /\ pc' = "copy" /\ todo' = (DOMAIN out) \X {"hello", "manifest"}
  /\ UNCHANGED <<targets, profile, result, dirs, catalog, overtaken, exports, captures, crashes>>

\* Mutated form: a file that is not there is passed over like a meta.json.
Passed(file) == TRUE

\* A meta.json or a slot.json that is not there is passed over, these are not.
Optional(file) == FALSE

\* Copies what lies there now, the hello before the manifest; which profile
\* comes first matters to none of the properties. An export that fails leaves
\* what it has copied.
CopyFile(n, file) ==
  LET content == profile[out[n].id][file]
      old == IF n \in DOMAIN dirs THEN dirs[n] ELSE [hello |-> None, manifest |-> None] IN
  /\ pc = "copy" /\ <<n, file>> \in todo
  /\ file = "manifest" => <<n, "hello">> \notin todo
  /\ dirs' = [m \in DOMAIN dirs \cup {n} |->
                IF m # n THEN dirs[m] ELSE IF content = None THEN old ELSE [old EXCEPT ![file] = content]]
  /\ pc' = IF content = None /\ ~Optional(file) THEN "failed" ELSE pc
  /\ todo' = todo \ {<<n, file>>}
  /\ UNCHANGED <<targets, profile, result, catalog, cut, overtaken, exports, captures, crashes>>

WriteCatalog ==
  /\ pc = "copy" /\ todo = {}
  /\ catalog' = [profiles |-> out, aliases |-> aliases]
  /\ pc' = "idle"
  /\ UNCHANGED <<targets, profile, todo, result, dirs, cut, overtaken, exports, captures, crashes>>

\* labctl is killed, or a call fails and the export returns its error.
Crash ==
  /\ pc \notin {"idle", "failed"} /\ crashes < MaxCrashes
  /\ crashes' = crashes + 1 /\ pc' = "failed"
  /\ UNCHANGED <<targets, profile, todo, result, dist, overtaken, exports, captures>>

\* The capture server overwrites a profile (TcpCapture has its single files).
Capture(id, j) ==
  /\ captures < MaxCaptures /\ captures' = captures + 1
  /\ profile' = [profile EXCEPT ![id] = [hello |-> j, meta |-> j, at |-> 10 + captures, manifest |-> j]]
  /\ overtaken' = (overtaken \/ pc \notin {"idle", "failed"})
  /\ UNCHANGED <<targets, pc, todo, result, dist, exports, crashes>>

Next ==
  \/ Start \/ \E t \in targets : Collect(t)
  \/ Rank \/ RemoveEntry \/ Cleared
  \/ \E n \in DOMAIN out, file \in {"hello", "manifest"} : CopyFile(n, file)
  \/ WriteCatalog \/ Crash
  \/ \E id \in IDs, j \in JA4s : Capture(id, j)

Spec == Init /\ [][Next]_vars

-----------------------------------------------------------------------------
(* Properties                                                              *)

MemberType == [id : DOMAIN IDRank, family : STRING, latest : BOOLEAN, builtin : BOOLEAN, version : Nat,
               at : Nat, ja4 : JA4s]

\* Members and profiles have their types, and a target is collected once.
TypeOK ==
  /\ targets \in Configs /\ profile \in [IDs -> Profile]
  /\ pc \in {"idle", "collect", "remove", "copy", "failed"}
  /\ members \subseteq MemberType
  /\ \A a, b \in members : a.id = b.id => a = b
  /\ pc = "collect" => todo \subseteq targets /\ \A m \in members, t \in todo : m.id # t.id
  /\ cut \in BOOLEAN /\ captures \in Nat

\* betterMember is a strict total order of the members: the sort, and so every
\* short name, does not depend on the order of the targets or of a Go map
\* (export.go:121-124, 281-298).
MembersAreOrdered == \A a, b, c \in members :
  /\ ~(Better(a, b) /\ Better(b, a))
  /\ a # b => Better(a, b) \/ Better(b, a)
  /\ Better(a, b) /\ Better(b, c) => Better(a, c)

\* A family has one short name per JA4, so that no export fails its own
\* --check-dedup (export.go:126-141, 181-191; docs/VERSIONING.md:14).
OneNamePerJA4 == pc # "collect" => \A n, m \in DOMAIN out :
  out[n].family = out[m].family /\ out[n].ja4 = out[m].ja4 => n = m

\* Every member is published: under its own short name or as an alias of the
\* name of its JA4, whose holder is the better one (export.go:143-172).
EveryMemberIsNamed == pc \in {"remove", "copy"} => \A m \in members :
  \/ \E n \in DOMAIN out : out[n] = m
  \/ /\ m.id \in DOMAIN aliases /\ aliases[m.id] \in DOMAIN out
     /\ LET holder == out[aliases[m.id]] IN
          holder.family = m.family /\ holder.ja4 = m.ja4 /\ Better(holder, m)

\* What a catalog lists lies there with its hello and its manifest, and every
\* alias leads to a profile it lists, after crashes and failed exports too,
\* unless one stopped inside RemoveAll (export.go:193-240).
CatalogIsComplete == catalog # None /\ ~cut =>
  /\ \A n \in DOMAIN catalog.profiles :
       n \in DOMAIN dirs /\ dirs[n].hello # None /\ dirs[n].manifest # None
  /\ \A id \in DOMAIN catalog.aliases : catalog.aliases[id] \in DOMAIN catalog.profiles

\* The JA4s a profile states are those of its hello.
ProfilesAreWhole == \A p \in States : p.hello # None => {p.meta, p.manifest} \subseteq {p.hello, None}

\* A hello that is published has the JA4 the catalog states, if profiles are
\* whole and no client was captured during an export (export.go:57-106, 202-240).
CatalogIsTrue == catalog # None /\ ~overtaken =>
  \A n \in DOMAIN catalog.profiles \cap DOMAIN dirs : dirs[n].hello = catalog.profiles[n].ja4
=============================================================================
