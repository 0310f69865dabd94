-------------------------- MODULE QuicPublishProofs --------------------------
(***************************************************************************)
(* Proofs about QuicPublish: a whole index.json seals a whole catalog, and  *)
(* what is loaded from a sealed one is one version of CATALOG, for any      *)
(* versions, any numbers of processes started and killed, and any edits.    *)
(* ExportInv follows an export through what it removes and writes, and      *)
(* AliasesLead says where the aliases of a catalog lead.                    *)
(***************************************************************************)
EXTENDS QuicPublish, FiniteSetTheorems, TLAPS

-----------------------------------------------------------------------------
(* Types                                                                   *)

InSync == {"unlink", "write", "fill"}
AfterLoad == {"match", "clear", "profiles", "catalog", "templates"}
Contents == {Gone, Torn} \cup Versions

TypeInv ==
  /\ source \in Versions
  /\ files \in [Names -> Contents]
  /\ pc \in [Procs -> {"idle", "list", "load"} \cup InSync \cup AfterLoad]
  /\ mine \in [Procs -> {Gone} \cup Versions]
  /\ todo \in [Procs -> SUBSET Names]
  /\ done \in [Procs -> Nat]
  /\ docs \in [Procs -> [Shorts -> {Gone} \cup Versions]]
  /\ outcome \in [Procs -> {"none", "ok", "fail", "raise", "dead"}]
  /\ mixed \in BOOLEAN /\ pure \in [Procs -> BOOLEAN]

\* What a process is at fits what it holds.
Hold(p) ==
  /\ pc[p] \in InSync => mine[p] \in Versions
  /\ pc[p] = "write" => done[p] <= Len(Catalogs[mine[p]]) + 1
  /\ pc[p] = "fill" => done[p] <= Len(Catalogs[mine[p]])
  /\ pc[p] \notin {"write", "fill"} => done[p] = 0
  /\ pc[p] = "load" => todo[p] \subseteq Shorts
  /\ pc[p] # "idle" => outcome[p] = "none"
  /\ mine[p] <= source
HoldInv == \A p \in Procs : Hold(p)

LEMMA VersionFacts ==
  /\ Versions \subseteq Nat \ {0} /\ 1 \in Versions
  /\ Gone = 0 /\ Torn = -1 /\ Gone \notin Versions /\ Torn \notin Versions
  /\ Index \in Names /\ Index \notin Shorts /\ Shorts \subseteq Names
BY PublishAssumption DEF Versions, Gone, Torn, Names

\* The file a sync writes next, and those it has written.
Target(v, k) == IF k < Len(Catalogs[v]) THEN Catalogs[v][k + 1].short ELSE Index
Written(v, k) ==
  {Catalogs[v][i].short : i \in {j \in DOMAIN Catalogs[v] : j <= k}}
    \cup (IF k > Len(Catalogs[v]) THEN {Index} ELSE {})

LEMMA WrittenFacts ==
  ASSUME NEW v \in Versions, NEW k \in Nat, k <= Len(Catalogs[v])
  PROVE  /\ Target(v, k) \in Names
         /\ Written(v, 0) = {}
         /\ Written(v, k + 1) = Written(v, k) \cup {Target(v, k)}
         /\ Written(v, Len(Catalogs[v]) + 1) = ShortsOf(v) \cup {Index}
         /\ Index \notin Written(v, k)
<1> DEFINE c == Catalogs[v]
<1>1. Len(c) \in Nat /\ DOMAIN c = 1 .. Len(c)
  BY PublishAssumption
<1>2. ShortsOf(v) = {c[i].short : i \in DOMAIN c}
  BY DEF ShortsOf, DocsOf
<1>3. ShortsOf(v) \subseteq Shorts
  BY DEF Shorts
<1>4. Target(v, k) \in Names
  <2>1. CASE k < Len(c)
    <3>1. k + 1 \in DOMAIN c
      BY <1>1, <2>1
    <3> QED
      BY <1>2, <1>3, <2>1, <3>1, VersionFacts DEF Target
  <2>2. CASE ~(k < Len(c))
    BY <2>2, VersionFacts DEF Target
  <2> QED
    BY <2>1, <2>2
<1>5. Written(v, 0) = {}
  BY <1>1 DEF Written
<1>6. Written(v, k + 1) = Written(v, k) \cup {Target(v, k)}
  <2>1. CASE k < Len(c)
    <3>1. {j \in DOMAIN c : j <= k + 1} = {j \in DOMAIN c : j <= k} \cup {k + 1}
      BY <1>1, <2>1
    <3> QED
      BY <1>1, <2>1, <3>1 DEF Written, Target
  <2>2. CASE k = Len(c)
    <3>1. {j \in DOMAIN c : j <= k + 1} = {j \in DOMAIN c : j <= k}
      BY <1>1, <2>2
    <3> QED
      BY <1>1, <2>2, <3>1 DEF Written, Target
  <2> QED
    BY <1>1, <2>1, <2>2
<1>7. Written(v, Len(c) + 1) = ShortsOf(v) \cup {Index}
  <2>1. {j \in DOMAIN c : j <= Len(c) + 1} = DOMAIN c
    BY <1>1
  <2> QED
    BY <1>1, <1>2, <2>1 DEF Written
<1>8. Index \notin Written(v, k)
  <2>1. Written(v, k) \subseteq ShortsOf(v)
    BY <1>1, <1>2 DEF Written
  <2> QED
    BY <1>3, <2>1, VersionFacts
<1> QED
  BY <1>4, <1>5, <1>6, <1>7, <1>8

\* A nonempty set of positions has a first one.
LEMMA FirstPosition ==
  ASSUME NEW S \in SUBSET Nat, S # {}
  PROVE  \E i \in S : \A j \in S : i <= j
<1> DEFINE T == {1 .. i : i \in S}
<1>1. IsWellFoundedOn(StrictSubsetOrdering(Nat), FiniteSubsetsOf(Nat))
  BY FS_StrictSubsetOrderingWellFounded
<1>2. T \subseteq FiniteSubsetsOf(Nat)
  <2> SUFFICES ASSUME NEW i \in S PROVE 1 .. i \in FiniteSubsetsOf(Nat)
    OBVIOUS
  <2>1. IsFiniteSet(1 .. i)
    BY FS_Interval
  <2> QED
    BY <2>1 DEF FiniteSubsetsOf
<1>3. T # {}
  OBVIOUS
<1>4. PICK x \in T : \A y \in T : ~(<<y, x>> \in StrictSubsetOrdering(Nat))
  <2> HIDE DEF T
  <2> QED
    BY <1>1, <1>2, <1>3, WFMin
<1>5. PICK i \in S : x = 1 .. i
  OBVIOUS
<1>6. ASSUME NEW j \in S PROVE i <= j
  <2>1. ~(<<1 .. j, 1 .. i>> \in StrictSubsetOrdering(Nat))
    BY <1>4, <1>5
  <2>2. ~((1 .. j) \subseteq (1 .. i)) \/ 1 .. j = 1 .. i
    BY <2>1 DEF StrictSubsetOrdering
  <2>3. i \in Nat /\ j \in Nat
    OBVIOUS
  <2>4. CASE j < i
    <3>1. (1 .. j) \subseteq (1 .. i) /\ i \in 1 .. i /\ i \notin 1 .. j
      BY <2>3, <2>4
    <3> QED
      BY <2>2, <3>1
  <2> QED
    BY <2>3, <2>4
<1> QED
  BY <1>6

\* The first name of a set of shorts is one of them, in either order.
LEMMA FirstIsIn ==
  ASSUME NEW order \in {ReadOrder, ShortOrder}, NEW S \in SUBSET Shorts, S # {}
  PROVE  First(order, S) \in S
<1> DEFINE P == {i \in DOMAIN order : order[i] \in S}
<1>0. Shorts = {order[i] : i \in DOMAIN order} /\ DOMAIN order = 1 .. Len(order)
  BY PublishAssumption
<1> HIDE DEF Shorts
<1>1. P \in SUBSET Nat /\ P # {}
  BY <1>0
<1>2. PICK i \in P : \A j \in P : i <= j
  BY <1>1, FirstPosition
<1>3. ASSUME NEW j \in 1 .. i - 1 PROVE order[j] \notin S
  <2>1. Len(order) \in Nat
    BY PublishAssumption
  <2>2. j \in DOMAIN order /\ j \in Nat /\ i \in Nat /\ ~(i <= j)
    BY <1>0, <1>1, <2>1
  <2> QED
    BY <1>2, <2>2
<1> QED
  BY <1>2, <1>3 DEF First

-----------------------------------------------------------------------------
(* The invariant of types                                                  *)

LEMMA TargetOf ==
  ASSUME TypeInv, NEW p \in Procs, mine[p] \in Versions
  PROVE  SyncTarget(p) = Target(mine[p], done[p])
BY DEF SyncTarget, Target

LEMMA TypeInit == Init => TypeInv /\ HoldInv
<1> SUFFICES ASSUME Init PROVE TypeInv /\ HoldInv
  OBVIOUS
<1> USE VersionFacts
<1>1. Whole(1) \in [Shorts -> {Gone} \cup Versions]
  BY DEF Whole
<1>2. files \in [Names -> Contents]
  BY <1>1 DEF Init, Names, Contents
<1>3. NoDocs \in [Shorts -> {Gone} \cup Versions]
  BY DEF NoDocs
<1>4. TypeInv
  BY <1>2, <1>3 DEF Init, TypeInv
<1>5. HoldInv
  BY DEF Init, HoldInv, Hold, InSync
<1> QED
  BY <1>4, <1>5

\* A process ends: it is idle, and keeps what it loaded only if it ended well.
LEMMA EndsTypes ==
  ASSUME TypeInv, HoldInv, NEW p \in Procs, NEW how \in {"ok", "fail", "raise", "dead"}, Ends(p, how)
  PROVE  /\ pc' \in [Procs -> {"idle", "list", "load"} \cup InSync \cup AfterLoad]
         /\ mine' \in [Procs -> {Gone} \cup Versions]
         /\ todo' \in [Procs -> SUBSET Names]
         /\ done' \in [Procs -> Nat]
         /\ docs' \in [Procs -> [Shorts -> {Gone} \cup Versions]]
         /\ outcome' \in [Procs -> {"none", "ok", "fail", "raise", "dead"}]
         /\ pure' \in [Procs -> BOOLEAN]
         /\ source' = source => HoldInv'
<1> USE VersionFacts
<1>1. NoDocs \in [Shorts -> {Gone} \cup Versions]
  BY DEF NoDocs
<1>2. /\ pc' = [pc EXCEPT ![p] = "idle"] /\ outcome' = [outcome EXCEPT ![p] = how]
      /\ todo' = [todo EXCEPT ![p] = {}] /\ done' = [done EXCEPT ![p] = 0]
      /\ mine' = mine \/ mine' = [mine EXCEPT ![p] = Gone]
      /\ docs' = docs \/ docs' = [docs EXCEPT ![p] = NoDocs]
      /\ pure' = pure \/ pure' = [pure EXCEPT ![p] = FALSE]
  BY DEF Ends, Go
<1>3. mine' \in [Procs -> {Gone} \cup Versions]
  BY <1>2 DEF TypeInv
<1>4. docs' \in [Procs -> [Shorts -> {Gone} \cup Versions]]
  BY <1>1, <1>2 DEF TypeInv
<1>5. pure' \in [Procs -> BOOLEAN]
  BY <1>2 DEF TypeInv
<1>6. ASSUME source' = source PROVE HoldInv'
  <2> SUFFICES ASSUME NEW q \in Procs PROVE Hold(q)'
    BY DEF HoldInv
  <2>1. source \in Nat \ {0}
    BY DEF TypeInv
  <2>2. CASE q = p
    <3>1. pc'[q] = "idle" /\ done'[q] = 0 /\ (mine'[q] = mine[q] \/ mine'[q] = Gone)
      BY <1>2, <2>2 DEF TypeInv
    <3>2. mine[q] <= source
      BY DEF HoldInv, Hold
    <3> QED
      BY <1>6, <2>1, <3>1, <3>2 DEF Hold, InSync
  <2>3. CASE q # p
    <3>1. pc'[q] = pc[q] /\ done'[q] = done[q] /\ mine'[q] = mine[q] /\ todo'[q] = todo[q]
          /\ outcome'[q] = outcome[q]
      BY <1>2, <2>3 DEF TypeInv
    <3> QED
      BY <1>6, <3>1 DEF HoldInv, Hold
  <2> QED
    BY <2>2, <2>3
<1> QED
  BY <1>2, <1>3, <1>4, <1>5, <1>6 DEF TypeInv

\* A step of one process that changes of the others nothing Hold looks at.
LEMMA HoldOfOne ==
  ASSUME TypeInv, HoldInv, NEW p \in Procs, source' = source,
         \A q \in Procs \ {p} :
           /\ pc'[q] = pc[q] /\ done'[q] = done[q] /\ mine'[q] = mine[q] /\ todo'[q] = todo[q]
           /\ outcome'[q] = outcome[q],
         Hold(p)'
  PROVE  HoldInv'
<1> SUFFICES ASSUME NEW q \in Procs, q # p PROVE Hold(q)'
  BY DEF HoldInv
<1> QED
  BY DEF HoldInv, Hold

LEMMA TypeStep ==
  ASSUME TypeInv, HoldInv, [Next]_vars
  PROVE  TypeInv' /\ HoldInv'
<1> USE VersionFacts
<1>n. NoDocs \in [Shorts -> {Gone} \cup Versions]
  BY DEF NoDocs
<1>0. CASE UNCHANGED vars
  BY <1>0 DEF vars, syncVars, outVars, bounds, dir, TypeInv, HoldInv, Hold
<1>1. ASSUME NEW p \in Procs, StartSync(p) PROVE TypeInv' /\ HoldInv'
  <2> USE <1>1 DEF StartSync, Starts, Go, outVars, TypeInv
  <2>1. TypeInv'
    BY DEF Found, Present, InSync
  <2>2. Hold(p)'
    <3>1. done[p] = 0 /\ pc'[p] = "unlink" /\ mine'[p] = source /\ done' = done /\ outcome'[p] = "none"
      BY DEF HoldInv, Hold
    <3>2. source' = source /\ source \in Nat /\ source \in Versions
      OBVIOUS
    <3> QED
      BY <3>1, <3>2 DEF Hold, InSync
  <2> QED
    BY <2>1, <2>2, HoldOfOne
<1>2. ASSUME NEW p \in Procs, Unlink(p) PROVE TypeInv' /\ HoldInv'
  <2>1. PICK n \in todo[p] :
          IF files[n] = Gone
          THEN Ends(p, "raise") /\ UNCHANGED files
          ELSE /\ files' = [files EXCEPT ![n] = Gone]
               /\ todo' = [todo EXCEPT ![p] = @ \ {n}]
               /\ UNCHANGED <<pc, outcome, mine, done, docs, pure>>
    BY <1>2 DEF Unlink
  <2>2. UNCHANGED <<source, mixed>>
    BY <1>2 DEF Unlink
  <2>3. CASE files[n] = Gone
    BY <2>1, <2>2, <2>3, EndsTypes DEF TypeInv
  <2>4. CASE files[n] # Gone
    <3>1. TypeInv'
      BY <2>1, <2>2, <2>4 DEF TypeInv, Contents
    <3>2. pc[p] = "unlink" /\ pc' = pc /\ mine' = mine /\ done' = done /\ outcome' = outcome /\ source' = source
      BY <1>2, <2>1, <2>2, <2>4 DEF Unlink
    <3>3. Hold(p)'
      BY <3>2 DEF HoldInv, Hold, InSync
    <3> QED
      BY <2>1, <2>2, <2>4, <3>1, <3>3, HoldOfOne DEF TypeInv
  <2> QED
    BY <2>3, <2>4
<1>3. ASSUME NEW p \in Procs, AllUnlinked(p) PROVE TypeInv' /\ HoldInv'
  <2> USE <1>3 DEF AllUnlinked, Go, syncVars, dir, outVars, TypeInv
  <2>1. TypeInv'
    BY DEF InSync
  <2>2. Len(Catalogs[mine[p]]) \in Nat
    BY PublishAssumption DEF HoldInv, Hold, InSync
  <2>3. Hold(p)'
    BY <2>2 DEF HoldInv, Hold, InSync
  <2> QED
    BY <2>1, <2>3, HoldOfOne
<1>4. ASSUME NEW p \in Procs, SyncOpens(p) PROVE TypeInv' /\ HoldInv'
  <2> USE <1>4 DEF SyncOpens, Go, outVars, TypeInv
  <2>1. SyncTarget(p) \in Names
    BY TargetOf, WrittenFacts DEF HoldInv, Hold, InSync
  <2>2. TypeInv'
    BY <2>1 DEF InSync, Contents
  <2>3. Hold(p)'
    BY DEF HoldInv, Hold, InSync
  <2> QED
    BY <2>2, <2>3, HoldOfOne
<1>5. ASSUME NEW p \in Procs, SyncFills(p) PROVE TypeInv' /\ HoldInv'
  <2> USE <1>5 DEF SyncFills, Go, outVars, TypeInv
  <2>1. SyncTarget(p) \in Names /\ mine[p] \in Versions /\ Len(Catalogs[mine[p]]) \in Nat
    <3>1. mine[p] \in Versions /\ done[p] <= Len(Catalogs[mine[p]]) /\ done[p] \in Nat
      BY DEF HoldInv, Hold, InSync
    <3> QED
      BY <3>1, TargetOf, WrittenFacts, PublishAssumption
  <2>2. TypeInv'
    <3>1. files' \in [Names -> Contents]
      BY <2>1 DEF Contents
    <3> QED
      BY <3>1 DEF InSync
  <2>3. Hold(p)'
    BY <2>1 DEF HoldInv, Hold, InSync
  <2> QED
    BY <2>2, <2>3, HoldOfOne
<1>6. ASSUME NEW p \in Procs, SyncEnds(p) PROVE TypeInv' /\ HoldInv'
  <2> USE <1>6 DEF SyncEnds, Go, dir, outVars, TypeInv
  <2>1. TypeInv'
    OBVIOUS
  <2>2. Hold(p)'
    BY DEF HoldInv, Hold, InSync
  <2> QED
    BY <2>1, <2>2, HoldOfOne
<1>7. ASSUME NEW p \in Procs, StartLoad(p) PROVE TypeInv' /\ HoldInv'
  <2> USE <1>7 DEF StartLoad, Starts, Go, outVars, TypeInv
  <2>1. TypeInv'
    OBVIOUS
  <2>2. Hold(p)'
    BY DEF HoldInv, Hold, InSync
  <2> QED
    BY <2>1, <2>2, HoldOfOne
<1>8. ASSUME NEW p \in Procs, ListCatalog(p) PROVE TypeInv' /\ HoldInv'
  <2> USE <1>8 DEF ListCatalog, Go, syncVars, dir, outVars, TypeInv
  <2>1. TypeInv'
    <3>1. docs' \in [Procs -> [Shorts -> {Gone} \cup Versions]]
      BY <1>n
    <3>2. todo' \in [Procs -> SUBSET Names]
      BY DEF Present
    <3>3. pure' \in [Procs -> BOOLEAN]
      OBVIOUS
    <3> QED
      BY <3>1, <3>2, <3>3
  <2>2. Hold(p)'
    <3>1. todo'[p] \subseteq Shorts
      BY DEF Present, Names
    <3> QED
      BY <3>1 DEF HoldInv, Hold, InSync
  <2> QED
    BY <2>1, <2>2, HoldOfOne
<1>9. ASSUME NEW p \in Procs, LoadDoc(p) PROVE TypeInv' /\ HoldInv'
  <2> DEFINE n == First(ReadOrder, todo[p])
  <2>1. n \in todo[p] /\ n \in Shorts /\ pc[p] = "load"
    BY <1>9, FirstIsIn DEF LoadDoc, HoldInv, Hold
  <2>2. UNCHANGED <<source, files, mixed>>
    BY <1>9 DEF LoadDoc, dir
  <2>3. CASE files[n] \in {Gone, Torn}
    <3>1. Ends(p, "raise")
      BY <1>9, <2>3 DEF LoadDoc
    <3> QED
      BY <2>2, <3>1, EndsTypes DEF TypeInv
  <2>4. CASE files[n] \notin {Gone, Torn}
    <3> HIDE DEF n
    <3>1. /\ docs' = [docs EXCEPT ![p][n] = files[n]]
          /\ todo' = [todo EXCEPT ![p] = @ \ {n}]
          /\ UNCHANGED <<pc, outcome, mine, done, pure>>
      BY <1>9, <2>4 DEF LoadDoc, n
    <3>2. files[n] \in Versions
      BY <2>1, <2>4 DEF TypeInv, Contents
    <3>3. docs' \in [Procs -> [Shorts -> {Gone} \cup Versions]]
      BY <2>1, <3>1, <3>2 DEF TypeInv
    <3>4. todo' \in [Procs -> SUBSET Names]
      BY <3>1 DEF TypeInv
    <3>5. TypeInv'
      BY <2>2, <3>1, <3>3, <3>4 DEF TypeInv
    <3>6. Hold(p)'
      BY <2>1, <2>2, <3>1 DEF HoldInv, Hold, TypeInv, InSync
    <3> QED
      BY <2>2, <3>1, <3>5, <3>6, HoldOfOne DEF TypeInv
  <2> QED
    BY <2>3, <2>4
<1>10. ASSUME NEW p \in Procs, Loaded(p) PROVE TypeInv' /\ HoldInv'
  <2> USE <1>10 DEF Loaded, Go, syncVars, dir, outVars, TypeInv
  <2>1. TypeInv'
    BY DEF AfterLoad
  <2>2. Hold(p)'
    BY DEF HoldInv, Hold, InSync
  <2> QED
    BY <2>1, <2>2, HoldOfOne
<1>11. ASSUME NEW p \in Procs, Dies(p) PROVE TypeInv' /\ HoldInv'
  <2>1. Ends(p, "dead") /\ UNCHANGED <<source, files>> /\ mixed' \in BOOLEAN
    BY <1>11 DEF Dies, TypeInv
  <2> QED
    BY <2>1, EndsTypes DEF TypeInv
<1>12. CASE Match
  <2>1. \E how \in {"ok", "fail"} : Ends("unify", how)
    BY <1>12 DEF Match
  <2>2. UNCHANGED <<source, files, mixed>> /\ "unify" \in Procs
    BY <1>12 DEF Match, dir, Procs
  <2> QED
    BY <2>1, <2>2, EndsTypes DEF TypeInv
<1>13. CASE ClearProfile \/ ClearCatalog
  <2>1. UNCHANGED <<syncVars, pc, todo, docs, outcome, pure>>
    BY <1>13 DEF ClearProfile, ClearCatalog
  <2> QED
    BY <2>1 DEF syncVars, dir, TypeInv, HoldInv, Hold
<1>14. CASE Cleared \/ PublishProfile \/ PublishCatalog
  <2>1. "export" \in Procs /\ pc["export"] \in {"clear", "profiles"}
    BY <1>14 DEF Procs, Cleared, PublishProfile, PublishCatalog
  <2>2. UNCHANGED <<source, files, mixed, mine, done, docs, outcome, pure>>
    BY <1>14 DEF Cleared, PublishProfile, PublishCatalog, syncVars, dir
  <2>3. \E where \in AfterLoad : pc' = [pc EXCEPT !["export"] = where]
    <3>1. pc = [pc EXCEPT !["export"] = pc["export"]]
      BY DEF TypeInv
    <3> QED
      BY <1>14, <2>1, <3>1 DEF Cleared, PublishProfile, PublishCatalog, Go, AfterLoad
  <2>4. PICK S \in SUBSET Names : todo' = [todo EXCEPT !["export"] = S]
    <3>1. todo = [todo EXCEPT !["export"] = todo["export"]] /\ todo["export"] \in SUBSET Names
      BY <2>1 DEF TypeInv
    <3>2. CASE Cleared
      <4>1. Present(docs["export"]) \in SUBSET Names
        BY <2>1 DEF Present, TypeInv
      <4> QED
        BY <3>2, <4>1 DEF Cleared
    <3>3. CASE PublishProfile
      BY <3>1, <3>3 DEF PublishProfile
    <3>4. CASE PublishCatalog
      BY <3>1, <3>4 DEF PublishCatalog
    <3> QED
      BY <1>14, <3>2, <3>3, <3>4
  <2>5. PICK where \in AfterLoad : pc' = [pc EXCEPT !["export"] = where]
    BY <2>3
  <2>6. TypeInv'
    BY <2>1, <2>2, <2>4, <2>5 DEF TypeInv
  <2>7. Hold("export")'
    BY <2>1, <2>2, <2>4, <2>5 DEF TypeInv, HoldInv, Hold, InSync, AfterLoad
  <2> QED
    BY <2>1, <2>2, <2>4, <2>5, <2>6, <2>7, HoldOfOne DEF TypeInv
<1>15. CASE WriteTemplates
  <2>1. Ends("export", "ok") /\ UNCHANGED <<source, files, mixed>> /\ "export" \in Procs
    BY <1>15 DEF WriteTemplates, dir, Procs
  <2> QED
    BY <2>1, EndsTypes DEF TypeInv
<1>16. CASE EditCatalog
  <2>1. source' = source + 1 /\ source' \in Versions
    BY <1>16, PublishAssumption DEF EditCatalog, TypeInv, Versions
  <2>2. UNCHANGED <<files, mine, done, mixed, pc, todo, docs, outcome, pure>>
    BY <1>16 DEF EditCatalog
  <2>3. source \in Nat
    BY DEF TypeInv
  <2>4. ASSUME NEW p \in Procs PROVE mine[p] \in Nat
    <3>1. mine[p] = Gone \/ mine[p] \in Versions
      BY DEF TypeInv
    <3>2. CASE mine[p] = Gone
      BY <3>2 DEF Gone
    <3>3. CASE mine[p] \in Versions
      BY <3>3 DEF Versions
    <3> QED
      BY <3>1, <3>2, <3>3
  <2> QED
    BY <2>1, <2>2, <2>3, <2>4 DEF TypeInv, HoldInv, Hold
<1> QED
  BY <1>0, <1>1, <1>2, <1>3, <1>4, <1>5, <1>6, <1>7, <1>8, <1>9, <1>10, <1>11, <1>12, <1>13, <1>14,
     <1>15, <1>16 DEF Next

-----------------------------------------------------------------------------
(* The catalog on disk                                                     *)

Sealed == files[Index] \in Versions =>
  /\ \A s \in Shorts : files[s] = Whole(files[Index])[s]
  /\ \A q \in Procs : mine[q] <= files[Index]

\* What a sync that is alone has made of the catalog.
Alone(p) ==
  /\ \A q \in Procs : pc[q] \in InSync => q = p
  /\ \A q \in Procs : mine[q] <= mine[p]
  /\ pc[p] = "unlink" => todo[p] = Present(files)
  /\ pc[p] = "write" => \A n \in Names :
       files[n] = IF n \in Written(mine[p], done[p]) THEN mine[p] ELSE Gone
  /\ pc[p] = "fill" => \A n \in Names :
       files[n] = IF n = Target(mine[p], done[p]) THEN Torn
                  ELSE IF n \in Written(mine[p], done[p]) THEN mine[p] ELSE Gone
DiskInv == ~mixed =>
  /\ \A p \in Procs : pc[p] \in InSync => Alone(p)
  /\ (\A p \in Procs : pc[p] \notin InSync) => Sealed

LEMMA SyncingIs == Syncing = {p \in Procs : pc[p] \in InSync}
BY DEF Syncing, InSync

\* A sync that is alone and past unlinking leaves a sealed catalog, wherever it is.
LEMMA AloneIsSealed ==
  ASSUME TypeInv, HoldInv, NEW p \in Procs, pc[p] \in {"write", "fill"}, Alone(p)
  PROVE  Sealed
<1> USE VersionFacts
<1> SUFFICES ASSUME files[Index] \in Versions PROVE Sealed
  BY DEF Sealed
<1> DEFINE v == mine[p]
           c == Catalogs[v]
<1>1. v \in Versions /\ done[p] \in Nat /\ done[p] <= Len(c) + 1 /\ Len(c) \in Nat
  <2>1. v \in Versions /\ done[p] \in Nat
    BY DEF HoldInv, Hold, InSync, TypeInv
  <2>2. Len(c) \in Nat
    BY <2>1, PublishAssumption
  <2> QED
    BY <2>1, <2>2 DEF HoldInv, Hold
<1>2. files[Index] = v /\ Index \in Written(v, done[p]) /\ pc[p] = "write"
  <2>1. CASE pc[p] = "write"
    BY <2>1 DEF Alone
  <2>2. CASE pc[p] = "fill"
    <3>1. done[p] <= Len(c)
      BY <2>2 DEF HoldInv, Hold
    <3>2. Index \notin Written(v, done[p])
      BY <1>1, <3>1, WrittenFacts
    <3> QED
      BY <2>2, <3>2 DEF Alone
  <2> QED
    BY <2>1, <2>2
<1>3. done[p] = Len(c) + 1
  <2>1. ~(done[p] <= Len(c))
    BY <1>1, <1>2, WrittenFacts
  <2> QED
    BY <1>1, <2>1
<1>4. Written(v, done[p]) = ShortsOf(v) \cup {Index}
  <2>1. 0 \in Nat /\ 0 <= Len(c)
    BY <1>1
  <2> QED
    BY <1>1, <1>3, <2>1, WrittenFacts
<1>5. ASSUME NEW s \in Shorts PROVE files[s] = Whole(v)[s]
  BY <1>2, <1>4 DEF Alone, Whole
<1> QED
  BY <1>2, <1>5 DEF Sealed, Alone

LEMMA DiskInit == Init => DiskInv
<1> SUFFICES ASSUME Init PROVE DiskInv
  OBVIOUS
<1> USE VersionFacts
<1>1. \A p \in Procs : pc[p] \notin InSync
  BY DEF Init, InSync
<1>2. files[Index] = 1 /\ \A s \in Shorts : files[s] = Whole(1)[s]
  BY DEF Init
<1>3. \A p \in Procs : mine[p] <= 1
  BY DEF Init, Gone
<1> QED
  BY <1>1, <1>2, <1>3 DEF DiskInv, Sealed

\* A step that leaves the files alone, and neither begins a sync nor moves one.
Elsewhere ==
  /\ files' = files /\ mixed' = mixed
  /\ \A q \in Procs :
       /\ pc'[q] \in InSync <=> pc[q] \in InSync
       /\ pc[q] \in InSync => pc'[q] = pc[q] /\ mine'[q] = mine[q] /\ done'[q] = done[q] /\ todo'[q] = todo[q]
       /\ mine'[q] = mine[q] \/ mine'[q] = Gone

LEMMA ElsewhereStep ==
  ASSUME TypeInv, DiskInv, Elsewhere
  PROVE  DiskInv'
<1> USE VersionFacts
<1> SUFFICES ASSUME ~mixed PROVE DiskInv'
  BY DEF DiskInv, Elsewhere
<1>1. ASSUME NEW p \in Procs, pc'[p] \in InSync PROVE Alone(p)'
  <2>1. Alone(p) /\ pc[p] \in InSync
    BY <1>1 DEF DiskInv, Elsewhere
  <2>2. files' = files /\ pc'[p] = pc[p] /\ mine'[p] = mine[p] /\ done'[p] = done[p] /\ todo'[p] = todo[p]
    BY <2>1 DEF Elsewhere
  <2>3. \A q \in Procs : pc'[q] \in InSync => q = p
    BY <2>1 DEF Elsewhere, Alone
  <2>4. ASSUME NEW q \in Procs PROVE mine'[q] <= mine'[p]
    <3>1. mine[q] <= mine[p] /\ (mine'[q] = mine[q] \/ mine'[q] = Gone)
      BY <2>1 DEF Alone, Elsewhere
    <3>2. mine[p] = Gone \/ mine[p] \in Versions
      BY DEF TypeInv
    <3>3. 0 <= mine[p]
      BY <3>2 DEF Gone, Versions
    <3> QED
      BY <2>2, <3>1, <3>3 DEF Gone
  <2>5. Present(files)' = Present(files)
    BY <2>2 DEF Present
  <2> QED
    BY <2>1, <2>2, <2>3, <2>4, <2>5 DEF Alone
<1>2. ASSUME \A p \in Procs : pc'[p] \notin InSync PROVE Sealed'
  <2>1. Sealed /\ files' = files
    BY <1>2 DEF Elsewhere, DiskInv
  <2>2. SUFFICES ASSUME files[Index] \in Versions, NEW q \in Procs PROVE mine'[q] <= files[Index]
    BY <2>1 DEF Sealed, Whole
  <2>3. mine[q] <= files[Index] /\ (mine'[q] = mine[q] \/ mine'[q] = Gone)
    BY <2>1, <2>2 DEF Sealed, Elsewhere
  <2>4. 0 <= files[Index]
    BY <2>2 DEF Versions
  <2> QED
    BY <2>3, <2>4 DEF Gone
<1> QED
  BY <1>1, <1>2 DEF DiskInv

\* A process that ends disturbs a sync only if it is the one.
LEMMA EndsElsewhere ==
  ASSUME TypeInv, NEW p \in Procs, NEW how, Ends(p, how), pc[p] \notin InSync,
         files' = files, mixed' = mixed
  PROVE  Elsewhere
<1>1. /\ pc' = [pc EXCEPT ![p] = "idle"] /\ todo' = [todo EXCEPT ![p] = {}] /\ done' = [done EXCEPT ![p] = 0]
      /\ mine' = mine \/ mine' = [mine EXCEPT ![p] = Gone]
  BY DEF Ends, Go
<1> QED
  BY <1>1 DEF Elsewhere, TypeInv, InSync

LEMMA DiskStep ==
  ASSUME TypeInv, HoldInv, DiskInv, [Next]_vars
  PROVE  DiskInv'
<1> USE VersionFacts
<1>0. CASE UNCHANGED vars
  <2>1. Elsewhere
    BY <1>0 DEF Elsewhere, vars, syncVars, dir
  <2> QED
    BY <2>1, ElsewhereStep
<1>1. ASSUME NEW p \in Procs, StartSync(p) PROVE DiskInv'
  <2>1. /\ pc' = [pc EXCEPT ![p] = "unlink"] /\ mine' = [mine EXCEPT ![p] = source]
        /\ todo' = [todo EXCEPT ![p] = Present(files)] /\ files' = files
        /\ mixed' = (Syncing # {})
    BY <1>1 DEF StartSync, Starts, Go, Found
  <2> SUFFICES ASSUME ~mixed' PROVE DiskInv'
    BY DEF DiskInv
  <2>2. \A q \in Procs : pc[q] \notin InSync
    BY <2>1, SyncingIs
  <2>3. \A q \in Procs : pc'[q] \in InSync <=> q = p
    BY <2>1, <2>2 DEF TypeInv, InSync
  <2>4. Alone(p)'
    <3>1. \A q \in Procs : mine'[q] <= mine'[p]
      <4>1. ASSUME NEW q \in Procs PROVE mine'[q] <= source
        <5>1. mine[q] <= source /\ source <= source
          BY DEF HoldInv, Hold, TypeInv
        <5> QED
          BY <2>1, <5>1 DEF TypeInv
      <4> QED
        BY <2>1, <4>1 DEF TypeInv
    <3>2. pc'[p] = "unlink" /\ todo'[p] = Present(files)'
      BY <2>1 DEF TypeInv, Present
    <3> QED
      BY <2>3, <3>1, <3>2 DEF Alone
  <2> QED
    BY <2>3, <2>4 DEF DiskInv
<1>2. ASSUME NEW p \in Procs, Unlink(p) PROVE DiskInv'
  <2> SUFFICES ASSUME ~mixed PROVE DiskInv'
    BY <1>2 DEF DiskInv, Unlink
  <2>1. pc[p] = "unlink" /\ Alone(p) /\ mixed' = mixed
    BY <1>2 DEF Unlink, DiskInv, InSync
  <2>2. PICK n \in todo[p] :
          IF files[n] = Gone
          THEN Ends(p, "raise") /\ UNCHANGED files
          ELSE /\ files' = [files EXCEPT ![n] = Gone]
               /\ todo' = [todo EXCEPT ![p] = @ \ {n}]
               /\ UNCHANGED <<pc, outcome, mine, done, docs, pure>>
    BY <1>2 DEF Unlink
  <2>3. n \in Present(files)
    BY <2>1 DEF Alone
  <2>4. /\ files' = [files EXCEPT ![n] = Gone] /\ todo' = [todo EXCEPT ![p] = @ \ {n}]
        /\ pc' = pc /\ mine' = mine /\ done' = done
    BY <2>2, <2>3 DEF Present
  <2>5. todo'[p] = Present(files)'
    <3>1. todo'[p] = Present(files) \ {n}
      BY <2>1, <2>4 DEF Alone, TypeInv
    <3>2. Present(files)' = Present(files) \ {n}
      BY <2>4 DEF Present, TypeInv
    <3> QED
      BY <3>1, <3>2
  <2>6. Alone(p)'
    BY <2>1, <2>4, <2>5 DEF Alone
  <2> QED
    BY <2>1, <2>4, <2>6 DEF DiskInv, Alone, InSync
<1>3. ASSUME NEW p \in Procs, AllUnlinked(p) PROVE DiskInv'
  <2> SUFFICES ASSUME ~mixed PROVE DiskInv'
    BY <1>3 DEF DiskInv, AllUnlinked, syncVars, dir
  <2>1. /\ pc[p] = "unlink" /\ todo[p] = {} /\ pc' = [pc EXCEPT ![p] = "write"]
        /\ files' = files /\ mine' = mine /\ done' = done /\ todo' = todo /\ mixed' = mixed
    BY <1>3 DEF AllUnlinked, Go, syncVars, dir
  <2>2. Alone(p) /\ mine[p] \in Versions /\ done[p] = 0
    BY <2>1 DEF DiskInv, HoldInv, Hold, InSync
  <2>3. \A n \in Names : files[n] = Gone
    BY <2>1, <2>2 DEF Alone, Present, TypeInv
  <2>4. Written(mine[p], 0) = {}
    <3>1. 0 \in Nat /\ 0 <= Len(Catalogs[mine[p]])
      BY <2>2, PublishAssumption
    <3> QED
      BY <2>2, <3>1, WrittenFacts
  <2>5. pc'[p] = "write" /\ \A q \in Procs : pc'[q] \in InSync => q = p
    BY <2>1, <2>2 DEF Alone, TypeInv
  <2>6. Alone(p)'
    BY <2>1, <2>2, <2>3, <2>4, <2>5 DEF Alone
  <2> QED
    BY <2>5, <2>6 DEF DiskInv, InSync
<1>4. ASSUME NEW p \in Procs, SyncOpens(p) PROVE DiskInv'
  <2> SUFFICES ASSUME ~mixed PROVE DiskInv'
    BY <1>4 DEF DiskInv, SyncOpens
  <2>1. /\ pc[p] = "write" /\ pc' = [pc EXCEPT ![p] = "fill"] /\ files' = [files EXCEPT ![SyncTarget(p)] = Torn]
        /\ mine' = mine /\ done' = done /\ todo' = todo /\ mixed' = mixed
    BY <1>4 DEF SyncOpens, Go
  <2>2. Alone(p) /\ mine[p] \in Versions
    BY <2>1 DEF DiskInv, HoldInv, Hold, InSync
  <2>3. SyncTarget(p) = Target(mine[p], done[p])
    BY <2>2, TargetOf
  <2>4. \A n \in Names :
          files'[n] = IF n = Target(mine[p], done[p]) THEN Torn
                      ELSE IF n \in Written(mine[p], done[p]) THEN mine[p] ELSE Gone
    BY <2>1, <2>2, <2>3 DEF Alone, TypeInv
  <2>5. pc'[p] = "fill" /\ \A q \in Procs : pc'[q] \in InSync => q = p
    BY <2>1, <2>2 DEF Alone, TypeInv
  <2>6. Alone(p)'
    BY <2>1, <2>2, <2>4, <2>5 DEF Alone
  <2> QED
    BY <2>5, <2>6 DEF DiskInv, InSync
<1>5. ASSUME NEW p \in Procs, SyncFills(p) PROVE DiskInv'
  <2> SUFFICES ASSUME ~mixed PROVE DiskInv'
    BY <1>5 DEF DiskInv, SyncFills
  <2>1. /\ pc[p] = "fill" /\ pc' = [pc EXCEPT ![p] = "write"] /\ files' = [files EXCEPT ![SyncTarget(p)] = mine[p]]
        /\ mine' = mine /\ done' = [done EXCEPT ![p] = @ + 1] /\ todo' = todo /\ mixed' = mixed
    BY <1>5 DEF SyncFills, Go
  <2>2. Alone(p) /\ mine[p] \in Versions /\ done[p] \in Nat /\ done[p] <= Len(Catalogs[mine[p]])
    BY <2>1 DEF DiskInv, HoldInv, Hold, InSync, TypeInv
  <2>3. SyncTarget(p) = Target(mine[p], done[p])
    BY <2>2, TargetOf
  <2>4. Written(mine[p], done[p] + 1) = Written(mine[p], done[p]) \cup {Target(mine[p], done[p])}
    BY <2>2, WrittenFacts
  <2>5. \A n \in Names :
          files'[n] = IF n \in Written(mine[p], done[p] + 1) THEN mine[p] ELSE Gone
    BY <2>1, <2>2, <2>3, <2>4 DEF Alone, TypeInv
  <2>6. pc'[p] = "write" /\ done'[p] = done[p] + 1 /\ \A q \in Procs : pc'[q] \in InSync => q = p
    BY <2>1, <2>2 DEF Alone, TypeInv
  <2>7. Alone(p)'
    BY <2>1, <2>2, <2>5, <2>6 DEF Alone
  <2> QED
    BY <2>6, <2>7 DEF DiskInv, InSync
<1>6. ASSUME NEW p \in Procs, SyncEnds(p) PROVE DiskInv'
  <2> SUFFICES ASSUME ~mixed PROVE DiskInv'
    BY <1>6 DEF DiskInv, SyncEnds, dir
  <2>1. pc[p] = "write" /\ pc' = [pc EXCEPT ![p] = "list"] /\ files' = files /\ mine' = mine
    BY <1>6 DEF SyncEnds, Go, dir
  <2>2. Alone(p)
    BY <2>1 DEF DiskInv, InSync
  <2>3. Sealed
    BY <2>1, <2>2, AloneIsSealed
  <2>4. \A q \in Procs : pc'[q] \notin InSync
    BY <2>1, <2>2 DEF Alone, TypeInv, InSync
  <2>5. Sealed'
    BY <2>1, <2>3 DEF Sealed, Whole
  <2> QED
    BY <2>4, <2>5 DEF DiskInv
<1>7. ASSUME NEW p \in Procs, Dies(p) PROVE DiskInv'
  <2>1. Ends(p, "dead") /\ files' = files /\ mixed' = (mixed \/ pc[p] = "unlink")
    BY <1>7 DEF Dies
  <2>2. CASE pc[p] \notin InSync
    BY <2>1, <2>2, EndsElsewhere, ElsewhereStep DEF InSync, TypeInv
  <2>3. CASE pc[p] \in InSync
    <3> SUFFICES ASSUME ~mixed' PROVE DiskInv'
      BY DEF DiskInv
    <3>1. ~mixed /\ pc[p] \in {"write", "fill"}
      BY <2>1, <2>3 DEF InSync
    <3>2. Alone(p)
      BY <2>3, <3>1 DEF DiskInv
    <3>3. Sealed
      BY <3>1, <3>2, AloneIsSealed
    <3>4. pc' = [pc EXCEPT ![p] = "idle"] /\ mine' = [mine EXCEPT ![p] = Gone]
      BY <2>1 DEF Ends, Go
    <3>5. \A q \in Procs : pc'[q] \notin InSync
      BY <3>2, <3>4 DEF Alone, TypeInv, InSync
    <3>6. Sealed'
      <4>1. ASSUME files[Index] \in Versions, NEW q \in Procs PROVE mine'[q] <= files[Index]
        <5>1. mine[q] <= files[Index] /\ 0 <= files[Index]
          BY <3>3, <4>1 DEF Sealed, Versions
        <5> QED
          BY <3>4, <5>1 DEF Gone, TypeInv
      <4> QED
        BY <2>1, <3>3, <4>1 DEF Sealed, Whole
    <3> QED
      BY <3>5, <3>6 DEF DiskInv
  <2> QED
    BY <2>2, <2>3
<1>8. ASSUME NEW p \in Procs, StartLoad(p) \/ ListCatalog(p) \/ LoadDoc(p) \/ Loaded(p) PROVE DiskInv'
  <2>1. pc[p] \in {"idle", "list", "load"} /\ files' = files /\ mixed' = mixed
    BY <1>8 DEF StartLoad, Starts, ListCatalog, LoadDoc, Loaded, syncVars, dir
  <2>2. CASE Ends(p, "raise")
    BY <2>1, <2>2, EndsElsewhere, ElsewhereStep DEF InSync
  <2>3. CASE ~Ends(p, "raise")
    <3>1. pc' = pc \/ \E where \in {"list", "load"} \cup AfterLoad : pc' = [pc EXCEPT ![p] = where]
      BY <1>8, <2>3 DEF StartLoad, ListCatalog, LoadDoc, Loaded, Go, AfterLoad
    <3>2. /\ mine' = mine \/ mine' = [mine EXCEPT ![p] = Gone]
          /\ done' = done
          /\ todo' = todo \/ \E S : todo' = [todo EXCEPT ![p] = S]
      BY <1>8, <2>3 DEF StartLoad, ListCatalog, LoadDoc, Loaded, syncVars
    <3>3. Elsewhere
      BY <2>1, <3>1, <3>2 DEF Elsewhere, TypeInv, InSync, AfterLoad
    <3> QED
      BY <3>3, ElsewhereStep
  <2> QED
    BY <2>2, <2>3
<1>9. CASE Match \/ WriteTemplates
  <2>1. \E p \in Procs, how \in {"ok", "fail"} : Ends(p, how) /\ pc[p] \in {"match", "templates"}
    BY <1>9 DEF Match, WriteTemplates, Procs
  <2>2. files' = files /\ mixed' = mixed
    BY <1>9 DEF Match, WriteTemplates, dir
  <2> QED
    BY <2>1, <2>2, EndsElsewhere, ElsewhereStep DEF InSync
<1>10. CASE ClearProfile \/ ClearCatalog \/ EditCatalog
  <2>1. UNCHANGED <<files, mixed, mine, done, pc, todo>>
    BY <1>10 DEF ClearProfile, ClearCatalog, EditCatalog, syncVars, dir
  <2>2. Elsewhere
    BY <2>1 DEF Elsewhere
  <2> QED
    BY <2>2, ElsewhereStep
<1>11. CASE Cleared \/ PublishProfile \/ PublishCatalog
  <2>1. "export" \in Procs /\ pc["export"] \in {"clear", "profiles"} /\ UNCHANGED <<files, mixed, mine, done>>
    BY <1>11 DEF Procs, Cleared, PublishProfile, PublishCatalog, syncVars, dir
  <2>2. pc' = pc \/ \E where \in AfterLoad : pc' = [pc EXCEPT !["export"] = where]
    BY <1>11 DEF Cleared, PublishProfile, PublishCatalog, Go, AfterLoad
  <2>3. todo' = todo \/ \E S : todo' = [todo EXCEPT !["export"] = S]
    BY <1>11 DEF Cleared, PublishProfile, PublishCatalog
  <2>4. Elsewhere
    BY <2>1, <2>2, <2>3 DEF Elsewhere, TypeInv, InSync, AfterLoad
  <2> QED
    BY <2>4, ElsewhereStep
<1> QED
  BY <1>0, <1>1, <1>2, <1>3, <1>4, <1>5, <1>6, <1>7, <1>8, <1>9, <1>10, <1>11 DEF Next

CatalogInv == TypeInv /\ HoldInv /\ DiskInv
LEMMA CatalogInvariant == Spec => []CatalogInv
<1>1. Init => CatalogInv
  BY TypeInit, DiskInit DEF CatalogInv
<1>2. CatalogInv /\ [Next]_vars => CatalogInv'
  BY TypeStep, DiskStep DEF CatalogInv
<1> QED
  BY <1>1, <1>2, PTL DEF Spec

\* A whole index.json seals its version's entries and nothing else, for any
\* versions of CATALOG and any order of syncs, deaths and edits, unless syncs
\* overlapped or one died unlinking (sync_utls_catalog.py:592-620).
THEOREM IndexAlwaysSeals == Spec => []IndexSealsCatalog
<1>1. CatalogInv => IndexSealsCatalog
  <2> SUFFICES ASSUME CatalogInv, files[Index] \in Versions, ~mixed, \A p \in Procs : pc[p] # "unlink"
               PROVE  Sealed
    BY DEF IndexSealsCatalog, Sealed
  <2>1. CASE \A p \in Procs : pc[p] \notin InSync
    BY <2>1 DEF CatalogInv, DiskInv
  <2>2. ASSUME NEW p \in Procs, pc[p] \in InSync PROVE Sealed
    <3>1. pc[p] \in {"write", "fill"} /\ Alone(p)
      BY <2>2 DEF CatalogInv, DiskInv, InSync
    <3> QED
      BY <3>1, AloneIsSealed DEF CatalogInv
  <2> QED
    BY <2>1, <2>2
<1> QED
  BY <1>1, CatalogInvariant, PTL

-----------------------------------------------------------------------------
(* What is loaded from a sealed catalog                                    *)

Listed(p) == pc[p] = "load" => \A s \in Shorts : docs[p][s] = IF s \in todo[p] THEN Gone ELSE files[s]
Kept(p) == pc[p] \in AfterLoad \/ outcome[p] = "ok" => \A s \in Shorts : docs[p][s] = files[s]
PureInv == \A p \in Procs : pure[p] =>
  /\ \A q \in Procs : pc[q] \notin InSync
  /\ ~mixed /\ files[Index] \in Versions
  /\ Listed(p) /\ Kept(p)

\* A step of one process, of which the others see nothing.
LEMMA PureOfOne ==
  ASSUME TypeInv, PureInv, NEW p \in Procs, pc[p] \notin InSync, pc'[p] \notin InSync,
         files' = files, mixed' = mixed,
         \A q \in Procs \ {p} :
           pc'[q] = pc[q] /\ todo'[q] = todo[q] /\ docs'[q] = docs[q] /\ outcome'[q] = outcome[q] /\ pure'[q] = pure[q],
         pure'[p] => /\ pure[p] \/ ((\A q \in Procs : pc[q] \notin InSync) /\ ~mixed /\ files[Index] \in Versions)
                     /\ Listed(p)' /\ Kept(p)'
  PROVE  PureInv'
<1> SUFFICES ASSUME NEW r \in Procs, pure'[r]
             PROVE  /\ \A q \in Procs : pc'[q] \notin InSync
                    /\ ~mixed' /\ files'[Index] \in Versions
                    /\ Listed(r)' /\ Kept(r)'
  BY DEF PureInv
<1>1. CASE r = p
  BY <1>1 DEF PureInv
<1>2. CASE r # p
  <2>1. pure[r] /\ pc'[r] = pc[r] /\ todo'[r] = todo[r] /\ docs'[r] = docs[r] /\ outcome'[r] = outcome[r]
    BY <1>2
  <2>2. Listed(r) /\ Kept(r) /\ (\A q \in Procs : pc[q] \notin InSync) /\ ~mixed /\ files[Index] \in Versions
    BY <2>1 DEF PureInv
  <2>3. Listed(r)' /\ Kept(r)'
    BY <2>1, <2>2 DEF Listed, Kept
  <2> QED
    BY <2>2, <2>3
<1> QED
  BY <1>1, <1>2

LEMMA PureEnds ==
  ASSUME TypeInv, PureInv, NEW p \in Procs, NEW how \in {"ok", "fail", "raise", "dead"}, Ends(p, how),
         pc[p] \notin InSync, how = "ok" => pc[p] \in AfterLoad,
         files' = files, mixed' = mixed
  PROVE  PureInv'
<1>1. /\ pc' = [pc EXCEPT ![p] = "idle"] /\ outcome' = [outcome EXCEPT ![p] = how]
      /\ todo' = [todo EXCEPT ![p] = {}]
      /\ IF how = "ok" THEN UNCHANGED <<docs, mine, pure>>
         ELSE docs' = [docs EXCEPT ![p] = NoDocs] /\ pure' = [pure EXCEPT ![p] = FALSE]
  BY DEF Ends, Go
<1>2. \A q \in Procs \ {p} :
        pc'[q] = pc[q] /\ todo'[q] = todo[q] /\ docs'[q] = docs[q] /\ outcome'[q] = outcome[q] /\ pure'[q] = pure[q]
  BY <1>1 DEF TypeInv
<1>3. pc'[p] = "idle" /\ outcome'[p] = how
  BY <1>1 DEF TypeInv
<1>4. ASSUME pure'[p] PROVE pure[p] /\ Listed(p)' /\ Kept(p)'
  <2>1. how = "ok" /\ docs' = docs /\ pure[p]
    BY <1>1, <1>4 DEF TypeInv
  <2>2. Kept(p)
    BY <2>1 DEF PureInv
  <2> QED
    BY <1>3, <2>1, <2>2 DEF Listed, Kept
<1>5. pc'[p] \notin InSync
  BY <1>3 DEF InSync
<1> QED
  BY <1>2, <1>4, <1>5, PureOfOne

LEMMA PureStep ==
  ASSUME CatalogInv, PureInv, [Next]_vars
  PROVE  PureInv'
<1> USE VersionFacts
<1>t. TypeInv /\ HoldInv
  BY DEF CatalogInv
<1>0. CASE UNCHANGED vars
  BY <1>0 DEF vars, syncVars, dir, PureInv, Listed, Kept
<1>1. ASSUME NEW p \in Procs, StartSync(p) PROVE PureInv'
  BY <1>1 DEF StartSync, PureInv
<1>2. ASSUME NEW p \in Procs, pc[p] \in InSync,
             Unlink(p) \/ AllUnlinked(p) \/ SyncOpens(p) \/ SyncFills(p) \/ SyncEnds(p) \/ Dies(p)
      PROVE  PureInv'
  <2>1. \A q \in Procs : ~pure[q]
    BY <1>2 DEF PureInv
  <2>2. pure' = pure \/ pure' = [pure EXCEPT ![p] = FALSE]
    BY <1>2 DEF Unlink, AllUnlinked, SyncOpens, SyncFills, SyncEnds, Dies, Ends
  <2>3. \A q \in Procs : ~pure'[q]
    BY <1>t, <2>1, <2>2 DEF TypeInv
  <2> QED
    BY <2>3 DEF PureInv
<1>3. ASSUME NEW p \in Procs, Dies(p), pc[p] \notin InSync PROVE PureInv'
  <2>1. Ends(p, "dead") /\ files' = files /\ mixed' = mixed
    BY <1>3, <1>t DEF Dies, InSync, TypeInv
  <2> QED
    BY <1>t, <1>3, <2>1, PureEnds
<1>4. ASSUME NEW p \in Procs, StartLoad(p) PROVE PureInv'
  <2>1. /\ pc[p] = "idle" /\ pc' = [pc EXCEPT ![p] = "list"] /\ outcome' = [outcome EXCEPT ![p] = "none"]
        /\ UNCHANGED <<files, mixed, todo, docs, pure>>
    BY <1>4 DEF StartLoad, Starts, Go
  <2>2. pc'[p] = "list" /\ outcome'[p] = "none" /\ pc[p] \notin InSync /\ pc'[p] \notin InSync
    BY <1>t, <2>1 DEF TypeInv, InSync
  <2>3. Listed(p)' /\ Kept(p)'
    BY <2>2 DEF Listed, Kept, AfterLoad
  <2> QED
    BY <1>t, <2>1, <2>2, <2>3, PureOfOne DEF TypeInv
<1>5. ASSUME NEW p \in Procs, ListCatalog(p) PROVE PureInv'
  <2>1. /\ pc[p] = "list" /\ pc' = [pc EXCEPT ![p] = "load"]
        /\ todo' = [todo EXCEPT ![p] = Present(files) \ {Index}] /\ docs' = [docs EXCEPT ![p] = NoDocs]
        /\ pure' = [pure EXCEPT ![p] = Syncing = {} /\ ~mixed /\ files[Index] \in Versions]
        /\ UNCHANGED <<files, mixed, outcome>>
    BY <1>5 DEF ListCatalog, Go, syncVars, dir
  <2>2. /\ pc'[p] = "load" /\ outcome'[p] = "none" /\ pc[p] \notin InSync /\ pc'[p] \notin InSync
        /\ todo'[p] = Present(files) \ {Index} /\ docs'[p] = NoDocs
    BY <1>t, <2>1 DEF TypeInv, HoldInv, Hold, InSync
  <2>3. pure'[p] => (\A q \in Procs : pc[q] \notin InSync) /\ ~mixed /\ files[Index] \in Versions
    BY <1>t, <2>1, SyncingIs DEF TypeInv
  <2>4. Listed(p)' /\ Kept(p)'
    <3>1. ASSUME NEW s \in Shorts PROVE NoDocs[s] = IF s \in Present(files) \ {Index} THEN Gone ELSE files[s]
      BY <1>t DEF NoDocs, Present, TypeInv
    <3> QED
      BY <2>1, <2>2, <3>1 DEF Listed, Kept, AfterLoad
  <2>5. \A q \in Procs \ {p} :
          pc'[q] = pc[q] /\ todo'[q] = todo[q] /\ docs'[q] = docs[q] /\ outcome'[q] = outcome[q] /\ pure'[q] = pure[q]
    BY <1>t, <2>1 DEF TypeInv
  <2> QED
    BY <1>t, <2>1, <2>2, <2>3, <2>4, <2>5, PureOfOne
<1>6. ASSUME NEW p \in Procs, LoadDoc(p) PROVE PureInv'
  <2> DEFINE n == First(ReadOrder, todo[p])
  <2>1. n \in todo[p] /\ n \in Shorts /\ pc[p] = "load" /\ outcome[p] = "none"
    BY <1>6, <1>t, FirstIsIn DEF LoadDoc, HoldInv, Hold
  <2>2. UNCHANGED <<files, mixed>> /\ pc[p] \notin InSync
    BY <1>6, <2>1 DEF LoadDoc, dir, InSync
  <2>3. CASE files[n] \in {Gone, Torn}
    <3>1. Ends(p, "raise")
      BY <1>6, <2>3 DEF LoadDoc
    <3> QED
      BY <1>t, <2>2, <3>1, PureEnds
  <2>4. CASE files[n] \notin {Gone, Torn}
    <3> HIDE DEF n
    <3>1. /\ docs' = [docs EXCEPT ![p][n] = files[n]]
          /\ todo' = [todo EXCEPT ![p] = @ \ {n}]
          /\ UNCHANGED <<pc, outcome, mine, done, pure>>
      BY <1>6, <2>4 DEF LoadDoc, n
    <3>2. /\ todo'[p] = todo[p] \ {n}
          /\ docs'[p] = [docs[p] EXCEPT ![n] = files[n]] /\ docs[p] \in [Shorts -> {Gone} \cup Versions]
      BY <1>t, <3>1 DEF TypeInv
    <3>3. ASSUME pure'[p] PROVE pure[p] /\ Listed(p)' /\ Kept(p)'
      <4>1. pure[p] /\ \A s \in Shorts : docs[p][s] = IF s \in todo[p] THEN Gone ELSE files[s]
        BY <2>1, <3>1, <3>3 DEF PureInv, Listed
      <4>2. \A s \in Shorts : docs'[p][s] = IF s \in todo'[p] THEN Gone ELSE files[s]
        BY <2>1, <3>2, <4>1
      <4> QED
        BY <2>1, <2>2, <3>1, <4>1, <4>2 DEF Listed, Kept, AfterLoad
    <3>4. \A q \in Procs \ {p} :
            pc'[q] = pc[q] /\ todo'[q] = todo[q] /\ docs'[q] = docs[q] /\ outcome'[q] = outcome[q] /\ pure'[q] = pure[q]
      BY <1>t, <3>1 DEF TypeInv
    <3>5. pc'[p] \notin InSync
      BY <2>2, <3>1
    <3> QED
      BY <1>t, <2>2, <3>3, <3>4, <3>5, PureOfOne
  <2> QED
    BY <2>3, <2>4
<1>7. ASSUME NEW p \in Procs, Loaded(p) PROVE PureInv'
  <2>1. /\ pc[p] = "load" /\ todo[p] = {} /\ UNCHANGED <<files, mixed, todo, docs, outcome, pure>>
        /\ \E where \in {"match", "clear"} : pc' = [pc EXCEPT ![p] = where]
    BY <1>7 DEF Loaded, Go, syncVars, dir
  <2>2. pc'[p] \in {"match", "clear"} /\ \A q \in Procs \ {p} : pc'[q] = pc[q]
    BY <1>t, <2>1 DEF TypeInv
  <2>3. ASSUME pure'[p] PROVE pure[p] /\ Listed(p)' /\ Kept(p)'
    <3>1. pure[p] /\ \A s \in Shorts : docs[p][s] = files[s]
      BY <2>1, <2>3 DEF PureInv, Listed
    <3> QED
      BY <2>1, <2>2, <3>1 DEF Listed, Kept
  <2>4. pc[p] \notin InSync /\ pc'[p] \notin InSync
    BY <2>1, <2>2 DEF InSync
  <2> QED
    BY <1>t, <2>1, <2>2, <2>3, <2>4, PureOfOne
<1>8. CASE Match \/ WriteTemplates
  <2>1. \E p \in Procs, how \in {"ok", "fail"} : Ends(p, how) /\ pc[p] \in {"match", "templates"}
    BY <1>8 DEF Match, WriteTemplates, Procs
  <2>2. files' = files /\ mixed' = mixed
    BY <1>8 DEF Match, WriteTemplates, dir
  <2>3. PICK p \in Procs, how \in {"ok", "fail"} : Ends(p, how) /\ pc[p] \in {"match", "templates"}
    BY <2>1
  <2>4. pc[p] \notin InSync /\ pc[p] \in AfterLoad
    BY <2>3 DEF InSync, AfterLoad
  <2> QED
    BY <1>t, <2>2, <2>3, <2>4, PureEnds
<1>9. CASE ClearProfile \/ ClearCatalog \/ EditCatalog
  <2>1. UNCHANGED <<files, mixed, pc, todo, docs, outcome, pure>>
    BY <1>9 DEF ClearProfile, ClearCatalog, EditCatalog, syncVars, dir
  <2> QED
    BY <2>1 DEF PureInv, Listed, Kept
<1>10. CASE Cleared \/ PublishProfile \/ PublishCatalog
  <2>1. "export" \in Procs /\ pc["export"] \in {"clear", "profiles"} /\ UNCHANGED <<files, mixed, docs, outcome, pure>>
    BY <1>10 DEF Procs, Cleared, PublishProfile, PublishCatalog, syncVars, dir
  <2>2. pc' = pc \/ \E where \in {"profiles", "templates"} : pc' = [pc EXCEPT !["export"] = where]
    BY <1>10 DEF Cleared, PublishProfile, PublishCatalog, Go
  <2>3. todo' = todo \/ \E S : todo' = [todo EXCEPT !["export"] = S]
    BY <1>10 DEF Cleared, PublishProfile, PublishCatalog
  <2>4. pc'["export"] \in {"clear", "profiles", "templates"}
        /\ \A q \in Procs \ {"export"} : pc'[q] = pc[q] /\ todo'[q] = todo[q]
    BY <1>t, <2>1, <2>2, <2>3 DEF TypeInv
  <2>5. ASSUME pure'["export"] PROVE pure["export"] /\ Listed("export")' /\ Kept("export")'
    <3>1. pure["export"] /\ Kept("export") /\ pc["export"] \in AfterLoad
      BY <2>1, <2>5 DEF PureInv, AfterLoad
    <3>2. \A s \in Shorts : docs["export"][s] = files[s]
      BY <3>1 DEF Kept
    <3> QED
      BY <2>1, <2>4, <3>1, <3>2 DEF Listed, Kept
  <2>6. pc["export"] \notin InSync /\ pc'["export"] \notin InSync
    BY <2>1, <2>4 DEF InSync
  <2> QED
    BY <1>t, <2>1, <2>4, <2>5, <2>6, PureOfOne
<1>11. ASSUME NEW p \in Procs, Unlink(p) \/ AllUnlinked(p) \/ SyncOpens(p) \/ SyncFills(p) \/ SyncEnds(p)
       PROVE  pc[p] \in InSync
  BY <1>11 DEF Unlink, AllUnlinked, SyncOpens, SyncFills, SyncEnds, InSync
<1> QED
  BY <1>0, <1>1, <1>2, <1>3, <1>4, <1>5, <1>6, <1>7, <1>8, <1>9, <1>10, <1>11 DEF Next

\* What a process made of a sealed catalog, alone, is one version of CATALOG and
\* none older than it synced, for any versions, deaths and edits
\* (export_dist.py:34-36, 194-207; match_utls_catalog.py:121-124).
THEOREM OneCatalogIsLoaded == Spec => []LoadsOneCatalog
<1> USE VersionFacts
<1>1. Init => PureInv
  BY DEF Init, PureInv
<1>2. CatalogInv /\ PureInv /\ [Next]_vars => PureInv'
  BY PureStep
<1>3. CatalogInv /\ PureInv => LoadsOneCatalog
  <2> SUFFICES ASSUME CatalogInv, PureInv, NEW p \in Procs, outcome[p] = "ok", pure[p]
               PROVE  \E v \in Versions : docs[p] = Whole(v) /\ mine[p] <= v
    BY DEF LoadsOneCatalog
  <2>1. Kept(p) /\ files[Index] \in Versions /\ ~mixed /\ \A q \in Procs : pc[q] \notin InSync
    BY DEF PureInv
  <2>2. Sealed
    BY <2>1 DEF CatalogInv, DiskInv
  <2>3. \A s \in Shorts : docs[p][s] = Whole(files[Index])[s]
    BY <2>1, <2>2 DEF Kept, Sealed
  <2>4. docs[p] \in [Shorts -> {Gone} \cup Versions]
    BY DEF CatalogInv, TypeInv
  <2>5. docs[p] = Whole(files[Index])
    BY <2>3, <2>4 DEF Whole
  <2> QED
    BY <2>1, <2>2, <2>5 DEF Sealed
<1> QED
  BY <1>1, <1>2, <1>3, CatalogInvariant, PTL DEF Spec

-----------------------------------------------------------------------------
(* The export                                                              *)

\* An entry that is there is of the version its content says.
OfItsVersion(f) == \A s \in Shorts : f[s] \in Versions => s \in ShortsOf(f[s])
Placed == OfItsVersion(files) /\ OfItsVersion(catalog) /\ \A p \in Procs : OfItsVersion(docs[p])

\* A step of a process that neither writes files nor the catalog.
LEMMA PlacedDocs ==
  ASSUME TypeInv, Placed, UNCHANGED <<files, catalog>>, NEW p \in Procs,
         docs' = docs \/ docs' = [docs EXCEPT ![p] = NoDocs]
  PROVE  Placed'
<1> USE VersionFacts
<1>1. OfItsVersion(NoDocs)
  BY DEF OfItsVersion, NoDocs
<1>2. \A q \in Procs : docs'[q] = docs[q] \/ docs'[q] = NoDocs
  BY DEF TypeInv
<1>3. \A q \in Procs : OfItsVersion(docs'[q])
  BY <1>1, <1>2 DEF Placed
<1> QED
  BY <1>3 DEF Placed, OfItsVersion

LEMMA PlacedStep ==
  ASSUME TypeInv, HoldInv, Placed, [Next]_vars
  PROVE  Placed'
<1> USE VersionFacts
<1>0. OfItsVersion(NoDocs) /\ "export" \in Procs /\ "unify" \in Procs
  BY DEF OfItsVersion, NoDocs, Procs
<1>1. ASSUME NEW p \in Procs,
             StartSync(p) \/ AllUnlinked(p) \/ SyncEnds(p) \/ StartLoad(p) \/ ListCatalog(p) \/ Loaded(p)
      PROVE  Placed'
  BY <1>1, PlacedDocs DEF StartSync, AllUnlinked, SyncEnds, StartLoad, ListCatalog, Loaded,
                          syncVars, dir, outVars
<1>2. ASSUME NEW p \in Procs, Unlink(p) PROVE Placed'
  <2>1. PICK n \in todo[p] : files' = files \/ files' = [files EXCEPT ![n] = Gone]
    BY <1>2 DEF Unlink
  <2>2. OfItsVersion(files')
    BY <2>1 DEF Placed, OfItsVersion, TypeInv
  <2>3. catalog' = catalog /\ (docs' = docs \/ docs' = [docs EXCEPT ![p] = NoDocs])
    BY <1>2 DEF Unlink, Ends, outVars
  <2>4. \A q \in Procs : docs'[q] = docs[q] \/ docs'[q] = NoDocs
    BY <2>3 DEF TypeInv
  <2>5. \A q \in Procs : OfItsVersion(docs'[q])
    BY <1>0, <2>4 DEF Placed
  <2> QED
    BY <2>2, <2>3, <2>5 DEF Placed, OfItsVersion
<1>3. ASSUME NEW p \in Procs, SyncOpens(p) PROVE Placed'
  <2>1. files' = [files EXCEPT ![SyncTarget(p)] = Torn] /\ UNCHANGED <<docs, catalog>>
    BY <1>3 DEF SyncOpens, outVars
  <2>2. OfItsVersion(files')
    BY <2>1 DEF Placed, OfItsVersion, TypeInv
  <2> QED
    BY <2>1, <2>2 DEF Placed, OfItsVersion
<1>4. ASSUME NEW p \in Procs, SyncFills(p) PROVE Placed'
  <2>1. PICK content \in {mine[p], files[SyncTarget(p)], Torn} :
          files' = [files EXCEPT ![SyncTarget(p)] = content]
    BY <1>4 DEF SyncFills
  <2>2. mine[p] \in Versions /\ done[p] \in Nat /\ done[p] <= Len(Catalogs[mine[p]])
    BY <1>4 DEF SyncFills, HoldInv, Hold, InSync, TypeInv
  <2>3. SyncTarget(p) \in Shorts => SyncTarget(p) \in ShortsOf(mine[p])
    <3>1. CASE done[p] < Len(Catalogs[mine[p]])
      <4>1. done[p] + 1 \in DOMAIN Catalogs[mine[p]]
        BY <2>2, <3>1, PublishAssumption
      <4> QED
        BY <3>1, <4>1 DEF SyncTarget, ShortsOf, DocsOf
    <3>2. CASE ~(done[p] < Len(Catalogs[mine[p]]))
      BY <3>2 DEF SyncTarget
    <3> QED
      BY <3>1, <3>2
  <2>4. OfItsVersion(files')
    BY <2>1, <2>3 DEF Placed, OfItsVersion, TypeInv
  <2>5. UNCHANGED <<docs, catalog>>
    BY <1>4 DEF SyncFills, outVars
  <2> QED
    BY <2>4, <2>5 DEF Placed, OfItsVersion
<1>5. ASSUME NEW p \in Procs, LoadDoc(p) PROVE Placed'
  <2> DEFINE n == First(ReadOrder, todo[p])
  <2>1. n \in Shorts
    BY <1>5, FirstIsIn DEF LoadDoc, HoldInv, Hold
  <2>2. UNCHANGED <<files, catalog>>
    BY <1>5 DEF LoadDoc, dir, outVars
  <2>3. CASE files[n] \in {Gone, Torn}
    BY <1>5, <2>2, <2>3, PlacedDocs DEF LoadDoc, Ends
  <2>4. CASE files[n] \notin {Gone, Torn}
    <3>1. docs' = [docs EXCEPT ![p][n] = files[n]]
      BY <1>5, <2>4 DEF LoadDoc
    <3> HIDE DEF n
    <3>2. \A q \in Procs, s \in Shorts : docs'[q][s] = docs[q][s] \/ docs'[q][s] = files[s]
      BY <2>1, <3>1 DEF TypeInv
    <3>3. \A q \in Procs : OfItsVersion(docs'[q])
      BY <3>2 DEF Placed, OfItsVersion
    <3> QED
      BY <2>2, <3>3 DEF Placed, OfItsVersion
  <2> QED
    BY <2>3, <2>4
<1>6. ASSUME NEW p \in Procs, Dies(p) PROVE Placed'
  BY <1>6, PlacedDocs DEF Dies, Ends
<1>7. CASE Match \/ WriteTemplates
  BY <1>0, <1>7, PlacedDocs DEF Match, WriteTemplates, Ends, dir, outVars
<1>8. CASE ClearProfile \/ Cleared \/ PublishProfile \/ EditCatalog \/ UNCHANGED vars
  BY <1>0, <1>8, PlacedDocs DEF ClearProfile, Cleared, PublishProfile, EditCatalog, vars, syncVars, dir, outVars
<1>9. CASE ClearCatalog \/ PublishCatalog
  <2>1. UNCHANGED <<files, docs>> /\ catalog' \in {NoDocs, docs["export"]}
    BY <1>9 DEF ClearCatalog, PublishCatalog, syncVars, dir
  <2>2. OfItsVersion(catalog')
    BY <1>0, <2>1 DEF Placed
  <2> QED
    BY <2>1, <2>2 DEF Placed, OfItsVersion
<1> QED
  BY <1>1, <1>2, <1>3, <1>4, <1>5, <1>6, <1>7, <1>8, <1>9 DEF Next

\* What is published: while profiles are written there is no catalog, and one
\* that is there lists them, but after a death inside rmtree.
ExportInv ==
  /\ profiles \in [Shorts -> Contents] /\ catalog \in [Shorts -> {Gone} \cup Versions]
  /\ pc["unify"] \notin {"clear", "profiles", "templates"}
  /\ catalog # NoDocs /\ pc["export"] # "clear" /\ ~cut => profiles = catalog
  /\ pc["export"] = "profiles" =>
       /\ catalog = NoDocs /\ todo["export"] \subseteq Shorts
       /\ \A s \in Shorts : IF s \in todo["export"] THEN profiles[s] \in {Gone, Torn}
                            ELSE profiles[s] = docs["export"][s]
  /\ pc["export"] = "templates" => catalog = docs["export"]
  /\ outcome["export"] = "ok" => templates = catalog /\ catalog = docs["export"]

\* A step that publishes nothing.
LEMMA ExportElsewhere ==
  ASSUME ExportInv, UNCHANGED <<profiles, catalog>>,
         pc'["unify"] \notin {"clear", "profiles", "templates"},
         cut' = cut \/ cut' = TRUE,
         \/ /\ pc'["export"] = pc["export"] /\ todo'["export"] = todo["export"]
            /\ docs'["export"] = docs["export"] /\ outcome'["export"] = outcome["export"]
            /\ templates' = templates
         \/ /\ pc'["export"] \notin {"profiles", "templates"} /\ outcome'["export"] # "ok"
            /\ pc["export"] = "clear" => pc'["export"] = "clear" \/ cut' = TRUE
  PROVE  ExportInv'
  BY DEF ExportInv

LEMMA ExportStep ==
  ASSUME TypeInv, HoldInv, ExportInv, [Next]_vars
  PROVE  ExportInv'
<1> USE VersionFacts
<1>0. "export" \in Procs /\ "unify" \in Procs
  BY DEF Procs
<1>1. ASSUME NEW p \in Procs,
             \/ StartSync(p) \/ AllUnlinked(p) \/ SyncOpens(p) \/ SyncFills(p) \/ SyncEnds(p)
             \/ StartLoad(p) \/ ListCatalog(p) \/ Loaded(p)
      PROVE  ExportInv'
  <2>1. /\ UNCHANGED outVars
        /\ \E where \in {"unlink", "write", "fill", "list", "load", "match", "clear"} :
             /\ pc' = [pc EXCEPT ![p] = where]
             /\ where = "clear" => p = "export"
    BY <1>1 DEF StartSync, AllUnlinked, SyncOpens, SyncFills, SyncEnds, StartLoad, ListCatalog, Loaded,
                Starts, Go, Procs
  <2>2. /\ todo' = todo \/ \E S : todo' = [todo EXCEPT ![p] = S]
        /\ docs' = docs \/ \E f : docs' = [docs EXCEPT ![p] = f]
        /\ outcome' = outcome \/ outcome' = [outcome EXCEPT ![p] = "none"]
    BY <1>1 DEF StartSync, AllUnlinked, SyncOpens, SyncFills, SyncEnds, StartLoad, ListCatalog, Loaded,
                syncVars
  <2>3. pc[p] # "clear" /\ outcome'[p] # "ok"
    BY <1>1 DEF StartSync, AllUnlinked, SyncOpens, SyncFills, SyncEnds, StartLoad, ListCatalog, Loaded,
                Starts, TypeInv, HoldInv, Hold
  <2>4. CASE p = "export"
    BY <1>0, <2>1, <2>2, <2>3, <2>4, ExportElsewhere DEF TypeInv, outVars, ExportInv
  <2>5. CASE p = "unify"
    BY <1>0, <2>1, <2>2, <2>3, <2>5, ExportElsewhere DEF TypeInv, outVars, ExportInv
  <2> QED
    BY <2>4, <2>5 DEF Procs
<1>2. ASSUME NEW p \in Procs, Unlink(p) PROVE ExportInv'
  <2>1. UNCHANGED outVars /\ pc[p] = "unlink" /\ outcome[p] = "none"
    BY <1>2 DEF Unlink, HoldInv, Hold
  <2>2. \/ pc' = [pc EXCEPT ![p] = "idle"] /\ outcome' = [outcome EXCEPT ![p] = "raise"]
           /\ todo' = [todo EXCEPT ![p] = {}] /\ docs' = [docs EXCEPT ![p] = NoDocs]
        \/ UNCHANGED <<pc, outcome, docs>> /\ \E n : todo' = [todo EXCEPT ![p] = @ \ {n}]
    BY <1>2 DEF Unlink, Ends, Go
  <2>3. CASE p = "export"
    BY <1>0, <2>1, <2>2, <2>3, ExportElsewhere DEF TypeInv, outVars, ExportInv
  <2>4. CASE p = "unify"
    BY <1>0, <2>1, <2>2, <2>4, ExportElsewhere DEF TypeInv, outVars, ExportInv
  <2> QED
    BY <2>3, <2>4 DEF Procs
<1>3. ASSUME NEW p \in Procs, LoadDoc(p) PROVE ExportInv'
  <2>1. UNCHANGED outVars /\ pc[p] = "load" /\ outcome[p] = "none"
    BY <1>3 DEF LoadDoc, HoldInv, Hold
  <2>2. \/ pc' = [pc EXCEPT ![p] = "idle"] /\ outcome' = [outcome EXCEPT ![p] = "raise"]
           /\ todo' = [todo EXCEPT ![p] = {}] /\ docs' = [docs EXCEPT ![p] = NoDocs]
        \/ UNCHANGED <<pc, outcome>> /\ \E n, v : /\ todo' = [todo EXCEPT ![p] = @ \ {n}]
                                                 /\ docs' = [docs EXCEPT ![p][n] = v]
    BY <1>3 DEF LoadDoc, Ends, Go
  <2>3. CASE p = "export"
    BY <1>0, <2>1, <2>2, <2>3, ExportElsewhere DEF TypeInv, outVars, ExportInv
  <2>4. CASE p = "unify"
    BY <1>0, <2>1, <2>2, <2>4, ExportElsewhere DEF TypeInv, outVars, ExportInv
  <2> QED
    BY <2>3, <2>4 DEF Procs
<1>4. ASSUME NEW p \in Procs, Dies(p) PROVE ExportInv'
  <2>1. /\ UNCHANGED <<profiles, catalog>>
        /\ cut' = (cut \/ pc[p] = "clear")
        /\ pc' = [pc EXCEPT ![p] = "idle"] /\ outcome' = [outcome EXCEPT ![p] = "dead"]
        /\ todo' = [todo EXCEPT ![p] = {}] /\ docs' = [docs EXCEPT ![p] = NoDocs]
        /\ pc[p] # "templates" => templates' = templates
    BY <1>4 DEF Dies, Ends, Go
  <2>2. CASE p = "export"
    BY <1>0, <2>1, <2>2, ExportElsewhere DEF TypeInv, ExportInv
  <2>3. CASE p = "unify"
    BY <1>0, <2>1, <2>3, ExportElsewhere DEF TypeInv, ExportInv
  <2> QED
    BY <2>2, <2>3 DEF Procs
<1>5. CASE Match
  <2>1. PICK how \in {"ok", "fail"} : Ends("unify", how)
    BY <1>5 DEF Match
  <2>2. /\ UNCHANGED outVars
        /\ pc' = [pc EXCEPT !["unify"] = "idle"] /\ outcome' = [outcome EXCEPT !["unify"] = how]
        /\ todo' = [todo EXCEPT !["unify"] = {}]
        /\ docs' = docs \/ docs' = [docs EXCEPT !["unify"] = NoDocs]
    BY <1>5, <2>1 DEF Match, Ends, Go
  <2> QED
    BY <1>0, <2>2, ExportElsewhere DEF TypeInv, outVars
<1>6. CASE ClearProfile
  <2>1. PICK s \in Present(profiles) : profiles' = [profiles EXCEPT ![s] = Gone]
    BY <1>6 DEF ClearProfile
  <2>2. pc["export"] = "clear" /\ UNCHANGED <<catalog, templates, cut, pc, todo, docs, outcome>>
    BY <1>6 DEF ClearProfile
  <2> QED
    BY <2>1, <2>2 DEF ExportInv, Contents, Present
<1>7. CASE ClearCatalog
  BY <1>0, <1>7 DEF ClearCatalog, ExportInv, NoDocs, HoldInv, Hold
<1>8. CASE Cleared
  <2>1. /\ pc["export"] = "clear" /\ Present(profiles) = {} /\ catalog = NoDocs
        /\ pc' = [pc EXCEPT !["export"] = "profiles"]
        /\ todo' = [todo EXCEPT !["export"] = Present(docs["export"])]
        /\ UNCHANGED <<profiles, catalog, templates, docs, outcome>>
    BY <1>8 DEF Cleared, Go
  <2>2. /\ pc'["export"] = "profiles" /\ pc'["unify"] = pc["unify"]
        /\ todo'["export"] = Present(docs["export"])
    BY <1>0, <2>1 DEF TypeInv
  <2>3. docs["export"] \in [Shorts -> {Gone} \cup Versions] /\ outcome["export"] = "none"
    BY <1>0, <2>1 DEF TypeInv, HoldInv, Hold
  <2>4. \A s \in Shorts : profiles[s] = Gone
    BY <2>1 DEF ExportInv, Present
  <2>5. \A s \in Shorts : s \notin todo'["export"] => docs["export"][s] = Gone
    BY <2>2, <2>3 DEF Present
  <2> QED
    BY <2>1, <2>2, <2>3, <2>4, <2>5 DEF ExportInv, Present
<1>9. CASE PublishProfile
  <2> DEFINE s == First(ShortOrder, todo["export"])
  <2>1. /\ pc["export"] = "profiles" /\ todo["export"] # {} /\ todo["export"] \subseteq Shorts
        /\ outcome["export"] = "none"
    BY <1>0, <1>9 DEF PublishProfile, ExportInv, HoldInv, Hold
  <2>2. s \in todo["export"] /\ s \in Shorts
    BY <2>1, FirstIsIn
  <2>3. UNCHANGED <<catalog, templates, cut, pc, docs, outcome>>
    BY <1>9 DEF PublishProfile
  <2>4. \/ profiles' = [profiles EXCEPT ![s] = Torn] /\ todo' = todo
        \/ /\ profiles' = [profiles EXCEPT ![s] = docs["export"][s]]
           /\ todo' = [todo EXCEPT !["export"] = @ \ {s}]
    BY <1>9 DEF PublishProfile
  <2>5. docs["export"][s] \in Contents /\ Torn \in Contents
    BY <1>0, <2>2 DEF TypeInv, Contents
  <2> HIDE DEF s
  <2>6. todo'["export"] = todo["export"] \/ todo'["export"] = todo["export"] \ {s}
    BY <1>0, <2>4 DEF TypeInv
  <2>7. profiles' \in [Shorts -> Contents]
    BY <2>4, <2>5 DEF ExportInv
  <2>8. \A t \in Shorts : IF t \in todo'["export"] THEN profiles'[t] \in {Gone, Torn}
                          ELSE profiles'[t] = docs["export"][t]
    BY <1>0, <2>1, <2>2, <2>4 DEF ExportInv, TypeInv
  <2> QED
    BY <2>1, <2>3, <2>6, <2>7, <2>8 DEF ExportInv
<1>10. CASE PublishCatalog
  <2>1. /\ pc["export"] = "profiles" /\ todo["export"] = {} /\ catalog' = docs["export"]
        /\ pc' = [pc EXCEPT !["export"] = "templates"]
        /\ UNCHANGED <<profiles, templates, docs, outcome, todo>>
    BY <1>10 DEF PublishCatalog, AllPublished, Go
  <2>2. docs["export"] \in [Shorts -> {Gone} \cup Versions] /\ outcome["export"] = "none"
    BY <1>0, <2>1 DEF TypeInv, HoldInv, Hold
  <2>3. profiles = docs["export"]
    BY <2>1, <2>2 DEF ExportInv
  <2>4. pc'["export"] = "templates" /\ pc'["unify"] = pc["unify"]
    BY <1>0, <2>1 DEF TypeInv
  <2> QED
    BY <2>1, <2>2, <2>3, <2>4 DEF ExportInv
<1>11. CASE WriteTemplates
  <2>1. /\ pc["export"] = "templates" /\ templates' = docs["export"]
        /\ UNCHANGED <<profiles, catalog, cut, docs>>
        /\ pc' = [pc EXCEPT !["export"] = "idle"]
    BY <1>11 DEF WriteTemplates, Ends, Go
  <2>2. pc'["export"] = "idle" /\ pc'["unify"] = pc["unify"]
    BY <1>0, <2>1 DEF TypeInv
  <2> QED
    BY <2>1, <2>2 DEF ExportInv
<1>12. CASE EditCatalog \/ UNCHANGED vars
  BY <1>12 DEF EditCatalog, vars, outVars, ExportInv
<1> QED
  BY <1>1, <1>2, <1>3, <1>4, <1>5, <1>6, <1>7, <1>8, <1>9, <1>10, <1>11, <1>12 DEF Next

\* An alias leads to the entry that declares it, and hides no short, if no two
\* entries of the versions declare one: only its owner takes it in the map.
LEMMA AliasesLead ==
  ASSUME AliasesAreTheirOwn, NEW c \in [Shorts -> {Gone} \cup Versions], OfItsVersion(c),
         NEW d \in LoadedDocs(c), NEW a \in d.aliases
  PROVE  Aliases(c)[a] = d.short /\ a \notin Present(c)
<1> USE VersionFacts
<1>1. ASSUME NEW s \in Present(c)
      PROVE  /\ s \in Shorts /\ c[s] \in Versions
             /\ Doc(c[s], s) \in DocsOf(c[s]) /\ Doc(c[s], s).short = s
  BY DEF Present, OfItsVersion, ShortsOf, Doc
<1>2. PICK s \in Present(c) : d = Doc(c[s], s)
  BY DEF LoadedDocs
<1>3. s \in Shorts /\ c[s] \in Versions /\ d \in DocsOf(c[s]) /\ d.short = s
  BY <1>1, <1>2
<1>4. a \notin Shorts
  BY <1>3 DEF AliasesAreTheirOwn
<1>5. Present(c) \subseteq Shorts
  BY DEF Present
<1>6. a \in AliasesOf(c, s)
  BY <1>2, <1>3, <1>4 DEF AliasesOf
<1>7. ASSUME NEW t \in Present(c), a \in AliasesOf(c, t) PROVE t = s
  <2>1. Doc(c[t], t) \in DocsOf(c[t]) /\ Doc(c[t], t).short = t /\ c[t] \in Versions
    BY <1>1
  <2>2. a \in Doc(c[t], t).aliases
    BY <1>7 DEF AliasesOf
  <2> QED
    BY <1>3, <2>1, <2>2 DEF AliasesAreTheirOwn
<1>8. PICK i \in DOMAIN ShortOrder : ShortOrder[i] = s
  BY <1>3, PublishAssumption
<1> DEFINE owners == {j \in DOMAIN ShortOrder : ShortOrder[j] \in Present(c) /\ a \in AliasesOf(c, ShortOrder[j])}
<1>9. owners = {i}
  <2>1. \A j \in DOMAIN ShortOrder : ShortOrder[j] = s => j = i
    BY <1>8, PublishAssumption
  <2> QED
    BY <1>2, <1>6, <1>7, <1>8, <2>1
<1>10. i <= i
  BY PublishAssumption
<1>11. (CHOOSE k \in owners : \A j \in owners : j <= k) = i
  BY <1>9, <1>10
<1> HIDE DEF owners
<1>12. a \in UNION {AliasesOf(c, short) : short \in Present(c)}
  BY <1>2, <1>6
<1>13. Aliases(c)[a] = s
  BY <1>8, <1>11, <1>12 DEF Aliases, owners
<1> QED
  BY <1>3, <1>4, <1>5, <1>13

\* A catalog.json lists the profiles that lie beside it, its aliases lead to the
\* entries that declare them and the templates agree, for any versions in which
\* no two entries declare one alias, and any deaths but inside rmtree
\* (export_dist.py:89-188).
THEOREM ExportsAreComplete ==
  ASSUME AliasesAreTheirOwn
  PROVE  Spec => []ExportIsComplete
<1> USE VersionFacts
<1>1. Init => Placed /\ ExportInv
  <2> SUFFICES ASSUME Init PROVE Placed /\ ExportInv
    OBVIOUS
  <2>1. /\ OfItsVersion(NoDocs) /\ OfItsVersion(Whole(1))
        /\ NoDocs \in [Shorts -> {Gone} \cup Versions] /\ Whole(1) \in [Shorts -> {Gone} \cup Versions]
    BY DEF OfItsVersion, NoDocs, Whole
  <2>2. OfItsVersion(files)
    BY <2>1 DEF Init, OfItsVersion, Names
  <2>3. Placed
    BY <2>1, <2>2 DEF Init, Placed
  <2>4. ExportInv
    BY <2>1 DEF Init, ExportInv, Procs, Contents
  <2> QED
    BY <2>3, <2>4
<1>2. CatalogInv /\ Placed /\ ExportInv /\ [Next]_vars => Placed' /\ ExportInv'
  BY PlacedStep, ExportStep DEF CatalogInv
<1>3. Placed /\ ExportInv => ExportIsComplete
  BY AliasesLead DEF Placed, ExportInv, ExportIsComplete
<1> QED
  BY <1>1, <1>2, <1>3, CatalogInvariant, PTL DEF Spec

-----------------------------------------------------------------------------
(* The aliases of the repository's CATALOG                                 *)

Entries == {CATALOG[i] : i \in DOMAIN CATALOG}

\* The short an alias is of, "none" for what is no alias.
Owner(alias) ==
  CASE alias \in {"chromeparrot", "hy2-default", "tuic-default"} -> "chrome"
    [] alias \in {"quicgo", "plain"} -> "quic-go"
    [] alias \in {"quicgodg", "hy2plain", "tuicplain"} -> "quic-go-datagram"
    [] alias = "winyandex" -> "yandex"
    [] alias = "uquic146" -> "uquic-chrome-146"
    [] alias = "uquic115" -> "uquic-chrome-115"
    [] alias \in {"uquicff", "uquicffa", "uquicffb", "uquicffc"} -> "uquic-firefox-116"
    [] alias \in {"curlquiche", "quiche"} -> "curl-quiche"
    [] alias = "chromium" -> "chromium-stale"
    [] OTHER -> "none"

\* An entry owns its aliases, and nobody owns its short.
Owns(doc) == (\A a \in doc.aliases : Owner(a) = doc.short) /\ Owner(doc.short) = "none" /\ doc.short # "none"

LEMMA EntriesOwnTheirAliases == \A doc \in Entries : Owns(doc)
<1> USE DEF Owns, Owner, Profile
<1>1. Owns(Chrome)
  BY DEF Chrome
<1>2. Owns(QuicGo)
  BY DEF QuicGo
<1>3. Owns(QuicGoDatagram)
  BY DEF QuicGoDatagram
<1>4. Owns(Yandex)
  BY DEF Yandex
<1>5. Owns(Firefox)
  BY DEF Firefox
<1>6. Owns(UquicChrome146)
  BY DEF UquicChrome146
<1>7. Owns(UquicChrome115)
  BY DEF UquicChrome115
<1>8. Owns(UquicFirefox116)
  BY DEF UquicFirefox116
<1>9. Owns(AioQuic)
  BY DEF AioQuic
<1>10. Owns(CurlQuiche)
  BY DEF CurlQuiche
<1>11. Owns(ChromiumStale)
  BY DEF ChromiumStale
<1> HIDE DEF Owns, Owner, Profile
<1>12. ASSUME NEW doc \in Entries
       PROVE  doc \in {Chrome, QuicGo, QuicGoDatagram, Yandex, Firefox, UquicChrome146, UquicChrome115,
                       UquicFirefox116, AioQuic, CurlQuiche, ChromiumStale}
  <2>1. /\ DOMAIN CATALOG = 1 .. 11
        /\ CATALOG[1] = Chrome /\ CATALOG[2] = QuicGo /\ CATALOG[3] = QuicGoDatagram
        /\ CATALOG[4] = Yandex /\ CATALOG[5] = Firefox /\ CATALOG[6] = UquicChrome146
        /\ CATALOG[7] = UquicChrome115 /\ CATALOG[8] = UquicFirefox116 /\ CATALOG[9] = AioQuic
        /\ CATALOG[10] = CurlQuiche /\ CATALOG[11] = ChromiumStale
    BY DEF CATALOG
  <2>2. PICK i \in 1 .. 11 : doc = CATALOG[i]
    BY <2>1 DEF Entries
  <2>3. \/ i = 1 \/ i = 2 \/ i = 3 \/ i = 4 \/ i = 5 \/ i = 6
        \/ i = 7 \/ i = 8 \/ i = 9 \/ i = 10 \/ i = 11
    BY <2>2
  <2> QED
    BY <2>1, <2>2, <2>3
<1> QED
  BY <1>1, <1>2, <1>3, <1>4, <1>5, <1>6, <1>7, <1>8, <1>9, <1>10, <1>11, <1>12

\* Versions made of entries of the repository's CATALOG, all of them or some, meet
\* the premise of ExportsAreComplete (sync_utls_catalog.py:182-589).
THEOREM CatalogHasOwnAliases ==
  ASSUME \A v \in Versions : DocsOf(v) \subseteq Entries
  PROVE  AliasesAreTheirOwn
<1>1. ASSUME NEW d \in Entries, NEW e \in Entries, NEW a \in d.aliases
      PROVE  (a \in e.aliases => d.short = e.short) /\ a # e.short
  BY <1>1, EntriesOwnTheirAliases DEF Owns
<1>2. ASSUME NEW short \in Shorts PROVE \E e \in Entries : e.short = short
  BY DEF Shorts, ShortsOf
<1>3. ASSUME NEW v \in Versions, NEW w \in Versions, NEW d \in DocsOf(v), NEW e \in DocsOf(w)
      PROVE  /\ d.short # e.short => d.aliases \cap e.aliases = {}
             /\ d.aliases \cap Shorts = {}
  <2>1. d \in Entries /\ e \in Entries
    OBVIOUS
  <2>2. d.short # e.short => d.aliases \cap e.aliases = {}
    BY <1>1, <2>1
  <2>3. d.aliases \cap Shorts = {}
    BY <1>1, <1>2, <2>1
  <2> QED
    BY <2>2, <2>3
<1> QED
  BY <1>3 DEF AliasesAreTheirOwn
====
