--------------------------- MODULE ComposeLabProofs ---------------------------
(***************************************************************************)
(* What the compose lab promises for any targets, edits and filters: the   *)
(* scanner of gen-compose.py finds exactly the active targets, so where    *)
(* compose.yaml is of the targets labctl loaded every target that labctl   *)
(* runs has its name (HasName), and an OK means a profile of its own.      *)
(***************************************************************************)
EXTENDS ComposeLab, FiniteSetTheorems, TLAPS

\* A set of positions has a first one.
LEMMA LeastPosition ==
  ASSUME NEW S \in SUBSET Nat, S # {}
  PROVE  \E i \in S : \A j \in S : i <= j
<1> DEFINE Upto(i) == 0 .. i
           T == {Upto(i) : i \in S}
<1>1. T \subseteq FiniteSubsetsOf(Nat)
  <2> SUFFICES ASSUME NEW i \in S PROVE Upto(i) \in FiniteSubsetsOf(Nat)
    OBVIOUS
  <2>1. IsFiniteSet(0 .. i)
    BY FS_Interval
  <2> QED
    BY <2>1 DEF FiniteSubsetsOf
<1>2. PICK x \in T : \A y \in T : ~(<<y, x>> \in StrictSubsetOrdering(Nat))
  <2>1. T # {}
    OBVIOUS
  <2>2. IsWellFoundedOn(StrictSubsetOrdering(Nat), FiniteSubsetsOf(Nat))
    BY FS_StrictSubsetOrderingWellFounded
  <2> HIDE DEF T
  <2> QED
    BY <1>1, <2>1, <2>2, WFMin
<1>3. PICK i \in S : x = Upto(i)
  OBVIOUS
<1>4. ASSUME NEW j \in S, j < i PROVE FALSE
  <2>1. Upto(j) \in T /\ Upto(j) \subseteq Upto(i) /\ Upto(i) \subseteq Nat /\ Upto(j) # Upto(i)
    BY <1>4
  <2> HIDE DEF T, Upto
  <2> QED
    BY <1>2, <1>3, <2>1 DEF StrictSubsetOrdering
<1> QED
  BY <1>4

-----------------------------------------------------------------------------
(* The scanner                                                             *)

\* The ids of the active targets among the first k.
ActiveIDs(rs, k) == {rs[i].id : i \in {i \in 1 .. k : rs[i].status = "active"}}

\* The scanner finds the ids of the active targets and no other, in any target
\* files (gen-compose.py:9-19).
THEOREM ScannerFindsActive ==
  ASSUME NEW rs \in Seq(AllRows)
  PROVE  Scan(rs) = ActiveIDs(rs, Len(rs))
<1> DEFINE Row(s, i) == AtStatus(AtID(s, rs[i].id), rs[i].status)
           IsScan(f, k) == f = [i \in 0 .. k |-> IF i = 0 THEN Blank ELSE Row(f[i - 1], i)]
           Stuck == {k \in Nat : \A f : ~IsScan(f, k)}
           at == CHOOSE f : IsScan(f, Len(rs))
<1>1. \E f : IsScan(f, 0)
  <2>1. IsScan([i \in 0 .. 0 |-> Blank], 0)
    OBVIOUS
  <2> QED
    BY <2>1
<1>2. ASSUME NEW k \in Nat \ {0}, NEW f, IsScan(f, k - 1) PROVE \E g : IsScan(g, k)
  <2> DEFINE g == [i \in 0 .. k |-> IF i = k THEN Row(f[k - 1], k) ELSE f[i]]
  <2>1. \A i \in 0 .. k - 1 : g[i] = f[i]
    OBVIOUS
  <2>2. ASSUME NEW i \in 0 .. k PROVE g[i] = IF i = 0 THEN Blank ELSE Row(g[i - 1], i)
    <3> HIDE DEF Row
    <3>1. CASE i = k
      BY <2>1, <3>1
    <3>2. CASE i # k
      <4>1. f[i] = IF i = 0 THEN Blank ELSE Row(f[i - 1], i)
        BY <1>2, <3>2
      <4>2. g[i] = f[i] /\ (i # 0 => g[i - 1] = f[i - 1])
        BY <3>2
      <4> HIDE DEF g
      <4> QED
        BY <4>1, <4>2
    <3> QED
      BY <3>1, <3>2
  <2>3. IsScan(g, k)
    BY <2>2
  <2> QED
    BY <2>3
<1>3. Stuck = {}
  <2> SUFFICES ASSUME Stuck # {} PROVE FALSE
    OBVIOUS
  <2>1. PICK k \in Stuck : \A j \in Stuck : k <= j
    BY LeastPosition
  <2> HIDE DEF IsScan
  <2>2. k # 0 /\ k \in Nat
    BY <1>1
  <2>3. k - 1 \in Nat /\ k - 1 \notin Stuck
    BY <2>1, <2>2
  <2> QED
    BY <1>2, <2>2, <2>3
<1>4. IsScan(at, Len(rs)) /\ Scan(rs) = at[Len(rs)].ids
  <2>1. \E f : IsScan(f, Len(rs))
    <3>1. Len(rs) \in Nat
      OBVIOUS
    <3> HIDE DEF IsScan, at
    <3> QED
      BY <1>3, <3>1
  <2> QED
    BY <2>1 DEF Scan
<1> HIDE DEF at
<1> DEFINE Wrong == {k \in 0 .. Len(rs) : at[k].ids # ActiveIDs(rs, k)}
<1>5. 0 \notin Wrong
  <2>1. at[0] = Blank
    BY <1>4
  <2>2. at[0].ids = {} /\ ActiveIDs(rs, 0) = {}
    <3>1. at[0].ids = {}
      BY <2>1 DEF Blank
    <3>2. ActiveIDs(rs, 0) = {}
      BY DEF ActiveIDs
    <3> QED
      BY <3>1, <3>2
  <2> QED
    BY <2>2
<1>6. ASSUME NEW k \in 1 .. Len(rs), k - 1 \notin Wrong PROVE k \notin Wrong
  <2>1. at[k] = Row(at[k - 1], k) /\ at[k - 1].ids = ActiveIDs(rs, k - 1)
    <3> HIDE DEF Row
    <3>1. Len(rs) \in Nat /\ k \in 0 .. Len(rs) /\ k - 1 \in 0 .. Len(rs) /\ k # 0
      OBVIOUS
    <3>2. at[k] = Row(at[k - 1], k)
      BY <1>4, <3>1
    <3> QED
      BY <1>6, <3>1, <3>2
  <2>2. rs[k].id # None
    <3>1. rs[k] \in AllRows
      OBVIOUS
    <3> QED
      BY <3>1, ComposeAssumption
  <2>3. at[k].ids = ActiveIDs(rs, k - 1) \cup (IF rs[k].status = "active" THEN {rs[k].id} ELSE {})
    <3>1. AtID(at[k - 1], rs[k].id).ids = at[k - 1].ids /\ AtID(at[k - 1], rs[k].id).cur = rs[k].id
      BY DEF AtID
    <3> QED
      <4>1. CASE rs[k].status = "active"
        BY <2>1, <2>2, <3>1, <4>1 DEF AtStatus
      <4>2. CASE rs[k].status # "active"
        BY <2>1, <2>2, <3>1, <4>2 DEF AtStatus
      <4> QED
        BY <4>1, <4>2
  <2>4. ActiveIDs(rs, k) = ActiveIDs(rs, k - 1) \cup (IF rs[k].status = "active" THEN {rs[k].id} ELSE {})
    <3>1. 1 .. k = (1 .. k - 1) \cup {k}
      OBVIOUS
    <3> QED
      BY <3>1 DEF ActiveIDs
  <2> QED
    BY <2>3, <2>4
<1>7. Wrong = {}
  <2> SUFFICES ASSUME Wrong # {} PROVE FALSE
    OBVIOUS
  <2>1. PICK k \in Wrong : \A j \in Wrong : k <= j
    <3>1. Wrong \in SUBSET Nat
      OBVIOUS
    <3> HIDE DEF Wrong
    <3> QED
      BY <3>1, LeastPosition
  <2>2. k \in 1 .. Len(rs)
    BY <1>5
  <2>3. k - 1 \notin Wrong
    BY <2>1, <2>2
  <2> HIDE DEF Wrong
  <2> QED
    BY <1>6, <2>1, <2>2, <2>3
<1> QED
  <2>1. Len(rs) \in 0 .. Len(rs)
    OBVIOUS
  <2> QED
    BY <1>4, <1>7, <2>1

-----------------------------------------------------------------------------
(* The services                                                            *)

\* A service that is not told its target sends its own name in the SNI.
LEMMA ServicesSendTheirName ==
  ASSUME NEW s \in Services, s.name \notin {"curl-impersonate-one", "verify-profile"}
  PROVE  s.sni = s.name /\ s.name # "tools"
BY DEF Services, CurlImpersonate, VerifyProfile, Shells, GoHTTP, EnvClients, NewerEnvClients, Pythons,
       Browsers, OkHttp, AioHttp, BuiltBrowsers, GitAndNode, Others, Service

\* A target sends its own id, and where tools runs it a failure is not hidden.
LEMMA TargetsSendTheirID ==
  ASSUME TargetsOwnServices, NEW t \in AllRows, NEW s \in ServicesOf(t)
  PROVE  s.sni = t.id /\ (s.forgiving => s.name # "tools")
<1>1. CASE t.kind = "compose"
  <2>1. s \in Named(t.id)
    BY <1>1 DEF TargetsOwnServices, ServicesOf
  <2>2. s \in Services /\ s.name = t.id
    BY <2>1 DEF Named
  <2>3. s.name \notin {"curl-impersonate-one", "verify-profile"}
    BY <1>1, <2>2 DEF TargetsOwnServices
  <2> QED
    BY <2>2, <2>3, ServicesSendTheirName
<1>2. CASE t.kind = "curl-impersonate"
  BY <1>2 DEF ServicesOf, CurlImpersonate, Service
<1>3. CASE t.kind = "emit-builtin"
  BY <1>3 DEF TargetsOwnServices, ServicesOf, Service
<1> QED
  BY <1>1, <1>2, <1>3 DEF ServicesOf

-----------------------------------------------------------------------------
(* The lab                                                                 *)

LabNames == {<<"lab">>} \cup {Alias(id) : id \in IDs} \cup {VerifyAlias(id) : id \in IDs}

Types ==
  /\ rows \in Seq(AllRows)
  /\ compose \subseteq LabNames /\ capture \in [up : BOOLEAN, aliases : SUBSET LabNames]
  /\ DOMAIN queue \subseteq Nat /\ \A i \in DOMAIN queue : queue[i] \in AllRows
  /\ command \in {"idle", "capture", "verify"}
  /\ result \in [IDs -> {None, "OK", "FAIL"}]

\* Every target that labctl still has to run has its name, if compose.yaml is of
\* the targets that labctl loaded.
HasName == command = "capture" /\ generated =>
  \A i \in DOMAIN queue : Alias(queue[i].id) \in capture.aliases

Connected == Types /\ HasName /\ OKIsCaptured

\* The names are those of active targets, and every active target has its name.
LEMMA AliasesOfActive ==
  ASSUME NEW rs \in Seq(AllRows)
  PROVE  /\ Aliases(rs) \subseteq LabNames
         /\ \A i \in DOMAIN rs : Active(rs[i]) => Alias(rs[i].id) \in Aliases(rs)
<1>1. Scan(rs) = ActiveIDs(rs, Len(rs))
  BY ScannerFindsActive
<1>2. DOMAIN rs = 1 .. Len(rs) /\ \A i \in DOMAIN rs : rs[i] \in AllRows
  OBVIOUS
<1>3. Scan(rs) \subseteq IDs
  BY <1>1, <1>2 DEF ActiveIDs, IDs
<1>4. ASSUME NEW i \in DOMAIN rs, Active(rs[i]) PROVE rs[i].id \in Scan(rs)
  BY <1>1, <1>2, <1>4 DEF ActiveIDs, Active
<1>5. Aliases(rs) \subseteq LabNames
  BY <1>3 DEF Aliases, LabNames
<1>6. ASSUME NEW i \in DOMAIN rs, Active(rs[i]) PROVE Alias(rs[i].id) \in Aliases(rs)
  BY <1>4, <1>6 DEF Aliases
<1> QED
  BY <1>5, <1>6

LEMMA InitConnected == Init => Connected
<1> SUFFICES ASSUME Init PROVE Connected
  OBVIOUS
<1>1. Rows \in Seq(AllRows) /\ Aliases(Rows) \subseteq LabNames
  BY ComposeAssumption, AliasesOfActive
<1>2. Types
  BY <1>1 DEF Init, Types, Quiet, LabNames
<1>3. command = "idle"
  BY DEF Init
<1> QED
  BY <1>2, <1>3 DEF Connected, HasName, OKIsCaptured

\* The next target is one of those labctl loaded, and running it leaves the others.
LEMMA NextTarget ==
  ASSUME Types, DOMAIN queue # {}
  PROVE  First \in DOMAIN queue /\ Target \in AllRows /\ Target.id \in IDs
<1>1. \E i \in DOMAIN queue : \A j \in DOMAIN queue : i <= j
  BY LeastPosition DEF Types
<1>2. First \in DOMAIN queue
  BY <1>1 DEF First
<1> QED
  BY <1>2 DEF Types, Target, IDs

\* What goes on around labctl changes neither its targets nor what it has done.
LEMMA AroundKeeps ==
  ASSUME Connected, (\E r \in Edits : Edit(r)) \/ GenCompose \/ CaptureDies \/ LabctlEnds
  PROVE  Connected'
<1>1. Types'
  <2>1. CASE \E r \in Edits : Edit(r)
    <3>1. PICK r \in Edits : Edit(r)
      BY <2>1
    <3>2. r \in AllRows
      BY DEF AllRows
    <3>3. rows' \in Seq(AllRows)
      BY <3>1, <3>2 DEF Edit, Connected, Types
    <3> QED
      BY <3>1, <3>3 DEF Edit, Connected, Types
  <2>2. CASE GenCompose
    BY <2>2, AliasesOfActive DEF GenCompose, Connected, Types
  <2>3. CASE CaptureDies
    BY <2>3 DEF CaptureDies, Connected, Types
  <2>4. CASE LabctlEnds
    BY <2>4 DEF LabctlEnds, Connected, Types
  <2> QED
    BY <2>1, <2>2, <2>3, <2>4
<1>2. capture'.aliases = capture.aliases
  BY DEF Connected, Types, Edit, GenCompose, CaptureDies, LabctlEnds
<1>3. UNCHANGED <<queue, result, saved, unwritten, stumbled, generated>> /\ (command' = command \/ command' = "idle")
  BY DEF Edit, GenCompose, CaptureDies, LabctlEnds
<1> QED
  BY <1>1, <1>2, <1>3 DEF Connected, HasName, OKIsCaptured

\* labctl starts with no result, and a container that has the names of compose.yaml.
LEMMA StartKeeps ==
  ASSUME Connected, NEW c \in {"capture", "verify"}, NEW filter, LabctlStarts(c, filter)
  PROVE  Connected'
<1> DEFINE kept == {i \in DOMAIN rows : rows[i] \in filter /\ (c = "capture" => Active(rows[i]))}
<1>1. rows \in Seq(AllRows) /\ DOMAIN rows \subseteq Nat /\ \A i \in DOMAIN rows : rows[i] \in AllRows
  BY DEF Connected, Types
<1>2. DOMAIN queue' = kept /\ \A i \in kept : queue'[i] = rows[i]
  BY DEF LabctlStarts
<1>3. capture' = [up |-> TRUE, aliases |-> compose] /\ command' = c /\ result' = Quiet
  BY DEF LabctlStarts
<1>4. UNCHANGED <<rows, compose>> /\ generated' = (compose = Aliases(rows))
  BY DEF LabctlStarts
<1>5. Types'
  <2>1. result' \in [IDs -> {None, "OK", "FAIL"}]
    BY <1>3 DEF Quiet
  <2>2. DOMAIN queue' \subseteq Nat /\ \A i \in DOMAIN queue' : queue'[i] \in AllRows
    BY <1>1, <1>2
  <2> QED
    BY <1>3, <1>4, <2>1, <2>2 DEF Connected, Types
<1>6. HasName'
  <2> SUFFICES ASSUME c = "capture", compose = Aliases(rows), NEW i \in kept
               PROVE  Alias(rows[i].id) \in compose
    BY <1>2, <1>3, <1>4 DEF HasName
  <2> QED
    BY <1>1, AliasesOfActive
<1>7. OKIsCaptured'
  BY <1>3 DEF OKIsCaptured, Quiet, None
<1> QED
  BY <1>5, <1>6, <1>7 DEF Connected

\* What a finished target leaves of the types and of the names.
LEMMA FinishKeeps ==
  ASSUME Connected, DOMAIN queue # {}, NEW how \in {"OK", "FAIL"}, Finish(how),
         UNCHANGED <<rows, compose, command, generated>>,
         capture' \in [up : BOOLEAN, aliases : {capture.aliases}]
  PROVE  /\ Types' /\ HasName'
         /\ result'[Target.id] = how
         /\ \A id \in IDs \ {Target.id} : result'[id] = result[id]
<1>1. First \in DOMAIN queue /\ Target.id \in IDs
  BY NextTarget DEF Connected
<1>2. result \in [IDs -> {None, "OK", "FAIL"}] /\ result' = [result EXCEPT ![Target.id] = how]
  BY DEF Connected, Types, Finish
<1>3. DOMAIN queue' \subseteq DOMAIN queue /\ \A i \in DOMAIN queue' : queue'[i] = queue[i]
  BY DEF Finish
<1>4. capture'.aliases = capture.aliases
  OBVIOUS
<1>5. Types'
  <2>1. DOMAIN queue' \subseteq Nat /\ \A i \in DOMAIN queue' : queue'[i] \in AllRows
    BY <1>3 DEF Connected, Types
  <2>2. capture' \in [up : BOOLEAN, aliases : SUBSET LabNames]
    BY DEF Connected, Types
  <2>3. result' \in [IDs -> {None, "OK", "FAIL"}]
    BY <1>2
  <2> QED
    BY <2>1, <2>2, <2>3 DEF Connected, Types
<1>6. HasName'
  BY <1>3, <1>4 DEF Connected, HasName
<1> QED
  BY <1>1, <1>2, <1>5, <1>6

\* A target whose client reaches the server has its own profile written, one that
\* misses it ends with FAIL, or with OK and a stumble: it has its name.
LEMMA RunKeeps ==
  ASSUME TargetsOwnServices, Connected, RunCaptures \/ RunMisses \/ NoService
  PROVE  Connected'
<1>1. command = "capture" /\ DOMAIN queue # {}
  BY DEF RunCaptures, RunMisses, NoService
<1>2. First \in DOMAIN queue /\ Target \in AllRows /\ Target.id \in IDs
  BY <1>1, NextTarget DEF Connected
<1>3. CASE RunCaptures
  <2>1. PICK s \in ServicesOf(Target), how \in {"OK", "FAIL"} :
          /\ capture' = [capture EXCEPT !.up = TRUE] /\ ServerSaves(Alias(s.sni))
          /\ Finish(how)
    BY <1>3 DEF RunCaptures
  <2>2. UNCHANGED <<rows, compose, command, stumbled, generated>>
    BY <1>3 DEF RunCaptures
  <2>3. s.sni = Target.id
    BY <1>2, TargetsSendTheirID
  <2>4. capture' \in [up : BOOLEAN, aliases : {capture.aliases}]
    BY <2>1 DEF Connected, Types
  <2>5. /\ Types' /\ HasName'
        /\ \A id \in IDs \ {Target.id} : result'[id] = result[id]
    BY <1>1, <2>1, <2>2, <2>4, FinishKeeps
  <2>6. OKIsCaptured'
    BY <2>1, <2>2, <2>3, <2>5 DEF Connected, OKIsCaptured, ServerSaves, Alias
  <2> QED
    BY <2>5, <2>6 DEF Connected
<1>4. CASE RunMisses
  <2>1. PICK s \in ServicesOf(Target), how \in {"OK", "FAIL"} :
          /\ capture' = [capture EXCEPT !.up = @ \/ s.name # "tools"]
          /\ stumbled' = IF Reachable(s) THEN stumbled \cup {Target.id} ELSE stumbled
          /\ how = "OK" => s.forgiving
          /\ Finish(how)
    BY <1>4 DEF RunMisses
  <2>2. UNCHANGED <<rows, compose, command, saved, unwritten, generated>>
    BY <1>4 DEF RunMisses
  <2>3. s.sni = Target.id /\ (s.forgiving => s.name # "tools")
    BY <1>2, TargetsSendTheirID
  <2>4. capture' \in [up : BOOLEAN, aliases : {capture.aliases}]
    BY <2>1 DEF Connected, Types
  <2>5. /\ Types' /\ HasName' /\ result'[Target.id] = how
        /\ \A id \in IDs \ {Target.id} : result'[id] = result[id]
    BY <1>1, <2>1, <2>2, <2>4, FinishKeeps
  <2>6. generated => Alias(Target.id) \in capture.aliases
    BY <1>1, <1>2 DEF Connected, HasName, Target
  <2>7. generated /\ how = "OK" => Target.id \in stumbled'
    BY <2>1, <2>3, <2>6 DEF Reachable
  <2>8. stumbled \subseteq stumbled'
    BY <2>1
  <2>9. OKIsCaptured'
    BY <2>2, <2>5, <2>7, <2>8 DEF Connected, OKIsCaptured
  <2> QED
    BY <2>5, <2>9 DEF Connected
<1>5. CASE NoService
  <2>1. Finish("FAIL") /\ UNCHANGED <<rows, compose, capture, command, saved, unwritten, stumbled, generated>>
    BY <1>5 DEF NoService
  <2>2. capture' \in [up : BOOLEAN, aliases : {capture.aliases}]
    BY <2>1 DEF Connected, Types
  <2>3. /\ Types' /\ HasName' /\ result'[Target.id] = "FAIL"
        /\ \A id \in IDs \ {Target.id} : result'[id] = result[id]
    BY <1>1, <2>1, <2>2, FinishKeeps
  <2>4. OKIsCaptured'
    BY <2>1, <2>3 DEF Connected, OKIsCaptured
  <2> QED
    BY <2>3, <2>4 DEF Connected
<1> QED
  BY <1>3, <1>4, <1>5

LEMMA VerifyKeeps ==
  ASSUME Connected, Verify
  PROVE  Connected'
<1>1. Target.id \in IDs
  BY NextTarget DEF Verify, Connected
<1>2. PICK how \in {"OK", "FAIL"} : result' = [result EXCEPT ![Target.id] = how]
  BY DEF Verify
<1>3. DOMAIN queue' = {} /\ command' = "verify" /\ UNCHANGED <<rows, compose>>
  BY DEF Verify
<1>4. capture' \in [up : BOOLEAN, aliases : SUBSET LabNames]
  BY DEF Verify, Connected, Types
<1>5. Types'
  BY <1>1, <1>2, <1>3, <1>4 DEF Connected, Types
<1> QED
  BY <1>3, <1>5 DEF Connected, HasName, OKIsCaptured

LEMMA NextConnected ==
  ASSUME TargetsOwnServices, Connected, [Next]_vars
  PROVE  Connected'
<1>1. CASE \E filter \in Filters : LabctlStarts("capture", filter)
  BY <1>1, StartKeeps
<1>2. CASE \E id \in IDs : LabctlStarts("verify", RowsOf(id))
  BY <1>2, StartKeeps
<1>3. CASE UNCHANGED vars
  BY <1>3 DEF vars, Connected, Types, HasName, OKIsCaptured
<1> QED
  BY <1>1, <1>2, <1>3, AroundKeeps, RunKeeps, VerifyKeeps DEF Next

\* The names a target needs are there when it runs, and its OK means its profile.
LEMMA ConnectedHolds ==
  ASSUME TargetsOwnServices
  PROVE  Spec => []Connected
<1>1. Init => Connected
  BY InitConnected
<1>2. Connected /\ [Next]_vars => Connected'
  BY NextConnected
<1> QED
  BY <1>1, <1>2, PTL DEF Spec

\* labctl's OK of a capture means that the target's own profile was written by
\* this run, unless its client stumbled or the server could not write the profile,
\* for any targets that own their services, any edits, filters, failing writes and
\* deaths of the capture server (gen-compose.py:9-24, 172-300,
\* labctl/main.go:125-141, capture/main.go:110-113).
THEOREM OKAlwaysMeansCaptured ==
  ASSUME TargetsOwnServices
  PROVE  Spec => []OKIsCaptured
<1>1. Connected => OKIsCaptured
  BY DEF Connected
<1> QED
  BY <1>1, ConnectedHolds, PTL

\* Running a target writes no profile but its own, for any targets that own their
\* services (gen-compose.py:71-387, emit-builtin/main.go:31-33).
THEOREM ProfilesAreTheirTargets ==
  ASSUME TargetsOwnServices
  PROVE  Spec => OnlyItsOwnProfile
<1> DEFINE Own == \A id \in IDs :
             Alias(id) \in (saved' \ saved) \cup (unwritten' \ unwritten) => DOMAIN queue # {} /\ Target.id = id
<1>1. Connected /\ Next => Own
  <2> SUFFICES ASSUME Connected, Next, NEW id \in IDs,
                      Alias(id) \in (saved' \ saved) \cup (unwritten' \ unwritten)
               PROVE  DOMAIN queue # {} /\ Target.id = id
    OBVIOUS
  <2>1. CASE RunCaptures
    <3>1. PICK s \in ServicesOf(Target) :
                 ServerSaves(Alias(s.sni))
      BY <2>1 DEF RunCaptures
    <3>2. DOMAIN queue # {}
      BY <2>1 DEF RunCaptures
    <3>3. s.sni = Target.id
      BY <3>1, <3>2, NextTarget, TargetsSendTheirID DEF Connected
    <3> QED
      BY <3>1, <3>2, <3>3 DEF Alias, ServerSaves
  <2>2. CASE Verify
    <3>1. /\ saved' \subseteq saved \cup {VerifyAlias(Target.id)}
          /\ unwritten' \subseteq unwritten \cup {VerifyAlias(Target.id)}
      BY <2>2 DEF Verify, ServerSaves
    <3>2. Alias(id) # VerifyAlias(Target.id)
      BY DEF Alias, VerifyAlias
    <3> QED
      BY <3>1, <3>2
  <2>3. CASE \/ \E r \in Edits : Edit(r)
             \/ GenCompose \/ CaptureDies \/ RunMisses \/ NoService \/ LabctlEnds
    BY <2>3 DEF Edit, GenCompose, CaptureDies, RunMisses, NoService, LabctlEnds
  <2>4. ASSUME NEW c, NEW filter, LabctlStarts(c, filter) PROVE FALSE
    BY <2>4 DEF LabctlStarts
  <2> QED
    BY <2>1, <2>2, <2>3, <2>4 DEF Next
<1>2. Connected /\ [Next]_vars => [Own]_vars
  BY <1>1
<1> QED
  BY <1>2, ConnectedHolds, PTL DEF Spec, OnlyItsOwnProfile
=============================================================================
