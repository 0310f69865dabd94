------------------------------ MODULE ComposeLab ------------------------------
(***************************************************************************)
(* How a target gets captured: scripts/gen-compose.py scans targets.yaml    *)
(* and targets.archive.yaml for the names the capture container answers to, *)
(* and writes the services; labctl runs a target's client in one of them;   *)
(* the capture server saves the profile under the name in the SNI.          *)
(*                                                                          *)
(* lab.sh regenerates compose.yaml before it starts labctl; labctl can be   *)
(* started by itself.  The target files may be edited, labctl's archive     *)
(* appends to them, and the capture server may die at any time.             *)
(***************************************************************************)
EXTENDS Integers, Sequences, FiniteSets

CONSTANTS Rows,      \* the targets of both files, in their order
          Edits,     \* targets that may be appended
          Filters,   \* the targets that labctl's -id, -group and -latest leave
          Emits,     \* emit_id |-> the id in the SNI emit-builtin sends
          MaxSteps   \* bound: edits, generations, starts and deaths together

None == "none"

\* A row: id, kind, service, emit, and status; None where the key is not there.
AllRows == {Rows[i] : i \in DOMAIN Rows} \cup Edits
ASSUME ComposeAssumption ==
  /\ MaxSteps \in Nat
  /\ Rows \in Seq(AllRows) /\ Filters \subseteq SUBSET AllRows
  /\ \A r \in AllRows : r.id # None /\ (r.kind = "emit-builtin" => r.emit \in DOMAIN Emits)

-----------------------------------------------------------------------------
(* The template's services and the clients in them                         *)

\* sni: the id in the SNI, where "TARGET_ID" and "PROFILE_ID" stand for what the
\* environment gives; alias: the client resolves <sni>.fp.lab.local itself instead
\* of dialing capture; forgiving: it exits with 0 although it could not dial.
Service(name, sni, alias, forgiving) ==
  [name |-> name, sni |-> sni, alias |-> alias, forgiving |-> forgiving]

\* Built from clients/<name>, which takes its SNI from TARGET_ID or has it fixed.
GoHTTP == {Service("go-nethttp", "go-nethttp", FALSE, TRUE)}
EnvClients ==
  {Service("grpc-go", "grpc-go", FALSE, TRUE), Service("rust-native-tls", "rust-native-tls", FALSE, TRUE)}
NewerEnvClients ==
  {Service("java-jdk", "java-jdk", FALSE, FALSE), Service("rust-rustls", "rust-rustls", FALSE, TRUE)}
BuiltBrowsers ==
  {Service("chrome-linux", "chrome-linux", TRUE, TRUE), Service("brave", "brave", TRUE, TRUE),
   Service("electron-sample", "electron-sample", TRUE, TRUE)}
OkHttp == {Service("okhttp4", "okhttp4", TRUE, FALSE), Service("okhttp5", "okhttp5", TRUE, FALSE)}

\* Scripts in the template.  "|| true", a last echo or a pipe hide a failure.
CurlImpersonate == Service("curl-impersonate-one", "TARGET_ID", FALSE, FALSE)
VerifyProfile == Service("verify-profile", "PROFILE_ID", FALSE, FALSE)
Shells == {Service("openssl3", "openssl3", FALSE, TRUE), Service("curl-openssl", "curl-openssl", FALSE, TRUE)}
Browsers ==
  {Service("chromium-stable", "chromium-stable", TRUE, TRUE),
   Service("firefox-release", "firefox-release", TRUE, TRUE)}

\* Mutated form: python-httpx was copied from python-requests.
PythonsCopied ==
  {Service("python-requests", "python-requests", FALSE, FALSE),
   Service("python-httpx", "python-requests", FALSE, FALSE)}

Pythons ==
  {Service("python-requests", "python-requests", FALSE, FALSE),
   Service("python-httpx", "python-httpx", FALSE, FALSE)}
AioHttp == {Service("python-aiohttp", "python-aiohttp", FALSE, FALSE)}
GitAndNode ==
  {Service("git-https", "git-https", FALSE, TRUE), Service("node-undici", "node-undici", TRUE, TRUE)}
Others ==
  {Service("gnutls-cli", "gnutls-cli", FALSE, TRUE), Service("php-curl", "php-curl", FALSE, FALSE),
   Service("dotnet-http", "dotnet-http", FALSE, FALSE)}

Services ==
  {CurlImpersonate, VerifyProfile} \cup Shells \cup GoHTTP \cup EnvClients \cup NewerEnvClients \cup Pythons
    \cup Browsers \cup OkHttp \cup AioHttp \cup BuiltBrowsers \cup GitAndNode \cup Others

-----------------------------------------------------------------------------
(* gen-compose.py                                                          *)

\* What the scanner keeps: the ids it has, and the one of the row it is in until
\* it has seen that the row is active.  It looks at two lines of a row: its id, which
\* comes first in both files and in what labctl appends, and its status, which may be
\* missing.  Each is on a line of its own and not quoted, as the files have it.
Blank == [ids |-> {}, cur |-> None]

\* Mutated form: the id of a row that is not active is kept for the next one.
AtIDKept(s, id) == IF s.cur = None THEN [s EXCEPT !.cur = id] ELSE s

AtID(s, id) == [ids |-> s.ids, cur |-> id]

AtStatus(s, status) ==
  IF s.cur # None /\ status = "active" THEN [ids |-> s.ids \cup {s.cur}, cur |-> None] ELSE s

Scan(rs) ==
  LET at[i \in 0 .. Len(rs)] ==
        IF i = 0 THEN Blank ELSE AtStatus(AtID(at[i - 1], rs[i].id), rs[i].status)
  IN at[Len(rs)].ids

\* <id>.fp.lab.local, verify-<id>.fp.lab.local, and fp.lab.local.
Alias(id) == <<"id", id>>
VerifyAlias(id) == <<"verify", id>>
Aliases(rs) == {<<"lab">>} \cup {Alias(id) : id \in Scan(rs)} \cup {VerifyAlias(id) : id \in Scan(rs)}

-----------------------------------------------------------------------------
VARIABLES
  rows,       \* targets.yaml and targets.archive.yaml
  compose,    \* the aliases in compose.yaml
  capture,    \* the capture container: is it up, and the aliases it has
  queue,      \* the targets labctl still has to run, by their position
  command,    \* "idle", "capture" or "verify"
  result,     \* id |-> "OK" or "FAIL" of this run of labctl, or None
  saved,      \* the names of profiles/ written whole since labctl began
  unwritten,  \* history: those the server failed to write, and answered all the same
  stumbled,   \* history: the ids whose client failed by itself, or was cut off
  generated,  \* history: labctl's targets are those compose.yaml was generated from
  steps

vars == <<rows, compose, capture, queue, command, result, saved, unwritten, stumbled, generated, steps>>
IDs == {r.id : r \in AllRows}
Active(r) == r.status = "active" /\ r.kind \notin {"wishlist", "skip"}
Quiet == [id \in IDs |-> None]

\* The repository, with a compose.yaml generated from its targets.
Init ==
  /\ rows = Rows /\ compose = Aliases(Rows)
  /\ capture = [up |-> FALSE, aliases |-> {}]
  /\ queue = <<>> /\ command = "idle" /\ result = Quiet
  /\ saved = {} /\ unwritten = {} /\ stumbled = {} /\ generated = FALSE /\ steps = 0

Step == steps < MaxSteps /\ steps' = steps + 1

\* Somebody, or labctl's archive, appends a target: it may have the id of another.
Edit(r) ==
  /\ Step /\ rows' = Append(rows, r)
  /\ UNCHANGED <<compose, capture, queue, command, result, saved, unwritten, stumbled, generated>>

GenCompose ==
  /\ Step /\ command = "idle"
  /\ compose' = Aliases(rows)
  /\ UNCHANGED <<rows, capture, queue, command, result, saved, unwritten, stumbled, generated>>

CaptureDies ==
  /\ Step /\ capture.up
  /\ capture' = [capture EXCEPT !.up = FALSE]
  /\ UNCHANGED <<rows, compose, queue, command, result, saved, unwritten, stumbled, generated>>

RowsOf(id) == {r \in AllRows : r.id = id}

\* labctl capture with its filters, or labctl verify -id: loadLab, then
\* ensureCaptureUp, which makes the container anew if compose.yaml changed.  A
\* second row of an id runs the target a second time; verify takes what lies in
\* profiles/.
LabctlStarts(c, filter) ==
  /\ Step /\ command = "idle"
  /\ command' = c
  /\ queue' = [i \in {i \in DOMAIN rows : rows[i] \in filter /\ (c = "capture" => Active(rows[i]))} |-> rows[i]]
  /\ capture' = [up |-> TRUE, aliases |-> compose]
  /\ result' = Quiet /\ saved' = {} /\ unwritten' = {} /\ stumbled' = {}
  /\ generated' = (compose = Aliases(rows))
  /\ UNCHANGED <<rows, compose>>

Named(name) == {s \in Services : s.name = name}

\* runCapture: the service a target runs in, and the SNI its client sends.
ServicesOf(t) ==
  CASE t.kind = "compose" -> Named(IF t.service = None THEN t.id ELSE t.service)
    [] t.kind = "curl-impersonate" -> {[CurlImpersonate EXCEPT !.sni = t.id]}
    [] t.kind = "emit-builtin" -> {Service("tools", Emits[t.emit], FALSE, FALSE)}
    [] OTHER -> {}

\* docker compose run starts the capture container it depends on, with the
\* aliases it was made with; tools is run with --no-deps.
Reachable(s) ==
  /\ capture.up \/ s.name # "tools"
  /\ s.alias => Alias(s.sni) \in capture.aliases

\* The loop runs the targets in the order of the files.
First == CHOOSE i \in DOMAIN queue : \A j \in DOMAIN queue : i <= j
Target == queue[First]

Finish(how) ==
  /\ result' = [result EXCEPT ![Target.id] = how]
  /\ queue' = [i \in DOMAIN queue \ {First} |-> queue[i]]

\* handle: the server answers whether its profile could be written or not.
ServerSaves(name) ==
  \/ saved' = saved \cup {name} /\ unwritten' = unwritten \ {name}
  \/ unwritten' = unwritten \cup {name} /\ UNCHANGED saved

\* The client reaches the capture server, which saves its hello under its SNI.
RunCaptures ==
  /\ command = "capture" /\ DOMAIN queue # {}
  /\ \E s \in ServicesOf(Target) :
       /\ Reachable(s)
       /\ capture' = [capture EXCEPT !.up = TRUE]
       /\ ServerSaves(Alias(s.sni))
       /\ \E how \in {"OK"} \cup (IF s.forgiving THEN {} ELSE {"FAIL"}) : Finish(how)
  /\ UNCHANGED <<rows, compose, command, stumbled, generated, steps>>

\* It does not: the name is not there, the image cannot be built, or it breaks.
RunMisses ==
  /\ command = "capture" /\ DOMAIN queue # {}
  /\ \E s \in ServicesOf(Target) :
       /\ capture' = [capture EXCEPT !.up = @ \/ s.name # "tools"]
       /\ stumbled' = IF Reachable(s) THEN stumbled \cup {Target.id} ELSE stumbled
       /\ \E how \in {"FAIL"} \cup (IF s.forgiving THEN {"OK"} ELSE {}) : Finish(how)
  /\ UNCHANGED <<rows, compose, command, saved, unwritten, generated, steps>>

NoService ==
  /\ command = "capture" /\ DOMAIN queue # {} /\ ServicesOf(Target) = {}
  /\ Finish("FAIL")
  /\ UNCHANGED <<rows, compose, capture, command, saved, unwritten, stumbled, generated, steps>>

\* verify-profile dials capture with the SNI verify-<id>.
Verify ==
  /\ command = "verify" /\ DOMAIN queue # {}
  /\ capture' = [capture EXCEPT !.up = TRUE]
  /\ \E how \in {"OK", "FAIL"} :
       /\ result' = [result EXCEPT ![Target.id] = how]
       /\ ServerSaves(VerifyAlias(Target.id)) \/ (how = "FAIL" /\ UNCHANGED <<saved, unwritten>>)
  /\ queue' = <<>>
  /\ UNCHANGED <<rows, compose, command, stumbled, generated, steps>>

LabctlEnds ==
  /\ command # "idle" /\ DOMAIN queue = {}
  /\ command' = "idle"
  /\ UNCHANGED <<rows, compose, capture, queue, result, saved, unwritten, stumbled, generated, steps>>

Next ==
  \/ \E r \in Edits : Edit(r)
  \/ GenCompose \/ CaptureDies
  \/ \E filter \in Filters : LabctlStarts("capture", filter)
  \/ \E id \in IDs : LabctlStarts("verify", RowsOf(id))
  \/ RunCaptures \/ RunMisses \/ NoService \/ Verify \/ LabctlEnds

Spec == Init /\ [][Next]_vars

-----------------------------------------------------------------------------
(* Properties                                                              *)

\* What the theorems assume of the target files, and the lab's own fulfil: a target
\* runs in the service of its own name, which is none of the two scripts that are
\* told their target, and a built-in target sends its own id.
TargetsOwnServices == \A r \in AllRows :
  /\ r.kind = "compose" => r.service \in {None, r.id} /\ r.id \notin {"curl-impersonate-one", "verify-profile"}
  /\ r.kind = "emit-builtin" => Emits[r.emit] = r.id

\* labctl's OK of a capture means that the target's own profile was written by
\* this run: where compose.yaml was generated from the targets labctl loaded, no
\* client misses the capture server for want of a name, although many exit with 0
\* when they do (gen-compose.py:9-24, 172-300, labctl/main.go:125-141).  Excepted
\* are a client that stumbled by itself, and a profile the server could not write:
\* it logs that, or ignores it, and answers (capture/main.go:110-113).
OKIsCaptured == \A id \in IDs :
  command = "capture" /\ generated /\ result[id] = "OK" /\ id \notin stumbled
  /\ Alias(id) \notin unwritten => Alias(id) \in saved

\* Running a target writes no profile but its own, whole or in part: no service
\* sends the SNI of another (gen-compose.py:71-387, emit-builtin/main.go:31-33,
\* labctl/main.go:284-335).
OnlyItsOwnProfile == [][\A id \in IDs :
  Alias(id) \in (saved' \ saved) \cup (unwritten' \ unwritten) => DOMAIN queue # {} /\ Target.id = id]_vars
=============================================================================
