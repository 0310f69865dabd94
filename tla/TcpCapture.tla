------------------------------ MODULE TcpCapture ------------------------------
(***************************************************************************)
(* The TCP capture server: one goroutine per connection reads a            *)
(* ClientHello, numbers it, writes its capture directory and then the      *)
(* profile of its target, file by file, and answers                        *)
(* (capture/main.go:54-168, capture/helpers.go:38-86).                     *)
(*                                                                         *)
(* os.WriteFile is two steps: the open truncates, the write fills.  Two    *)
(* writers of one file, each at an offset of its own, may leave a mixture. *)
(* A file's content is named after the connection whose handler wrote it.  *)
(* README.md, which repeats profile.json, is left out.                     *)
(***************************************************************************)
EXTENDS Integers, FiniteSets

CONSTANTS Conns,        \* connections
          Targets,      \* target ids with a profile
          Unknown,      \* the id of a hello whose SNI names no target
          JA4s,         \* what analyze computes of a hello
          Parallel,     \* bound: connections open at the same time
          MaxNumber,    \* bound: the sequence number
          Faults,       \* subset of {"disk", "kill"}
          MaxFaults,    \* bound: failing writes
          MaxRestarts,  \* bound: starts of the server after the first
          Absent, Empty, Mixed

ASSUME CaptureAssumption ==
  /\ Parallel \in Nat /\ MaxNumber \in Nat /\ MaxFaults \in Nat /\ MaxRestarts \in Nat
  /\ Faults \subseteq {"disk", "kill"}
  /\ {Absent, Empty, Mixed} \cap Conns = {}
  /\ Unknown \notin Targets

VARIABLES
  pc,        \* handler: "new", "reading", "open", "write", "answer", "closed"
  target,    \* meta.TargetID
  ja4,       \* meta.JA4
  number,    \* the sequence number in the capture's name
  file,      \* which file the handler is at, or was at when it was killed
  deadline,  \* the connection's deadline: "none", "armed", "passed"
  seq,       \* the counter
  disk,      \* contents of the files
  faults, restarts,
  answered,  \* history: connections answered with 200 and their X-Captured-ID
  before     \* history: connections closed when this one was accepted

vars == <<pc, target, ja4, number, file, deadline, seq, disk, faults, restarts, answered, before>>
meta == <<target, ja4, number>>

TargetIDs == Targets \cup {Unknown}
CaptureDir(n, t) == <<"captures", n, t>>
ProfileDir(t) == <<"profiles", 0, t>>
Dirs == {CaptureDir(n, t) : n \in 1..MaxNumber, t \in TargetIDs} \cup {ProfileDir(t) : t \in Targets}
Names == {"clienthello.bin", "spec.txt", "meta.json", "profile.json"}
Contents == Conns \cup {Absent, Empty, Mixed}

Active == {c \in Conns : pc[c] \notin {"new", "closed"}}

\* The files a handler writes, in this order: three of the capture, then three
\* of the profile.
Path(c) ==
  IF file[c] <= 3
  THEN <<CaptureDir(number[c], target[c]), <<"clienthello.bin", "spec.txt", "meta.json">>[file[c]]>>
  ELSE <<ProfileDir(target[c]), <<"clienthello.bin", "meta.json", "profile.json">>[file[c] - 3]>>

\* Mutated form: a profile that exists is kept.
LastFileKept(c) ==
  IF target[c] = Unknown \/ disk[<<ProfileDir(target[c]), "profile.json">>] # Absent THEN 3 ELSE 6

\* "unknown" has no profile.
LastFile(c) == IF target[c] = Unknown THEN 3 ELSE 6

Init ==
  /\ pc = [c \in Conns |-> "new"]
  /\ target = [c \in Conns |-> Unknown]
  /\ ja4 \in [Conns -> JA4s]
  /\ number = [c \in Conns |-> 0] /\ file = [c \in Conns |-> 0]
  /\ seq = 0
  /\ disk = [f \in Dirs \X Names |-> Absent]
  /\ faults = 0 /\ restarts = 0
  /\ deadline = [c \in Conns |-> "none"]
  /\ answered = {} /\ before = [c \in Conns |-> {}]

-----------------------------------------------------------------------------
(* A connection                                                            *)

\* Mutated form: a connection has no deadline.
NoDeadline == "none"

\* SetDeadline(30 s), for every read and write of the connection.
Deadline == "armed"

Accept(c, t) ==
  /\ pc[c] = "new" /\ Cardinality(Active) < Parallel
  /\ pc' = [pc EXCEPT ![c] = "reading"]
  /\ target' = [target EXCEPT ![c] = t]
  /\ deadline' = [deadline EXCEPT ![c] = Deadline]
  /\ before' = [before EXCEPT ![c] = {d \in Conns : pc[d] = "closed"}]
  /\ UNCHANGED <<ja4, number, file, seq, disk, faults, restarts, answered>>

DeadlinePasses(c) ==
  /\ deadline[c] = "armed" /\ c \in Active
  /\ deadline' = [deadline EXCEPT ![c] = "passed"]
  /\ UNCHANGED <<pc, meta, file, seq, disk, faults, restarts, answered, before>>

\* The peer closes or sends no handshake record, or the deadline has passed.
ReadFails(c) ==
  /\ pc[c] = "reading"
  /\ pc' = [pc EXCEPT ![c] = "closed"]
  /\ UNCHANGED <<meta, file, deadline, seq, disk, faults, restarts, answered, before>>

\* Mutated form: the counter is read and not advanced.
NextNumberStale == seq

NextNumber == seq + 1

\* The hello is read and analysed; atomic.AddUint64.
ReadHello(c) ==
  /\ pc[c] = "reading" /\ deadline[c] # "passed" /\ seq < MaxNumber
  /\ seq' = NextNumber
  /\ number' = [number EXCEPT ![c] = seq + 1]
  /\ file' = [file EXCEPT ![c] = 1]
  /\ pc' = [pc EXCEPT ![c] = "open"]
  /\ UNCHANGED <<target, ja4, deadline, disk, faults, restarts, answered, before>>

-----------------------------------------------------------------------------
(* Writing                                                                 *)

\* Where the handler goes from a file: to the next one, or to the handshake.
GoOn(c) ==
  /\ pc' = [pc EXCEPT ![c] = IF file[c] < LastFile(c) THEN "open" ELSE "answer"]
  /\ file' = [file EXCEPT ![c] = IF @ < LastFile(c) THEN @ + 1 ELSE 0]

Open(c) ==
  /\ pc[c] = "open"
  /\ disk' = [disk EXCEPT ![Path(c)] = Empty]
  /\ pc' = [pc EXCEPT ![c] = "write"]
  /\ UNCHANGED <<meta, file, deadline, seq, faults, restarts, answered, before>>

\* What a write leaves: itself, or a mixture with what another handler wrote
\* since the file was opened, when that is longer.
Written(c) == IF disk[Path(c)] = Empty THEN {c} ELSE {c, Mixed}

Write(c) ==
  /\ pc[c] = "write"
  /\ \E x \in Written(c) : disk' = [disk EXCEPT ![Path(c)] = x]
  /\ GoOn(c)
  /\ UNCHANGED <<meta, deadline, seq, faults, restarts, answered, before>>

\* Mutated form: a write that fails is ignored: the handler goes on without a clienthello.bin.
AfterFailureIgnored(c) == GoOn(c)

\* Where the handler goes after a write that failed: without clienthello.bin
\* there is no capture and no answer, the errors of spec.txt and meta.json are
\* ignored, and the first error in the profile ends writing it.
AfterFailure(c) ==
  \/ /\ file[c] = 1
     /\ pc' = [pc EXCEPT ![c] = "closed"] /\ file' = [file EXCEPT ![c] = 0]
  \/ file[c] \in {2, 3} /\ GoOn(c)
  \/ /\ file[c] > 3
     /\ pc' = [pc EXCEPT ![c] = "answer"] /\ file' = [file EXCEPT ![c] = 0]

\* MkdirAll, the open or the write fails.
WriteFails(c) ==
  /\ pc[c] \in {"open", "write"}
  /\ "disk" \in Faults /\ faults < MaxFaults /\ faults' = faults + 1
  /\ AfterFailure(c)
  /\ UNCHANGED <<meta, deadline, seq, disk, restarts, answered, before>>

-----------------------------------------------------------------------------
(* The answer, and restarts                                                *)

\* The handshake completes, a request is read and answered.
Answer(c) ==
  /\ pc[c] = "answer" /\ deadline[c] # "passed"
  /\ answered' = answered \cup {c}
  /\ pc' = [pc EXCEPT ![c] = "closed"]
  /\ UNCHANGED <<meta, file, deadline, seq, disk, faults, restarts, before>>

\* The client aborts, or the deadline has passed.
AnswerFails(c) ==
  /\ pc[c] = "answer"
  /\ pc' = [pc EXCEPT ![c] = "closed"]
  /\ UNCHANGED <<meta, file, deadline, seq, disk, faults, restarts, answered, before>>

\* The server is stopped and started again: handlers end where they are, the
\* counter starts at 0, the files stay.
Restart ==
  /\ Active = {} \/ "kill" \in Faults
  /\ restarts < MaxRestarts /\ restarts' = restarts + 1
  /\ pc' = [c \in Conns |-> IF c \in Active THEN "closed" ELSE pc[c]]
  /\ seq' = 0
  /\ UNCHANGED <<meta, file, deadline, disk, faults, answered, before>>

Next ==
  \/ \E c \in Conns, t \in TargetIDs : Accept(c, t)
  \/ \E c \in Conns :
       \/ DeadlinePasses(c) \/ ReadFails(c) \/ ReadHello(c) \/ Open(c) \/ Write(c) \/ WriteFails(c)
       \/ Answer(c) \/ AnswerFails(c)
  \/ Restart

Spec == Init /\ [][Next]_vars

\* Time passes, a handler that need not wait goes on, and a passed deadline
\* ends what it waits for.  Nothing is expected of the peer.
Fairness == \A c \in Conns :
  /\ WF_vars(DeadlinePasses(c))
  /\ WF_vars(Open(c) \/ Write(c) \/ WriteFails(c))
  /\ WF_vars(deadline[c] = "passed" /\ (ReadFails(c) \/ AnswerFails(c)))

FairSpec == Spec /\ Fairness

-----------------------------------------------------------------------------
(* Properties                                                              *)

\* Every variable has its type.
TypeOK ==
  /\ pc \in [Conns -> {"new", "reading", "open", "write", "answer", "closed"}]
  /\ target \in [Conns -> TargetIDs] /\ ja4 \in [Conns -> JA4s]
  /\ number \in [Conns -> 0..MaxNumber] /\ file \in [Conns -> 0..6] /\ seq \in 0..MaxNumber
  /\ deadline \in [Conns -> {"none", "armed", "passed"}]
  /\ disk \in [Dirs \X Names -> Contents]
  /\ faults \in 0..MaxFaults /\ restarts \in 0..MaxRestarts
  /\ answered \subseteq Conns /\ before \in [Conns -> SUBSET Conns]

\* captures/<n>-<id> holds the files of one connection only, however the
\* handlers interleave, while the server is not restarted
\* (capture/main.go:83-110).
CaptureDirsPrivate == restarts = 0 => \A n \in 1..MaxNumber, t \in TargetIDs, c \in Conns :
  (\E name \in Names : disk[<<CaptureDir(n, t), name>>] = c)
    => \A name \in Names : disk[<<CaptureDir(n, t), name>>] \in {Absent, Empty, c}

\* An answer means a capture: the hello of a client that was answered lies in
\* the directory its X-Captured-ID names, whatever writes failed, until a
\* restart (capture/main.go:83-93, 149).
AnsweredIsCaptured == restarts = 0 => \A c \in answered :
  disk[<<CaptureDir(number[c], target[c]), "clienthello.bin">>] = c

\* No file of a profile is older than the last answer: what a client that
\* connected later left, and was answered for, is not undone by an earlier
\* handler, while no write failed (capture/main.go:111-114, 164).
LatestWins == faults = 0 => \A t \in Targets, name \in Names : \A d \in answered :
  target[d] = t => disk[<<ProfileDir(t), name>>] \notin before[d]

\* A profile leads to its capture: capture_dir of profile.json holds the hello
\* of the connection profile.json is about, until a restart
\* (capture/helpers.go:57-60).
ProfileHasCapture == restarts = 0 => \A t \in Targets, c \in Conns :
  disk[<<ProfileDir(t), "profile.json">>] = c
    => disk[<<CaptureDir(number[c], t), "clienthello.bin">>] = c

\* No two connections were open at the same time.
InTurn == \A c, d \in Conns :
  c # d /\ pc[c] # "new" /\ pc[d] # "new" => c \in before[d] \/ d \in before[c]

\* Connections one after the other leave a profile and the capture it names of
\* one of them, across restarts that reuse the capture's directory, if no write
\* failed and no handler was killed at a file (capture/helpers.go:38-84).
ProfileIsOneCapture == Active = {} /\ InTurn /\ faults = 0 /\ (\A c \in Conns : file[c] = 0) => \A t \in Targets :
  LET of == disk[<<ProfileDir(t), "profile.json">>] IN
  /\ \A name \in {"clienthello.bin", "meta.json"} : disk[<<ProfileDir(t), name>>] = of
  /\ of # Absent => /\ of \in Conns
                    /\ disk[<<CaptureDir(number[of], t), "clienthello.bin">>] = of

\* While no connection is open profile.json expects the JA4 of clienthello.bin,
\* the one `verify` compares (README.md "Profile contract").
ExpectsItsHello == Active = {} => \A t \in Targets :
  LET hello == disk[<<ProfileDir(t), "clienthello.bin">>]
      manifest == disk[<<ProfileDir(t), "profile.json">>]
  IN  {hello, manifest} \subseteq Conns => ja4[hello] = ja4[manifest]

\* Every connection is closed in the end: no handler waits for another, or for
\* ever for its peer (capture/main.go:65-66).
ConnectionsEnd == \A c \in Conns : pc[c] = "reading" ~> pc[c] = "closed"
=============================================================================
