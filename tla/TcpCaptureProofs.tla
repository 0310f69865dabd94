--------------------------- MODULE TcpCaptureProofs ---------------------------
(***************************************************************************)
(* What the TCP capture server promises: TcpCapture for any number of      *)
(* connections and targets, and its ClientHello parser, HelloParser, for   *)
(* every length the wire can carry.                                        *)
(*                                                                         *)
(* Until the server is restarted its numbers are unique (Numbers), so what *)
(* lies in a capture directory was written by the handler of that number   *)
(* (Owned), and nothing but that handler touches it (Private).  Where      *)
(* connections come in turn it is the handler at its files that owns what  *)
(* it has written (Progress), whatever was restarted before (Turns).       *)
(*                                                                         *)
(* The parser's positions (Positions) are inductive, so no slice leaves    *)
(* its bounds, and every step advances.                                    *)
(***************************************************************************)
EXTENDS TcpCapture, HelloParser, TLAPS

HelloPath(c) == <<CaptureDir(number[c], target[c]), "clienthello.bin">>
Numbered(c) == pc[c] \notin {"new", "reading"}
Writing(c) == pc[c] \in {"open", "write"}
AtProfile(c) == Numbered(c) /\ (Writing(c) => file[c] > 3)

\* The handler has its number and is at one of its files.
Places == \A c \in Conns : Writing(c) =>
  /\ number[c] \in 1..MaxNumber /\ file[c] \in 1..6
  /\ file[c] > 3 => target[c] \in Targets

\* A number is given once.
Numbers ==
  /\ \A c \in Conns : number[c] <= seq /\ (~Numbered(c) => number[c] = 0)
  /\ \A c, d \in Conns : number[c] = number[d] /\ number[c] # 0 => c = d

\* What a file says of the connection whose content it is.
Owned == \A c \in Conns, name \in Names :
  /\ \A n \in 1..MaxNumber, t \in TargetIDs :
       disk[<<CaptureDir(n, t), name>>] = c => number[c] = n /\ target[c] = t
  /\ \A t \in Targets : disk[<<ProfileDir(t), name>>] = c => AtProfile(c) /\ target[c] = t

\* A handler that has a capture file open finds it empty.
Fresh == \A c \in Conns : pc[c] = "write" /\ file[c] <= 3 => disk[Path(c)] = Empty

\* A capture directory has no mixture.
Unmixed == \A n \in 1..MaxNumber, t \in TargetIDs, name \in Names :
  disk[<<CaptureDir(n, t), name>>] \in Conns \cup {Absent, Empty}

\* The connections whose hello must lie in their capture directory.
Stored(c) ==
  \/ Writing(c) /\ file[c] > 1
  \/ pc[c] = "answer" \/ c \in answered
  \/ \E t \in Targets : disk[<<ProfileDir(t), "profile.json">>] = c

Kept ==
  /\ \A c \in answered : pc[c] = "closed"
  /\ \A c \in Conns : Stored(c) => number[c] \in 1..MaxNumber /\ disk[HelloPath(c)] = c

Private == Places /\ Numbers /\ Owned /\ Fresh /\ Unmixed /\ Kept

-----------------------------------------------------------------------------
\* Every variable keeps its type, for every value of the constants.
THEOREM TypeCorrect == Spec => []TypeOK
<1>1. Init => TypeOK
  BY CaptureAssumption DEF Init, TypeOK, TargetIDs, Contents
<1>2. TypeOK /\ [Next]_vars => TypeOK'
  <2> SUFFICES ASSUME TypeOK, [Next]_vars PROVE TypeOK'
    OBVIOUS
  <2> USE CaptureAssumption DEF TypeOK, meta
  <2>1. ASSUME NEW c \in Conns, NEW t \in TargetIDs, Accept(c, t) PROVE TypeOK'
    BY <2>1 DEF Accept, Deadline
  <2>2. ASSUME NEW c \in Conns, DeadlinePasses(c) PROVE TypeOK'
    BY <2>2 DEF DeadlinePasses
  <2>3. ASSUME NEW c \in Conns, ReadFails(c) PROVE TypeOK'
    BY <2>3 DEF ReadFails
  <2>4. ASSUME NEW c \in Conns, ReadHello(c) PROVE TypeOK'
    BY <2>4 DEF ReadHello, NextNumber
  <2>5. ASSUME NEW c \in Conns, Open(c) PROVE TypeOK'
    BY <2>5 DEF Open, Contents
  <2>6. ASSUME NEW c \in Conns, Write(c) PROVE TypeOK'
    <3>1. disk' \in [Dirs \X Names -> Contents]
      <4>1. Written(c) \subseteq Contents
        BY DEF Written, Contents
      <4>2. PICK x \in Written(c) : disk' = [disk EXCEPT ![Path(c)] = x]
        BY <2>6 DEF Write
      <4> QED BY <4>1, <4>2
    <3>2. pc' \in [Conns -> {"new", "reading", "open", "write", "answer", "closed"}]
      BY <2>6 DEF Write, GoOn
    <3>3. LastFile(c) \in {3, 6}
      BY DEF LastFile
    <3>4. file[c] < LastFile(c) => file[c] + 1 \in 0..6
      BY <3>3
    <3>5. file' \in [Conns -> 0..6]
      BY <2>6, <3>4 DEF Write, GoOn
    <3> QED BY <2>6, <3>1, <3>2, <3>5 DEF Write
  <2>7. ASSUME NEW c \in Conns, WriteFails(c) PROVE TypeOK'
    <3>1. pc' \in [Conns -> {"new", "reading", "open", "write", "answer", "closed"}]
      BY <2>7 DEF WriteFails, AfterFailure, GoOn
    <3>3. LastFile(c) \in {3, 6}
      BY DEF LastFile
    <3>4. file[c] < LastFile(c) => file[c] + 1 \in 0..6
      BY <3>3
    <3>2. file' \in [Conns -> 0..6]
      BY <2>7, <3>4 DEF WriteFails, AfterFailure, GoOn
    <3> QED BY <2>7, <3>1, <3>2 DEF WriteFails
  <2>8. ASSUME NEW c \in Conns, Answer(c) PROVE TypeOK'
    BY <2>8 DEF Answer
  <2>9. ASSUME NEW c \in Conns, AnswerFails(c) PROVE TypeOK'
    BY <2>9 DEF AnswerFails
  <2>10. CASE Restart
    BY <2>10 DEF Restart, Active
  <2>11. CASE UNCHANGED vars
    BY <2>11 DEF vars
  <2> QED BY <2>1, <2>2, <2>3, <2>4, <2>5, <2>6, <2>7, <2>8, <2>9, <2>10, <2>11 DEF Next
<1> QED BY <1>1, <1>2, PTL DEF Spec

-----------------------------------------------------------------------------
\* The types and the places of the handlers, together.
LEMMA InitPlaces == Init => Places
  BY DEF Init, Places, Writing

LEMMA NextPlaces == TypeOK /\ Places /\ [Next]_vars => Places'
<1> SUFFICES ASSUME TypeOK, Places, [Next]_vars, NEW d \in Conns, Writing(d)'
             PROVE  /\ (number[d] \in 1..MaxNumber /\ file[d] \in 1..6)'
                    /\ (file[d] > 3 => target[d] \in Targets)'
  BY DEF Places
<1> USE DEF TypeOK, Places, Writing, meta
<1>0. \A c \in Conns : LastFile(c) \in {3, 6} /\ (LastFile(c) = 6 => target[c] \in Targets)
  BY DEF LastFile, TargetIDs
<1>1. ASSUME NEW c \in Conns, NEW t \in TargetIDs, Accept(c, t) PROVE Writing(d) /\ d # c
  BY <1>1 DEF Accept
<1>2. ASSUME NEW c \in Conns, ReadHello(c)
      PROVE  /\ (number[d] \in 1..MaxNumber /\ file[d] \in 1..6)'
             /\ (file[d] > 3 => target[d] \in Targets)'
  BY <1>2, CaptureAssumption DEF ReadHello, NextNumber
<1>3. ASSUME NEW c \in Conns, Write(c)
      PROVE  /\ (number[d] \in 1..MaxNumber /\ file[d] \in 1..6)'
             /\ (file[d] > 3 => target[d] \in Targets)'
  BY <1>0, <1>3 DEF Write, GoOn
<1>4. ASSUME NEW c \in Conns, WriteFails(c)
      PROVE  /\ (number[d] \in 1..MaxNumber /\ file[d] \in 1..6)'
             /\ (file[d] > 3 => target[d] \in Targets)'
  BY <1>0, <1>4 DEF WriteFails, AfterFailure, GoOn
<1>5. ASSUME NEW c \in Conns, DeadlinePasses(c) \/ ReadFails(c) \/ Open(c) \/ Answer(c) \/ AnswerFails(c)
      PROVE  Writing(d) /\ UNCHANGED <<number, file, target>>
  BY <1>5 DEF DeadlinePasses, ReadFails, Open, Answer, AnswerFails
<1>6. CASE Restart
  BY <1>6 DEF Restart, Active
<1>7. CASE UNCHANGED vars
  BY <1>7 DEF vars
<1>8. ASSUME NEW c \in Conns, NEW t \in TargetIDs, Accept(c, t)
      PROVE  /\ (number[d] \in 1..MaxNumber /\ file[d] \in 1..6)'
             /\ (file[d] > 3 => target[d] \in Targets)'
  BY <1>1, <1>8 DEF Accept
<1> QED BY <1>2, <1>3, <1>4, <1>5, <1>6, <1>7, <1>8 DEF Next

-----------------------------------------------------------------------------
\* Directories tell numbers, targets and profiles apart.
LEMMA DirsDiffer ==
  /\ \A n, m, t, u : CaptureDir(n, t) = CaptureDir(m, u) => n = m /\ t = u
  /\ \A t, u : ProfileDir(t) = ProfileDir(u) => t = u
  /\ \A n, t, u : CaptureDir(n, t) # ProfileDir(u)
  BY DEF CaptureDir, ProfileDir

\* Where a handler writes.
LEMMA PathOf ==
  ASSUME NEW c \in Conns
  PROVE  /\ file[c] = 1 => Path(c) = HelloPath(c)
         /\ file[c] = 2 => Path(c) = <<CaptureDir(number[c], target[c]), "spec.txt">>
         /\ file[c] = 3 => Path(c) = <<CaptureDir(number[c], target[c]), "meta.json">>
         /\ file[c] = 4 => Path(c) = <<ProfileDir(target[c]), "clienthello.bin">>
         /\ file[c] = 5 => Path(c) = <<ProfileDir(target[c]), "meta.json">>
         /\ file[c] = 6 => Path(c) = <<ProfileDir(target[c]), "profile.json">>
  BY DEF Path, HelloPath

\* The file after which a handler is done with a file of a profile.
Index == [name \in {"clienthello.bin", "meta.json", "profile.json"} |->
            IF name = "clienthello.bin" THEN 4 ELSE IF name = "meta.json" THEN 5 ELSE 6]

\* What the handler of d has written in the profile of its target, and nothing
\* older than d came after it.
Done(d, name) ==
  \/ d \in answered \/ pc[d] = "answer"
  \/ Writing(d) /\ name \in DOMAIN Index /\ file[d] > Index[name]

Later ==
  /\ \A t \in Targets : disk[<<ProfileDir(t), "spec.txt">>] = Absent
  /\ \A d \in Conns :
       /\ d \in answered => pc[d] = "closed"
       /\ pc[d] # "new" => \A c \in before[d] : pc[c] = "closed"
       /\ target[d] \in Targets => \A name \in Names :
            Done(d, name) => disk[<<ProfileDir(target[d]), name>>] \notin before[d]

\* A write changes one file.
LEMMA OneFile ==
  ASSUME TypeOK, NEW p, NEW x, disk' = [disk EXCEPT ![p] = x], NEW q \in Dirs \X Names
  PROVE  disk'[q] = IF q = p THEN x ELSE disk[q]
  BY DEF TypeOK

LEMMA ProfilePaths ==
  ASSUME NEW t \in Targets, NEW name \in Names
  PROVE  <<ProfileDir(t), name>> \in Dirs \X Names
  BY DEF Dirs

\* A handler that writes into a profile writes the file of its index.
LEMMA ProfileWrites ==
  ASSUME TypeOK, NEW c \in Conns, NEW t \in Targets, NEW name \in Names,
         Path(c) = <<ProfileDir(t), name>>, Writing(c), file[c] \in 1..6
  PROVE  name \in DOMAIN Index /\ file[c] = Index[name] /\ target[c] = t
<1>1. file[c] \in 1..3 => Path(c)[1] = CaptureDir(number[c], target[c])
  BY PathOf DEF HelloPath
<1>2. file[c] \in 4..6
  BY <1>1, DirsDiffer
<1>3. Path(c)[1] = ProfileDir(target[c])
  BY <1>2, PathOf
<1>4. target[c] = t
  BY <1>3, DirsDiffer
<1>5. /\ file[c] = 4 => Path(c)[2] = "clienthello.bin"
      /\ file[c] = 5 => Path(c)[2] = "meta.json"
      /\ file[c] = 6 => Path(c)[2] = "profile.json"
  BY PathOf
<1>6. Path(c)[2] = name
  OBVIOUS
<1> QED BY <1>2, <1>4, <1>5, <1>6 DEF Index

\* What the steps that write no file keep of Later.
LEMMA LaterKept ==
  ASSUME TypeOK, TypeOK', Later, UNCHANGED disk,
         \A d \in Conns :
           /\ d \in answered' => d \in answered \/ pc[d] = "answer"
           /\ d \in answered' => pc'[d] = "closed"
           /\ pc[d] = "closed" => pc'[d] = "closed"
           /\ \/ target'[d] = target[d] /\ before'[d] = before[d] /\ pc[d] # "new"
              \/ pc'[d] = "new"
              \/ pc'[d] = "reading" /\ before'[d] = {c \in Conns : pc[c] = "closed"}
           /\ pc'[d] = "answer" => pc[d] = "answer"
           /\ Writing(d)' => (Writing(d) /\ file'[d] = file[d]) \/ file'[d] <= 4
  PROVE  Later'
<1> USE DEF Later
<1>1. (\A t \in Targets : disk[<<ProfileDir(t), "spec.txt">>] = Absent)'
  OBVIOUS
<1> SUFFICES ASSUME NEW d \in Conns
             PROVE  /\ (d \in answered => pc[d] = "closed")'
                    /\ (pc[d] # "new" => \A c \in before[d] : pc[c] = "closed")'
                    /\ (target[d] \in Targets => \A name \in Names :
                          Done(d, name) => disk[<<ProfileDir(target[d]), name>>] \notin before[d])'
  BY <1>1
<1>2. (d \in answered => pc[d] = "closed")'
  OBVIOUS
<1>3. (pc[d] # "new" => \A c \in before[d] : pc[c] = "closed")'
  BY DEF TypeOK
<1>4. (target[d] \in Targets => \A name \in Names :
         Done(d, name) => disk[<<ProfileDir(target[d]), name>>] \notin before[d])'
  <2> SUFFICES ASSUME (target[d] \in Targets)', NEW name \in Names, Done(d, name)'
               PROVE  (disk[<<ProfileDir(target[d]), name>>] \notin before[d])'
    OBVIOUS
  <2>1. name \in DOMAIN Index => Index[name] \in {4, 5, 6}
    BY DEF Index
  <2>2. file'[d] <= 4 => ~(name \in DOMAIN Index /\ file'[d] > Index[name])
    BY <2>1 DEF TypeOK
  <2>3. Done(d, name)
    BY <2>2 DEF Done
  <2>4. pc[d] # "new"
    BY <2>3 DEF Done, Writing
  <2>5. pc'[d] \notin {"new", "reading"}
    BY DEF Done, Writing
  <2>6. target'[d] = target[d] /\ before'[d] = before[d]
    BY <2>5
  <2> QED BY <2>3, <2>6
<1> QED BY <1>2, <1>3, <1>4

\* A handler that opens or writes a file, or fails to where no write fails.
LEMMA LaterWrite ==
  ASSUME TypeOK, TypeOK', Places, Later, NEW c \in Conns, Open(c) \/ Write(c)
  PROVE  Later'
<1> USE DEF Later
<1>1. PICK x \in {Empty, Mixed, c} : disk' = [disk EXCEPT ![Path(c)] = x]
  BY DEF Open, Write, Written
<1>2. Writing(c) /\ pc[c] \notin {"new", "closed"} /\ file[c] \in 1..6
  BY DEF Open, Write, Writing, Places
<1>3. UNCHANGED <<target, before, answered>>
  BY DEF Open, Write, meta
<1>4. \A d \in Conns \ {c} : pc'[d] = pc[d] /\ file'[d] = file[d]
  BY DEF Open, Write, GoOn, TypeOK
<1>5. pc'[c] \in {"open", "write", "answer"}
  BY DEF Open, Write, GoOn, TypeOK
<1>6. (\A t \in Targets : disk[<<ProfileDir(t), "spec.txt">>] = Absent)'
  <2> SUFFICES ASSUME NEW t \in Targets PROVE disk'[<<ProfileDir(t), "spec.txt">>] = Absent
    OBVIOUS
  <2>1. <<ProfileDir(t), "spec.txt">> \in Dirs \X Names
    BY ProfilePaths DEF Names
  <2>2. Path(c) # <<ProfileDir(t), "spec.txt">>
    BY <1>2, ProfileWrites DEF Index, Names
  <2> QED BY <1>1, <2>1, <2>2, OneFile
<1>7. ASSUME NEW d \in Conns
      PROVE  /\ (d \in answered => pc[d] = "closed")'
             /\ (pc[d] # "new" => \A b \in before[d] : pc[b] = "closed")'
  BY <1>2, <1>3, <1>4, <1>5 DEF TypeOK
<1>8. ASSUME NEW d \in Conns, (target[d] \in Targets)', NEW name \in Names, Done(d, name)'
      PROVE  (disk[<<ProfileDir(target[d]), name>>] \notin before[d])'
  <2> DEFINE q == <<ProfileDir(target[d]), name>>
  <2>1. q \in Dirs \X Names
    BY <1>3, <1>8, ProfilePaths
  <2>2. disk'[q] = IF q = Path(c) THEN x ELSE disk[q]
    BY <1>1, <2>1 DEF TypeOK
  <2>3. pc[d] # "new"
    <3>1. d \in answered => pc[d] = "closed"
      OBVIOUS
    <3>2. CASE d # c
      BY <1>3, <1>4, <1>8, <3>1, <3>2 DEF Done, Writing
    <3> QED BY <1>2, <3>2
  <2>4. before[d] \subseteq Conns /\ c \notin before[d]
    <3>1. before[d] \subseteq Conns
      BY DEF TypeOK
    <3>2. \A b \in before[d] : pc[b] = "closed"
      BY <2>3
    <3> QED BY <1>2, <3>1, <3>2
  <2>5. x \notin before[d]
    <3>1. Empty \notin Conns /\ Mixed \notin Conns
      BY CaptureAssumption
    <3> QED BY <1>1, <2>4, <3>1
  <2>6. CASE Done(d, name)
    BY <1>3, <1>8, <2>2, <2>5, <2>6
  <2>7. CASE ~Done(d, name)
    <3>1. d = c
      BY <1>3, <1>4, <2>7, <1>8 DEF Done, Writing
    <3>2. Write(c)
      BY <1>8, <2>7, <3>1 DEF Open, Done, Writing, TypeOK
    <3>3. LastFile(c) = 6
      BY <1>3, <1>8, <3>1, CaptureAssumption DEF LastFile
    <3>4. CASE file[c] < 6
      <4>1. file'[c] = file[c] + 1 /\ pc'[c] = "open"
        BY <3>2, <3>3, <3>4 DEF Write, GoOn, TypeOK
      <4>2. name \in DOMAIN Index /\ file[c] = Index[name]
        <5>1. name \in DOMAIN Index /\ file[c] + 1 > Index[name]
          BY <1>8, <3>1, <4>1, <1>3, <1>2 DEF Done, Writing
        <5>2. ~(file[c] > Index[name])
          BY <1>2, <2>7, <3>1, <5>1 DEF Done
        <5>3. Index[name] \in {4, 5, 6}
          BY <5>1 DEF Index
        <5> QED BY <1>2, <5>1, <5>2, <5>3
      <4>3. q = Path(c)
        BY <1>2, <3>1, <4>2, PathOf DEF Index
      <4> QED BY <1>3, <2>2, <2>5, <4>3
    <3>5. CASE file[c] = 6
      <4>1. CASE name = "spec.txt"
        BY <1>3, <1>6, <1>8, <2>4, <4>1, CaptureAssumption DEF TypeOK
      <4>2. CASE name \in {"clienthello.bin", "meta.json"}
        BY <1>2, <2>7, <3>1, <3>5, <4>2 DEF Done, Index
      <4>3. CASE name = "profile.json"
        BY <1>3, <2>2, <2>5, <3>1, <3>5, <4>3, PathOf
      <4> QED BY <4>1, <4>2, <4>3 DEF Names
    <3> QED BY <1>2, <3>4, <3>5
  <2> QED BY <2>6, <2>7
<1> QED BY <1>6, <1>7, <1>8

LEMMA InitLater == Init => Later
<1> SUFFICES ASSUME Init PROVE Later
  OBVIOUS
<1>1. \A t \in Targets : disk[<<ProfileDir(t), "spec.txt">>] = Absent
  BY ProfilePaths DEF Init, Names
<1>2. \A d \in Conns : pc[d] = "new" /\ d \notin answered
  BY DEF Init
<1> QED BY <1>1, <1>2 DEF Later, Done, Writing

\* No write fails: every step keeps Later.
LEMMA NextLater ==
  ASSUME TypeOK, TypeOK', Places, Later, [Next]_vars, faults' = 0
  PROVE  Later'
<1>1. ASSUME NEW c \in Conns, NEW t \in TargetIDs, Accept(c, t) PROVE Later'
  <2> USE <1>1 DEF Accept, TypeOK, Writing
  <2>1. \A d \in Conns \ {c} : pc'[d] = pc[d] /\ target'[d] = target[d] /\ before'[d] = before[d]
    OBVIOUS
  <2>2. pc[c] = "new" /\ pc'[c] = "reading" /\ before'[c] = {d \in Conns : pc[d] = "closed"}
    OBVIOUS
  <2>3. UNCHANGED <<disk, file, answered>> /\ \A d \in answered : pc[d] = "closed"
    BY DEF Later
  <2> QED BY <2>1, <2>2, <2>3, LaterKept
<1>2. ASSUME NEW c \in Conns, DeadlinePasses(c) PROVE Later'
  BY <1>2, LaterKept DEF DeadlinePasses, TypeOK, Later, Writing, meta
<1>3. ASSUME NEW c \in Conns, ReadFails(c) PROVE Later'
  BY <1>3, LaterKept DEF ReadFails, TypeOK, Later, Writing, meta
<1>4. ASSUME NEW c \in Conns, ReadHello(c) PROVE Later'
  BY <1>4, LaterKept DEF ReadHello, TypeOK, Later, Writing, meta
<1>5. ASSUME NEW c \in Conns, Answer(c) PROVE Later'
  BY <1>5, LaterKept DEF Answer, TypeOK, Later, Writing, meta
<1>6. ASSUME NEW c \in Conns, AnswerFails(c) PROVE Later'
  BY <1>6, LaterKept DEF AnswerFails, TypeOK, Later, Writing, meta
<1>7. ASSUME NEW c \in Conns, Open(c) \/ Write(c) PROVE Later'
  BY <1>7, LaterWrite
<1>8. CASE Restart
  BY <1>8, LaterKept DEF Restart, Active, TypeOK, Later, Writing, meta
<1>9. CASE UNCHANGED vars
  BY <1>9, LaterKept DEF vars, TypeOK, Later, Writing
<1>10. \A c \in Conns : ~WriteFails(c)
  BY DEF WriteFails, TypeOK
<1> QED BY <1>1, <1>2, <1>3, <1>4, <1>5, <1>6, <1>7, <1>8, <1>9, <1>10 DEF Next

\* While no write fails, no file of a profile is older than the last answer,
\* however handlers overlap and whenever the server is killed and started again
\* (capture/main.go:111-114, 164).
THEOREM LatestAlwaysWins == Spec => []LatestWins
<1>1. TypeOK /\ (faults = 0 => Later) => LatestWins
  <2> SUFFICES ASSUME TypeOK, Later, NEW t \in Targets, NEW name \in Names,
                      NEW d \in answered, target[d] = t
               PROVE  disk[<<ProfileDir(t), name>>] \notin before[d]
    BY DEF LatestWins
  <2>1. Done(d, name) /\ d \in Conns
    BY DEF Done, TypeOK
  <2> QED BY <2>1 DEF Later
<1>2. Init => Places /\ (faults = 0 => Later)
  BY InitPlaces, InitLater
<1>3. TypeOK /\ TypeOK' /\ Places /\ (faults = 0 => Later) /\ [Next]_vars
        => Places' /\ (faults = 0 => Later)'
  <2> SUFFICES ASSUME TypeOK, TypeOK', Places, faults = 0 => Later, [Next]_vars
               PROVE  Places' /\ (faults' = 0 => Later')
    OBVIOUS
  <2>1. faults' = 0 => faults = 0
    BY DEF Next, vars, Accept, DeadlinePasses, ReadFails, ReadHello, Open, Write, WriteFails, Answer,
           AnswerFails, Restart, TypeOK
  <2> QED BY <2>1, NextPlaces, NextLater
<1> QED BY <1>1, <1>2, <1>3, TypeCorrect, PTL DEF Spec

-----------------------------------------------------------------------------
LEMMA InitPrivate == Init => Private
<1> SUFFICES ASSUME Init PROVE Private
  OBVIOUS
<1>1. \A f \in Dirs \X Names : disk[f] = Absent
  BY DEF Init
<1>2. \A n \in 1..MaxNumber, t \in TargetIDs, name \in Names :
        disk[<<CaptureDir(n, t), name>>] = Absent
  BY <1>1 DEF Dirs
<1>3. \A t \in Targets, name \in Names : disk[<<ProfileDir(t), name>>] = Absent
  BY <1>1 DEF Dirs
<1>4. \A c \in Conns : pc[c] = "new" /\ number[c] = 0 /\ c # Absent /\ c \notin answered
  BY CaptureAssumption DEF Init
<1>5. seq = 0 /\ answered = {}
  BY DEF Init
<1>6. Owned
  BY <1>2, <1>3, <1>4 DEF Owned
<1>7. Unmixed
  BY <1>2 DEF Unmixed
<1>8. Kept
  BY <1>3, <1>4, <1>5 DEF Kept, Stored, Writing, Names
<1> QED BY <1>4, <1>5, <1>6, <1>7, <1>8 DEF Private, Places, Numbers, Fresh, Writing, Numbered

\* Numbers stay unique: only ReadHello gives one.
LEMMA NumbersKept ==
  ASSUME TypeOK, TypeOK', Numbers, Next, restarts' = 0
  PROVE  Numbers'
<1> USE DEF Numbers, Numbered, TypeOK, meta
<1>1. ASSUME NEW c \in Conns, NEW t \in TargetIDs, Accept(c, t) PROVE Numbers'
  BY <1>1 DEF Accept
<1>2. ASSUME NEW c \in Conns, ReadHello(c) PROVE Numbers'
  BY <1>2 DEF ReadHello, NextNumber
<1>3. ASSUME NEW c \in Conns,
             \/ DeadlinePasses(c) \/ ReadFails(c) \/ Open(c) \/ Write(c) \/ WriteFails(c)
             \/ Answer(c) \/ AnswerFails(c)
      PROVE  Numbers'
  <2>1. UNCHANGED <<number, seq>>
    BY <1>3 DEF DeadlinePasses, ReadFails, Open, Write, WriteFails, Answer, AnswerFails
  <2>2. \A d \in Conns : Numbered(d) => Numbered(d)'
    BY <1>3 DEF DeadlinePasses, ReadFails, Open, Write, GoOn, WriteFails, AfterFailure, Answer,
                AnswerFails
  <2> QED BY <2>1, <2>2
<1>4. ~Restart
  BY DEF Restart
<1> QED BY <1>1, <1>2, <1>3, <1>4 DEF Next

\* What every step but Restart does to a connection, when it writes no file.
Unwritten ==
  /\ UNCHANGED disk
  /\ \A c \in Conns :
       /\ AtProfile(c) => AtProfile(c)'
       /\ Numbered(c) => Numbered(c)' /\ number'[c] = number[c] /\ target'[c] = target[c]
       /\ pc'[c] = "write" => pc[c] = "write" /\ file'[c] = file[c]
       /\ pc'[c] = "answer" \/ (Writing(c)' /\ file'[c] > 1) =>
            pc[c] = "answer" \/ (Writing(c) /\ file[c] > 1)
       /\ c \in answered' => pc'[c] = "closed" /\ (c \in answered \/ pc[c] = "answer")

LEMMA UnwrittenKeeps ==
  ASSUME TypeOK, TypeOK', Private, Unwritten
  PROVE  Owned' /\ Fresh' /\ Unmixed' /\ Kept'
<1> USE DEF Private, Unwritten
<1>1. Owned'
  <2> SUFFICES ASSUME NEW c \in Conns, NEW name \in Names
               PROVE  /\ \A n \in 1..MaxNumber, t \in TargetIDs :
                           disk[<<CaptureDir(n, t), name>>] = c => number'[c] = n /\ target'[c] = t
                      /\ \A t \in Targets :
                           disk[<<ProfileDir(t), name>>] = c => AtProfile(c)' /\ target'[c] = t
    BY DEF Owned
  <2>1. ASSUME NEW n \in 1..MaxNumber, NEW t \in TargetIDs, disk[<<CaptureDir(n, t), name>>] = c
        PROVE  number'[c] = n /\ target'[c] = t
    <3>1. number[c] = n /\ target[c] = t /\ n # 0
      BY <2>1 DEF Owned
    <3>2. Numbered(c)
      BY <3>1 DEF Numbers
    <3> QED BY <3>1, <3>2
  <2>2. ASSUME NEW t \in Targets, disk[<<ProfileDir(t), name>>] = c
        PROVE  AtProfile(c)' /\ target'[c] = t
    <3>1. AtProfile(c) /\ Numbered(c) /\ target[c] = t
      BY <2>2 DEF Owned, AtProfile
    <3> QED BY <3>1
  <2> QED BY <2>1, <2>2
<1>2. Fresh'
  <2> SUFFICES ASSUME NEW c \in Conns, pc'[c] = "write", file'[c] <= 3 PROVE disk'[Path(c)'] = Empty
    BY DEF Fresh
  <2>1. pc[c] = "write" /\ file'[c] = file[c] /\ Numbered(c)
    BY DEF Numbered
  <2>2. number'[c] = number[c] /\ target'[c] = target[c]
    BY <2>1
  <2>3. Path(c)' = Path(c)
    BY <2>1, <2>2 DEF Path
  <2> QED BY <2>1, <2>3 DEF Fresh
<1>3. Unmixed'
  BY DEF Unmixed
<1>4. Kept'
  <2> SUFFICES ASSUME NEW c \in Conns, Stored(c)'
               PROVE  number'[c] \in 1..MaxNumber /\ disk'[HelloPath(c)'] = c
    BY DEF Kept, TypeOK
  <2>1. Stored(c)
    BY DEF Stored
  <2>2. Numbered(c)
    BY <2>1 DEF Stored, Numbered, Writing, Kept, Owned, Names, AtProfile
  <2>3. HelloPath(c)' = HelloPath(c) /\ number'[c] = number[c]
    BY <2>2 DEF HelloPath
  <2> QED BY <2>1, <2>3 DEF Kept
<1> QED BY <1>1, <1>2, <1>3, <1>4

\* What a step that writes does.
LEMMA Writes ==
  ASSUME TypeOK, TypeOK', Private, NEW c \in Conns, Open(c) \/ Write(c)
  PROVE  /\ Writing(c) /\ file[c] \in 1..6 /\ number[c] \in 1..MaxNumber
         /\ UNCHANGED <<number, target, answered>>
         /\ \A d \in Conns : (pc'[d] = pc[d] /\ file'[d] = file[d]) \/ d = c
         /\ pc'[c] \in {"open", "write", "answer"}
         /\ pc'[c] = "write" => Open(c)
         /\ \E x \in {Empty, Mixed, c} :
              /\ disk' = [disk EXCEPT ![Path(c)] = x]
              /\ file[c] <= 3 => x # Mixed \/ Mixed = Empty
              /\ Write(c) /\ file[c] <= 3 => x = c
              /\ Open(c) => x = Empty
<1>1. Writing(c) /\ file[c] \in 1..6 /\ number[c] \in 1..MaxNumber
  BY DEF Private, Places, Open, Write, Writing
<1>2. UNCHANGED <<number, target, answered>>
  BY DEF Open, Write, meta
<1>3. \A d \in Conns : (pc'[d] = pc[d] /\ file'[d] = file[d]) \/ d = c
  BY DEF Open, Write, GoOn, TypeOK
<1>4. pc'[c] \in {"open", "write", "answer"} /\ (pc'[c] = "write" => Open(c))
  BY DEF Open, Write, GoOn, TypeOK
<1>5. CASE Open(c)
  BY <1>1, <1>2, <1>3, <1>4, <1>5 DEF Open, Write
<1>6. CASE Write(c)
  <2>1. file[c] <= 3 => disk[Path(c)] = Empty
    BY <1>6 DEF Private, Fresh, Write
  <2>2. PICK x \in Written(c) : disk' = [disk EXCEPT ![Path(c)] = x]
    BY <1>6 DEF Write
  <2>3. x \in {Empty, Mixed, c} /\ (file[c] <= 3 => x = c)
    BY <2>1, <2>2 DEF Written
  <2>4. c # Mixed /\ ~Open(c)
    BY <1>6, CaptureAssumption DEF Open, Write
  <2> QED BY <1>1, <1>2, <1>3, <1>4, <1>6, <2>2, <2>3, <2>4
<1> QED BY <1>5, <1>6

\* Where the file a handler has open lies.
LEMMA PathDirs ==
  ASSUME TypeOK, Private, NEW c \in Conns, Writing(c)
  PROVE  /\ Path(c) \in Dirs \X Names
         /\ file[c] <= 3 => Path(c)[1] = CaptureDir(number[c], target[c])
         /\ file[c] > 3 => Path(c)[1] = ProfileDir(target[c]) /\ target[c] \in Targets
         /\ file[c] = 6 <=> (file[c] > 3 /\ Path(c)[2] = "profile.json")
         /\ file[c] = 1 <=> Path(c) = HelloPath(c)
<1>1. file[c] \in 1..6 /\ number[c] \in 1..MaxNumber /\ target[c] \in TargetIDs
  BY DEF Private, Places, TypeOK
<1>2. file[c] > 3 => target[c] \in Targets
  BY DEF Private, Places
<1>3. file[c] <= 3 => CaptureDir(number[c], target[c]) \in Dirs
  BY <1>1 DEF Dirs
<1>4. file[c] > 3 => ProfileDir(target[c]) \in Dirs
  BY <1>2 DEF Dirs
<1>5. CaptureDir(number[c], target[c]) # ProfileDir(target[c])
  BY DirsDiffer
<1>6. CASE file[c] \in {1, 2, 3}
  BY <1>3, <1>6, PathOf DEF HelloPath, Names
<1>7. CASE file[c] \in {4, 5, 6}
  BY <1>2, <1>4, <1>5, <1>7, PathOf DEF HelloPath, Names
<1> QED BY <1>1, <1>6, <1>7

LEMMA WriteKeeps ==
  ASSUME TypeOK, TypeOK', Private, NEW c \in Conns, Open(c) \/ Write(c)
  PROVE  Owned' /\ Fresh' /\ Unmixed' /\ Kept'
<1>1. PICK x \in {Empty, Mixed, c} :
        /\ disk' = [disk EXCEPT ![Path(c)] = x]
        /\ file[c] <= 3 => x # Mixed \/ Mixed = Empty
        /\ Write(c) /\ file[c] <= 3 => x = c
        /\ Open(c) => x = Empty
  BY Writes
<1>2. /\ Writing(c) /\ file[c] \in 1..6 /\ number[c] \in 1..MaxNumber
      /\ UNCHANGED <<number, target, answered>>
      /\ \A d \in Conns : (pc'[d] = pc[d] /\ file'[d] = file[d]) \/ d = c
      /\ pc'[c] \in {"open", "write", "answer"}
      /\ pc'[c] = "write" => Open(c)
  BY Writes
<1>3. \A q \in Dirs \X Names : disk'[q] = IF q = Path(c) THEN x ELSE disk[q]
  BY <1>1 DEF TypeOK
<1>4. /\ Path(c) \in Dirs \X Names
      /\ file[c] <= 3 => Path(c)[1] = CaptureDir(number[c], target[c])
      /\ file[c] > 3 => Path(c)[1] = ProfileDir(target[c]) /\ target[c] \in Targets
      /\ file[c] = 6 <=> (file[c] > 3 /\ Path(c)[2] = "profile.json")
      /\ file[c] = 1 <=> Path(c) = HelloPath(c)
  BY <1>2, PathDirs
<1>5. \A d \in Conns : d # Empty /\ d # Mixed
  BY CaptureAssumption
<1>6. Numbered(c)
  BY <1>2 DEF Writing, Numbered
<1>7. ASSUME NEW n \in 1..MaxNumber, NEW t \in TargetIDs, NEW name \in Names
      PROVE  /\ <<CaptureDir(n, t), name>> \in Dirs \X Names
             /\ <<CaptureDir(n, t), name>> = Path(c) => file[c] <= 3 /\ number[c] = n /\ target[c] = t
  BY <1>2, <1>4, DirsDiffer DEF Dirs
<1>8. ASSUME NEW t \in Targets, NEW name \in Names
      PROVE  /\ <<ProfileDir(t), name>> \in Dirs \X Names
             /\ <<ProfileDir(t), name>> = Path(c) => file[c] > 3 /\ target[c] = t
  BY <1>2, <1>4, DirsDiffer, ProfilePaths
<1>9. \A d \in Conns : AtProfile(d) => AtProfile(d)'
  <2>1. Writing(c)' => file'[c] \in {file[c], file[c] + 1}
    BY DEF Open, Write, GoOn, Writing, TypeOK
  <2>2. AtProfile(c) => AtProfile(c)'
    BY <1>2, <2>1 DEF AtProfile, Numbered
  <2> QED BY <1>2, <2>2 DEF AtProfile, Numbered, Writing
<1>10. Owned'
  <2> SUFFICES ASSUME NEW d \in Conns, NEW name \in Names
               PROVE  /\ \A n \in 1..MaxNumber, t \in TargetIDs :
                           disk'[<<CaptureDir(n, t), name>>] = d => number[d] = n /\ target[d] = t
                      /\ \A t \in Targets :
                           disk'[<<ProfileDir(t), name>>] = d => AtProfile(d)' /\ target[d] = t
    BY <1>2 DEF Owned
  <2>1. ASSUME NEW n \in 1..MaxNumber, NEW t \in TargetIDs, disk'[<<CaptureDir(n, t), name>>] = d
        PROVE  number[d] = n /\ target[d] = t
    BY <1>1, <1>3, <1>5, <1>7, <2>1 DEF Private, Owned
  <2>2. ASSUME NEW t \in Targets, disk'[<<ProfileDir(t), name>>] = d
        PROVE  AtProfile(d)' /\ target[d] = t
    <3>1. CASE <<ProfileDir(t), name>> # Path(c)
      BY <1>3, <1>8, <1>9, <2>2, <3>1 DEF Private, Owned
    <3>2. CASE <<ProfileDir(t), name>> = Path(c)
      <4>1. d = c /\ file[c] > 3 /\ target[c] = t
        BY <1>3, <1>5, <1>8, <2>2, <3>2
      <4>2. AtProfile(c)
        BY <1>6, <4>1 DEF AtProfile
      <4> QED BY <1>9, <4>1, <4>2
    <3> QED BY <3>1, <3>2
  <2> QED BY <2>1, <2>2
<1>11. Unmixed'
  BY <1>1, <1>3, <1>7 DEF Private, Unmixed
<1>12. Fresh'
  <2> SUFFICES ASSUME NEW d \in Conns, pc'[d] = "write", file'[d] <= 3 PROVE disk'[Path(d)'] = Empty
    BY DEF Fresh
  <2>1. CASE d = c
    <3>1. Open(c) /\ x = Empty /\ file' = file
      BY <1>1, <1>2, <2>1 DEF Open
    <3>2. Path(c)' = Path(c)
      BY <1>2, <3>1 DEF Path
    <3> QED BY <1>3, <1>4, <2>1, <3>1, <3>2
  <2>2. CASE d # c
    <3>1. pc[d] = "write" /\ file[d] <= 3 /\ Path(d)' = Path(d)
      BY <1>2, <2>2 DEF Path
    <3>2. disk[Path(d)] = Empty
      BY <3>1 DEF Private, Fresh
    <3>3. /\ Path(d) \in Dirs \X Names
          /\ Path(d)[1] = CaptureDir(number[d], target[d]) /\ number[d] \in 1..MaxNumber
      BY <3>1, PathDirs DEF Writing, Private, Places
    <3>4. number[d] # number[c]
      BY <2>2, <3>3 DEF Private, Numbers
    <3>5. Path(d) # Path(c)
      BY <1>2, <1>4, <3>3, <3>4, DirsDiffer
    <3> QED BY <1>3, <3>1, <3>2, <3>3, <3>5
  <2> QED BY <2>1, <2>2
<1>13. Kept'
  <2>1. \A d \in answered' : d # c /\ pc'[d] = "closed"
    BY <1>2 DEF Private, Kept, Writing, TypeOK
  <2> SUFFICES ASSUME NEW d \in Conns, Stored(d)'
               PROVE  number[d] \in 1..MaxNumber /\ disk'[HelloPath(d)] = d
    BY <1>2, <2>1 DEF Kept, HelloPath
  <2>2. CASE d # c
    <3>1. \A t \in Targets : disk'[<<ProfileDir(t), "profile.json">>] = d
                               => disk[<<ProfileDir(t), "profile.json">>] = d
      BY <1>1, <1>3, <1>5, <1>8, <2>2 DEF Names
    <3>2. Stored(d)
      BY <1>2, <2>2, <3>1 DEF Stored, Writing
    <3>3. number[d] \in 1..MaxNumber /\ disk[HelloPath(d)] = d
      BY <3>2 DEF Private, Kept
    <3>4. number[d] # number[c]
      BY <1>2, <2>2, <3>3 DEF Private, Numbers
    <3>5. HelloPath(d) # Path(c) /\ HelloPath(d) \in Dirs \X Names
      <4>1. target[d] \in TargetIDs /\ "clienthello.bin" \in Names
        BY DEF TypeOK, Names
      <4>2. /\ HelloPath(d) \in Dirs \X Names
            /\ HelloPath(d) = Path(c) => number[c] = number[d]
        BY <1>7, <3>3, <4>1 DEF HelloPath
      <4> QED BY <3>4, <4>2
    <3> QED BY <1>3, <3>3, <3>5
  <2>3. CASE d = c /\ file[c] = 1
    <3>1. ~AtProfile(c)
      BY <1>2, <2>3 DEF AtProfile
    <3>2. \A t \in Targets : disk[<<ProfileDir(t), "profile.json">>] # c
      BY <3>1 DEF Private, Owned, Names
    <3>3. \A t \in Targets : disk'[<<ProfileDir(t), "profile.json">>] # c
      <4> SUFFICES ASSUME NEW t \in Targets
                   PROVE  disk'[<<ProfileDir(t), "profile.json">>] # c
        OBVIOUS
      <4>1. "profile.json" \in Names
        BY DEF Names
      <4>2. /\ <<ProfileDir(t), "profile.json">> \in Dirs \X Names
            /\ <<ProfileDir(t), "profile.json">> = Path(c) => file[c] > 3
        BY <1>8, <4>1
      <4> QED BY <1>3, <2>3, <3>2, <4>2
    <3>4. Write(c)
      <4>1. Stored(c)'
        BY <2>3
      <4>2. pc'[c] = "answer" \/ (Writing(c)' /\ file'[c] > 1)
        BY <2>1, <3>3, <4>1 DEF Stored
      <4>3. Open(c) => pc'[c] = "write" /\ file'[c] = 1
        BY <2>3 DEF Open, TypeOK
      <4> QED BY <4>2, <4>3
    <3> QED BY <1>1, <1>2, <1>3, <1>4, <2>3, <3>4
  <2>4. CASE d = c /\ file[c] > 1
    <3>1. Stored(c)
      BY <1>2, <2>4 DEF Stored
    <3>2. disk[HelloPath(c)] = c /\ HelloPath(c) # Path(c)
      BY <1>4, <2>4, <3>1 DEF Private, Kept
    <3>3. HelloPath(c) \in Dirs \X Names
      BY <1>2, <1>7 DEF HelloPath, TypeOK, Names
    <3> QED BY <1>2, <1>3, <2>4, <3>2, <3>3
  <2> QED BY <1>2, <2>2, <2>3, <2>4
<1> QED BY <1>10, <1>11, <1>12, <1>13

\* Every step that writes no file keeps what Unwritten says.
LEMMA StepsUnwritten ==
  ASSUME TypeOK, TypeOK', Private, NEW c \in Conns,
         \/ \E t \in TargetIDs : Accept(c, t)
         \/ DeadlinePasses(c) \/ ReadFails(c) \/ ReadHello(c) \/ WriteFails(c)
         \/ Answer(c) \/ AnswerFails(c)
  PROVE  Unwritten
<1> USE DEF Unwritten, Numbered, Writing, AtProfile, TypeOK, meta
<1>0. \A d \in answered : d \in Conns /\ pc[d] = "closed"
  BY DEF Private, Kept
<1>1. ASSUME NEW t \in TargetIDs, Accept(c, t) PROVE Unwritten
  BY <1>0, <1>1 DEF Accept
<1>2. CASE DeadlinePasses(c)
  BY <1>0, <1>2 DEF DeadlinePasses
<1>3. CASE ReadFails(c)
  BY <1>0, <1>3 DEF ReadFails
<1>4. CASE ReadHello(c)
  BY <1>0, <1>4 DEF ReadHello, NextNumber
<1>5. CASE WriteFails(c)
  <2>1. UNCHANGED <<disk, number, target, answered>>
    BY <1>5 DEF WriteFails
  <2>2. pc[c] \in {"open", "write"} /\ file[c] \in 1..6
    BY <1>5 DEF WriteFails, Private, Places
  <2>3. \A d \in Conns \ {c} : pc'[d] = pc[d] /\ file'[d] = file[d]
    BY <1>5 DEF WriteFails, AfterFailure, GoOn
  <2>4. \/ pc'[c] = "closed" /\ file[c] = 1
        \/ pc'[c] \in {"open", "answer"} /\ file[c] > 1 /\ file'[c] \in {0, file[c], file[c] + 1}
           /\ (pc'[c] = "open" => file'[c] >= file[c])
    <3>1. CASE file[c] = 1
      BY <1>5, <3>1 DEF WriteFails, AfterFailure
    <3>2. CASE file[c] \in {2, 3}
      BY <1>5, <3>2 DEF WriteFails, AfterFailure, GoOn
    <3>3. CASE file[c] > 3
      BY <1>5, <3>3 DEF WriteFails, AfterFailure
    <3> QED BY <2>2, <3>1, <3>2, <3>3
  <2>5. c \notin answered
    BY <1>0, <2>2
  <2> QED BY <1>0, <2>1, <2>2, <2>3, <2>4, <2>5
<1>6. CASE Answer(c)
  BY <1>0, <1>6 DEF Answer
<1>7. CASE AnswerFails(c)
  BY <1>0, <1>7 DEF AnswerFails
<1> QED BY <1>1, <1>2, <1>3, <1>4, <1>5, <1>6, <1>7

\* A server that was never restarted keeps Private.
LEMMA NextPrivate ==
  TypeOK /\ TypeOK' /\ (restarts = 0 => Private) /\ [Next]_vars => (restarts = 0 => Private)'
<1> SUFFICES ASSUME TypeOK, TypeOK', restarts = 0 => Private, [Next]_vars, restarts' = 0
             PROVE  Private'
  OBVIOUS
<1>1. CASE UNCHANGED vars
  BY <1>1 DEF vars, Private, Places, Numbers, Owned, Fresh, Unmixed, Kept, Stored, Writing, Numbered,
              AtProfile, Path, HelloPath
<1>2. CASE Next
  <2>1. ~Restart
    BY DEF Restart, TypeOK
  <2>2. PICK c \in Conns :
          \/ \E t \in TargetIDs : Accept(c, t)
          \/ DeadlinePasses(c) \/ ReadFails(c) \/ ReadHello(c) \/ Open(c) \/ Write(c) \/ WriteFails(c)
          \/ Answer(c) \/ AnswerFails(c)
    BY <1>2, <2>1 DEF Next
  <2>3. restarts = 0
    BY <2>2 DEF Accept, DeadlinePasses, ReadFails, ReadHello, Open, Write, WriteFails, Answer, AnswerFails
  <2>4. Private
    BY <2>3
  <2>5. Numbers' /\ Places'
    BY <1>2, <2>4, NumbersKept, NextPlaces DEF Private
  <2>6. Owned' /\ Fresh' /\ Unmixed' /\ Kept'
    BY <2>2, <2>4, StepsUnwritten, UnwrittenKeeps, WriteKeeps
  <2> QED BY <2>5, <2>6 DEF Private
<1> QED BY <1>1, <1>2

LEMMA PrivateHolds == Spec => [](restarts = 0 => Private)
<1>1. Init => (restarts = 0 => Private)
  BY InitPrivate
<1> QED BY <1>1, NextPrivate, TypeCorrect, PTL DEF Spec

\* Until a restart captures/<n>-<id> holds the files of one connection only,
\* however the handlers interleave and whatever writes fail
\* (capture/main.go:83-110).
THEOREM DirsStayPrivate == Spec => []CaptureDirsPrivate
<1>1. (restarts = 0 => Private) => CaptureDirsPrivate
  <2> SUFFICES ASSUME Private, NEW n \in 1..MaxNumber, NEW t \in TargetIDs, NEW c \in Conns,
                      NEW name \in Names, disk[<<CaptureDir(n, t), name>>] = c,
                      NEW other \in Names, NEW d \in Conns,
                      disk[<<CaptureDir(n, t), other>>] = d
               PROVE  d = c
    BY DEF CaptureDirsPrivate, Private, Unmixed
  <2>1. number[c] = n /\ number[d] = n
    BY DEF Private, Owned
  <2> QED BY <2>1 DEF Private, Numbers
<1> QED BY <1>1, PrivateHolds, PTL

\* Until a restart an answer means a capture: the hello of a client that was
\* answered lies where its X-Captured-ID says (capture/main.go:83-93, 149).
THEOREM AnswersAreCaptured == Spec => []AnsweredIsCaptured
<1>1. TypeOK /\ (restarts = 0 => Private) => AnsweredIsCaptured
  BY DEF TypeOK, Private, Kept, Stored, AnsweredIsCaptured, HelloPath
<1> QED BY <1>1, PrivateHolds, TypeCorrect, PTL

\* Until a restart a profile leads to its capture (capture/helpers.go:57-60).
THEOREM ProfilesHaveCaptures == Spec => []ProfileHasCapture
<1>1. (restarts = 0 => Private) => ProfileHasCapture
  <2> SUFFICES ASSUME Private, NEW t \in Targets, NEW c \in Conns,
                      disk[<<ProfileDir(t), "profile.json">>] = c
               PROVE  disk[<<CaptureDir(number[c], t), "clienthello.bin">>] = c
    BY DEF ProfileHasCapture
  <2>1. target[c] = t
    BY DEF Private, Owned, Names
  <2>2. disk[HelloPath(c)] = c
    BY DEF Private, Kept, Stored
  <2> QED BY <2>1, <2>2 DEF HelloPath
<1> QED BY <1>1, PrivateHolds, PTL

-----------------------------------------------------------------------------
(* Connections one after the other                                         *)

\* What a profile and the capture it names have to do with each other.
OneCapture(t) ==
  LET of == disk[<<ProfileDir(t), "profile.json">>] IN
  /\ \A name \in {"clienthello.bin", "meta.json"} : disk[<<ProfileDir(t), name>>] = of
  /\ of # Absent => of \in Conns /\ disk[<<CaptureDir(number[of], t), "clienthello.bin">>] = of

\* Connections were open one after the other, no write failed and no handler
\* was killed at a file.
OneByOne == InTurn /\ faults = 0 /\ \A c \in Conns : pc[c] = "closed" => file[c] = 0

\* What holds of handlers that are not at a file, and of the content of profiles.
Seen ==
  /\ \A c \in Conns : \A d \in before[c] : pc[d] = "closed"
  /\ \A c \in Conns : pc[c] \in {"new", "reading", "answer"} => file[c] = 0
  /\ \A c \in Conns, t \in Targets, name \in Names :
       disk[<<ProfileDir(t), name>>] = c => Numbered(c) /\ number[c] \in 1..MaxNumber

\* What the handler that has its turn has written.
Progress(c) ==
  /\ pc[c] = "write" => disk[Path(c)] = Empty
  /\ file[c] > 1 => disk[HelloPath(c)] = c
  /\ file[c] > 4 => disk[<<ProfileDir(target[c]), "clienthello.bin">>] = c
  /\ file[c] > 5 => disk[<<ProfileDir(target[c]), "meta.json">>] = c

Turns == OneByOne =>
  /\ \A t \in Targets : (\A c \in Conns : Writing(c) => target[c] # t) => OneCapture(t)
  /\ \A c \in Conns : Writing(c) => Progress(c)

\* The steps keep what Seen says: only a handler at a file writes, and it has
\* its number.
LEMMA SeenStep ==
  ASSUME TypeOK, TypeOK', Places, Seen, [Next]_vars
  PROVE  Seen'
<1> USE DEF Seen, TypeOK, meta, Numbered
<1>1. ASSUME NEW c \in Conns, NEW t \in TargetIDs, Accept(c, t) PROVE Seen'
  BY <1>1 DEF Accept
<1>2. ASSUME NEW c \in Conns, DeadlinePasses(c) \/ ReadFails(c) \/ Answer(c) \/ AnswerFails(c)
      PROVE  Seen'
  BY <1>2 DEF DeadlinePasses, ReadFails, Answer, AnswerFails
<1>3. ASSUME NEW c \in Conns, ReadHello(c) PROVE Seen'
  BY <1>3, CaptureAssumption DEF ReadHello, NextNumber
<1>4. ASSUME NEW c \in Conns, Open(c) \/ Write(c) PROVE Seen'
  <2>1. Writing(c) /\ number[c] \in 1..MaxNumber
    BY <1>4 DEF Open, Write, Writing, Places
  <2>2. PICK x \in {Empty, Mixed, c} : disk' = [disk EXCEPT ![Path(c)] = x]
    BY <1>4 DEF Open, Write, Written
  <2>3. UNCHANGED <<target, number, before>>
    BY <1>4 DEF Open, Write
  <2>4. /\ \A d \in Conns \ {c} : pc'[d] = pc[d] /\ file'[d] = file[d]
        /\ pc'[c] \in {"open", "write"} \/ (pc'[c] = "answer" /\ file'[c] = 0)
    BY <1>4 DEF Open, Write, GoOn
  <2>5. \A d \in Conns : \A e \in before[d] : pc'[e] = "closed"
    BY <2>1, <2>4 DEF Writing
  <2>6. ASSUME NEW d \in Conns, NEW t \in Targets, NEW name \in Names,
               disk'[<<ProfileDir(t), name>>] = d
        PROVE  Numbered(d)' /\ number'[d] \in 1..MaxNumber
    <3>1. <<ProfileDir(t), name>> \in Dirs \X Names
      BY ProfilePaths
    <3>2. disk[<<ProfileDir(t), name>>] = d \/ d = c
      BY <2>2, <2>6, <3>1, CaptureAssumption
    <3>3. Numbered(d) /\ number[d] \in 1..MaxNumber
      BY <2>1, <3>2 DEF Writing
    <3> QED
      BY <2>3, <2>4, <3>3
  <2>7. \A d \in Conns : pc'[d] \in {"new", "reading", "answer"} => file'[d] = 0
    BY <2>4
  <2> QED
    BY <2>3, <2>5, <2>6, <2>7
<1>5. ASSUME NEW c \in Conns, WriteFails(c) PROVE Seen'
  <2>1. Writing(c) /\ file[c] \in 1..6
    BY <1>5 DEF WriteFails, Writing, Places
  <2>2. /\ \A d \in Conns \ {c} : pc'[d] = pc[d] /\ file'[d] = file[d]
        /\ \/ pc'[c] = "open"
           \/ pc'[c] \in {"answer", "closed"} /\ file'[c] = 0
    <3>1. CASE file[c] = 1
      BY <1>5, <3>1 DEF WriteFails, AfterFailure
    <3>2. CASE file[c] \in {2, 3}
      BY <1>5, <3>2 DEF WriteFails, AfterFailure, GoOn
    <3>3. CASE file[c] > 3
      BY <1>5, <3>3 DEF WriteFails, AfterFailure
    <3> QED
      BY <2>1, <3>1, <3>2, <3>3
  <2>3. UNCHANGED <<disk, number, before>>
    BY <1>5 DEF WriteFails
  <2> QED
    BY <2>1, <2>2, <2>3 DEF Writing
<1>6. CASE Restart
  BY <1>6 DEF Restart, Active
<1>7. CASE UNCHANGED vars
  BY <1>7 DEF vars
<1> QED
  BY <1>1, <1>2, <1>3, <1>4, <1>5, <1>6, <1>7 DEF Next

\* Connections that came one by one after a step came so before it.
LEMMA OneByOneBefore ==
  ASSUME TypeOK, TypeOK', Places, [Next]_vars, OneByOne'
  PROVE  OneByOne
<1> USE DEF TypeOK, meta
<1>1. /\ \A c \in Conns : pc[c] # "new" => pc'[c] # "new" /\ before'[c] = before[c]
      /\ \A c \in Conns : pc[c] = "closed" => pc'[c] = "closed" /\ file'[c] = file[c]
      /\ faults' = 0 => faults = 0
  <2>1. ASSUME NEW c \in Conns, NEW t \in TargetIDs, Accept(c, t) PROVE <1>1!1 /\ <1>1!2 /\ <1>1!3
    BY <2>1 DEF Accept
  <2>2. ASSUME NEW c \in Conns, DeadlinePasses(c) \/ ReadFails(c) \/ ReadHello(c) \/ Answer(c) \/ AnswerFails(c)
        PROVE  <1>1!1 /\ <1>1!2 /\ <1>1!3
    BY <2>2 DEF DeadlinePasses, ReadFails, ReadHello, Answer, AnswerFails
  <2>3. ASSUME NEW c \in Conns, Open(c) \/ Write(c) PROVE <1>1!1 /\ <1>1!2 /\ <1>1!3
    BY <2>3 DEF Open, Write, GoOn
  <2>4. ASSUME NEW c \in Conns, WriteFails(c) PROVE <1>1!1 /\ <1>1!2 /\ <1>1!3
    BY <2>4 DEF WriteFails, AfterFailure, GoOn
  <2>5. CASE Restart
    BY <2>5 DEF Restart, Active
  <2>6. CASE UNCHANGED vars
    BY <2>6 DEF vars
  <2> QED
    BY <2>1, <2>2, <2>3, <2>4, <2>5, <2>6 DEF Next
<1> QED
  BY <1>1 DEF OneByOne, InTurn

\* One handler at a time is at work.
LEMMA OneHandler ==
  ASSUME Seen, OneByOne, NEW c \in Conns, NEW d \in Conns,
         pc[c] \notin {"new", "closed"}, pc[d] \notin {"new", "closed"}
  PROVE  c = d
  BY DEF Seen, OneByOne, InTurn

\* A step that writes no file and ends no handler at a file.
LEMMA TurnsUnwritten ==
  ASSUME TypeOK, TypeOK', Seen, OneByOne, Turns, UNCHANGED disk,
         \A c \in Conns :
           /\ Writing(c) => Writing(c)'
           /\ Writing(c)' => \/ Writing(c) /\ pc'[c] = pc[c] /\ file'[c] = file[c]
                             \/ pc'[c] = "open" /\ file'[c] = 1
           /\ Numbered(c) => number'[c] = number[c] /\ target'[c] = target[c]
  PROVE  Turns'
<1>1. ASSUME NEW t \in Targets, \A c \in Conns : Writing(c)' => target'[c] # t
      PROVE  OneCapture(t)'
  <2>1. \A c \in Conns : Writing(c) => target[c] # t
    BY <1>1 DEF Writing, Numbered
  <2>2. OneCapture(t)
    BY <2>1 DEF Turns
  <2>3. disk[<<ProfileDir(t), "profile.json">>] # Absent
          => LET of == disk[<<ProfileDir(t), "profile.json">>] IN Numbered(of)
    BY <2>2 DEF OneCapture, Seen, Names
  <2> QED
    BY <2>2, <2>3 DEF OneCapture
<1>2. ASSUME NEW c \in Conns, Writing(c)' PROVE Progress(c)'
  <2>1. CASE pc'[c] = "open" /\ file'[c] = 1
    BY <2>1 DEF Progress
  <2>2. CASE Writing(c) /\ pc'[c] = pc[c] /\ file'[c] = file[c]
    <3>1. number'[c] = number[c] /\ target'[c] = target[c]
      BY <2>2 DEF Writing, Numbered
    <3>2. Path(c)' = Path(c) /\ HelloPath(c)' = HelloPath(c)
      BY <2>2, <3>1 DEF Path, HelloPath
    <3>3. Progress(c)
      BY <2>2 DEF Turns
    <3> QED
      BY <2>2, <3>1, <3>2, <3>3 DEF Progress
  <2> QED
    BY <1>2, <2>1, <2>2
<1> QED
  BY <1>1, <1>2 DEF Turns

\* The handler that has its turn opens or writes a file.
LEMMA TurnsWrite ==
  ASSUME TypeOK, TypeOK', Places, Seen, OneByOne, Turns, NEW c \in Conns, Open(c) \/ Write(c)
  PROVE  Turns'
<1> DEFINE t0 == target[c]
<1>1. /\ Writing(c) /\ file[c] \in 1..6 /\ number[c] \in 1..MaxNumber /\ t0 \in TargetIDs
      /\ file[c] > 3 => t0 \in Targets
      /\ UNCHANGED <<number, target>>
  BY DEF Open, Write, Writing, Places, TypeOK, meta
<1>2. \A d \in Conns : Writing(d) => d = c
  BY <1>1, OneHandler DEF Writing
<1>3. \A d \in Conns : Writing(d)' => d = c
  BY <1>2 DEF Open, Write, GoOn, Writing, TypeOK
<1>4. Progress(c)
  BY <1>1 DEF Turns
<1>5. PICK x \in {Empty, c} :
        /\ disk' = [disk EXCEPT ![Path(c)] = x]
        /\ Open(c) => x = Empty
        /\ Write(c) => x = c
  <2>1. ~(Open(c) /\ Write(c))
    BY DEF Open, Write
  <2>2. Write(c) => disk[Path(c)] = Empty
    BY <1>4 DEF Progress, Write
  <2> QED
    BY <2>1, <2>2 DEF Open, Write, Written
<1>6. \A q \in Dirs \X Names : disk'[q] = IF q = Path(c) THEN x ELSE disk[q]
  BY <1>5 DEF TypeOK
<1>7. ASSUME NEW n \in 1..MaxNumber, NEW t \in TargetIDs, NEW name \in Names
      PROVE  /\ <<CaptureDir(n, t), name>> \in Dirs \X Names
             /\ <<CaptureDir(n, t), name>> = Path(c) => file[c] \in 1..3 /\ t0 = t
  <2>1. file[c] \in 4..6 => Path(c)[1] = ProfileDir(t0)
    BY PathOf
  <2>2. file[c] \in 1..3 => Path(c)[1] = CaptureDir(number[c], t0)
    BY PathOf DEF HelloPath
  <2> QED
    BY <1>1, <2>1, <2>2, DirsDiffer DEF Dirs
<1>8. ASSUME NEW t \in Targets, NEW name \in Names
      PROVE  /\ <<ProfileDir(t), name>> \in Dirs \X Names
             /\ <<ProfileDir(t), name>> = Path(c)
                  => t0 = t /\ name \in DOMAIN Index /\ file[c] = Index[name]
  BY <1>1, ProfilePaths, ProfileWrites
<1>9. HelloPath(c) \in Dirs \X Names /\ (file[c] > 1 => HelloPath(c) # Path(c))
  <2>1. "clienthello.bin" \in Names
    BY DEF Names
  <2>2. /\ HelloPath(c) \in Dirs \X Names
        /\ HelloPath(c) = Path(c) => file[c] \in 1..3
    BY <1>1, <1>7, <2>1 DEF HelloPath
  <2>3. file[c] \in 2..3 => HelloPath(c) # Path(c)
    BY PathOf DEF HelloPath
  <2> QED
    BY <1>1, <2>2, <2>3
<1>10. Writing(c)' \/ (Write(c) /\ file[c] = LastFile(c) /\ (t0 \in Targets => file[c] = 6))
  <2>1. t0 \in Targets => LastFile(c) = 6
    BY CaptureAssumption DEF LastFile
  <2>2. t0 \notin Targets => LastFile(c) = 3 /\ file[c] \in 1..3
    BY <1>1 DEF LastFile, TargetIDs
  <2>3. ~(file[c] < LastFile(c)) => file[c] = LastFile(c)
    BY <1>1, <2>1, <2>2
  <2> QED
    BY <2>1, <2>3 DEF Open, Write, GoOn, Writing, TypeOK
<1>11. ASSUME NEW t \in Targets, \A d \in Conns : Writing(d)' => target'[d] # t
       PROVE  OneCapture(t)'
  <2>1. CASE t # t0
    <3>1. OneCapture(t)
      BY <1>2, <2>1 DEF Turns
    <3>2. \A name \in Names : disk'[<<ProfileDir(t), name>>] = disk[<<ProfileDir(t), name>>]
      BY <1>6, <1>8, <2>1
    <3>3. \A d \in Conns : disk[<<ProfileDir(t), "profile.json">>] = d
            => /\ number[d] \in 1..MaxNumber
               /\ disk'[<<CaptureDir(number[d], t), "clienthello.bin">>]
                    = disk[<<CaptureDir(number[d], t), "clienthello.bin">>]
      <4>1. {"clienthello.bin", "profile.json"} \subseteq Names /\ t \in TargetIDs
        BY DEF Names, TargetIDs
      <4> SUFFICES ASSUME NEW d \in Conns, disk[<<ProfileDir(t), "profile.json">>] = d
                   PROVE  /\ number[d] \in 1..MaxNumber
                          /\ disk'[<<CaptureDir(number[d], t), "clienthello.bin">>]
                               = disk[<<CaptureDir(number[d], t), "clienthello.bin">>]
        OBVIOUS
      <4>2. number[d] \in 1..MaxNumber
        BY <4>1 DEF Seen
      <4>3. /\ <<CaptureDir(number[d], t), "clienthello.bin">> \in Dirs \X Names
            /\ <<CaptureDir(number[d], t), "clienthello.bin">> # Path(c)
        BY <1>7, <2>1, <4>1, <4>2
      <4> QED
        BY <1>6, <4>2, <4>3
    <3>4. {"clienthello.bin", "meta.json", "profile.json"} \subseteq Names
      BY DEF Names
    <3>5. number' = number
      BY <1>1
    <3> DEFINE of == disk[<<ProfileDir(t), "profile.json">>]
    <3>6. disk'[<<ProfileDir(t), "profile.json">>] = of
      BY <3>2, <3>4
    <3>7. \A name \in {"clienthello.bin", "meta.json"} : disk'[<<ProfileDir(t), name>>] = of
      BY <3>1, <3>2, <3>4 DEF OneCapture
    <3>8. of # Absent => /\ of \in Conns
                         /\ disk'[<<CaptureDir(number'[of], t), "clienthello.bin">>] = of
      BY <3>1, <3>3, <3>5 DEF OneCapture
    <3> QED
      BY <3>6, <3>7, <3>8 DEF OneCapture
  <2>2. CASE t = t0
    <3>1. Write(c) /\ file[c] = 6 /\ x = c
      BY <1>1, <1>5, <1>10, <1>11, <2>2
    <3>2. Path(c) = <<ProfileDir(t), "profile.json">>
      BY <2>2, <3>1, PathOf
    <3>3. /\ disk[HelloPath(c)] = c
          /\ disk[<<ProfileDir(t), "clienthello.bin">>] = c
          /\ disk[<<ProfileDir(t), "meta.json">>] = c
      BY <1>4, <2>2, <3>1 DEF Progress
    <3>4. \A name \in Names : <<ProfileDir(t), name>> \in Dirs \X Names
      BY <1>8
    <3>5. disk'[<<ProfileDir(t), "profile.json">>] = c
      BY <1>6, <3>1, <3>2, <3>4 DEF Names
    <3>6. \A name \in {"clienthello.bin", "meta.json"} : disk'[<<ProfileDir(t), name>>] = c
      BY <1>6, <3>1, <3>2, <3>3, <3>4 DEF Names
    <3>7. disk'[<<CaptureDir(number[c], t), "clienthello.bin">>] = c
      BY <1>6, <1>9, <2>2, <3>1, <3>3 DEF HelloPath
    <3> QED
      BY <1>1, <3>5, <3>6, <3>7 DEF OneCapture
  <2> QED
    BY <2>1, <2>2
<1>12. ASSUME Writing(c)' PROVE Progress(c)'
  <2>1. HelloPath(c)' = HelloPath(c)
    BY <1>1 DEF HelloPath
  <2>2. file[c] > 1 => disk'[HelloPath(c)] = c
    BY <1>4, <1>6, <1>9 DEF Progress
  <2>0. /\ {"clienthello.bin", "meta.json"} \subseteq Names
        /\ Index["clienthello.bin"] = 4 /\ Index["meta.json"] = 5
    BY DEF Names, Index
  <2>10. file[c] > 3 => \A name \in {"clienthello.bin", "meta.json"} :
          /\ <<ProfileDir(t0), name>> \in Dirs \X Names
          /\ <<ProfileDir(t0), name>> = Path(c) => file[c] = Index[name]
    BY <1>1, <1>8, <2>0
  <2>11. file[c] = 4 => Path(c) = <<ProfileDir(t0), "clienthello.bin">>
    BY PathOf
  <2>12. file[c] = 5 => Path(c) = <<ProfileDir(t0), "meta.json">>
    BY PathOf
  <2>3. file[c] > 4 => disk'[<<ProfileDir(t0), "clienthello.bin">>] = c
    BY <1>1, <1>4, <1>6, <2>0, <2>10 DEF Progress
  <2>4. file[c] > 5 => disk'[<<ProfileDir(t0), "meta.json">>] = c
    BY <1>1, <1>4, <1>6, <2>0, <2>10 DEF Progress
  <2>5. CASE Open(c)
    <3>1. file'[c] = file[c] /\ Path(c)' = Path(c)
      BY <1>1, <2>5 DEF Open, Path
    <3>2. Path(c) \in Dirs \X Names
      <4>1. file[c] = 6 => Path(c) = <<ProfileDir(t0), "profile.json">>
        BY PathOf
      <4>2. file[c] = 6 => Path(c) \in Dirs \X Names
        <5>1. file[c] = 6 => t0 \in Targets
          BY <1>1
        <5>2. "profile.json" \in Names
          BY DEF Names
        <5> QED
          BY <1>8, <4>1, <5>1, <5>2, Zenon
      <4>3. (file[c] = 4 \/ file[c] = 5) => Path(c) \in Dirs \X Names
        <5>1. file[c] = 4 => file[c] > 3
          OBVIOUS
        <5>2. file[c] = 5 => file[c] > 3
          OBVIOUS
        <5>3. file[c] = 4 => Path(c) \in Dirs \X Names
          BY <2>10, <2>11, <5>1, Zenon
        <5>4. file[c] = 5 => Path(c) \in Dirs \X Names
          BY <2>10, <2>12, <5>2, Zenon
        <5> QED
          BY <5>3, <5>4
      <4>4. \A name \in {"spec.txt", "meta.json"} : <<CaptureDir(number[c], t0), name>> \in Dirs \X Names
        BY <1>1, <1>7 DEF Names
      <4>5. (file[c] = 1 \/ file[c] = 2 \/ file[c] = 3) => Path(c) \in Dirs \X Names
        BY <1>9, <4>4, PathOf, Zenon
      <4> QED
        BY <1>1, <4>2, <4>3, <4>5
    <3> QED
      BY <1>1, <1>5, <1>6, <2>1, <2>2, <2>3, <2>4, <2>5, <3>1, <3>2 DEF Progress
  <2>6. CASE Write(c)
    <3>1. pc'[c] = "open" /\ file'[c] = file[c] + 1
      BY <1>12, <2>6 DEF Write, GoOn, Writing, TypeOK
    <3>2. file[c] = 1 => disk'[HelloPath(c)] = c
      BY <1>5, <1>6, <1>9, <2>6, PathOf
    <3>3. file[c] = 4 => disk'[<<ProfileDir(t0), "clienthello.bin">>] = c
      BY <1>5, <1>6, <2>6, <2>10, <2>11
    <3>4. file[c] = 5 => disk'[<<ProfileDir(t0), "meta.json">>] = c
      BY <1>5, <1>6, <2>6, <2>10, <2>12
    <3> QED
      BY <1>1, <2>1, <2>2, <2>3, <2>4, <3>1, <3>2, <3>3, <3>4 DEF Progress
  <2> QED
    BY <2>5, <2>6
<1> QED
  BY <1>3, <1>11, <1>12 DEF Turns

\* What the steps of connections that came one by one keep.
LEMMA NextTurns ==
  ASSUME TypeOK, TypeOK', Places, Places', Seen, Turns, [Next]_vars
  PROVE  Turns'
<1> SUFFICES ASSUME OneByOne' PROVE Turns'
  BY DEF Turns
<1>1. OneByOne
  BY OneByOneBefore
<1> DEFINE Still == UNCHANGED disk /\ \A c \in Conns :
      /\ Writing(c) => Writing(c)'
      /\ Writing(c)' => \/ Writing(c) /\ pc'[c] = pc[c] /\ file'[c] = file[c]
                        \/ pc'[c] = "open" /\ file'[c] = 1
      /\ Numbered(c) => number'[c] = number[c] /\ target'[c] = target[c]
<1>2. Still => Turns'
  BY <1>1, TurnsUnwritten
<1> USE DEF TypeOK, meta, Writing, Numbered
<1>3. ASSUME NEW c \in Conns, NEW t \in TargetIDs, Accept(c, t) PROVE Still
  BY <1>3 DEF Accept
<1>4. ASSUME NEW c \in Conns, DeadlinePasses(c) \/ ReadFails(c) \/ Answer(c) \/ AnswerFails(c)
      PROVE  Still
  BY <1>4 DEF DeadlinePasses, ReadFails, Answer, AnswerFails
<1>5. ASSUME NEW c \in Conns, ReadHello(c) PROVE Still
  BY <1>5 DEF ReadHello
<1>6. ASSUME NEW c \in Conns, Open(c) \/ Write(c) PROVE Turns'
  BY <1>1, <1>6, TurnsWrite
<1>7. ~\E c \in Conns : WriteFails(c)
  BY DEF WriteFails, OneByOne
<1>8. CASE Restart
  <2>1. \A c \in Conns : ~Writing(c)
    BY <1>8 DEF Restart, Active, OneByOne, Places
  <2> HIDE DEF Writing
  <2>2. \A c \in Conns : ~Writing(c)'
    BY <1>8, <2>1 DEF Restart, Writing
  <2>3. UNCHANGED <<disk, number, target>>
    BY <1>8 DEF Restart
  <2>4. Still
    BY <2>1, <2>2, <2>3
  <2> QED
    BY <1>2, <2>4
<1>9. CASE UNCHANGED vars
  <2>1. UNCHANGED <<pc, file, disk, number, target>>
    BY <1>9 DEF vars
  <2>2. Still
    BY <2>1
  <2> QED
    BY <1>2, <2>2
<1> QED
  BY <1>2, <1>3, <1>4, <1>5, <1>6, <1>7, <1>8, <1>9 DEF Next

LEMMA InitTurns == Init => Seen /\ Turns
<1> SUFFICES ASSUME Init PROVE Seen /\ Turns
  OBVIOUS
<1>1. \A t \in Targets, name \in Names : disk[<<ProfileDir(t), name>>] = Absent
  BY ProfilePaths DEF Init
<1>2. Seen
  BY <1>1, CaptureAssumption DEF Init, Seen
<1>3. Turns
  BY <1>1 DEF Init, Turns, OneCapture, Writing, Names
<1> QED
  BY <1>2, <1>3

\* Connections one after the other leave profiles that are one capture, across
\* restarts (capture/helpers.go:38-84): what OneHandler says of a handler's turn
\* gives Progress, and Progress at its last file the profile.
THEOREM ProfilesAreOneCapture == Spec => []ProfileIsOneCapture
<1>1. Init => TypeOK /\ Places /\ Seen /\ Turns
  BY InitPlaces, InitTurns, CaptureAssumption DEF Init, TypeOK, TargetIDs, Contents
<1>2. TypeOK /\ TypeOK' /\ Places /\ Seen /\ Turns /\ [Next]_vars => Places' /\ Seen' /\ Turns'
  BY NextPlaces, SeenStep, NextTurns
<1>3. TypeOK /\ Turns => ProfileIsOneCapture
  <2> SUFFICES ASSUME TypeOK, Turns, Active = {}, InTurn, faults = 0, \A c \in Conns : file[c] = 0,
                      NEW t \in Targets
               PROVE  OneCapture(t)
    BY DEF ProfileIsOneCapture, OneCapture
  <2>1. OneByOne
    BY DEF OneByOne
  <2>2. \A c \in Conns : ~Writing(c)
    BY DEF Active, Writing
  <2> QED
    BY <2>1, <2>2 DEF Turns
<1> QED
  BY <1>1, <1>2, <1>3, TypeCorrect, PTL DEF Spec

-----------------------------------------------------------------------------
(* The ClientHello parser                                                  *)

LEMMA LengthsAreNat == /\ Bytes \subseteq Nat /\ U16s \subseteq Nat /\ U24s \subseteq Nat
                       /\ Fixed \in Nat /\ Fixed > 1
  BY WireAssumption

\* Before it reads anything analyze has no position to be wrong about.
LEMMA InitPositions == ParserInit => Positions
  BY LengthsAreNat DEF ParserInit, Positions, SlicesInBounds, Slice, Kinds

\* The steps over the fixed part keep Positions.
LEMMA FixedPart ==
  ASSUME Positions,
         Handshake \/ SessionID \/ CipherLength \/ Cipher \/ Compression \/ ExtensionsLength
  PROVE  Positions'
<1> USE LengthsAreNat DEF Positions, SlicesInBounds, Slice, Kinds
<1>1. CASE Handshake
  BY <1>1 DEF Handshake, Fail, TooShort
<1>2. CASE SessionID
  BY <1>2 DEF SessionID, Fail, RoomForTwo
<1>3. CASE CipherLength
  BY <1>3 DEF CipherLength
<1>4. CASE Cipher
  BY <1>4 DEF Cipher, RoomForTwo
<1>5. CASE Compression
  BY <1>5 DEF Compression, Fail, RoomForTwo
<1>6. CASE ExtensionsLength
  BY <1>6 DEF ExtensionsLength, Clipped
<1> QED BY <1>1, <1>2, <1>3, <1>4, <1>5, <1>6

\* The steps over the extensions keep Positions.
LEMMA ExtensionPart ==
  ASSUME Positions,
         \/ Extension \/ ServerName \/ Item \/ Protocol
         \/ ListHeader("list16", 2, U16s, "item") \/ ListHeader("list8", 1, Bytes, "item")
         \/ ListHeader("alpn", 2, U16s, "protocol")
  PROVE  Positions'
<1> USE LengthsAreNat DEF Positions, SlicesInBounds, Slice, Kinds
<1>1. CASE Extension
  BY <1>1 DEF Extension
<1>2. CASE ServerName
  BY <1>2 DEF ServerName
<1>3. CASE Item
  BY <1>3 DEF Item, MoreItems
<1>4. CASE Protocol
  BY <1>4 DEF Protocol, AfterName
<1>5. CASE ListHeader("list16", 2, U16s, "item")
  BY <1>5 DEF ListHeader
<1>6. CASE ListHeader("list8", 1, Bytes, "item")
  BY <1>6 DEF ListHeader
<1>7. CASE ListHeader("alpn", 2, U16s, "protocol")
  BY <1>7 DEF ListHeader
<1> QED BY <1>1, <1>2, <1>3, <1>4, <1>5, <1>6, <1>7

\* What each place of analyze knows of its positions, for every hello
\* (capture/main.go:191-309).
THEOREM PositionsHold == ParserSpec => []Positions
<1>1. ParserInit => Positions
  BY InitPositions
<1>2. Positions /\ [ParserNext]_parserVars => Positions'
  <2> SUFFICES ASSUME Positions, [ParserNext]_parserVars PROVE Positions'
    OBVIOUS
  <2>1. CASE ParserNext
    BY <2>1, FixedPart, ExtensionPart DEF ParserNext
  <2>2. CASE UNCHANGED parserVars
    BY <2>2 DEF parserVars, Positions, SlicesInBounds, Kinds
  <2> QED BY <2>1, <2>2
<1> QED BY <1>1, <1>2, PTL DEF ParserSpec

\* No hello makes analyze take a slice out of bounds, and so panic
\* (capture/main.go:200-309).
THEOREM NoSliceOutOfBounds == ParserSpec => []SlicesInBounds
<1>1. Positions => SlicesInBounds
  BY DEF Positions
<1> QED BY <1>1, PositionsHold, PTL

\* No loop of analyze stands still, for every hello
\* (capture/main.go:227, 252, 273-303).
THEOREM AlwaysAdvances == ParserSpec => Advances
<1>1. Positions /\ ParserNext =>
        \/ pos' > pos
        \/ pos' = pos /\ Order(place') > Order(place)
        \/ pos' = pos /\ place' = place /\ off' > off
  <2> SUFFICES ASSUME Positions, ParserNext
               PROVE  \/ pos' > pos
                      \/ pos' = pos /\ Order(place') > Order(place)
                      \/ pos' = pos /\ place' = place /\ off' > off
    OBVIOUS
  <2> USE LengthsAreNat DEF Kinds
  <2>0. size \in Nat /\ pos \in Nat /\ len \in Nat /\ off \in Nat
    BY DEF Positions
  <2>1. CASE Handshake
    <3>1. place = "record" /\ pos = 0
      BY <2>1 DEF Handshake, Positions
    <3>2. CASE Fail
      BY <2>0, <3>1, <3>2 DEF Fail, Order
    <3>3. CASE pos' = Fixed
      BY <3>1, <3>3
    <3> QED BY <2>1, <3>2, <3>3 DEF Handshake
  <2>2. CASE SessionID
    BY <2>0, <2>2 DEF SessionID, Fail, Order
  <2>3. CASE CipherLength
    BY <2>0, <2>3 DEF CipherLength
  <2>4. CASE Cipher
    BY <2>0, <2>4 DEF Cipher, Order
  <2>5. CASE Compression
    BY <2>0, <2>5 DEF Compression, Fail, Order
  <2>6. CASE ExtensionsLength
    BY <2>0, <2>6 DEF ExtensionsLength
  <2>7. CASE Extension
    BY <2>0, <2>7 DEF Extension, Order
  <2>8. CASE ServerName
    BY <2>0, <2>8 DEF ServerName, Order
  <2>9. CASE Item
    BY <2>0, <2>9 DEF Item, Order
  <2>10. CASE Protocol
    BY <2>0, <2>10 DEF Protocol, AfterName, Order
  <2>11. CASE ListHeader("list16", 2, U16s, "item")
    BY <2>0, <2>11 DEF ListHeader, Order
  <2>12. CASE ListHeader("list8", 1, Bytes, "item")
    BY <2>0, <2>12 DEF ListHeader, Order
  <2>13. CASE ListHeader("alpn", 2, U16s, "protocol")
    BY <2>0, <2>13 DEF ListHeader, Order
  <2> QED BY <2>1, <2>2, <2>3, <2>4, <2>5, <2>6, <2>7, <2>8, <2>9, <2>10, <2>11, <2>12,
             <2>13 DEF ParserNext
<1>2. Positions /\ [ParserNext]_parserVars =>
        [\/ pos' > pos
         \/ pos' = pos /\ Order(place') > Order(place)
         \/ pos' = pos /\ place' = place /\ off' > off]_parserVars
  BY <1>1
<1> QED BY <1>2, PositionsHold, PTL DEF ParserSpec, Advances
=============================================================================
