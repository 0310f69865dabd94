------------------------------ MODULE QuicFiles ------------------------------
(***************************************************************************)
(* finishPeer and promoteProfile of the QUIC capture server file by file:  *)
(* every gather is finished by a goroutine of its own, which writes a      *)
(* capture directory named after the second and then the profile of its    *)
(* target, with no lock across peers (quic/capture/main.go:149-353).       *)
(*                                                                         *)
(* os.WriteFile is two steps: the open truncates, the write fills.  Two    *)
(* writers of one file, each at an offset of its own, may leave a mixture. *)
(* A file's content is named after the flight it was made of; Empty is a   *)
(* file that was truncated and not filled.  A gather that is not complete  *)
(* has no ClientHello, no server name and no transport parameters.         *)
(***************************************************************************)
EXTENDS Integers, FiniteSets

CONSTANTS Flights,      \* gathers finalized, one peerState each
          Size,         \* per flight, its datagrams
          Complete,     \* the flights whose ClientHello is complete
          SNI,          \* per flight, the target its server name leads to
          PeerID,       \* per flight, "peer-" and its address
          Hint,         \* -default-target
          Unknown,      \* the id that is none: "unknown", or an empty one
          Parallel,     \* bound: finalizers running at the same time
          MaxSecond,    \* bound: seconds of the clock
          MaxFaults,    \* bound: failing writes
          MaxKills,     \* bound: kills of the server
          Absent, Empty, Mixed

ASSUME FilesAssumption ==
  /\ Size \in [Flights -> Nat \ {0}] /\ Complete \subseteq Flights
  /\ Parallel \in Nat /\ MaxSecond \in Nat /\ MaxFaults \in Nat /\ MaxKills \in Nat
  /\ {Absent, Empty, Mixed} \cap Flights = {} /\ Absent \notin {Empty, Mixed} /\ Empty # Mixed

VARIABLES
  pc,       \* per flight: "new", the group of files finishPeer is at, or how it ended
  bin,      \* the number of the datagram it is at
  opened,   \* the file it is at is open, and truncated
  stamp,    \* the second finishPeer read from the clock
  second,   \* the clock
  disk,     \* contents of the files
  faults, kills,
  skipped,  \* history: files whose failed write was ignored, per flight
  before    \* history: flights that had ended when this one was begun

clockVars == <<stamp, second>>
vars == <<pc, bin, opened, clockVars, disk, faults, kills, skipped, before>>

Ended == {"ok", "error", "dead"}
Active == {f \in Flights : pc[f] \notin {"new"} \cup Ended}

\* targetFromSNI of the server name, else the hint, else the peer's address.
TargetID(f) ==
  LET id == IF f \in Complete /\ SNI[f] # Unknown THEN SNI[f] ELSE Hint
  IN  IF id = Unknown THEN PeerID[f] ELSE id

IDs == {TargetID(f) : f \in Flights}
CaptureDir(f) == <<"captures", stamp[f], TargetID(f)>>
ProfileDir(id) == <<"profiles", 0, id>>
Dirs == ({"captures"} \X (0 .. MaxSecond) \X IDs) \cup {ProfileDir(id) : id \in IDs}

\* 000.bin, 001.bin ..., and meta.json, header.json, tp.json, clienthello.bin and
\* profile.json.
Bin(i) == <<"bin", i>>
Meta == <<"meta", 0>>
Hello == <<"hello", 0>>
Manifest == <<"profile", 0>>
Named(f) == {Meta, <<"header", 0>>} \cup (IF f \in Complete THEN {<<"tp", 0>>, Hello} ELSE {})
Bins(f) == {Bin(i) : i \in 1 .. Size[f]}
CaptureNames(f) == Bins(f) \cup {Meta}
Names == (UNION {Bins(f) \cup Named(f) : f \in Flights}) \cup {Manifest}

Init ==
  /\ pc = [f \in Flights |-> "new"] /\ bin = [f \in Flights |-> 1]
  /\ opened = [f \in Flights |-> FALSE]
  /\ stamp = [f \in Flights |-> 0] /\ second = 0
  /\ disk = [file \in Dirs \X Names |-> Absent]
  /\ faults = 0 /\ kills = 0
  /\ skipped = [f \in Flights |-> {}] /\ before = [f \in Flights |-> {}]

-----------------------------------------------------------------------------
(* finishPeer                                                              *)

\* The file a finalizer is at.
Path(f) ==
  <<IF pc[f] \in {"capture", "captured"} THEN CaptureDir(f) ELSE ProfileDir(TargetID(f)),
    IF pc[f] \in {"capture", "promote"} THEN Bin(bin[f])
    ELSE IF pc[f] = "captured" THEN Meta ELSE <<pc[f], 0>>>>

Begin(f) ==
  /\ pc[f] = "new" /\ Cardinality(Active) < Parallel
  /\ pc' = [pc EXCEPT ![f] = "capture"]
  /\ stamp' = [stamp EXCEPT ![f] = second]
  /\ before' = [before EXCEPT ![f] = {g \in Flights : pc[g] \in Ended}]
  /\ UNCHANGED <<bin, opened, second, disk, faults, kills, skipped>>

Tick ==
  /\ second < MaxSecond /\ second' = second + 1
  /\ UNCHANGED <<pc, bin, opened, stamp, disk, faults, kills, skipped, before>>

Open(f) ==
  /\ f \in Active /\ ~opened[f]
  /\ disk' = [disk EXCEPT ![Path(f)] = Empty]
  /\ opened' = [opened EXCEPT ![f] = TRUE]
  /\ UNCHANGED <<pc, bin, clockVars, faults, kills, skipped, before>>

\* The files finishPeer writes, in their order.
After ==
  [capture |-> "captured", captured |-> "promote", promote |-> "meta", meta |-> "header",
   header |-> "tp", tp |-> "hello", hello |-> "profile", profile |-> "ok"]

\* Mutated form: a profile that was promoted is kept.
FollowingKept(f) ==
  IF pc[f] \in {"capture", "promote"} /\ bin[f] < Size[f] THEN pc[f]
  ELSE IF pc[f] = "captured" /\ disk[<<ProfileDir(TargetID(f)), Manifest>>] # Absent THEN "ok"
  ELSE IF pc[f] = "header" /\ f \notin Complete THEN "profile"
  ELSE After[pc[f]]

\* The file after the one a finalizer is at, and the number of its datagram.
Following(f) ==
  IF pc[f] \in {"capture", "promote"} /\ bin[f] < Size[f] THEN pc[f]
  ELSE IF pc[f] = "header" /\ f \notin Complete THEN "profile"
  ELSE After[pc[f]]

NextBin(f) == IF pc[f] \in {"capture", "promote"} /\ bin[f] < Size[f] THEN bin[f] + 1 ELSE 1

GoOn(f) ==
  /\ pc' = [pc EXCEPT ![f] = Following(f)]
  /\ bin' = [bin EXCEPT ![f] = NextBin(f)]
  /\ opened' = [opened EXCEPT ![f] = FALSE]

\* What a write leaves: itself, or a mixture with what another finalizer wrote
\* since the file was opened, when that is longer.
Written(f) == IF disk[Path(f)] = Empty THEN {f} ELSE {f, Mixed}

Write(f) ==
  /\ f \in Active /\ opened[f]
  /\ \E content \in Written(f) : disk' = [disk EXCEPT ![Path(f)] = content]
  /\ GoOn(f)
  /\ UNCHANGED <<clockVars, faults, kills, skipped, before>>

\* Mutated forms: the error of a capture's meta.json, or of the profile's
\* datagrams, is ignored too.
IgnoredOfCapture == {"captured", "meta", "header", "tp", "hello"}
IgnoredOfInitials == {"promote", "meta", "header", "tp", "hello"}

\* The writes of promoteProfile whose error is ignored.
Ignored == {"meta", "header", "tp", "hello"}

\* MkdirAll, the open or the write fails: finishPeer returns the error.
WriteFails(f) ==
  /\ f \in Active /\ faults < MaxFaults /\ faults' = faults + 1
  /\ IF pc[f] \in Ignored
     THEN /\ GoOn(f)
          /\ skipped' = [skipped EXCEPT ![f] = @ \cup {Path(f)[2]}]
     ELSE /\ pc' = [pc EXCEPT ![f] = "error"]
          /\ opened' = [opened EXCEPT ![f] = FALSE]
          /\ UNCHANGED <<bin, skipped>>
  /\ UNCHANGED <<clockVars, disk, kills, before>>

\* The server is killed and started again: what is open stays truncated.
Kill ==
  /\ Active # {} /\ kills < MaxKills /\ kills' = kills + 1
  /\ pc' = [f \in Flights |-> IF f \in Active THEN "dead" ELSE pc[f]]
  /\ opened' = [f \in Flights |-> FALSE]
  /\ UNCHANGED <<bin, clockVars, disk, faults, skipped, before>>

Next ==
  \/ \E f \in Flights : Begin(f) \/ Open(f) \/ Write(f) \/ WriteFails(f)
  \/ Tick \/ Kill

Spec == Init /\ [][Next]_vars

-----------------------------------------------------------------------------
(* Properties                                                              *)

\* What a finalizer can be at.
Files == {"capture", "captured", "promote", "meta", "header", "tp", "hello", "profile"}

\* Every variable has its type, and a finalizer is at one of its datagrams.
TypeOK ==
  /\ pc \in [Flights -> {"new"} \cup Files \cup Ended]
  /\ bin \in [Flights -> Nat] /\ \A f \in Flights : bin[f] \in 1 .. Size[f]
  /\ opened \in [Flights -> BOOLEAN]
  /\ stamp \in [Flights -> 0 .. MaxSecond] /\ second \in 0 .. MaxSecond
  /\ disk \in [Dirs \X Names -> Flights \cup {Absent, Empty, Mixed}]
  /\ faults \in 0 .. MaxFaults /\ kills \in 0 .. MaxKills
  /\ skipped \in [Flights -> SUBSET Names] /\ before \in [Flights -> SUBSET Flights]

\* Another flight of the same target was captured in the same second.
Shared(f) == \E g \in Flights \ {f} : pc[g] # "new" /\ CaptureDir(g) = CaptureDir(f)

\* Whatever of a flight is in a profile, its whole flight is in its capture,
\* across failing writes, kills and finalizers running at once, unless another
\* flight of the target was captured in that second (main.go:161-205).
PromotedIsCaptured == \A f \in Flights :
  ~Shared(f) /\ (\E name \in Names : disk[<<ProfileDir(TargetID(f)), name>>] = f) =>
    \A name \in CaptureNames(f) : disk[<<CaptureDir(f), name>>] = f

\* What a promotion that ends well writes: the named files but for those whose
\* failed write it ignored.
Kept(f) == Bins(f) \cup (Named(f) \ skipped[f]) \cup {Manifest}

\* What a promotion that ended well wrote is not undone by an earlier one,
\* whatever fails beside it: no file it wrote is of a flight that had ended
\* before it began (main.go:207-353).
PromotionIsNotUndone == \A f \in Flights : pc[f] = "ok" =>
  \A name \in Kept(f) :
    disk[<<ProfileDir(TargetID(f)), name>>] \notin before[f] \cup {Absent}

\* Every other flight had ended when f was begun.
Alone(f) == \A g \in Flights \ {f} : pc[g] = "new" \/ g \in before[f]

\* The last promotion, if it ended well and was alone, makes a profile whole
\* again that kills, failures and promotions at once have torn: every file it
\* writes is of its flight, but for those whose errors it ignores
\* (main.go:207-353).
PromotionRepairs == \A f \in Flights : pc[f] = "ok" /\ Alone(f) =>
  \A name \in Kept(f) :
    disk[<<ProfileDir(TargetID(f)), name>>] = f

=============================================================================
