--------------------------- MODULE QuicFilesProofs ---------------------------
(***************************************************************************)
(* Proofs about QuicFiles: what is promoted is captured, and a promotion    *)
(* that ended well is not undone by an earlier one and repairs a profile,   *)
(* for any flights, targets, faults, kills and interleavings.               *)
(***************************************************************************)
EXTENDS QuicFiles, TLAPS

-----------------------------------------------------------------------------
(* Types                                                                   *)

\* What a finalizer is at fits the flight it has.
Fits(f) ==
  /\ opened[f] => f \in Active
  /\ pc[f] \in {"new", "captured"} => bin[f] = 1
  /\ pc[f] \in {"tp", "hello"} => f \in Complete
  /\ before[f] \subseteq {g \in Flights \ {f} : pc[g] \in Ended}
TypeInv == TypeOK /\ \A f \in Flights : Fits(f)

InCapture == {"capture", "captured"}
InProfile == Files \ InCapture

LEMMA ActiveIs == ASSUME TypeOK PROVE Active = {f \in Flights : pc[f] \in Files}
BY DEF TypeOK, Active, Files, Ended

\* The files a finalizer opens are files of its capture, then of its profile.
LEMMA PathIs ==
  ASSUME TypeInv, NEW f \in Flights, pc[f] \in Files
  PROVE  /\ Path(f) \in Dirs \X Names
         /\ pc[f] \in InCapture => /\ Path(f)[1] = CaptureDir(f)
                                   /\ Path(f)[2] \in CaptureNames(f)
         /\ pc[f] \in InProfile => /\ Path(f)[1] = ProfileDir(TargetID(f))
                                   /\ Path(f)[2] \in Bins(f) \cup Named(f) \cup {Manifest}
<1>1. bin[f] \in 1 .. Size[f] /\ stamp[f] \in 0 .. MaxSecond /\ TargetID(f) \in IDs
  BY DEF TypeInv, TypeOK, IDs
<1>2. CaptureDir(f) \in Dirs /\ ProfileDir(TargetID(f)) \in Dirs
  BY <1>1 DEF Dirs, CaptureDir
<1>3. /\ Bins(f) \subseteq Names /\ Named(f) \subseteq Names /\ Manifest \in Names
      /\ Bin(bin[f]) \in Bins(f) /\ <<"meta", 0>> \in Named(f) /\ <<"header", 0>> \in Named(f)
  BY <1>1 DEF Names, Bins, Named, Meta
<1>4. pc[f] \in {"tp", "hello"} => <<pc[f], 0>> \in Named(f)
  BY DEF TypeInv, Fits, Named, Hello
<1>5. CASE pc[f] = "capture"
  BY <1>2, <1>3, <1>5 DEF Path, InCapture, InProfile, CaptureNames, Meta
<1>6. CASE pc[f] = "captured"
  BY <1>2, <1>3, <1>6 DEF Path, InCapture, InProfile, CaptureNames, Meta
<1>7. CASE pc[f] = "promote"
  BY <1>2, <1>3, <1>7 DEF Path, InCapture, InProfile
<1>8. CASE pc[f] \in {"meta", "header", "tp", "hello", "profile"}
  <2>1. Path(f) = <<ProfileDir(TargetID(f)), <<pc[f], 0>>>>
    BY <1>8 DEF Path
  <2>2. <<pc[f], 0>> \in Named(f) \cup {Manifest}
    BY <1>3, <1>4, <1>8 DEF Manifest
  <2> QED
    BY <1>2, <1>3, <1>8, <2>1, <2>2 DEF InCapture, InProfile
<1> QED
  BY <1>5, <1>6, <1>7, <1>8 DEF Files

\* A finalizer goes on to a file of its flight.
LEMMA GoesOn ==
  ASSUME TypeInv, NEW f \in Flights, pc[f] \in Files
  PROVE  /\ Following(f) \in Files \cup {"ok"} /\ NextBin(f) \in 1 .. Size[f]
         /\ Following(f) = "captured" => NextBin(f) = 1
         /\ Following(f) \in {"tp", "hello"} => f \in Complete
<1>1. bin[f] \in 1 .. Size[f] /\ Size[f] \in Nat \ {0}
  BY FilesAssumption DEF TypeInv, TypeOK
<1>2. NextBin(f) \in 1 .. Size[f]
  BY <1>1 DEF NextBin
<1>3. pc[f] \in {"tp", "hello"} => f \in Complete
  BY DEF TypeInv, Fits
<1> QED
  BY <1>1, <1>2, <1>3 DEF Following, NextBin, Files, After

LEMMA TypeInit == Init => TypeInv
<1> SUFFICES ASSUME Init PROVE TypeInv
  OBVIOUS
<1>1. \A f \in Flights : bin[f] \in 1 .. Size[f]
  BY FilesAssumption DEF Init
<1>2. TypeOK
  BY <1>1, FilesAssumption DEF Init, TypeOK
<1>3. \A f \in Flights : Fits(f)
  BY DEF Init, Fits, Ended
<1> QED
  BY <1>2, <1>3 DEF TypeInv

\* A step of one finalizer leaves the others where they are.
LEMMA FitsOfOne ==
  ASSUME TypeInv, NEW f \in Flights, pc[f] \in Files,
         NEW to \in Files \cup Ended, pc' = [pc EXCEPT ![f] = to],
         NEW b, bin' = [bin EXCEPT ![f] = b], NEW o \in BOOLEAN, opened' = [opened EXCEPT ![f] = o],
         UNCHANGED before, o => to \in Files, to \in {"new", "captured"} => b = 1,
         to \in {"tp", "hello"} => f \in Complete
  PROVE  \A g \in Flights : Fits(g)'
<1> TAKE g \in Flights
<1>0. TypeOK /\ Fits(g) /\ Fits(f)
  BY DEF TypeInv
<1>1. to # "new"
  BY DEF Files, Ended
<1>2. before'[g] \subseteq {h \in Flights \ {g} : pc'[h] \in Ended}
  BY <1>0 DEF Fits, TypeOK, Files, Ended
<1>3. CASE g = f
  <2>1. pc'[f] = to /\ bin'[f] = b /\ opened'[f] = o
    BY <1>0 DEF TypeOK
  <2> QED
    BY <1>0, <1>1, <1>2, <1>3, <2>1 DEF Fits, TypeOK, Active, Files, Ended
<1>4. CASE g # f
  BY <1>0, <1>2, <1>4 DEF Fits, TypeOK, Active
<1> QED
  BY <1>3, <1>4

LEMMA TypeStep == TypeInv /\ [Next]_vars => TypeInv'
<1> SUFFICES ASSUME TypeInv, [Next]_vars PROVE TypeInv'
  OBVIOUS
<1> USE FilesAssumption
<1>0. TypeOK /\ \A f \in Flights : Fits(f)
  BY DEF TypeInv
<1>1. ASSUME NEW f \in Flights, Begin(f) PROVE TypeInv'
  <2>1. TypeOK'
    BY <1>0, <1>1 DEF Begin, TypeOK, Files
  <2>2. ASSUME NEW g \in Flights PROVE Fits(g)'
    BY <1>0, <1>1 DEF Begin, TypeOK, Fits, Active, Ended
  <2> QED
    BY <2>1, <2>2 DEF TypeInv
<1>2. CASE Tick
  BY <1>0, <1>2 DEF Tick, TypeInv, TypeOK, Fits, Active
<1>3. ASSUME NEW f \in Flights, Open(f) PROVE TypeInv'
  <2>1. TypeOK'
    BY <1>0, <1>3 DEF Open, TypeOK, clockVars
  <2>2. ASSUME NEW g \in Flights PROVE Fits(g)'
    BY <1>0, <1>3 DEF Open, TypeOK, Fits, Active
  <2> QED
    BY <2>1, <2>2 DEF TypeInv
<1>4. ASSUME NEW f \in Flights, pc[f] \in Files, GoOn(f), UNCHANGED <<clockVars, before>>,
             disk' \in [Dirs \X Names -> Flights \cup {Absent, Empty, Mixed}],
             skipped' \in [Flights -> SUBSET Names], faults' \in 0 .. MaxFaults, kills' \in 0 .. MaxKills
      PROVE  TypeInv'
  <2>1. TypeOK'
    BY <1>0, <1>4, GoesOn DEF GoOn, TypeOK, clockVars, Ended
  <2>2. \A g \in Flights : Fits(g)'
    <3>1. Following(f) \in Files \cup Ended /\ Following(f) # "new"
      BY <1>4, GoesOn DEF Files, Ended
    <3> QED
      BY <1>4, <3>1, GoesOn, FitsOfOne DEF GoOn
  <2> QED
    BY <2>1, <2>2 DEF TypeInv
<1>5. ASSUME NEW f \in Flights, Write(f) PROVE TypeInv'
  <2>1. pc[f] \in Files
    BY <1>0, <1>5, ActiveIs DEF Write
  <2>2. disk' \in [Dirs \X Names -> Flights \cup {Absent, Empty, Mixed}]
    <3>1. PICK content \in Written(f) : disk' = [disk EXCEPT ![Path(f)] = content]
      BY <1>5 DEF Write
    <3>2. content \in Flights \cup {Mixed}
      BY <3>1 DEF Written
    <3> QED
      BY <1>0, <3>1, <3>2 DEF TypeOK
  <2> QED
    BY <1>0, <1>4, <1>5, <2>1, <2>2 DEF Write, TypeOK, clockVars
<1>6. ASSUME NEW f \in Flights, WriteFails(f) PROVE TypeInv'
  <2>1. pc[f] \in Files /\ faults' \in 0 .. MaxFaults
    BY <1>0, <1>6, ActiveIs DEF WriteFails, TypeOK
  <2>2. CASE pc[f] \in Ignored
    <3>1. Path(f)[2] \in Names
      BY <2>1, PathIs
    <3>2. skipped' \in [Flights -> SUBSET Names]
      BY <1>0, <1>6, <2>2, <3>1 DEF WriteFails, TypeOK
    <3> QED
      BY <1>0, <1>4, <1>6, <2>1, <2>2, <3>2 DEF WriteFails, TypeOK, clockVars
  <2>3. CASE pc[f] \notin Ignored
    <3>1. TypeOK'
      BY <1>0, <1>6, <2>1, <2>3 DEF WriteFails, TypeOK, clockVars, Ended
    <3>2. bin' = [bin EXCEPT ![f] = bin[f]] \/ bin' = bin
      BY <1>6, <2>3 DEF WriteFails
    <3>3. ASSUME NEW g \in Flights PROVE Fits(g)'
      BY <1>0, <1>6, <2>1, <2>3 DEF WriteFails, TypeOK, Fits, Active, Files, Ended
    <3> QED
      BY <3>1, <3>3 DEF TypeInv
  <2> QED
    BY <2>2, <2>3
<1>7. CASE Kill
  <2>1. TypeOK'
    BY <1>0, <1>7 DEF Kill, TypeOK, clockVars, Ended
  <2>2. ASSUME NEW g \in Flights PROVE Fits(g)'
    BY <1>0, <1>7 DEF Kill, TypeOK, Fits, Active, Ended
  <2> QED
    BY <2>1, <2>2 DEF TypeInv
<1>8. CASE UNCHANGED vars
  BY <1>0, <1>8 DEF vars, clockVars, TypeInv, TypeOK, Fits, Active
<1> QED
  BY <1>1, <1>2, <1>3, <1>5, <1>6, <1>7, <1>8 DEF Next

\* Every variable keeps its type, for any flights and bounds.
THEOREM TypeCorrect == Spec => []TypeOK
<1>1. TypeInv => TypeOK
  BY DEF TypeInv
<1> QED
  BY <1>1, TypeInit, TypeStep, PTL DEF Spec

LEMMA TypeInvariant == Spec => []TypeInv
BY TypeInit, TypeStep, PTL DEF Spec

-----------------------------------------------------------------------------
(* What is promoted is captured                                            *)

\* The files of its capture a finalizer has written.
CapturedSoFar(f) ==
  IF pc[f] = "capture" THEN {Bin(j) : j \in 1 .. bin[f] - 1}
  ELSE IF pc[f] = "captured" THEN Bins(f) ELSE CaptureNames(f)
Captured(f) == \A name \in CaptureNames(f) : disk[<<CaptureDir(f), name>>] = f
Promoted(f) == \E name \in Names : disk[<<ProfileDir(TargetID(f)), name>>] = f

CaptureInv(f) ==
  /\ pc[f] \in {"new"} \cup InCapture => ~Promoted(f)
  /\ ~Shared(f) =>
       /\ pc[f] \in Files => \A name \in CapturedSoFar(f) : disk[<<CaptureDir(f), name>>] = f
       /\ pc[f] \in InCapture /\ opened[f] => disk[Path(f)] = Empty
       /\ Promoted(f) => Captured(f)

\* A file is written: what was captured so far grows by it.
LEMMA CaptureGrows ==
  ASSUME TypeInv, NEW f \in Flights, pc[f] \in Files, GoOn(f)
  PROVE  /\ pc[f] \in InCapture => /\ pc'[f] \in InCapture \cup {"promote"}
                                   /\ CapturedSoFar(f)' = CapturedSoFar(f) \cup {Path(f)[2]}
         /\ pc[f] \in InProfile => /\ pc'[f] \in InProfile \cup {"ok"}
                                   /\ CapturedSoFar(f)' = CapturedSoFar(f)
<1>1. /\ bin[f] \in 1 .. Size[f] /\ Size[f] \in Nat \ {0}
      /\ pc'[f] = Following(f) /\ bin'[f] = NextBin(f)
  BY FilesAssumption DEF TypeInv, TypeOK, GoOn
<1>2. CASE pc[f] = "capture" /\ bin[f] < Size[f]
  <2>1. pc'[f] = "capture" /\ bin'[f] = bin[f] + 1 /\ Path(f)[2] = Bin(bin[f])
    BY <1>1, <1>2 DEF Following, NextBin, Path
  <2>2. 1 .. bin[f] + 1 - 1 = (1 .. bin[f] - 1) \cup {bin[f]}
    BY <1>1
  <2>3. CapturedSoFar(f)' = CapturedSoFar(f) \cup {Path(f)[2]}
    BY <1>2, <2>1, <2>2 DEF CapturedSoFar, Bin
  <2> QED
    BY <1>2, <2>1, <2>3 DEF InCapture, InProfile
<1>3. CASE pc[f] = "capture" /\ ~(bin[f] < Size[f])
  <2>1. pc'[f] = "captured" /\ Path(f)[2] = Bin(bin[f])
    BY <1>1, <1>3 DEF Following, Path, After
  <2>2. 1 .. Size[f] = (1 .. bin[f] - 1) \cup {bin[f]}
    BY <1>1, <1>3
  <2>3. CapturedSoFar(f)' = CapturedSoFar(f) \cup {Path(f)[2]}
    BY <1>3, <2>1, <2>2 DEF CapturedSoFar, Bin, Bins
  <2> QED
    BY <1>3, <2>1, <2>3 DEF InCapture, InProfile
<1>4. CASE pc[f] = "captured"
  <2>1. pc'[f] = "promote" /\ Path(f)[2] = Meta
    BY <1>1, <1>4 DEF Following, Path, After
  <2> QED
    BY <1>4, <2>1 DEF CapturedSoFar, CaptureNames, Bins, InCapture, InProfile
<1>5. CASE pc[f] \in InProfile
  <2>1. pc'[f] \in InProfile \cup {"ok"}
    BY <1>1, <1>5 DEF Following, After, InProfile, InCapture, Files
  <2> QED
    BY <1>5, <2>1 DEF CapturedSoFar, CaptureNames, Bins, InCapture, InProfile, Files
<1> QED
  BY <1>2, <1>3, <1>4, <1>5 DEF InCapture, InProfile

\* Flights do not share a capture again once they have begun.
LEMMA StaysShared ==
  ASSUME TypeInv, NEW f \in Flights, UNCHANGED stamp,
         \A g \in Flights : pc[g] # "new" => pc'[g] # "new"
  PROVE  Shared(f) => Shared(f)'
BY DEF Shared, CaptureDir

\* A step of another finalizer does not reach the capture of an unshared flight.
LEMMA CaptureOfOther ==
  ASSUME TypeInv, NEW f \in Flights, NEW g \in Flights \ {f}, pc[g] \in Files,
         NEW content \in {g, Empty, Mixed},
         disk' = [disk EXCEPT ![Path(g)] = content],
         pc'[f] = pc[f], bin'[f] = bin[f], opened'[f] = opened[f], UNCHANGED stamp,
         \A h \in Flights : pc[h] # "new" => pc'[h] # "new", CaptureInv(f)
  PROVE  CaptureInv(f)'
<1> USE FilesAssumption
<1>1. TypeOK /\ Fits(f) /\ pc[g] # "new" /\ Files = InCapture \cup InProfile
  BY DEF TypeInv, Files, InCapture, InProfile
<1>2. Path(g) \in Dirs \X Names /\ content # f
  BY PathIs
<1>3. Promoted(f)' => Promoted(f)
  BY <1>1, <1>2 DEF Promoted, TypeOK
<1>4. ASSUME ~Shared(f), NEW name PROVE disk'[<<CaptureDir(f), name>>] = disk[<<CaptureDir(f), name>>]
  <2>1. Path(g)[1] # CaptureDir(f)
    BY <1>1, <1>4, PathIs DEF Shared, ProfileDir, CaptureDir
  <2>2. Path(g) # <<CaptureDir(f), name>>
    BY <2>1
  <2> QED
    BY <1>1, <2>2 DEF TypeOK
<1>5. CapturedSoFar(f)' = CapturedSoFar(f) /\ CaptureDir(f)' = CaptureDir(f) /\ Path(f)' = Path(f)
  BY DEF CapturedSoFar, CaptureNames, Bins, CaptureDir, Path
<1>6. ~Shared(f)' => ~Shared(f)
  BY StaysShared
<1>7. ASSUME ~Shared(f)', pc[f] \in InCapture PROVE disk'[Path(f)] = disk[Path(f)]
  <2>1. Path(f) = <<CaptureDir(f), Path(f)[2]>>
    BY <1>1, <1>7, PathIs DEF Path
  <2> QED
    BY <1>4, <1>6, <1>7, <2>1
<1> QED
  BY <1>1, <1>3, <1>4, <1>5, <1>6, <1>7 DEF CaptureInv, Captured, InCapture, Files

\* Nor does a step that writes no file.
LEMMA CaptureOfNone ==
  ASSUME TypeInv, NEW f \in Flights, UNCHANGED <<disk, stamp>>, bin'[f] = bin[f],
         pc'[f] = pc[f] \/ (pc[f] # "new" /\ pc'[f] \in Ended), opened'[f] => opened[f],
         \A g \in Flights : pc[g] # "new" => pc'[g] # "new", CaptureInv(f)
  PROVE  CaptureInv(f)'
<1>1. Promoted(f)' = Promoted(f) /\ Captured(f)' = Captured(f)
  BY DEF Promoted, Captured, CaptureDir
<1>2. ~Shared(f)' => ~Shared(f)
  BY StaysShared
<1>3. CASE pc'[f] = pc[f]
  <2>1. CapturedSoFar(f)' = CapturedSoFar(f) /\ CaptureDir(f)' = CaptureDir(f) /\ Path(f)' = Path(f)
    BY <1>3 DEF CapturedSoFar, CaptureNames, Bins, CaptureDir, Path
  <2> QED
    BY <1>1, <1>2, <1>3, <2>1 DEF CaptureInv
<1>4. CASE pc'[f] \in Ended
  BY <1>1, <1>2, <1>4 DEF CaptureInv, Ended, Files, InCapture
<1> QED
  BY <1>3, <1>4

CaptureInvs == TypeInv /\ \A f \in Flights : CaptureInv(f)

LEMMA CaptureInit == Init => \A f \in Flights : CaptureInv(f)
<1> SUFFICES ASSUME Init, NEW f \in Flights PROVE CaptureInv(f)
  OBVIOUS
<1>1. TypeInv
  BY TypeInit
<1>2. ProfileDir(TargetID(f)) \in Dirs
  BY DEF Dirs, IDs
<1>3. ~Promoted(f)
  BY <1>2, FilesAssumption DEF Init, Promoted
<1> QED
  BY <1>3 DEF Init, CaptureInv, Files, InCapture

\* A finalizer goes on after a write, or after one whose error it ignores.
LEMMA CaptureOfWriter ==
  ASSUME TypeInv, NEW f \in Flights, pc[f] \in Files, GoOn(f), UNCHANGED stamp, CaptureInv(f),
         \/ opened[f] /\ \E content \in Written(f) : disk' = [disk EXCEPT ![Path(f)] = content]
         \/ pc[f] \in InProfile /\ UNCHANGED disk
  PROVE  CaptureInv(f)'
<1> USE FilesAssumption
<1>1. TypeOK /\ opened'[f] = FALSE /\ CaptureDir(f)' = CaptureDir(f)
  BY DEF TypeInv, TypeOK, GoOn, CaptureDir
<1>2. ~Shared(f)' => ~Shared(f)
  <2>1. \A g \in Flights : pc[g] # "new" => pc'[g] # "new"
    BY <1>1, GoesOn DEF GoOn, TypeOK, Files
  <2> QED
    BY <2>1, StaysShared
<1>3. Path(f) \in Dirs \X Names
  BY PathIs
<1>4. CASE pc[f] \in InCapture
  <2>1. PICK content \in Written(f) : disk' = [disk EXCEPT ![Path(f)] = content]
    BY <1>4 DEF InProfile
  <2>2. Path(f) = <<CaptureDir(f), Path(f)[2]>>
    BY <1>4, PathIs DEF Path
  <2>3. ~Promoted(f)'
    <3>1. ~Promoted(f)
      BY <1>4 DEF CaptureInv
    <3>2. \A name \in Names : <<ProfileDir(TargetID(f)), name>> # Path(f)
      BY <2>2 DEF ProfileDir, CaptureDir
    <3>3. ProfileDir(TargetID(f)) \in Dirs
      BY DEF Dirs, IDs
    <3>4. \A name \in Names : disk'[<<ProfileDir(TargetID(f)), name>>] = disk[<<ProfileDir(TargetID(f)), name>>]
      BY <1>1, <2>1, <3>2, <3>3 DEF TypeOK
    <3> QED
      BY <3>1, <3>4 DEF Promoted
  <2>4. opened[f]
    BY <1>4 DEF InProfile
  <2>5. ASSUME ~Shared(f), NEW name \in CapturedSoFar(f)'
        PROVE  disk'[<<CaptureDir(f), name>>] = f
    <3>1. content = f
      BY <1>4, <2>1, <2>5, <2>4 DEF CaptureInv, Written
    <3>2. name \in CapturedSoFar(f) \/ name = Path(f)[2]
      BY <1>4, CaptureGrows
    <3>3. CASE name = Path(f)[2]
      BY <1>1, <1>3, <2>1, <2>2, <3>1, <3>3 DEF TypeOK
    <3>4. CASE name # Path(f)[2] /\ name \in CapturedSoFar(f)
      <4>1. disk[<<CaptureDir(f), name>>] = f
        BY <2>5, <3>4 DEF CaptureInv
      <4>2. <<CaptureDir(f), name>> # Path(f)
        BY <2>2, <3>4
      <4> QED
        BY <1>1, <2>1, <4>1, <4>2 DEF TypeOK
    <3> QED
      BY <3>2, <3>3, <3>4
  <2> QED
    BY <1>1, <1>2, <2>3, <2>5, CaptureGrows, <1>4 DEF CaptureInv
<1>5. CASE pc[f] \in InProfile
  <2>1. pc'[f] \in InProfile \cup {"ok"} /\ CapturedSoFar(f) = CaptureNames(f)
    BY <1>5, CaptureGrows DEF CapturedSoFar, InProfile, InCapture
  <2>2. Captured(f) => Captured(f)'
    <3>1. CASE UNCHANGED disk
      BY <1>1, <3>1 DEF Captured
    <3>2. CASE \E content \in Written(f) : disk' = [disk EXCEPT ![Path(f)] = content]
      <4>1. \A name : <<CaptureDir(f), name>> # Path(f)
        BY <1>5, PathIs DEF Path, CaptureDir, ProfileDir, InProfile, InCapture
      <4> QED
        BY <1>1, <3>2, <4>1 DEF Captured, TypeOK
    <3> QED
      BY <3>1, <3>2
  <2>3. ~Shared(f) => Captured(f)
    BY <1>5, <2>1 DEF CaptureInv, Captured, InProfile
  <2>4. CapturedSoFar(f)' = CaptureNames(f)
    BY <2>1, <1>5, CaptureGrows
  <2> QED
    BY <1>1, <1>2, <2>1, <2>2, <2>3, <2>4 DEF CaptureInv, Captured, InCapture, InProfile, Files,
       CaptureNames, Bins
<1> QED
  BY <1>4, <1>5 DEF InProfile

LEMMA CaptureStep == CaptureInvs /\ [Next]_vars => CaptureInvs'
<1> SUFFICES ASSUME CaptureInvs, [Next]_vars PROVE CaptureInvs'
  OBVIOUS
<1> USE FilesAssumption
<1>0. TypeInv /\ TypeOK /\ \A f \in Flights : Fits(f) /\ CaptureInv(f)
  BY DEF CaptureInvs, TypeInv
<1>t. TypeInv'
  BY <1>0, TypeStep
<1> SUFFICES ASSUME NEW f \in Flights PROVE CaptureInv(f)'
  BY <1>t DEF CaptureInvs
<1>1. ASSUME NEW g \in Flights, Begin(g) PROVE CaptureInv(f)'
  <2>1. \A h \in Flights : pc[h] # "new" => pc'[h] # "new"
    BY <1>0, <1>1 DEF Begin, TypeOK
  <2>2. CASE g = f
    <3>1. ~Promoted(f)'
      BY <1>0, <1>1, <2>2 DEF CaptureInv, Promoted, Begin
    <3>2. pc'[f] = "capture" /\ bin'[f] = 1 /\ opened'[f] = FALSE
      BY <1>0, <1>1, <2>2 DEF Begin, TypeOK, Fits, Active
    <3>3. CapturedSoFar(f)' = {}
      BY <3>2 DEF CapturedSoFar
    <3> QED
      BY <3>1, <3>2, <3>3 DEF CaptureInv
  <2>3. CASE g # f
    <3>1. stamp'[f] = stamp[f] /\ pc'[f] = pc[f] /\ UNCHANGED <<disk, bin, opened>>
      BY <1>0, <1>1, <2>3 DEF Begin, TypeOK
    <3>2. Promoted(f)' = Promoted(f) /\ Captured(f)' = Captured(f)
      BY <3>1 DEF Promoted, Captured, CaptureDir
    <3>3. ~Shared(f)' => ~Shared(f)
      BY <1>0, <1>1, <3>1 DEF Shared, CaptureDir, Begin, TypeOK
    <3>4. CapturedSoFar(f)' = CapturedSoFar(f) /\ CaptureDir(f)' = CaptureDir(f) /\ Path(f)' = Path(f)
      BY <3>1 DEF CapturedSoFar, CaptureNames, Bins, CaptureDir, Path
    <3>5. disk'[Path(f)'] = disk[Path(f)]
      BY <3>1, <3>4
    <3> QED
      BY <1>0, <3>1, <3>2, <3>3, <3>4, <3>5 DEF CaptureInv
  <2> QED
    BY <2>2, <2>3
<1>2. CASE Tick
  BY <1>0, <1>2, CaptureOfNone DEF Tick
<1>3. ASSUME NEW g \in Flights, Open(g) PROVE CaptureInv(f)'
  <2>1. pc[g] \in Files
    BY <1>0, <1>3, ActiveIs DEF Open
  <2>2. CASE g # f
    <3>1. opened'[f] = opened[f]
      BY <1>0, <1>3, <2>2 DEF Open, TypeOK
    <3> QED
      BY <1>0, <1>3, <2>1, <2>2, <3>1, CaptureOfOther DEF Open, clockVars
  <2>3. CASE g = f
    <3>1. UNCHANGED <<pc, bin, stamp>> /\ disk' = [disk EXCEPT ![Path(f)] = Empty] /\ ~opened[f]
      BY <1>3, <2>3 DEF Open, clockVars
    <3>2. Path(f) \in Dirs \X Names
      BY <1>0, <2>1, <2>3, PathIs
    <3>3. Promoted(f)' => Promoted(f)
      <4>1. \A file : disk'[file] = f /\ file \in Dirs \X Names => disk[file] = f
        BY <1>0, <3>1, <3>2 DEF TypeOK
      <4>2. ProfileDir(TargetID(f)) \in Dirs
        BY DEF Dirs, IDs
      <4> QED
        BY <4>1, <4>2 DEF Promoted
    <3>4. Shared(f)' = Shared(f) /\ CapturedSoFar(f)' = CapturedSoFar(f) /\ Path(f)' = Path(f)
          /\ CaptureDir(f)' = CaptureDir(f)
      BY <3>1 DEF Shared, CapturedSoFar, CaptureNames, Bins, CaptureDir, Path
    <3>5. disk'[Path(f)'] = Empty
      BY <1>0, <3>1, <3>2, <3>4 DEF TypeOK
    <3>6. ASSUME ~Shared(f), NEW name \in CapturedSoFar(f)
          PROVE  disk'[<<CaptureDir(f), name>>] = f
      <4>1. disk[<<CaptureDir(f), name>>] = f
        BY <1>0, <2>1, <2>3, <3>6 DEF CaptureInv
      <4>2. Path(f) # <<CaptureDir(f), name>>
        <5>1. CASE pc[f] = "capture"
          BY <1>0, <5>1, <3>6 DEF Path, CapturedSoFar, Bin, TypeOK
        <5>2. CASE pc[f] = "captured"
          BY <5>2, <3>6 DEF Path, CapturedSoFar, Bins, Bin, Meta
        <5>3. CASE pc[f] \notin InCapture
          BY <5>3 DEF Path, CaptureDir, ProfileDir, InCapture
        <5> QED
          BY <5>1, <5>2, <5>3 DEF InCapture
      <4> QED
        BY <1>0, <3>1, <4>1, <4>2 DEF TypeOK
    <3>7. Promoted(f)' /\ ~Shared(f) => Captured(f)'
      <4>1. Promoted(f)' => CapturedSoFar(f) = CaptureNames(f)
        BY <1>0, <2>1, <2>3, <3>3 DEF CaptureInv, CapturedSoFar, InCapture
      <4> QED
        BY <3>4, <3>6, <4>1 DEF Captured, CaptureNames, Bins
    <3> QED
      BY <1>0, <2>1, <2>3, <3>1, <3>3, <3>4, <3>5, <3>6, <3>7 DEF CaptureInv
  <2> QED
    BY <2>2, <2>3
<1>4. ASSUME NEW g \in Flights, Write(g) PROVE CaptureInv(f)'
  <2>1. pc[g] \in Files
    BY <1>0, <1>4, ActiveIs DEF Write
  <2>2. CASE g = f
    BY <1>0, <1>4, <2>1, <2>2, CaptureOfWriter DEF Write, clockVars
  <2>3. CASE g # f
    <3>1. PICK content \in Written(g) : disk' = [disk EXCEPT ![Path(g)] = content]
      BY <1>4 DEF Write
    <3>2. content \in {g, Empty, Mixed}
      BY <3>1 DEF Written
    <3>3. /\ pc'[f] = pc[f] /\ bin'[f] = bin[f] /\ opened'[f] = opened[f]
          /\ \A h \in Flights : pc[h] # "new" => pc'[h] # "new"
      BY <1>0, <1>4, <2>1, <2>3, GoesOn DEF Write, GoOn, TypeOK, Files
    <3> QED
      BY <1>0, <1>4, <2>1, <2>3, <3>1, <3>2, <3>3, CaptureOfOther DEF Write, clockVars
  <2> QED
    BY <2>2, <2>3
<1>5. ASSUME NEW g \in Flights, WriteFails(g) PROVE CaptureInv(f)'
  <2>1. pc[g] \in Files /\ UNCHANGED <<disk, stamp>>
    BY <1>0, <1>5, ActiveIs DEF WriteFails, clockVars
  <2>2. CASE pc[g] \in Ignored /\ g = f
    <3>1. pc[f] \in InProfile /\ GoOn(f)
      BY <1>5, <2>2 DEF Ignored, InProfile, InCapture, Files, WriteFails
    <3> QED
      BY <1>0, <2>1, <2>2, <3>1, CaptureOfWriter
  <2>3. CASE pc[g] \in Ignored /\ g # f
    <3>1. /\ pc'[f] = pc[f] /\ bin'[f] = bin[f] /\ opened'[f] = opened[f]
          /\ \A h \in Flights : pc[h] # "new" => pc'[h] # "new"
      BY <1>0, <1>5, <2>1, <2>3, GoesOn DEF WriteFails, GoOn, TypeOK, Files
    <3> QED
      BY <1>0, <2>1, <3>1, CaptureOfNone
  <2>4. CASE pc[g] \notin Ignored
    <3>1. /\ UNCHANGED bin /\ (opened'[f] => opened[f])
          /\ pc'[f] = pc[f] \/ (pc[f] # "new" /\ pc'[f] \in Ended)
          /\ \A h \in Flights : pc[h] # "new" => pc'[h] # "new"
      BY <1>0, <1>5, <2>1, <2>4 DEF WriteFails, TypeOK, Files, Ended
    <3> QED
      BY <1>0, <2>1, <3>1, CaptureOfNone
  <2> QED
    BY <2>2, <2>3, <2>4
<1>6. CASE Kill
  <2>1. /\ UNCHANGED <<disk, stamp, bin>> /\ opened'[f] = FALSE
        /\ pc'[f] = pc[f] \/ (pc[f] # "new" /\ pc'[f] \in Ended)
        /\ \A h \in Flights : pc[h] # "new" => pc'[h] # "new"
    BY <1>6 DEF Kill, clockVars, Active, Ended
  <2> QED
    BY <1>0, <2>1, CaptureOfNone
<1>7. CASE UNCHANGED vars
  BY <1>0, <1>7, CaptureOfNone DEF vars, clockVars
<1> QED
  BY <1>1, <1>2, <1>3, <1>4, <1>5, <1>6, <1>7 DEF Next

\* Whatever of a flight is in a profile, its whole flight is in its capture, for
\* any flights, failing writes and kills, unless a flight of the same target was
\* captured in the same second (main.go:161-205).
THEOREM PromotedAlwaysCaptured == Spec => []PromotedIsCaptured
<1>1. Init => CaptureInvs
  BY TypeInit, CaptureInit DEF CaptureInvs
<1>2. CaptureInvs => PromotedIsCaptured
  BY DEF CaptureInvs, CaptureInv, PromotedIsCaptured, Promoted, Captured
<1> QED
  BY <1>1, <1>2, CaptureStep, PTL DEF Spec

-----------------------------------------------------------------------------
(* A promotion that ended well                                             *)

\* The files of its profile a finalizer has written, or skipped.
ProfiledSoFar(f) ==
  (IF pc[f] = "promote" THEN {Bin(j) : j \in 1 .. bin[f] - 1} ELSE Bins(f))
    \cup (IF pc[f] \in {"header", "tp", "hello", "profile", "ok"} THEN {Meta} ELSE {})
    \cup (IF pc[f] \in {"tp", "hello", "profile", "ok"} THEN {<<"header", 0>>} ELSE {})
    \cup (IF pc[f] \in {"hello", "profile", "ok"} /\ f \in Complete THEN {<<"tp", 0>>} ELSE {})
    \cup (IF pc[f] \in {"profile", "ok"} /\ f \in Complete THEN {Hello} ELSE {})
    \cup (IF pc[f] = "ok" THEN {Manifest} ELSE {})

\* A file f wrote is not undone, and is its own if f has been alone.
Holds(f, content) ==
  /\ content \notin before[f] \cup {Absent}
  /\ Alone(f) => content = f

ProfileInv(f) ==
  /\ skipped[f] \subseteq {Meta, <<"header", 0>>, <<"tp", 0>>, Hello}
  /\ pc[f] \in InProfile \cup {"ok"} => \A name \in ProfiledSoFar(f) \ skipped[f] :
       Holds(f, disk[<<ProfileDir(TargetID(f)), name>>])
  /\ pc[f] \in InProfile /\ opened[f] => disk[Path(f)] \notin before[f] \cup {Absent}
  /\ pc[f] \in InProfile /\ opened[f] /\ Alone(f) => disk[Path(f)] = Empty

\* What a promotion that ended well keeps.
LEMMA KeptIs ==
  ASSUME NEW f \in Flights, ProfileInv(f), pc[f] = "ok"
  PROVE  Kept(f) = ProfiledSoFar(f) \ skipped[f]
<1>1. ProfiledSoFar(f) = Bins(f) \cup Named(f) \cup {Manifest}
  BY DEF ProfiledSoFar, Named
<1>2. skipped[f] \cap (Bins(f) \cup {Manifest}) = {}
  BY DEF ProfileInv, Bins, Bin, Manifest, Meta, Hello
<1> QED
  BY <1>1, <1>2 DEF Kept

LEMMA ProfileGrows ==
  ASSUME TypeInv, NEW f \in Flights, pc[f] \in InProfile, GoOn(f)
  PROVE  ProfiledSoFar(f)' = ProfiledSoFar(f) \cup {Path(f)[2]}
<1>1. /\ bin[f] \in 1 .. Size[f] /\ Size[f] \in Nat \ {0}
      /\ pc'[f] = Following(f) /\ bin'[f] = NextBin(f)
      /\ pc[f] \in {"tp", "hello"} => f \in Complete
  BY FilesAssumption DEF TypeInv, TypeOK, GoOn, Fits
<1>2. CASE pc[f] = "promote" /\ bin[f] < Size[f]
  <2>1. pc'[f] = "promote" /\ bin'[f] = bin[f] + 1 /\ Path(f)[2] = Bin(bin[f])
    BY <1>1, <1>2 DEF Following, NextBin, Path
  <2>2. 1 .. bin[f] + 1 - 1 = (1 .. bin[f] - 1) \cup {bin[f]}
    BY <1>1
  <2> QED
    BY <1>2, <2>1, <2>2 DEF ProfiledSoFar, Bin
<1>3. CASE pc[f] = "promote" /\ ~(bin[f] < Size[f])
  <2>1. pc'[f] = "meta" /\ Path(f)[2] = Bin(bin[f])
    BY <1>1, <1>3 DEF Following, Path, After
  <2>2. 1 .. Size[f] = (1 .. bin[f] - 1) \cup {bin[f]}
    BY <1>1, <1>3
  <2> QED
    BY <1>3, <2>1, <2>2 DEF ProfiledSoFar, Bin, Bins
<1>4. ASSUME pc[f] # "promote"
      PROVE  /\ Path(f)[2] = <<pc[f], 0>> /\ Bins(f)' = Bins(f)
             /\ pc'[f] = IF pc[f] = "header" /\ f \notin Complete THEN "profile" ELSE After[pc[f]]
  BY <1>1, <1>4 DEF Path, Following, InProfile, InCapture, Bins
<1>5. CASE pc[f] = "meta"
  BY <1>4, <1>5 DEF ProfiledSoFar, After, Meta
<1>6. CASE pc[f] = "header"
  <2>1. CASE f \in Complete
    <3>1. pc'[f] = "tp"
      BY <1>4, <1>6, <2>1 DEF After
    <3> QED
      BY <1>4, <1>6, <3>1 DEF ProfiledSoFar
  <2>2. CASE f \notin Complete
    <3>1. pc'[f] = "profile"
      BY <1>4, <1>6, <2>2 DEF After
    <3> QED
      BY <1>4, <1>6, <2>2, <3>1 DEF ProfiledSoFar
  <2> QED
    BY <2>1, <2>2
<1>7. CASE pc[f] = "tp"
  BY <1>1, <1>4, <1>7 DEF ProfiledSoFar, After
<1>8. CASE pc[f] = "hello"
  BY <1>1, <1>4, <1>8 DEF ProfiledSoFar, After, Hello
<1>9. CASE pc[f] = "profile"
  BY <1>4, <1>9 DEF ProfiledSoFar, After, Manifest
<1> QED
  BY <1>2, <1>3, <1>5, <1>6, <1>7, <1>8, <1>9 DEF InProfile, InCapture, Files

\* A file another finalizer touches is not of a flight before f, and f is not alone.
LEMMA OtherHolds ==
  ASSUME TypeInv, NEW f \in Flights, NEW g \in Flights \ {f}, pc[g] \in Files,
         NEW content \in {g, Empty, Mixed}
  PROVE  ~Alone(f) /\ content \notin before[f] \cup {Absent}
<1>1. g \notin before[f] /\ pc[g] # "new" /\ before[f] \subseteq Flights
  BY DEF TypeInv, Fits, Files, Ended
<1> QED
  BY <1>1, FilesAssumption DEF Alone

LEMMA ProfileInit == Init => \A f \in Flights : ProfileInv(f)
BY DEF Init, ProfileInv, InProfile, InCapture, Files

\* A flight that was alone still is, or was alone all along.
LEMMA StaysAlone ==
  ASSUME TypeInv, NEW f \in Flights, pc[f] # "new", UNCHANGED before,
         \A g \in Flights : pc[g] # "new" => pc'[g] # "new"
  PROVE  Alone(f)' => Alone(f)
BY DEF Alone

\* A step of another finalizer writes at most one file, which it holds.
LEMMA ProfileOfOther ==
  ASSUME TypeInv, NEW f \in Flights, ProfileInv(f), UNCHANGED before,
         pc'[f] = pc[f] \/ pc'[f] \in Ended \ {"ok"}, bin'[f] = bin[f],
         opened'[f] => opened[f], skipped'[f] = skipped[f],
         \A g \in Flights : pc[g] # "new" => pc'[g] # "new",
         \/ UNCHANGED disk
         \/ \E g \in Flights \ {f} : pc[g] \in Files /\
              \E content \in {g, Empty, Mixed} : disk' = [disk EXCEPT ![Path(g)] = content]
  PROVE  ProfileInv(f)'
<1>1. TypeOK /\ ProfileDir(TargetID(f)) \in Dirs
  BY DEF TypeInv, Dirs, IDs
<1>2. pc[f] \in InProfile \cup {"ok"} => (Alone(f)' => Alone(f))
  BY StaysAlone DEF InProfile, Files
<1>3. ASSUME NEW file \in Dirs \X Names
      PROVE  \/ disk'[file] = disk[file]
             \/ disk'[file] \notin before[f] \cup {Absent} /\ ~Alone(f)
  <2>1. CASE UNCHANGED disk
    BY <2>1
  <2>2. ASSUME NEW g \in Flights \ {f}, pc[g] \in Files, NEW content \in {g, Empty, Mixed},
               disk' = [disk EXCEPT ![Path(g)] = content]
        PROVE  \/ disk'[file] = disk[file]
               \/ disk'[file] \notin before[f] \cup {Absent} /\ ~Alone(f)
    <3>1. ~Alone(f) /\ content \notin before[f] \cup {Absent}
      BY <2>2, OtherHolds
    <3>2. disk'[file] = disk[file] \/ disk'[file] = content
      BY <1>1, <2>2 DEF TypeOK
    <3> QED
      BY <3>1, <3>2
  <2> QED
    BY <2>1, <2>2
<1>4. CASE pc'[f] = pc[f]
  <2>1. ProfiledSoFar(f)' = ProfiledSoFar(f) /\ (pc[f] \in InProfile => Path(f)' = Path(f))
    BY <1>4 DEF ProfiledSoFar, Bins, Path, CaptureDir, InProfile, InCapture
  <2>2. CASE pc[f] \in InProfile \cup {"ok"}
    <3>1. ProfiledSoFar(f) \subseteq Names
      <4>1. ProfiledSoFar(f) \subseteq Bins(f) \cup Named(f) \cup {Manifest}
        <5>1. 1 .. bin[f] - 1 \subseteq 1 .. Size[f]
          BY FilesAssumption DEF TypeInv, TypeOK
        <5> QED
          BY <5>1 DEF ProfiledSoFar, Bins, Named
      <4> QED
        BY <4>1 DEF Names
    <3>2. \A name \in ProfiledSoFar(f) \ skipped[f] :
            Holds(f, disk[<<ProfileDir(TargetID(f)), name>>])'
      BY <1>1, <1>2, <1>3, <2>2, <3>1 DEF ProfileInv, Holds
    <3>3. pc[f] \in InProfile => Path(f) \in Dirs \X Names
      BY PathIs DEF InProfile
    <3> QED
      BY <1>2, <1>3, <1>4, <2>1, <2>2, <3>2, <3>3 DEF ProfileInv
  <2> QED
    BY <1>4, <2>2 DEF ProfileInv
<1>5. CASE pc'[f] \in Ended \ {"ok"}
  BY <1>5 DEF ProfileInv, Ended, InProfile, InCapture, Files
<1> QED
  BY <1>4, <1>5

\* A finalizer goes on in its profile.
LEMMA ProfileOfWriter ==
  ASSUME TypeInv, NEW f \in Flights, ProfileInv(f), pc[f] \in Files, GoOn(f), UNCHANGED before,
         \/ /\ opened[f] /\ skipped' = skipped
            /\ \E content \in Written(f) : disk' = [disk EXCEPT ![Path(f)] = content]
         \/ /\ pc[f] \in Ignored /\ UNCHANGED disk
            /\ skipped' = [skipped EXCEPT ![f] = @ \cup {Path(f)[2]}]
  PROVE  ProfileInv(f)'
<1> USE FilesAssumption
<1>1. TypeOK /\ opened'[f] = FALSE /\ pc'[f] = Following(f) /\ ProfileDir(TargetID(f)) \in Dirs
  BY DEF TypeInv, TypeOK, GoOn, Dirs, IDs
<1>2. Alone(f)' => Alone(f)
  <2>1. \A g \in Flights : pc[g] # "new" => pc'[g] # "new"
    BY <1>1, GoesOn DEF GoOn, TypeOK, Files
  <2> QED
    BY <2>1, StaysAlone DEF Files
<1>3. CASE pc[f] \in InCapture
  <2>1. skipped'[f] = skipped[f]
    BY <1>3 DEF Ignored, InCapture
  <2>2. pc'[f] \in InCapture \/ (pc'[f] = "promote" /\ bin'[f] = 1)
    BY <1>1, <1>3 DEF Following, After, InCapture, GoOn, NextBin, TypeOK
  <2>3. pc'[f] = "promote" => ProfiledSoFar(f)' = {}
    BY <2>2 DEF ProfiledSoFar, InCapture
  <2> QED
    BY <1>1, <2>1, <2>2, <2>3 DEF ProfileInv, InCapture, InProfile
<1>4. CASE pc[f] \in InProfile
  <2>1. Path(f) \in Dirs \X Names /\ Path(f) = <<ProfileDir(TargetID(f)), Path(f)[2]>>
    BY <1>4, PathIs DEF Path, InProfile, InCapture
  <2>2. ProfiledSoFar(f)' = ProfiledSoFar(f) \cup {Path(f)[2]}
    BY <1>4, ProfileGrows
  <2>3. CASE opened[f] /\ skipped' = skipped /\ \E content \in Written(f) : disk' = [disk EXCEPT ![Path(f)] = content]
    <3>1. PICK content \in Written(f) : disk' = [disk EXCEPT ![Path(f)] = content]
      BY <2>3
    <3>2. Holds(f, content)
      <4>1. f \notin before[f] /\ before[f] \subseteq Flights
        BY DEF TypeInv, Fits
      <4>2. Alone(f) => content = f
        BY <1>4, <2>3, <3>1 DEF ProfileInv, Written
      <4> QED
        BY <3>1, <4>1, <4>2 DEF Written, Holds
    <3>3. ASSUME NEW name \in ProfiledSoFar(f)' \ skipped'[f]
          PROVE  Holds(f, disk[<<ProfileDir(TargetID(f)), name>>])'
      <4>1. CASE name = Path(f)[2]
        <5>1. disk'[<<ProfileDir(TargetID(f)), name>>] = content
          BY <1>1, <2>1, <3>1, <4>1 DEF TypeOK
        <5> QED
          BY <1>2, <3>2, <5>1 DEF Holds
      <4>2. CASE name # Path(f)[2]
        <5>1. Holds(f, disk[<<ProfileDir(TargetID(f)), name>>])
          BY <1>4, <2>2, <2>3, <3>3, <4>2 DEF ProfileInv
        <5>2. disk'[<<ProfileDir(TargetID(f)), name>>] = disk[<<ProfileDir(TargetID(f)), name>>]
          <6>1. <<ProfileDir(TargetID(f)), name>> # Path(f)
            BY <2>1, <4>2
          <6> QED
            BY <1>1, <3>1, <6>1 DEF TypeOK
        <5> QED
          BY <1>2, <5>1, <5>2 DEF Holds
      <4> QED
        BY <4>1, <4>2
    <3> QED
      BY <1>1, <2>3, <3>3 DEF ProfileInv
  <2>4. CASE /\ pc[f] \in Ignored /\ UNCHANGED disk
             /\ skipped' = [skipped EXCEPT ![f] = @ \cup {Path(f)[2]}]
    <3>1. skipped'[f] = skipped[f] \cup {Path(f)[2]}
      BY <1>1, <2>4 DEF TypeOK
    <3>2. Path(f)[2] \in {Meta, <<"header", 0>>, <<"tp", 0>>, Hello}
      BY <2>4 DEF Ignored, Path, Meta, Hello
    <3>3. \A name \in ProfiledSoFar(f)' \ skipped'[f] :
            Holds(f, disk[<<ProfileDir(TargetID(f)), name>>])'
      BY <1>2, <1>4, <2>2, <2>4, <3>1 DEF ProfileInv, Holds
    <3> QED
      BY <1>1, <3>1, <3>2, <3>3 DEF ProfileInv
  <2> QED
    BY <2>3, <2>4
<1> QED
  BY <1>3, <1>4 DEF InProfile

ProfileInvs == TypeInv /\ \A f \in Flights : ProfileInv(f)

LEMMA ProfileStep == ProfileInvs /\ [Next]_vars => ProfileInvs'
<1> SUFFICES ASSUME ProfileInvs, [Next]_vars PROVE ProfileInvs'
  OBVIOUS
<1> USE FilesAssumption
<1>0. TypeInv /\ TypeOK /\ \A f \in Flights : Fits(f) /\ ProfileInv(f)
  BY DEF ProfileInvs, TypeInv
<1>t. TypeInv'
  BY <1>0, TypeStep
<1> SUFFICES ASSUME NEW f \in Flights PROVE ProfileInv(f)'
  BY <1>t DEF ProfileInvs
<1>1. ASSUME NEW g \in Flights, Begin(g) PROVE ProfileInv(f)'
  <2>1. CASE g = f
    BY <1>0, <1>1, <2>1 DEF Begin, TypeOK, ProfileInv, InProfile, InCapture, Files
  <2>2. CASE g # f
    <3>1. /\ pc'[f] = pc[f] /\ before'[f] = before[f] /\ UNCHANGED <<disk, bin, opened, skipped>>
          /\ pc[g] = "new" /\ pc'[g] = "capture"
      BY <1>0, <1>1, <2>2 DEF Begin, TypeOK
    <3>2. pc[f] # "new" => (Alone(f)' => Alone(f))
      BY <1>0, <1>1, <3>1 DEF Alone, Begin, TypeOK
    <3>3. ProfiledSoFar(f)' = ProfiledSoFar(f) /\ (pc[f] \in InProfile => Path(f)' = Path(f))
      BY <3>1 DEF ProfiledSoFar, Bins, Path, CaptureDir, InProfile, InCapture
    <3>4. pc[f] \in InProfile \cup {"ok"} => pc[f] # "new"
      BY DEF InProfile, Files
    <3>5. pc[f] \in InProfile \cup {"ok"} => \A name \in ProfiledSoFar(f) \ skipped[f] :
            Holds(f, disk[<<ProfileDir(TargetID(f)), name>>])'
      BY <1>0, <3>1, <3>2, <3>4 DEF ProfileInv, Holds
    <3> QED
      BY <1>0, <3>1, <3>2, <3>3, <3>4, <3>5 DEF ProfileInv
  <2> QED
    BY <2>1, <2>2
<1>2. CASE Tick
  BY <1>0, <1>2, ProfileOfOther DEF Tick
<1>3. ASSUME NEW g \in Flights, Open(g) PROVE ProfileInv(f)'
  <2>1. pc[g] \in Files
    BY <1>0, <1>3, ActiveIs DEF Open
  <2>2. CASE g # f
    <3>1. opened'[f] = opened[f]
      BY <1>0, <1>3, <2>2 DEF Open, TypeOK
    <3>2. \E content \in {g, Empty, Mixed} : disk' = [disk EXCEPT ![Path(g)] = content]
      BY <1>3 DEF Open
    <3> QED
      BY <1>0, <1>3, <2>1, <2>2, <3>1, <3>2, ProfileOfOther DEF Open
  <2>3. CASE g = f
    <3>1. UNCHANGED <<pc, bin, stamp, skipped, before>> /\ disk' = [disk EXCEPT ![Path(f)] = Empty]
      BY <1>3, <2>3 DEF Open, clockVars
    <3>2. Path(f) \in Dirs \X Names /\ before[f] \subseteq Flights
      BY <1>0, <2>1, <2>3, PathIs DEF Fits
    <3>3. Path(f)' = Path(f) /\ ProfiledSoFar(f)' = ProfiledSoFar(f) /\ Alone(f)' = Alone(f)
      BY <3>1 DEF Path, CaptureDir, ProfiledSoFar, Bins, Alone
    <3>4. disk'[Path(f)'] = Empty /\ Empty \notin before[f] \cup {Absent}
      BY <1>0, <3>1, <3>2, <3>3 DEF TypeOK
    <3>5. ASSUME pc[f] \in InProfile, NEW name \in ProfiledSoFar(f) \ skipped[f]
          PROVE  Holds(f, disk[<<ProfileDir(TargetID(f)), name>>])'
      <4>1. Holds(f, disk[<<ProfileDir(TargetID(f)), name>>])
        BY <1>0, <3>5 DEF ProfileInv
      <4>2. Path(f)[2] \notin ProfiledSoFar(f)
        <5>1. CASE pc[f] = "promote"
          BY <1>0, <5>1 DEF Path, ProfiledSoFar, Bin, TypeOK
        <5>2. CASE pc[f] # "promote"
          <6>1. Path(f)[2] = <<pc[f], 0>>
            BY <3>5, <5>2 DEF Path, InProfile, InCapture
          <6> QED
            BY <3>5, <5>2, <6>1 DEF ProfiledSoFar, Bins, Bin, Meta, Hello, Manifest, InProfile, Files
        <5> QED
          BY <5>1, <5>2
      <4>3. Path(f) # <<ProfileDir(TargetID(f)), name>>
        BY <3>5, <4>2
      <4>4. disk'[<<ProfileDir(TargetID(f)), name>>] = disk[<<ProfileDir(TargetID(f)), name>>]
        BY <1>0, <3>1, <4>3 DEF TypeOK
      <4> QED
        BY <3>1, <3>3, <4>1, <4>4 DEF Holds
    <3>6. pc[f] # "ok"
      BY <2>1, <2>3 DEF Files
    <3> QED
      BY <1>0, <3>1, <3>3, <3>4, <3>5, <3>6 DEF ProfileInv
  <2> QED
    BY <2>2, <2>3
<1>4. ASSUME NEW g \in Flights, Write(g) PROVE ProfileInv(f)'
  <2>1. pc[g] \in Files
    BY <1>0, <1>4, ActiveIs DEF Write
  <2>2. CASE g = f
    BY <1>0, <1>4, <2>1, <2>2, ProfileOfWriter DEF Write
  <2>3. CASE g # f
    <3>1. \E content \in {g, Empty, Mixed} : disk' = [disk EXCEPT ![Path(g)] = content]
      BY <1>4 DEF Write, Written
    <3>2. /\ pc'[f] = pc[f] /\ bin'[f] = bin[f] /\ opened'[f] = opened[f]
          /\ \A h \in Flights : pc[h] # "new" => pc'[h] # "new"
      BY <1>0, <1>4, <2>1, <2>3, GoesOn DEF Write, GoOn, TypeOK, Files
    <3> QED
      BY <1>0, <1>4, <2>1, <2>3, <3>1, <3>2, ProfileOfOther DEF Write
  <2> QED
    BY <2>2, <2>3
<1>5. ASSUME NEW g \in Flights, WriteFails(g) PROVE ProfileInv(f)'
  <2>1. pc[g] \in Files /\ UNCHANGED <<disk, before>>
    BY <1>0, <1>5, ActiveIs DEF WriteFails
  <2>2. CASE pc[g] \in Ignored /\ g = f
    BY <1>0, <1>5, <2>1, <2>2, ProfileOfWriter DEF WriteFails
  <2>3. CASE pc[g] \in Ignored /\ g # f
    <3>1. /\ pc'[f] = pc[f] /\ bin'[f] = bin[f] /\ opened'[f] = opened[f] /\ skipped'[f] = skipped[f]
          /\ \A h \in Flights : pc[h] # "new" => pc'[h] # "new"
      BY <1>0, <1>5, <2>1, <2>3, GoesOn DEF WriteFails, GoOn, TypeOK, Files
    <3> QED
      BY <1>0, <2>1, <3>1, ProfileOfOther
  <2>4. CASE pc[g] \notin Ignored
    <3>1. /\ UNCHANGED <<bin, skipped>> /\ (opened'[f] => opened[f])
          /\ pc'[f] = pc[f] \/ pc'[f] \in Ended \ {"ok"}
          /\ \A h \in Flights : pc[h] # "new" => pc'[h] # "new"
      BY <1>0, <1>5, <2>1, <2>4 DEF WriteFails, TypeOK, Files, Ended
    <3> QED
      BY <1>0, <2>1, <3>1, ProfileOfOther
  <2> QED
    BY <2>2, <2>3, <2>4
<1>6. CASE Kill
  <2>1. /\ UNCHANGED <<disk, bin, skipped, before>> /\ opened'[f] = FALSE
        /\ pc'[f] = pc[f] \/ pc'[f] \in Ended \ {"ok"}
        /\ \A h \in Flights : pc[h] # "new" => pc'[h] # "new"
    BY <1>6 DEF Kill, clockVars, Active, Ended
  <2> QED
    BY <1>0, <2>1, ProfileOfOther
<1>7. CASE UNCHANGED vars
  BY <1>0, <1>7, ProfileOfOther DEF vars, clockVars
<1> QED
  BY <1>1, <1>2, <1>3, <1>4, <1>5, <1>6, <1>7 DEF Next

LEMMA ProfileInvariant == Spec => []ProfileInvs
<1>1. Init => ProfileInvs
  BY TypeInit, ProfileInit DEF ProfileInvs
<1> QED
  BY <1>1, ProfileStep, PTL DEF Spec

\* No file a promotion wrote is of a flight that had ended before it began, for
\* any flights, faults, kills and promotions at once (main.go:207-353).
THEOREM PromotionStays == Spec => []PromotionIsNotUndone
<1>1. ProfileInvs => PromotionIsNotUndone
  BY KeptIs DEF ProfileInvs, ProfileInv, PromotionIsNotUndone, Holds
<1> QED
  BY <1>1, ProfileInvariant, PTL

\* The last promotion, if it was alone and ended well, makes a torn profile
\* whole again, for any flights, faults and kills before it (main.go:207-353).
THEOREM LastPromotionRepairs == Spec => []PromotionRepairs
<1>1. ProfileInvs => PromotionRepairs
  BY KeptIs DEF ProfileInvs, ProfileInv, PromotionRepairs, Holds
<1> QED
  BY <1>1, ProfileInvariant, PTL
=============================================================================
