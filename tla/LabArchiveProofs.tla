-------------------------- MODULE LabArchiveProofs --------------------------
(***************************************************************************)
(* Proofs about LabArchive: its types; that a row is added only when its    *)
(* directory is whole, whatever run fails and wherever labctl is killed;    *)
(* and, until the first fault, the labels of the archive and that no hello  *)
(* is lost.  The last one holds where no two JA4s share their first 12      *)
(* characters, which archive.go relies on.                                  *)
(***************************************************************************)
EXTENDS LabArchive, TLAPS

\* A directory was chosen where one is used.
TypeInv == TypeOK /\ (pc \in Copying \cup {"register"} => archID \in ArchIDs)

LEMMA TypeInit == Init => TypeInv
BY ArchiveAssumption
   DEF Init, TypeInv, TypeOK, Profile, Contents, Slot, NoProfile, NoSlot, Places, Copying

\* A fault is counted, its kinds are kept, and what was seen stays seen.
LEMMA FaultTypes ==
  ASSUME TypeOK, NEW kinds, Fault(kinds)
  PROVE  /\ faults' \in 0..MaxFaults /\ seen' \subseteq Faults
         /\ seen' = seen \cup kinds
BY ArchiveAssumption DEF TypeOK, Fault

\* The id BaseID and FreeID choose is one of ArchIDs.
LEMMA IDTypes ==
  ASSUME TypeOK, SlotJA4(before) \in Hellos
  PROVE  /\ BaseID(before) \in ArchIDs
         /\ FreeID(BaseID(before), SlotJA4(before)) \in ArchIDs
<1>1. BaseID(before) \in ArchIDs
  BY DEF TypeOK, BaseID, ArchIDs, Prefixes, Profile, Slot
<1>2. Prefix[SlotJA4(before)] \in Prefixes
  BY DEF Prefixes
<1>3. [BaseID(before) EXCEPT !.suffix = Prefix[SlotJA4(before)]] \in ArchIDs
  BY <1>1, <1>2 DEF ArchIDs
<1> QED
  BY <1>1, <1>3 DEF FreeID

LEMMA SlotTypes ==
  ASSUME TypeOK
  PROVE  /\ SlotJA4(before) \in Hellos \cup {None}
         /\ \A t \in Targets : profile[t] \in Profile /\ Claimed(profile[t]) \in Hellos \cup {None}
BY DEF TypeOK, SlotJA4, Claimed, Profile, Contents, Slot

LEMMA NoProfileType == NoProfile \in Profile /\ NoSlot \in Slot
BY DEF NoProfile, NoSlot, Profile, Contents, Slot

\* A write of one file of a profile.
LEMMA SetFileTypes ==
  ASSUME NEW p \in Profile, NEW file \in {"hello", "ja4"}, NEW content \in Contents
  PROVE  LET q == SetFile(p, file, content) IN
         /\ q \in Profile /\ q.slot = p.slot
         /\ file = "hello" => q.hello = content /\ q.ja4 = p.ja4
         /\ file = "ja4" => q.hello = p.hello /\ q.ja4 = content
BY DEF SetFile, Profile

\* A write of a slot.json, whole or broken off, changes nothing else.
SlotsOnly ==
  /\ profile' \in [Targets -> Profile]
  /\ \A t \in Targets : /\ profile'[t].hello = profile[t].hello /\ profile'[t].ja4 = profile[t].ja4
                        /\ t # target => profile'[t] = profile[t]

LEMMA OneSlot ==
  ASSUME TypeOK, NEW slot \in Slot, profile' = [profile EXCEPT ![target].slot = slot]
  PROVE  SlotsOnly /\ profile'[target].slot = slot
BY DEF TypeOK, SlotsOnly, Profile

LEMMA WriteSlotOnly ==
  ASSUME TypeOK, NEW slot \in Slot, WriteSlot(slot)
  PROVE  /\ SlotsOnly
         /\ faults' \in 0..MaxFaults /\ seen' \subseteq Faults
         /\ seen' \in {seen, seen \cup {"ignored"}}
<1>1. CASE profile' = [profile EXCEPT ![target].slot = slot] /\ NoFault
  BY <1>1, OneSlot DEF NoFault, TypeOK
<1>2. CASE profile' = profile /\ Fault({"ignored"})
  <2>1. SlotsOnly
    BY <1>2 DEF SlotsOnly, TypeOK
  <2> QED
    BY <1>2, <2>1, FaultTypes
<1>3. CASE profile' = [profile EXCEPT ![target].slot = NoSlot] /\ Fault({"ignored"})
  <2>1. SlotsOnly
    BY <1>3, OneSlot, NoProfileType
  <2> QED
    BY <1>3, <2>1, FaultTypes
<1> QED
  BY <1>1, <1>2, <1>3 DEF WriteSlot

LEMMA CrashSlotOnly ==
  ASSUME TypeOK, Crash
  PROVE  SlotsOnly
<1>1. CASE profile' = profile
  BY <1>1 DEF SlotsOnly, TypeOK
<1>2. CASE profile' = [profile EXCEPT ![target].slot = NoSlot]
  BY <1>2, OneSlot, NoProfileType
<1> QED
  BY <1>1, <1>2 DEF Crash

\* What the slot.json of the target gets.
LEMMA NewSlotTypes ==
  ASSUME TypeOK
  PROVE  LET p == profile[target] IN
         /\ [ja4 |-> Claimed(p), major |-> IF p.slot.major = 0 THEN before.slot.major ELSE p.slot.major] \in Slot
         /\ [p.slot EXCEPT !.ja4 = Claimed(p)] \in Slot
         /\ \A m \in Majors \cup {0} :
              [ja4 |-> Claimed(p), major |-> IF m = 0 THEN p.slot.major ELSE m] \in Slot
BY SlotTypes DEF TypeOK, Profile, Slot

\* What is copied, and what a copy that is broken off leaves.
LEMMA CopyTypes ==
  ASSUME TypeInv, pc \in Copying
  PROVE  CopyOfSnapshot \in Profile
BY SlotTypes DEF TypeInv, TypeOK, CopyOfSnapshot, Profile, Slot

LEMMA BrokenOffTypes ==
  ASSUME TypeInv, pc \in Copying, NEW a \in BrokenOff
  PROVE  /\ a \in [ArchIDs -> Profile]
         /\ \A id \in ArchIDs \ {archID} : a[id] = archive[id]
         /\ pc = "hello" => a[archID].hello \in {archive[archID].hello, Broken} /\ a[archID].ja4 = archive[archID].ja4
         /\ pc = "hello" => a[archID].slot = archive[archID].slot
         /\ pc = "profile" => a[archID].hello = archive[archID].hello
         /\ pc = "profile" => a[archID].ja4 \in {archive[archID].ja4, Broken, CopyOfSnapshot.ja4}
         /\ pc = "label" => a[archID].hello = archive[archID].hello /\ a[archID].ja4 \in {archive[archID].ja4, Broken}
<1> DEFINE p == archive[archID]
           hello == {p.hello} \cup (IF pc = "hello" THEN {Broken} ELSE {})
           ja4 == {p.ja4} \cup (IF pc = "profile" THEN {Broken, CopyOfSnapshot.ja4} ELSE {})
                          \cup (IF pc = "label" /\ Claimed(p) # None THEN {Broken} ELSE {})
           slot == {p.slot} \cup (IF pc = "label" THEN {NoSlot, CopyOfSnapshot.slot} ELSE {})
<1>1. PICK q \in [hello : hello, ja4 : ja4, slot : slot] : a = [archive EXCEPT ![archID] = q]
  BY DEF BrokenOff
<1>2. archID \in ArchIDs /\ p \in Profile /\ CopyOfSnapshot \in Profile
  BY CopyTypes DEF TypeInv, TypeOK
<1>3. hello \subseteq Contents /\ ja4 \subseteq Contents /\ slot \subseteq Slot
  BY <1>2, NoProfileType DEF Profile, Contents
<1>4. q \in Profile
  BY <1>3 DEF Profile
<1>5. a[archID] = q
  BY <1>1, <1>2 DEF TypeInv, TypeOK
<1>6. q.hello \in hello /\ q.ja4 \in ja4 /\ q.slot \in slot
  OBVIOUS
<1>7. a \in [ArchIDs -> Profile] /\ \A id \in ArchIDs \ {archID} : a[id] = archive[id]
  BY <1>1, <1>4 DEF TypeInv, TypeOK
<1> QED
  BY <1>5, <1>6, <1>7

LEMMA TypeStep == TypeInv /\ [Next]_vars => TypeInv'
<1> SUFFICES ASSUME TypeInv, [Next]_vars PROVE TypeInv'
  OBVIOUS
<1> USE ArchiveAssumption DEF TypeInv, TypeOK, labctl, NoFault
<1>1. ASSUME NEW t \in Targets, Snapshot(t) PROVE TypeInv'
  <2>1. before' \in Profile
    BY <1>1, NoProfileType DEF Snapshot
  <2> QED
    BY <1>1, <2>1 DEF Snapshot, Places, Copying
<1>2. ASSUME NEW t \in Targets, NEW h \in Hellos, Accept(t, h) PROVE TypeInv'
  <2>1. serving' \subseteq Handler
    <3>1. [target |-> t, hello |-> h, file |-> "hello", open |-> FALSE] \in Handler
      BY DEF Handler
    <3> QED
      BY <1>2, <3>1 DEF Accept
  <2>2. faults' \in 0..MaxFaults /\ seen' \subseteq Faults
    BY <1>2, FaultTypes DEF Accept
  <2> QED
    BY <1>2, <2>1, <2>2 DEF Accept
<1>3. ASSUME NEW c \in serving, Open(c) PROVE TypeInv'
  <2>1. c \in Handler /\ [c EXCEPT !.open = TRUE] \in Handler
    BY DEF Handler
  <2>2. SetFile(profile[c.target], c.file, Broken) \in Profile
    BY <2>1, SetFileTypes DEF Handler, Contents
  <2> QED
    BY <1>3, <2>1, <2>2 DEF Open
<1>4. ASSUME NEW c \in serving, Fill(c) PROVE TypeInv'
  <2>1. c \in Handler /\ [c EXCEPT !.file = "ja4", !.open = FALSE] \in Handler
    BY DEF Handler
  <2>2. \A content \in Filled(c) : SetFile(profile[c.target], c.file, content) \in Profile
    <3>1. Filled(c) \subseteq Contents
      BY <2>1 DEF Filled, Handler, Contents
    <3> QED
      BY <2>1, <3>1, SetFileTypes DEF Handler
  <2>3. profile' \in [Targets -> Profile]
    BY <1>4, <2>1, <2>2 DEF Fill
  <2>4. serving' \subseteq Handler
    BY <1>4, <2>1 DEF Fill
  <2> QED
    BY <1>4, <2>3, <2>4 DEF Fill
<1>5. ASSUME NEW c \in serving, HandlerFails(c) PROVE TypeInv'
  <2>1. faults' \in 0..MaxFaults /\ seen' \subseteq Faults
    BY <1>5, FaultTypes DEF HandlerFails
  <2> QED
    BY <1>5, <2>1 DEF HandlerFails
<1>6. CASE RunSucceeds \/ RunFails
  <2>1. faults' \in 0..MaxFaults /\ seen' \subseteq Faults
    BY <1>6, FaultTypes DEF RunSucceeds, RunFails
  <2> QED
    BY <1>6, <2>1, NoProfileType DEF RunSucceeds, RunFails, Places, Copying
<1>7. CASE KeepSlot
  <2>1. SlotsOnly /\ faults' \in 0..MaxFaults /\ seen' \subseteq Faults
    <3>1. CASE before = NoProfile
      BY <1>7, <3>1 DEF KeepSlot, SlotsOnly
    <3>2. CASE before # NoProfile
      BY <1>7, <3>2, WriteSlotOnly, NewSlotTypes DEF KeepSlot
    <3> QED
      BY <3>1, <3>2
  <2> QED
    BY <1>7, <2>1 DEF KeepSlot, SlotsOnly, Places, Copying
<1>8. CASE ChooseID
  <2>1. SlotJA4(before) \in Hellos
    BY <1>8, SlotTypes DEF ChooseID, Changed
  <2>2. archID' \in ArchIDs
    BY <1>8, <2>1, IDTypes DEF ChooseID
  <2> QED
    BY <1>8, <2>2 DEF ChooseID, Places, Copying
<1>9. CASE CopyHello \/ CopyProfile
  <2>1. pc \in Copying /\ archID \in ArchIDs /\ CopyOfSnapshot \in Profile
    BY <1>9, CopyTypes DEF CopyHello, CopyProfile, Copying
  <2>2. archive' \in [ArchIDs -> Profile]
    BY <1>9, <2>1 DEF CopyHello, CopyProfile, Profile
  <2> QED
    BY <1>9, <2>1, <2>2 DEF CopyHello, CopyProfile, Places, Copying
<1>10. CASE CopyFails
  <2>1. pc \in Copying
    BY <1>10 DEF CopyFails, Copying
  <2>2. archive' \in [ArchIDs -> Profile]
    BY <1>10, <2>1, BrokenOffTypes DEF CopyFails
  <2>3. faults' \in 0..MaxFaults /\ seen' \subseteq Faults
    BY <1>10, FaultTypes DEF CopyFails
  <2> QED
    BY <1>10, <2>2, <2>3 DEF CopyFails, Places, Copying
<1>11. CASE Label
  <2>1. pc \in Copying /\ archID \in ArchIDs /\ CopyOfSnapshot \in Profile
    BY <1>11, CopyTypes DEF Label, Copying
  <2>2. archive' \in [ArchIDs -> Profile]
    <3>1. CASE archive' = [archive EXCEPT ![archID].slot = CopyOfSnapshot.slot]
      BY <2>1, <3>1 DEF Profile
    <3>2. CASE archive' \in BrokenOff
      BY <2>1, <3>2, BrokenOffTypes
    <3> QED
      BY <1>11, <3>1, <3>2 DEF Label
  <2>3. faults' \in 0..MaxFaults /\ seen' \subseteq Faults
    BY <1>11, FaultTypes DEF Label
  <2> QED
    BY <1>11, <2>1, <2>2, <2>3 DEF Label, Places, Copying
<1>12. CASE Register
  BY <1>12 DEF Register, Places, Copying
<1>13. CASE RegisterFails
  <2>1. faults' \in 0..MaxFaults /\ seen' \subseteq Faults
    BY <1>13, FaultTypes DEF RegisterFails
  <2>2. rows' \subseteq ArchIDs
    BY <1>13 DEF RegisterFails, RowsBrokenOff
  <2> QED
    BY <1>13, <2>1, <2>2 DEF RegisterFails, Places, Copying
<1>14. CASE SlotAfterArchive
  <2>1. SlotsOnly /\ faults' \in 0..MaxFaults /\ seen' \subseteq Faults
    BY <1>14, WriteSlotOnly, NewSlotTypes DEF SlotAfterArchive
  <2> QED
    BY <1>14, <2>1 DEF SlotAfterArchive, SlotsOnly, Places, Copying
<1>15. ASSUME NEW m \in Majors \cup {0}, UpdateSlot(m) PROVE TypeInv'
  <2>1. SlotsOnly /\ faults' \in 0..MaxFaults /\ seen' \subseteq Faults
    <3>1. CASE profile[target].hello = None
      BY <1>15, <3>1 DEF UpdateSlot, SlotsOnly
    <3>2. CASE profile[target].hello # None
      BY <1>15, <3>2, WriteSlotOnly, NewSlotTypes DEF UpdateSlot
    <3> QED
      BY <3>1, <3>2
  <2>2. reported' \subseteq Targets \X Hellos
    BY <1>15 DEF UpdateSlot
  <2> QED
    BY <1>15, <2>1, <2>2, NoProfileType DEF UpdateSlot, SlotsOnly, Places, Copying
<1>16. CASE Crash
  <2>1. faults' \in 0..MaxFaults /\ seen' \subseteq Faults
    BY <1>16, FaultTypes DEF Crash
  <2>2. rows' \subseteq ArchIDs
    BY <1>16 DEF Crash, RowsBrokenOff
  <2>3. archive' \in [ArchIDs -> Profile]
    BY <1>16, BrokenOffTypes DEF Crash
  <2>4. SlotsOnly
    BY <1>16, CrashSlotOnly
  <2> QED
    BY <1>16, <2>1, <2>2, <2>3, <2>4, NoProfileType DEF Crash, SlotsOnly, Places, Copying
<1>17. CASE UNCHANGED vars
  BY <1>17 DEF vars
<1> QED
  BY <1>1, <1>2, <1>3, <1>4, <1>5, <1>6, <1>7, <1>8, <1>9, <1>10, <1>11, <1>12, <1>13, <1>14, <1>15, <1>16, <1>17
     DEF Next

\* Every variable of labctl's model has its type.
THEOREM TypeCorrect == Spec => []TypeOK
<1>1. TypeInv => TypeOK
  BY DEF TypeInv
<1> QED
  BY <1>1, TypeInit, TypeStep, PTL DEF Spec

-----------------------------------------------------------------------------
(* A row is added when its directory is whole                              *)

\* Every failure labctl says so of, and every kill; but no ignored failure, and
\* the capture server serves one connection at a time, within labctl's runs.
Sound == seen \cap {"ignored", "server", "late", "overlap"} = {}

\* A handler is of labctl's run; what it has emptied is empty, and what it has
\* written is there.
ServingInv == \A c \in serving :
  /\ serving = {c} /\ pc = "run" /\ c.target = target
  /\ c.file = "ja4" => profile[target].hello = c.hello
  /\ c.open /\ c.file = "hello" => profile[target].hello = Broken
  /\ c.open /\ c.file = "ja4" => profile[target].ja4 = Broken

\* Profiles are whole or missing where no handler is at work.
SlotsWhole == \A t \in Targets :
  \/ t = target /\ serving # {}
  \/ profile[t].ja4 = profile[t].hello /\ profile[t].hello # Broken

BeforeWhole ==
  /\ before.ja4 = before.hello /\ before.hello # Broken
  /\ before.hello = None => before = NoProfile
  /\ pc \in Copying => before.hello # None

\* A directory with the base id is copied to once, so that its profile.json says
\* nothing of a hello that is not there.
BaseDirs == \A id \in ArchIDs : id.suffix = None =>
  /\ archive[id].hello = None => archive[id].ja4 = None
  /\ archive[id].ja4 \in Hellos => Whole(archive[id])

\* How much of the directory is written.
CopyInv ==
  /\ pc = "hello" /\ archID.suffix = None => archive[archID].hello = None
  /\ pc \in {"profile", "label"} => archive[archID].hello = before.hello
  /\ pc = "label" => archive[archID].ja4 = before.hello
  /\ pc = "register" => Whole(archive[archID])

WholeInv == Sound => ServingInv /\ SlotsWhole /\ BeforeWhole /\ BaseDirs /\ CopyInv

LEMMA WholeInit == Init => WholeInv
BY ArchiveAssumption
   DEF Init, WholeInv, ServingInv, SlotsWhole, BeforeWhole, BaseDirs, CopyInv, NoProfile, Copying

\* What was seen stays seen.
LEMMA SeenGrows ==
  ASSUME [Next]_vars
  PROVE  seen \subseteq seen'
<1>1. ASSUME NEW kinds, Fault(kinds) PROVE seen \subseteq seen'
  BY <1>1 DEF Fault
<1>2. ASSUME NEW slot, WriteSlot(slot) PROVE seen \subseteq seen'
  BY <1>1, <1>2 DEF WriteSlot, NoFault
<1> QED
  BY <1>1, <1>2 DEF Next, vars, NoFault, Snapshot, Accept, Open, Fill, HandlerFails, RunSucceeds, RunFails, KeepSlot,
     ChooseID, CopyHello, CopyProfile, CopyFails, Label, Register, RegisterFails, SlotAfterArchive,
     UpdateSlot, Crash

\* Fault(kinds) keeps Sound only for kinds labctl answers for.
LEMMA SoundFault ==
  ASSUME NEW kinds, Fault(kinds), Sound'
  PROVE  kinds \cap {"ignored", "server", "late", "overlap"} = {}
BY DEF Fault, Sound

LEMMA SlotsOnlyWhole ==
  ASSUME TypeInv, SlotsWhole, SlotsOnly, UNCHANGED <<target, serving>>
  PROVE  SlotsWhole'
BY DEF SlotsWhole, SlotsOnly

LEMMA WholeStep == TypeInv /\ WholeInv /\ [Next]_vars => WholeInv'
<1> SUFFICES ASSUME TypeInv, WholeInv, [Next]_vars, Sound'
             PROVE  ServingInv' /\ SlotsWhole' /\ BeforeWhole' /\ BaseDirs' /\ CopyInv'
  BY DEF WholeInv
<1>0. Sound /\ ServingInv /\ SlotsWhole /\ BeforeWhole /\ BaseDirs /\ CopyInv
  BY SeenGrows DEF Sound, WholeInv
<1> DEFINE P == ServingInv' /\ SlotsWhole' /\ BeforeWhole' /\ BaseDirs' /\ CopyInv'
<1>i. ASSUME pc # "run" PROVE serving = {}
  BY <1>0, <1>i DEF ServingInv
<1>1. ASSUME NEW t \in Targets, Snapshot(t) PROVE P
  <2>1. /\ pc = "idle" /\ pc' = "run" /\ serving = {} /\ UNCHANGED <<profile, serving, archive>>
        /\ before' = IF profile[t].hello = None THEN NoProfile ELSE profile[t]
    BY <1>1, <1>i DEF Snapshot
  <2>2. profile[t].ja4 = profile[t].hello /\ profile[t].hello # Broken
    BY <1>0, <2>1 DEF SlotsWhole
  <2>3. BeforeWhole'
    BY <2>1, <2>2, ArchiveAssumption DEF BeforeWhole, NoProfile, Copying
  <2> QED
    BY <1>0, <2>1, <2>3 DEF ServingInv, SlotsWhole, BaseDirs, CopyInv
<1>2. ASSUME NEW t \in Targets, NEW h \in Hellos, Accept(t, h) PROVE P
  <2> DEFINE c == [target |-> t, hello |-> h, file |-> "hello", open |-> FALSE]
  <2>1. serving = {} /\ pc = "run" /\ t = target
    BY <1>2, SoundFault DEF Accept
  <2>2. serving' = {c} /\ UNCHANGED <<profile, pc, archive, target, before, archID>>
    BY <1>2, <2>1 DEF Accept, labctl
  <2>3. c.target = t /\ c.file = "hello" /\ c.open = FALSE
    OBVIOUS
  <2> HIDE DEF c
  <2>4. SlotsWhole' /\ ServingInv'
    BY <1>0, <2>1, <2>2, <2>3 DEF SlotsWhole, ServingInv
  <2> QED
    BY <1>0, <2>2, <2>4 DEF BeforeWhole, BaseDirs, CopyInv
<1>3. ASSUME NEW c \in serving, Open(c) PROVE P
  <2>1. /\ serving = {c} /\ pc = "run" /\ c.target = target /\ c \in Handler
        /\ c.file = "ja4" => profile[target].hello = c.hello
    BY <1>0 DEF ServingInv, TypeInv, TypeOK
  <2> DEFINE d == [c EXCEPT !.open = TRUE]
  <2>2. d.target = target /\ d.hello = c.hello /\ d.file = c.file /\ d \in Handler
    BY <2>1 DEF Handler
  <2>3. /\ serving' = {d} /\ UNCHANGED <<pc, archive, target, before, archID>>
        /\ profile' = [profile EXCEPT ![target] = SetFile(profile[target], c.file, Broken)]
    BY <1>3, <2>1 DEF Open, labctl
  <2> HIDE DEF d
  <2>4. /\ \A t \in Targets : t # target => profile'[t] = profile[t]
        /\ profile'[target] = SetFile(profile[target], c.file, Broken)
    BY <2>3 DEF TypeInv, TypeOK
  <2>5. /\ c.file = "hello" => profile'[target].hello = Broken
        /\ c.file = "ja4" => profile'[target].ja4 = Broken /\ profile'[target].hello = c.hello
    BY <2>1, <2>4, SetFileTypes DEF TypeInv, TypeOK, Handler, Contents
  <2>6. ServingInv'
    BY <2>1, <2>2, <2>3, <2>5 DEF ServingInv, Handler
  <2>7. SlotsWhole'
    BY <1>0, <2>3, <2>4 DEF SlotsWhole
  <2> QED
    BY <1>0, <2>3, <2>6, <2>7 DEF BeforeWhole, BaseDirs, CopyInv
<1>4. ASSUME NEW c \in serving, Fill(c) PROVE P
  <2>1. /\ serving = {c} /\ pc = "run" /\ c.target = target /\ c.open /\ c \in Handler
        /\ c.file = "ja4" => profile[target].hello = c.hello
        /\ c.file = "hello" => profile[target].hello = Broken
        /\ c.file = "ja4" => profile[target].ja4 = Broken
    BY <1>0, <1>4 DEF ServingInv, TypeInv, TypeOK, Fill
  <2>2. SetFile(profile[target], c.file, Broken) = profile[target]
    BY <2>1 DEF SetFile, Handler, TypeInv, TypeOK, Profile
  <2>3. Filled(c) = {c.hello}
    BY <2>1, <2>2 DEF Filled
  <2>4. profile' = [profile EXCEPT ![target] = SetFile(profile[target], c.file, c.hello)]
    BY <1>4, <2>1, <2>3 DEF Fill
  <2>5. /\ \A t \in Targets : t # target => profile'[t] = profile[t]
        /\ profile'[target] = SetFile(profile[target], c.file, c.hello)
    BY <2>4 DEF TypeInv, TypeOK
  <2>6. UNCHANGED <<pc, archive, target, before, archID>>
    BY <1>4 DEF Fill, labctl
  <2>7. /\ profile'[target].hello = c.hello
        /\ c.file = "ja4" => profile'[target].ja4 = c.hello
    BY <2>1, <2>5, SetFileTypes DEF TypeInv, TypeOK, Handler, Contents
  <2>8. CASE c.file = "hello"
    <3> DEFINE d == [c EXCEPT !.file = "ja4", !.open = FALSE]
    <3>1. serving' = {d}
      BY <1>4, <2>1, <2>8 DEF Fill
    <3>2. d.target = target /\ d.hello = c.hello /\ d.file = "ja4" /\ d.open = FALSE
      BY <2>1 DEF Handler
    <3> HIDE DEF d
    <3>3. ServingInv'
      BY <2>1, <2>6, <2>7, <3>1, <3>2 DEF ServingInv
    <3>4. SlotsWhole'
      BY <1>0, <2>5, <2>6, <3>1 DEF SlotsWhole
    <3> QED
      BY <1>0, <2>6, <3>3, <3>4 DEF BeforeWhole, BaseDirs, CopyInv
  <2>9. CASE c.file = "ja4"
    <3>1. serving' = {}
      BY <1>4, <2>1, <2>9 DEF Fill
    <3>2. c.hello # Broken
      BY <2>1, ArchiveAssumption DEF Handler
    <3>3. SlotsWhole'
      BY <1>0, <2>1, <2>5, <2>6, <2>7, <2>9, <3>1, <3>2 DEF SlotsWhole
    <3> QED
      BY <1>0, <2>6, <3>1, <3>3 DEF ServingInv, BeforeWhole, BaseDirs, CopyInv
  <2> QED
    BY <2>1, <2>8, <2>9 DEF Handler
<1>5. ASSUME NEW c \in serving, HandlerFails(c) PROVE P
  BY <1>5, SoundFault DEF HandlerFails
<1>6. CASE RunSucceeds \/ RunFails
  <2>1. serving = {}
    BY <1>6, SoundFault DEF RunSucceeds, RunFails, LeftBehind
  <2>2. /\ pc' \in {"idle", "compare"} /\ before' \in {before, NoProfile}
        /\ UNCHANGED <<profile, serving, archive, target, archID>>
    BY <1>6 DEF RunSucceeds, RunFails, labctl
  <2>3. BeforeWhole'
    BY <1>0, <2>2, ArchiveAssumption DEF BeforeWhole, NoProfile, Copying
  <2> QED
    BY <1>0, <2>1, <2>2, <2>3 DEF ServingInv, SlotsWhole, BaseDirs, CopyInv
<1>7. CASE KeepSlot
  <2>1. serving = {} /\ pc' = "update" /\ UNCHANGED <<serving, archive, target, before, archID>>
    BY <1>7, <1>i DEF KeepSlot, labctl
  <2>2. SlotsOnly
    <3>1. CASE before = NoProfile
      BY <1>7, <3>1 DEF KeepSlot, SlotsOnly, TypeInv, TypeOK
    <3>2. CASE before # NoProfile
      BY <1>7, <3>2, WriteSlotOnly, NewSlotTypes DEF KeepSlot, TypeInv
    <3> QED
      BY <3>1, <3>2
  <2>3. SlotsWhole'
    BY <1>0, <2>1, <2>2, SlotsOnlyWhole
  <2> QED
    BY <1>0, <2>1, <2>3 DEF ServingInv, BeforeWhole, BaseDirs, CopyInv, Copying
<1>8. CASE ChooseID
  <2> DEFINE id == BaseID(before)
  <2>1. /\ serving = {} /\ UNCHANGED <<profile, serving, archive, target, before>>
        /\ SlotJA4(before) \in Hellos /\ archID' = FreeID(id, SlotJA4(before))
        /\ pc' = IF archive[id].hello # None /\ Claimed(archive[id]) = SlotJA4(before)
                 THEN "register" ELSE "hello"
    BY <1>8, <1>i, SlotTypes DEF ChooseID, Changed, TypeInv
  <2>2. before.hello # None
    BY <1>0, <2>1, ArchiveAssumption DEF BeforeWhole, SlotJA4, Claimed, NoProfile, NoSlot
  <2>3. id \in ArchIDs /\ id.suffix = None
    BY <2>1, IDTypes DEF BaseID, TypeInv
  <2>4. CopyInv'
    <3>1. CASE archive[id].hello # None /\ Claimed(archive[id]) = SlotJA4(before)
      <4>1. archID' = id /\ pc' = "register"
        BY <2>1, <3>1 DEF FreeID
      <4>2. archive[id].ja4 \in Hellos
        BY <2>1, <3>1, ArchiveAssumption DEF Claimed
      <4> QED
        BY <1>0, <2>1, <2>3, <4>1, <4>2 DEF CopyInv, BaseDirs, Whole
    <3>2. CASE ~(archive[id].hello # None /\ Claimed(archive[id]) = SlotJA4(before))
      <4>1. pc' = "hello"
        BY <2>1, <3>2
      <4>2. archive[id].hello = None \/ archID' = [id EXCEPT !.suffix = Prefix[SlotJA4(before)]]
        BY <2>1, <3>2 DEF FreeID
      <4>3. archive[id].hello = None => archID' = id
        BY <2>1 DEF FreeID
      <4>4. [id EXCEPT !.suffix = Prefix[SlotJA4(before)]].suffix # None
        BY <2>1, <2>3, ArchiveAssumption DEF ArchIDs
      <4> QED
        BY <2>1, <4>1, <4>2, <4>3, <4>4 DEF CopyInv
    <3> QED
      BY <3>1, <3>2
  <2> QED
    BY <1>0, <2>1, <2>2, <2>4 DEF ServingInv, SlotsWhole, BeforeWhole, BaseDirs
<1>c. ASSUME pc \in Copying
      PROVE  /\ archID \in ArchIDs /\ before.hello \in Hellos /\ before.ja4 = before.hello
             /\ CopyOfSnapshot.hello = before.hello /\ CopyOfSnapshot.ja4 = before.hello
  <2>1. archID \in ArchIDs /\ before.hello # None /\ before.hello # Broken /\ before.ja4 = before.hello
    BY <1>0, <1>c DEF TypeInv, BeforeWhole
  <2> QED
    BY <2>1 DEF TypeInv, TypeOK, Profile, Contents, CopyOfSnapshot
<1>9. CASE CopyHello
  <2>1. /\ pc = "hello" /\ pc' = "profile" /\ serving = {} /\ archID \in ArchIDs /\ before.hello \in Hellos
        /\ archive' = [archive EXCEPT ![archID].hello = before.hello]
        /\ UNCHANGED <<profile, serving, target, before, archID>>
    BY <1>9, <1>c, <1>i DEF CopyHello, Copying
  <2>2. /\ \A id \in ArchIDs \ {archID} : archive'[id] = archive[id]
        /\ archive'[archID].hello = before.hello /\ archive'[archID].ja4 = archive[archID].ja4
    BY <2>1 DEF TypeInv, TypeOK, Profile
  <2>3. BaseDirs'
    <3> SUFFICES ASSUME NEW id \in ArchIDs, id.suffix = None
                 PROVE  /\ archive'[id].hello = None => archive'[id].ja4 = None
                        /\ archive'[id].ja4 \in Hellos => Whole(archive'[id])
      BY DEF BaseDirs, Whole
    <3>1. CASE id = archID
      BY <1>0, <2>1, <2>2, <3>1, ArchiveAssumption DEF BaseDirs, CopyInv
    <3>2. CASE id # archID
      BY <1>0, <2>2, <3>2 DEF BaseDirs
    <3> QED
      BY <3>1, <3>2
  <2> QED
    BY <1>0, <2>1, <2>2, <2>3 DEF ServingInv, SlotsWhole, BeforeWhole, CopyInv, Copying
<1>10. CASE CopyProfile
  <2>1. /\ pc = "profile" /\ pc' = "label" /\ serving = {} /\ archID \in ArchIDs /\ before.hello \in Hellos
        /\ archive' = [archive EXCEPT ![archID].ja4 = before.hello]
        /\ UNCHANGED <<profile, serving, target, before, archID>>
    BY <1>10, <1>c, <1>i DEF CopyProfile, Copying
  <2>2. /\ \A id \in ArchIDs \ {archID} : archive'[id] = archive[id]
        /\ archive'[archID].hello = before.hello /\ archive'[archID].ja4 = before.hello
    BY <1>0, <2>1 DEF TypeInv, TypeOK, Profile, CopyInv
  <2>3. BaseDirs'
    BY <1>0, <2>1, <2>2, ArchiveAssumption DEF BaseDirs, Whole
  <2> QED
    BY <1>0, <2>1, <2>2, <2>3 DEF ServingInv, SlotsWhole, BeforeWhole, CopyInv, Copying
\* A copy that is broken off leaves the base directories as BaseDirs says.
<1>b. ASSUME pc \in Copying, archive' \in BrokenOff PROVE BaseDirs'
  <2>1. /\ archID \in ArchIDs /\ before.hello \in Hellos /\ CopyOfSnapshot.ja4 = before.hello
        /\ \A id \in ArchIDs \ {archID} : archive'[id] = archive[id]
    BY <1>b, <1>c, BrokenOffTypes
  <2>2. CASE pc = "hello"
    <3>1. archive'[archID].hello \in {archive[archID].hello, Broken} /\ archive'[archID].ja4 = archive[archID].ja4
      BY <1>b, <2>2, BrokenOffTypes
    <3>2. archID.suffix = None => archive[archID].ja4 = None
      BY <1>0, <2>1, <2>2 DEF CopyInv, BaseDirs
    <3> QED
      BY <1>0, <2>1, <3>1, <3>2, ArchiveAssumption DEF BaseDirs, Whole
  <2>3. CASE pc \in {"profile", "label"}
    <3>1. archive'[archID].hello = archive[archID].hello /\ archive[archID].hello = before.hello
      BY <1>0, <1>b, <2>3, BrokenOffTypes DEF CopyInv
    <3>2. archive'[archID].ja4 \in {archive[archID].ja4, Broken, before.hello}
      BY <1>b, <2>1, <2>3, BrokenOffTypes
    <3> QED
      BY <1>0, <2>1, <3>1, <3>2, ArchiveAssumption DEF BaseDirs, Whole
  <2> QED
    BY <1>b, <2>2, <2>3 DEF Copying
<1>11. CASE CopyFails
  <2>1. /\ pc \in Copying /\ pc' = "update" /\ serving = {} /\ archive' \in BrokenOff
        /\ UNCHANGED <<profile, serving, target, before>>
    BY <1>11, <1>i DEF CopyFails, Copying
  <2> QED
    BY <1>0, <1>b, <2>1 DEF ServingInv, SlotsWhole, BeforeWhole, CopyInv, Copying
<1>12. CASE Label
  <2>1. /\ pc = "label" /\ pc' = "register" /\ serving = {} /\ archID \in ArchIDs /\ before.hello \in Hellos
        /\ archive' = [archive EXCEPT ![archID].slot = CopyOfSnapshot.slot]
        /\ UNCHANGED <<profile, serving, target, before, archID>>
    BY <1>12, <1>c, <1>i, SoundFault DEF Label, Copying
  <2>2. \A id \in ArchIDs : archive'[id].hello = archive[id].hello /\ archive'[id].ja4 = archive[id].ja4
    BY <2>1 DEF TypeInv, TypeOK, Profile
  <2>3. BaseDirs'
    BY <1>0, <2>2 DEF BaseDirs, Whole
  <2> QED
    BY <1>0, <2>1, <2>2, <2>3 DEF ServingInv, SlotsWhole, BeforeWhole, CopyInv, Copying, Whole
<1>13. CASE Register \/ RegisterFails
  <2>1. /\ pc' \in {"latest", "update"} /\ serving = {}
        /\ UNCHANGED <<profile, serving, archive, target, before, archID>>
    BY <1>13, <1>i DEF Register, RegisterFails
  <2> QED
    BY <1>0, <2>1 DEF ServingInv, SlotsWhole, BeforeWhole, BaseDirs, CopyInv, Copying
<1>14. CASE SlotAfterArchive
  <2>1. serving = {} /\ pc' = "update" /\ UNCHANGED <<serving, archive, target, before, archID>>
    BY <1>14, <1>i DEF SlotAfterArchive, labctl
  <2>2. SlotsOnly
    BY <1>14, WriteSlotOnly, NewSlotTypes DEF SlotAfterArchive, TypeInv
  <2>3. SlotsWhole'
    BY <1>0, <2>1, <2>2, SlotsOnlyWhole
  <2> QED
    BY <1>0, <2>1, <2>3 DEF ServingInv, BeforeWhole, BaseDirs, CopyInv, Copying
<1>15. ASSUME NEW m \in Majors \cup {0}, UpdateSlot(m) PROVE P
  <2>1. /\ serving = {} /\ pc' = "idle" /\ before' = NoProfile
        /\ UNCHANGED <<serving, archive, target, archID>>
    BY <1>15, <1>i DEF UpdateSlot
  <2>2. SlotsOnly
    <3>1. CASE profile[target].hello = None
      BY <1>15, <3>1 DEF UpdateSlot, SlotsOnly, TypeInv, TypeOK
    <3>2. CASE profile[target].hello # None
      BY <1>15, <3>2, WriteSlotOnly, NewSlotTypes DEF UpdateSlot, TypeInv
    <3> QED
      BY <3>1, <3>2
  <2>3. SlotsWhole'
    BY <1>0, <2>1, <2>2, SlotsOnlyWhole
  <2> QED
    BY <1>0, <2>1, <2>3, ArchiveAssumption DEF ServingInv, BeforeWhole, BaseDirs, CopyInv, Copying, NoProfile
<1>16. CASE Crash
  <2>1. /\ serving = {} /\ pc' = "idle" /\ before' = NoProfile /\ UNCHANGED <<serving, target, archID>>
    BY <1>16, SoundFault DEF Crash, LeftBehind
  <2>2. SlotsWhole'
    BY <1>0, <1>16, <2>1, CrashSlotOnly, SlotsOnlyWhole DEF TypeInv
  <2>3. BaseDirs'
    <3>1. CASE pc \in Copying
      BY <1>16, <1>b, <3>1 DEF Crash
    <3>2. CASE pc \notin Copying
      BY <1>0, <1>16, <3>2 DEF Crash, BaseDirs
    <3> QED
      BY <3>1, <3>2
  <2> QED
    BY <2>1, <2>2, <2>3, ArchiveAssumption DEF ServingInv, BeforeWhole, CopyInv, Copying, NoProfile
<1>17. CASE UNCHANGED vars
  BY <1>0, <1>17 DEF vars, labctl, ServingInv, SlotsWhole, BeforeWhole, BaseDirs, CopyInv
<1> QED
  BY <1>1, <1>2, <1>3, <1>4, <1>5, <1>6, <1>7, <1>8, <1>9, <1>10, <1>11, <1>12, <1>13, <1>14, <1>15, <1>16, <1>17
     DEF Next

\* A row is added only for a directory that is whole, whatever run or copy
\* failed and wherever labctl was killed before, for any targets, hellos and
\* prefixes; ignored failures and torn profiles excepted (archive.go:211-256).
THEOREM RowsAlwaysComeAfterProfiles == Spec => RowsComeAfterProfiles
<1> DEFINE A == seen' \cap {"ignored", "server", "late", "overlap"} = {} =>
                  \A id \in rows' \ rows : Whole(archive'[id])
<1>1. ASSUME TypeInv, WholeInv, [Next]_vars PROVE [A]_vars
  <2> SUFFICES ASSUME Sound', NEW id \in rows' \ rows PROVE Whole(archive'[id])
    BY DEF Sound
  <2>1. Sound
    BY <1>1, SeenGrows DEF Sound
  <2>2. Register
    BY <1>1 DEF Next, vars, labctl, Snapshot, Accept, Open, Fill, HandlerFails, RunSucceeds, RunFails, KeepSlot,
       ChooseID, CopyHello, CopyProfile, CopyFails, Label, RegisterFails, RowsBrokenOff, SlotAfterArchive,
       UpdateSlot, Crash
  <2> QED
    BY <1>1, <2>1, <2>2 DEF Register, WholeInv, CopyInv, Whole
<1> QED
  BY <1>1, TypeInit, TypeStep, WholeInit, WholeStep, PTL DEF Spec, RowsComeAfterProfiles

-----------------------------------------------------------------------------
(* Until the first fault                                                   *)

\* slot.json, if it says anything, is of the hello beside it, but for the target
\* labctl is at; so is that of the snapshot; and the id chosen is of its hello.
SlotsInv == \A t \in Targets :
  /\ profile[t].hello = None => profile[t].slot.ja4 = None
  /\ (pc # "idle" /\ t = target) \/ profile[t].slot.ja4 \in {None, profile[t].hello}

BeforeInv ==
  /\ before.slot.ja4 \in {None, before.hello}
  /\ pc # "idle" /\ before.hello # None => profile[target].hello # None

ChosenInv ==
  /\ pc \in Copying =>
       /\ archID.major = before.slot.major /\ before.hello # profile[target].hello
       /\ archID.prev \in {None, Prefix[before.hello]} /\ archID.suffix \in {None, Prefix[before.hello]}
  /\ pc = "hello" => archive[archID].hello = None \/ archID.suffix = Prefix[before.hello]
  /\ pc = "register" => archive[archID].hello = before.hello /\ before.hello # None

RowsInv == \A id \in rows : archive[id].hello # None

CleanInv == seen = {} => SlotsInv /\ BeforeInv /\ ChosenInv /\ RowsInv /\ ArchiveLabels

\* What labctl knows without a fault: no handler is at work outside its run.
Clean == /\ seen = {}
         /\ TypeInv /\ ServingInv /\ SlotsWhole /\ BeforeWhole /\ BaseDirs /\ CopyInv
         /\ SlotsInv /\ BeforeInv /\ ChosenInv /\ RowsInv /\ ArchiveLabels

LEMMA CleanFromInv ==
  ASSUME TypeInv, WholeInv, CleanInv, seen = {}
  PROVE  Clean
BY DEF Clean, WholeInv, CleanInv, Sound

LEMMA CleanInit == Init => CleanInv
BY DEF Init, CleanInv, SlotsInv, BeforeInv, ChosenInv, RowsInv, ArchiveLabels, NoProfile, NoSlot, Copying

\* A fault ends what CleanInv says.
LEMMA AfterFault ==
  ASSUME NEW kinds, Fault(kinds), seen' = {}
  PROVE  kinds = {}
BY DEF Fault

\* Without a fault every step is one of these.
CleanNext ==
  \/ \E t \in Targets : Snapshot(t)
  \/ \E t \in Targets, h \in Hellos : Accept(t, h) /\ serving = {} /\ pc = "run"
  \/ \E c \in serving : Open(c) \/ Fill(c)
  \/ RunSucceeds /\ serving = {}
  \/ KeepSlot \/ ChooseID \/ CopyHello \/ CopyProfile
  \/ Label /\ archive' = [archive EXCEPT ![archID].slot = CopyOfSnapshot.slot]
  \/ Register \/ SlotAfterArchive
  \/ \E m \in Majors \cup {0} : UpdateSlot(m)
  \/ UNCHANGED vars

LEMMA CleanSteps ==
  ASSUME [Next]_vars, seen' = {}
  PROVE  CleanNext /\ seen = {}
<1>1. seen = {}
  BY SeenGrows
<1>2. ~RunFails /\ ~CopyFails /\ ~RegisterFails /\ ~Crash /\ \A c \in serving : ~HandlerFails(c)
  BY AfterFault DEF RunFails, CopyFails, RegisterFails, Crash, HandlerFails
<1>3. ASSUME NEW t \in Targets, NEW h \in Hellos, Accept(t, h) PROVE serving = {} /\ pc = "run"
  BY <1>3, AfterFault DEF Accept
<1>4. ASSUME RunSucceeds PROVE serving = {}
  BY <1>4, AfterFault DEF RunSucceeds, LeftBehind
<1>5. ASSUME Label PROVE archive' = [archive EXCEPT ![archID].slot = CopyOfSnapshot.slot]
  BY <1>5, AfterFault DEF Label
<1> QED
  BY <1>1, <1>2, <1>3, <1>4, <1>5 DEF Next, CleanNext

\* Without a fault slot.json is written whole.
LEMMA CleanSlot ==
  ASSUME TypeInv, NEW slot \in Slot, WriteSlot(slot), seen' = {}
  PROVE  SlotsOnly /\ profile'[target].slot = slot
<1>1. profile' = [profile EXCEPT ![target].slot = slot]
  BY AfterFault DEF WriteSlot
<1> QED
  BY <1>1, OneSlot DEF TypeInv

LEMMA SlotJA4OfSnapshot ==
  ASSUME BeforeWhole, BeforeInv
  PROVE  SlotJA4(before) = before.hello
BY DEF BeforeInv, BeforeWhole, SlotJA4, Claimed

LEMMA ClaimedByProfile ==
  ASSUME SlotsWhole, serving = {}, NEW t \in Targets
  PROVE  Claimed(profile[t]) = profile[t].hello
BY DEF SlotsWhole, Claimed

\* The slot.json of the target is written, with the JA4 of its profile.
LEMMA SlotStep ==
  ASSUME Clean, serving = {}, SlotsOnly, UNCHANGED target,
         profile'[target].slot.ja4 \in {Claimed(profile[target]), profile[target].slot.ja4},
         profile'[target].slot.ja4 = Claimed(profile[target]) \/ (pc # "idle" /\ pc' # "idle")
                                                              \/ profile[target].hello = None
  PROVE  SlotsInv' /\ profile'[target].hello = profile[target].hello
<1>1. target \in Targets /\ Claimed(profile[target]) = profile[target].hello
  BY ClaimedByProfile DEF Clean, TypeInv, TypeOK
<1>2. ASSUME NEW t \in Targets
      PROVE  /\ profile'[t].hello = None => profile'[t].slot.ja4 = None
             /\ (pc' # "idle" /\ t = target') \/ profile'[t].slot.ja4 \in {None, profile'[t].hello}
  <2>1. CASE t = target
    BY <1>1, <2>1 DEF Clean, SlotsInv, SlotsOnly
  <2>2. CASE t # target
    BY <2>2 DEF Clean, SlotsInv, SlotsOnly
  <2> QED
    BY <2>1, <2>2
<1> QED
  BY <1>1, <1>2 DEF SlotsInv, SlotsOnly

LEMMA ChooseIDStep ==
  ASSUME Clean, ChooseID
  PROVE  ChosenInv'
<1> DEFINE id == BaseID(before)
<1>0. serving = {} /\ target \in Targets
  BY DEF Clean, ServingInv, ChooseID, TypeInv, TypeOK
<1>1. SlotJA4(before) = before.hello
  BY SlotJA4OfSnapshot DEF Clean
<1>2. before.hello # None /\ before.hello # profile[target].hello
  BY <1>0, <1>1, ClaimedByProfile DEF ChooseID, Changed, Clean
<1>3. before.hello \in Hellos
  BY <1>2 DEF Clean, BeforeWhole, TypeInv, TypeOK, Profile, Contents
<1>4. id \in ArchIDs
  BY <1>1, <1>3, IDTypes DEF Clean, TypeInv
<1>5. id.major = before.slot.major /\ id.prev \in {None, Prefix[before.hello]} /\ id.suffix = None
  BY <1>1 DEF BaseID
<1>6. UNCHANGED <<archive, before, profile, target>>
  BY DEF ChooseID
<1>7. archID' = FreeID(id, before.hello)
  BY <1>1 DEF ChooseID
<1>8. CASE archive[id].hello # None /\ Claimed(archive[id]) = before.hello
  <2>1. archID' = id /\ pc' = "register"
    BY <1>1, <1>8 DEF ChooseID, FreeID
  <2>2. archive[id].hello = before.hello
    <3>1. pc = "compare"
      BY DEF ChooseID
    <3>2. archive[id].ja4 = archive[id].hello
      BY <1>4, <1>8, <3>1 DEF Clean, ArchiveLabels
    <3> QED
      BY <1>2, <1>8, <3>2 DEF Claimed
  <2> QED
    BY <1>2, <1>6, <2>1, <2>2 DEF ChosenInv, Copying
<1>9. CASE ~(archive[id].hello # None /\ Claimed(archive[id]) = before.hello)
  <2>1. pc' = "hello"
    BY <1>1, <1>9 DEF ChooseID
  <2>2. CASE archive[id].hello = None
    <3>1. archID' = id
      BY <1>7, <2>2 DEF FreeID
    <3> QED
      BY <1>2, <1>5, <1>6, <2>1, <2>2, <3>1 DEF ChosenInv
  <2>3. CASE archive[id].hello # None
    <3>1. archID' = [id EXCEPT !.suffix = Prefix[before.hello]]
      BY <1>7, <1>9, <2>3 DEF FreeID
    <3>2. /\ archID'.major = id.major /\ archID'.prev = id.prev
          /\ archID'.suffix = Prefix[before.hello]
      BY <1>4, <3>1 DEF ArchIDs
    <3> QED
      BY <1>2, <1>5, <1>6, <2>1, <3>2 DEF ChosenInv
  <2> QED
    BY <2>2, <2>3
<1> QED
  BY <1>8, <1>9

\* What is copied, without a fault.
LEMMA CleanCopy ==
  ASSUME Clean, pc \in Copying
  PROVE  /\ archID \in ArchIDs /\ before.hello \in Hellos /\ serving = {}
         /\ CopyOfSnapshot.hello = before.hello /\ CopyOfSnapshot.ja4 = before.hello
         /\ CopyOfSnapshot.slot.ja4 = before.hello /\ CopyOfSnapshot.slot.major = before.slot.major
<1>1. archID \in ArchIDs /\ before.hello # None /\ before.ja4 = before.hello /\ before.hello # Broken /\ serving = {}
  BY DEF Clean, TypeInv, BeforeWhole, ServingInv, Copying
<1>2. SlotJA4(before) = before.hello
  BY SlotJA4OfSnapshot DEF Clean
<1> QED
  BY <1>1, <1>2 DEF Clean, TypeInv, TypeOK, Profile, Contents, CopyOfSnapshot

\* A copy of one file keeps the labels of the other directories.
LEMMA CopyStep ==
  ASSUME Clean, CopyHello \/ CopyProfile
  PROVE  ChosenInv' /\ RowsInv' /\ ArchiveLabels'
<1>1. /\ pc \in {"hello", "profile"} /\ pc' \in {"profile", "label"} /\ UNCHANGED <<profile, rows, target, before, archID>>
      /\ archive' \in {[archive EXCEPT ![archID].hello = CopyOfSnapshot.hello],
                       [archive EXCEPT ![archID].ja4 = CopyOfSnapshot.ja4]}
  BY DEF CopyHello, CopyProfile
<1>2. /\ archID \in ArchIDs /\ before.hello \in Hellos
      /\ CopyOfSnapshot.hello = before.hello /\ CopyOfSnapshot.ja4 = before.hello
  BY <1>1, CleanCopy DEF Copying
<1>3. /\ \A id \in ArchIDs \ {archID} : archive'[id] = archive[id]
      /\ archive'[archID].hello \in {archive[archID].hello, before.hello}
  BY <1>1, <1>2 DEF Clean, TypeInv, TypeOK, Profile
<1>4. ChosenInv'
  BY <1>1 DEF Clean, ChosenInv, Copying
<1>5. RowsInv'
  <2>1. rows \subseteq ArchIDs
    BY DEF Clean, TypeInv, TypeOK
  <2> QED
    BY <1>1, <1>2, <1>3, <2>1, ArchiveAssumption DEF Clean, RowsInv
<1>6. ArchiveLabels'
  BY <1>1, <1>3 DEF Clean, ArchiveLabels, Copying
<1> QED
  BY <1>4, <1>5, <1>6

LEMMA LabelStep ==
  ASSUME Clean, Label, archive' = [archive EXCEPT ![archID].slot = CopyOfSnapshot.slot]
  PROVE  ChosenInv' /\ RowsInv' /\ ArchiveLabels'
<1>1. pc = "label" /\ pc' = "register" /\ UNCHANGED <<profile, rows, target, before, archID>>
  BY DEF Label
<1>2. /\ archID \in ArchIDs /\ before.hello \in Hellos
      /\ CopyOfSnapshot.slot.ja4 = before.hello /\ CopyOfSnapshot.slot.major = before.slot.major
  BY <1>1, CleanCopy DEF Copying
<1>3. /\ \A id \in ArchIDs \ {archID} : archive'[id] = archive[id]
      /\ archive'[archID].hello = archive[archID].hello /\ archive'[archID].ja4 = archive[archID].ja4
      /\ archive'[archID].slot = CopyOfSnapshot.slot
  BY <1>2 DEF Clean, TypeInv, TypeOK, Profile
<1>4. archive[archID].hello = before.hello /\ archive[archID].ja4 = before.hello
  BY <1>1 DEF Clean, CopyInv
<1>5. ChosenInv'
  BY <1>1, <1>2, <1>3, <1>4, ArchiveAssumption DEF ChosenInv, Copying
<1>6. RowsInv'
  BY <1>1, <1>2, <1>3 DEF Clean, TypeInv, TypeOK, RowsInv
<1>7. ASSUME NEW id \in ArchIDs, archive'[id].hello # None
      PROVE  LET p == archive'[id] IN
             /\ p.ja4 = p.hello /\ p.slot.ja4 = p.hello /\ p.slot.major = id.major
             /\ id.prev \in {None, Prefix[p.hello]} /\ id.suffix \in {None, Prefix[p.hello]}
  <2>1. CASE id = archID
    <3>1. /\ archID.major = before.slot.major
          /\ archID.prev \in {None, Prefix[before.hello]} /\ archID.suffix \in {None, Prefix[before.hello]}
      BY <1>1 DEF Clean, ChosenInv, Copying
    <3> QED
      BY <1>2, <1>3, <1>4, <2>1, <3>1
  <2>2. CASE id # archID
    BY <1>3, <1>7, <2>2 DEF Clean, ArchiveLabels
  <2> QED
    BY <2>1, <2>2
<1> QED
  BY <1>5, <1>6, <1>7 DEF ArchiveLabels

LEMMA CleanStep == TypeInv /\ WholeInv /\ CleanInv /\ [Next]_vars => CleanInv'
<1> SUFFICES ASSUME TypeInv, WholeInv, CleanInv, [Next]_vars, seen' = {}
             PROVE  SlotsInv' /\ BeforeInv' /\ ChosenInv' /\ RowsInv' /\ ArchiveLabels'
  BY DEF CleanInv
<1> DEFINE P == SlotsInv' /\ BeforeInv' /\ ChosenInv' /\ RowsInv' /\ ArchiveLabels'
<1>0. Clean /\ CleanNext
  BY CleanSteps, CleanFromInv
<1>t. target \in Targets
  BY DEF TypeInv, TypeOK
<1>1. ASSUME NEW t \in Targets, Snapshot(t) PROVE P
  <2>1. /\ pc = "idle" /\ pc' = "run" /\ target' = t /\ UNCHANGED <<profile, archive, rows>>
        /\ before' = IF profile[t].hello = None THEN NoProfile ELSE profile[t]
    BY <1>1 DEF Snapshot
  <2>2. BeforeInv'
    BY <1>0, <2>1 DEF Clean, SlotsInv, BeforeInv, NoProfile, NoSlot
  <2> QED
    BY <1>0, <2>1, <2>2 DEF Clean, SlotsInv, ChosenInv, RowsInv, ArchiveLabels, Copying
<1>2. ASSUME NEW t \in Targets, NEW h \in Hellos, Accept(t, h) PROVE P
  BY <1>0, <1>2 DEF Clean, Accept, labctl, SlotsInv, BeforeInv, ChosenInv, RowsInv, ArchiveLabels
<1>3. ASSUME NEW c \in serving, Open(c) \/ Fill(c) PROVE P
  <2>1. pc = "run" /\ c.target = target /\ c \in Handler /\ UNCHANGED <<pc, archive, rows, target, before, archID>>
    BY <1>0, <1>3 DEF Clean, ServingInv, TypeInv, TypeOK, Open, Fill, labctl
  <2>2. PICK content \in {Broken} \cup Hellos :
          profile' = [profile EXCEPT ![target] = SetFile(profile[target], c.file, content)]
    BY <1>3, <2>1 DEF Open, Fill, Filled, Handler
  <2>3. /\ \A t \in Targets \ {target} : profile'[t] = profile[t]
        /\ profile'[target].slot = profile[target].slot
        /\ profile'[target].hello \in {content, profile[target].hello}
    <3>1. c.file \in {"hello", "ja4"} /\ content \in Contents /\ profile[target] \in Profile
      BY <1>t, <2>1 DEF TypeInv, TypeOK, Handler, Contents
    <3>2. profile'[target] = SetFile(profile[target], c.file, content)
      BY <1>t, <2>2 DEF TypeInv, TypeOK
    <3>3. /\ profile'[target].slot = profile[target].slot
          /\ profile'[target].hello \in {content, profile[target].hello}
      BY <3>1, <3>2, SetFileTypes
    <3> QED
      BY <2>2, <3>3 DEF TypeInv, TypeOK
  <2>4. SlotsInv'
    BY <1>0, <2>1, <2>3, ArchiveAssumption DEF Clean, SlotsInv
  <2>5. BeforeInv'
    BY <1>0, <2>1, <2>3, ArchiveAssumption DEF Clean, BeforeInv
  <2> QED
    BY <1>0, <2>1, <2>4, <2>5 DEF Clean, ChosenInv, RowsInv, ArchiveLabels, Copying
<1>4. CASE RunSucceeds
  BY <1>0, <1>4 DEF RunSucceeds, labctl, Clean, SlotsInv, BeforeInv, ChosenInv, RowsInv, ArchiveLabels, Copying
<1>5. CASE KeepSlot
  <2>1. /\ pc = "compare" /\ pc' = "update" /\ serving = {}
        /\ UNCHANGED <<archive, rows, target, before, archID>>
    BY <1>0, <1>5 DEF KeepSlot, labctl, Clean, ServingInv
  <2>2. SlotsOnly /\ profile'[target].slot.ja4 \in {Claimed(profile[target]), profile[target].slot.ja4}
    <3>1. CASE before = NoProfile
      BY <1>5, <3>1 DEF KeepSlot, SlotsOnly, TypeInv, TypeOK
    <3>2. CASE before # NoProfile
      <4> DEFINE s == [ja4 |-> Claimed(profile[target]),
                       major |-> IF profile[target].slot.major = 0 THEN before.slot.major
                                 ELSE profile[target].slot.major]
      <4>1. s \in Slot /\ WriteSlot(s)
        BY <1>5, <3>2, NewSlotTypes DEF KeepSlot, TypeInv
      <4>2. s.ja4 = Claimed(profile[target])
        OBVIOUS
      <4> HIDE DEF s
      <4> QED
        BY <4>1, <4>2, CleanSlot
    <3> QED
      BY <3>1, <3>2
  <2>3. SlotsInv' /\ profile'[target].hello = profile[target].hello
    BY <1>0, <2>1, <2>2, SlotStep
  <2> QED
    BY <1>0, <2>1, <2>3 DEF Clean, BeforeInv, ChosenInv, RowsInv, ArchiveLabels, Copying
<1>6. CASE ChooseID
  <2>1. pc = "compare" /\ pc' \in {"register", "hello"} /\ UNCHANGED <<profile, archive, rows, target, before>>
    BY <1>6 DEF ChooseID
  <2>2. ChosenInv'
    BY <1>0, <1>6, ChooseIDStep
  <2> QED
    BY <1>0, <2>1, <2>2 DEF Clean, SlotsInv, BeforeInv, RowsInv, ArchiveLabels, Copying
<1>7. CASE CopyHello \/ CopyProfile
  <2>1. pc # "idle" /\ pc' # "idle" /\ UNCHANGED <<profile, target, before>>
    BY <1>7 DEF CopyHello, CopyProfile
  <2> QED
    BY <1>0, <1>7, <2>1, CopyStep DEF Clean, SlotsInv, BeforeInv
<1>8. CASE Label /\ archive' = [archive EXCEPT ![archID].slot = CopyOfSnapshot.slot]
  <2>1. pc # "idle" /\ pc' # "idle" /\ UNCHANGED <<profile, target, before>>
    BY <1>8 DEF Label
  <2> QED
    BY <1>0, <1>8, <2>1, LabelStep DEF Clean, SlotsInv, BeforeInv
<1>9. CASE Register
  <2>1. /\ pc = "register" /\ pc' = "latest" /\ rows' = rows \cup {archID}
        /\ UNCHANGED <<profile, archive, target, before, archID>>
    BY <1>9 DEF Register
  <2> QED
    BY <1>0, <2>1 DEF Clean, SlotsInv, BeforeInv, ChosenInv, RowsInv, ArchiveLabels, Copying
<1>10. CASE SlotAfterArchive
  <2> DEFINE s == [profile[target].slot EXCEPT !.ja4 = Claimed(profile[target])]
  <2>1. /\ pc = "latest" /\ pc' = "update" /\ serving = {}
        /\ UNCHANGED <<archive, rows, target, before, archID>>
    BY <1>0, <1>10 DEF SlotAfterArchive, labctl, Clean, ServingInv
  <2>2. s \in Slot /\ WriteSlot(s)
    BY <1>10, NewSlotTypes DEF SlotAfterArchive, TypeInv
  <2>3. s.ja4 = Claimed(profile[target])
    BY <1>t DEF TypeInv, TypeOK, Profile, Slot
  <2> HIDE DEF s
  <2>4. SlotsInv' /\ profile'[target].hello = profile[target].hello
    BY <1>0, <2>1, <2>2, <2>3, CleanSlot, SlotStep
  <2> QED
    BY <1>0, <2>1, <2>4 DEF Clean, BeforeInv, ChosenInv, RowsInv, ArchiveLabels, Copying
<1>11. ASSUME NEW m \in Majors \cup {0}, UpdateSlot(m) PROVE P
  <2>1. /\ pc = "update" /\ pc' = "idle" /\ serving = {} /\ before' = NoProfile
        /\ UNCHANGED <<archive, rows, target, archID>>
    BY <1>0, <1>11 DEF UpdateSlot, Clean, ServingInv
  <2>2. SlotsInv'
    <3>1. CASE profile[target].hello = None
      <4>1. profile' = profile
        BY <1>11, <3>1 DEF UpdateSlot
      <4> QED
        BY <1>0, <2>1, <3>1, <4>1 DEF Clean, SlotsInv
    <3>2. CASE profile[target].hello # None
      <4> DEFINE s == [ja4 |-> Claimed(profile[target]),
                       major |-> IF m = 0 THEN profile[target].slot.major ELSE m]
      <4>1. s \in Slot /\ WriteSlot(s)
        BY <1>11, <3>2, NewSlotTypes DEF UpdateSlot, TypeInv
      <4>2. s.ja4 = Claimed(profile[target])
        OBVIOUS
      <4> HIDE DEF s
      <4> QED
        BY <1>0, <2>1, <4>1, <4>2, CleanSlot, SlotStep
    <3> QED
      BY <3>1, <3>2
  <2> QED
    BY <1>0, <2>1, <2>2 DEF Clean, BeforeInv, ChosenInv, RowsInv, ArchiveLabels, NoProfile, NoSlot, Copying
<1>12. CASE UNCHANGED vars
  BY <1>0, <1>12 DEF Clean, vars, labctl, SlotsInv, BeforeInv, ChosenInv, RowsInv, ArchiveLabels
<1> QED
  BY <1>0, <1>1, <1>2, <1>3, <1>4, <1>5, <1>6, <1>7, <1>8, <1>9, <1>10, <1>11, <1>12 DEF CleanNext

\* The labels of the archive are those of the hellos in it, for any targets,
\* hellos and prefixes, until the first fault, two connections at once and
\* connections outside labctl's runs included (archive.go:197-250).
THEOREM ArchiveIsLabelled == Spec => []ArchiveLabels
<1>1. CleanInv => ArchiveLabels
  BY DEF CleanInv, ArchiveLabels
<1> QED
  BY <1>1, TypeInit, TypeStep, WholeInit, WholeStep, CleanInit, CleanStep, PTL DEF Spec

\* Only a hello that left its slot is archived, until the first fault or torn
\* profile (archive.go:181-192).
THEOREM NothingIsArchivedInVain == Spec => NoSpuriousArchive
<1> DEFINE A == seen = {} => \A id \in ArchIDs :
                  archive'[id] # archive[id] => archive'[id].hello # profile[target].hello
<1>1. ASSUME TypeInv, WholeInv, CleanInv, [Next]_vars PROVE [A]_vars
  <2> SUFFICES ASSUME seen = {}, NEW id \in ArchIDs, archive'[id] # archive[id]
               PROVE  archive'[id].hello # profile[target].hello
    OBVIOUS
  <2>1. Clean
    BY <1>1, CleanFromInv
  <2>2. /\ pc \in Copying
        /\ \/ archive' \in BrokenOff
           \/ pc = "hello" /\ archive' = [archive EXCEPT ![archID].hello = CopyOfSnapshot.hello]
           \/ pc = "profile" /\ archive' = [archive EXCEPT ![archID].ja4 = CopyOfSnapshot.ja4]
           \/ pc = "label" /\ archive' = [archive EXCEPT ![archID].slot = CopyOfSnapshot.slot]
    BY <1>1 DEF Next, vars, labctl, Snapshot, Accept, Open, Fill, HandlerFails, RunSucceeds, RunFails, KeepSlot,
       ChooseID, CopyHello, CopyProfile, CopyFails, Label, Register, RegisterFails, SlotAfterArchive,
       UpdateSlot, Crash, Copying
  <2>3. /\ archID \in ArchIDs /\ before.hello \in Hellos /\ serving = {} /\ target \in Targets
        /\ CopyOfSnapshot.hello = before.hello
    BY <2>1, <2>2, CleanCopy DEF TypeInv, TypeOK, Clean
  <2>4. before.hello # profile[target].hello /\ profile[target].hello # Broken
    BY <2>1, <2>2, <2>3 DEF Clean, ChosenInv, SlotsWhole
  <2>5. pc \in {"profile", "label"} => archive[archID].hello = before.hello
    BY <2>1 DEF Clean, CopyInv
  <2>6. CASE archive' \in BrokenOff
    <3>1. id = archID
      BY <1>1, <2>2, <2>6, BrokenOffTypes
    <3>2. CASE pc = "hello"
      <4>1. archive' \in [ArchIDs -> Profile] /\ archive \in [ArchIDs -> Profile]
        BY <1>1, <2>2, <2>6, BrokenOffTypes DEF TypeInv, TypeOK
      <4>2. archive'[id].hello = Broken
        <5>1. /\ archive'[id].ja4 = archive[id].ja4 /\ archive'[id].slot = archive[id].slot
              /\ archive'[id].hello \in {archive[id].hello, Broken}
          BY <1>1, <2>2, <2>6, <3>1, <3>2, BrokenOffTypes
        <5>2. archive'[id] \in Profile /\ archive[id] \in Profile
          BY <4>1
        <5> QED
          BY <5>1, <5>2 DEF Profile
      <4> QED
        BY <2>4, <4>2
    <3>3. CASE pc \in {"profile", "label"}
      BY <1>1, <2>2, <2>4, <2>5, <2>6, <3>1, <3>3, BrokenOffTypes
    <3> QED
      BY <2>2, <3>2, <3>3 DEF Copying
  <2>7. CASE archive' \notin BrokenOff
    <3>1. id = archID /\ archive'[id].hello = before.hello
      BY <1>1, <2>2, <2>3, <2>5, <2>7 DEF TypeInv, TypeOK, Profile
    <3> QED
      BY <2>4, <3>1
  <2> QED
    BY <2>6, <2>7
<1> QED
  BY <1>1, TypeInit, TypeStep, WholeInit, WholeStep, CleanInit, CleanStep, PTL DEF Spec, NoSpuriousArchive

-----------------------------------------------------------------------------
(* The refinement of SlotHistory                                           *)

\* No two JA4s begin with the same 12 characters: what archiveSnapshot relies on.
DistinctPrefixes == \A g, h \in Hellos : Prefix[g] = Prefix[h] => g = h

Archived == {archive[id].hello : id \in rows}

\* When the slot is about to count, the hello it had before has a row.
UpdateInv == seen = {} =>
  (pc \in {"latest", "update"} => before.hello \in Archived \cup {None, profile[target].hello})

ArchiveInv == TypeInv /\ WholeInv /\ CleanInv /\ UpdateInv

\* The directory that is copied to holds no other hello.
LEMMA CopyKeepsHellos ==
  ASSUME DistinctPrefixes, Clean, pc \in Copying
  PROVE  archive[archID].hello \in {None, before.hello}
<1>1. CASE pc \in {"profile", "label"}
  BY <1>1 DEF Clean, CopyInv
<1>2. CASE pc = "hello" /\ archive[archID].hello # None
  <2>1. archID \in ArchIDs /\ before.hello \in Hellos
    BY CleanCopy
  <2>2. archID.suffix = Prefix[before.hello]
    BY <1>2 DEF Clean, ChosenInv
  <2>3. archID.suffix # None
    BY <2>1, <2>2, ArchiveAssumption
  <2>4. archive[archID].hello = archive[archID].ja4 /\ archive[archID].slot.ja4 = archive[archID].hello
    BY <1>2, <2>1 DEF Clean, ArchiveLabels
  <2>5. archive[archID].hello \in Hellos /\ archID.suffix = Prefix[archive[archID].hello]
    BY <1>2, <2>1, <2>3, <2>4 DEF Clean, ArchiveLabels, TypeInv, TypeOK, Profile, Slot
  <2> QED
    BY <2>1, <2>2, <2>5 DEF DistinctPrefixes
<1> QED
  BY <1>1, <1>2 DEF Copying

LEMMA UpdateStep ==
  ASSUME ArchiveInv, [Next]_vars
  PROVE  UpdateInv'
<1> SUFFICES ASSUME seen' = {}, pc' \in {"latest", "update"}
             PROVE  (before.hello \in Archived \cup {None, profile[target].hello})'
  BY DEF UpdateInv
<1>0. Clean /\ CleanNext /\ UpdateInv /\ target \in Targets
  BY CleanSteps, CleanFromInv DEF ArchiveInv, TypeInv, TypeOK
<1>2. CASE UNCHANGED vars
  BY <1>0, <1>2 DEF vars, labctl, UpdateInv, Archived, Clean
<1>3. CASE KeepSlot
  <2>1. /\ pc = "compare" /\ serving = {} /\ ~Changed(before, profile[target]) /\ UNCHANGED <<before, target>>
    BY <1>0, <1>3 DEF KeepSlot, labctl, Clean, ServingInv
  <2>2. profile'[target].hello = profile[target].hello
    <3>1. SlotsOnly
      BY <1>3, WriteSlotOnly, NewSlotTypes DEF KeepSlot, SlotsOnly, ArchiveInv, TypeInv, TypeOK
    <3> QED
      BY <1>0, <3>1 DEF SlotsOnly
  <2>3. SlotJA4(before) = before.hello
    BY <1>0, SlotJA4OfSnapshot DEF Clean
  <2>4. Claimed(profile[target]) = profile[target].hello
    BY <1>0, <2>1, ClaimedByProfile DEF Clean
  <2>5. before.hello # None => profile[target].hello # None
    BY <1>0, <2>1 DEF Clean, BeforeInv
  <2> QED
    BY <2>1, <2>2, <2>3, <2>4, <2>5 DEF Changed
<1>4. CASE Register
  <2>1. archID \in rows' /\ UNCHANGED <<archive, before>> /\ archive[archID].hello = before.hello
    BY <1>0, <1>4 DEF Register, Clean, ChosenInv
  <2> QED
    BY <2>1 DEF Archived
<1>5. CASE SlotAfterArchive
  <2>1. SlotsOnly /\ pc = "latest" /\ UNCHANGED <<archive, rows, before, target>>
    BY <1>5, WriteSlotOnly, NewSlotTypes DEF SlotAfterArchive, labctl, ArchiveInv, TypeInv
  <2> QED
    BY <1>0, <2>1 DEF UpdateInv, Clean, Archived, SlotsOnly
<1>6. CASE \/ RunSucceeds \/ ChooseID \/ CopyHello \/ CopyProfile \/ Label
           \/ \E t \in Targets : Snapshot(t)
           \/ \E t \in Targets, h \in Hellos : Accept(t, h) /\ pc = "run"
           \/ \E m \in Majors \cup {0} : UpdateSlot(m)
  BY <1>6 DEF RunSucceeds, ChooseID, CopyHello, CopyProfile, Label, Accept, Snapshot, UpdateSlot
<1>7. ASSUME NEW c \in serving, Open(c) \/ Fill(c) PROVE FALSE
  BY <1>0, <1>7 DEF Open, Fill, Clean, ServingInv
<1> QED
  BY <1>0, <1>2, <1>3, <1>4, <1>5, <1>6, <1>7 DEF CleanNext

LEMMA ArchiveInit == Init => ArchiveInv
BY TypeInit, WholeInit, CleanInit DEF ArchiveInv, UpdateInv, Init

LEMMA ArchiveStep == ArchiveInv /\ [Next]_vars => ArchiveInv'
BY TypeStep, WholeStep, CleanStep, UpdateStep DEF ArchiveInv

LEMMA HistoryInit == Init => History!Init
BY DEF Init, History!Init, Current, NoProfile

\* Every step until the first fault is one of SlotHistory, or a stutter.
LEMMA HistoryStep ==
  ASSUME DistinctPrefixes, ArchiveInv, [Next]_vars, seen' = {}
  PROVE  [History!Next]_(History!vars)
<1>0. /\ Clean /\ CleanNext /\ UpdateInv /\ target \in Targets
      /\ {archive[id].hello : id \in rows} = Archived
  BY CleanSteps, CleanFromInv DEF ArchiveInv, TypeInv, TypeOK, Archived
<1>2. ASSUME Current' = Current, Archived' = Archived PROVE History!vars' = History!vars
  BY <1>2 DEF History!vars, Archived
<1>3. CASE UNCHANGED vars
  <2>1. Current' = Current /\ Archived' = Archived
    BY <1>3 DEF vars, labctl, Current, Archived
  <2> QED
    BY <1>2, <2>1
<1>4. ASSUME NEW t \in Targets, Snapshot(t) PROVE History!vars' = History!vars
  <2>1. /\ pc = "idle" /\ pc' # "idle" /\ target' = t /\ UNCHANGED <<profile, archive, rows>>
        /\ before'.hello = profile[t].hello
    BY <1>4 DEF Snapshot, NoProfile
  <2>2. Current' = Current
    BY <2>1 DEF Current
  <2>3. Archived' = Archived
    BY <2>1 DEF Archived
  <2> QED
    BY <1>2, <2>2, <2>3
\* Until labctl is done with its target nothing but its profile changes.
<1>5. ASSUME pc # "idle", pc' # "idle", UNCHANGED <<target, before, archive, rows>>,
             \A t \in Targets : t # target => profile'[t].hello = profile[t].hello
      PROVE  History!vars' = History!vars
  <2>1. Current' = Current
    BY <1>5 DEF Current
  <2>2. Archived' = Archived
    BY <1>5 DEF Archived
  <2> QED
    BY <1>2, <2>1, <2>2
<1>6. CASE RunSucceeds \/ ChooseID \/ \E t \in Targets, h \in Hellos : Accept(t, h) /\ pc = "run"
  BY <1>5, <1>6 DEF RunSucceeds, ChooseID, Accept, labctl
<1>7. ASSUME NEW c \in serving, Open(c) \/ Fill(c) PROVE History!vars' = History!vars
  <2>1. pc = "run" /\ c.target = target /\ UNCHANGED <<pc, archive, rows, target, before>>
    BY <1>0, <1>7 DEF Clean, ServingInv, Open, Fill, labctl
  <2>2. \A t \in Targets : t # target => profile'[t] = profile[t]
    BY <1>0, <1>7, <2>1 DEF Clean, Open, Fill, TypeInv, TypeOK
  <2> QED
    BY <1>5, <2>1, <2>2
<1>8. CASE KeepSlot
  <2>1. pc = "compare" /\ pc' = "update" /\ UNCHANGED <<archive, rows, target, before>>
    BY <1>8 DEF KeepSlot, labctl
  <2>2. SlotsOnly
    BY <1>8, WriteSlotOnly, NewSlotTypes DEF KeepSlot, SlotsOnly, ArchiveInv, TypeInv, TypeOK
  <2> QED
    BY <1>5, <2>1, <2>2 DEF SlotsOnly
<1>9. CASE SlotAfterArchive
  <2>1. SlotsOnly /\ pc = "latest" /\ pc' = "update" /\ UNCHANGED <<archive, rows, before, target>>
    BY <1>9, WriteSlotOnly, NewSlotTypes DEF SlotAfterArchive, labctl, ArchiveInv, TypeInv
  <2> QED
    BY <1>5, <2>1 DEF SlotsOnly
<1>10. CASE \/ CopyHello \/ CopyProfile
            \/ Label /\ archive' = [archive EXCEPT ![archID].slot = CopyOfSnapshot.slot]
  <2>1. /\ pc \in Copying /\ pc # "idle" /\ pc' # "idle" /\ UNCHANGED <<profile, rows, target, before>>
    BY <1>10 DEF CopyHello, CopyProfile, Label, Copying
  <2>2. /\ archID \in ArchIDs /\ before.hello \in Hellos
        /\ CopyOfSnapshot.hello = before.hello /\ archive[archID].hello \in {None, before.hello}
    BY <1>0, <2>1, CleanCopy, CopyKeepsHellos
  <2>3. Current' = Current
    BY <2>1 DEF Current
  <2>4. \A id \in rows : archive'[id].hello = archive[id].hello
    <3>1. rows \subseteq ArchIDs /\ archive \in [ArchIDs -> Profile] /\ \A id \in rows : archive[id].hello # None
      BY <1>0 DEF Clean, RowsInv, TypeInv, TypeOK
    <3> QED
      BY <1>10, <2>2, <3>1 DEF CopyHello, CopyProfile, Profile
  <2>5. Archived' = Archived
    BY <2>1, <2>4 DEF Archived
  <2> QED
    BY <1>2, <2>3, <2>5
<1>11. CASE Register
  <2>1. /\ pc = "register" /\ pc' = "latest" /\ rows' = rows \cup {archID}
        /\ UNCHANGED <<profile, archive, target, before>>
    BY <1>11 DEF Register
  <2>2. Current' = Current
    BY <2>1 DEF Current
  <2>3. archive[archID].hello = before.hello /\ before.hello # None
    BY <1>0, <2>1 DEF Clean, ChosenInv
  <2>4. Current[target] = before.hello
    BY <1>0, <2>1 DEF Current
  <2>5. Archived' = Archived \cup {Current[target]}
    BY <2>1, <2>3, <2>4 DEF Archived
  <2>6. PICK t \in Targets : t = target
    BY <1>0
  <2>7. History!Archive(t)
    BY <2>2, <2>3, <2>4, <2>5, <2>6 DEF History!Archive, Archived
  <2> QED
    BY <2>7 DEF History!Next
<1>12. ASSUME NEW m \in Majors \cup {0}, UpdateSlot(m) PROVE [History!Next]_(History!vars)
  <2>1. /\ pc = "update" /\ pc' = "idle" /\ serving = {} /\ UNCHANGED <<archive, rows, target>>
    BY <1>0, <1>12 DEF UpdateSlot, Clean, ServingInv
  <2>2. SlotsOnly
    BY <1>12, WriteSlotOnly, NewSlotTypes DEF UpdateSlot, SlotsOnly, ArchiveInv, TypeInv, TypeOK
  <2> DEFINE h == profile[target].hello
  <2>3. Archived' = Archived
    BY <2>1 DEF Archived
  <2>4. Current' = [Current EXCEPT ![target] = h] /\ Current[target] = before.hello
    BY <1>0, <2>1, <2>2 DEF Current, SlotsOnly
  <2>5. before.hello \in Archived \cup {None, h}
    BY <1>0, <2>1 DEF UpdateInv, Clean
  <2>6. CASE h = None
    <3>1. before.hello = None
      BY <1>0, <2>1, <2>6 DEF Clean, BeforeInv
    <3>2. Current' = Current
      BY <2>4, <2>6, <3>1 DEF Current
    <3> QED
      BY <1>2, <2>3, <3>2
  <2>7. CASE h # None
    <3>1. h \in Hellos
      BY <1>0, <2>1, <2>7 DEF Clean, SlotsWhole, TypeInv, TypeOK, Profile, Contents
    <3>2. History!Refresh(target, h)
      BY <2>3, <2>4, <2>5 DEF History!Refresh, Archived
    <3> QED
      BY <1>0, <3>1, <3>2 DEF History!Next
  <2> QED
    BY <2>6, <2>7
<1> QED
  BY <1>0, <1>3, <1>4, <1>6, <1>7, <1>8, <1>9, <1>10, <1>11, <1>12 DEF CleanNext

\* The slots implement SlotHistory until the first fault, two connections at once
\* and connections outside labctl's runs included: no hello is replaced before
\* it is archived, and none leaves the archive, for any targets, families and
\* hellos, where no two JA4s share their prefix (archive.go:166-307).
THEOREM ImplementsSlotHistory ==
  ASSUME DistinctPrefixes
  PROVE  Spec => KeepsSlotHistory
<1>1. ArchiveInv /\ [Next]_vars => [seen' = {} => [History!Next]_(History!vars)]_vars
  BY HistoryStep
<1> QED
  BY <1>1, ArchiveInit, ArchiveStep, HistoryInit, PTL DEF Spec, KeepsSlotHistory

-----------------------------------------------------------------------------
(* Nothing reported is lost                                                *)

ReportedInv == seen = {} => \A th \in reported : Current[th[1]] = th[2] \/ th[2] \in Archived

\* What SlotHistory keeps: a hello in a slot stays there or is in the archive.
LEMMA HistoryKeeps ==
  ASSUME DistinctPrefixes, ArchiveInv, [Next]_vars, seen' = {},
         NEW t \in Targets, Current[t] # None
  PROVE  /\ Archived \subseteq Archived'
         /\ Current'[t] = Current[t] \/ Current[t] \in Archived'
<1>1. [History!Next]_(History!vars)
  BY HistoryStep
<1>2. DOMAIN Current = Targets
  BY DEF Current
<1>3. CASE History!vars' = History!vars
  BY <1>3 DEF History!vars, Archived
<1>4. ASSUME NEW u \in Targets, History!Archive(u)
      PROVE  Archived \subseteq Archived' /\ Current' = Current
  BY <1>4 DEF History!Archive, Archived
<1>5. ASSUME NEW u \in Targets, NEW h \in Hellos, History!Refresh(u, h)
      PROVE  Archived' = Archived /\ (Current'[t] = Current[t] \/ Current[t] \in Archived')
  BY <1>2, <1>5 DEF History!Refresh, Archived
<1> QED
  BY <1>1, <1>3, <1>4, <1>5 DEF History!Next

LEMMA ReportedStep ==
  ASSUME DistinctPrefixes, ArchiveInv, ReportedInv, [Next]_vars
  PROVE  ReportedInv'
<1> SUFFICES ASSUME seen' = {}, NEW th \in reported'
             PROVE  Current'[th[1]] = th[2] \/ th[2] \in Archived'
  BY DEF ReportedInv
<1>1. seen = {} /\ CleanNext
  BY CleanSteps
<1>2. CASE th \in reported
  <2>1. th[1] \in Targets /\ th[2] \in Hellos
    BY <1>2 DEF ArchiveInv, TypeInv, TypeOK
  <2>2. Current[th[1]] = th[2] \/ th[2] \in Archived
    BY <1>1, <1>2 DEF ReportedInv
  <2>3. CASE Current[th[1]] = th[2]
    BY <2>1, <2>3, HistoryKeeps, ArchiveAssumption
  <2>4. CASE th[2] \in Archived
    <3>1. [History!Next]_(History!vars)
      BY HistoryStep
    <3>2. Archived \subseteq Archived'
      BY <3>1 DEF History!Next, History!vars, History!Archive, History!Refresh, Archived
    <3> QED
      BY <2>4, <3>2
  <2> QED
    BY <2>2, <2>3, <2>4
<1>3. CASE th \notin reported
  <2>1. \E m \in Majors \cup {0} : UpdateSlot(m)
    BY <1>1, <1>3 DEF CleanNext, vars, labctl, Snapshot, Accept, Open, Fill, RunSucceeds, KeepSlot, ChooseID,
       CopyHello, CopyProfile, Label, Register, SlotAfterArchive
  <2>2. PICK m \in Majors \cup {0} : UpdateSlot(m)
    BY <2>1
  <2>3. th = <<target, profile[target].hello>> /\ pc' = "idle" /\ target \in Targets
    BY <1>3, <2>2 DEF UpdateSlot, ArchiveInv, TypeInv, TypeOK
  <2>4. profile'[target].hello = profile[target].hello
    <3>1. SlotsOnly
      BY <2>2, WriteSlotOnly, NewSlotTypes DEF UpdateSlot, SlotsOnly, ArchiveInv, TypeInv, TypeOK
    <3> QED
      BY <2>3, <3>1 DEF SlotsOnly
  <2> QED
    BY <2>3, <2>4 DEF Current
<1> QED
  BY <1>2, <1>3

\* No hello labctl reported is lost until the first fault, torn profile or late
\* write, for any number of runs and targets, where no two JA4s share their
\* prefix (archive.go:166-307).
THEOREM NoReportedHelloIsLost ==
  ASSUME DistinctPrefixes
  PROVE  Spec => []NoHelloLostBeforeFaults
<1>1. Init => ReportedInv
  BY DEF Init, ReportedInv
<1>2. ArchiveInv /\ ReportedInv => NoHelloLostBeforeFaults
  <2> SUFFICES ASSUME ArchiveInv, ReportedInv, seen = {}, pc = "idle", NEW th \in reported
               PROVE  profile[th[1]].hello = th[2] \/ \E id \in rows : archive[id].hello = th[2]
    BY DEF NoHelloLostBeforeFaults, NoHelloLost
  <2>1. th[1] \in Targets
    BY DEF ArchiveInv, TypeInv, TypeOK
  <2> QED
    BY <2>1 DEF ReportedInv, Current, Archived
<1>3. ArchiveInv /\ ReportedInv /\ [Next]_vars => ReportedInv'
  BY ReportedStep
<1> QED
  BY <1>1, <1>2, <1>3, ArchiveInit, ArchiveStep, PTL DEF Spec
=============================================================================
