---------------------------- MODULE BackupRunProofs ----------------------------
(***************************************************************************)
(* Theorems about BackupRun for any number of processes, clock readings,   *)
(* days and suffixes, any keep_count and any scenario, with their proofs.  *)
(***************************************************************************)
EXTENDS BackupRun, Induction, FiniteSetTheorems, TLAPS

-----------------------------------------------------------------------------
(* Types, and what the place of a process says of the lock and of the      *)
(* names it works on; the lock excludes unless the scenario says it fails. *)
Active(p) == pc[p] \notin {"start"} \cup Exited
HasTarget == {"reserve"} \cup Writing \cup Rotating \cup Cleaning
Removing == {"rotate2", "rotateDate", "rotateDate2"}

PlaceAt(p) ==
    /\ Active(p) => status[p] = "held"
    /\ pc[p] \in HasTarget => target[p] \in Name
    /\ pc[p] \in Removing => victims[p] # {}
PlaceInv == \A p \in Proc : PlaceAt(p)
ExclusiveInv == "overlap" \notin faults => Lock!Exclusive
TypeInv == TypeOK /\ PlaceInv /\ ExclusiveInv

ProcessOK ==
    /\ status \in [Proc -> Lock!Status]
    /\ pc \in [Proc -> {"start", "flow", "reserve", "release"}
                          \cup Writing \cup Rotating \cup Cleaning \cup Exited]
    /\ target \in [Proc -> Name \cup {<<>>}]
    /\ victims \in [Proc -> SUBSET Name]
    /\ result \in [Proc -> {"none", "ok", "interrupted", "critical"}]
    /\ canceled \subseteq Proc

StoreOK ==
    /\ dates \subseteq {DateOf(t) : t \in Times}
    /\ snap \in [Name -> Snapshot]
    /\ \A n \in Name : snap[n].exists => DateDir(n) \in dates
    /\ clock \in Times \cup {0}
    /\ clobbered \subseteq Name

LEMMA TypeParts == TypeOK <=> faults \in Scenarios /\ ProcessOK /\ StoreOK
  BY DEF TypeOK, ProcessOK, StoreOK

LEMMA NameIsPair ==
  ASSUME NEW n \in Name
  PROVE  n = <<n[1], n[2]>> /\ n[1] \in Nat /\ n[2] \in Nat /\ n[1] \in Times /\ n # <<>>
<1>1. PICK t \in Times, s \in 0 .. Suffixes - 1 : n = <<t, s>>
  BY DEF Name
<1>2. t \in Nat /\ s \in Nat
  BY TimesAssumption, SuffixesAssumption
<1>3. n[1] = t /\ n[2] = s
  BY <1>1
<1> QED
  BY <1>1, <1>2, <1>3

(* The victims have a first one.                                           *)
LEMMA FirstExists ==
  ASSUME NEW V \in SUBSET Name, V # {}
  PROVE  \E n \in V : \A m \in V \ {n} : Before(n, m)
<1>1. \A n \in V : n = <<n[1], n[2]>> /\ n[1] \in Nat /\ n[2] \in Nat
  BY NameIsPair
<1> DEFINE ts == {n[1] : n \in V}
<1>2. ts \in SUBSET Nat /\ ts # {}
  BY <1>1
<1>3. PICK t \in ts : \A u \in ts : t =< u
  BY <1>2, Smallest
<1> DEFINE ss == {n[2] : n \in {m \in V : m[1] = t}}
<1>4. ss \in SUBSET Nat /\ ss # {}
  BY <1>1, <1>3
<1>5. PICK s \in ss : \A u \in ss : s =< u
  <2> HIDE DEF ss, ts
  <2> QED BY <1>4, Smallest
<1>6. PICK n \in V : n[1] = t /\ n[2] = s
  BY <1>5
<1>7. ASSUME NEW m \in V \ {n} PROVE Before(n, m)
  <2>1. m[1] \in ts /\ t =< m[1]
    BY <1>3
  <2>2. CASE m[1] = t
    <3>1. m[2] \in ss /\ s =< m[2]
      BY <2>2, <1>5
    <3>2. m[2] # s
      BY <1>1, <1>6, <1>7, <2>2
    <3> QED
      BY <1>1, <1>6, <2>2, <3>1, <3>2 DEF Before
  <2>3. CASE m[1] # t
    BY <1>1, <1>6, <2>1, <2>3 DEF Before
  <2> QED
    BY <2>2, <2>3
<1> QED
  BY <1>6, <1>7

LEMMA VictimIsOne ==
  ASSUME NEW p \in Proc, victims[p] \in SUBSET Name, victims[p] # {}
  PROVE  Victim(p) \in victims[p] /\ \A m \in victims[p] \ {Victim(p)} : Before(Victim(p), m)
  BY FirstExists DEF Victim

LEMMA NextName ==
  ASSUME NEW n \in Name, n[2] + 1 < Suffixes
  PROVE  [n EXCEPT ![2] = @ + 1] \in Name /\ [n EXCEPT ![2] = @ + 1] = <<n[1], n[2] + 1>>
  BY SuffixesAssumption DEF Name

LEMMA InitialType == Init => TypeInv
<1> SUFFICES ASSUME Init PROVE TypeInv
  OBVIOUS
<1>1. StoreOK
  <2>1. snap = [n \in Name |-> Absent] /\ Absent \in Snapshot /\ Absent.exists = FALSE
    BY DEF Init, Absent, Snapshot
  <2> QED
    BY <2>1 DEF Init, StoreOK
<1>2. ProcessOK
  BY DEF Init, ProcessOK, Lock!LockInit, Lock!Status
<1>3. PlaceInv /\ ExclusiveInv
  BY DEF Init, PlaceInv, PlaceAt, ExclusiveInv, Active, HasTarget, Removing, Writing, Rotating, Cleaning, Exited,
         Lock!LockInit, Lock!Exclusive
<1> QED
  BY <1>1, <1>2, <1>3, TypeParts DEF Init, TypeInv

(* A step of one process leaves the others where they are.                 *)
OthersStay(p) ==
    \A q \in Proc \ {p} :
        /\ pc'[q] = pc[q] /\ status'[q] = status[q] /\ target'[q] = target[q]
        /\ victims'[q] = victims[q] /\ result'[q] = result[q]

LEMMA OthersStep == ASSUME NEW p \in Proc, ProcessOK, Step(p) PROVE OthersStay(p)
<1> USE DEF OthersStay, ProcessOK, Goto, End, local
<1>1. CASE AcquireLock(p)
  BY <1>1 DEF AcquireLock, Lock!Grant, Usurp, Lock!Refuse, Lock!Fail, Lock!Keep
<1>2. CASE CreateDateDir(p) \/ FlowInterrupted(p) \/ CreateFails(p)
  BY <1>2 DEF CreateDateDir, FlowInterrupted, CreateFails, GiveUp
<1>3. CASE Reserve(p)
  BY <1>3 DEF Reserve, NextSuffix, GiveUp
<1>4. CASE Reserve2(p) \/ Reserve2Fails(p)
  BY <1>4 DEF Reserve2, Reserve2Fails, NextSuffix, GiveUp
<1>5. CASE Write(p)
  BY <1>5 DEF Write, WritePartial, CopyGit, ListFiles, GitKilled, CopyFiles, CopyInterrupted, WriteFails,
              RemovePartial, WriteDone, RemoveReserve
<1>6. CASE Rotate(p)
  <2>1. CASE List(p)
    BY <2>1 DEF List
  <2>2. CASE RotateTear(p) \/ RotateRemove(p) \/ RotateEnd(p)
    BY <2>2 DEF RotateTear, RotateRemove, RotateEnd
  <2>3. CASE RotateDateDir(p) \/ RotateDateDir2(p)
    BY <2>3 DEF RotateDateDir, RotateDateDir2, FindDateEmpty
  <2> QED
    BY <1>6, <2>1, <2>2, <2>3 DEF Rotate
<1>7. CASE Cleanup(p)
  BY <1>7 DEF Cleanup, CleanupTear, CleanupRemove, CleanupDateDir, CleanupDateDir2, FindDateEmpty
<1>8. CASE ReleaseLock(p) \/ Signal(p) \/ Kill(p)
  BY <1>8 DEF ReleaseLock, Signal, Kill, Lock!GiveBack, Lock!Keep, Lock!Die
<1> QED
  BY <1>1, <1>2, <1>3, <1>4, <1>5, <1>6, <1>7, <1>8 DEF Step, Begin

(* The lock: a process that runs holds it.                                 *)
LEMMA StepLock ==
  ASSUME NEW p \in Proc, ProcessOK, PlaceAt(p), ExclusiveInv, Step(p), UNCHANGED faults
  PROVE  status' \in [Proc -> Lock!Status] /\ (Active(p)' => status'[p] = "held") /\ ExclusiveInv'
<1> USE DEF ProcessOK, PlaceAt, Goto, End, Active, Exited, ExclusiveInv, Lock!Exclusive, Lock!Status
<1>1. CASE AcquireLock(p)
  <2>1. CASE Lock!Grant(p) /\ Goto(p, "flow")
    BY <2>1 DEF Lock!Grant
  <2>2. CASE Usurp(p) /\ Goto(p, "flow")
    BY <2>2 DEF Usurp
  <2>3. CASE Lock!Refuse(p) /\ Goto(p, "busy")
    BY <2>3 DEF Lock!Refuse
  <2>4. CASE (Lock!Fail(p) \/ Lock!Keep(p)) /\ Goto(p, "critical")
    BY <2>4 DEF Lock!Fail, Lock!Keep
  <2> QED
    BY <1>1, <2>1, <2>2, <2>3, <2>4 DEF AcquireLock
<1>2. CASE UNCHANGED status /\ Active(p)
  BY <1>2
<1>3. CASE ReleaseLock(p) \/ Kill(p)
  BY <1>3 DEF ReleaseLock, Kill, Lock!GiveBack, Lock!Keep, Lock!Die
<1>4. CASE UNCHANGED status /\ pc[p] \notin {"start"} \cup Exited
  BY <1>4
<1> QED
  <2>1. CASE Begin(p) /\ ~AcquireLock(p)
    BY <2>1, <1>4 DEF Begin, CreateDateDir, FlowInterrupted, CreateFails, Reserve, Reserve2, Reserve2Fails
  <2>2. CASE Write(p)
    BY <2>2, <1>4 DEF Write, WritePartial, CopyGit, ListFiles, GitKilled, CopyFiles, CopyInterrupted, WriteFails,
              RemovePartial, WriteDone, RemoveReserve
  <2>3. CASE Rotate(p)
    BY <2>3, <1>4 DEF Rotate, List, RotateTear, RotateRemove, RotateDateDir, RotateDateDir2, RotateEnd
  <2>4. CASE Cleanup(p) \/ Signal(p)
    BY <2>4, <1>4 DEF Cleanup, CleanupTear, CleanupRemove, CleanupDateDir, CleanupDateDir2, Signal
  <2> QED
    BY <1>1, <1>3, <2>1, <2>2, <2>3, <2>4 DEF Step

LocalOK ==
    /\ pc \in [Proc -> {"start", "flow", "reserve", "release"}
                          \cup Writing \cup Rotating \cup Cleaning \cup Exited]
    /\ target \in [Proc -> Name \cup {<<>>}]
    /\ victims \in [Proc -> SUBSET Name]
    /\ result \in [Proc -> {"none", "ok", "interrupted", "critical"}]
    /\ canceled \subseteq Proc

TargetOK(p) ==
    /\ pc[p] \in HasTarget => target[p] \in Name
    /\ pc[p] \in Removing => victims[p] # {}

LEMMA NextSuffixLocal ==
  ASSUME NEW p \in Proc, LocalOK, target[p] \in Name, NextSuffix(p), UNCHANGED <<victims, canceled>>
  PROVE  LocalOK' /\ TargetOK(p)'
<1> USE DEF LocalOK, TargetOK, Goto, End, Writing, Rotating, Cleaning, Exited, HasTarget, Removing
<1>1. CASE target[p][2] + 1 < Suffixes
  <2>1. target' = [target EXCEPT ![p] = [target[p] EXCEPT ![2] = @ + 1]]
    BY <1>1 DEF NextSuffix
  <2>2. [target[p] EXCEPT ![2] = @ + 1] \in Name
    BY <1>1, NextName
  <2>3. pc' = [pc EXCEPT ![p] = "reserve"] /\ result' = result
    BY <1>1 DEF NextSuffix
  <2> HIDE DEF Name
  <2> QED
    BY <2>1, <2>2, <2>3
<1>2. CASE ~(target[p][2] + 1 < Suffixes)
  BY <1>2 DEF NextSuffix, GiveUp
<1> QED
  BY <1>1, <1>2

LEMMA StepLocal ==
  ASSUME NEW p \in Proc, LocalOK, TargetOK(p), Step(p)
  PROVE  LocalOK' /\ TargetOK(p)'
<1> USE DEF LocalOK, TargetOK, Goto, End, Writing, Rotating, Cleaning, Exited, HasTarget, Removing, local
<1>1. CASE AcquireLock(p)
  BY <1>1 DEF AcquireLock
<1>2. CASE CreateDateDir(p)
  <2>1. PICK t \in Times : target' = [target EXCEPT ![p] = <<t, 0>>]
    BY <1>2 DEF CreateDateDir
  <2>2. <<t, 0>> \in Name
    BY SuffixesAssumption DEF Name
  <2> QED
    BY <1>2, <2>1, <2>2 DEF CreateDateDir
<1>3. CASE FlowInterrupted(p) \/ CreateFails(p)
  BY <1>3 DEF FlowInterrupted, CreateFails, GiveUp
<1>4. CASE Reserve(p)
  <2>1. CASE snap[target[p]].exists
    BY <1>4, <2>1, NextSuffixLocal DEF Reserve
  <2>2. CASE ~snap[target[p]].exists
    BY <1>4, <2>2 DEF Reserve
  <2> QED
    BY <2>1, <2>2
<1>5. CASE Reserve2(p)
  BY <1>5 DEF Reserve2
<1>6. CASE Reserve2Fails(p)
  <2>1. CASE NextSuffix(p)
    BY <1>6, <2>1, NextSuffixLocal DEF Reserve2Fails
  <2>2. CASE GiveUp(p)
    BY <1>6, <2>2 DEF Reserve2Fails, GiveUp
  <2> QED
    BY <1>6, <2>1, <2>2 DEF Reserve2Fails
<1>7. CASE WritePartial(p) \/ CopyGit(p) \/ ListFiles(p) \/ GitKilled(p) \/ CopyFiles(p)
  BY <1>7 DEF WritePartial, CopyGit, ListFiles, GitKilled, CopyFiles
<1>8. CASE CopyInterrupted(p) \/ WriteFails(p) \/ RemovePartial(p) \/ WriteDone(p) \/ RemoveReserve(p)
  BY <1>8 DEF CopyInterrupted, WriteFails, RemovePartial, WriteDone, RemoveReserve
<1>9. CASE List(p)
  <2>1. PICK V \in SUBSET Name : victims' = [victims EXCEPT ![p] = V]
    BY <1>9 DEF List, Oldest
  <2> QED
    BY <1>9, <2>1 DEF List
<1>10. CASE RotateTear(p) \/ RotateRemove(p) \/ RotateEnd(p)
  BY <1>10 DEF RotateTear, RotateRemove, RotateEnd
<1>11. CASE RotateDateDir(p)
  <2>1. CASE pc' = [pc EXCEPT ![p] = "rotate"]
    BY <1>11, <2>1 DEF RotateDateDir
  <2>2. CASE pc' = [pc EXCEPT ![p] = "rotateDate2"]
    BY <1>11, <2>2 DEF RotateDateDir
  <2> QED
    BY <1>11, <2>1, <2>2 DEF RotateDateDir, FindDateEmpty
<1>12. CASE RotateDateDir2(p)
  BY <1>12 DEF RotateDateDir2
<1>13. CASE CleanupTear(p) \/ CleanupRemove(p) \/ CleanupDateDir(p) \/ CleanupDateDir2(p)
  BY <1>13 DEF CleanupTear, CleanupRemove, CleanupDateDir, CleanupDateDir2, FindDateEmpty
<1>14. CASE ReleaseLock(p) \/ Signal(p) \/ Kill(p)
  BY <1>14 DEF ReleaseLock, Signal, Kill
<1> QED
  BY <1>1, <1>2, <1>3, <1>4, <1>5, <1>6, <1>7, <1>8, <1>9, <1>10, <1>11, <1>12, <1>13, <1>14
     DEF Step, Begin, Write, Rotate, Cleanup

-----------------------------------------------------------------------------
(* The file system.                                                        *)
LEMMA SnapshotIsRecord ==
  ASSUME NEW s \in Snapshot
  PROVE  /\ s = [exists |-> s.exists, marks |-> s.marks, content |-> s.content]
         /\ s.exists \in BOOLEAN /\ s.marks \subseteq Marker /\ s.content \in Content
         /\ ~s.exists => s = Absent
<1>1. CASE s = Absent
  BY <1>1 DEF Absent, Content
<1>2. CASE s \in [exists : {TRUE}, marks : SUBSET Marker, content : Content]
  BY <1>2
<1> QED
  BY <1>1, <1>2 DEF Snapshot

LEMMA MakeSnapshot ==
  ASSUME NEW marks \in SUBSET Marker, NEW content \in Content
  PROVE  [exists |-> TRUE, marks |-> marks, content |-> content] \in Snapshot
  BY DEF Snapshot

LEMMA WithMarks ==
  ASSUME NEW s, s = [exists |-> s.exists, marks |-> s.marks, content |-> s.content], NEW marks
  PROVE  [s EXCEPT !.marks = marks] = [exists |-> s.exists, marks |-> marks, content |-> s.content]
  OBVIOUS

LEMMA WithContent ==
  ASSUME NEW s, s = [exists |-> s.exists, marks |-> s.marks, content |-> s.content], NEW exists, NEW content
  PROVE  [[s EXCEPT !.exists = exists] EXCEPT !.content = content]
            = [exists |-> exists, marks |-> s.marks, content |-> content]
<1>1. PICK r : r = [s EXCEPT !.exists = exists]
  OBVIOUS
<1>2. r = [exists |-> exists, marks |-> s.marks, content |-> s.content]
  BY <1>1
<1>3. [r EXCEPT !.content = content] = [exists |-> exists, marks |-> s.marks, content |-> content]
  BY <1>2
<1> QED
  BY <1>1, <1>3

LEMMA RemovedStore ==
  ASSUME StoreOK, NEW p \in Proc, NEW names \in SUBSET Name, Removed(p, names, [n \in names |-> Absent])
  PROVE  /\ snap' \in [Name -> Snapshot] /\ clobbered' \subseteq Name
         /\ \A n \in Name : snap'[n] = IF n \in names THEN Absent ELSE snap[n]
<1>1. Absent \in Snapshot
  BY DEF Snapshot
<1> HIDE DEF Absent, Snapshot
<1> QED
  BY <1>1 DEF Removed, StoreOK

LEMMA TornStore ==
  ASSUME StoreOK, NEW p \in Proc, NEW n \in Name, Tear(p, n), UNCHANGED <<dates, clock>>
  PROVE  StoreOK'
<1>1. PICK m \in SUBSET snap[n].marks :
         Removed(p, {n}, [k \in {n} |-> IF snap[n].exists
                                       THEN [exists |-> TRUE, marks |-> m, content |-> "torn"]
                                       ELSE Absent])
  BY DEF Tear
<1> DEFINE new == IF snap[n].exists THEN [exists |-> TRUE, marks |-> m, content |-> "torn"] ELSE Absent
<1>2. new \in Snapshot /\ (new.exists => snap[n].exists)
  <2>1. m \in SUBSET Marker /\ "torn" \in Content
    BY SnapshotIsRecord DEF StoreOK, Content
  <2>2. Absent \in Snapshot /\ ~Absent.exists
    BY DEF Snapshot, Absent
  <2> QED
    BY <2>1, <2>2, MakeSnapshot
<1>3. snap' = [k \in Name |-> IF k \in {n} THEN new ELSE snap[k]] /\ clobbered' \subseteq Name
  BY <1>1 DEF Removed, StoreOK
<1> HIDE DEF new, Snapshot
<1> QED
  BY <1>2, <1>3 DEF StoreOK

LEMMA MarkedStore ==
  ASSUME StoreOK, NEW n \in Name, NEW marker \in Marker, UNCHANGED <<dates, clock, clobbered>>,
         (Mark(n, marker) /\ snap[n].exists) \/ Unmark(n, marker)
  PROVE  StoreOK'
<1>1. /\ snap[n] \in Snapshot
      /\ snap[n] = [exists |-> snap[n].exists, marks |-> snap[n].marks, content |-> snap[n].content]
      /\ snap[n].exists \in BOOLEAN /\ snap[n].marks \subseteq Marker /\ snap[n].content \in Content
      /\ ~snap[n].exists => snap[n] = Absent
  BY SnapshotIsRecord DEF StoreOK
<1>2. PICK new \in Snapshot : snap' = [snap EXCEPT ![n] = new] /\ new.exists = snap[n].exists
  <2>1. CASE Mark(n, marker) /\ snap[n].exists
    <3> DEFINE new == [exists |-> TRUE, marks |-> snap[n].marks \cup {marker}, content |-> snap[n].content]
    <3>1. new \in Snapshot
      BY <1>1, MakeSnapshot
    <3>2. snap' = [snap EXCEPT ![n] = new]
      <4>1. snap' = [snap EXCEPT ![n] = [snap[n] EXCEPT !.marks = snap[n].marks \cup {marker}]]
        BY <2>1 DEF Mark
      <4>2. [snap[n] EXCEPT !.marks = snap[n].marks \cup {marker}]
               = [exists |-> snap[n].exists, marks |-> snap[n].marks \cup {marker}, content |-> snap[n].content]
        BY <1>1, WithMarks
      <4> QED
        BY <1>1, <2>1, <4>1, <4>2
    <3> QED
      BY <2>1, <3>1, <3>2
  <2>2. CASE Unmark(n, marker) /\ snap[n].exists
    <3> DEFINE new == [exists |-> TRUE, marks |-> snap[n].marks \ {marker}, content |-> snap[n].content]
    <3>1. new \in Snapshot
      BY <1>1, MakeSnapshot
    <3>2. snap' = [snap EXCEPT ![n] = new]
      <4>1. snap' = [snap EXCEPT ![n] = [snap[n] EXCEPT !.marks = snap[n].marks \ {marker}]]
        BY <2>2 DEF Unmark
      <4>2. [snap[n] EXCEPT !.marks = snap[n].marks \ {marker}]
               = [exists |-> snap[n].exists, marks |-> snap[n].marks \ {marker}, content |-> snap[n].content]
        BY <1>1, WithMarks
      <4> QED
        BY <1>1, <2>2, <4>1, <4>2
    <3> QED
      BY <2>2, <3>1, <3>2
  <2>3. CASE Unmark(n, marker) /\ ~snap[n].exists
    <3>1. snap' = [snap EXCEPT ![n] = snap[n]]
      <4>1. snap' = [snap EXCEPT ![n] = [snap[n] EXCEPT !.marks = snap[n].marks \ {marker}]]
        BY <2>3 DEF Unmark
      <4>2. [snap[n] EXCEPT !.marks = snap[n].marks \ {marker}]
               = [exists |-> snap[n].exists, marks |-> snap[n].marks \ {marker}, content |-> snap[n].content]
        BY <1>1, WithMarks
      <4>3. snap[n].marks \ {marker} = snap[n].marks
        BY <1>1, <2>3 DEF Absent
      <4> QED
        BY <1>1, <4>1, <4>2, <4>3
    <3> QED
      BY <1>1, <3>1
  <2> QED
    BY <2>1, <2>2, <2>3
<1> HIDE DEF Snapshot
<1> QED
  BY <1>2 DEF StoreOK

LEMMA AddedStore ==
  ASSUME StoreOK, NEW n \in Name, NEW part \in {"git", "files", "all"}, AddContent(n, part),
         UNCHANGED <<clock, clobbered>>
  PROVE  StoreOK'
<1>1. /\ snap[n] = [exists |-> snap[n].exists, marks |-> snap[n].marks, content |-> snap[n].content]
      /\ snap[n].marks \subseteq Marker /\ snap[n].content \in Content
  BY SnapshotIsRecord DEF StoreOK
<1> DEFINE new == [exists |-> TRUE, marks |-> snap[n].marks,
                   content |-> IF snap[n].content = "torn" THEN "torn" ELSE part]
<1>2. new \in Snapshot /\ new.exists
  BY <1>1, MakeSnapshot DEF Content
<1>3. snap' = [snap EXCEPT ![n] = new]
  <2> DEFINE more == IF snap[n].content = "torn" THEN "torn" ELSE part
  <2>1. snap' = [snap EXCEPT ![n] = [[snap[n] EXCEPT !.exists = TRUE] EXCEPT !.content = more]]
    BY DEF AddContent
  <2>2. [[snap[n] EXCEPT !.exists = TRUE] EXCEPT !.content = more] = new
    BY <1>1, WithContent, Zenon
  <2> QED
    BY <2>1, <2>2
<1>4. dates' = dates \cup {DateDir(n)} /\ DateDir(n) \in {DateOf(t) : t \in Times}
  BY NameIsPair DEF AddContent, DateDir
<1> HIDE DEF new, Snapshot
<1> QED
  BY <1>2, <1>3, <1>4 DEF StoreOK

LEMMA GoneStore ==
  ASSUME StoreOK, NEW p \in Proc, NEW n \in Name, Removed(p, {n}, [k \in {n} |-> Absent]),
         UNCHANGED <<dates, clock>>
  PROVE  StoreOK'
<1>1. /\ snap' \in [Name -> Snapshot] /\ clobbered' \subseteq Name
      /\ \A k \in Name : snap'[k] = IF k \in {n} THEN Absent ELSE snap[k]
  BY RemovedStore
<1> QED
  BY <1>1 DEF StoreOK, Absent

LEMMA DateGoneStore ==
  ASSUME StoreOK, NEW p \in Proc, NEW d, RemoveDate(p, d), UNCHANGED clock
  PROVE  StoreOK'
<1> DEFINE names == {n \in Name : DateDir(n) = d}
<1>1. /\ snap' \in [Name -> Snapshot] /\ clobbered' \subseteq Name
      /\ \A k \in Name : snap'[k] = IF k \in names THEN Absent ELSE snap[k]
  <2>1. Removed(p, names, [n \in names |-> Absent])
    BY DEF RemoveDate
  <2> QED
    BY <2>1, RemovedStore
<1>2. \A n \in Name : snap'[n].exists => snap[n].exists /\ DateDir(n) # d
  BY <1>1 DEF Absent
<1>3. dates' = dates \ {d}
  BY DEF RemoveDate
<1> QED
  BY <1>1, <1>2, <1>3 DEF StoreOK

LEMMA StepStore ==
  ASSUME NEW p \in Proc, StoreOK, LocalOK, TargetOK(p), Step(p)
  PROVE  StoreOK'
<1>1. CASE UNCHANGED <<store, clock, clobbered>>
  BY <1>1 DEF store, StoreOK
<1>2. CASE CreateDateDir(p)
  BY <1>2 DEF CreateDateDir, StoreOK
<1>3. CASE Reserve(p)
  <2>1. CASE UNCHANGED snap
    BY <1>3, <2>1 DEF Reserve, StoreOK
  <2>2. CASE snap' = [snap EXCEPT ![target[p]] = Fresh]
    <3>1. target[p] \in Name /\ DateDir(target[p]) \in dates
      BY <1>3 DEF Reserve, TargetOK, HasTarget
    <3>2. Fresh \in Snapshot /\ Fresh.exists
      BY MakeSnapshot DEF Fresh, Content
    <3> HIDE DEF Fresh, Snapshot
    <3> QED
      BY <1>3, <2>2, <3>1, <3>2 DEF Reserve, StoreOK
  <2> QED
    BY <1>3, <2>1, <2>2 DEF Reserve
<1>4. CASE Reserve2(p) \/ WritePartial(p) \/ WriteDone(p)
  BY <1>4, MarkedStore DEF Reserve2, WritePartial, WriteDone, Marker, TargetOK, HasTarget, Writing
<1>5. CASE RemovePartial(p) \/ RemoveReserve(p)
  <2>1. target[p] \in Name /\ UNCHANGED <<dates, clock, clobbered>>
    BY <1>5 DEF RemovePartial, RemoveReserve, TargetOK, HasTarget, Writing
  <2>2. CASE UNCHANGED snap
    BY <2>1, <2>2 DEF StoreOK
  <2>3. CASE Unmark(target[p], ".partial") \/ Unmark(target[p], ".reserve")
    BY <2>1, <2>3, MarkedStore DEF Marker
  <2> QED
    BY <1>5, <2>2, <2>3 DEF RemovePartial, RemoveReserve
<1>6. CASE Reserve2Fails(p)
  BY <1>6, GoneStore DEF Reserve2Fails, TargetOK, HasTarget, Writing
<1>7. CASE CopyGit(p) \/ CopyFiles(p)
  BY <1>7, AddedStore DEF CopyGit, CopyFiles, TargetOK, HasTarget, Writing
<1>8. pc[p] \in {"rotate", "rotate2", "rotateDate", "rotateDate2"} /\ victims[p] # {} => Victim(p) \in Name
  BY VictimIsOne DEF LocalOK
<1>9. CASE RotateTear(p)
  BY <1>8, <1>9, TornStore DEF RotateTear
<1>10. CASE RotateRemove(p)
  <2>1. Victim(p) \in Name /\ UNCHANGED <<dates, clock>>
    BY <1>8, <1>10 DEF RotateRemove, TargetOK, Removing
  <2> QED
    BY <1>10, <2>1, GoneStore DEF RotateRemove, StoreOK
<1>11. CASE RotateDateDir2(p)
  BY <1>11, DateGoneStore DEF RotateDateDir2
<1>12. CASE CleanupTear(p)
  BY <1>12, TornStore DEF CleanupTear, TargetOK, HasTarget, Cleaning
<1>13. CASE CleanupRemove(p)
  <2>1. target[p] \in Name /\ UNCHANGED <<dates, clock>>
    BY <1>13 DEF CleanupRemove, TargetOK, HasTarget, Cleaning
  <2> QED
    BY <1>13, <2>1, GoneStore DEF CleanupRemove, StoreOK
<1>14. CASE CleanupDateDir2(p)
  BY <1>14, DateGoneStore DEF CleanupDateDir2
<1>15. CASE AcquireLock(p) \/ FlowInterrupted(p) \/ CreateFails(p) \/ ListFiles(p) \/ GitKilled(p)
            \/ CopyInterrupted(p) \/ WriteFails(p)
  BY <1>15, <1>1 DEF AcquireLock, FlowInterrupted, CreateFails, ListFiles, GitKilled, CopyInterrupted, WriteFails
<1>16. CASE List(p) \/ RotateDateDir(p) \/ RotateEnd(p) \/ CleanupDateDir(p) \/ ReleaseLock(p) \/ Signal(p) \/ Kill(p)
  BY <1>16, <1>1 DEF List, RotateDateDir, RotateEnd, CleanupDateDir, ReleaseLock, Signal, Kill
<1> QED
  BY <1>2, <1>3, <1>4, <1>5, <1>6, <1>7, <1>9, <1>10, <1>11, <1>12, <1>13, <1>14, <1>15, <1>16
     DEF Step, Begin, Write, Rotate, Cleanup

LEMMA TypeInductive == ASSUME TypeInv, [Next]_vars PROVE TypeInv'
<1>1. faults \in Scenarios /\ ProcessOK /\ StoreOK /\ PlaceInv /\ ExclusiveInv
  BY TypeParts DEF TypeInv
<1>2. ASSUME NEW p \in Proc, Step(p), UNCHANGED faults PROVE TypeInv'
  <2>1. PlaceAt(p) /\ TargetOK(p) /\ LocalOK
    BY <1>1 DEF PlaceInv, PlaceAt, TargetOK, ProcessOK, LocalOK
  <2>2. StoreOK' /\ LocalOK' /\ TargetOK(p)'
    BY <1>1, <1>2, <2>1, StepStore, StepLocal
  <2>3. status' \in [Proc -> Lock!Status] /\ (Active(p)' => status'[p] = "held") /\ ExclusiveInv'
    BY <1>1, <1>2, <2>1, StepLock
  <2>4. OthersStay(p)
    BY <1>1, <1>2, OthersStep
  <2>5. PlaceInv'
    BY <1>1, <2>2, <2>3, <2>4 DEF PlaceInv, PlaceAt, TargetOK, OthersStay, Active
  <2>6. ProcessOK'
    BY <2>2, <2>3 DEF ProcessOK, LocalOK
  <2> QED
    BY <1>1, <1>2, <2>2, <2>3, <2>5, <2>6 DEF TypeInv, TypeOK, ProcessOK, StoreOK
<1>3. CASE UNCHANGED vars
  BY <1>3 DEF vars, store, local, TypeInv, TypeOK, PlaceInv, PlaceAt, ExclusiveInv, Active, Lock!Exclusive
<1> QED
  BY <1>2, <1>3 DEF Next, AllExited

THEOREM TypeInvariant == Spec => []TypeInv
<1>1. TypeInv /\ [Next]_vars => TypeInv'
  BY TypeInductive
<1> QED
  BY <1>1, InitialType, PTL DEF Spec

(* Every variable keeps its type, and every snapshot is in a directory of  *)
(* its date that exists, whatever goes wrong.                              *)
THEOREM TypeCorrect == Spec => []TypeOK
<1>1. TypeInv => TypeOK
  BY DEF TypeInv
<1> QED
  BY <1>1, TypeInvariant, PTL

-----------------------------------------------------------------------------
(* The reservation.  A writer whose directory is gone was clobbered, and   *)
(* so a directory can be reserved again only after that.                   *)
WriterInv == \A q \in Proc : pc[q] \in Writing /\ ~snap[target[q]].exists => target[q] \in clobbered
ReserveInv == WriterInv /\ ReservationIsExclusive

(* What a step of p may do to the directory another process writes.        *)
SparesWriters(p) ==
    \A q \in Proc \ {p} : pc[q] \in Writing /\ snap[target[q]].exists =>
        snap'[target[q]].exists \/ target[q] \in clobbered'

LEMMA ReserveFrame ==
  ASSUME NEW p \in Proc, OthersStay(p), SparesWriters(p), clobbered \subseteq clobbered', ReserveInv,
         pc'[p] \in Writing => /\ pc[p] \in Writing /\ target'[p] = target[p]
                               /\ snap[target[p]].exists => snap'[target[p]].exists
  PROVE  ReserveInv'
<1>1. WriterInv'
  BY DEF OthersStay, SparesWriters, ReserveInv, WriterInv
<1>2. ReservationIsExclusive'
  BY DEF OthersStay, ReserveInv, ReservationIsExclusive
<1> QED
  BY <1>1, <1>2 DEF ReserveInv

LEMMA RemovedSpares ==
  ASSUME NEW p \in Proc, NEW names \in SUBSET Name, NEW new, Removed(p, names, new), ProcessOK,
         \A q \in Proc : pc[q] \in HasTarget => target[q] \in Name
  PROVE  SparesWriters(p) /\ clobbered \subseteq clobbered'
<1>1. \A n \in Name \ names : snap'[n] = snap[n]
  BY DEF Removed
<1>2. \A n \in names : (\E q \in Proc \ {p} : snap[n].exists /\ IsWriter(q, n)) => n \in clobbered'
  BY DEF Removed
<1>3. \A q \in Proc : pc[q] \in Writing => target[q] \in Name
  BY DEF HasTarget
<1>4. clobbered \subseteq clobbered'
  BY DEF Removed
<1> QED
  BY <1>1, <1>2, <1>3, <1>4 DEF SparesWriters, IsWriter

(* A step that does not remove anything spares everybody.                  *)
Grows == \A n \in Name : snap[n].exists => snap'[n].exists

LEMMA MarksGrow ==
  ASSUME StoreOK, NEW n \in Name, NEW marker,
         Mark(n, marker) \/ Unmark(n, marker)
  PROVE  Grows
<1>1. PICK marks : snap' = [snap EXCEPT ![n] = [snap[n] EXCEPT !.marks = marks]]
  BY DEF Mark, Unmark
<1>2. snap[n] = [exists |-> snap[n].exists, marks |-> snap[n].marks, content |-> snap[n].content]
  BY SnapshotIsRecord DEF StoreOK
<1>3. [snap[n] EXCEPT !.marks = marks] = [exists |-> snap[n].exists, marks |-> marks, content |-> snap[n].content]
  BY <1>2, WithMarks
<1> QED
  BY <1>1, <1>3 DEF StoreOK, Grows

LEMMA ContentGrows ==
  ASSUME StoreOK, NEW n \in Name, NEW part, AddContent(n, part)
  PROVE  Grows
  BY DEF StoreOK, AddContent, Grows

LEMMA ReserveKept ==
  ASSUME NEW p \in Proc, ProcessOK, StoreOK, PlaceInv, ReserveInv, Step(p)
  PROVE  ReserveInv'
<1>1. OthersStay(p) /\ \A q \in Proc : pc[q] \in HasTarget => target[q] \in Name
  BY OthersStep DEF PlaceInv, PlaceAt
<1>2. \A q \in Proc : pc[q] \in Writing => target[q] \in Name
  BY <1>1 DEF HasTarget
<1>3. ASSUME Grows, UNCHANGED clobbered,
             pc'[p] \in Writing => pc[p] \in Writing /\ target'[p] = target[p]
      PROVE  ReserveInv'
  <2>1. SparesWriters(p)
    BY <1>2, <1>3 DEF SparesWriters, Grows
  <2>2. pc'[p] \in Writing /\ snap[target[p]].exists => snap'[target[p]].exists
    BY <1>2, <1>3 DEF Grows
  <2> QED
    BY <1>1, <1>3, <2>1, <2>2, ReserveFrame
<1>4. ASSUME NEW names \in SUBSET Name, NEW new, Removed(p, names, new), pc'[p] \notin Writing
      PROVE  ReserveInv'
  BY <1>1, <1>4, RemovedSpares, ReserveFrame
<1> USE DEF ProcessOK, Goto, End
<1>5. CASE Begin(p)
  <2>1. CASE AcquireLock(p) \/ CreateDateDir(p) \/ FlowInterrupted(p) \/ CreateFails(p)
    <3>1. Grows /\ UNCHANGED clobbered
      BY <2>1 DEF AcquireLock, CreateDateDir, FlowInterrupted, CreateFails, store, Grows
    <3>2. pc'[p] \notin Writing
      BY <2>1 DEF AcquireLock, CreateDateDir, FlowInterrupted, CreateFails, GiveUp, Writing
    <3> QED
      BY <1>3, <3>1, <3>2
  <2>2. CASE Reserve(p) /\ snap[target[p]].exists
    <3>1. Grows /\ UNCHANGED clobbered
      BY <2>2 DEF Reserve, Grows
    <3>2. pc'[p] \notin Writing
      BY <2>2 DEF Reserve, NextSuffix, GiveUp, Writing
    <3> QED
      BY <1>3, <3>1, <3>2
  <2>3. CASE Reserve(p) /\ ~snap[target[p]].exists
    <3>1. /\ target[p] \in Name /\ snap' = [snap EXCEPT ![target[p]] = Fresh]
          /\ target' = target /\ UNCHANGED clobbered
      BY <1>1, <2>3 DEF Reserve, HasTarget
    <3>2. snap'[target[p]].exists /\ \A n \in Name \ {target[p]} : snap'[n] = snap[n]
      BY <3>1 DEF StoreOK, Fresh
    <3>3. WriterInv'
      <4>1. \A q \in Proc \ {p} : pc'[q] = pc[q]
        BY <1>1 DEF OthersStay
      <4> QED
        BY <1>2, <3>1, <3>2, <4>1 DEF ReserveInv, WriterInv
    <3>4. \A q \in Proc \ {p} : pc[q] \in Writing /\ target[q] = target[p] => target[p] \in clobbered
      BY <2>3 DEF ReserveInv, WriterInv
    <3>5. ReservationIsExclusive'
      BY <1>1, <3>1, <3>4 DEF OthersStay, ReserveInv, ReservationIsExclusive
    <3> QED
      BY <3>3, <3>5 DEF ReserveInv
  <2>4. CASE Reserve2(p)
    BY <1>2, <1>3, <2>4, MarksGrow DEF Reserve2, local, Writing
  <2>5. CASE Reserve2Fails(p)
    <3>1. pc'[p] \notin Writing
      BY <2>5 DEF Reserve2Fails, NextSuffix, GiveUp, Writing
    <3>2. {target[p]} \in SUBSET Name
      BY <1>2, <2>5 DEF Reserve2Fails, Writing
    <3> QED
      BY <1>4, <2>5, <3>1, <3>2 DEF Reserve2Fails
  <2> QED
    BY <1>5, <2>1, <2>2, <2>3, <2>4, <2>5 DEF Begin
<1>6. CASE Write(p)
  <2>1. pc[p] \in Writing /\ target' = target /\ UNCHANGED clobbered
    BY <1>6 DEF Write, WritePartial, CopyGit, ListFiles, GitKilled, CopyFiles, CopyInterrupted, WriteFails,
              RemovePartial, WriteDone, RemoveReserve, local, Writing
  <2>2. Grows
    <3>1. CASE UNCHANGED snap
      BY <3>1 DEF Grows
    <3>2. target[p] \in Name
      BY <1>2, <2>1
    <3> QED
      BY <1>6, <3>1, <3>2, MarksGrow, ContentGrows
         DEF Write, WritePartial, CopyGit, ListFiles, GitKilled, CopyFiles, CopyInterrupted, WriteFails,
              RemovePartial, WriteDone, RemoveReserve, store
  <2> QED
    BY <1>3, <2>1, <2>2
<1>7. CASE Rotate(p)
  <2>1. pc'[p] \notin Writing
    BY <1>7 DEF Rotate, List, RotateTear, RotateRemove, RotateDateDir, RotateDateDir2, RotateEnd, FindDateEmpty,
              Writing
  <2>2. CASE UNCHANGED <<snap, clobbered>>
    BY <1>3, <2>1, <2>2 DEF Grows
  <2>3. CASE RotateTear(p) \/ (RotateRemove(p) /\ ~UNCHANGED <<snap, clobbered>>)
    <3>1. victims[p] # {}
      BY <2>3 DEF RotateTear, RotateRemove, PlaceInv, PlaceAt, Removing
    <3>2. {Victim(p)} \in SUBSET Name
      BY <3>1, VictimIsOne
    <3>3. \E new : Removed(p, {Victim(p)}, new)
      BY <2>3 DEF RotateTear, RotateRemove, Tear
    <3> QED
      BY <1>4, <2>1, <3>2, <3>3
  <2>4. CASE RotateDateDir2(p)
    BY <1>4, <2>1, <2>4 DEF RotateDateDir2, RemoveDate
  <2> QED
    BY <1>7, <2>2, <2>3, <2>4 DEF Rotate, List, RotateRemove, RotateDateDir, RotateEnd, store
<1>8. CASE Cleanup(p)
  <2>1. pc'[p] \notin Writing
    BY <1>8 DEF Cleanup, CleanupTear, CleanupRemove, CleanupDateDir, CleanupDateDir2, FindDateEmpty, Writing
  <2>2. CASE UNCHANGED <<snap, clobbered>>
    BY <1>3, <2>1, <2>2 DEF Grows
  <2>3. CASE CleanupTear(p) \/ (CleanupRemove(p) /\ ~UNCHANGED <<snap, clobbered>>)
    <3>1. {target[p]} \in SUBSET Name
      BY <1>1, <2>3 DEF CleanupTear, CleanupRemove, HasTarget, Cleaning
    <3>2. \E new : Removed(p, {target[p]}, new)
      BY <2>3 DEF CleanupTear, CleanupRemove, Tear
    <3> QED
      BY <1>4, <2>1, <3>1, <3>2
  <2>4. CASE CleanupDateDir2(p)
    BY <1>4, <2>1, <2>4 DEF CleanupDateDir2, RemoveDate
  <2> QED
    BY <1>8, <2>2, <2>3, <2>4 DEF Cleanup, CleanupRemove, CleanupDateDir, store
<1>9. CASE ReleaseLock(p) \/ Signal(p) \/ Kill(p)
  <2>1. Grows /\ UNCHANGED <<clobbered, target>> /\ (pc'[p] \in Writing => pc[p] \in Writing)
    BY <1>9 DEF ReleaseLock, Signal, Kill, store, local, Grows, Writing
  <2> QED
    BY <1>3, <2>1
<1> QED
  BY <1>5, <1>6, <1>7, <1>8, <1>9 DEF Step

(* Whatever goes wrong, two processes write to one snapshot directory only *)
(* after a third one removed it from under its first writer.               *)
THEOREM ReservationExcludes == Spec => []ReservationIsExclusive
<1>1. Init => ReserveInv
  BY DEF Init, ReserveInv, WriterInv, ReservationIsExclusive, Writing
<1>2. TypeInv /\ ReserveInv /\ [Next]_vars => ReserveInv'
  <2> SUFFICES ASSUME TypeInv, ReserveInv, [Next]_vars PROVE ReserveInv'
    OBVIOUS
  <2>1. CASE UNCHANGED vars
    BY <2>1 DEF vars, store, local, ReserveInv, WriterInv, ReservationIsExclusive
  <2> QED
    BY <2>1, ReserveKept, TypeParts DEF Next, AllExited, TypeInv
<1>3. ReserveInv => ReservationIsExclusive
  BY DEF ReserveInv
<1> QED
  BY <1>1, <1>2, <1>3, TypeInvariant, PTL DEF Spec
=============================================================================
