---------------------------- MODULE SteadyRunProofs ----------------------------
(***************************************************************************)
(* Theorems about BackupRun in a Steady environment (the lock excludes,    *)
(* the clock goes on, what is removed is gone; processes are killed and    *)
(* writes fail at any point), for any number of processes, clock readings  *)
(* and suffixes and any keep_count, with their proofs.                     *)
(***************************************************************************)
EXTENDS BackupRunProofs

-----------------------------------------------------------------------------
(* The rotation by count: sets of names are finite, and what the oldest of *)
(* them leave is within the limit.                                         *)
LEMMA NamesAreFinite ==
  ASSUME NEW S \in SUBSET Name
  PROVE  IsFiniteSet(S) /\ Cardinality(S) \in Nat
<1>1. IsFiniteSet(0 .. Suffixes - 1)
  BY FS_Interval, SuffixesAssumption
<1>2. IsFiniteSet(Name)
  BY <1>1, FS_Product, TimesAssumption DEF Name
<1> QED
  BY <1>2, FS_Subset, FS_CardinalityType

LEMMA BeforeIsStrict ==
  ASSUME NEW m \in Name, NEW n \in Name, Before(m, n)
  PROVE  ~Before(n, m)
  BY NameIsPair DEF Before

LEMMA OldestLeaves ==
  ASSUME NEW S \in SUBSET Name, NEW limit \in Nat, Cardinality(S) - limit > 0
  PROVE  Cardinality(S \ Oldest(S, Cardinality(S) - limit)) <= limit
<1> DEFINE excess == Cardinality(S) - limit
           rest == S \ Oldest(S, excess)
<1>1. CASE rest = {}
  BY <1>1, FS_EmptySet
<1>2. CASE rest # {}
  <2>1. PICK r \in rest : \A m \in rest \ {r} : Before(r, m)
    BY <1>2, FirstExists
  <2> DEFINE older == {m \in S : Before(m, r)}
  <2>2. older \in SUBSET S /\ IsFiniteSet(S) /\ Cardinality(S) \in Nat /\ Cardinality(older) \in Nat
    <3>1. older \in SUBSET Name
      OBVIOUS
    <3> QED
      BY <3>1, NamesAreFinite
  <2>3. ~(Cardinality(older) < excess)
    BY <2>1 DEF Oldest
  <2>4. rest \subseteq S \ older
    <3> SUFFICES ASSUME NEW m \in rest, Before(m, r) PROVE FALSE
      OBVIOUS
    <3>1. CASE m = r
      BY <3>1, BeforeIsStrict
    <3>2. CASE m # r
      <4>1. Before(r, m) /\ m \in Name /\ r \in Name
        BY <2>1, <3>2
      <4> QED
        BY <4>1, BeforeIsStrict
    <3> QED
      BY <3>1, <3>2
  <2>5. Cardinality(S \ older) = Cardinality(S) - Cardinality(older) /\ IsFiniteSet(S \ older)
    <3>1. S \cap older = older
      OBVIOUS
    <3> HIDE DEF older
    <3> QED
      BY <2>2, <3>1, FS_Difference
  <2>6. Cardinality(rest) <= Cardinality(S \ older) /\ Cardinality(rest) \in Nat
    <3>1. rest \in SUBSET (S \ older) /\ rest \in SUBSET Name
      BY <2>4
    <3> HIDE DEF older, rest
    <3> QED
      BY <2>5, <3>1, FS_Subset, NamesAreFinite
  <2>7. Cardinality(rest) <= limit
    <3> HIDE DEF older, rest
    <3> QED
      BY <2>2, <2>3, <2>5, <2>6
  <2> QED
    BY <2>7
<1> QED
  BY <1>1, <1>2

LEMMA NewestStays ==
  ASSUME NEW S \in SUBSET Name, NEW limit \in Nat \ {0}, NEW t \in S,
         \A n \in S \ {t} : n[1] < t[1]
  PROVE  t \notin Oldest(S, Cardinality(S) - limit)
<1>1. {m \in S : Before(m, t)} = S \ {t}
  BY NameIsPair DEF Before
<1>2. Cardinality(S \ {t}) = Cardinality(S) - 1 /\ Cardinality(S) \in Nat
  BY NamesAreFinite, FS_RemoveElement
<1>3. ~(Cardinality(S) - 1 < Cardinality(S) - limit)
  BY <1>2
<1> QED
  BY <1>1, <1>2, <1>3 DEF Oldest

-----------------------------------------------------------------------------
(* What holds at each place of a process, when nobody but it is active:    *)
(* how far its snapshot has come, that it is the newest, what the rotation *)
(* still has to remove, and what the result will say.                      *)
Unfinished == {"reserve2", "partial", "copyGit", "listFiles", "copyFiles"}
Kept(n) == snap[n].exists /\ Whole(n)

StageAt(p) ==
    LET mine == snap[target[p]]
    IN  /\ pc[p] \in {"reserve", "cleanDate", "cleanDate2"} => ~mine.exists
        /\ pc[p] \in Unfinished => mine.exists /\ ".done" \notin mine.marks
        /\ pc[p] = "reserve2" => mine.marks = {}
        /\ pc[p] \in {"reserve2", "partial", "copyGit"} => mine.content = "none"
        /\ pc[p] \in {"listFiles", "copyFiles"} => mine.content = "git"
        /\ pc[p] \in {"unmark", "done"} => mine.exists /\ mine.content = "all"
        /\ pc[p] \in {"unreserve"} \cup Rotating => Kept(target[p])

NewestAt(p) ==
    pc[p] \in HasTarget =>
        /\ target[p][1] =< clock
        /\ \A n \in Name : snap[n].exists /\ n # target[p] => n[1] < target[p][1]

Finished == {n \in Name : Done(n)}
Fits(names) == KeepCount > 0 => Cardinality(names) <= KeepCount

RotationAt(p) ==
    /\ pc[p] \notin (Rotating \ {"list"}) \cup {"killed"} => victims[p] = {}
    /\ pc[p] \in Rotating => target[p] \notin victims[p]
    /\ pc[p] \in Rotating \ {"list"} => Fits(Finished \ victims[p])
    /\ pc[p] \in {"rotateDate", "rotateDate2"} => ~snap[Victim(p)].exists
    /\ pc[p] = "rotateDate2" => EmptyDate(DateDir(Victim(p)))

ResultAt(p) ==
    /\ pc[p] \in {"start", "flow"} => target[p] = <<>>
    /\ pc[p] \in Cleaning => result[p] \in {"interrupted", "critical"}
    /\ pc[p] = "cleanDate2" => EmptyDate(DateDir(target[p]))
    /\ pc[p] = "release" =>
          \/ target[p] = <<>> /\ result[p] # "ok"
          \/ target[p] \in Name /\ result[p] = "ok" /\ Kept(target[p]) /\ Fits(Finished)
          \/ target[p] \in Name /\ result[p] = "interrupted" /\ (~snap[target[p]].exists \/ Kept(target[p]))
          \/ target[p] \in Name /\ result[p] = "critical" /\ ~snap[target[p]].exists

SteadyAt(p) == StageAt(p) /\ NewestAt(p) /\ RotationAt(p) /\ ResultAt(p)

(* What holds of the snapshots: none is of the future, .done is true, and  *)
(* whatever is not whole is watched by a process that will remove it, or   *)
(* would have, had it not been killed.                                     *)
SteadyStore ==
    /\ \A n \in Name : snap[n].exists => n[1] =< clock
    /\ \A n \in Name : Done(n) => snap[n].content \in {"all", "torn"}
    /\ clobbered = {}

Watched(p, n) == (target[p] = n \/ n \in victims[p]) /\ (pc[p] \notin Exited \/ pc[p] = "killed")
LeftoverInv == \A n \in Name : snap[n].exists /\ ~Whole(n) => \E p \in Proc : Watched(p, n)

SteadyInv == Steady => SteadyStore /\ LeftoverInv /\ \A p \in Proc : SteadyAt(p)

LEMMA InitialSteady == Init => SteadyInv
<1> SUFFICES ASSUME Init PROVE SteadyInv
  OBVIOUS
<1>1. \A n \in Name : snap[n] = Absent
  BY DEF Init
<1>2. SteadyStore /\ LeftoverInv
  BY <1>1 DEF Init, SteadyStore, LeftoverInv, Absent, Done
<1>3. ASSUME NEW p \in Proc PROVE SteadyAt(p)
  <2>1. pc[p] = "start" /\ target[p] = <<>> /\ victims[p] = {}
    BY DEF Init
  <2> QED
    BY <2>1 DEF SteadyAt, StageAt, NewestAt, RotationAt, ResultAt, Unfinished, Rotating, Cleaning, Writing,
                HasTarget
<1> QED
  BY <1>2, <1>3 DEF SteadyInv

-----------------------------------------------------------------------------
(* A step of a process: it finds itself alone when it is active, and has   *)
(* to keep what holds at its place, what holds of the snapshots, and watch *)
(* what it leaves unfinished.                                              *)
Alone(p) == \A q \in Proc \ {p} : ~Active(q)
Ready(p) ==
    /\ Steady /\ ProcessOK /\ StoreOK /\ PlaceAt(p)
    /\ SteadyStore /\ SteadyAt(p) /\ (Active(p) => Alone(p))

HandsOn(p) ==
    \A n \in Name : snap'[n].exists /\ ~Whole(n)' /\ (snap'[n] # snap[n] \/ Watched(p, n)) => Watched(p, n)'
KeptBy(p) == SteadyAt(p)' /\ SteadyStore' /\ HandsOn(p)

LEMMA ReadyHolds ==
  ASSUME NEW p \in Proc, TypeInv, SteadyInv, Steady
  PROVE  Ready(p)
<1>1. ProcessOK /\ StoreOK /\ PlaceInv /\ ExclusiveInv
  BY TypeParts DEF TypeInv
<1>2. Lock!Exclusive
  BY <1>1 DEF ExclusiveInv, Steady
<1>3. Active(p) => Alone(p)
  BY <1>1, <1>2 DEF Alone, PlaceInv, PlaceAt, Lock!Exclusive
<1> QED
  BY <1>1, <1>3 DEF Ready, SteadyInv, PlaceInv

(* What a process that is not active knows does not depend on the store.   *)
LEMMA InactiveAt ==
  ASSUME NEW p \in Proc, SteadyAt(p), ~Active(p), pc'[p] = pc[p],
         target'[p] = target[p], victims'[p] = victims[p], result'[p] = result[p]
  PROVE  SteadyAt(p)'
<1>1. pc[p] \in {"start", "busy", "critical", "returned", "killed"}
  BY DEF Active, Exited
<1> QED
  BY <1>1 DEF SteadyAt, StageAt, NewestAt, RotationAt, ResultAt, Unfinished, HasTarget, Writing, Rotating, Cleaning

LEMMA UnchangedAt ==
  ASSUME NEW p \in Proc, SteadyAt(p), pc'[p] = pc[p], UNCHANGED <<snap, clock>>,
         target'[p] = target[p], victims'[p] = victims[p], result'[p] = result[p]
  PROVE  SteadyAt(p)'
<1>1. Victim(p)' = Victim(p)
  BY DEF Victim
<1>2. StageAt(p)' /\ NewestAt(p)'
  BY DEF SteadyAt, StageAt, NewestAt, Kept, Whole, Done
<1>3. Finished' = Finished
  BY DEF Finished, Done
<1>4. RotationAt(p)'
  BY <1>1, <1>3 DEF SteadyAt, RotationAt, Fits, EmptyDate, DateDir
<1>5. ResultAt(p)'
  BY <1>3 DEF SteadyAt, ResultAt, Kept, Whole, Done, Fits, EmptyDate, DateDir
<1> QED
  BY <1>2, <1>4, <1>5 DEF SteadyAt

LEMMA SteadyFrame ==
  ASSUME NEW p \in Proc, SteadyInv, Steady, OthersStay(p), Active(p) => Alone(p),
         Active(p) \/ UNCHANGED <<snap, clock>>, KeptBy(p)
  PROVE  SteadyInv'
<1>1. ASSUME NEW q \in Proc PROVE SteadyAt(q)'
  <2>1. CASE q = p
    BY <2>1 DEF KeptBy
  <2>2. CASE q # p
    BY <2>2, InactiveAt, UnchangedAt DEF OthersStay, Alone, SteadyInv
  <2> QED
    BY <2>1, <2>2
<1>2. LeftoverInv'
  <2> SUFFICES ASSUME NEW n \in Name, snap'[n].exists, ~Whole(n)'
               PROVE  \E q \in Proc : Watched(q, n)'
    BY DEF LeftoverInv
  <2>1. CASE snap'[n] # snap[n] \/ Watched(p, n)
    BY <2>1 DEF KeptBy, HandsOn
  <2>2. CASE snap'[n] = snap[n] /\ ~Watched(p, n)
    <3>1. PICK q \in Proc : Watched(q, n)
      BY <2>2 DEF SteadyInv, LeftoverInv, Whole, Done
    <3>2. q # p
      BY <2>2, <3>1
    <3> QED
      BY <3>1, <3>2 DEF OthersStay, Watched
  <2> QED
    BY <2>1, <2>2
<1> QED
  BY <1>1, <1>2 DEF SteadyInv, KeptBy

-----------------------------------------------------------------------------
(* What a step does to a snapshot directory.                               *)
OnlyAt(n) == \A k \in Name \ {n} : snap'[k] = snap[k]

LEMMA AbsentIsEmpty ==
  ASSUME StoreOK, NEW n \in Name, ~snap[n].exists
  PROVE  snap[n] = Absent /\ ~Done(n) /\ snap[n].content = "none"
<1>1. snap[n] = Absent
  BY SnapshotIsRecord DEF StoreOK
<1> QED
  BY <1>1 DEF Absent, Done

LEMMA MarkEffect ==
  ASSUME StoreOK, NEW n \in Name, NEW marker, Mark(n, marker)
  PROVE  /\ OnlyAt(n) /\ snap'[n].exists = snap[n].exists /\ snap'[n].content = snap[n].content
         /\ snap'[n].marks = snap[n].marks \cup {marker}
<1>1. snap[n] = [exists |-> snap[n].exists, marks |-> snap[n].marks, content |-> snap[n].content]
  BY SnapshotIsRecord DEF StoreOK
<1>2. snap' = [snap EXCEPT ![n] = [snap[n] EXCEPT !.marks = snap[n].marks \cup {marker}]]
  BY DEF Mark
<1>3. [snap[n] EXCEPT !.marks = snap[n].marks \cup {marker}]
         = [exists |-> snap[n].exists, marks |-> snap[n].marks \cup {marker}, content |-> snap[n].content]
  BY <1>1, WithMarks
<1> QED
  BY <1>2, <1>3 DEF StoreOK, OnlyAt

LEMMA UnmarkEffect ==
  ASSUME StoreOK, NEW n \in Name, NEW marker, Unmark(n, marker)
  PROVE  /\ OnlyAt(n) /\ snap'[n].exists = snap[n].exists /\ snap'[n].content = snap[n].content
         /\ snap'[n].marks = snap[n].marks \ {marker}
<1>1. snap[n] = [exists |-> snap[n].exists, marks |-> snap[n].marks, content |-> snap[n].content]
  BY SnapshotIsRecord DEF StoreOK
<1>2. snap' = [snap EXCEPT ![n] = [snap[n] EXCEPT !.marks = snap[n].marks \ {marker}]]
  BY DEF Unmark
<1>3. [snap[n] EXCEPT !.marks = snap[n].marks \ {marker}]
         = [exists |-> snap[n].exists, marks |-> snap[n].marks \ {marker}, content |-> snap[n].content]
  BY <1>1, WithMarks
<1> QED
  BY <1>2, <1>3 DEF StoreOK, OnlyAt

LEMMA AddEffect ==
  ASSUME StoreOK, NEW n \in Name, NEW part, AddContent(n, part)
  PROVE  /\ OnlyAt(n) /\ snap'[n].exists /\ snap'[n].marks = snap[n].marks
         /\ snap'[n].content = IF snap[n].content = "torn" THEN "torn" ELSE part
<1> DEFINE more == IF snap[n].content = "torn" THEN "torn" ELSE part
<1>1. snap[n] = [exists |-> snap[n].exists, marks |-> snap[n].marks, content |-> snap[n].content]
  BY SnapshotIsRecord DEF StoreOK
<1>2. snap' = [snap EXCEPT ![n] = [[snap[n] EXCEPT !.exists = TRUE] EXCEPT !.content = more]]
  BY DEF AddContent
<1>3. [[snap[n] EXCEPT !.exists = TRUE] EXCEPT !.content = more]
         = [exists |-> TRUE, marks |-> snap[n].marks, content |-> more]
  <2> HIDE DEF more
  <2> QED
    BY <1>1, WithContent, Zenon
<1> QED
  BY <1>2, <1>3 DEF StoreOK, OnlyAt

LEMMA RemovedEffect ==
  ASSUME NEW p \in Proc, Ready(p), Active(p), NEW names \in SUBSET Name, NEW new, Removed(p, names, new)
  PROVE  /\ clobbered' = {}
         /\ \A n \in Name : snap'[n] = IF n \in names THEN new[n] ELSE snap[n]
<1>1. \A q \in Proc \ {p} : pc[q] \notin Writing
  BY DEF Ready, Alone, Active, Writing, Exited
<1> QED
  BY <1>1 DEF Removed, IsWriter, Ready, SteadyStore

LEMMA GoneEffect ==
  ASSUME NEW p \in Proc, Ready(p), Active(p), NEW n \in Name, Removed(p, {n}, [k \in {n} |-> Absent])
  PROVE  clobbered' = {} /\ OnlyAt(n) /\ ~snap'[n].exists /\ snap'[n].marks = {}
<1>1. clobbered' = {} /\ \A k \in Name : snap'[k] = IF k \in {n} THEN [i \in {n} |-> Absent][k] ELSE snap[k]
  BY RemovedEffect
<1> QED
  BY <1>1 DEF OnlyAt, Absent

LEMMA DateGoneEffect ==
  ASSUME NEW p \in Proc, Ready(p), Active(p), NEW d, EmptyDate(d), RemoveDate(p, d)
  PROVE  clobbered' = {} /\ \A n \in Name : snap'[n] = snap[n]
<1> DEFINE names == {n \in Name : DateDir(n) = d}
<1>1. Removed(p, names, [n \in names |-> Absent])
  BY DEF RemoveDate
<1>2. clobbered' = {} /\ \A n \in Name : snap'[n] = IF n \in names THEN [k \in names |-> Absent][n] ELSE snap[n]
  BY <1>1, RemovedEffect
<1>3. \A n \in names : snap[n] = Absent
  BY AbsentIsEmpty DEF EmptyDate, Ready
<1> QED
  BY <1>2, <1>3

LEMMA TearEffect ==
  ASSUME NEW p \in Proc, Ready(p), Active(p), NEW n \in Name, Tear(p, n)
  PROVE  /\ clobbered' = {} /\ OnlyAt(n)
         /\ snap'[n].exists = snap[n].exists /\ snap'[n].marks \subseteq snap[n].marks
         /\ snap'[n].content \in {"none", "torn"} /\ (snap'[n].content = "none" => snap'[n].marks = {})
<1>1. PICK m \in SUBSET snap[n].marks :
         Removed(p, {n}, [k \in {n} |-> IF snap[n].exists
                                       THEN [exists |-> TRUE, marks |-> m, content |-> "torn"]
                                       ELSE Absent])
  BY DEF Tear
<1> DEFINE new == IF snap[n].exists THEN [exists |-> TRUE, marks |-> m, content |-> "torn"] ELSE Absent
<1>2. clobbered' = {} /\ \A k \in Name : snap'[k] = IF k \in {n} THEN [i \in {n} |-> new][k] ELSE snap[k]
  <2>1. Removed(p, {n}, [k \in {n} |-> new])
    BY <1>1
  <2> HIDE DEF new
  <2> QED
    BY <2>1, RemovedEffect
<1>3. snap'[n] = new /\ OnlyAt(n)
  BY <1>2 DEF OnlyAt
<1>4. snap[n].exists \in BOOLEAN
  BY SnapshotIsRecord DEF Ready, StoreOK
<1>5. CASE snap[n].exists
  BY <1>2, <1>3, <1>4, <1>5
<1>6. CASE ~snap[n].exists
  <2>1. snap[n] = Absent /\ snap'[n] = Absent
    BY <1>3, <1>6, AbsentIsEmpty DEF Ready
  <2> QED
    BY <1>2, <1>3, <2>1 DEF Absent
<1> QED
  BY <1>5, <1>6

LEMMA StoreStays ==
  ASSUME NEW p \in Proc, Ready(p), UNCHANGED <<snap, clobbered>>, clock' \in Nat, clock =< clock',
         \A n \in Name : Watched(p, n) => Watched(p, n)' \/ ~snap[n].exists \/ Whole(n)
  PROVE  SteadyStore' /\ HandsOn(p)
<1>1. \A n \in Name : n[1] \in Nat
  BY NameIsPair
<1>2. clock \in Nat
  BY TimesAssumption DEF Ready, StoreOK
<1>3. \A a, b, c \in Nat : a =< b /\ b =< c => a =< c
  OBVIOUS
<1>4. SteadyStore'
  BY <1>1, <1>2, <1>3 DEF Ready, SteadyStore, Done
<1>5. HandsOn(p)
  BY DEF HandsOn, Whole, Done
<1> QED
  BY <1>4, <1>5

LEMMA StoreChanges ==
  ASSUME NEW p \in Proc, Ready(p), NEW n \in Name, OnlyAt(n), UNCHANGED clock, clobbered' = {},
         snap'[n].exists => snap[n].exists \/ n[1] =< clock,
         ".done" \in snap'[n].marks => snap'[n].content \in {"all", "torn"},
         snap'[n].exists => Watched(p, n)',
         \A k \in Name : Watched(p, k) => Watched(p, k)'
  PROVE  SteadyStore' /\ HandsOn(p)
<1>1. SteadyStore'
  BY DEF Ready, SteadyStore, Done, OnlyAt
<1>2. HandsOn(p)
  BY DEF HandsOn, OnlyAt
<1> QED
  BY <1>1, <1>2

LEMMA StillNewest ==
  ASSUME NEW p \in Proc, Ready(p), pc[p] \in HasTarget, target'[p] = target[p], UNCHANGED clock,
         \A n \in Name \ {target[p]} : snap'[n].exists => snap[n].exists
  PROVE  NewestAt(p)'
  BY DEF Ready, SteadyAt, NewestAt

-----------------------------------------------------------------------------
(* The lock and the reservation.                                           *)
LEMMA SteadyAcquire == ASSUME NEW p \in Proc, Ready(p), AcquireLock(p) PROVE KeptBy(p)
<1>1. target[p] = <<>> /\ victims[p] = {}
  BY DEF Ready, SteadyAt, RotationAt, ResultAt, AcquireLock, Rotating
<1>2. /\ UNCHANGED <<snap, clock, clobbered>> /\ target'[p] = <<>> /\ victims'[p] = {}
      /\ pc'[p] \in {"flow", "busy", "critical"}
  BY <1>1 DEF AcquireLock, Goto, Ready, ProcessOK, local, store
<1>3. clock \in Nat /\ clock =< clock
  BY TimesAssumption DEF Ready, StoreOK
<1>4. \A n \in Name : ~Watched(p, n)
  BY <1>1, NameIsPair DEF Watched
<1>5. SteadyStore' /\ HandsOn(p)
  BY <1>2, <1>3, <1>4, StoreStays
<1>6. SteadyAt(p)'
  BY <1>2 DEF SteadyAt, StageAt, NewestAt, RotationAt, ResultAt, Unfinished, HasTarget, Writing, Rotating, Cleaning
<1> QED
  BY <1>5, <1>6 DEF KeptBy

LEMMA SteadyCreate == ASSUME NEW p \in Proc, Ready(p), CreateDateDir(p) PROVE KeptBy(p)
<1>1. target[p] = <<>> /\ victims[p] = {}
  BY DEF Ready, SteadyAt, RotationAt, ResultAt, CreateDateDir, Rotating
<1>2. PICK t \in Times : t > clock /\ clock' = t /\ target' = [target EXCEPT ![p] = <<t, 0>>]
  BY DEF CreateDateDir, Ready, Steady
<1>3. /\ UNCHANGED <<snap, clobbered>> /\ target'[p] = <<t, 0>> /\ victims'[p] = {} /\ pc'[p] = "reserve"
  BY <1>1, <1>2 DEF CreateDateDir, Goto, Ready, ProcessOK
<1>4. t \in Nat /\ clock \in Nat
  BY TimesAssumption DEF Ready, StoreOK
<1>5. \A n \in Name : ~Watched(p, n)
  BY <1>1, NameIsPair DEF Watched
<1>6. SteadyStore' /\ HandsOn(p)
  BY <1>2, <1>3, <1>4, <1>5, StoreStays
<1>7. \A n \in Name : n[1] \in Nat /\ (snap[n].exists => n[1] =< clock)
  BY NameIsPair DEF Ready, SteadyStore
<1>8. \A n \in Name : snap[n].exists => n[1] < t
  BY <1>2, <1>4, <1>7
<1>9. <<t, 0>> \in Name /\ ~snap[<<t, 0>>].exists
  <2>1. <<t, 0>> \in Name /\ <<t, 0>>[1] = t
    BY SuffixesAssumption DEF Name
  <2>2. ~(t < t)
    BY <1>4
  <2> QED
    BY <1>8, <2>1, <2>2
<1>10. NewestAt(p)' /\ StageAt(p)'
  BY <1>2, <1>3, <1>4, <1>8, <1>9 DEF NewestAt, StageAt, Unfinished, Rotating
<1>11. RotationAt(p)' /\ ResultAt(p)'
  BY <1>3 DEF RotationAt, ResultAt, Rotating, Cleaning
<1> QED
  BY <1>6, <1>10, <1>11 DEF KeptBy, SteadyAt

(* The run ends before there is a snapshot.                                *)
LEMMA SteadyGiveUp ==
  ASSUME NEW p \in Proc, Ready(p), FlowInterrupted(p) \/ CreateFails(p)
  PROVE  KeptBy(p)
<1>1. victims[p] = {} /\ (pc[p] = "flow" => target[p] = <<>>) /\ (pc[p] = "reserve" => ~snap[target[p]].exists)
  BY DEF Ready, SteadyAt, StageAt, RotationAt, ResultAt, FlowInterrupted, CreateFails, Rotating
<1>2. /\ UNCHANGED <<snap, clock, clobbered>> /\ target'[p] = <<>> /\ victims'[p] = {}
      /\ pc'[p] = "release" /\ result'[p] \in {"interrupted", "critical"}
  BY <1>1 DEF FlowInterrupted, CreateFails, GiveUp, End, Goto, Ready, ProcessOK, store
<1>3. clock \in Nat /\ clock =< clock
  BY TimesAssumption DEF Ready, StoreOK
<1>4. \A n \in Name : Watched(p, n) => ~snap[n].exists
  BY <1>1, NameIsPair DEF Watched, FlowInterrupted, CreateFails
<1>5. SteadyStore' /\ HandsOn(p)
  BY <1>2, <1>3, <1>4, StoreStays
<1>6. SteadyAt(p)'
  BY <1>2 DEF SteadyAt, StageAt, NewestAt, RotationAt, ResultAt, Unfinished, HasTarget, Writing, Rotating, Cleaning
<1> QED
  BY <1>5, <1>6 DEF KeptBy

LEMMA SteadyReserve == ASSUME NEW p \in Proc, Ready(p), Reserve(p) PROVE KeptBy(p)
<1>1. /\ ~snap[target[p]].exists /\ victims[p] = {} /\ target[p] \in Name /\ target[p][1] =< clock
      /\ pc[p] \in HasTarget
  BY DEF Ready, PlaceAt, SteadyAt, StageAt, NewestAt, RotationAt, Reserve, Rotating, HasTarget
<1>2. /\ snap' = [snap EXCEPT ![target[p]] = Fresh] /\ UNCHANGED <<clock, clobbered>>
      /\ target'[p] = target[p] /\ victims'[p] = {} /\ pc'[p] = "reserve2"
  BY <1>1 DEF Reserve, Goto, Ready, ProcessOK
<1>3. OnlyAt(target[p]) /\ snap'[target[p]] = Fresh
  BY <1>1, <1>2 DEF OnlyAt, Ready, StoreOK
<1>4. clobbered' = {} /\ Watched(p, target[p])' /\ \A n \in Name : Watched(p, n) => Watched(p, n)'
  BY <1>1, <1>2 DEF Watched, Ready, SteadyStore, Exited
<1>5. SteadyStore' /\ HandsOn(p)
  BY <1>1, <1>2, <1>3, <1>4, StoreChanges DEF Fresh
<1>6. NewestAt(p)'
  BY <1>1, <1>2, <1>3, StillNewest DEF OnlyAt
<1>7. StageAt(p)' /\ RotationAt(p)' /\ ResultAt(p)'
  BY <1>2, <1>3 DEF StageAt, RotationAt, ResultAt, Fresh, Unfinished, Rotating, Cleaning
<1> QED
  BY <1>5, <1>6, <1>7 DEF KeptBy, SteadyAt

LEMMA SteadyReserve2Fails == ASSUME NEW p \in Proc, Ready(p), Reserve2Fails(p) PROVE KeptBy(p)
<1>1. snap[target[p]].marks = {} /\ victims[p] = {} /\ target[p] \in Name /\ Active(p)
  BY DEF Ready, PlaceAt, SteadyAt, StageAt, RotationAt, Reserve2Fails, Rotating, HasTarget, Writing, Active, Exited
<1>2. /\ UNCHANGED clock /\ target'[p] = <<>> /\ victims'[p] = {} /\ pc'[p] = "release" /\ result'[p] = "critical"
  BY <1>1 DEF Reserve2Fails, GiveUp, End, Goto, Ready, ProcessOK
<1>3. clobbered' = {} /\ OnlyAt(target[p]) /\ ~snap'[target[p]].exists /\ snap'[target[p]].marks = {}
  BY <1>1, GoneEffect DEF Reserve2Fails
<1>4. SteadyStore'
  BY <1>2, <1>3 DEF Ready, SteadyStore, Done, OnlyAt
<1>5. HandsOn(p)
  BY <1>1, <1>3 DEF HandsOn, OnlyAt, Watched
<1>6. SteadyAt(p)'
  BY <1>2 DEF SteadyAt, StageAt, NewestAt, RotationAt, ResultAt, Unfinished, HasTarget, Writing, Rotating, Cleaning
<1> QED
  BY <1>4, <1>5, <1>6 DEF KeptBy

-----------------------------------------------------------------------------
(* The copy and the markers.                                               *)
LEMMA WritingGoesOn ==
  ASSUME NEW p \in Proc, Ready(p), pc[p] \in Writing, pc'[p] \in Writing \cup {"list"},
         target'[p] = target[p], victims'[p] = victims[p], UNCHANGED <<clock, clobbered>>,
         OnlyAt(target[p]), snap'[target[p]].exists, StageAt(p)',
         ".done" \in snap'[target[p]].marks => snap'[target[p]].content \in {"all", "torn"}
  PROVE  KeptBy(p)
<1>1. victims[p] = {} /\ target[p] \in Name /\ target[p][1] =< clock /\ pc[p] \in HasTarget
  BY DEF Ready, PlaceAt, SteadyAt, NewestAt, RotationAt, HasTarget, Writing, Rotating
<1>2. clobbered' = {} /\ Watched(p, target[p])' /\ \A n \in Name : Watched(p, n) => Watched(p, n)'
  BY <1>1 DEF Watched, Ready, SteadyStore, Exited, Writing
<1>3. SteadyStore' /\ HandsOn(p)
  BY <1>1, <1>2, StoreChanges
<1>4. NewestAt(p)'
  BY <1>1, StillNewest DEF OnlyAt
<1>5. RotationAt(p)' /\ ResultAt(p)'
  BY <1>1 DEF RotationAt, ResultAt, Rotating, Writing, Cleaning
<1> QED
  BY <1>3, <1>4, <1>5 DEF KeptBy, SteadyAt

LEMMA SteadyMark ==
  ASSUME NEW p \in Proc, Ready(p), Reserve2(p) \/ WritePartial(p) \/ WriteDone(p)
  PROVE  KeptBy(p)
<1>1. /\ target[p] \in Name /\ pc[p] \in {"reserve2", "partial", "done"} /\ snap[target[p]].exists
      /\ ".done" \in snap[target[p]].marks => snap[target[p]].content \in {"all", "torn"}
  BY DEF Ready, PlaceAt, SteadyStore, Done, HasTarget, Writing, Reserve2, WritePartial, WriteDone
<1>2. /\ pc[p] \in {"reserve2", "partial"} => /\ snap[target[p]].content = "none"
                                              /\ ".done" \notin snap[target[p]].marks
      /\ pc[p] = "done" => snap[target[p]].content = "all"
  BY <1>1 DEF Ready, SteadyAt, StageAt, Unfinished
<1>3. PICK marker : /\ Mark(target[p], marker)
                    /\ \/ pc[p] = "reserve2" /\ pc'[p] = "partial" /\ marker = ".reserve"
                       \/ pc[p] = "partial" /\ pc'[p] = "copyGit" /\ marker = ".partial"
                       \/ pc[p] = "done" /\ pc'[p] = "unreserve" /\ marker = ".done"
  BY DEF Reserve2, WritePartial, WriteDone, Goto, Ready, ProcessOK
<1>4. target'[p] = target[p] /\ victims'[p] = victims[p] /\ UNCHANGED <<clock, clobbered>>
  BY DEF Reserve2, WritePartial, WriteDone, local
<1>5. /\ OnlyAt(target[p]) /\ snap'[target[p]].exists /\ snap'[target[p]].content = snap[target[p]].content
      /\ snap'[target[p]].marks = snap[target[p]].marks \cup {marker}
  BY <1>1, <1>3, MarkEffect DEF Ready
<1>6. StageAt(p)'
  BY <1>2, <1>3, <1>4, <1>5 DEF StageAt, Unfinished, Rotating, Kept, Whole, Done
<1>7. ".done" \in snap'[target[p]].marks => snap'[target[p]].content \in {"all", "torn"}
  BY <1>2, <1>3, <1>5
<1> QED
  BY <1>3, <1>4, <1>5, <1>6, <1>7, WritingGoesOn DEF Writing

LEMMA SteadyCopy ==
  ASSUME NEW p \in Proc, Ready(p), CopyGit(p) \/ ListFiles(p) \/ CopyFiles(p)
  PROVE  KeptBy(p)
<1>1. target[p] \in Name /\ pc[p] \in {"copyGit", "listFiles", "copyFiles"}
  BY DEF Ready, PlaceAt, HasTarget, Writing, CopyGit, ListFiles, CopyFiles
<1>2. /\ snap[target[p]].exists /\ ".done" \notin snap[target[p]].marks
      /\ snap[target[p]].content = IF pc[p] = "copyGit" THEN "none" ELSE "git"
  BY <1>1 DEF Ready, SteadyAt, StageAt, Unfinished
<1>3. target'[p] = target[p] /\ victims'[p] = victims[p] /\ UNCHANGED <<clock, clobbered>>
  BY DEF CopyGit, ListFiles, CopyFiles, local
<1>4. CASE CopyGit(p) \/ CopyFiles(p)
  <2>1. PICK part : /\ AddContent(target[p], part)
                    /\ \/ part = "git" /\ pc'[p] = "listFiles"
                       \/ part = "all" /\ pc'[p] = "unmark"
    BY <1>2, <1>4 DEF CopyGit, CopyFiles, Goto, Ready, ProcessOK
  <2>2. /\ OnlyAt(target[p]) /\ snap'[target[p]].exists /\ snap'[target[p]].content = part
        /\ snap'[target[p]].marks = snap[target[p]].marks
    BY <1>1, <1>2, <2>1, AddEffect DEF Ready
  <2>3. StageAt(p)'
    BY <1>2, <1>3, <2>1, <2>2 DEF StageAt, Unfinished, Rotating
  <2> QED
    BY <1>1, <1>2, <1>3, <2>1, <2>2, <2>3, WritingGoesOn DEF Writing
<1>5. CASE ListFiles(p)
  <2>1. UNCHANGED snap /\ pc'[p] = "copyFiles" /\ pc[p] = "listFiles"
    BY <1>5 DEF ListFiles, Goto, Ready, ProcessOK, store
  <2>2. StageAt(p)'
    BY <1>2, <1>3, <2>1 DEF StageAt, Unfinished, Rotating
  <2>3. OnlyAt(target[p])
    BY <2>1 DEF OnlyAt
  <2> QED
    BY <1>1, <1>2, <1>3, <2>1, <2>2, <2>3, WritingGoesOn DEF Writing
<1> QED
  BY <1>4, <1>5

LEMMA SteadyUnmark ==
  ASSUME NEW p \in Proc, Ready(p), RemovePartial(p) \/ (RemoveReserve(p) /\ p \notin canceled)
  PROVE  KeptBy(p)
<1>1. target[p] \in Name /\ pc[p] \in {"unmark", "unreserve"}
  BY DEF Ready, PlaceAt, HasTarget, Writing, RemovePartial, RemoveReserve
<1>2. /\ snap[target[p]].exists /\ snap[target[p]].content = "all"
      /\ pc[p] = "unreserve" => ".done" \in snap[target[p]].marks
  BY <1>1 DEF Ready, SteadyAt, StageAt, Kept, Whole, Done
<1>3. PICK marker : /\ Unmark(target[p], marker)
                    /\ \/ pc[p] = "unmark" /\ pc'[p] = "done" /\ marker = ".partial"
                       \/ pc[p] = "unreserve" /\ pc'[p] = "list" /\ marker = ".reserve"
  BY DEF RemovePartial, RemoveReserve, Goto, Ready, ProcessOK, Steady
<1>4. target'[p] = target[p] /\ victims'[p] = victims[p] /\ UNCHANGED <<clock, clobbered>>
  BY DEF RemovePartial, RemoveReserve, local
<1>5. /\ OnlyAt(target[p]) /\ snap'[target[p]].exists /\ snap'[target[p]].content = "all"
      /\ snap'[target[p]].marks = snap[target[p]].marks \ {marker}
  BY <1>1, <1>2, <1>3, UnmarkEffect DEF Ready
<1>6. StageAt(p)'
  BY <1>2, <1>3, <1>4, <1>5 DEF StageAt, Unfinished, Rotating, Kept, Whole, Done
<1> QED
  BY <1>1, <1>3, <1>4, <1>5, <1>6, WritingGoesOn DEF Writing

(* A signal after .done: the snapshot stays.                               *)
LEMMA SteadyLateSignal ==
  ASSUME NEW p \in Proc, Ready(p), RemoveReserve(p), p \in canceled
  PROVE  KeptBy(p)
<1>1. target[p] \in Name /\ pc[p] = "unreserve" /\ Kept(target[p]) /\ victims[p] = {}
  BY DEF Ready, PlaceAt, HasTarget, Writing, RemoveReserve, SteadyAt, StageAt, RotationAt, Rotating
<1>2. /\ Unmark(target[p], ".reserve") /\ target'[p] = target[p] /\ victims'[p] = {} /\ UNCHANGED <<clock, clobbered>>
      /\ pc'[p] = "release" /\ result'[p] = "interrupted"
  BY <1>1 DEF RemoveReserve, End, Goto, Ready, ProcessOK, Steady
<1>3. /\ OnlyAt(target[p]) /\ snap'[target[p]].exists = snap[target[p]].exists
      /\ snap'[target[p]].content = snap[target[p]].content
      /\ snap'[target[p]].marks = snap[target[p]].marks \ {".reserve"}
  BY <1>1, <1>2, UnmarkEffect DEF Ready
<1>4. Kept(target[p])'
  BY <1>1, <1>2, <1>3 DEF Kept, Whole, Done
<1>5. clobbered' = {} /\ Watched(p, target[p])' /\ \A n \in Name : Watched(p, n) => Watched(p, n)'
  BY <1>1, <1>2 DEF Watched, Ready, SteadyStore, Exited
<1>6. SteadyStore' /\ HandsOn(p)
  BY <1>1, <1>2, <1>3, <1>4, <1>5, StoreChanges DEF Kept, Whole
<1>7. SteadyAt(p)'
  BY <1>1, <1>2, <1>4 DEF SteadyAt, StageAt, NewestAt, RotationAt, ResultAt, Unfinished, HasTarget, Writing,
                          Rotating, Cleaning
<1> QED
  BY <1>6, <1>7 DEF KeptBy

LEMMA SteadyFails ==
  ASSUME NEW p \in Proc, Ready(p), GitKilled(p) \/ CopyInterrupted(p) \/ WriteFails(p)
  PROVE  KeptBy(p)
<1>1. /\ UNCHANGED <<snap, clock, clobbered>> /\ target'[p] = target[p] /\ victims'[p] = victims[p]
      /\ pc[p] \in Writing /\ pc'[p] = "cleanup" /\ result'[p] \in {"interrupted", "critical"}
  BY DEF GitKilled, CopyInterrupted, WriteFails, End, Goto, Ready, ProcessOK, store, Writing
<1>2. victims[p] = {} /\ pc[p] \in HasTarget
  BY <1>1 DEF Ready, SteadyAt, RotationAt, Rotating, Writing, HasTarget
<1>3. clock \in Nat /\ clock =< clock
  BY TimesAssumption DEF Ready, StoreOK
<1>4. \A n \in Name : Watched(p, n) => Watched(p, n)'
  BY <1>1 DEF Watched, Exited
<1>5. SteadyStore' /\ HandsOn(p)
  BY <1>1, <1>3, <1>4, StoreStays
<1>6. NewestAt(p)'
  BY <1>1, <1>2, StillNewest
<1>7. StageAt(p)' /\ RotationAt(p)' /\ ResultAt(p)'
  BY <1>1, <1>2 DEF StageAt, RotationAt, ResultAt, Unfinished, Rotating, Cleaning
<1> QED
  BY <1>5, <1>6, <1>7 DEF KeptBy, SteadyAt

-----------------------------------------------------------------------------
(* The rotation.                                                           *)
LEMMA FitsLess ==
  ASSUME NEW S \in SUBSET Name, NEW T \in SUBSET S, Fits(S)
  PROVE  Fits(T)
<1>1. Cardinality(T) <= Cardinality(S) /\ Cardinality(S) \in Nat /\ Cardinality(T) \in Nat
  <2>1. T \in SUBSET Name
    OBVIOUS
  <2> QED
    BY <2>1, NamesAreFinite, FS_Subset
<1> QED
  BY <1>1, KeepCountAssumption DEF Fits

LEMMA SteadyList == ASSUME NEW p \in Proc, Ready(p), List(p) PROVE KeptBy(p)
<1>1. pc[p] = "list" /\ target[p] \in Name /\ Kept(target[p]) /\ victims[p] = {} /\ pc[p] \in HasTarget
  BY DEF Ready, PlaceAt, HasTarget, Rotating, List, SteadyAt, StageAt, RotationAt
<1> DEFINE excess == Cardinality(Finished) - KeepCount
<1>2. PICK V : /\ victims' = [victims EXCEPT ![p] = V]
               /\ V = IF KeepCount > 0 /\ excess > 0 THEN Oldest(Finished, excess) ELSE {}
  BY DEF List, Finished
<1>3. Finished \in SUBSET Name /\ target[p] \in Finished /\ Cardinality(Finished) \in Nat
  <2>1. Finished \in SUBSET Name
    BY DEF Finished
  <2> QED
    BY <1>1, <2>1, NamesAreFinite DEF Finished, Kept, Whole
<1>4. target[p] \notin V
  <2>1. \A n \in Finished \ {target[p]} : n[1] < target[p][1]
    BY <1>1, AbsentIsEmpty DEF Ready, SteadyAt, NewestAt, Finished
  <2>2. CASE KeepCount > 0
    BY <1>2, <1>3, <2>1, <2>2, NewestStays, KeepCountAssumption
  <2> QED
    BY <1>2, <2>2
<1>5. Fits(Finished \ V)
  <2>1. CASE KeepCount > 0 /\ excess > 0
    BY <1>2, <1>3, <2>1, OldestLeaves, KeepCountAssumption DEF Fits
  <2>2. CASE ~(KeepCount > 0 /\ excess > 0)
    <3>1. Finished \ V = Finished
      BY <1>2, <2>2
    <3> QED
      BY <1>3, <2>2, <3>1, KeepCountAssumption DEF Fits
  <2> QED
    BY <2>1, <2>2
<1>6. /\ UNCHANGED <<snap, clock, clobbered>> /\ target'[p] = target[p] /\ victims'[p] = V /\ pc'[p] = "rotate"
  BY <1>2 DEF List, Goto, Ready, ProcessOK, store
<1>7. clock \in Nat /\ clock =< clock
  BY TimesAssumption DEF Ready, StoreOK
<1>8. \A n \in Name : Watched(p, n) => Watched(p, n)'
  BY <1>1, <1>6 DEF Watched, Exited
<1>9. SteadyStore' /\ HandsOn(p)
  BY <1>6, <1>7, <1>8, StoreStays
<1>10. NewestAt(p)'
  BY <1>1, <1>6, StillNewest
<1>11. Finished' = Finished /\ Kept(target[p])'
  BY <1>1, <1>6 DEF Finished, Kept, Whole, Done
<1>12. StageAt(p)' /\ RotationAt(p)' /\ ResultAt(p)'
  BY <1>4, <1>5, <1>6, <1>11 DEF StageAt, RotationAt, ResultAt, Unfinished, Rotating, Cleaning, Fits
<1> QED
  BY <1>9, <1>10, <1>12 DEF KeptBy, SteadyAt

(* What the steps of the rotation find.                                    *)
LEMMA RotatingAt ==
  ASSUME NEW p \in Proc, Ready(p), pc[p] \in Rotating \ {"list"}
  PROVE  /\ Active(p) /\ pc[p] \in HasTarget /\ target[p] \in Name /\ Kept(target[p])
         /\ target[p] \notin victims[p] /\ Fits(Finished \ victims[p])
         /\ victims[p] \in SUBSET Name /\ Finished \in SUBSET Name
         /\ victims[p] # {} => Victim(p) \in victims[p] /\ Victim(p) \in Name /\ Victim(p) # target[p]
<1>1. victims[p] \in SUBSET Name
  BY DEF Ready, ProcessOK
<1>2. target[p] \notin victims[p] /\ Fits(Finished \ victims[p]) /\ Kept(target[p])
  BY DEF Ready, SteadyAt, StageAt, RotationAt
<1>3. victims[p] # {} => Victim(p) \in victims[p]
  BY <1>1, VictimIsOne
<1> QED
  BY <1>1, <1>2, <1>3 DEF Ready, PlaceAt, Active, HasTarget, Rotating, Exited, Finished

(* The removal of a victim goes on.                                        *)
LEMMA RotationGoesOn ==
  ASSUME NEW p \in Proc, Ready(p), pc[p] \in {"rotate", "rotate2"}, victims[p] # {}, UNCHANGED clock,
         target'[p] = target[p], victims'[p] = victims[p], clobbered' = {}, OnlyAt(Victim(p)),
         snap'[Victim(p)].exists => snap[Victim(p)].exists,
         ".done" \in snap'[Victim(p)].marks => /\ snap'[Victim(p)].content \in {"all", "torn"}
                                               /\ ".done" \in snap[Victim(p)].marks,
         pc'[p] = "rotate2" \/ (pc'[p] = "rotateDate" /\ ~snap'[Victim(p)].exists)
  PROVE  KeptBy(p)
<1>1. /\ Active(p) /\ pc[p] \in HasTarget /\ target[p] \in Name /\ Kept(target[p])
      /\ target[p] \notin victims[p] /\ Fits(Finished \ victims[p]) /\ Finished \in SUBSET Name
      /\ Victim(p) \in victims[p] /\ Victim(p) \in Name /\ Victim(p) # target[p]
  BY RotatingAt DEF Rotating
<1>2. PICK v : v = Victim(p)
  OBVIOUS
<1>3. SteadyStore' /\ HandsOn(p)
  <2>1. Watched(p, v)' /\ \A n \in Name : Watched(p, n) => Watched(p, n)'
    BY <1>1, <1>2 DEF Watched, Exited
  <2>2. /\ v \in Name /\ OnlyAt(v) /\ (snap'[v].exists => snap[v].exists)
        /\ ".done" \in snap'[v].marks => snap'[v].content \in {"all", "torn"}
    BY <1>1, <1>2
  <2> QED
    BY <2>1, <2>2, StoreChanges
<1>4. NewestAt(p)'
  BY <1>1, StillNewest DEF OnlyAt
<1>5. Kept(target[p])' /\ Victim(p)' = Victim(p)
  <2>1. snap'[target[p]] = snap[target[p]]
    BY <1>1 DEF OnlyAt
  <2> QED
    BY <1>1, <2>1 DEF Kept, Whole, Done, Victim
<1>6. Fits(Finished' \ victims[p])
  <2>1. Finished' \ victims[p] \in SUBSET (Finished \ victims[p])
    BY <1>1 DEF Finished, Done, OnlyAt
  <2>2. Finished \ victims[p] \in SUBSET Name
    BY <1>1
  <2> QED
    BY <1>1, <2>1, <2>2, FitsLess
<1>7. StageAt(p)' /\ RotationAt(p)' /\ ResultAt(p)'
  BY <1>1, <1>5, <1>6 DEF StageAt, RotationAt, ResultAt, Unfinished, Rotating, Cleaning, Fits
<1> QED
  BY <1>3, <1>4, <1>7 DEF KeptBy, SteadyAt

LEMMA SteadyRotateTear == ASSUME NEW p \in Proc, Ready(p), RotateTear(p) PROVE KeptBy(p)
<1>1. /\ pc[p] = "rotate" /\ victims[p] # {} /\ UNCHANGED clock /\ Tear(p, Victim(p))
      /\ target'[p] = target[p] /\ victims'[p] = victims[p] /\ pc'[p] = "rotate2"
  BY DEF RotateTear, Goto, local, Ready, ProcessOK
<1>2. Active(p) /\ Victim(p) \in Name
  BY <1>1, RotatingAt DEF Rotating
<1>3. /\ clobbered' = {} /\ OnlyAt(Victim(p))
      /\ snap'[Victim(p)].exists = snap[Victim(p)].exists /\ snap'[Victim(p)].marks \subseteq snap[Victim(p)].marks
      /\ snap'[Victim(p)].content \in {"none", "torn"}
      /\ snap'[Victim(p)].content = "none" => snap'[Victim(p)].marks = {}
  BY <1>1, <1>2, TearEffect
<1> QED
  BY <1>1, <1>3, RotationGoesOn

LEMMA SteadyRotateRemove == ASSUME NEW p \in Proc, Ready(p), RotateRemove(p) PROVE KeptBy(p)
<1>1. /\ pc[p] = "rotate2" /\ victims[p] # {} /\ UNCHANGED clock
      /\ Removed(p, {Victim(p)}, [n \in {Victim(p)} |-> Absent])
      /\ target'[p] = target[p] /\ victims'[p] = victims[p] /\ pc'[p] = "rotateDate"
  BY DEF RotateRemove, Goto, local, Ready, ProcessOK, PlaceAt, Removing, Steady
<1>2. Active(p) /\ Victim(p) \in Name
  BY <1>1, RotatingAt DEF Rotating
<1>3. /\ clobbered' = {} /\ OnlyAt(Victim(p)) /\ ~snap'[Victim(p)].exists /\ snap'[Victim(p)].marks = {}
  BY <1>1, <1>2, GoneEffect
<1> QED
  BY <1>1, <1>3, RotationGoesOn

(* The date directory of the victim is found in use, or empty, or removed. *)
LEMMA SteadyRotateDate ==
  ASSUME NEW p \in Proc, Ready(p), RotateDateDir(p) \/ RotateDateDir2(p)
  PROVE  KeptBy(p)
<1>1. /\ pc[p] \in {"rotateDate", "rotateDate2"} /\ UNCHANGED clock /\ victims[p] # {} /\ target'[p] = target[p]
      /\ ~snap[Victim(p)].exists
  BY DEF RotateDateDir, RotateDateDir2, Ready, PlaceAt, Removing, SteadyAt, RotationAt
<1>2. /\ Active(p) /\ pc[p] \in HasTarget /\ target[p] \in Name /\ Kept(target[p])
      /\ target[p] \notin victims[p] /\ Fits(Finished \ victims[p]) /\ Finished \in SUBSET Name
      /\ Victim(p) \in victims[p] /\ Victim(p) \in Name
  BY <1>1, RotatingAt DEF Rotating
<1>3. clobbered' = {} /\ \A n \in Name : snap'[n] = snap[n]
  <2>1. CASE RotateDateDir(p)
    BY <2>1 DEF RotateDateDir, Ready, SteadyStore, store
  <2>2. CASE RotateDateDir2(p)
    <3>1. EmptyDate(DateDir(Victim(p)))
      BY <2>2 DEF RotateDateDir2, Ready, SteadyAt, RotationAt
    <3> QED
      BY <1>2, <2>2, <3>1, DateGoneEffect DEF RotateDateDir2
  <2> QED
    BY <2>1, <2>2
<1>4. \/ pc'[p] = "rotate" /\ victims'[p] = victims[p] \ {Victim(p)}
      \/ pc'[p] = "rotateDate2" /\ victims'[p] = victims[p] /\ EmptyDate(DateDir(Victim(p)))
  BY DEF RotateDateDir, RotateDateDir2, FindDateEmpty, Goto, Ready, ProcessOK
<1>5. SteadyStore'
  BY <1>1, <1>3 DEF Ready, SteadyStore, Done
<1>6. HandsOn(p)
  <2> SUFFICES ASSUME NEW n \in Name, snap'[n].exists, Watched(p, n) PROVE Watched(p, n)'
    BY <1>3 DEF HandsOn
  <2>1. n # Victim(p)
    BY <1>1, <1>3
  <2> QED
    BY <1>1, <1>4, <2>1 DEF Watched, Exited
<1>7. NewestAt(p)'
  BY <1>1, <1>2, <1>3, StillNewest
<1>8. Kept(target[p])' /\ Finished' = Finished
  <2>1. snap'[target[p]] = snap[target[p]] /\ target'[p] = target[p]
    BY <1>1, <1>2, <1>3
  <2>2. Kept(target[p])'
    BY <1>2, <2>1 DEF Kept, Whole, Done
  <2>3. Finished' = Finished
    BY <1>3 DEF Finished, Done
  <2> QED
    BY <2>2, <2>3
<1>9. Fits(Finished \ victims'[p])
  <2>1. Victim(p) \notin Finished
    BY <1>1, <1>2, AbsentIsEmpty DEF Finished, Ready
  <2>2. Finished \ victims'[p] = Finished \ victims[p]
    BY <1>4, <2>1
  <2> QED
    BY <1>2, <2>2
<1>10. StageAt(p)'
  BY <1>1, <1>4, <1>8 DEF StageAt, Unfinished, Rotating
<1>11. RotationAt(p)'
  <2>1. target'[p] \notin victims'[p] /\ Fits(Finished' \ victims'[p])
    BY <1>1, <1>2, <1>4, <1>8, <1>9
  <2>2. CASE pc'[p] = "rotate"
    BY <2>1, <2>2 DEF RotationAt, Rotating, Fits
  <2>3. CASE pc'[p] = "rotateDate2" /\ victims'[p] = victims[p] /\ EmptyDate(DateDir(Victim(p)))
    <3>1. Victim(p)' = Victim(p)
      BY <2>3 DEF Victim
    <3>2. EmptyDate(DateDir(Victim(p)))'
      BY <1>3, <2>3, <3>1 DEF EmptyDate, DateDir
    <3> QED
      BY <1>1, <1>2, <1>3, <2>1, <2>3, <3>1, <3>2 DEF RotationAt, Rotating, Fits
  <2> QED
    BY <1>4, <2>2, <2>3
<1>12. ResultAt(p)'
  BY <1>4 DEF ResultAt, Cleaning
<1> QED
  BY <1>5, <1>6, <1>7, <1>10, <1>11, <1>12 DEF KeptBy, SteadyAt

LEMMA SteadyRotateEnd == ASSUME NEW p \in Proc, Ready(p), RotateEnd(p) PROVE KeptBy(p)
<1>1. pc[p] = "rotate" /\ victims[p] = {}
  BY DEF RotateEnd
<1>2. /\ UNCHANGED <<snap, clock, clobbered>> /\ target'[p] = target[p] /\ victims'[p] = {}
      /\ pc'[p] = "release" /\ result'[p] = "ok"
  BY <1>1 DEF RotateEnd, End, Goto, Ready, ProcessOK, store
<1>3. target[p] \in Name /\ Kept(target[p]) /\ Fits(Finished \ victims[p])
  BY <1>1, RotatingAt DEF Rotating
<1>4. Kept(target[p])' /\ Fits(Finished)'
  <2>1. Finished' = Finished /\ Finished \ victims[p] = Finished
    BY <1>1, <1>2 DEF Finished, Done
  <2> QED
    BY <1>2, <1>3, <2>1 DEF Kept, Whole, Done, Fits
<1>5. clock \in Nat /\ clock =< clock
  BY TimesAssumption DEF Ready, StoreOK
<1>6. \A n \in Name : Watched(p, n) => Watched(p, n)'
  BY <1>1, <1>2 DEF Watched, Exited
<1>7. SteadyStore' /\ HandsOn(p)
  BY <1>2, <1>5, <1>6, StoreStays
<1>8. SteadyAt(p)'
  BY <1>2, <1>3, <1>4 DEF SteadyAt, StageAt, NewestAt, RotationAt, ResultAt, Unfinished, HasTarget, Writing,
                          Rotating, Cleaning
<1> QED
  BY <1>7, <1>8 DEF KeptBy

-----------------------------------------------------------------------------
(* The deferred cleanup.                                                   *)
LEMMA CleaningAt ==
  ASSUME NEW p \in Proc, Ready(p), pc[p] \in Cleaning
  PROVE  /\ Active(p) /\ pc[p] \in HasTarget /\ target[p] \in Name /\ victims[p] = {}
         /\ result[p] \in {"interrupted", "critical"}
  BY DEF Ready, PlaceAt, SteadyAt, RotationAt, ResultAt, Active, Exited, HasTarget, Rotating, Cleaning

LEMMA SteadyCleanupRemove ==
  ASSUME NEW p \in Proc, Ready(p), CleanupTear(p) \/ CleanupRemove(p)
  PROVE  KeptBy(p)
<1>1. /\ pc[p] \in Cleaning /\ UNCHANGED clock
      /\ target'[p] = target[p] /\ victims'[p] = victims[p] /\ result'[p] = result[p]
  BY DEF CleanupTear, CleanupRemove, Cleaning, local
<1>2. /\ Active(p) /\ pc[p] \in HasTarget /\ target[p] \in Name /\ victims[p] = {}
      /\ result[p] \in {"interrupted", "critical"}
  BY <1>1, CleaningAt
<1>3. /\ clobbered' = {} /\ OnlyAt(target[p]) /\ (snap'[target[p]].exists => snap[target[p]].exists)
      /\ ".done" \in snap'[target[p]].marks => snap'[target[p]].content \in {"all", "torn"}
      /\ pc'[p] = "cleanup2" \/ (pc'[p] = "cleanDate" /\ ~snap'[target[p]].exists)
  <2>1. CASE CleanupTear(p)
    <3>1. Tear(p, target[p]) /\ pc'[p] = "cleanup2"
      BY <2>1 DEF CleanupTear, Goto, Ready, ProcessOK
    <3>2. /\ clobbered' = {} /\ OnlyAt(target[p]) /\ snap'[target[p]].exists = snap[target[p]].exists
          /\ snap'[target[p]].content \in {"none", "torn"}
          /\ snap'[target[p]].content = "none" => snap'[target[p]].marks = {}
      BY <1>2, <3>1, TearEffect
    <3> QED
      BY <3>1, <3>2
  <2>2. CASE CleanupRemove(p)
    <3>1. Removed(p, {target[p]}, [n \in {target[p]} |-> Absent]) /\ pc'[p] = "cleanDate"
      BY <2>2 DEF CleanupRemove, Goto, Ready, ProcessOK, Steady
    <3>2. clobbered' = {} /\ OnlyAt(target[p]) /\ ~snap'[target[p]].exists /\ snap'[target[p]].marks = {}
      BY <1>2, <3>1, GoneEffect
    <3> QED
      BY <3>1, <3>2
  <2> QED
    BY <2>1, <2>2
<1>4. Watched(p, target[p])' /\ \A n \in Name : Watched(p, n) => Watched(p, n)'
  BY <1>1, <1>2, <1>3 DEF Watched, Exited
<1>5. SteadyStore' /\ HandsOn(p)
  BY <1>1, <1>2, <1>3, <1>4, StoreChanges
<1>6. NewestAt(p)'
  BY <1>1, <1>2, <1>3, StillNewest DEF OnlyAt
<1>7. StageAt(p)' /\ RotationAt(p)' /\ ResultAt(p)'
  BY <1>1, <1>2, <1>3 DEF StageAt, RotationAt, ResultAt, Unfinished, Rotating, Cleaning
<1> QED
  BY <1>5, <1>6, <1>7 DEF KeptBy, SteadyAt

LEMMA SteadyCleanupDate ==
  ASSUME NEW p \in Proc, Ready(p), CleanupDateDir(p) \/ CleanupDateDir2(p)
  PROVE  KeptBy(p)
<1>1. /\ pc[p] \in {"cleanDate", "cleanDate2"} /\ UNCHANGED clock /\ ~snap[target[p]].exists
      /\ target'[p] = target[p] /\ victims'[p] = victims[p] /\ result'[p] = result[p]
  BY DEF CleanupDateDir, CleanupDateDir2, local, Ready, SteadyAt, StageAt
<1>2. /\ Active(p) /\ pc[p] \in HasTarget /\ target[p] \in Name /\ victims[p] = {}
      /\ result[p] \in {"interrupted", "critical"}
  BY <1>1, CleaningAt DEF Cleaning
<1>3. clobbered' = {} /\ \A n \in Name : snap'[n] = snap[n]
  <2>1. CASE CleanupDateDir(p)
    BY <2>1 DEF CleanupDateDir, Ready, SteadyStore, store
  <2>2. CASE CleanupDateDir2(p)
    <3>1. EmptyDate(DateDir(target[p]))
      BY <2>2 DEF CleanupDateDir2, Ready, SteadyAt, ResultAt
    <3> QED
      BY <1>2, <2>2, <3>1, DateGoneEffect DEF CleanupDateDir2
  <2> QED
    BY <2>1, <2>2
<1>4. pc'[p] = "release" \/ (pc'[p] = "cleanDate2" /\ EmptyDate(DateDir(target[p])))
  BY DEF CleanupDateDir, CleanupDateDir2, FindDateEmpty, Goto, Ready, ProcessOK
<1>5. SteadyStore'
  BY <1>1, <1>3 DEF Ready, SteadyStore, Done
<1>6. HandsOn(p)
  <2> SUFFICES ASSUME NEW n \in Name, snap'[n].exists, Watched(p, n) PROVE FALSE
    BY <1>3 DEF HandsOn
  <2> QED
    BY <1>1, <1>2, <1>3 DEF Watched
<1>7. NewestAt(p)'
  BY <1>1, <1>2, <1>3, StillNewest
<1>8. ~snap'[target'[p]].exists /\ (pc'[p] = "cleanDate2" => EmptyDate(DateDir(target[p]))')
  BY <1>1, <1>2, <1>3, <1>4 DEF EmptyDate, DateDir
<1>9. StageAt(p)' /\ RotationAt(p)'
  BY <1>1, <1>2, <1>4, <1>8 DEF StageAt, RotationAt, Unfinished, Rotating
<1>10. ResultAt(p)'
  BY <1>1, <1>2, <1>4, <1>8 DEF ResultAt, Cleaning
<1> QED
  BY <1>5, <1>6, <1>7, <1>9, <1>10 DEF KeptBy, SteadyAt

-----------------------------------------------------------------------------
(* The end of a process.                                                   *)
LEMMA SteadyRelease == ASSUME NEW p \in Proc, Ready(p), ReleaseLock(p) PROVE KeptBy(p)
<1>1. pc[p] = "release" /\ victims[p] = {}
  BY DEF ReleaseLock, Ready, SteadyAt, RotationAt, Rotating
<1>2. /\ UNCHANGED <<snap, clock, clobbered>> /\ target'[p] = target[p] /\ victims'[p] = {} /\ pc'[p] = "returned"
  BY <1>1 DEF ReleaseLock, Goto, Ready, ProcessOK, store, local
<1>3. clock \in Nat /\ clock =< clock
  BY TimesAssumption DEF Ready, StoreOK
<1>4. target[p] = <<>> \/ ~snap[target[p]].exists \/ Whole(target[p])
  BY <1>1 DEF Ready, SteadyAt, ResultAt, Kept
<1>5. \A n \in Name : Watched(p, n) => ~snap[n].exists \/ Whole(n)
  BY <1>1, <1>4, NameIsPair DEF Watched
<1>6. SteadyStore' /\ HandsOn(p)
  BY <1>2, <1>3, <1>5, StoreStays
<1>7. SteadyAt(p)'
  BY <1>2 DEF SteadyAt, StageAt, NewestAt, RotationAt, ResultAt, Unfinished, HasTarget, Writing, Rotating, Cleaning
<1> QED
  BY <1>6, <1>7 DEF KeptBy

LEMMA SteadyKill == ASSUME NEW p \in Proc, Ready(p), Kill(p) PROVE KeptBy(p)
<1>1. /\ UNCHANGED <<snap, clock, clobbered>> /\ target'[p] = target[p] /\ victims'[p] = victims[p]
      /\ pc'[p] = "killed"
  BY DEF Kill, Goto, Ready, ProcessOK, store, local
<1>2. clock \in Nat /\ clock =< clock
  BY TimesAssumption DEF Ready, StoreOK
<1>3. \A n \in Name : Watched(p, n) => Watched(p, n)'
  BY <1>1 DEF Watched
<1>4. SteadyStore' /\ HandsOn(p)
  BY <1>1, <1>2, <1>3, StoreStays
<1>5. SteadyAt(p)'
  BY <1>1 DEF SteadyAt, StageAt, NewestAt, RotationAt, ResultAt, Unfinished, HasTarget, Writing, Rotating, Cleaning
<1> QED
  BY <1>4, <1>5 DEF KeptBy

LEMMA SteadySignal == ASSUME NEW p \in Proc, Ready(p), Signal(p) PROVE KeptBy(p)
<1>1. /\ UNCHANGED <<snap, clock, clobbered>> /\ target'[p] = target[p] /\ victims'[p] = victims[p]
      /\ pc'[p] = pc[p] /\ result'[p] = result[p]
  BY DEF Signal, store, local
<1>2. clock \in Nat /\ clock =< clock
  BY TimesAssumption DEF Ready, StoreOK
<1>3. \A n \in Name : Watched(p, n) => Watched(p, n)'
  BY <1>1 DEF Watched
<1>4. SteadyStore' /\ HandsOn(p)
  BY <1>1, <1>2, <1>3, StoreStays
<1>5. SteadyAt(p)'
  BY <1>1, UnchangedAt DEF Ready
<1> QED
  BY <1>4, <1>5 DEF KeptBy

-----------------------------------------------------------------------------
LEMMA SteadyStep == ASSUME NEW p \in Proc, Ready(p), Step(p) PROVE KeptBy(p)
<1>1. CASE Begin(p)
  <2>1. CASE Reserve2(p)
    BY <2>1, SteadyMark
  <2> QED
    BY <1>1, <2>1, SteadyAcquire, SteadyCreate, SteadyGiveUp, SteadyReserve, SteadyReserve2Fails DEF Begin
<1>2. CASE Write(p)
  BY <1>2, SteadyMark, SteadyCopy, SteadyUnmark, SteadyLateSignal, SteadyFails DEF Write
<1>3. CASE Rotate(p)
  BY <1>3, SteadyList, SteadyRotateTear, SteadyRotateRemove, SteadyRotateDate, SteadyRotateEnd DEF Rotate
<1>4. CASE Cleanup(p)
  BY <1>4, SteadyCleanupRemove, SteadyCleanupDate DEF Cleanup
<1> QED
  BY <1>1, <1>2, <1>3, <1>4, SteadyRelease, SteadySignal, SteadyKill DEF Step

(* A process that is not active only asks for the lock.                    *)
LEMMA IdleStep ==
  ASSUME NEW p \in Proc, ProcessOK, Step(p), ~Active(p)
  PROVE  UNCHANGED <<snap, clock>>
<1>1. pc[p] \in {"start"} \cup Exited
  BY DEF Active
<1>2. CASE AcquireLock(p)
  BY <1>2 DEF AcquireLock, store
<1>3. CASE CreateDateDir(p) \/ FlowInterrupted(p) \/ CreateFails(p) \/ Reserve(p) \/ Reserve2(p) \/ Reserve2Fails(p)
  BY <1>1, <1>3 DEF CreateDateDir, FlowInterrupted, CreateFails, Reserve, Reserve2, Reserve2Fails, Exited
<1>4. CASE Write(p)
  BY <1>1, <1>4 DEF Write, WritePartial, CopyGit, ListFiles, GitKilled, CopyFiles, CopyInterrupted, WriteFails,
                    RemovePartial, WriteDone, RemoveReserve, Exited
<1>5. CASE Rotate(p) \/ Cleanup(p)
  BY <1>1, <1>5 DEF Rotate, List, RotateTear, RotateRemove, RotateDateDir, RotateDateDir2, RotateEnd,
                    Cleanup, CleanupTear, CleanupRemove, CleanupDateDir, CleanupDateDir2, Exited
<1>6. CASE ReleaseLock(p) \/ Signal(p) \/ Kill(p)
  BY <1>6 DEF ReleaseLock, Signal, Kill, store
<1> QED
  BY <1>2, <1>3, <1>4, <1>5, <1>6 DEF Step, Begin

LEMMA SteadyInductive == ASSUME TypeInv, SteadyInv, [Next]_vars PROVE SteadyInv'
<1>1. ASSUME NEW p \in Proc, Step(p), UNCHANGED faults PROVE SteadyInv'
  <2>1. CASE Steady
    <3>1. Ready(p) /\ ProcessOK
      BY <2>1, ReadyHolds DEF Ready
    <3>2. KeptBy(p) /\ OthersStay(p) /\ (Active(p) => Alone(p)) /\ (Active(p) \/ UNCHANGED <<snap, clock>>)
      BY <1>1, <3>1, SteadyStep, OthersStep, IdleStep DEF Ready
    <3> QED
      BY <2>1, <3>2, SteadyFrame
  <2>2. CASE ~Steady
    BY <1>1, <2>2 DEF SteadyInv, Steady
  <2> QED
    BY <2>1, <2>2
<1>2. CASE UNCHANGED vars
  <2>1. UNCHANGED <<faults, snap, clock, pc, target, victims, result, clobbered>>
    BY <1>2 DEF vars, store, local
  <2>2. SteadyStore /\ LeftoverInv => SteadyStore' /\ LeftoverInv'
    BY <2>1 DEF SteadyStore, LeftoverInv, Watched, Whole, Done
  <2>3. ASSUME NEW p \in Proc, SteadyAt(p) PROVE SteadyAt(p)'
    BY <2>1, <2>3, UnchangedAt
  <2> QED
    BY <2>1, <2>2, <2>3 DEF SteadyInv, Steady
<1> QED
  BY <1>1, <1>2 DEF Next, AllExited

(* In a steady environment the one active process finds, wherever it is,   *)
(* its snapshot as far as its program has come.                            *)
THEOREM SteadyInvariant == Spec => []SteadyInv
<1>1. TypeInv /\ SteadyInv /\ [Next]_vars => SteadyInv'
  BY SteadyInductive
<1> QED
  BY <1>1, InitialSteady, TypeInvariant, PTL DEF Spec

(* A snapshot marked .done holds a complete copy, or its removal has begun,*)
(* however processes are interrupted, fail or are killed.                  *)
THEOREM DoneIsTrue == Spec => []DoneIsComplete
<1>1. SteadyInv => DoneIsComplete
  BY DEF SteadyInv, SteadyStore, DoneIsComplete
<1> QED
  BY <1>1, SteadyInvariant, PTL

(* No process removes a snapshot directory another process is writing.     *)
THEOREM NobodyClobbers == Spec => []NothingClobbered
<1>1. SteadyInv => NothingClobbered
  BY DEF SteadyInv, SteadyStore, NothingClobbered
<1> QED
  BY <1>1, SteadyInvariant, PTL

(* Whatever is not a whole snapshot is the work of a process that still    *)
(* runs, and will finish or remove it, or that was killed.                 *)
THEOREM LeftoversFromKills == Spec => []LeftoversAreFromKills
<1>1. SteadyInv => LeftoversAreFromKills
  BY DEF SteadyInv, LeftoverInv, Watched, LeftoversAreFromKills
<1> QED
  BY <1>1, SteadyInvariant, PTL

(* What a run reports is true: after an error there is no snapshot, after  *)
(* an interruption none or a finished one, after success a finished one.   *)
THEOREM ResultsAreTrue == Spec => []ResultIsTrue
<1>1. SteadyInv => ResultIsTrue
  <2> SUFFICES ASSUME SteadyInv, Steady, NEW p \in Proc, pc[p] = "release", target[p] # <<>>
               PROVE  CASE result[p] = "ok" -> Done(target[p]) /\ snap[target[p]].content = "all"
                        [] result[p] = "interrupted" ->
                               ~snap[target[p]].exists \/ (Done(target[p]) /\ snap[target[p]].content = "all")
                        [] result[p] = "critical" -> ~snap[target[p]].exists
    BY DEF ResultIsTrue
  <2>1. \/ result[p] = "ok" /\ Kept(target[p])
        \/ result[p] = "interrupted" /\ (~snap[target[p]].exists \/ Kept(target[p]))
        \/ result[p] = "critical" /\ ~snap[target[p]].exists
    BY DEF SteadyInv, SteadyAt, ResultAt
  <2> QED
    BY <2>1 DEF Kept, Whole
<1> QED
  BY <1>1, SteadyInvariant, PTL

(* A run that succeeds leaves at most keep_count snapshots.                *)
THEOREM CountBounded == Spec => []CountIsBounded
<1>1. SteadyInv => CountIsBounded
  <2> SUFFICES ASSUME SteadyInv, Steady, NEW p \in Proc, pc[p] = "release", result[p] = "ok", KeepCount > 0
               PROVE  Cardinality(Finished) <= KeepCount
    BY DEF CountIsBounded, Finished
  <2>1. Fits(Finished)
    BY DEF SteadyInv, SteadyAt, ResultAt
  <2> QED
    BY <2>1 DEF Fits
<1> QED
  BY <1>1, SteadyInvariant, PTL
=============================================================================
