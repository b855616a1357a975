------------------------------ MODULE BackupRun -------------------------------
(***************************************************************************)
(* A backup run from the moment it asks for the lock: handleBackupFlow,    *)
(* createUniqueSnapshotDir, the copy, the markers, the deferred cleanup    *)
(* and the rotation by count of internal/usecase/backup.go, composed with  *)
(* the lock of ExclusiveLock.  All processes back up the same repository,  *)
(* so they share one directory of snapshots, <date>/<time>[-<suffix>].     *)
(***************************************************************************)
EXTENDS Naturals, FiniteSets, FiniteSetsExt

CONSTANTS
    Proc,       \* the backup processes
    HostOf,     \* the host of each of them
    Times,      \* clock readings
    DateOf(_),  \* the date of a clock reading
    Suffixes,   \* how many suffixes are tried (100 in the code)
    KeepCount,  \* keep_count
    Scenarios   \* sets of FaultKinds that may happen in one behaviour

FaultKinds ==
    { "overlap",  \* the lock fails to exclude, and clock readings may be equal
      "kill",     \* a process is killed
      "io",       \* a write, a copy or a mkdir fails
      "remove",   \* a RemoveAll stops half-way (its error is ignored)
      "clock" }   \* the local clock is set back

ASSUME TimesAssumption == Times \subseteq Nat /\ IsFiniteSet(Times)
ASSUME SuffixesAssumption == Suffixes \in Nat \ {0}
ASSUME KeepCountAssumption == KeepCount \in Nat
ASSUME ScenariosAssumption == Scenarios \subseteq SUBSET FaultKinds

VARIABLES
    faults,     \* what may go wrong in this behaviour
    status,     \* the lock, as ExclusiveLock sees it
    dates,      \* the date directories that exist
    snap,       \* what is in each snapshot directory
    clock,      \* the latest clock reading used
    pc,         \* where each process is
    target,     \* the name it tries to make, then its snapshot directory
    victims,    \* the snapshots its rotation still has to remove
    result,     \* what its handleBackupFlow returns
    canceled,   \* the processes that received a signal
    clobbered   \* history: snapshots removed while their process wrote them

store == <<dates, snap>>
local == <<target, victims, result>>
vars == <<faults, status, store, clock, pc, local, canceled, clobbered>>

Lock == INSTANCE ExclusiveLock

(* Snapshot names, in the order of the strings they are printed as.        *)
Name == Times \X (0 .. Suffixes - 1)
Before(m, n) == m[1] < n[1] \/ (m[1] = n[1] /\ m[2] < n[2])
DateDir(n) == DateOf(n[1])

(* A snapshot directory: its markers and how much of the copy is in it.    *)
(* "files" is a copy whose .git was removed under the writer, "torn" what  *)
(* an unfinished RemoveAll leaves.                                         *)
Marker == {".reserve", ".partial", ".done"}
Content == {"none", "git", "files", "all", "torn"}
Absent == [exists |-> FALSE, marks |-> {}, content |-> "none"]
Snapshot ==
    {Absent} \cup [exists : {TRUE}, marks : SUBSET Marker, content : Content]
Fresh == [exists |-> TRUE, marks |-> {}, content |-> "none"]

Writing == {"reserve2", "partial", "copyGit", "listFiles", "copyFiles",
            "unmark", "done", "unreserve"}
Rotating == {"list", "rotate", "rotate2", "rotateDate", "rotateDate2"}
Cleaning == {"cleanup", "cleanup2", "cleanDate", "cleanDate2"}
Exited == {"busy", "critical", "returned", "killed"}

TypeOK ==
    /\ faults \in Scenarios
    /\ status \in [Proc -> Lock!Status]
    /\ dates \subseteq {DateOf(t) : t \in Times}
    /\ snap \in [Name -> Snapshot]
    /\ \A n \in Name : snap[n].exists => DateDir(n) \in dates
    /\ clock \in Times \cup {0}
    /\ pc \in [Proc -> {"start", "flow", "reserve", "release"}
                          \cup Writing \cup Rotating \cup Cleaning \cup Exited]
    /\ target \in [Proc -> Name \cup {<<>>}]
    /\ victims \in [Proc -> SUBSET Name]
    /\ result \in [Proc -> {"none", "ok", "interrupted", "critical"}]
    /\ canceled \subseteq Proc
    /\ clobbered \subseteq Name

Init ==
    /\ faults \in Scenarios
    /\ Lock!LockInit
    /\ dates = {} /\ snap = [n \in Name |-> Absent] /\ clock = 0
    /\ pc = [p \in Proc |-> "start"]
    /\ target = [p \in Proc |-> <<>>]
    /\ victims = [p \in Proc |-> {}]
    /\ result = [p \in Proc |-> "none"]
    /\ canceled = {} /\ clobbered = {}

Goto(p, label) == pc' = [pc EXCEPT ![p] = label]
End(p, label, res) == Goto(p, label) /\ result' = [result EXCEPT ![p] = res]

Done(n) == ".done" \in snap[n].marks
IsWriter(p, n) == pc[p] \in Writing /\ target[p] = n

-----------------------------------------------------------------------------
(* File-system operations.                                                 *)

(* Removing names that another process is writing is remembered.           *)
Removed(p, names, new) ==
    /\ snap' = [n \in Name |-> IF n \in names THEN new[n] ELSE snap[n]]
    /\ clobbered' = clobbered \cup
          {n \in names : \E q \in Proc \ {p} : snap[n].exists /\ IsWriter(q, n)}

(* RemoveAll of a snapshot directory starts: some of it is gone, any of    *)
(* the markers may be left.                                                *)
Tear(p, n) ==
    \E m \in SUBSET snap[n].marks :
        Removed(p, {n}, [k \in {n} |-> IF snap[n].exists
                                       THEN [exists |-> TRUE, marks |-> m, content |-> "torn"]
                                       ELSE Absent])

Mark(n, marker) == snap' = [snap EXCEPT ![n].marks = @ \cup {marker}]
Unmark(n, marker) == snap' = [snap EXCEPT ![n].marks = @ \ {marker}]

(* Mistake: the copy makes the snapshot directory but not the one it is in.*)
AddContentNoParent(n, part) ==
    /\ snap' = [snap EXCEPT ![n].exists = TRUE,
                            ![n].content = IF @ = "torn" THEN "torn" ELSE part]
    /\ UNCHANGED dates

(* The copy adds part to a snapshot directory, which MkdirAll creates anew *)
(* when it is gone.                                                        *)
AddContent(n, part) ==
    /\ dates' = dates \cup {DateDir(n)}
    /\ snap' = [snap EXCEPT ![n].exists = TRUE,
                            ![n].content = IF @ = "torn" THEN "torn" ELSE part]

EmptyDate(d) == \A n \in Name : DateDir(n) = d => ~snap[n].exists

-----------------------------------------------------------------------------
(* acquireBackupLock: busy, failed, or held.                               *)
Usurp(p) ==
    /\ "overlap" \in faults /\ status[p] = "idle"
    /\ status' = [status EXCEPT ![p] = "held"]

AcquireLock(p) ==
    /\ pc[p] = "start"
    /\ \/ (Lock!Grant(p) \/ Usurp(p)) /\ Goto(p, "flow")
       \/ Lock!Refuse(p) /\ Goto(p, "busy")
       \/ (Lock!Fail(p) \/ ("io" \in faults /\ Lock!Keep(p))) /\ Goto(p, "critical")
    /\ UNCHANGED <<store, clock, local, canceled, clobbered>>

(* The clock is read once; the date directory is made if it is missing.    *)
CreateDateDir(p) ==
    /\ pc[p] = "flow" /\ p \notin canceled
    /\ \E t \in Times :
          /\ \/ t > clock
             \/ "overlap" \in faults /\ t = clock
             \/ "clock" \in faults
          /\ clock' = t
          /\ target' = [target EXCEPT ![p] = <<t, 0>>]
          /\ dates' = dates \cup {DateOf(t)}
    /\ Goto(p, "reserve")
    /\ UNCHANGED <<status, snap, victims, result, canceled, clobbered>>

FlowInterrupted(p) ==
    /\ pc[p] = "flow" /\ p \in canceled
    /\ End(p, "release", "interrupted")
    /\ UNCHANGED <<status, store, clock, target, victims, canceled, clobbered>>

(* Any call of createUniqueSnapshotDir fails: no cleanup is deferred yet.  *)
GiveUp(p) == End(p, "release", "critical") /\ target' = [target EXCEPT ![p] = <<>>]

CreateFails(p) ==
    /\ \/ pc[p] = "flow" /\ "io" \in faults
       \/ pc[p] = "reserve" /\ ("io" \in faults \/ DateDir(target[p]) \notin dates)
    /\ GiveUp(p)
    /\ UNCHANGED <<status, store, clock, victims, canceled, clobbered>>

(* The exclusive mkdir of the target, and the next suffix when it exists.  *)
NextSuffix(p) ==
    IF target[p][2] + 1 < Suffixes
    THEN /\ target' = [target EXCEPT ![p][2] = @ + 1]
         /\ Goto(p, "reserve") /\ UNCHANGED result
    ELSE GiveUp(p)

(* Mistake: MkdirAll in the place of the exclusive mkdir.                  *)
ReserveShared(p) ==
    /\ pc[p] = "reserve" /\ DateDir(target[p]) \in dates
    /\ IF snap[target[p]].exists THEN UNCHANGED snap
       ELSE snap' = [snap EXCEPT ![target[p]] = Fresh]
    /\ Goto(p, "reserve2")
    /\ UNCHANGED <<status, dates, clock, local, canceled, clobbered>>

Reserve(p) ==
    /\ pc[p] = "reserve" /\ DateDir(target[p]) \in dates
    /\ IF snap[target[p]].exists
       THEN NextSuffix(p) /\ UNCHANGED snap
       ELSE /\ snap' = [snap EXCEPT ![target[p]] = Fresh]
            /\ Goto(p, "reserve2") /\ UNCHANGED <<target, result>>
    /\ UNCHANGED <<status, dates, clock, victims, canceled, clobbered>>

(* The exclusive mkdir of .reserve inside it; on failure the target goes.  *)
Reserve2(p) ==
    /\ pc[p] = "reserve2"
    /\ snap[target[p]].exists /\ ".reserve" \notin snap[target[p]].marks
    /\ Mark(target[p], ".reserve") /\ Goto(p, "partial")
    /\ UNCHANGED <<status, dates, clock, local, canceled, clobbered>>

Reserve2Fails(p) ==
    /\ pc[p] = "reserve2"
    /\ "io" \in faults \/ ~snap[target[p]].exists \/ ".reserve" \in snap[target[p]].marks
    /\ Removed(p, {target[p]}, [n \in {target[p]} |-> Absent])
    /\ IF ".reserve" \in snap[target[p]].marks
       THEN NextSuffix(p)
       ELSE GiveUp(p)
    /\ UNCHANGED <<status, dates, clock, victims, canceled>>

-----------------------------------------------------------------------------
(* From here on a return without success runs the deferred cleanup.        *)
WritePartial(p) ==
    /\ pc[p] = "partial" /\ snap[target[p]].exists
    /\ Mark(target[p], ".partial") /\ Goto(p, "copyGit")
    /\ UNCHANGED <<status, dates, clock, local, canceled, clobbered>>

CopyGit(p) ==
    /\ pc[p] = "copyGit" /\ p \notin canceled
    /\ AddContent(target[p], "git")
    /\ Goto(p, "listFiles")
    /\ UNCHANGED <<status, clock, local, canceled, clobbered>>

ListFiles(p) ==
    /\ pc[p] = "listFiles" /\ p \notin canceled
    /\ Goto(p, "copyFiles")
    /\ UNCHANGED <<status, store, clock, local, canceled, clobbered>>

(* Mistake: a failed git command returns without the deferred cleanup.     *)
GitKilledNoCleanup(p) ==
    /\ pc[p] \in {"copyGit", "listFiles"} /\ p \in canceled
    /\ End(p, "release", "critical")
    /\ UNCHANGED <<status, store, clock, target, victims, canceled, clobbered>>

(* A git command of a canceled context is killed, or not started: its      *)
(* error no longer is the error of the context.                            *)
GitKilled(p) ==
    /\ pc[p] \in {"copyGit", "listFiles"} /\ p \in canceled
    /\ End(p, "cleanup", "critical")
    /\ UNCHANGED <<status, store, clock, target, victims, canceled, clobbered>>

(* Mistake: the context is not checked after the workers have left early.  *)
CopyFilesUnchecked(p) ==
    /\ pc[p] = "copyFiles"
    /\ IF p \in canceled THEN UNCHANGED store
       ELSE AddContent(target[p], IF snap[target[p]].content = "git" THEN "all" ELSE "files")
    /\ Goto(p, "unmark")
    /\ UNCHANGED <<status, clock, local, canceled, clobbered>>

CopyFiles(p) ==
    /\ pc[p] = "copyFiles" /\ p \notin canceled
    /\ AddContent(target[p], IF snap[target[p]].content = "git" THEN "all" ELSE "files")
    /\ Goto(p, "unmark")
    /\ UNCHANGED <<status, clock, local, canceled, clobbered>>

(* The walk, or the check after the workers, finds the context canceled.   *)
CopyInterrupted(p) ==
    /\ pc[p] \in {"copyGit", "copyFiles"} /\ p \in canceled
    /\ End(p, "cleanup", "interrupted")
    /\ UNCHANGED <<status, store, clock, target, victims, canceled, clobbered>>

(* Mistake: the cleanup is deferred only after .partial has been written.  *)
WriteFailsEarly(p) ==
    /\ \/ pc[p] \in {"partial", "done"} /\ ~snap[target[p]].exists
       \/ pc[p] \in {"partial", "copyGit", "listFiles", "copyFiles", "done"}
             /\ "io" \in faults
    /\ IF pc[p] = "partial"
       THEN End(p, "release", "critical") /\ target' = [target EXCEPT ![p] = <<>>]
       ELSE End(p, "cleanup", "critical") /\ UNCHANGED target
    /\ UNCHANGED <<status, store, clock, victims, canceled, clobbered>>

(* A copy or a marker cannot be written, whatever the context says.        *)
WriteFails(p) ==
    /\ \/ pc[p] \in {"partial", "done"} /\ ~snap[target[p]].exists
       \/ pc[p] \in {"partial", "copyGit", "listFiles", "copyFiles", "done"}
             /\ "io" \in faults
    /\ End(p, "cleanup", "critical")
    /\ UNCHANGED <<status, store, clock, target, victims, canceled, clobbered>>

RemovePartial(p) ==
    /\ pc[p] = "unmark"
    /\ \/ Unmark(target[p], ".partial")
       \/ "remove" \in faults /\ UNCHANGED snap
    /\ Goto(p, "done")
    /\ UNCHANGED <<status, dates, clock, local, canceled, clobbered>>

WriteDone(p) ==
    /\ pc[p] = "done" /\ snap[target[p]].exists
    /\ Mark(target[p], ".done") /\ Goto(p, "unreserve")
    /\ UNCHANGED <<status, dates, clock, local, canceled, clobbered>>

(* The snapshot is kept even if the run now reports an interruption.       *)
RemoveReserve(p) ==
    /\ pc[p] = "unreserve"
    /\ \/ Unmark(target[p], ".reserve")
       \/ "remove" \in faults /\ UNCHANGED snap
    /\ IF p \in canceled THEN End(p, "release", "interrupted")
                         ELSE Goto(p, "list") /\ UNCHANGED result
    /\ UNCHANGED <<status, dates, clock, target, victims, canceled, clobbered>>

-----------------------------------------------------------------------------
(* rotateRepo with keep_count: the finished snapshots with the smallest    *)
(* names go, until KeepCount are left; 0 turns the rotation off.           *)
Oldest(names, k) == {n \in names : Cardinality({m \in names : Before(m, n)}) < k}

(* Mistake: the limit is off by one.                                       *)
ListOffByOne(p) ==
    /\ pc[p] = "list"
    /\ LET snaps == {n \in Name : Done(n)}
           excess == Cardinality(snaps) - (KeepCount + 1)
       IN  victims' = [victims EXCEPT ![p] =
                IF KeepCount > 0 /\ excess > 0 THEN Oldest(snaps, excess) ELSE {}]
    /\ Goto(p, "rotate")
    /\ UNCHANGED <<status, store, clock, target, result, canceled, clobbered>>

List(p) ==
    /\ pc[p] = "list"
    /\ LET snaps == {n \in Name : Done(n)}
           excess == Cardinality(snaps) - KeepCount
       IN  victims' = [victims EXCEPT ![p] =
                IF KeepCount > 0 /\ excess > 0 THEN Oldest(snaps, excess) ELSE {}]
    /\ Goto(p, "rotate")
    /\ UNCHANGED <<status, store, clock, target, result, canceled, clobbered>>

(* removeSnapshot of the oldest victim: RemoveAll of its directory ...     *)
Victim(p) == CHOOSE n \in victims[p] : \A m \in victims[p] \ {n} : Before(n, m)

RotateTear(p) ==
    /\ pc[p] = "rotate" /\ victims[p] # {}
    /\ Tear(p, Victim(p)) /\ Goto(p, "rotate2")
    /\ UNCHANGED <<status, dates, clock, local, canceled>>

RotateRemove(p) ==
    /\ pc[p] = "rotate2"
    /\ \/ Removed(p, {Victim(p)}, [n \in {Victim(p)} |-> Absent])
       \/ "remove" \in faults /\ UNCHANGED <<snap, clobbered>>
    /\ Goto(p, "rotateDate")
    /\ UNCHANGED <<status, dates, clock, local, canceled>>

(* ... then, when its date directory is found empty, RemoveAll of that.    *)
FindDateEmpty(p, d, next, other) ==
    IF d \in dates /\ EmptyDate(d) THEN Goto(p, next) ELSE Goto(p, other)

RemoveDate(p, d) ==
    /\ dates' = dates \ {d}
    /\ LET names == {n \in Name : DateDir(n) = d}
       IN  Removed(p, names, [n \in names |-> Absent])

RotateDateDir(p) ==
    /\ pc[p] = "rotateDate"
    /\ FindDateEmpty(p, DateDir(Victim(p)), "rotateDate2", "rotate")
    /\ victims' = IF pc'[p] = "rotate"
                  THEN [victims EXCEPT ![p] = @ \ {Victim(p)}] ELSE victims
    /\ UNCHANGED <<status, store, clock, target, result, canceled, clobbered>>

RotateDateDir2(p) ==
    /\ pc[p] = "rotateDate2"
    /\ RemoveDate(p, DateDir(Victim(p)))
    /\ victims' = [victims EXCEPT ![p] = @ \ {Victim(p)}]
    /\ Goto(p, "rotate")
    /\ UNCHANGED <<status, clock, target, result, canceled>>

RotateEnd(p) ==
    /\ pc[p] = "rotate" /\ victims[p] = {}
    /\ End(p, "release", "ok")
    /\ UNCHANGED <<status, store, clock, target, victims, canceled, clobbered>>

-----------------------------------------------------------------------------
(* The deferred cleanup of an unsuccessful run.                            *)
CleanupTear(p) ==
    /\ pc[p] = "cleanup"
    /\ Tear(p, target[p]) /\ Goto(p, "cleanup2")
    /\ UNCHANGED <<status, dates, clock, local, canceled>>

CleanupRemove(p) ==
    /\ pc[p] = "cleanup2"
    /\ \/ Removed(p, {target[p]}, [n \in {target[p]} |-> Absent])
       \/ "remove" \in faults /\ UNCHANGED <<snap, clobbered>>
    /\ Goto(p, "cleanDate")
    /\ UNCHANGED <<status, dates, clock, local, canceled>>

CleanupDateDir(p) ==
    /\ pc[p] = "cleanDate"
    /\ FindDateEmpty(p, DateDir(target[p]), "cleanDate2", "release")
    /\ UNCHANGED <<status, store, clock, local, canceled, clobbered>>

CleanupDateDir2(p) ==
    /\ pc[p] = "cleanDate2"
    /\ RemoveDate(p, DateDir(target[p])) /\ Goto(p, "release")
    /\ UNCHANGED <<status, clock, local, canceled>>

(* Whether the lock could be given back is not looked at.                  *)
ReleaseLock(p) ==
    /\ pc[p] = "release" /\ Goto(p, "returned")
    /\ Lock!GiveBack(p) \/ ("remove" \in faults /\ Lock!Keep(p))
    /\ UNCHANGED <<store, clock, local, canceled, clobbered>>

(* SIGINT or SIGTERM, and SIGKILL or a power failure.                      *)
Signal(p) ==
    /\ pc[p] \notin Exited \cup {"start"} /\ p \notin canceled
    /\ canceled' = canceled \cup {p}
    /\ UNCHANGED <<status, store, clock, pc, local, clobbered>>

Kill(p) ==
    /\ "kill" \in faults /\ pc[p] \notin Exited
    /\ Lock!Die(p) /\ Goto(p, "killed")
    /\ UNCHANGED <<store, clock, local, canceled, clobbered>>

AllExited == (\A p \in Proc : pc[p] \in Exited) /\ UNCHANGED vars

Begin(p) == AcquireLock(p) \/ CreateDateDir(p) \/ FlowInterrupted(p) \/ CreateFails(p)
               \/ Reserve(p) \/ Reserve2(p) \/ Reserve2Fails(p)
Write(p) == WritePartial(p) \/ CopyGit(p) \/ ListFiles(p) \/ GitKilled(p) \/ CopyFiles(p)
               \/ CopyInterrupted(p) \/ WriteFails(p) \/ RemovePartial(p) \/ WriteDone(p) \/ RemoveReserve(p)
Rotate(p) == List(p) \/ RotateTear(p) \/ RotateRemove(p) \/ RotateDateDir(p)
                \/ RotateDateDir2(p) \/ RotateEnd(p)
Cleanup(p) == CleanupTear(p) \/ CleanupRemove(p) \/ CleanupDateDir(p) \/ CleanupDateDir2(p)

Step(p) ==
    \/ Begin(p) \/ Write(p) \/ Rotate(p) \/ Cleanup(p)
    \/ ReleaseLock(p) \/ Signal(p) \/ Kill(p)

Next ==
    \/ \E p \in Proc : Step(p) /\ UNCHANGED faults
    \/ AllExited

Spec == Init /\ [][Next]_vars

-----------------------------------------------------------------------------
(* Processes die, files cannot be written; but the lock excludes, the      *)
(* clock goes on and what is removed is gone.                              *)
Steady == faults \subseteq {"kill", "io"}

(* A snapshot marked .done holds a complete copy, or is one whose removal  *)
(* has begun; no interruption, failure or crash leads to .done on less     *)
(* (".done (created after successful completion)").                        *)
DoneIsComplete == Steady => \A n \in Name : Done(n) => snap[n].content \in {"all", "torn"}

(* No process removes a snapshot directory another process is writing      *)
(* ("this prevents collisions during parallel runs").                      *)
NothingClobbered == Steady => clobbered = {}

(* Two processes write to one snapshot directory only after a third one    *)
(* removed it from under its first writer: the reservation itself is never *)
(* won twice, even at equal clock readings.                                *)
ReservationIsExclusive ==
    \A p, q \in Proc : p # q /\ pc[p] \in Writing /\ pc[q] \in Writing =>
        target[p] # target[q] \/ target[p] \in clobbered

(* A run that fails or is interrupted leaves its snapshot finished or not  *)
(* at all; a run that succeeds leaves it finished.                         *)
ResultIsTrue ==
    Steady => \A p \in Proc : pc[p] = "release" /\ target[p] # <<>> =>
        LET mine == snap[target[p]]
        IN  CASE result[p] = "ok" -> Done(target[p]) /\ mine.content = "all"
              [] result[p] = "interrupted" ->
                     ~mine.exists \/ (Done(target[p]) /\ mine.content = "all")
              [] result[p] = "critical" -> ~mine.exists

(* Only a killed process leaves anything but whole snapshots behind: an    *)
(* unfinished directory, which nothing would ever remove, since            *)
(* listSnapshots passes over it, or a finished one it had begun to remove, *)
(* which then counts as a snapshot for ever.                               *)
Whole(n) == Done(n) /\ snap[n].content = "all"
LeftoversAreFromKills ==
    Steady => \A n \in Name : snap[n].exists /\ ~Whole(n) =>
        \E p \in Proc : /\ target[p] = n \/ n \in victims[p]
                        /\ pc[p] \notin Exited \/ pc[p] = "killed"

(* A run that succeeds leaves at most KeepCount snapshots.                 *)
CountIsBounded ==
    Steady => \A p \in Proc : pc[p] = "release" /\ result[p] = "ok" /\ KeepCount > 0 =>
        Cardinality({n \in Name : Done(n)}) <= KeepCount
=============================================================================
