------------------------------ MODULE BackupLock ------------------------------
(***************************************************************************)
(* The repository lock as internal/adapters/lock/lock.go implements it and *)
(* internal/usecase/run.go uses it, one file-system call per step.         *)
(*                                                                         *)
(* The lock is a directory, .backup.lock, made with an exclusive mkdir,    *)
(* that holds a file, info, naming the process that took it.  os.WriteFile *)
(* opens (creating or truncating) and then writes; os.RemoveAll tries      *)
(* rmdir, unlinks what it finds, and tries rmdir again.  Every process     *)
(* performs one backup; while it holds the lock a goroutine refreshes the  *)
(* time stamp of the file.  A process can be killed between any two calls. *)
(***************************************************************************)
EXTENDS Naturals

CONSTANTS
    Proc,       \* the backup processes
    NoProc,     \* no process
    HostOf,     \* the host each process runs on
    Hazards     \* which of HazardKinds the environment may produce

HazardKinds ==
    { "overlap",        \* lock calls of two processes overlap in time
      "refreshOverlap", \* a refresh overlaps another lock call
      "age",            \* a live holder's stamp gets older than 24 hours
      "lateRefresh",    \* a refresh starts after stopRefresh cancelled it
      "writeError" }    \* the write of a refresh fails (disk full)

ASSUME ProcAssumption == NoProc \notin Proc
ASSUME HazardAssumption == Hazards \subseteq HazardKinds

VARIABLES
    dir,        \* the lock directory and what is in its info file
    infoPid,    \* the process a readable info file names
    infoOld,    \* its time stamp is more than 24 hours old
    mainFds,    \* the processes whose main thread, and those whose refresh
    refreshFds, \* goroutine, has a descriptor open on the info file
    pc,         \* where the main thread of each process is
    seen,       \* the process named by the info file it read
    rpc,        \* where the refresh goroutine of each process is
    rseen,      \* the process named by the info file it read
    maker,      \* history: the process that made the lock directory
    robbed      \* history: owners whose directory another process removed

disk == <<dir, infoPid, infoOld, mainFds, refreshFds>>
history == <<maker, robbed>>
main == <<pc, seen>>
refresh == <<rpc, rseen>>
vars == <<disk, main, refresh, history>>

(* dir: no directory; no info file; an empty info file (created or         *)
(* truncated, not yet written); one that does not parse; a readable one.   *)
DirState == {"nodir", "noinfo", "empty", "garbled", "ok"}

Acquiring == {"read", "judge", "rmTry", "rmUnlink", "rmDir", "mkdir2",
              "create", "write"}
Releasing == {"relUnlink", "relDir"}
(* kept, left: the run is over, or failed, and its info file may be there  *)
(* still; the process is running, and has exited.                          *)
Exited == {"done", "left", "busy", "critical", "collided", "aborted", "killed"}
MainState == {"start", "held", "relTry", "returned", "kept"}
                \cup Acquiring \cup Releasing \cup Exited
RefreshState == {"off", "wait", "open", "write", "quit"}

TypeOK ==
    /\ dir \in DirState
    /\ infoPid \in Proc \cup {NoProc}
    /\ infoOld \in BOOLEAN
    /\ mainFds \subseteq Proc /\ refreshFds \subseteq Proc
    /\ pc \in [Proc -> MainState]
    /\ seen \in [Proc -> Proc \cup {NoProc}]
    /\ rpc \in [Proc -> RefreshState]
    /\ rseen \in [Proc -> Proc \cup {NoProc}]
    /\ maker \in Proc \cup {NoProc}
    /\ robbed \subseteq Proc

Init ==
    /\ dir = "nodir" /\ infoPid = NoProc /\ infoOld = FALSE
    /\ mainFds = {} /\ refreshFds = {}
    /\ pc = [p \in Proc |-> "start"]
    /\ seen = [p \in Proc |-> NoProc]
    /\ rpc = [p \in Proc |-> "off"]
    /\ rseen = [p \in Proc |-> NoProc]
    /\ maker = NoProc /\ robbed = {}

Alive(p) == pc[p] \notin Exited

(* p has made the directory and not yet given it up.                       *)
Owner(p) == pc[p] \in {"create", "write", "held", "relTry"} \cup Releasing

Goto(p, label) == pc' = [pc EXCEPT ![p] = label]

-----------------------------------------------------------------------------
(* The file-system calls.                                                  *)

NoInfo(d) ==
    /\ dir' = d /\ infoPid' = NoProc /\ infoOld' = FALSE
    /\ mainFds' = {} /\ refreshFds' = {}

MkdirBy(p) == NoInfo("noinfo") /\ maker' = p /\ UNCHANGED robbed

(* rmdir of an empty directory: whoever made it no longer has the lock.    *)
RmdirBy(p) ==
    /\ NoInfo("nodir")
    /\ maker' = NoProc
    /\ robbed' = IF maker \in Proc \ {p} /\ Owner(maker)
                 THEN robbed \cup {maker} ELSE robbed

(* open(O_CREATE|O_TRUNC)                                                  *)
OpenInfo == dir' = "empty" /\ infoPid' = NoProc /\ infoOld' = FALSE

(* Mistake: the fields are swapped, the host is written where the pid goes.*)
WriteInfoSwapped(linked, pid) ==
    IF linked
    THEN dir' = "ok" /\ infoPid' = HostOf[pid] /\ infoOld' = FALSE
    ELSE UNCHANGED <<dir, infoPid, infoOld>>

(* write through a descriptor: into the void when the file was unlinked;   *)
(* over a file that is no longer empty, possibly leaving a longer tail.    *)
WriteInfo(linked, pid) ==
    IF linked
    THEN \/ dir' = "ok" /\ infoPid' = pid /\ infoOld' = FALSE
         \/ /\ dir # "empty"
            /\ dir' = "garbled" /\ infoPid' = NoProc /\ infoOld' = FALSE
    ELSE UNCHANGED <<dir, infoPid, infoOld>>

-----------------------------------------------------------------------------
(* The lock calls in progress, and when a thread may begin one.            *)
MainCall(p) == pc[p] \in Acquiring \cup Releasing
RefreshCall(p) == rpc[p] \in {"open", "write"}

MayCallMain ==
    \A q \in Proc : /\ MainCall(q) => "overlap" \in Hazards
                    /\ RefreshCall(q) => "refreshOverlap" \in Hazards

MayCallRefresh ==
    \A q \in Proc : MainCall(q) \/ RefreshCall(q) => "refreshOverlap" \in Hazards

-----------------------------------------------------------------------------
(* AcquireLock                                                             *)

(* os.Mkdir: the directory is made, or is there already.                   *)
Mkdir(p) ==
    /\ pc[p] = "start" /\ MayCallMain
    /\ IF dir = "nodir" THEN MkdirBy(p) /\ Goto(p, "create")
                        ELSE Goto(p, "read") /\ UNCHANGED <<disk, history>>
    /\ UNCHANGED <<seen, refresh>>

(* validateLockFile, first half: a file that cannot be read or whose stamp *)
(* is too old makes the lock invalid.                                      *)
ReadInfo(p) ==
    /\ pc[p] = "read"
    /\ IF dir = "ok" /\ ~infoOld
       THEN Goto(p, "judge") /\ seen' = [seen EXCEPT ![p] = infoPid]
       ELSE Goto(p, "rmTry") /\ UNCHANGED seen
    /\ UNCHANGED <<disk, refresh, history>>

(* Mistakes: whether the process named runs is not looked up, and its lock *)
(* is broken, or respected for ever.                                       *)
JudgeAllStale(p) ==
    /\ pc[p] = "judge"
    /\ Goto(p, IF HostOf[seen[p]] # HostOf[p] THEN "busy" ELSE "rmTry")
    /\ seen' = [seen EXCEPT ![p] = NoProc]
    /\ UNCHANGED <<disk, refresh, history>>

JudgeAllValid(p) ==
    /\ pc[p] = "judge"
    /\ Goto(p, "busy")
    /\ seen' = [seen EXCEPT ![p] = NoProc]
    /\ UNCHANGED <<disk, refresh, history>>

(* validateLockFile, second half: a lock of another host is valid; one of  *)
(* this host is valid while the process it names runs.  seen is forgotten. *)
Judge(p) ==
    /\ pc[p] = "judge"
    /\ IF HostOf[seen[p]] # HostOf[p] \/ Alive(seen[p])
       THEN Goto(p, "busy") ELSE Goto(p, "rmTry")
    /\ seen' = [seen EXCEPT ![p] = NoProc]
    /\ UNCHANGED <<disk, refresh, history>>

(* os.RemoveAll, from label try to label next.  A file created between the *)
(* unlink and the last rmdir makes it fail.                                *)
RemoveAllTry(p, try, unlink, next) ==
    /\ pc[p] = try
    /\ IF dir \in {"nodir", "noinfo"}
       THEN /\ Goto(p, next)
            /\ IF dir = "noinfo" THEN RmdirBy(p) ELSE UNCHANGED <<disk, history>>
       ELSE Goto(p, unlink) /\ UNCHANGED <<disk, history>>
    /\ UNCHANGED <<seen, refresh>>

(* Mistake: os.Remove in the place of os.RemoveAll.                        *)
RemoveOnly(p, unlink, rmdir) ==
    /\ pc[p] = unlink
    /\ Goto(p, rmdir)
    /\ UNCHANGED <<disk, seen, refresh, history>>

RemoveAllUnlink(p, unlink, rmdir) ==
    /\ pc[p] = unlink
    /\ IF dir = "nodir" THEN UNCHANGED disk ELSE NoInfo("noinfo")
    /\ Goto(p, rmdir)
    /\ UNCHANGED <<seen, refresh, history>>

RemoveAllRmdir(p, rmdir, next, failed) ==
    /\ pc[p] = rmdir
    /\ IF dir = "noinfo" THEN RmdirBy(p) ELSE UNCHANGED <<disk, history>>
    /\ Goto(p, IF dir \in {"nodir", "noinfo"} THEN next ELSE failed)
    /\ UNCHANGED <<seen, refresh>>

BreakTry(p) == RemoveAllTry(p, "rmTry", "rmUnlink", "mkdir2")
BreakUnlink(p) == RemoveAllUnlink(p, "rmUnlink", "rmDir")
BreakRmdir(p) == RemoveAllRmdir(p, "rmDir", "mkdir2", "collided")

(* Mistake: the second mkdir accepts a directory that is there already.    *)
MkdirAllAgain(p) ==
    /\ pc[p] = "mkdir2"
    /\ IF dir = "nodir" THEN MkdirBy(p) ELSE UNCHANGED <<disk, history>>
    /\ Goto(p, "create")
    /\ UNCHANGED <<seen, refresh>>

(* The second os.Mkdir: finding a directory here is an error, not "busy".  *)
MkdirAgain(p) ==
    /\ pc[p] = "mkdir2"
    /\ IF dir = "nodir" THEN MkdirBy(p) /\ Goto(p, "create")
                        ELSE Goto(p, "collided") /\ UNCHANGED <<disk, history>>
    /\ UNCHANGED <<seen, refresh>>

(* createLockFile: os.WriteFile opens ...                                  *)
CreateOpen(p) ==
    /\ pc[p] = "create"
    /\ IF dir = "nodir" THEN Goto(p, "collided") /\ UNCHANGED disk
                        ELSE /\ Goto(p, "write") /\ OpenInfo
                             /\ mainFds' = mainFds \cup {p} /\ UNCHANGED refreshFds
    /\ UNCHANGED <<seen, refresh, history>>

(* ... and writes; the run holds the lock and startLockRefresh follows.    *)
CreateWrite(p) ==
    /\ pc[p] = "write"
    /\ WriteInfo(p \in mainFds, p)
    /\ mainFds' = mainFds \ {p} /\ UNCHANGED refreshFds
    /\ Goto(p, "held")
    /\ rpc' = [rpc EXCEPT ![p] = "wait"]
    /\ UNCHANGED <<seen, rseen, history>>

(* The close in os.WriteFile fails after the write: the attempt failed, but *)
(* the info file names this process.                                       *)
CloseError(p) ==
    /\ pc[p] = "write"
    /\ WriteInfo(p \in mainFds, p)
    /\ mainFds' = mainFds \ {p} /\ UNCHANGED refreshFds
    /\ Goto(p, "kept")
    /\ UNCHANGED <<seen, refresh, history>>

(* A call of AcquireLock fails; the directory it made, if any, stays.      *)
AcquireError(p) ==
    /\ pc[p] \in {"start", "rmTry", "rmUnlink", "rmDir", "mkdir2", "create", "write"}
    /\ Goto(p, "critical")
    /\ mainFds' = mainFds \ {p}
    /\ UNCHANGED <<dir, infoPid, infoOld, refreshFds, seen, refresh, history>>

-----------------------------------------------------------------------------
(* The rest of Backup: handleBackupFlow returns, stopRefresh cancels the   *)
(* goroutine without waiting for it, ReleaseLock removes whatever          *)
(* directory is at the path, and the process exits some time later.        *)
StopRefresh(p) ==
    /\ pc[p] = "held"
    /\ Goto(p, "relTry")
    /\ UNCHANGED <<disk, seen, refresh, history>>

ReleaseTry(p) ==
    MayCallMain /\ RemoveAllTry(p, "relTry", "relUnlink", "returned")
ReleaseUnlink(p) == RemoveAllUnlink(p, "relUnlink", "relDir")
ReleaseRmdir(p) == RemoveAllRmdir(p, "relDir", "returned", "returned")

(* A call of os.RemoveAll fails and so does ReleaseLock, which Backup does *)
(* not look at: with the info file on disk the lock stays in the name of a *)
(* run that is over; with only the directory left it is free.              *)
ReleaseFails(p) ==
    /\ \/ pc[p] = "relTry" /\ MayCallMain /\ Goto(p, "kept")
       \/ pc[p] = "relUnlink" /\ Goto(p, "kept")
       \/ pc[p] = "relDir" /\ Goto(p, "returned")
    /\ UNCHANGED <<disk, seen, refresh, history>>

Die(p, label) ==
    /\ Goto(p, label)
    /\ seen' = [seen EXCEPT ![p] = NoProc]
    /\ rpc' = [rpc EXCEPT ![p] = "quit"]
    /\ rseen' = [rseen EXCEPT ![p] = NoProc]
    /\ mainFds' = mainFds \ {p} /\ refreshFds' = refreshFds \ {p}
    /\ UNCHANGED <<dir, infoPid, infoOld, history>>

Exit(p) ==
    \/ pc[p] = "returned" /\ Die(p, "done")
    \/ pc[p] = "kept" /\ Die(p, "left")

(* The process is killed, before it has the lock or while it has it.       *)
Kill(p) ==
    \/ pc[p] \in Acquiring /\ Die(p, "aborted")
    \/ pc[p] \in {"held", "relTry"} \cup Releasing /\ Die(p, "killed")

-----------------------------------------------------------------------------
(* RefreshLock, called by the goroutine of startLockRefresh: it stamps     *)
(* whatever info file it finds, and recreates it if need be.               *)
RefreshRead(p) ==
    /\ Alive(p) /\ rpc[p] = "wait" /\ MayCallRefresh
    /\ pc[p] = "held" \/ "lateRefresh" \in Hazards
    /\ dir = "ok"
    /\ rseen' = [rseen EXCEPT ![p] = infoPid]
    /\ rpc' = [rpc EXCEPT ![p] = "open"]
    /\ UNCHANGED <<disk, main, history>>

RefreshOpen(p) ==
    /\ rpc[p] = "open"
    /\ IF dir = "nodir"
       THEN /\ rpc' = [rpc EXCEPT ![p] = "wait"]
            /\ rseen' = [rseen EXCEPT ![p] = NoProc]
            /\ UNCHANGED disk
       ELSE /\ rpc' = [rpc EXCEPT ![p] = "write"]
            /\ OpenInfo
            /\ refreshFds' = refreshFds \cup {p}
            /\ UNCHANGED <<mainFds, rseen>>
    /\ UNCHANGED <<main, history>>

RefreshDone(p) ==
    /\ refreshFds' = refreshFds \ {p} /\ UNCHANGED mainFds
    /\ rpc' = [rpc EXCEPT ![p] = "wait"]
    /\ rseen' = [rseen EXCEPT ![p] = NoProc]
    /\ UNCHANGED <<main, history>>

RefreshWrite(p) ==
    /\ rpc[p] = "write"
    /\ WriteInfo(p \in refreshFds, rseen[p])
    /\ RefreshDone(p)

(* The write fails after the open truncated the file.                      *)
RefreshWriteError(p) ==
    /\ "writeError" \in Hazards
    /\ rpc[p] = "write"
    /\ RefreshDone(p)
    /\ UNCHANGED <<dir, infoPid, infoOld>>

RefreshQuit(p) ==
    /\ rpc[p] = "wait" /\ pc[p] \in {"relTry", "returned", "kept"} \cup Releasing
    /\ rpc' = [rpc EXCEPT ![p] = "quit"]
    /\ UNCHANGED <<disk, main, rseen, history>>

-----------------------------------------------------------------------------
(* 24 hours pass after the last stamp.  The hourly refresh keeps a live    *)
(* holder's stamp young, unless the machine sleeps or refreshes fail.      *)
InfoAges ==
    /\ dir = "ok" /\ ~infoOld
    /\ Alive(infoPid) => "age" \in Hazards
    /\ infoOld' = TRUE
    /\ UNCHANGED <<dir, infoPid, mainFds, refreshFds, main, refresh, history>>

(* Nothing is left to run.                                                 *)
AllExited ==
    /\ \A p \in Proc : ~Alive(p)
    /\ UNCHANGED vars

-----------------------------------------------------------------------------
AcquireStep(p) ==
    \/ Mkdir(p) \/ ReadInfo(p) \/ Judge(p)
    \/ BreakTry(p) \/ BreakUnlink(p) \/ BreakRmdir(p)
    \/ MkdirAgain(p) \/ CreateOpen(p) \/ CreateWrite(p) \/ CloseError(p)
    \/ AcquireError(p)

ReleaseStep(p) ==
    \/ StopRefresh(p) \/ ReleaseTry(p) \/ ReleaseUnlink(p) \/ ReleaseRmdir(p)
    \/ ReleaseFails(p) \/ Exit(p) \/ Kill(p)

RefreshStep(p) ==
    \/ RefreshRead(p) \/ RefreshOpen(p) \/ RefreshWrite(p)
    \/ RefreshWriteError(p) \/ RefreshQuit(p)

Next ==
    \/ \E p \in Proc : AcquireStep(p) \/ ReleaseStep(p) \/ RefreshStep(p)
    \/ InfoAges
    \/ AllExited

Spec == Init /\ [][Next]_vars

-----------------------------------------------------------------------------
(* Mutual exclusion: two backups of one repository never run at the same   *)
(* time ("AcquireLock attempts to acquire exclusive lock").                *)
Mutex == \A p, q \in Proc : pc[p] = "held" /\ pc[q] = "held" => p = q

(* Whatever the environment does, two backups run at the same time only    *)
(* after a third party's RemoveAll (a breaker of a lock judged stale, or   *)
(* the release of a process that lost the lock itself) took the directory  *)
(* from one of them: the exclusive mkdir is never won twice.               *)
OnlyRobbedOverlap ==
    \A p, q \in Proc :
        pc[p] = "held" /\ pc[q] = "held" /\ p # q => p \in robbed \/ q \in robbed

(* What a process leaves behind, wherever it is killed and whichever call  *)
(* fails, never makes a later AcquireLock fail by itself: the remains are  *)
(* removed and the second mkdir succeeds.                                  *)
NeverCollides == \A p \in Proc : pc[p] # "collided"

(* The adapter implements the lock the backup runs rely on: exclusion, an  *)
(* honest "busy", recovery of the lock of a process that was killed, or    *)
(* could not give it back.                                                 *)
View(label) ==
    CASE label \in {"start"} \cup Acquiring -> "idle"
      [] label \in {"held", "relTry"} \cup Releasing -> "held"
      [] label \in {"returned", "done"} -> "released"
      [] label = "left" -> "killed"
      [] label \in {"critical", "collided", "aborted"} -> "failed"
      [] OTHER -> label

statusOf == [p \in Proc |-> View(pc[p])]

Abstract == INSTANCE ExclusiveLock WITH status <- statusOf
ImplementsExclusiveLock == Abstract!LockSpec
=============================================================================
