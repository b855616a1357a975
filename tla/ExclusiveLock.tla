---------------------------- MODULE ExclusiveLock ----------------------------
(***************************************************************************)
(* What a backup run expects of the repository lock (LockPort in           *)
(* internal/usecase/interfaces.go, used by internal/usecase/run.go): a run *)
(* that asks once is given the lock, told that it is busy, or told that    *)
(* the attempt failed; it never waits.  The lock of a process that died is *)
(* free again for processes of the same host.  Giving the lock back may    *)
(* fail, which run.go:300 does not look at: then it stays, in the name of  *)
(* a run that is over, until that process has exited.                      *)
(***************************************************************************)
CONSTANTS
    Proc,       \* the backup processes, each of which runs once
    HostOf      \* the host a process runs on

VARIABLE status \* what each process has been told, and whether it still runs

(* kept: the run is over, or never began, but the lock stays in its name.  *)
Status == {"idle", "held", "released", "kept", "busy", "failed", "killed"}

LockTypeOK == status \in [Proc -> Status]

LockInit == status = [p \in Proc |-> "idle"]

(* Mistake: the lock is granted without looking at who holds it.           *)
GrantAnyway(p) ==
    /\ status[p] = "idle"
    /\ status' = [status EXCEPT ![p] = "held"]

Grant(p) ==
    /\ status[p] = "idle"
    /\ \A q \in Proc : status[q] # "held"
    /\ status' = [status EXCEPT ![p] = "held"]

(* Busy is an honest answer: another process holds the lock, or is about   *)
(* to exit without having given it back, or a process of another host, of  *)
(* which nothing is known, took it and never gave it back.                 *)
Refuse(p) ==
    /\ status[p] = "idle"
    /\ \E q \in Proc \ {p} :
          \/ status[q] \in {"held", "kept"}
          \/ status[q] = "killed" /\ HostOf[q] # HostOf[p]
    /\ status' = [status EXCEPT ![p] = "busy"]

Fail(p) ==
    /\ status[p] = "idle"
    /\ status' = [status EXCEPT ![p] = "failed"]

GiveBack(p) ==
    /\ status[p] = "held"
    /\ status' = [status EXCEPT ![p] = "released"]

(* The lock cannot be given back; or it is taken, but taking it is reported *)
(* as failed.  Nobody will give it back.                                   *)
Keep(p) ==
    /\ \/ status[p] = "held"
       \/ status[p] = "idle" /\ \A q \in Proc : status[q] # "held"
    /\ status' = [status EXCEPT ![p] = "kept"]

(* A process that has the lock, or kept it, is killed or exits.            *)
Die(p) ==
    /\ status[p] \in {"held", "kept"}
    /\ status' = [status EXCEPT ![p] = "killed"]

LockNext ==
    \E p \in Proc :
        Grant(p) \/ Refuse(p) \/ Fail(p) \/ GiveBack(p) \/ Keep(p) \/ Die(p)

LockSpec == LockInit /\ [][LockNext]_status

(* At most one process holds the lock.                                     *)
Exclusive == \A p, q \in Proc : status[p] = "held" /\ status[q] = "held" => p = q
=============================================================================
