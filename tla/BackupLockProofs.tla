--------------------------- MODULE BackupLockProofs ---------------------------
(***************************************************************************)
(* Theorems about BackupLock for every set of processes and every          *)
(* placement of them on hosts, with their proofs.                          *)
(***************************************************************************)
EXTENDS BackupLock, TLAPS

-----------------------------------------------------------------------------
(* Type correctness, whatever the environment does.                        *)

LEMMA InitTypeOK == Init => TypeOK
  BY DEF Init, TypeOK, DirState, MainState, RefreshState

LEMMA AcquireTypeOK ==
  ASSUME TypeOK, NEW p \in Proc, AcquireStep(p)
  PROVE  TypeOK'
<1> USE DEF TypeOK, DirState, MainState, RefreshState, Acquiring, Releasing,
            Exited, Goto, NoInfo, disk, main, refresh, history
<1>1. CASE Mkdir(p)
  BY <1>1 DEF Mkdir, MkdirBy
<1>2. CASE ReadInfo(p)
  BY <1>2 DEF ReadInfo
<1>3. CASE Judge(p)
  BY <1>3 DEF Judge
<1>4. CASE BreakTry(p)
  BY <1>4 DEF BreakTry, RemoveAllTry, RmdirBy
<1>5. CASE BreakUnlink(p)
  BY <1>5 DEF BreakUnlink, RemoveAllUnlink
<1>6. CASE BreakRmdir(p)
  BY <1>6 DEF BreakRmdir, RemoveAllRmdir, RmdirBy
<1>7. CASE MkdirAgain(p)
  BY <1>7 DEF MkdirAgain, MkdirBy
<1>8. CASE CreateOpen(p)
  BY <1>8 DEF CreateOpen, OpenInfo
<1>9. CASE CreateWrite(p)
  BY <1>9 DEF CreateWrite, WriteInfo
<1>11. CASE CloseError(p)
  BY <1>11 DEF CloseError, WriteInfo
<1>10. CASE AcquireError(p)
  BY <1>10 DEF AcquireError
<1> QED
  BY <1>1, <1>2, <1>3, <1>4, <1>5, <1>6, <1>7, <1>8, <1>9, <1>10, <1>11
  DEF AcquireStep

LEMMA ReleaseTypeOK ==
  ASSUME TypeOK, NEW p \in Proc, ReleaseStep(p)
  PROVE  TypeOK'
<1> USE DEF TypeOK, DirState, MainState, RefreshState, Acquiring, Releasing,
            Exited, Goto, NoInfo, disk, main, refresh, history
<1>1. CASE StopRefresh(p)
  BY <1>1 DEF StopRefresh
<1>2. CASE ReleaseTry(p)
  BY <1>2 DEF ReleaseTry, RemoveAllTry, RmdirBy
<1>3. CASE ReleaseUnlink(p)
  BY <1>3 DEF ReleaseUnlink, RemoveAllUnlink
<1>4. CASE ReleaseRmdir(p)
  BY <1>4 DEF ReleaseRmdir, RemoveAllRmdir, RmdirBy
<1>7. CASE ReleaseFails(p)
  BY <1>7 DEF ReleaseFails
<1>5. CASE Exit(p)
  BY <1>5 DEF Exit, Die
<1>6. CASE Kill(p)
  BY <1>6 DEF Kill, Die
<1> QED
  BY <1>1, <1>2, <1>3, <1>4, <1>5, <1>6, <1>7 DEF ReleaseStep

LEMMA RefreshTypeOK ==
  ASSUME TypeOK, NEW p \in Proc, RefreshStep(p)
  PROVE  TypeOK'
<1> USE DEF TypeOK, DirState, MainState, RefreshState, NoInfo, RefreshDone,
            disk, main, refresh, history
<1>1. CASE RefreshRead(p)
  BY <1>1 DEF RefreshRead
<1>2. CASE RefreshOpen(p)
  BY <1>2 DEF RefreshOpen, OpenInfo
<1>3. CASE RefreshWrite(p)
  BY <1>3 DEF RefreshWrite, WriteInfo
<1>4. CASE RefreshWriteError(p)
  BY <1>4 DEF RefreshWriteError
<1>5. CASE RefreshQuit(p)
  BY <1>5 DEF RefreshQuit
<1> QED
  BY <1>1, <1>2, <1>3, <1>4, <1>5 DEF RefreshStep

(* Every variable keeps its type under every hazard.                       *)
THEOREM TypeCorrect == Spec => []TypeOK
<1>1. TypeOK /\ [Next]_vars => TypeOK'
  <2> SUFFICES ASSUME TypeOK, [Next]_vars PROVE TypeOK'
    OBVIOUS
  <2>1. ASSUME NEW p \in Proc, AcquireStep(p) \/ ReleaseStep(p) \/ RefreshStep(p)
        PROVE  TypeOK'
    BY <2>1, AcquireTypeOK, ReleaseTypeOK, RefreshTypeOK
  <2>2. CASE InfoAges
    BY <2>2 DEF InfoAges, TypeOK, main, refresh, history
  <2>3. CASE UNCHANGED vars
    BY <2>3 DEF TypeOK, vars, disk, main, refresh, history
  <2> QED
    BY <2>1, <2>2, <2>3 DEF Next, AllExited
<1> QED
  BY <1>1, InitTypeOK, PTL DEF Spec

-----------------------------------------------------------------------------
(* The exclusive mkdir is never won twice.                                 *)

(* An owner that was not robbed made the directory that is on disk.        *)
MakerInv ==
    \A p \in Proc : Owner(p) /\ p \notin robbed => maker = p /\ dir # "nodir"

LEMMA AcquireMakerInv ==
  ASSUME TypeOK, MakerInv, NEW p \in Proc, AcquireStep(p)
  PROVE  MakerInv'
<1> SUFFICES ASSUME NEW r \in Proc, Owner(r)', r \notin robbed'
             PROVE  maker' = r /\ dir' # "nodir"
  BY DEF MakerInv
<1> USE ProcAssumption
    DEF TypeOK, MakerInv, Owner, Releasing, Goto, NoInfo, disk, main, refresh, history
<1>1. CASE Mkdir(p)
  BY <1>1 DEF Mkdir, MkdirBy
<1>2. CASE ReadInfo(p)
  BY <1>2 DEF ReadInfo
<1>3. CASE Judge(p)
  BY <1>3 DEF Judge
<1>4. CASE BreakTry(p)
  BY <1>4 DEF BreakTry, RemoveAllTry, RmdirBy
<1>5. CASE BreakUnlink(p)
  BY <1>5 DEF BreakUnlink, RemoveAllUnlink
<1>6. CASE BreakRmdir(p)
  BY <1>6 DEF BreakRmdir, RemoveAllRmdir, RmdirBy
<1>7. CASE MkdirAgain(p)
  BY <1>7 DEF MkdirAgain, MkdirBy
<1>8. CASE CreateOpen(p)
  BY <1>8 DEF CreateOpen, OpenInfo
<1>9. CASE CreateWrite(p)
  BY <1>9 DEF CreateWrite, WriteInfo
<1>11. CASE CloseError(p)
  BY <1>11 DEF CloseError, WriteInfo
<1>10. CASE AcquireError(p)
  BY <1>10 DEF AcquireError
<1> QED
  BY <1>1, <1>2, <1>3, <1>4, <1>5, <1>6, <1>7, <1>8, <1>9, <1>10, <1>11
  DEF AcquireStep

LEMMA ReleaseMakerInv ==
  ASSUME TypeOK, MakerInv, NEW p \in Proc, ReleaseStep(p)
  PROVE  MakerInv'
<1> SUFFICES ASSUME NEW r \in Proc, Owner(r)', r \notin robbed'
             PROVE  maker' = r /\ dir' # "nodir"
  BY DEF MakerInv
<1> USE ProcAssumption
    DEF TypeOK, MakerInv, Owner, Releasing, Goto, NoInfo, disk, main, refresh, history
<1>1. CASE StopRefresh(p)
  BY <1>1 DEF StopRefresh
<1>2. CASE ReleaseTry(p)
  BY <1>2 DEF ReleaseTry, RemoveAllTry, RmdirBy
<1>3. CASE ReleaseUnlink(p)
  BY <1>3 DEF ReleaseUnlink, RemoveAllUnlink
<1>4. CASE ReleaseRmdir(p)
  BY <1>4 DEF ReleaseRmdir, RemoveAllRmdir, RmdirBy
<1>7. CASE ReleaseFails(p)
  BY <1>7 DEF ReleaseFails
<1>5. CASE Exit(p)
  BY <1>5 DEF Exit, Die
<1>6. CASE Kill(p)
  BY <1>6 DEF Kill, Die
<1> QED
  BY <1>1, <1>2, <1>3, <1>4, <1>5, <1>6, <1>7 DEF ReleaseStep

LEMMA RefreshMakerInv ==
  ASSUME TypeOK, MakerInv, NEW p \in Proc, RefreshStep(p)
  PROVE  MakerInv'
<1>1. UNCHANGED <<pc, history>>
  BY DEF RefreshStep, RefreshRead, RefreshOpen, RefreshWrite, RefreshWriteError,
         RefreshQuit, RefreshDone, main
<1>2. dir # "nodir" => dir' # "nodir"
  BY DEF RefreshStep, RefreshRead, RefreshOpen, RefreshWrite, RefreshWriteError,
         RefreshQuit, RefreshDone, OpenInfo, WriteInfo, disk
<1> QED
  BY <1>1, <1>2 DEF MakerInv, Owner, history

(* Under every hazard, two backups run at the same time only after a third *)
(* party removed the directory of one of them.                             *)
THEOREM OverlapNeedsRobbery == Spec => []OnlyRobbedOverlap
<1>1. Init => MakerInv
  BY DEF Init, MakerInv, Owner, Releasing
<1>2. TypeOK /\ MakerInv /\ [Next]_vars => MakerInv'
  <2> SUFFICES ASSUME TypeOK, MakerInv, [Next]_vars PROVE MakerInv'
    OBVIOUS
  <2>1. ASSUME NEW p \in Proc, AcquireStep(p) \/ ReleaseStep(p) \/ RefreshStep(p)
        PROVE  MakerInv'
    BY <2>1, AcquireMakerInv, ReleaseMakerInv, RefreshMakerInv
  <2>2. CASE InfoAges
    BY <2>2 DEF InfoAges, MakerInv, Owner, main, history
  <2>3. CASE UNCHANGED vars
    BY <2>3 DEF MakerInv, Owner, vars, disk, main, history
  <2> QED
    BY <2>1, <2>2, <2>3 DEF Next, AllExited
<1>3. MakerInv => OnlyRobbedOverlap
  BY DEF MakerInv, OnlyRobbedOverlap, Owner
<1> QED
  BY <1>1, <1>2, <1>3, TypeCorrect, PTL DEF Spec

-----------------------------------------------------------------------------
(* Mutual exclusion and the refinement, when the environment is calm:      *)
(* lock calls do not overlap, a live holder's stamp stays young, and       *)
(* refreshes neither start late nor fail.                                  *)

(* At most one lock call is in progress.                                   *)
OneCall ==
    /\ \A p, q \in Proc : MainCall(p) /\ MainCall(q) => p = q
    /\ \A p, q \in Proc : RefreshCall(p) /\ RefreshCall(q) => p = q
    /\ \A p, q \in Proc : ~(MainCall(p) /\ RefreshCall(q))

OneOwner == \A p, q \in Proc : Owner(p) /\ Owner(q) => p = q

(* A readable info file names a process that has the lock, kept it, or was *)
(* killed while it had it.                                                 *)
InfoInv ==
    /\ dir = "ok" => /\ infoPid \in Proc
                     /\ pc[infoPid] \in {"held", "relTry", "relUnlink",
                                         "kept", "killed", "left"}
                     /\ infoOld => pc[infoPid] \in {"killed", "left"}
    /\ dir # "ok" => infoPid = NoProc /\ ~infoOld

(* While a process breaks a lock, nobody has it.                           *)
BreakInv(p) ==
    pc[p] \in {"rmTry", "rmUnlink", "rmDir", "mkdir2"} => \A q \in Proc : ~Owner(q)

(* What is on disk while the main thread of p is in a call.                *)
CallInv(p) ==
    /\ pc[p] = "judge" => dir = "ok" /\ seen[p] = infoPid
    /\ pc[p] \in {"rmDir", "create", "relDir"} => dir = "noinfo"
    /\ pc[p] \in {"rmUnlink", "relUnlink"} => dir # "nodir"
    /\ pc[p] = "mkdir2" => dir = "nodir"
    /\ pc[p] = "write" => dir = "empty" /\ p \in mainFds

(* The info file of a process that has the lock names it, except while the *)
(* process rewrites it.                                                    *)
HeldInv(p) ==
    pc[p] \in {"held", "relTry", "relUnlink"} /\ rpc[p] # "write" =>
        dir = "ok" /\ infoPid = p

(* The refresher works for its own process, on its own file.               *)
RefreshInv(p) ==
    /\ RefreshCall(p) => pc[p] \in {"held", "relTry"} /\ rseen[p] = p
    /\ rpc[p] = "open" => dir = "ok"
    /\ rpc[p] = "write" => dir = "empty" /\ p \in refreshFds
    /\ rpc[p] = "wait" => pc[p] \in {"held", "relTry", "returned", "kept"} \cup Releasing

CalmInv ==
    /\ TypeOK /\ OneCall /\ OneOwner /\ InfoInv
    /\ \A p \in Proc : /\ pc[p] # "collided"
                     /\ BreakInv(p) /\ CallInv(p) /\ HeldInv(p) /\ RefreshInv(p)

LEMMA QuietBeforeCall ==
  ASSUME Hazards = {}, MayCallMain \/ MayCallRefresh
  PROVE  \A q \in Proc : ~MainCall(q) /\ ~RefreshCall(q)
  BY DEF MayCallMain, MayCallRefresh

LEMMA InitCalmInv == Init => CalmInv
  BY InitTypeOK DEF Init, CalmInv, OneCall, OneOwner, InfoInv, BreakInv, CallInv, HeldInv, RefreshInv,
                    MainCall, RefreshCall, Owner, Acquiring, Releasing

LEMMA AcquireCalmInv ==
  ASSUME Hazards = {}, CalmInv, NEW p \in Proc, AcquireStep(p)
  PROVE  CalmInv'
<1> USE ProcAssumption
    DEF CalmInv, TypeOK, DirState, MainState, RefreshState, Acquiring, Releasing,
        Goto, NoInfo, disk, main, refresh, history, MainCall, RefreshCall
<1>0. TypeOK'
  BY AcquireTypeOK DEF CalmInv
<1>1. CASE Mkdir(p)
  <2>0. \A q \in Proc : ~MainCall(q) /\ ~RefreshCall(q)
    BY <1>1, QuietBeforeCall DEF Mkdir
  <2>1. OneCall'
    BY <1>1, <2>0 DEF Mkdir, MkdirBy, OneCall, OneOwner, InfoInv, BreakInv, CallInv, HeldInv, RefreshInv, Owner
  <2>2. OneOwner'
    BY <1>1, <2>0 DEF Mkdir, MkdirBy, OneCall, OneOwner, InfoInv, BreakInv, CallInv, HeldInv, RefreshInv, Owner
  <2>3. InfoInv'
    BY <1>1, <2>0 DEF Mkdir, MkdirBy, OneCall, OneOwner, InfoInv, BreakInv, CallInv, HeldInv, RefreshInv, Owner
  <2>4. \A r \in Proc : pc'[r] # "collided" /\ BreakInv(r)'
    BY <1>1, <2>0 DEF Mkdir, MkdirBy, OneOwner, InfoInv, BreakInv, CallInv, HeldInv, RefreshInv, OneCall, Owner
  <2>5. \A r \in Proc : CallInv(r)'
    BY <1>1, <2>0 DEF Mkdir, MkdirBy, OneCall, InfoInv, CallInv, HeldInv, RefreshInv
  <2>6. \A r \in Proc : HeldInv(r)'
    BY <1>1, <2>0 DEF Mkdir, MkdirBy, OneCall, OneOwner, InfoInv, BreakInv, CallInv, HeldInv, RefreshInv, Owner
  <2>7. \A r \in Proc : RefreshInv(r)'
    BY <1>1, <2>0 DEF Mkdir, MkdirBy, OneCall, CallInv, HeldInv, RefreshInv, Owner, InfoInv, OneOwner, BreakInv
  <2> QED
    BY <1>0, <2>1, <2>2, <2>3, <2>4, <2>5, <2>6, <2>7
<1>2. CASE ReadInfo(p)
  <2>1. OneCall'
    BY <1>2 DEF ReadInfo, OneCall, OneOwner, InfoInv, BreakInv, CallInv, HeldInv, RefreshInv, Owner
  <2>2. OneOwner'
    BY <1>2 DEF ReadInfo, OneCall, OneOwner, InfoInv, BreakInv, CallInv, HeldInv, RefreshInv, Owner
  <2>3. InfoInv'
    BY <1>2 DEF ReadInfo, OneCall, OneOwner, InfoInv, BreakInv, CallInv, HeldInv, RefreshInv, Owner
  <2>4. \A r \in Proc : pc'[r] # "collided" /\ BreakInv(r)'
    BY <1>2 DEF ReadInfo, OneOwner, InfoInv, BreakInv, CallInv, HeldInv, RefreshInv, OneCall, Owner
  <2>5. \A r \in Proc : CallInv(r)'
    BY <1>2 DEF ReadInfo, OneCall, InfoInv, CallInv, HeldInv, RefreshInv
  <2>6. \A r \in Proc : HeldInv(r)'
    BY <1>2 DEF ReadInfo, OneCall, OneOwner, InfoInv, BreakInv, CallInv, HeldInv, RefreshInv, Owner
  <2>7. \A r \in Proc : RefreshInv(r)'
    BY <1>2 DEF ReadInfo, OneCall, CallInv, HeldInv, RefreshInv, Owner, InfoInv, OneOwner, BreakInv
  <2> QED
    BY <1>0, <2>1, <2>2, <2>3, <2>4, <2>5, <2>6, <2>7
<1>3. CASE Judge(p)
  <2>1. OneCall'
    BY <1>3 DEF Judge, Alive, Exited, OneCall, OneOwner, InfoInv, BreakInv, CallInv, HeldInv, RefreshInv, Owner
  <2>2. OneOwner'
    BY <1>3 DEF Judge, Alive, Exited, OneCall, OneOwner, InfoInv, BreakInv, CallInv, HeldInv, RefreshInv, Owner
  <2>3. InfoInv'
    BY <1>3 DEF Judge, Alive, Exited, OneCall, OneOwner, InfoInv, BreakInv, CallInv, HeldInv, RefreshInv, Owner
  <2>4. \A r \in Proc : pc'[r] # "collided" /\ BreakInv(r)'
    BY <1>3 DEF Judge, Alive, Exited, OneOwner, InfoInv, BreakInv, CallInv, HeldInv, RefreshInv, OneCall, Owner
  <2>5. \A r \in Proc : CallInv(r)'
    BY <1>3 DEF Judge, Alive, Exited, OneCall, InfoInv, CallInv, HeldInv, RefreshInv
  <2>6. \A r \in Proc : HeldInv(r)'
    BY <1>3 DEF Judge, Alive, Exited, OneCall, OneOwner, InfoInv, BreakInv, CallInv, HeldInv, RefreshInv, Owner
  <2>7. \A r \in Proc : RefreshInv(r)'
    BY <1>3 DEF Judge, Alive, Exited, OneCall, CallInv, HeldInv, RefreshInv, Owner, InfoInv, OneOwner, BreakInv
  <2> QED
    BY <1>0, <2>1, <2>2, <2>3, <2>4, <2>5, <2>6, <2>7
<1>4. CASE BreakTry(p)
  <2>1. OneCall'
    BY <1>4 DEF BreakTry, RemoveAllTry, RmdirBy, OneCall, OneOwner, InfoInv, BreakInv, CallInv, HeldInv, RefreshInv, Owner
  <2>2. OneOwner'
    BY <1>4 DEF BreakTry, RemoveAllTry, RmdirBy, OneCall, OneOwner, InfoInv, BreakInv, CallInv, HeldInv, RefreshInv, Owner
  <2>3. InfoInv'
    BY <1>4 DEF BreakTry, RemoveAllTry, RmdirBy, OneCall, OneOwner, InfoInv, BreakInv, CallInv, HeldInv, RefreshInv, Owner
  <2>4. \A r \in Proc : pc'[r] # "collided" /\ BreakInv(r)'
    BY <1>4 DEF BreakTry, RemoveAllTry, RmdirBy, OneOwner, InfoInv, BreakInv, CallInv, HeldInv, RefreshInv, OneCall, Owner
  <2>5. \A r \in Proc : CallInv(r)'
    BY <1>4 DEF BreakTry, RemoveAllTry, RmdirBy, OneCall, InfoInv, CallInv, HeldInv, RefreshInv
  <2>6. \A r \in Proc : HeldInv(r)'
    BY <1>4 DEF BreakTry, RemoveAllTry, RmdirBy, OneCall, OneOwner, InfoInv, BreakInv, CallInv, HeldInv, RefreshInv, Owner
  <2>7. \A r \in Proc : RefreshInv(r)'
    BY <1>4 DEF BreakTry, RemoveAllTry, RmdirBy, OneCall, CallInv, HeldInv, RefreshInv, Owner, InfoInv, OneOwner, BreakInv
  <2> QED
    BY <1>0, <2>1, <2>2, <2>3, <2>4, <2>5, <2>6, <2>7
<1>5. CASE BreakUnlink(p)
  <2>1. OneCall'
    BY <1>5 DEF BreakUnlink, RemoveAllUnlink, OneCall, OneOwner, InfoInv, BreakInv, CallInv, HeldInv, RefreshInv, Owner
  <2>2. OneOwner'
    BY <1>5 DEF BreakUnlink, RemoveAllUnlink, OneCall, OneOwner, InfoInv, BreakInv, CallInv, HeldInv, RefreshInv, Owner
  <2>3. InfoInv'
    BY <1>5 DEF BreakUnlink, RemoveAllUnlink, OneCall, OneOwner, InfoInv, BreakInv, CallInv, HeldInv, RefreshInv, Owner
  <2>4. \A r \in Proc : pc'[r] # "collided" /\ BreakInv(r)'
    BY <1>5 DEF BreakUnlink, RemoveAllUnlink, OneOwner, InfoInv, BreakInv, CallInv, HeldInv, RefreshInv, OneCall, Owner
  <2>5. \A r \in Proc : CallInv(r)'
    BY <1>5 DEF BreakUnlink, RemoveAllUnlink, OneCall, InfoInv, CallInv, HeldInv, RefreshInv
  <2>6. \A r \in Proc : HeldInv(r)'
    BY <1>5 DEF BreakUnlink, RemoveAllUnlink, OneCall, OneOwner, InfoInv, BreakInv, CallInv, HeldInv, RefreshInv, Owner
  <2>7. \A r \in Proc : RefreshInv(r)'
    BY <1>5 DEF BreakUnlink, RemoveAllUnlink, OneCall, CallInv, HeldInv, RefreshInv, Owner, InfoInv, OneOwner, BreakInv
  <2> QED
    BY <1>0, <2>1, <2>2, <2>3, <2>4, <2>5, <2>6, <2>7
<1>6. CASE BreakRmdir(p)
  <2>1. OneCall'
    BY <1>6 DEF BreakRmdir, RemoveAllRmdir, RmdirBy, OneCall, OneOwner, InfoInv, BreakInv, CallInv, HeldInv, RefreshInv, Owner
  <2>2. OneOwner'
    BY <1>6 DEF BreakRmdir, RemoveAllRmdir, RmdirBy, OneCall, OneOwner, InfoInv, BreakInv, CallInv, HeldInv, RefreshInv, Owner
  <2>3. InfoInv'
    BY <1>6 DEF BreakRmdir, RemoveAllRmdir, RmdirBy, OneCall, OneOwner, InfoInv, BreakInv, CallInv, HeldInv, RefreshInv, Owner
  <2>4. \A r \in Proc : pc'[r] # "collided" /\ BreakInv(r)'
    BY <1>6 DEF BreakRmdir, RemoveAllRmdir, RmdirBy, OneOwner, InfoInv, BreakInv, CallInv, HeldInv, RefreshInv, OneCall, Owner
  <2>5. \A r \in Proc : CallInv(r)'
    BY <1>6 DEF BreakRmdir, RemoveAllRmdir, RmdirBy, OneCall, InfoInv, CallInv, HeldInv, RefreshInv
  <2>6. \A r \in Proc : HeldInv(r)'
    BY <1>6 DEF BreakRmdir, RemoveAllRmdir, RmdirBy, OneCall, OneOwner, InfoInv, BreakInv, CallInv, HeldInv, RefreshInv, Owner
  <2>7. \A r \in Proc : RefreshInv(r)'
    BY <1>6 DEF BreakRmdir, RemoveAllRmdir, RmdirBy, OneCall, CallInv, HeldInv, RefreshInv, Owner, InfoInv, OneOwner, BreakInv
  <2> QED
    BY <1>0, <2>1, <2>2, <2>3, <2>4, <2>5, <2>6, <2>7
<1>7. CASE MkdirAgain(p)
  <2>1. OneCall'
    BY <1>7 DEF MkdirAgain, MkdirBy, OneCall, OneOwner, InfoInv, BreakInv, CallInv, HeldInv, RefreshInv, Owner
  <2>2. OneOwner'
    BY <1>7 DEF MkdirAgain, MkdirBy, OneCall, OneOwner, InfoInv, BreakInv, CallInv, HeldInv, RefreshInv, Owner
  <2>3. InfoInv'
    BY <1>7 DEF MkdirAgain, MkdirBy, OneCall, OneOwner, InfoInv, BreakInv, CallInv, HeldInv, RefreshInv, Owner
  <2>4. \A r \in Proc : pc'[r] # "collided" /\ BreakInv(r)'
    BY <1>7 DEF MkdirAgain, MkdirBy, OneOwner, InfoInv, BreakInv, CallInv, HeldInv, RefreshInv, OneCall, Owner
  <2>5. \A r \in Proc : CallInv(r)'
    BY <1>7 DEF MkdirAgain, MkdirBy, OneCall, InfoInv, CallInv, HeldInv, RefreshInv
  <2>6. \A r \in Proc : HeldInv(r)'
    BY <1>7 DEF MkdirAgain, MkdirBy, OneCall, OneOwner, InfoInv, BreakInv, CallInv, HeldInv, RefreshInv, Owner
  <2>7. \A r \in Proc : RefreshInv(r)'
    BY <1>7 DEF MkdirAgain, MkdirBy, OneCall, CallInv, HeldInv, RefreshInv, Owner, InfoInv, OneOwner, BreakInv
  <2> QED
    BY <1>0, <2>1, <2>2, <2>3, <2>4, <2>5, <2>6, <2>7
<1>8. CASE CreateOpen(p)
  <2>1. OneCall'
    BY <1>8 DEF CreateOpen, OpenInfo, OneCall, OneOwner, InfoInv, BreakInv, CallInv, HeldInv, RefreshInv, Owner
  <2>2. OneOwner'
    BY <1>8 DEF CreateOpen, OpenInfo, OneCall, OneOwner, InfoInv, BreakInv, CallInv, HeldInv, RefreshInv, Owner
  <2>3. InfoInv'
    BY <1>8 DEF CreateOpen, OpenInfo, OneCall, OneOwner, InfoInv, BreakInv, CallInv, HeldInv, RefreshInv, Owner
  <2>4. \A r \in Proc : pc'[r] # "collided" /\ BreakInv(r)'
    BY <1>8 DEF CreateOpen, OpenInfo, OneOwner, InfoInv, BreakInv, CallInv, HeldInv, RefreshInv, OneCall, Owner
  <2>5. \A r \in Proc : CallInv(r)'
    BY <1>8 DEF CreateOpen, OpenInfo, OneCall, InfoInv, CallInv, HeldInv, RefreshInv
  <2>6. \A r \in Proc : HeldInv(r)'
    BY <1>8 DEF CreateOpen, OpenInfo, OneCall, OneOwner, InfoInv, BreakInv, CallInv, HeldInv, RefreshInv, Owner
  <2>7. \A r \in Proc : RefreshInv(r)'
    BY <1>8 DEF CreateOpen, OpenInfo, OneCall, CallInv, HeldInv, RefreshInv, Owner, InfoInv, OneOwner, BreakInv
  <2> QED
    BY <1>0, <2>1, <2>2, <2>3, <2>4, <2>5, <2>6, <2>7
<1>9. CASE CreateWrite(p)
  <2>1. OneCall'
    BY <1>9 DEF CreateWrite, WriteInfo, OneCall, OneOwner, InfoInv, BreakInv, CallInv, HeldInv, RefreshInv, Owner
  <2>2. OneOwner'
    BY <1>9 DEF CreateWrite, WriteInfo, OneCall, OneOwner, InfoInv, BreakInv, CallInv, HeldInv, RefreshInv, Owner
  <2>3. InfoInv'
    BY <1>9 DEF CreateWrite, WriteInfo, OneCall, OneOwner, InfoInv, BreakInv, CallInv, HeldInv, RefreshInv, Owner
  <2>4. \A r \in Proc : pc'[r] # "collided" /\ BreakInv(r)'
    BY <1>9 DEF CreateWrite, WriteInfo, OneOwner, InfoInv, BreakInv, CallInv, HeldInv, RefreshInv, OneCall, Owner
  <2>5. \A r \in Proc : CallInv(r)'
    BY <1>9 DEF CreateWrite, WriteInfo, OneCall, InfoInv, CallInv, HeldInv, RefreshInv
  <2>6. \A r \in Proc : HeldInv(r)'
    BY <1>9 DEF CreateWrite, WriteInfo, OneCall, OneOwner, InfoInv, BreakInv, CallInv, HeldInv, RefreshInv, Owner
  <2>7. \A r \in Proc : RefreshInv(r)'
    BY <1>9 DEF CreateWrite, WriteInfo, OneCall, CallInv, HeldInv, RefreshInv, Owner, InfoInv, OneOwner, BreakInv
  <2> QED
    BY <1>0, <2>1, <2>2, <2>3, <2>4, <2>5, <2>6, <2>7
<1>11. CASE CloseError(p)
  <2>1. OneCall'
    BY <1>11 DEF CloseError, WriteInfo, OneCall, OneOwner, InfoInv, BreakInv, CallInv, HeldInv, RefreshInv, Owner
  <2>2. OneOwner'
    BY <1>11 DEF CloseError, WriteInfo, OneCall, OneOwner, InfoInv, BreakInv, CallInv, HeldInv, RefreshInv, Owner
  <2>3. InfoInv'
    BY <1>11 DEF CloseError, WriteInfo, OneCall, OneOwner, InfoInv, BreakInv, CallInv, HeldInv, RefreshInv, Owner
  <2>4. \A r \in Proc : pc'[r] # "collided" /\ BreakInv(r)'
    BY <1>11 DEF CloseError, WriteInfo, OneOwner, InfoInv, BreakInv, CallInv, HeldInv, RefreshInv, OneCall, Owner
  <2>5. \A r \in Proc : CallInv(r)'
    BY <1>11 DEF CloseError, WriteInfo, OneCall, InfoInv, CallInv, HeldInv, RefreshInv
  <2>6. \A r \in Proc : HeldInv(r)'
    BY <1>11 DEF CloseError, WriteInfo, OneCall, OneOwner, InfoInv, BreakInv, CallInv, HeldInv, RefreshInv, Owner
  <2>7. \A r \in Proc : RefreshInv(r)'
    BY <1>11 DEF CloseError, WriteInfo, OneCall, CallInv, HeldInv, RefreshInv, Owner, InfoInv, OneOwner, BreakInv
  <2> QED
    BY <1>0, <2>1, <2>2, <2>3, <2>4, <2>5, <2>6, <2>7
<1>10. CASE AcquireError(p)
  <2>1. OneCall'
    BY <1>10 DEF AcquireError, OneCall, OneOwner, InfoInv, BreakInv, CallInv, HeldInv, RefreshInv, Owner
  <2>2. OneOwner'
    BY <1>10 DEF AcquireError, OneCall, OneOwner, InfoInv, BreakInv, CallInv, HeldInv, RefreshInv, Owner
  <2>3. InfoInv'
    BY <1>10 DEF AcquireError, OneCall, OneOwner, InfoInv, BreakInv, CallInv, HeldInv, RefreshInv, Owner
  <2>4. \A r \in Proc : pc'[r] # "collided" /\ BreakInv(r)'
    BY <1>10 DEF AcquireError, OneOwner, InfoInv, BreakInv, CallInv, HeldInv, RefreshInv, OneCall, Owner
  <2>5. \A r \in Proc : CallInv(r)'
    BY <1>10 DEF AcquireError, OneCall, InfoInv, CallInv, HeldInv, RefreshInv
  <2>6. \A r \in Proc : HeldInv(r)'
    BY <1>10 DEF AcquireError, OneCall, OneOwner, InfoInv, BreakInv, CallInv, HeldInv, RefreshInv, Owner
  <2>7. \A r \in Proc : RefreshInv(r)'
    BY <1>10 DEF AcquireError, OneCall, CallInv, HeldInv, RefreshInv, Owner, InfoInv, OneOwner, BreakInv
  <2> QED
    BY <1>0, <2>1, <2>2, <2>3, <2>4, <2>5, <2>6, <2>7
<1> QED
  BY <1>1, <1>2, <1>3, <1>4, <1>5, <1>6, <1>7, <1>8, <1>9, <1>10, <1>11
  DEF AcquireStep

LEMMA ReleaseCalmInv ==
  ASSUME Hazards = {}, CalmInv, NEW p \in Proc, ReleaseStep(p)
  PROVE  CalmInv'
<1> USE ProcAssumption
    DEF CalmInv, TypeOK, DirState, MainState, RefreshState, Acquiring, Releasing,
        Goto, NoInfo, disk, main, refresh, history, MainCall, RefreshCall
<1>0. TypeOK'
  BY ReleaseTypeOK DEF CalmInv
<1>1. CASE StopRefresh(p)
  <2>1. OneCall'
    BY <1>1 DEF StopRefresh, OneCall, OneOwner, InfoInv, BreakInv, CallInv, HeldInv, RefreshInv, Owner
  <2>2. OneOwner'
    BY <1>1 DEF StopRefresh, OneCall, OneOwner, InfoInv, BreakInv, CallInv, HeldInv, RefreshInv, Owner
  <2>3. InfoInv'
    BY <1>1 DEF StopRefresh, OneCall, OneOwner, InfoInv, BreakInv, CallInv, HeldInv, RefreshInv, Owner
  <2>4. \A r \in Proc : pc'[r] # "collided" /\ BreakInv(r)'
    BY <1>1 DEF StopRefresh, OneOwner, InfoInv, BreakInv, CallInv, HeldInv, RefreshInv, OneCall, Owner
  <2>5. \A r \in Proc : CallInv(r)'
    BY <1>1 DEF StopRefresh, OneCall, InfoInv, CallInv, HeldInv, RefreshInv
  <2>6. \A r \in Proc : HeldInv(r)'
    BY <1>1 DEF StopRefresh, OneCall, OneOwner, InfoInv, BreakInv, CallInv, HeldInv, RefreshInv, Owner
  <2>7. \A r \in Proc : RefreshInv(r)'
    BY <1>1 DEF StopRefresh, OneCall, CallInv, HeldInv, RefreshInv, Owner, InfoInv, OneOwner, BreakInv
  <2> QED
    BY <1>0, <2>1, <2>2, <2>3, <2>4, <2>5, <2>6, <2>7
<1>2. CASE ReleaseTry(p)
  <2>0. \A q \in Proc : ~MainCall(q) /\ ~RefreshCall(q)
    BY <1>2, QuietBeforeCall DEF ReleaseTry
  <2>1. OneCall'
    BY <1>2, <2>0 DEF ReleaseTry, RemoveAllTry, RmdirBy, OneCall, OneOwner, InfoInv, BreakInv, CallInv, HeldInv, RefreshInv, Owner
  <2>2. OneOwner'
    BY <1>2, <2>0 DEF ReleaseTry, RemoveAllTry, RmdirBy, OneCall, OneOwner, InfoInv, BreakInv, CallInv, HeldInv, RefreshInv, Owner
  <2>3. InfoInv'
    BY <1>2, <2>0 DEF ReleaseTry, RemoveAllTry, RmdirBy, OneCall, OneOwner, InfoInv, BreakInv, CallInv, HeldInv, RefreshInv, Owner
  <2>4. \A r \in Proc : pc'[r] # "collided" /\ BreakInv(r)'
    BY <1>2, <2>0 DEF ReleaseTry, RemoveAllTry, RmdirBy, OneOwner, InfoInv, BreakInv, CallInv, HeldInv, RefreshInv, OneCall, Owner
  <2>5. \A r \in Proc : CallInv(r)'
    BY <1>2, <2>0 DEF ReleaseTry, RemoveAllTry, RmdirBy, OneCall, InfoInv, CallInv, HeldInv, RefreshInv
  <2>6. \A r \in Proc : HeldInv(r)'
    BY <1>2, <2>0 DEF ReleaseTry, RemoveAllTry, RmdirBy, OneCall, OneOwner, InfoInv, BreakInv, CallInv, HeldInv, RefreshInv, Owner
  <2>7. \A r \in Proc : RefreshInv(r)'
    BY <1>2, <2>0 DEF ReleaseTry, RemoveAllTry, RmdirBy, OneCall, CallInv, HeldInv, RefreshInv, Owner, InfoInv, OneOwner, BreakInv
  <2> QED
    BY <1>0, <2>1, <2>2, <2>3, <2>4, <2>5, <2>6, <2>7
<1>3. CASE ReleaseUnlink(p)
  <2>1. OneCall'
    BY <1>3 DEF ReleaseUnlink, RemoveAllUnlink, OneCall, OneOwner, InfoInv, BreakInv, CallInv, HeldInv, RefreshInv, Owner
  <2>2. OneOwner'
    BY <1>3 DEF ReleaseUnlink, RemoveAllUnlink, OneCall, OneOwner, InfoInv, BreakInv, CallInv, HeldInv, RefreshInv, Owner
  <2>3. InfoInv'
    BY <1>3 DEF ReleaseUnlink, RemoveAllUnlink, OneCall, OneOwner, InfoInv, BreakInv, CallInv, HeldInv, RefreshInv, Owner
  <2>4. \A r \in Proc : pc'[r] # "collided" /\ BreakInv(r)'
    BY <1>3 DEF ReleaseUnlink, RemoveAllUnlink, OneOwner, InfoInv, BreakInv, CallInv, HeldInv, RefreshInv, OneCall, Owner
  <2>5. \A r \in Proc : CallInv(r)'
    BY <1>3 DEF ReleaseUnlink, RemoveAllUnlink, OneCall, InfoInv, CallInv, HeldInv, RefreshInv
  <2>6. \A r \in Proc : HeldInv(r)'
    BY <1>3 DEF ReleaseUnlink, RemoveAllUnlink, OneCall, OneOwner, InfoInv, BreakInv, CallInv, HeldInv, RefreshInv, Owner
  <2>7. \A r \in Proc : RefreshInv(r)'
    BY <1>3 DEF ReleaseUnlink, RemoveAllUnlink, OneCall, CallInv, HeldInv, RefreshInv, Owner, InfoInv, OneOwner, BreakInv
  <2> QED
    BY <1>0, <2>1, <2>2, <2>3, <2>4, <2>5, <2>6, <2>7
<1>4. CASE ReleaseRmdir(p)
  <2>1. OneCall'
    BY <1>4 DEF ReleaseRmdir, RemoveAllRmdir, RmdirBy, OneCall, OneOwner, InfoInv, BreakInv, CallInv, HeldInv, RefreshInv, Owner
  <2>2. OneOwner'
    BY <1>4 DEF ReleaseRmdir, RemoveAllRmdir, RmdirBy, OneCall, OneOwner, InfoInv, BreakInv, CallInv, HeldInv, RefreshInv, Owner
  <2>3. InfoInv'
    BY <1>4 DEF ReleaseRmdir, RemoveAllRmdir, RmdirBy, OneCall, OneOwner, InfoInv, BreakInv, CallInv, HeldInv, RefreshInv, Owner
  <2>4. \A r \in Proc : pc'[r] # "collided" /\ BreakInv(r)'
    BY <1>4 DEF ReleaseRmdir, RemoveAllRmdir, RmdirBy, OneOwner, InfoInv, BreakInv, CallInv, HeldInv, RefreshInv, OneCall, Owner
  <2>5. \A r \in Proc : CallInv(r)'
    BY <1>4 DEF ReleaseRmdir, RemoveAllRmdir, RmdirBy, OneCall, InfoInv, CallInv, HeldInv, RefreshInv
  <2>6. \A r \in Proc : HeldInv(r)'
    BY <1>4 DEF ReleaseRmdir, RemoveAllRmdir, RmdirBy, OneCall, OneOwner, InfoInv, BreakInv, CallInv, HeldInv, RefreshInv, Owner
  <2>7. \A r \in Proc : RefreshInv(r)'
    BY <1>4 DEF ReleaseRmdir, RemoveAllRmdir, RmdirBy, OneCall, CallInv, HeldInv, RefreshInv, Owner, InfoInv, OneOwner, BreakInv
  <2> QED
    BY <1>0, <2>1, <2>2, <2>3, <2>4, <2>5, <2>6, <2>7
<1>7. CASE ReleaseFails(p)
  <2>0. pc[p] = "relTry" => \A q \in Proc : ~MainCall(q) /\ ~RefreshCall(q)
    BY <1>7, QuietBeforeCall DEF ReleaseFails
  <2>1. OneCall'
    BY <1>7, <2>0 DEF ReleaseFails, OneCall, OneOwner, InfoInv, BreakInv, CallInv, HeldInv, RefreshInv, Owner
  <2>2. OneOwner'
    BY <1>7, <2>0 DEF ReleaseFails, OneCall, OneOwner, InfoInv, BreakInv, CallInv, HeldInv, RefreshInv, Owner
  <2>3. InfoInv'
    BY <1>7, <2>0 DEF ReleaseFails, OneCall, OneOwner, InfoInv, BreakInv, CallInv, HeldInv, RefreshInv, Owner
  <2>4. \A r \in Proc : pc'[r] # "collided" /\ BreakInv(r)'
    BY <1>7, <2>0 DEF ReleaseFails, OneOwner, InfoInv, BreakInv, CallInv, HeldInv, RefreshInv, OneCall, Owner
  <2>5. \A r \in Proc : CallInv(r)'
    BY <1>7, <2>0 DEF ReleaseFails, OneCall, InfoInv, CallInv, HeldInv, RefreshInv
  <2>6. \A r \in Proc : HeldInv(r)'
    BY <1>7, <2>0 DEF ReleaseFails, OneCall, OneOwner, InfoInv, BreakInv, CallInv, HeldInv, RefreshInv, Owner
  <2>7. \A r \in Proc : RefreshInv(r)'
    BY <1>7, <2>0 DEF ReleaseFails, OneCall, CallInv, HeldInv, RefreshInv, Owner, InfoInv, OneOwner, BreakInv
  <2> QED
    BY <1>0, <2>1, <2>2, <2>3, <2>4, <2>5, <2>6, <2>7
<1>5. CASE Exit(p)
  <2>1. OneCall'
    BY <1>5 DEF Exit, Die, OneCall, OneOwner, InfoInv, BreakInv, CallInv, HeldInv, RefreshInv, Owner
  <2>2. OneOwner'
    BY <1>5 DEF Exit, Die, OneCall, OneOwner, InfoInv, BreakInv, CallInv, HeldInv, RefreshInv, Owner
  <2>3. InfoInv'
    BY <1>5 DEF Exit, Die, OneCall, OneOwner, InfoInv, BreakInv, CallInv, HeldInv, RefreshInv, Owner
  <2>4. \A r \in Proc : pc'[r] # "collided" /\ BreakInv(r)'
    BY <1>5 DEF Exit, Die, OneOwner, InfoInv, BreakInv, CallInv, HeldInv, RefreshInv, OneCall, Owner
  <2>5. \A r \in Proc : CallInv(r)'
    BY <1>5 DEF Exit, Die, OneCall, InfoInv, CallInv, HeldInv, RefreshInv
  <2>6. \A r \in Proc : HeldInv(r)'
    BY <1>5 DEF Exit, Die, OneCall, OneOwner, InfoInv, BreakInv, CallInv, HeldInv, RefreshInv, Owner
  <2>7. \A r \in Proc : RefreshInv(r)'
    BY <1>5 DEF Exit, Die, OneCall, CallInv, HeldInv, RefreshInv, Owner, InfoInv, OneOwner, BreakInv
  <2> QED
    BY <1>0, <2>1, <2>2, <2>3, <2>4, <2>5, <2>6, <2>7
<1>6. CASE Kill(p)
  <2>1. OneCall'
    BY <1>6 DEF Kill, Die, OneCall, OneOwner, InfoInv, BreakInv, CallInv, HeldInv, RefreshInv, Owner
  <2>2. OneOwner'
    BY <1>6 DEF Kill, Die, OneCall, OneOwner, InfoInv, BreakInv, CallInv, HeldInv, RefreshInv, Owner
  <2>3. InfoInv'
    BY <1>6 DEF Kill, Die, OneCall, OneOwner, InfoInv, BreakInv, CallInv, HeldInv, RefreshInv, Owner
  <2>4. \A r \in Proc : pc'[r] # "collided" /\ BreakInv(r)'
    BY <1>6 DEF Kill, Die, OneOwner, InfoInv, BreakInv, CallInv, HeldInv, RefreshInv, OneCall, Owner
  <2>5. \A r \in Proc : CallInv(r)'
    BY <1>6 DEF Kill, Die, OneCall, InfoInv, CallInv, HeldInv, RefreshInv
  <2>6. \A r \in Proc : HeldInv(r)'
    BY <1>6 DEF Kill, Die, OneCall, OneOwner, InfoInv, BreakInv, CallInv, HeldInv, RefreshInv, Owner
  <2>7. \A r \in Proc : RefreshInv(r)'
    BY <1>6 DEF Kill, Die, OneCall, CallInv, HeldInv, RefreshInv, Owner, InfoInv, OneOwner, BreakInv
  <2> QED
    BY <1>0, <2>1, <2>2, <2>3, <2>4, <2>5, <2>6, <2>7
<1> QED
  BY <1>1, <1>2, <1>3, <1>4, <1>5, <1>6, <1>7 DEF ReleaseStep

LEMMA RefreshCalmInv ==
  ASSUME Hazards = {}, CalmInv, NEW p \in Proc, RefreshStep(p)
  PROVE  CalmInv'
<1> USE ProcAssumption
    DEF CalmInv, TypeOK, DirState, MainState, RefreshState, Acquiring, Releasing,
        Goto, NoInfo, disk, main, refresh, history, MainCall, RefreshCall
<1>0. TypeOK'
  BY RefreshTypeOK DEF CalmInv
<1>1. CASE RefreshRead(p)
  <2>0. \A q \in Proc : ~MainCall(q) /\ ~RefreshCall(q)
    BY <1>1, QuietBeforeCall DEF RefreshRead
  <2>1. OneCall'
    BY <1>1, <2>0 DEF RefreshRead, OneCall, OneOwner, InfoInv, BreakInv, CallInv, HeldInv, RefreshInv, Owner
  <2>2. OneOwner'
    BY <1>1, <2>0 DEF RefreshRead, OneCall, OneOwner, InfoInv, BreakInv, CallInv, HeldInv, RefreshInv, Owner
  <2>3. InfoInv'
    BY <1>1, <2>0 DEF RefreshRead, OneCall, OneOwner, InfoInv, BreakInv, CallInv, HeldInv, RefreshInv, Owner
  <2>4. \A r \in Proc : pc'[r] # "collided" /\ BreakInv(r)'
    BY <1>1, <2>0 DEF RefreshRead, OneOwner, InfoInv, BreakInv, CallInv, HeldInv, RefreshInv, OneCall, Owner
  <2>5. \A r \in Proc : CallInv(r)'
    BY <1>1, <2>0 DEF RefreshRead, OneCall, InfoInv, CallInv, HeldInv, RefreshInv
  <2>6. \A r \in Proc : HeldInv(r)'
    BY <1>1, <2>0 DEF RefreshRead, OneCall, OneOwner, InfoInv, BreakInv, CallInv, HeldInv, RefreshInv, Owner
  <2>7. \A r \in Proc : RefreshInv(r)'
    BY <1>1, <2>0 DEF RefreshRead, OneCall, CallInv, HeldInv, RefreshInv, Owner, InfoInv, OneOwner, BreakInv
  <2> QED
    BY <1>0, <2>1, <2>2, <2>3, <2>4, <2>5, <2>6, <2>7
<1>2. CASE RefreshOpen(p)
  <2>1. OneCall'
    BY <1>2 DEF RefreshOpen, OpenInfo, OneCall, OneOwner, InfoInv, BreakInv, CallInv, HeldInv, RefreshInv, Owner
  <2>2. OneOwner'
    BY <1>2 DEF RefreshOpen, OpenInfo, OneCall, OneOwner, InfoInv, BreakInv, CallInv, HeldInv, RefreshInv, Owner
  <2>3. InfoInv'
    BY <1>2 DEF RefreshOpen, OpenInfo, OneCall, OneOwner, InfoInv, BreakInv, CallInv, HeldInv, RefreshInv, Owner
  <2>4. \A r \in Proc : pc'[r] # "collided" /\ BreakInv(r)'
    BY <1>2 DEF RefreshOpen, OpenInfo, OneOwner, InfoInv, BreakInv, CallInv, HeldInv, RefreshInv, OneCall, Owner
  <2>5. \A r \in Proc : CallInv(r)'
    BY <1>2 DEF RefreshOpen, OpenInfo, OneCall, InfoInv, CallInv, HeldInv, RefreshInv
  <2>6. \A r \in Proc : HeldInv(r)'
    BY <1>2 DEF RefreshOpen, OpenInfo, OneCall, OneOwner, InfoInv, BreakInv, CallInv, HeldInv, RefreshInv, Owner
  <2>7. \A r \in Proc : RefreshInv(r)'
    BY <1>2 DEF RefreshOpen, OpenInfo, OneCall, CallInv, HeldInv, RefreshInv, Owner, InfoInv, OneOwner, BreakInv
  <2> QED
    BY <1>0, <2>1, <2>2, <2>3, <2>4, <2>5, <2>6, <2>7
<1>3. CASE RefreshWrite(p)
  <2>1. OneCall'
    BY <1>3 DEF RefreshWrite, WriteInfo, RefreshDone, OneCall, OneOwner, InfoInv, BreakInv, CallInv, HeldInv, RefreshInv, Owner
  <2>2. OneOwner'
    BY <1>3 DEF RefreshWrite, WriteInfo, RefreshDone, OneCall, OneOwner, InfoInv, BreakInv, CallInv, HeldInv, RefreshInv, Owner
  <2>3. InfoInv'
    BY <1>3 DEF RefreshWrite, WriteInfo, RefreshDone, OneCall, OneOwner, InfoInv, BreakInv, CallInv, HeldInv, RefreshInv, Owner
  <2>4. \A r \in Proc : pc'[r] # "collided" /\ BreakInv(r)'
    BY <1>3 DEF RefreshWrite, WriteInfo, RefreshDone, OneOwner, InfoInv, BreakInv, CallInv, HeldInv, RefreshInv, OneCall, Owner
  <2>5. \A r \in Proc : CallInv(r)'
    BY <1>3 DEF RefreshWrite, WriteInfo, RefreshDone, OneCall, InfoInv, CallInv, HeldInv, RefreshInv
  <2>6. \A r \in Proc : HeldInv(r)'
    BY <1>3 DEF RefreshWrite, WriteInfo, RefreshDone, OneCall, OneOwner, InfoInv, BreakInv, CallInv, HeldInv, RefreshInv, Owner
  <2>7. \A r \in Proc : RefreshInv(r)'
    BY <1>3 DEF RefreshWrite, WriteInfo, RefreshDone, OneCall, CallInv, HeldInv, RefreshInv, Owner, InfoInv, OneOwner, BreakInv
  <2> QED
    BY <1>0, <2>1, <2>2, <2>3, <2>4, <2>5, <2>6, <2>7
<1>4. CASE RefreshWriteError(p)
  BY <1>4 DEF RefreshWriteError
<1>5. CASE RefreshQuit(p)
  <2>1. OneCall'
    BY <1>5 DEF RefreshQuit, OneCall, OneOwner, InfoInv, BreakInv, CallInv, HeldInv, RefreshInv, Owner
  <2>2. OneOwner'
    BY <1>5 DEF RefreshQuit, OneCall, OneOwner, InfoInv, BreakInv, CallInv, HeldInv, RefreshInv, Owner
  <2>3. InfoInv'
    BY <1>5 DEF RefreshQuit, OneCall, OneOwner, InfoInv, BreakInv, CallInv, HeldInv, RefreshInv, Owner
  <2>4. \A r \in Proc : pc'[r] # "collided" /\ BreakInv(r)'
    BY <1>5 DEF RefreshQuit, OneOwner, InfoInv, BreakInv, CallInv, HeldInv, RefreshInv, OneCall, Owner
  <2>5. \A r \in Proc : CallInv(r)'
    BY <1>5 DEF RefreshQuit, OneCall, InfoInv, CallInv, HeldInv, RefreshInv
  <2>6. \A r \in Proc : HeldInv(r)'
    BY <1>5 DEF RefreshQuit, OneCall, OneOwner, InfoInv, BreakInv, CallInv, HeldInv, RefreshInv, Owner
  <2>7. \A r \in Proc : RefreshInv(r)'
    BY <1>5 DEF RefreshQuit, OneCall, CallInv, HeldInv, RefreshInv, Owner, InfoInv, OneOwner, BreakInv
  <2> QED
    BY <1>0, <2>1, <2>2, <2>3, <2>4, <2>5, <2>6, <2>7
<1> QED
  BY <1>1, <1>2, <1>3, <1>4, <1>5 DEF RefreshStep

LEMMA CalmInvInductive ==
  ASSUME Hazards = {}, CalmInv, [Next]_vars
  PROVE  CalmInv'
<1>1. ASSUME NEW p \in Proc, AcquireStep(p) \/ ReleaseStep(p) \/ RefreshStep(p)
      PROVE  CalmInv'
  BY <1>1, AcquireCalmInv, ReleaseCalmInv, RefreshCalmInv
<1>2. CASE InfoAges
  <2>1. TypeOK'
    BY <1>2 DEF InfoAges, CalmInv, TypeOK, main, refresh, history
  <2> QED
    BY <1>2, <2>1
    DEF InfoAges, CalmInv, OneCall, OneOwner, InfoInv, BreakInv, CallInv, HeldInv,
        RefreshInv, MainCall, RefreshCall, Owner, Alive, Exited, main, refresh, history
<1>3. CASE UNCHANGED vars
  <2>1. TypeOK'
    BY <1>3 DEF CalmInv, TypeOK, vars, disk, main, refresh, history
  <2> QED
    BY <1>3, <2>1
    DEF CalmInv, OneCall, OneOwner, InfoInv, BreakInv, CallInv, HeldInv,
        RefreshInv, MainCall, RefreshCall, Owner, vars, disk, main, refresh, history
<1> QED
  BY <1>1, <1>2, <1>3 DEF Next, AllExited

THEOREM CalmInvariant == ASSUME Hazards = {} PROVE Spec => []CalmInv
<1>1. CalmInv /\ [Next]_vars => CalmInv'
  BY CalmInvInductive
<1> QED
  BY <1>1, InitCalmInv, PTL DEF Spec

(* Two backups of one repository never run at the same time.               *)
THEOREM CalmMutex == ASSUME Hazards = {} PROVE Spec => []Mutex
<1>1. CalmInv => Mutex
  BY DEF CalmInv, OneOwner, Owner, Mutex
<1> QED
  BY <1>1, CalmInvariant, PTL

(* Nothing a killed or failed process left behind makes AcquireLock fail.  *)
THEOREM CalmNeverCollides == ASSUME Hazards = {} PROVE Spec => []NeverCollides
<1>1. CalmInv => NeverCollides
  BY DEF CalmInv, NeverCollides
<1> QED
  BY <1>1, CalmInvariant, PTL

-----------------------------------------------------------------------------
(* The refinement.                                                         *)

(* How a caller sees the places the main thread can be at.                 *)
LEMMA ViewAt ==
  /\ \A l \in {"start"} \cup Acquiring : View(l) = "idle"
  /\ \A l \in {"held", "relTry"} \cup Releasing : View(l) = "held"
  /\ \A l \in {"returned", "done"} : View(l) = "released"
  /\ \A l \in {"critical", "collided", "aborted"} : View(l) = "failed"
  /\ View("busy") = "busy" /\ View("kept") = "kept"
  /\ \A l \in {"killed", "left"} : View(l) = "killed"
<1>1. \A l \in {"start"} \cup Acquiring : View(l) = "idle"
  BY DEF View, Acquiring, Releasing
<1>2. \A l \in {"held", "relTry"} \cup Releasing : View(l) = "held"
  BY DEF View, Acquiring, Releasing
<1>3. \A l \in {"returned", "done"} : View(l) = "released"
  BY DEF View, Acquiring, Releasing
<1>4. \A l \in {"critical", "collided", "aborted"} : View(l) = "failed"
  BY DEF View, Acquiring, Releasing
<1>5. /\ View("busy") = "busy" /\ View("kept") = "kept"
      /\ \A l \in {"killed", "left"} : View(l) = "killed"
  BY DEF View, Acquiring, Releasing
<1> QED
  BY <1>1, <1>2, <1>3, <1>4, <1>5

(* A step of the main thread changes what its own caller sees, if anything. *)
LEMMA StatusAfter ==
  ASSUME TypeOK, NEW p \in Proc, NEW l, Goto(p, l)
  PROVE  /\ statusOf' = [statusOf EXCEPT ![p] = View(l)]
         /\ View(l) = View(pc[p]) => statusOf' = statusOf
  BY DEF TypeOK, Goto, statusOf

LEMMA RefinementInit == Init => Abstract!LockInit
  BY ViewAt DEF Init, Abstract!LockInit, statusOf

LEMMA RefinementStep ==
  ASSUME CalmInv, [Next]_vars
  PROVE  [Abstract!LockNext]_statusOf
<1> USE ViewAt DEF Acquiring, Releasing
<1>0. TypeOK
  BY DEF CalmInv
<1>1. ASSUME NEW p \in Proc, CreateWrite(p) \/ CloseError(p)
      PROVE  Abstract!Grant(p) \/ Abstract!Keep(p)
  <2>1. /\ pc[p] = "write"
        /\ \/ statusOf' = [statusOf EXCEPT ![p] = "held"]
           \/ statusOf' = [statusOf EXCEPT ![p] = "kept"]
    BY <1>0, <1>1, StatusAfter DEF CreateWrite, CloseError
  <2>2. \A q \in Proc : statusOf[q] # "held"
    <3> SUFFICES ASSUME NEW q \in Proc, statusOf[q] = "held" PROVE FALSE
      OBVIOUS
    <3>1. Owner(p) /\ pc[q] # "write"
      BY <2>1 DEF Owner, statusOf
    <3>2. Owner(q)
      BY <1>0 DEF TypeOK, MainState, Exited, Owner, statusOf
    <3> QED
      BY <2>1, <3>1, <3>2 DEF CalmInv, OneOwner
  <2> QED
    BY <2>1, <2>2 DEF Abstract!Grant, Abstract!Keep, statusOf
<1>2. ASSUME NEW p \in Proc, Judge(p)
      PROVE  Abstract!Refuse(p) \/ UNCHANGED statusOf
  <2>1. CASE Goto(p, "rmTry")
    BY <1>0, <1>2, <2>1, StatusAfter DEF Judge
  <2>2. CASE /\ Goto(p, "busy")
             /\ HostOf[seen[p]] # HostOf[p] \/ Alive(seen[p])
    <3>1. PICK q \in Proc : /\ q = seen[p]
                            /\ pc[q] \in {"held", "relTry", "relUnlink",
                                        "kept", "killed", "left"}
      BY <1>2 DEF Judge, CalmInv, CallInv, InfoInv
    <3>2. q # p
      BY <1>2, <3>1 DEF Judge
    <3>3. \/ statusOf[q] \in {"held", "kept"}
          \/ statusOf[q] = "killed" /\ HostOf[q] # HostOf[p]
      <4>1. CASE pc[q] \in {"killed", "left"}
        BY <2>2, <3>1, <4>1 DEF Alive, Exited, statusOf
      <4>2. CASE pc[q] \notin {"killed", "left"}
        BY <3>1, <4>2 DEF statusOf
      <4> QED
        BY <4>1, <4>2
    <3>4. statusOf[p] = "idle" /\ statusOf' = [statusOf EXCEPT ![p] = "busy"]
      BY <1>0, <1>2, <2>2, StatusAfter DEF Judge, statusOf
    <3> QED
      BY <3>1, <3>2, <3>3, <3>4 DEF Abstract!Refuse
  <2> QED
    BY <1>2, <2>1, <2>2 DEF Judge
<1>3. ASSUME NEW p \in Proc, Kill(p)
      PROVE  Abstract!Die(p) \/ Abstract!Fail(p)
  <2>1. CASE pc[p] \in Acquiring /\ Goto(p, "aborted")
    BY <1>0, <2>1, StatusAfter DEF Abstract!Fail, statusOf
  <2>2. CASE pc[p] \in {"held", "relTry"} \cup Releasing /\ Goto(p, "killed")
    BY <1>0, <2>2, StatusAfter DEF Abstract!Die, statusOf
  <2> QED
    BY <1>3, <2>1, <2>2 DEF Kill, Die
<1>4. ASSUME NEW p \in Proc, AcquireError(p)
      PROVE  Abstract!Fail(p)
  BY <1>0, <1>4, StatusAfter DEF AcquireError, Abstract!Fail, statusOf
<1>5. ASSUME NEW p \in Proc,
             ReleaseTry(p) \/ ReleaseUnlink(p) \/ ReleaseRmdir(p) \/ StopRefresh(p)
      PROVE  Abstract!GiveBack(p) \/ UNCHANGED statusOf
  <2>1. PICK l \in {"relTry", "relUnlink", "relDir", "returned"} :
           pc[p] \in {"held", "relTry"} \cup Releasing /\ Goto(p, l)
    BY <1>5 DEF ReleaseTry, ReleaseUnlink, ReleaseRmdir, StopRefresh,
                RemoveAllTry, RemoveAllUnlink, RemoveAllRmdir
  <2>2. CASE l = "returned"
    <3>1. statusOf[p] = "held" /\ View(l) = "released"
      BY <2>1, <2>2 DEF statusOf
    <3> QED
      BY <1>0, <2>1, <3>1, StatusAfter DEF Abstract!GiveBack
  <2>3. CASE l # "returned"
    <3>1. View(l) = "held" /\ View(pc[p]) = "held"
      BY <2>1, <2>3
    <3> QED
      BY <1>0, <2>1, <3>1, StatusAfter
  <2> QED
    BY <2>2, <2>3
<1>6. ASSUME NEW p \in Proc,
             \/ Mkdir(p) \/ ReadInfo(p) \/ BreakTry(p) \/ BreakUnlink(p)
             \/ BreakRmdir(p) \/ MkdirAgain(p) \/ CreateOpen(p)
      PROVE  UNCHANGED statusOf
  <2>1. PICK l \in Acquiring \cup {"collided"} :
           pc[p] \in {"start"} \cup Acquiring /\ Goto(p, l)
    BY <1>6 DEF Mkdir, ReadInfo, BreakTry, BreakUnlink, BreakRmdir, MkdirAgain,
                CreateOpen, RemoveAllTry, RemoveAllUnlink, RemoveAllRmdir
  <2>2. l # "collided"
    BY <1>6, <2>1
    DEF Mkdir, ReadInfo, BreakTry, BreakUnlink, BreakRmdir, MkdirAgain, CreateOpen,
        RemoveAllTry, RemoveAllUnlink, RemoveAllRmdir, Goto, CalmInv, CallInv,
        TypeOK
  <2> QED
    BY <1>0, <2>1, <2>2, StatusAfter
<1>7. ASSUME NEW p \in Proc, Exit(p)
      PROVE  Abstract!Die(p) \/ UNCHANGED statusOf
  <2>1. CASE pc[p] = "returned" /\ Goto(p, "done")
    BY <1>0, <2>1, StatusAfter
  <2>2. CASE pc[p] = "kept" /\ Goto(p, "left")
    BY <1>0, <2>2, StatusAfter DEF Abstract!Die, statusOf
  <2> QED
    BY <1>7, <2>1, <2>2 DEF Exit, Die
<1>11. ASSUME NEW p \in Proc, ReleaseFails(p)
       PROVE  Abstract!Keep(p) \/ Abstract!GiveBack(p)
  <2>1. CASE pc[p] \in {"relTry", "relUnlink"} /\ Goto(p, "kept")
    BY <1>0, <2>1, StatusAfter DEF Abstract!Keep, statusOf
  <2>2. CASE pc[p] = "relDir" /\ Goto(p, "returned")
    BY <1>0, <2>2, StatusAfter DEF Abstract!GiveBack, statusOf
  <2> QED
    BY <1>11, <2>1, <2>2 DEF ReleaseFails
<1>8. ASSUME UNCHANGED pc
      PROVE  UNCHANGED statusOf
  BY <1>8 DEF statusOf
<1>9. ASSUME NEW p \in Proc, RefreshStep(p)
      PROVE  UNCHANGED pc
  BY <1>9 DEF RefreshStep, RefreshRead, RefreshOpen, RefreshWrite,
              RefreshWriteError, RefreshQuit, RefreshDone, main
<1>10. InfoAges \/ AllExited \/ UNCHANGED vars => UNCHANGED pc
  BY DEF InfoAges, AllExited, vars, main
<1> QED
  BY <1>1, <1>2, <1>3, <1>4, <1>5, <1>6, <1>7, <1>8, <1>9, <1>10, <1>11
  DEF Next, AcquireStep, ReleaseStep, Abstract!LockNext

(* The lock adapter implements ExclusiveLock.                              *)
THEOREM CalmRefinement == ASSUME Hazards = {} PROVE Spec => ImplementsExclusiveLock
<1>1. CalmInv /\ [Next]_vars => [Abstract!LockNext]_statusOf
  BY RefinementStep
<1> QED
  BY <1>1, RefinementInit, CalmInvariant, PTL
  DEF Spec, ImplementsExclusiveLock, Abstract!LockSpec
=============================================================================
