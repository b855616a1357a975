------------------------------- MODULE Rotation -------------------------------
(***************************************************************************)
(* rotateRepo of internal/usecase/backup.go: the finished snapshots of a   *)
(* repository are listed and then removed by age, by count and by size.    *)
(* Rotations of several runs may overlap: a dry run takes no lock, and new *)
(* snapshots are finished at any time.  A removal takes a snapshot apart   *)
(* file by file and may stop half-way.  scanBackups of status.go lists and *)
(* measures the same snapshots beside them.  Snapshots are numbered in the *)
(* order of their names, the order in which every loop visits them.        *)
(***************************************************************************)
EXTENDS Naturals, FiniteSets, FiniteSetsExt

CONSTANTS
    Rotor,          \* the rotations and scans
    Snaps,          \* how many snapshots there may be
    Ages,           \* ages of a .done marker, in days
    Sizes,          \* sizes of a snapshot, in KB
    Configs,        \* the configurations, a subset of Config
    RemoveMayFail   \* RemoveAll may stop half-way (its error is ignored)

Snap == 1 .. Snaps

(* keep_days and keep_count, 0 for off; the size limit with its margin, in *)
(* KB, and whether it applies (max_total_gb > 0 and not no_size).          *)
Config == [keepDays : Nat, keepCount : Nat, kbLimit : Nat, sized : BOOLEAN]

ASSUME SnapsAssumption == Snaps \in Nat
ASSUME InputsAssumption == Ages \subseteq Nat /\ Sizes \subseteq Nat
ASSUME ConfigsAssumption == Configs \subseteq Config
ASSUME RemoveAssumption == RemoveMayFail \in BOOLEAN

VARIABLES
    cfg,            \* the configuration
    dryRun, scans,  \* the rotations run dry, and the scans of status
    age, size,      \* of each snapshot, when it is finished
    there, kb,      \* the directories of snapshots on disk, and what is in them
    done,           \* those of them marked .done
    ever,           \* history: those that were marked at some time
    pc, todo,       \* where each rotation is and what its loop has to visit
    snaps, alive,   \* what it has listed, and what it takes to be left
    toRemove,       \* how many it still removes for keep_count
    sizes, totalKB, \* what it has measured
    victim,         \* the snapshot it is removing, if any
    stuck,          \* history: those it could not remove
    verdict,        \* its log: why it removed each snapshot
    disturbed       \* history: a snapshot it listed was, or then became,
                    \* one that another rotation has removed a part of

inputs == <<cfg, dryRun, scans, age, size>>
disk == <<there, kb, done, ever>>
local == <<snaps, alive, toRemove, sizes, totalKB>>
outcome == <<victim, stuck, verdict, disturbed>>
vars == <<inputs, disk, pc, todo, local, outcome>>

Phase == {"list", "look", "days", "count", "measure", "size", "scan", "stat", "end", "failed"}

TypeOK ==
    /\ cfg \in Config /\ dryRun \subseteq Rotor /\ scans \subseteq Rotor \ dryRun
    /\ age \in [Snap -> Nat] /\ size \in [Snap -> Nat]
    /\ done \subseteq there /\ there \subseteq ever /\ ever \subseteq Snap
    /\ kb \in [Snap -> Nat] /\ \A s \in Snap : kb[s] <= size[s]
    /\ pc \in [Rotor -> Phase]
    /\ todo \in [Rotor -> SUBSET Snap]
    /\ snaps \in [Rotor -> SUBSET Snap]
    /\ alive \in [Rotor -> SUBSET Snap]
    /\ toRemove \in [Rotor -> Nat]
    /\ sizes \in [Rotor -> [Snap -> Nat]]
    /\ totalKB \in [Rotor -> Nat]
    /\ victim \in [Rotor -> SUBSET Snap] /\ stuck \in [Rotor -> SUBSET Snap]
    /\ verdict \in [Rotor -> [Snap -> {"none", "age", "count", "size"}]]
    /\ disturbed \subseteq Rotor

Init ==
    /\ cfg \in Configs /\ dryRun \in SUBSET Rotor /\ scans \in SUBSET (Rotor \ dryRun)
    /\ age \in [Snap -> Ages] /\ size \in [Snap -> Sizes]
    /\ done \in SUBSET Snap /\ ever = done /\ there = done
    /\ kb = [s \in Snap |-> IF s \in done THEN size[s] ELSE 0]
    /\ pc = [p \in Rotor |-> "list"]
    /\ todo = [p \in Rotor |-> {}]
    /\ snaps = [p \in Rotor |-> {}]
    /\ alive = [p \in Rotor |-> {}]
    /\ toRemove = [p \in Rotor |-> 0]
    /\ sizes = [p \in Rotor |-> [s \in Snap |-> 0]]
    /\ totalKB = [p \in Rotor |-> 0]
    /\ victim = [p \in Rotor |-> {}] /\ stuck = [p \in Rotor |-> {}]
    /\ verdict = [p \in Rotor |-> [s \in Snap |-> "none"]]
    /\ disturbed = {}

Goto(p, phase) == pc' = [pc EXCEPT ![p] = phase]
Visit(p, names) == todo' = [todo EXCEPT ![p] = names]
(* Mistake: the snapshots are visited from the newest on.                  *)
Last(p) == Max(todo[p])

First(p) == Min(todo[p])
Rest(p) == todo[p] \ {First(p)}

-----------------------------------------------------------------------------
(* Some run finishes a snapshot.                                           *)
Finish(s) ==
    /\ s \notin ever
    /\ done' = done \cup {s} /\ ever' = ever \cup {s}
    /\ there' = there \cup {s} /\ kb' = [kb EXCEPT ![s] = size[s]]
    /\ UNCHANGED <<inputs, pc, todo, local, outcome>>

(* listSnapshots: the directories are read, which finds the finished       *)
(* snapshots and any that are being made, and .done is looked up in each.  *)
List(p) ==
    /\ pc[p] = "list"
    /\ \E names \in SUBSET Snap :
          /\ done \subseteq names /\ names \cap ever \subseteq done
          /\ Visit(p, names)
    /\ Goto(p, "look")
    /\ UNCHANGED <<inputs, disk, local, outcome>>

ListFails(p) ==
    /\ pc[p] = "list" /\ Goto(p, IF p \in scans THEN "failed" ELSE "end")
    /\ UNCHANGED <<inputs, disk, todo, local, outcome>>

Look(p) ==
    /\ pc[p] = "look" /\ todo[p] # {}
    /\ snaps' = [snaps EXCEPT ![p] = @ \cup (done \cap {First(p)})]
    /\ alive' = [alive EXCEPT ![p] = @ \cup (done \cap {First(p)})]
    /\ disturbed' = IF First(p) \in done /\ kb[First(p)] # size[First(p)]
                    THEN disturbed \cup {p} ELSE disturbed
    /\ Visit(p, Rest(p))
    /\ UNCHANGED <<inputs, disk, pc, toRemove, sizes, totalKB, victim, stuck, verdict>>

(* Mistake: a dry run forgets what it would remove.                        *)
RemoveUnlessDry(p, s, why) ==
    /\ victim' = [victim EXCEPT ![p] = IF p \in dryRun THEN {} ELSE {s}]
    /\ verdict' = [verdict EXCEPT ![p][s] = why]
    /\ alive' = IF p \in dryRun THEN alive ELSE [alive EXCEPT ![p] = @ \ {s}]
    /\ UNCHANGED <<disk, stuck, disturbed>>

(* A removal is logged, and what it removes no longer counts as alive, in  *)
(* a dry run as well; removeSnapshot follows unless this is one.           *)
Remove(p, s, why) ==
    /\ victim' = [victim EXCEPT ![p] = IF p \in dryRun THEN {} ELSE {s}]
    /\ verdict' = [verdict EXCEPT ![p][s] = why]
    /\ alive' = [alive EXCEPT ![p] = @ \ {s}]
    /\ UNCHANGED <<disk, stuck, disturbed>>

(* removeSnapshot: RemoveAll takes the files of the snapshot one by one,   *)
(* .done among them, and then the directory, or fails on the way.          *)
Disturb(p, s) ==
    disturbed' = disturbed \cup {q \in Rotor \ {p} : s \in snaps[q] /\ pc[q] # "end"}

Tear(p) ==
    \E s \in victim[p] \cap there :
        /\ \E part \in 0 .. kb[s] : kb' = [kb EXCEPT ![s] = part]
        /\ done' \in {done, done \ {s}}
        /\ Disturb(p, s)
        /\ UNCHANGED <<inputs, there, ever, pc, todo, local, victim, stuck, verdict>>

Gone(p) ==
    \E s \in victim[p] :
        /\ there' = there \ {s} /\ done' = done \ {s} /\ kb' = [kb EXCEPT ![s] = 0]
        /\ Disturb(p, s)
        /\ victim' = [victim EXCEPT ![p] = {}]
        /\ UNCHANGED <<inputs, ever, pc, todo, local, stuck, verdict>>

RemoveFails(p) ==
    /\ RemoveMayFail /\ victim[p] # {}
    /\ stuck' = [stuck EXCEPT ![p] = @ \cup victim[p]]
    /\ victim' = [victim EXCEPT ![p] = {}]
    /\ UNCHANGED <<inputs, disk, pc, todo, local, verdict, disturbed>>

-----------------------------------------------------------------------------
(* applyKeepDays: by the time of .done; one that cannot be read is passed  *)
(* over, and stays alive.                                                  *)
StartDays(p) ==
    /\ pc[p] = "look" /\ todo[p] = {} /\ p \notin scans
    /\ Visit(p, IF cfg.keepDays > 0 THEN snaps[p] ELSE {})
    /\ Goto(p, "days")
    /\ UNCHANGED <<inputs, disk, local, outcome>>

TooOld(s) == s \in done /\ age[s] > cfg.keepDays

RemoveOld(p) ==
    /\ pc[p] = "days" /\ todo[p] # {} /\ TooOld(First(p))
    /\ Remove(p, First(p), "age") /\ Visit(p, Rest(p))
    /\ UNCHANGED <<inputs, pc, snaps, toRemove, sizes, totalKB>>

KeepYoung(p) ==
    /\ pc[p] = "days" /\ todo[p] # {} /\ ~TooOld(First(p))
    /\ Visit(p, Rest(p))
    /\ UNCHANGED <<inputs, disk, pc, local, outcome>>

(* Mistakes: no test whether there is an excess; one removal per rotation. *)
StartCountUntested(p) ==
    /\ pc[p] = "days" /\ todo[p] = {}
    /\ toRemove' = [toRemove EXCEPT ![p] =
          IF cfg.keepCount > 0 THEN Cardinality(alive[p]) - cfg.keepCount ELSE 0]
    /\ Visit(p, alive[p]) /\ Goto(p, "count")
    /\ UNCHANGED <<inputs, disk, snaps, alive, sizes, totalKB, outcome>>

StartCountOne(p) ==
    /\ pc[p] = "days" /\ todo[p] = {}
    /\ toRemove' = [toRemove EXCEPT ![p] =
          IF cfg.keepCount > 0 /\ Cardinality(alive[p]) > cfg.keepCount THEN 1 ELSE 0]
    /\ Visit(p, alive[p]) /\ Goto(p, "count")
    /\ UNCHANGED <<inputs, disk, snaps, alive, sizes, totalKB, outcome>>

(* applyKeepCount: the excess is counted once, then the oldest go.         *)
StartCount(p) ==
    /\ pc[p] = "days" /\ todo[p] = {}
    /\ LET live == Cardinality(alive[p])
       IN  toRemove' = [toRemove EXCEPT ![p] =
              IF cfg.keepCount > 0 /\ live > cfg.keepCount THEN live - cfg.keepCount ELSE 0]
    /\ Visit(p, alive[p]) /\ Goto(p, "count")
    /\ UNCHANGED <<inputs, disk, snaps, alive, sizes, totalKB, outcome>>

RemoveExcess(p) ==
    /\ pc[p] = "count" /\ toRemove[p] > 0
    /\ Remove(p, First(p), "count") /\ Visit(p, Rest(p))
    /\ toRemove' = [toRemove EXCEPT ![p] = @ - 1]
    /\ UNCHANGED <<inputs, pc, snaps, sizes, totalKB>>

(* applySizeLimit: what is alive is measured once, and then the oldest go  *)
(* until the rest fits.  dirSizeKB passes over what it cannot read: of a   *)
(* snapshot that is being removed it finds a part, of one that is gone     *)
(* nothing.                                                                *)
StartMeasure(p) ==
    /\ pc[p] = "count" /\ toRemove[p] = 0
    /\ Visit(p, alive[p])
    /\ Goto(p, IF cfg.sized THEN "measure" ELSE "end")
    /\ UNCHANGED <<inputs, disk, local, outcome>>

Measure(p) ==
    /\ pc[p] = "measure" /\ todo[p] # {}
    /\ sizes' = [sizes EXCEPT ![p][First(p)] = kb[First(p)]]
    /\ totalKB' = [totalKB EXCEPT ![p] = @ + kb[First(p)]]
    /\ Visit(p, Rest(p))
    /\ UNCHANGED <<inputs, disk, pc, snaps, alive, toRemove, outcome>>

StartSize(p) ==
    /\ pc[p] = "measure" /\ todo[p] = {}
    /\ Visit(p, alive[p]) /\ Goto(p, "size")
    /\ UNCHANGED <<inputs, disk, local, outcome>>

(* Mistake: a total that just fits is taken for too big.                   *)
TooBigOrEqual(p) == totalKB[p] >= cfg.kbLimit /\ todo[p] # {}

TooBig(p) == totalKB[p] > cfg.kbLimit /\ todo[p] # {}

RemoveBig(p) ==
    /\ pc[p] = "size" /\ TooBig(p)
    /\ Remove(p, First(p), "size") /\ Visit(p, Rest(p))
    /\ totalKB' = [totalKB EXCEPT ![p] = @ - sizes[p][First(p)]]
    /\ UNCHANGED <<inputs, pc, snaps, toRemove, sizes>>

SizeFits(p) ==
    /\ pc[p] = "size" /\ ~TooBig(p)
    /\ Goto(p, "end")
    /\ UNCHANGED <<inputs, disk, todo, local, outcome>>

-----------------------------------------------------------------------------
(* scanBackups: each snapshot is measured, as above, and then looked at:   *)
(* one whose directory is gone fails the scan.                             *)
StartScan(p) ==
    /\ pc[p] = "look" /\ todo[p] = {} /\ p \in scans
    /\ Visit(p, snaps[p]) /\ Goto(p, "scan")
    /\ UNCHANGED <<inputs, disk, local, outcome>>

(* Mistake: the total is set to the size of the snapshot at hand.          *)
ScanLast(p) ==
    /\ pc[p] = "scan" /\ todo[p] # {}
    /\ totalKB' = [totalKB EXCEPT ![p] = kb[First(p)]]
    /\ Goto(p, "stat")
    /\ UNCHANGED <<inputs, disk, todo, snaps, alive, toRemove, sizes, outcome>>

Scan(p) ==
    /\ pc[p] = "scan" /\ todo[p] # {}
    /\ totalKB' = [totalKB EXCEPT ![p] = @ + kb[First(p)]]
    /\ Goto(p, "stat")
    /\ UNCHANGED <<inputs, disk, todo, snaps, alive, toRemove, sizes, outcome>>

Stat(p) ==
    /\ pc[p] = "stat"
    /\ IF First(p) \in there THEN Goto(p, "scan") /\ Visit(p, Rest(p))
       ELSE Goto(p, "failed") /\ UNCHANGED todo
    /\ UNCHANGED <<inputs, disk, local, outcome>>

EndScan(p) ==
    /\ pc[p] = "scan" /\ todo[p] = {}
    /\ Goto(p, "end")
    /\ UNCHANGED <<inputs, disk, todo, local, outcome>>

AllEnded == (\A p \in Rotor : pc[p] \in {"end", "failed"}) /\ ever = Snap /\ UNCHANGED vars

Rotate(p) ==
    \/ List(p) \/ ListFails(p) \/ Look(p)
    \/ StartDays(p) \/ RemoveOld(p) \/ KeepYoung(p)
    \/ StartCount(p) \/ RemoveExcess(p)
    \/ StartMeasure(p) \/ Measure(p) \/ StartSize(p) \/ RemoveBig(p) \/ SizeFits(p)
    \/ StartScan(p) \/ Scan(p) \/ Stat(p) \/ EndScan(p)

Removal(p) == Tear(p) \/ Gone(p) \/ RemoveFails(p)

Next ==
    \/ \E p \in Rotor : (victim[p] = {} /\ Rotate(p)) \/ Removal(p)
    \/ \E s \in Snap : Finish(s)
    \/ AllEnded

Spec == Init /\ [][Next]_vars

-----------------------------------------------------------------------------
RemovedFor(p, why) == {s \in Snap : verdict[p][s] = why}
SumKB(p, names) == MapThenSumSet(LAMBDA s : sizes[p][s], names)

(* keep_count never costs one of the keep_count newest snapshots, counting *)
(* every one ever finished, even when rotations overlap and their lists    *)
(* are stale ("Oldest snapshots are removed first").                       *)
NewestKept ==
    \A p \in Rotor : \A s \in RemovedFor(p, "count") :
        Cardinality({t \in ever : t > s}) >= cfg.keepCount

(* What is on disk of the snapshots a rotation has listed is within all    *)
(* three limits when it ends, except for those whose RemoveAll failed,     *)
(* which the rotation no longer counts; whatever others remove meanwhile.  *)
LimitsHold ==
    \A p \in Rotor \ (dryRun \cup scans) : pc[p] = "end" =>
        LET left == (snaps[p] \cap done) \ stuck[p]
        IN  /\ cfg.keepDays > 0 => \A s \in left : age[s] <= cfg.keepDays
            /\ cfg.keepCount > 0 => Cardinality(left) <= cfg.keepCount
            /\ cfg.sized => MapThenSumSet(LAMBDA s : kb[s], left) <= cfg.kbLimit

(* No rotation removes more than the limits ask for: with one snapshot     *)
(* less removed by count or by size, that limit would have been exceeded.  *)
NoMoreThanNeeded ==
    \A p \in Rotor : pc[p] = "end" =>
        LET counted == RemovedFor(p, "count")
            big == RemovedFor(p, "size")
        IN  /\ counted # {} => Cardinality(alive[p] \cup big) = cfg.keepCount
            /\ big # {} => SumKB(p, alive[p] \cup {Max(big)}) > cfg.kbLimit

(* A dry run logs exactly the removals that a real rotation of the same    *)
(* list makes, unless one of them was removed meanwhile ("simulates the    *)
(* entire process including rotation").                                    *)
DryRunPredicts ==
    \A p \in dryRun \ disturbed, q \in Rotor \ (dryRun \cup scans \cup disturbed) :
        pc[p] = "end" /\ pc[q] = "end" /\ snaps[p] = snaps[q] /\ snaps[p] # {}
            => verdict[p] = verdict[q]

(* A scan reports at least what is on disk, when it ends, of the snapshots *)
(* it lists, and at most what they were when finished; exactly that, and   *)
(* without failing in the middle, unless a rotation is removing one of     *)
(* them or has left a part of it.  (Then it may well end with a part.)     *)
ScanIsWhole ==
    \A p \in scans :
        LET whole == MapThenSumSet(LAMBDA s : size[s], snaps[p])
        IN  /\ pc[p] = "end" =>
                  /\ MapThenSumSet(LAMBDA s : kb[s], snaps[p]) <= totalKB[p]
                  /\ totalKB[p] <= whole
                  /\ p \notin disturbed => totalKB[p] = whole
            /\ pc[p] = "failed" /\ snaps[p] # {} => p \in disturbed
=============================================================================
