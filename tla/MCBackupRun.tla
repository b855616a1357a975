----------------------------- MODULE MCBackupRun ------------------------------
(* Instances of BackupRun for TLC.                                         *)
EXTENDS BackupRun, TLC

CONSTANTS p1, p2, p3

OneHost == [p \in Proc |-> "here"]

(* The first two clock readings fall on one day, the third on the next.    *)
TwoDays(t) == IF t <= 2 THEN "day1" ELSE "day2"

Crashes == {"kill", "io"}
CrashesOrAnything == {Crashes, FaultKinds}

(* When anything may go wrong, two processes at two clock readings.        *)
Bound ==
    "overlap" \in faults => clock <= 2 /\ Cardinality({p \in Proc : pc[p] # "start"}) <= 2

Symmetry == Permutations(Proc)
=============================================================================
