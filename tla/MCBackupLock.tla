----------------------------- MODULE MCBackupLock -----------------------------
(* Instances of BackupLock for TLC.                                        *)
EXTENDS BackupLock, TLC

CONSTANTS p1, p2, p3

OneHost == [p \in Proc |-> "here"]
TwoHosts == [p \in Proc |-> IF p = p1 THEN "there" ELSE "here"]
AllHazards == HazardKinds
NoHazards == {}
Overlap == {"overlap"}

(* The processes of one host are interchangeable.                          *)
Symmetry == Permutations(Proc)
SymmetryHere == Permutations({p2, p3})
=============================================================================
