------------------------------ MODULE MCRotation -------------------------------
(* Instances of Rotation for TLC.                                          *)
EXTENDS Rotation, TLC

Limits(days, count, limit, sized) ==
    [keepDays |-> days, keepCount |-> count, kbLimit |-> limit, sized |-> sized]

(* Age with count, count with size, and all three.                         *)
SomeConfigs ==
    {Limits(1, 1, 0, FALSE), Limits(0, 2, 2, TRUE), Limits(1, 1, 1, TRUE)}

(* What a configuration does not look at is fixed; under all three limits  *)
(* the snapshots are finished in the order of their names and of one size. *)
Bound ==
    /\ cfg.keepDays = 0 => \A s \in Snap : age[s] = 1
    /\ ~cfg.sized \/ cfg.keepDays > 0 => \A s \in Snap : size[s] = 2
    /\ cfg.keepDays > 0 /\ cfg.sized => \A s, t \in Snap : s < t => age[s] >= age[t]

Symmetry == Permutations(Rotor)
=============================================================================
