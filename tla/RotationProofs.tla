----------------------------- MODULE RotationProofs ----------------------------
(***************************************************************************)
(* Theorems about Rotation for any number of rotations, scans and          *)
(* snapshots, any ages, sizes and limits, with their proofs, in three      *)
(* layers: what is listed, counted, young and on disk; what it weighs; and *)
(* what decides the removals of a rotation that nobody meddled with.       *)
(***************************************************************************)
EXTENDS Rotation, Induction, FiniteSetTheorems

-----------------------------------------------------------------------------
TypeInv ==
    /\ cfg \in Config /\ age \in [Snap -> Nat]
    /\ done \subseteq ever /\ ever \subseteq Snap
    /\ pc \in [Rotor -> Phase]
    /\ todo \in [Rotor -> SUBSET Snap]
    /\ snaps \in [Rotor -> SUBSET Snap]
    /\ alive \in [Rotor -> SUBSET Snap]
    /\ toRemove \in [Rotor -> Nat]
    /\ verdict \in [Rotor -> [Snap -> {"none", "age", "count", "size"}]]

DiskTyped ==
    /\ size \in [Snap -> Nat]
    /\ done \subseteq there /\ there \subseteq ever
    /\ kb \in [Snap -> Nat] /\ \A s \in Snap : kb[s] <= size[s]
    /\ victim \in [Rotor -> SUBSET Snap] /\ stuck \in [Rotor -> SUBSET Snap]

(* What a rotation knows of its list, by the phase it is in.               *)
ListAt(p) ==
    /\ alive[p] \subseteq snaps[p] /\ snaps[p] \subseteq ever
    /\ pc[p] = "list" => alive[p] = {}
    /\ pc[p] \in {"days", "count", "measure", "size"} => p \notin scans
    /\ pc[p] \in {"scan", "stat"} => p \in scans
    /\ pc[p] \in {"count", "size"} => todo[p] \subseteq alive[p]
    /\ pc[p] = "count" => alive[p] \subseteq todo[p]

(* How many are left, and how many were removed for it.                    *)
CountAt(p) ==
    /\ pc[p] \in {"list", "look", "days", "scan", "stat"} => RemovedFor(p, "count") = {}
    /\ pc[p] \in {"list", "look", "days", "count", "measure"} => RemovedFor(p, "size") = {}
    /\ pc[p] = "count" =>
          /\ toRemove[p] > 0 \/ RemovedFor(p, "count") # {} =>
                 Cardinality(alive[p]) = cfg.keepCount + toRemove[p]
          /\ cfg.keepCount > 0 => Cardinality(alive[p]) <= cfg.keepCount + toRemove[p]
    /\ pc[p] \in {"measure", "size", "end"} =>
          /\ cfg.keepCount > 0 /\ p \notin scans => Cardinality(alive[p]) <= cfg.keepCount
          /\ RemovedFor(p, "count") # {} =>
                 Cardinality(alive[p] \cup RemovedFor(p, "size")) = cfg.keepCount

(* How old what is left on disk is; and all that is left is on disk, and   *)
(* whole, unless another one has meddled with the list.                    *)
AgeAt(p) ==
    /\ p \notin disturbed /\ pc[p] # "end" => \A s \in alive[p] : s \in done /\ kb[s] = size[s]
    /\ cfg.keepDays > 0 /\ p \notin scans =>
          /\ pc[p] = "days" => \A s \in (alive[p] \ todo[p]) \cap done : age[s] <= cfg.keepDays
          /\ pc[p] \in {"count", "measure", "size", "end"} =>
                 \A s \in alive[p] \cap done : age[s] <= cfg.keepDays

(* What is on disk though no longer alive is being removed or got stuck.   *)
VictimAt(p) ==
    /\ victim[p] # {} => pc[p] \in {"days", "count", "size"}
    /\ \A s, t \in victim[p] : s = t
    /\ victim[p] \cap alive[p] = {}
    /\ p \notin dryRun \cup scans =>
          \A s \in (snaps[p] \cap done) \ alive[p] : s \in victim[p] \cup stuck[p]

NewestAt(p) ==
    \A s \in RemovedFor(p, "count") : Cardinality({t \in ever : t > s}) >= cfg.keepCount

RotorAt(p) == ListAt(p) /\ CountAt(p) /\ AgeAt(p) /\ VictimAt(p) /\ NewestAt(p)
RotationInv == TypeInv /\ DiskTyped /\ \A p \in Rotor : RotorAt(p)

LEMMA SnapsAreFinite ==
  ASSUME NEW S \in SUBSET Snap
  PROVE  IsFiniteSet(S) /\ Cardinality(S) \in Nat
<1>1. IsFiniteSet(Snap)
  BY FS_Interval, SnapsAssumption DEF Snap
<1> QED
  BY <1>1, FS_Subset, FS_CardinalityType

LEMMA FewerSnaps ==
  ASSUME NEW S \in SUBSET Snap, NEW T \in SUBSET S
  PROVE  Cardinality(T) <= Cardinality(S)
  BY SnapsAreFinite, FS_Subset

LEMMA OneSnapLess ==
  ASSUME NEW S \in SUBSET Snap, NEW s \in S
  PROVE  Cardinality(S \ {s}) = Cardinality(S) - 1 /\ Cardinality(S) \in Nat
  BY SnapsAreFinite, FS_RemoveElement

LEMMA FirstIsFirst ==
  ASSUME TypeInv, NEW p \in Rotor, todo[p] # {}
  PROVE  First(p) \in todo[p] /\ First(p) \in Snap /\ \A s \in Rest(p) : First(p) < s
<1>1. todo[p] \in SUBSET Nat /\ todo[p] \in SUBSET Snap
  BY DEF TypeInv, Snap
<1>2. PICK x \in todo[p] : \A y \in todo[p] : x =< y
  BY <1>1, Smallest
<1>3. First(p) \in todo[p] /\ \A y \in todo[p] : First(p) =< y
  BY <1>2 DEF First, Min
<1> QED
  BY <1>1, <1>3 DEF Rest

LEMMA InitialRotation == Init => RotationInv
<1> SUFFICES ASSUME Init PROVE RotationInv
  OBVIOUS
<1>1. TypeInv
  BY ConfigsAssumption, InputsAssumption DEF Init, TypeInv, Phase
<1>2. DiskTyped
  <2>1. size \in [Snap -> Nat] /\ kb = [s \in Snap |-> IF s \in done THEN size[s] ELSE 0]
    BY InputsAssumption DEF Init
  <2>2. kb \in [Snap -> Nat] /\ \A s \in Snap : kb[s] <= size[s]
    BY <2>1
  <2> QED
    BY <2>1, <2>2 DEF Init, DiskTyped
<1>3. ASSUME NEW p \in Rotor PROVE RotorAt(p)
  <2>1. /\ pc[p] = "list" /\ alive[p] = {} /\ snaps[p] = {} /\ victim[p] = {}
        /\ \A w : w # "none" => RemovedFor(p, w) = {}
    BY DEF Init, RemovedFor
  <2> QED
    BY <2>1 DEF RotorAt, ListAt, CountAt, AgeAt, VictimAt, NewestAt
<1> QED
  BY <1>1, <1>2, <1>3 DEF RotationInv

-----------------------------------------------------------------------------
(* A step of a rotation leaves what the others know, and what it removes   *)
(* from the list of another one is remembered.                             *)
Spares(p) ==
    /\ UNCHANGED <<inputs, ever>> /\ disturbed \subseteq disturbed' /\ done' \subseteq done
    /\ \A q \in Rotor \ {p} :
          /\ pc'[q] = pc[q] /\ todo'[q] = todo[q] /\ snaps'[q] = snaps[q]
          /\ alive'[q] = alive[q] /\ toRemove'[q] = toRemove[q] /\ verdict'[q] = verdict[q]
          /\ victim'[q] = victim[q] /\ stuck'[q] = stuck[q]
          /\ \/ q \in disturbed' \/ pc[q] = "end"
             \/ \A s \in snaps[q] : kb'[s] = kb[s] /\ (s \in done => s \in done')

LEMMA RotationFrame ==
  ASSUME NEW p \in Rotor, RotationInv, Spares(p), TypeInv', DiskTyped', RotorAt(p)'
  PROVE  RotationInv'
<1>1. ASSUME NEW q \in Rotor, q # p PROVE RotorAt(q)'
  <2>1. /\ pc'[q] = pc[q] /\ todo'[q] = todo[q] /\ snaps'[q] = snaps[q]
        /\ alive'[q] = alive[q] /\ toRemove'[q] = toRemove[q] /\ verdict'[q] = verdict[q]
        /\ victim'[q] = victim[q] /\ stuck'[q] = stuck[q]
        /\ \/ q \in disturbed' \/ pc[q] = "end"
           \/ \A s \in snaps[q] : kb'[s] = kb[s] /\ (s \in done => s \in done')
        /\ UNCHANGED <<cfg, dryRun, scans, age, size, ever>> /\ disturbed \subseteq disturbed'
        /\ done' \subseteq done
    BY <1>1 DEF Spares, inputs
  <2>2. \A w : RemovedFor(q, w)' = RemovedFor(q, w)
    BY <2>1 DEF RemovedFor
  <2>3. RotorAt(q)
    BY DEF RotationInv
  <2>4. ListAt(q)' /\ CountAt(q)' /\ NewestAt(q)'
    BY <2>1, <2>2, <2>3 DEF RotorAt, ListAt, CountAt, NewestAt
  <2>5. AgeAt(q)'
    <3>1. q \notin disturbed' /\ pc'[q] # "end" => \A s \in alive'[q] : s \in done' /\ kb'[s] = size'[s]
      BY <2>1, <2>3 DEF RotorAt, ListAt, AgeAt
    <3> QED
      BY <2>1, <2>3, <3>1 DEF RotorAt, AgeAt
  <2>6. VictimAt(q)'
    BY <2>1, <2>3 DEF RotorAt, VictimAt
  <2> QED
    BY <2>4, <2>5, <2>6 DEF RotorAt
<1> QED
  BY <1>1 DEF RotationInv

(* A step that neither removes nor lists.                                  *)
Quiet(p) ==
    /\ UNCHANGED <<inputs, disk, outcome, snaps, alive>>
    /\ \A q \in Rotor \ {p} : pc'[q] = pc[q] /\ todo'[q] = todo[q] /\ toRemove'[q] = toRemove[q]

LEMMA QuietKeeps ==
  ASSUME NEW p \in Rotor, Quiet(p)
  PROVE  /\ Spares(p)
         /\ UNCHANGED <<cfg, dryRun, scans, age, size, ever, there, kb, done, disturbed, snaps, alive, victim, stuck>>
         /\ \A w : RemovedFor(p, w)' = RemovedFor(p, w)
         /\ NewestAt(p)' = NewestAt(p)
<1>1. UNCHANGED <<cfg, dryRun, scans, age, size, ever, there, kb, done, disturbed, snaps, alive, victim, stuck, verdict>>
  BY DEF Quiet, inputs, disk, outcome
<1>2. \A w : RemovedFor(p, w)' = RemovedFor(p, w)
  BY <1>1 DEF RemovedFor
<1>3. Spares(p)
  BY <1>1 DEF Quiet, Spares
<1> QED
  BY <1>1, <1>2, <1>3 DEF NewestAt

(* What the beginning of a removal does to the rotation that makes it.     *)
LEMMA RemoveEffect ==
  ASSUME TypeInv, DiskTyped, NEW p \in Rotor, VictimAt(p), victim[p] = {},
         NEW s \in Snap, NEW why \in {"age", "count", "size"}, Remove(p, s, why),
         UNCHANGED <<inputs, pc, snaps>>, pc[p] \in {"days", "count", "size"},
         \A q \in Rotor \ {p} : todo'[q] = todo[q] /\ toRemove'[q] = toRemove[q]
  PROVE  /\ Spares(p) /\ UNCHANGED <<ever, there, kb, done, stuck, disturbed>>
         /\ alive' \in [Rotor -> SUBSET Snap]
         /\ verdict' \in [Rotor -> [Snap -> {"none", "age", "count", "size"}]]
         /\ alive'[p] = alive[p] \ {s} /\ DiskTyped' /\ VictimAt(p)'
         /\ RemovedFor(p, why)' = RemovedFor(p, why) \cup {s}
         /\ \A w : w # why => RemovedFor(p, w)' = RemovedFor(p, w) \ {s}
<1>1. /\ alive' \in [Rotor -> SUBSET Snap] /\ alive'[p] = alive[p] \ {s}
      /\ \A q \in Rotor \ {p} : alive'[q] = alive[q]
  BY DEF Remove, TypeInv
<1>2. /\ verdict' \in [Rotor -> [Snap -> {"none", "age", "count", "size"}]]
      /\ verdict'[p][s] = why /\ \A t \in Snap \ {s} : verdict'[p][t] = verdict[p][t]
      /\ \A q \in Rotor \ {p} : verdict'[q] = verdict[q]
  BY DEF Remove, TypeInv
<1>3. /\ UNCHANGED <<ever, there, kb, done, stuck, disturbed>>
      /\ UNCHANGED <<dryRun, scans, size>>
      /\ victim' \in [Rotor -> SUBSET Snap] /\ victim'[p] \subseteq {s} /\ (p \notin dryRun => victim'[p] = {s})
      /\ \A q \in Rotor \ {p} : victim'[q] = victim[q]
  BY DEF Remove, DiskTyped, disk, inputs
<1>4. Spares(p)
  BY <1>1, <1>2, <1>3 DEF Spares
<1>5. /\ RemovedFor(p, why)' = RemovedFor(p, why) \cup {s}
      /\ \A w : w # why => RemovedFor(p, w)' = RemovedFor(p, w) \ {s}
  BY <1>2 DEF RemovedFor
<1>6. DiskTyped'
  BY <1>3 DEF DiskTyped
<1>7. VictimAt(p)'
  <2>1. p \notin dryRun \cup scans =>
            \A t \in (snaps[p] \cap done) \ alive'[p] : t \in victim'[p] \cup stuck[p]
    BY <1>1, <1>3 DEF VictimAt
  <2> QED
    BY <1>1, <1>3, <2>1 DEF VictimAt
<1> QED
  BY <1>1, <1>2, <1>3, <1>4, <1>5, <1>6, <1>7

(* What a removal does: it takes apart what is no longer alive.            *)
LEMMA RemovalEffect ==
  ASSUME TypeInv, DiskTyped, NEW p \in Rotor, VictimAt(p), Removal(p)
  PROVE  /\ UNCHANGED <<inputs, ever, pc, todo, local, verdict>> /\ Spares(p)
         /\ DiskTyped' /\ (p \in disturbed' => p \in disturbed) /\ disturbed' \subseteq disturbed \cup Rotor
         /\ \A t \in Snap : kb'[t] <= kb[t]
         /\ \A t \in Snap \ victim[p] : kb'[t] = kb[t] /\ (t \in done => t \in done')
         /\ victim[p] # {} /\ victim'[p] \subseteq victim[p] /\ stuck[p] \subseteq stuck'[p]
         /\ victim[p] \cap done' \subseteq victim'[p] \cup stuck'[p]
<1>1. CASE Tear(p)
  <2> PICK s \in victim[p] \cap there :
          /\ \E part \in 0 .. kb[s] : kb' = [kb EXCEPT ![s] = part]
          /\ done' \in {done, done \ {s}} /\ Disturb(p, s)
    BY <1>1 DEF Tear
  <2>1. PICK part \in 0 .. kb[s] : kb' = [kb EXCEPT ![s] = part]
    OBVIOUS
  <2>2. UNCHANGED <<inputs, there, ever, pc, todo, local, victim, stuck, verdict>>
    BY <1>1 DEF Tear
  <2>3. s \in Snap /\ kb[s] \in Nat /\ part \in Nat /\ part <= kb[s] /\ kb[s] <= size[s] /\ size[s] \in Nat
        /\ UNCHANGED <<size, snaps, alive, toRemove>>
    BY <2>1, <2>2 DEF DiskTyped, inputs, local
  <2>4. kb' \in [Snap -> Nat] /\ kb'[s] = part /\ \A t \in Snap \ {s} : kb'[t] = kb[t]
    BY <2>1, <2>3 DEF DiskTyped
  <2>5. \A t \in Snap : kb'[t] <= kb[t] /\ kb'[t] <= size'[t]
    <3> SUFFICES ASSUME NEW t \in Snap PROVE kb'[t] <= kb[t] /\ kb'[t] <= size'[t]
      OBVIOUS
    <3>1. kb[t] \in Nat /\ size[t] \in Nat /\ kb[t] <= size[t]
      BY DEF DiskTyped
    <3> QED
      BY <2>3, <2>4, <3>1
  <2>6. DiskTyped'
    BY <2>1, <2>2, <2>3, <2>4, <2>5 DEF DiskTyped
  <2>7. Spares(p)
    <3>1. \A q \in Rotor \ {p} : \/ q \in disturbed' \/ pc[q] = "end"
                                \/ \A t \in snaps[q] : kb'[t] = kb[t] /\ (t \in done => t \in done')
      BY <2>1, <2>4 DEF Disturb, TypeInv
    <3> QED
      BY <2>1, <2>2, <2>3, <3>1 DEF Spares, Disturb
  <2> QED
    BY <2>1, <2>2, <2>4, <2>5, <2>6, <2>7 DEF Disturb, VictimAt
<1>2. CASE Gone(p)
  <2>1. PICK s \in victim[p] :
            /\ there' = there \ {s} /\ done' = done \ {s} /\ kb' = [kb EXCEPT ![s] = 0] /\ Disturb(p, s)
    BY <1>2 DEF Gone
  <2>2. /\ victim' = [victim EXCEPT ![p] = {}] /\ UNCHANGED <<inputs, ever, pc, todo, local, stuck, verdict>>
    BY <1>2 DEF Gone
  <2>3. s \in Snap /\ victim[p] = {s} /\ UNCHANGED <<size, snaps, alive, toRemove>>
    BY <2>1, <2>2 DEF DiskTyped, VictimAt, inputs, local
  <2>4. kb' \in [Snap -> Nat] /\ kb'[s] = 0 /\ \A t \in Snap \ {s} : kb'[t] = kb[t]
    BY <2>1, <2>3 DEF DiskTyped
  <2>5. \A t \in Snap : kb'[t] <= kb[t] /\ kb'[t] <= size'[t]
    <3> SUFFICES ASSUME NEW t \in Snap PROVE kb'[t] <= kb[t] /\ kb'[t] <= size'[t]
      OBVIOUS
    <3>1. kb[t] \in Nat /\ size[t] \in Nat /\ kb[t] <= size[t]
      BY DEF DiskTyped
    <3> QED
      BY <2>3, <2>4, <3>1
  <2>6. /\ victim' \in [Rotor -> SUBSET Snap] /\ victim'[p] = {}
        /\ \A q \in Rotor \ {p} : victim'[q] = victim[q]
    BY <2>2 DEF DiskTyped
  <2>7. DiskTyped'
    BY <2>1, <2>2, <2>3, <2>4, <2>5, <2>6 DEF DiskTyped
  <2>8. Spares(p)
    <3>1. \A q \in Rotor \ {p} : \/ q \in disturbed' \/ pc[q] = "end"
                                \/ \A t \in snaps[q] : kb'[t] = kb[t] /\ (t \in done => t \in done')
      BY <2>1, <2>4 DEF Disturb, TypeInv
    <3> QED
      BY <2>1, <2>2, <2>3, <2>6, <3>1 DEF Spares, Disturb
  <2> QED
    BY <2>1, <2>2, <2>3, <2>4, <2>5, <2>6, <2>7, <2>8 DEF Disturb
<1>3. CASE RemoveFails(p)
  <2>1. /\ victim[p] # {} /\ victim' = [victim EXCEPT ![p] = {}] /\ stuck' = [stuck EXCEPT ![p] = @ \cup victim[p]]
        /\ UNCHANGED <<inputs, disk, pc, todo, local, verdict, disturbed>>
        /\ UNCHANGED <<size, snaps, alive, toRemove, ever, there, kb, done>>
    BY <1>3 DEF RemoveFails, inputs, disk, local
  <2>2. /\ victim' \in [Rotor -> SUBSET Snap] /\ stuck' \in [Rotor -> SUBSET Snap]
        /\ victim'[p] = {} /\ stuck'[p] = stuck[p] \cup victim[p]
        /\ \A q \in Rotor \ {p} : victim'[q] = victim[q] /\ stuck'[q] = stuck[q]
    BY <2>1 DEF DiskTyped
  <2>3. DiskTyped'
    BY <2>1, <2>2 DEF DiskTyped
  <2>4. \A t \in Snap : kb'[t] <= kb[t]
    BY <2>1 DEF DiskTyped
  <2> QED
    BY <2>1, <2>2, <2>3, <2>4 DEF Spares
<1> QED
  BY <1>1, <1>2, <1>3 DEF Removal

-----------------------------------------------------------------------------
(* The steps that neither remove nor list.                                 *)
LEMMA QuietStep ==
  ASSUME NEW p \in Rotor, RotationInv, victim[p] = {}, Quiet(p), TypeInv',
         ListAt(p)', CountAt(p)', AgeAt(p)'
  PROVE  RotationInv'
<1>1. /\ Spares(p) /\ NewestAt(p)' = NewestAt(p)
      /\ UNCHANGED <<dryRun, scans, size, ever, there, kb, done, snaps, alive, victim, stuck>>
  BY QuietKeeps
<1>2. DiskTyped' /\ VictimAt(p)'
  BY <1>1 DEF RotationInv, RotorAt, DiskTyped, VictimAt
<1> QED
  BY <1>1, <1>2, RotationFrame DEF RotationInv, RotorAt

LEMMA ListStep ==
  ASSUME NEW p \in Rotor, RotationInv, victim[p] = {}, List(p) \/ ListFails(p) PROVE RotationInv'
<1>1. /\ pc[p] = "list" /\ pc'[p] \in {"look", "end", "failed"} /\ alive[p] = {}
      /\ Quiet(p) /\ TypeInv'
  BY DEF List, ListFails, Goto, Visit, Quiet, RotationInv, TypeInv, Phase, inputs, disk, local, outcome, RotorAt, ListAt
<1>2. RotorAt(p) /\ RemovedFor(p, "count") = {} /\ RemovedFor(p, "size") = {}
  BY <1>1 DEF RotationInv, RotorAt, CountAt
<1>3. /\ UNCHANGED <<cfg, dryRun, scans, age, size, ever, kb, done, disturbed, snaps, alive>>
      /\ \A w : RemovedFor(p, w)' = RemovedFor(p, w)
  BY <1>1, QuietKeeps
<1>4. ListAt(p)' /\ AgeAt(p)'
  BY <1>1, <1>2, <1>3 DEF RotorAt, ListAt, AgeAt
<1>5. CountAt(p)'
  <2>1. Cardinality({}) = 0
    BY FS_EmptySet
  <2>2. cfg.keepCount \in Nat
    BY DEF RotationInv, TypeInv, Config
  <2>3. RemovedFor(p, "count")' = {} /\ RemovedFor(p, "size")' = {} /\ alive'[p] = {}
    BY <1>1, <1>2, <1>3
  <2>4. Cardinality(alive'[p]) = 0 /\ cfg' = cfg
    BY <1>3, <2>1, <2>3
  <2> QED
    BY <1>1, <2>2, <2>3, <2>4 DEF CountAt
<1> QED
  BY <1>1, <1>4, <1>5, QuietStep

LEMMA DaysStep ==
  ASSUME NEW p \in Rotor, RotationInv, victim[p] = {}, StartDays(p) \/ KeepYoung(p) PROVE RotationInv'
<1>1. Quiet(p) /\ TypeInv' /\ pc'[p] = "days" /\ pc[p] \in {"look", "days"} /\ p \notin scans
  <2>1. TypeInv /\ ListAt(p)
    BY DEF RotationInv, RotorAt
  <2> USE <2>1 DEF Goto, Visit, Rest, Quiet, TypeInv, Phase, local, ListAt
  <2>2. CASE StartDays(p)
    BY <2>2 DEF StartDays, inputs, disk, outcome
  <2>3. CASE KeepYoung(p)
    BY <2>3 DEF KeepYoung, inputs, disk, outcome
  <2> QED
    BY <2>2, <2>3
<1>2. RotorAt(p) /\ RemovedFor(p, "count") = {} /\ RemovedFor(p, "size") = {}
  BY <1>1 DEF RotationInv, RotorAt, CountAt
<1>3. /\ UNCHANGED <<cfg, dryRun, scans, age, size, ever, kb, done, disturbed, snaps, alive>>
      /\ \A w : RemovedFor(p, w)' = RemovedFor(p, w)
  BY <1>1, QuietKeeps
<1>4. ListAt(p)' /\ CountAt(p)'
  BY <1>1, <1>2, <1>3 DEF RotorAt, ListAt, CountAt
<1>5. AgeAt(p)'
  <2> SUFFICES ASSUME cfg.keepDays > 0, NEW s \in alive[p] \cap done, s \notin todo'[p]
               PROVE  age[s] <= cfg.keepDays
    BY <1>1, <1>2, <1>3 DEF RotorAt, AgeAt
  <2>1. CASE StartDays(p)
    BY <1>2, <2>1 DEF StartDays, Visit, RotationInv, TypeInv, RotorAt, ListAt
  <2>2. CASE KeepYoung(p)
    <3>1. pc[p] = "days" /\ todo'[p] = todo[p] \ {First(p)} /\ ~TooOld(First(p))
      BY <2>2 DEF KeepYoung, Visit, Rest, RotationInv, TypeInv
    <3>2. CASE s = First(p)
      <4>1. age[s] \in Nat /\ cfg.keepDays \in Nat
        BY DEF RotationInv, TypeInv, Config
      <4> QED
        BY <3>1, <3>2, <4>1 DEF TooOld
    <3>3. CASE s # First(p)
      BY <1>1, <1>2, <3>1, <3>3 DEF RotorAt, AgeAt
    <3> QED
      BY <3>2, <3>3
  <2> QED
    BY <2>1, <2>2
<1> QED
  BY <1>1, <1>4, <1>5, QuietStep

LEMMA CountStep ==
  ASSUME NEW p \in Rotor, RotationInv, victim[p] = {}, StartCount(p) PROVE RotationInv'
<1> DEFINE live == Cardinality(alive[p])
           excess == IF cfg.keepCount > 0 /\ live > cfg.keepCount THEN live - cfg.keepCount ELSE 0
<1>1. live \in Nat /\ cfg.keepCount \in Nat /\ excess \in Nat
  <2>1. alive[p] \in SUBSET Snap /\ cfg.keepCount \in Nat
    BY DEF RotationInv, TypeInv, Config
  <2>2. live \in Nat
    BY <2>1, SnapsAreFinite
  <2> QED
    BY <2>1, <2>2
<1>2. /\ pc[p] = "days" /\ todo[p] = {} /\ p \notin scans
      /\ toRemove' = [toRemove EXCEPT ![p] = excess] /\ todo' = [todo EXCEPT ![p] = alive[p]]
      /\ pc' = [pc EXCEPT ![p] = "count"] /\ UNCHANGED <<inputs, disk, snaps, alive, sizes, totalKB, outcome>>
  BY DEF StartCount, Goto, Visit, RotationInv, RotorAt, ListAt
<1>3. Quiet(p) /\ TypeInv' /\ pc'[p] = "count" /\ toRemove'[p] = excess /\ todo'[p] = alive[p]
  <2> HIDE DEF excess
  <2> QED
    BY <1>1, <1>2 DEF Quiet, RotationInv, TypeInv, Phase, inputs, disk, outcome
<1>4. RotorAt(p) /\ RemovedFor(p, "count") = {} /\ RemovedFor(p, "size") = {}
  BY <1>2 DEF RotationInv, RotorAt, CountAt
<1>5. /\ UNCHANGED <<cfg, dryRun, scans, age, size, ever, kb, done, disturbed, snaps, alive>>
      /\ \A w : RemovedFor(p, w)' = RemovedFor(p, w)
  BY <1>3, QuietKeeps
<1>6. ListAt(p)' /\ AgeAt(p)'
  BY <1>2, <1>3, <1>4, <1>5 DEF RotorAt, ListAt, AgeAt
<1>7. CountAt(p)'
  <2>1. /\ toRemove'[p] > 0 => live = cfg.keepCount + toRemove'[p]
        /\ live <= cfg.keepCount + toRemove'[p] \/ ~(cfg.keepCount > 0)
    BY <1>1, <1>3
  <2> HIDE DEF live, excess
  <2> QED
    BY <1>3, <1>4, <1>5, <2>1 DEF CountAt, live
<1> QED
  BY <1>3, <1>6, <1>7, QuietStep

LEMMA SizeStep ==
  ASSUME NEW p \in Rotor, RotationInv, victim[p] = {},
         StartMeasure(p) \/ Measure(p) \/ StartSize(p) \/ SizeFits(p)
  PROVE  RotationInv'
<1>1. /\ Quiet(p) /\ TypeInv' /\ p \notin scans /\ UNCHANGED toRemove
      /\ \/ pc[p] = "count" /\ toRemove[p] = 0 /\ pc'[p] \in {"measure", "end"}
         \/ pc[p] = "measure" /\ pc'[p] = "measure"
         \/ pc[p] = "measure" /\ pc'[p] = "size" /\ todo'[p] = alive[p]
         \/ pc[p] = "size" /\ pc'[p] = "end"
  <2> USE DEF Goto, Visit, Rest, Quiet, RotationInv, TypeInv, Phase, inputs, disk, local, outcome, RotorAt, ListAt
  <2>1. CASE StartMeasure(p)
    BY <2>1 DEF StartMeasure
  <2>2. CASE Measure(p)
    BY <2>2 DEF Measure
  <2>3. CASE StartSize(p)
    BY <2>3 DEF StartSize
  <2>4. CASE SizeFits(p)
    BY <2>4 DEF SizeFits
  <2> QED
    BY <2>1, <2>2, <2>3, <2>4
<1>2. RotorAt(p)
  BY DEF RotationInv
<1>3. /\ UNCHANGED <<cfg, dryRun, scans, age, size, ever, kb, done, disturbed, snaps, alive>>
      /\ \A w : RemovedFor(p, w)' = RemovedFor(p, w)
  BY <1>1, QuietKeeps
<1>4. ListAt(p)' /\ AgeAt(p)'
  BY <1>1, <1>2, <1>3 DEF RotorAt, ListAt, AgeAt
<1>5. CountAt(p)'
  <2>1. cfg.keepCount + 0 = cfg.keepCount
    BY DEF RotationInv, TypeInv, Config
  <2>2. alive[p] \cup {} = alive[p]
    OBVIOUS
  <2> QED
    BY <1>1, <1>2, <1>3, <2>1, <2>2 DEF RotorAt, CountAt
<1> QED
  BY <1>1, <1>4, <1>5, QuietStep

LEMMA ScanStep ==
  ASSUME NEW p \in Rotor, RotationInv, victim[p] = {},
         StartScan(p) \/ Scan(p) \/ Stat(p) \/ EndScan(p)
  PROVE  RotationInv'
<1>1. /\ Quiet(p) /\ TypeInv' /\ UNCHANGED toRemove /\ pc[p] \in {"look", "scan", "stat"}
      /\ pc'[p] \in {"scan", "stat", "end", "failed"} /\ (pc[p] = "look" => p \in scans)
  <2> USE DEF Goto, Visit, Rest, Quiet, RotationInv, TypeInv, Phase, inputs, disk, local, outcome
  <2>1. CASE StartScan(p)
    BY <2>1 DEF StartScan
  <2>2. CASE Scan(p)
    BY <2>2 DEF Scan
  <2>3. CASE Stat(p)
    BY <2>3 DEF Stat
  <2>4. CASE EndScan(p)
    BY <2>4 DEF EndScan
  <2> QED
    BY <2>1, <2>2, <2>3, <2>4
<1>2. RotorAt(p) /\ RemovedFor(p, "count") = {}
  BY <1>1 DEF RotationInv, RotorAt, CountAt
<1>3. /\ UNCHANGED <<cfg, dryRun, scans, age, size, ever, kb, done, disturbed, snaps, alive>>
      /\ \A w : RemovedFor(p, w)' = RemovedFor(p, w)
  BY <1>1, QuietKeeps
<1>4. ListAt(p)' /\ AgeAt(p)' /\ CountAt(p)'
  BY <1>1, <1>2, <1>3 DEF RotorAt, ListAt, AgeAt, CountAt
<1> QED
  BY <1>1, <1>4, QuietStep

-----------------------------------------------------------------------------
(* The steps that list or remove, and the snapshots finished meanwhile.    *)
LEMMA LookStep ==
  ASSUME NEW p \in Rotor, RotationInv, victim[p] = {}, Look(p) PROVE RotationInv'
<1>1. /\ pc[p] = "look" /\ pc'[p] = "look" /\ todo' = [todo EXCEPT ![p] = Rest(p)]
      /\ UNCHANGED <<inputs, pc, toRemove, ever, there, kb, done, victim, stuck, verdict>>
      /\ UNCHANGED <<cfg, dryRun, scans, age, size>>
      /\ snaps' = [snaps EXCEPT ![p] = snaps[p] \cup (done \cap {First(p)})]
      /\ alive' = [alive EXCEPT ![p] = alive[p] \cup (done \cap {First(p)})]
      /\ disturbed \subseteq disturbed'
      /\ First(p) \in done => p \in disturbed' \/ kb[First(p)] = size[First(p)]
  BY DEF Look, Visit, inputs, disk
<1>2. done \subseteq ever /\ done \subseteq Snap /\ TypeInv /\ DiskTyped
  BY DEF RotationInv, TypeInv
<1>3. /\ alive'[p] = alive[p] \cup (done \cap {First(p)}) /\ snaps'[p] = snaps[p] \cup (done \cap {First(p)})
      /\ alive' \in [Rotor -> SUBSET Snap] /\ snaps' \in [Rotor -> SUBSET Snap]
      /\ todo' \in [Rotor -> SUBSET Snap]
      /\ \A q \in Rotor \ {p} : alive'[q] = alive[q] /\ snaps'[q] = snaps[q] /\ todo'[q] = todo[q]
  BY <1>1, <1>2 DEF TypeInv, Rest
<1>4. Spares(p) /\ TypeInv' /\ DiskTyped'
  BY <1>1, <1>2, <1>3 DEF Spares, TypeInv, DiskTyped
<1>5. RotorAt(p) /\ \A w : RemovedFor(p, w)' = RemovedFor(p, w)
  BY <1>1 DEF RotationInv, RemovedFor
<1>6. ListAt(p)' /\ CountAt(p)' /\ NewestAt(p)'
  BY <1>1, <1>2, <1>3, <1>5 DEF RotorAt, ListAt, CountAt, NewestAt
<1>7. AgeAt(p)' /\ VictimAt(p)'
  BY <1>1, <1>2, <1>3, <1>5 DEF RotorAt, AgeAt, VictimAt
<1> QED
  BY <1>4, <1>6, <1>7, RotationFrame DEF RotorAt

LEMMA OldStep ==
  ASSUME NEW p \in Rotor, RotationInv, victim[p] = {}, RemoveOld(p) PROVE RotationInv'
<1>1. /\ pc[p] = "days" /\ todo[p] # {} /\ Remove(p, First(p), "age") /\ todo' = [todo EXCEPT ![p] = Rest(p)]
      /\ UNCHANGED <<inputs, pc, snaps, toRemove>> /\ UNCHANGED <<cfg, dryRun, scans, age, size>>
  BY DEF RemoveOld, Visit, inputs
<1>2. PICK s : s = First(p)
  OBVIOUS
<1>3. /\ TypeInv /\ DiskTyped /\ VictimAt(p) /\ s \in Snap
      /\ todo'[p] = todo[p] \ {s} /\ todo' \in [Rotor -> SUBSET Snap]
      /\ \A q \in Rotor \ {p} : todo'[q] = todo[q]
  BY <1>1, <1>2, FirstIsFirst DEF RotationInv, RotorAt, TypeInv, Rest
<1>4. /\ Spares(p) /\ UNCHANGED <<ever, there, kb, done, stuck, disturbed>>
      /\ alive' \in [Rotor -> SUBSET Snap]
      /\ verdict' \in [Rotor -> [Snap -> {"none", "age", "count", "size"}]]
      /\ alive'[p] = alive[p] \ {s} /\ DiskTyped' /\ VictimAt(p)'
      /\ \A w : w # "age" => RemovedFor(p, w)' = RemovedFor(p, w) \ {s}
  BY <1>1, <1>2, <1>3, RemoveEffect
<1>5. disturbed \subseteq disturbed' /\ RotorAt(p) /\ RemovedFor(p, "count") = {} /\ RemovedFor(p, "size") = {}
  BY <1>1, <1>4 DEF Spares, RotationInv, RotorAt, CountAt
<1>6. RemovedFor(p, "count")' = {} /\ RemovedFor(p, "size")' = {}
  BY <1>4, <1>5
<1>7. TypeInv'
  BY <1>1, <1>3, <1>4 DEF TypeInv
<1>8. ListAt(p)' /\ CountAt(p)' /\ NewestAt(p)'
  BY <1>1, <1>4, <1>5, <1>6 DEF RotorAt, ListAt, CountAt, NewestAt
<1>9. AgeAt(p)'
  <2>1. alive'[p] \ todo'[p] \subseteq alive[p] \ todo[p]
    BY <1>3, <1>4
  <2> QED
    BY <1>1, <1>4, <1>5, <2>1 DEF RotorAt, AgeAt
<1> QED
  BY <1>4, <1>7, <1>8, <1>9, RotationFrame DEF RotorAt

(* Enough newer ones are left when a snapshot is removed by count.         *)
LEMMA ExcessStep ==
  ASSUME NEW p \in Rotor, RotationInv, victim[p] = {}, RemoveExcess(p) PROVE RotationInv'
<1>1. /\ pc[p] = "count" /\ toRemove[p] > 0 /\ Remove(p, First(p), "count")
      /\ todo' = [todo EXCEPT ![p] = Rest(p)] /\ toRemove' = [toRemove EXCEPT ![p] = toRemove[p] - 1]
      /\ UNCHANGED <<inputs, pc, snaps>> /\ UNCHANGED <<cfg, dryRun, scans, age, size>>
  BY DEF RemoveExcess, Visit, inputs
<1>2. TypeInv /\ DiskTyped /\ RotorAt(p) /\ VictimAt(p) /\ toRemove[p] \in Nat \ {0} /\ cfg.keepCount \in Nat
      /\ alive[p] \in SUBSET Snap /\ ever \in SUBSET Snap
  BY <1>1 DEF RotationInv, RotorAt, TypeInv, Config
<1>3. /\ todo[p] = alive[p] /\ alive[p] \subseteq snaps[p] /\ snaps[p] \subseteq ever
      /\ Cardinality(alive[p]) = cfg.keepCount + toRemove[p] /\ Cardinality(alive[p]) \in Nat
      /\ RemovedFor(p, "size") = {}
  BY <1>1, <1>2, SnapsAreFinite DEF RotorAt, ListAt, CountAt
<1>4. todo[p] # {}
  <2>1. Cardinality({}) = 0
    BY FS_EmptySet
  <2>2. Cardinality(alive[p]) # 0
    BY <1>2, <1>3
  <2> QED
    BY <1>3, <2>1, <2>2
<1>5. PICK s : s = First(p)
  OBVIOUS
<1>6. s \in Snap /\ s \in alive[p] /\ Rest(p) = todo[p] \ {s} /\ \A t \in alive[p] \ {s} : s < t
  BY <1>2, <1>3, <1>4, <1>5, FirstIsFirst DEF Rest
<1>7. /\ Spares(p) /\ UNCHANGED <<ever, there, kb, done, stuck, disturbed>>
      /\ alive' \in [Rotor -> SUBSET Snap]
      /\ verdict' \in [Rotor -> [Snap -> {"none", "age", "count", "size"}]]
      /\ alive'[p] = alive[p] \ {s} /\ DiskTyped' /\ VictimAt(p)'
      /\ RemovedFor(p, "count")' = RemovedFor(p, "count") \cup {s}
      /\ \A w : w # "count" => RemovedFor(p, w)' = RemovedFor(p, w) \ {s}
  <2>1. \A q \in Rotor \ {p} : todo'[q] = todo[q] /\ toRemove'[q] = toRemove[q]
    BY <1>1, <1>2 DEF TypeInv
  <2> QED
    BY <1>1, <1>2, <1>5, <1>6, <2>1, RemoveEffect
<1>8. todo'[p] = todo[p] \ {s} /\ toRemove'[p] = toRemove[p] - 1
  BY <1>1, <1>2, <1>6 DEF TypeInv
<1>9. TypeInv'
  <2>1. todo' \in [Rotor -> SUBSET Snap] /\ toRemove' \in [Rotor -> Nat]
    BY <1>1, <1>2, <1>6 DEF TypeInv
  <2> QED
    BY <1>1, <1>2, <1>7, <2>1 DEF TypeInv
<1>10. disturbed \subseteq disturbed' /\ RemovedFor(p, "size")' = {}
  BY <1>3, <1>7 DEF Spares
<1>11. Cardinality(alive[p] \ {s}) = cfg.keepCount + (toRemove[p] - 1)
  <2>1. Cardinality(alive[p] \ {s}) = Cardinality(alive[p]) - 1
    BY <1>2, <1>6, OneSnapLess
  <2> QED
    BY <1>2, <1>3, <2>1
<1>12. ListAt(p)'
  BY <1>1, <1>2, <1>3, <1>7, <1>8 DEF RotorAt, ListAt
<1>13. CountAt(p)'
  <2>1. Cardinality(alive'[p]) = cfg.keepCount + toRemove'[p]
    BY <1>7, <1>8, <1>11
  <2>2. cfg.keepCount + toRemove'[p] \in Nat
    BY <1>2, <1>8
  <2>3. Cardinality(alive'[p]) <= cfg.keepCount + toRemove'[p]
    BY <2>1, <2>2
  <2> QED
    BY <1>1, <1>10, <2>1, <2>3 DEF CountAt
<1>14. AgeAt(p)'
  BY <1>1, <1>2, <1>7 DEF RotorAt, AgeAt
<1>15. NewestAt(p)'
  <2> DEFINE newer == {t \in ever : t > s}
  <2>1. alive[p] \ {s} \in SUBSET newer
    <3>1. \A t \in Snap : s < t => t > s
      BY <1>6 DEF Snap
    <3> QED
      BY <1>2, <1>3, <1>6, <3>1
  <2>2. newer \in SUBSET Snap
    BY <1>2
  <2>3. Cardinality(alive[p] \ {s}) <= Cardinality(newer) /\ Cardinality(newer) \in Nat
    <3> HIDE DEF newer
    <3> QED
      BY <2>1, <2>2, FewerSnaps, SnapsAreFinite
  <2>4. Cardinality(newer) >= cfg.keepCount
    <3> HIDE DEF newer
    <3> QED
      BY <1>2, <1>11, <2>3
  <2> QED
    BY <1>1, <1>2, <1>7, <2>4 DEF RotorAt, NewestAt
<1> QED
  BY <1>7, <1>9, <1>12, <1>13, <1>14, <1>15, RotationFrame DEF RotorAt

LEMMA BigStep ==
  ASSUME NEW p \in Rotor, RotationInv, victim[p] = {}, RemoveBig(p) PROVE RotationInv'
<1>1. /\ pc[p] = "size" /\ todo[p] # {} /\ Remove(p, First(p), "size") /\ todo' = [todo EXCEPT ![p] = Rest(p)]
      /\ UNCHANGED <<inputs, pc, snaps, toRemove>> /\ UNCHANGED <<cfg, dryRun, scans, age, size>>
  BY DEF RemoveBig, TooBig, Visit, inputs
<1>2. PICK s : s = First(p)
  OBVIOUS
<1>3. /\ TypeInv /\ DiskTyped /\ VictimAt(p) /\ s \in Snap /\ s \in todo[p]
      /\ todo'[p] = todo[p] \ {s} /\ todo' \in [Rotor -> SUBSET Snap]
      /\ \A q \in Rotor \ {p} : todo'[q] = todo[q]
  BY <1>1, <1>2, FirstIsFirst DEF RotationInv, RotorAt, TypeInv, Rest
<1>4. RotorAt(p) /\ s \in alive[p] /\ alive[p] \in SUBSET Snap /\ cfg.keepCount \in Nat
  BY <1>1, <1>3 DEF RotationInv, RotorAt, ListAt, TypeInv, Config
<1>5. /\ Spares(p) /\ UNCHANGED <<ever, there, kb, done, stuck, disturbed>>
      /\ alive' \in [Rotor -> SUBSET Snap]
      /\ verdict' \in [Rotor -> [Snap -> {"none", "age", "count", "size"}]]
      /\ alive'[p] = alive[p] \ {s} /\ DiskTyped' /\ VictimAt(p)'
      /\ RemovedFor(p, "size")' = RemovedFor(p, "size") \cup {s}
      /\ \A w : w # "size" => RemovedFor(p, w)' = RemovedFor(p, w) \ {s}
  BY <1>1, <1>2, <1>3, RemoveEffect
<1>6. disturbed \subseteq disturbed' /\ RemovedFor(p, "count")' \subseteq RemovedFor(p, "count")
  BY <1>5 DEF Spares
<1>7. TypeInv'
  BY <1>1, <1>3, <1>5 DEF TypeInv
<1>8. ListAt(p)'
  BY <1>1, <1>3, <1>4, <1>5 DEF RotorAt, ListAt
<1>9. CountAt(p)'
  <2>1. Cardinality(alive'[p]) <= Cardinality(alive[p]) /\ Cardinality(alive[p]) \in Nat
        /\ Cardinality(alive'[p]) \in Nat
    BY <1>4, <1>5, FewerSnaps, SnapsAreFinite
  <2>2. alive'[p] \cup RemovedFor(p, "size")' = alive[p] \cup RemovedFor(p, "size")
    BY <1>4, <1>5
  <2>3. cfg.keepCount > 0 => Cardinality(alive'[p]) <= cfg.keepCount
    BY <1>1, <1>4, <2>1 DEF RotorAt, CountAt, ListAt
  <2>4. RemovedFor(p, "count")' # {} => Cardinality(alive'[p] \cup RemovedFor(p, "size")') = cfg.keepCount
    BY <1>1, <1>4, <1>6, <2>2 DEF RotorAt, CountAt
  <2> QED
    BY <1>1, <2>3, <2>4 DEF CountAt
<1>10. AgeAt(p)'
  BY <1>1, <1>4, <1>5 DEF RotorAt, AgeAt
<1>11. NewestAt(p)'
  BY <1>1, <1>4, <1>5, <1>6 DEF RotorAt, NewestAt
<1> QED
  BY <1>5, <1>7, <1>8, <1>9, <1>10, <1>11, RotationFrame DEF RotorAt

LEMMA FinishStep == ASSUME NEW s \in Snap, RotationInv, Finish(s) PROVE RotationInv'
<1>1. /\ done' = done \cup {s} /\ ever' = ever \cup {s}
      /\ there' = there \cup {s} /\ kb' = [kb EXCEPT ![s] = size[s]] /\ s \notin ever
      /\ UNCHANGED <<cfg, dryRun, scans, age, size, pc, todo, snaps, alive, toRemove>>
      /\ UNCHANGED <<victim, stuck, verdict, disturbed>>
  BY DEF Finish, inputs, local, outcome
<1>2. /\ kb' \in [Snap -> Nat] /\ kb'[s] = size[s] /\ \A t \in Snap \ {s} : kb'[t] = kb[t]
      /\ TypeInv /\ DiskTyped /\ size[s] \in Nat
  BY <1>1 DEF RotationInv, DiskTyped
<1>3. TypeInv' /\ DiskTyped'
  <2>1. \A t \in Snap : kb'[t] <= size'[t]
    BY <1>1, <1>2 DEF DiskTyped
  <2> QED
    BY <1>1, <1>2, <2>1 DEF TypeInv, DiskTyped
<1>4. ASSUME NEW p \in Rotor PROVE RotorAt(p)'
  <2>1. RotorAt(p) /\ \A w : RemovedFor(p, w)' = RemovedFor(p, w)
    BY <1>1 DEF RotationInv, RemovedFor
  <2>2. ListAt(p)' /\ CountAt(p)'
    BY <1>1, <2>1 DEF RotorAt, ListAt, CountAt
  <2>4. s \notin snaps[p] /\ s \notin alive[p] /\ alive[p] \in SUBSET Snap
    BY <1>1, <1>2, <2>1 DEF RotorAt, ListAt, TypeInv
  <2>5. AgeAt(p)' /\ VictimAt(p)'
    BY <1>1, <1>2, <2>1, <2>4 DEF RotorAt, AgeAt, VictimAt
  <2>3. NewestAt(p)'
    <3> SUFFICES ASSUME NEW t \in RemovedFor(p, "count")
                 PROVE  Cardinality({u \in ever' : u > t}) >= cfg.keepCount
      BY <1>1, <2>1 DEF NewestAt
    <3> DEFINE before == {u \in ever : u > t}
               after == {u \in ever' : u > t}
    <3>1. after \in SUBSET Snap /\ before \in SUBSET after
      BY <1>1 DEF RotationInv, TypeInv
    <3>2. Cardinality(before) >= cfg.keepCount /\ cfg.keepCount \in Nat
      BY <2>1 DEF RotorAt, NewestAt, RotationInv, TypeInv, Config
    <3>3. Cardinality(before) <= Cardinality(after) /\ Cardinality(before) \in Nat /\ Cardinality(after) \in Nat
      <4> HIDE DEF before, after
      <4>1. before \in SUBSET Snap
        BY <3>1
      <4> QED
        BY <3>1, <4>1, FewerSnaps, SnapsAreFinite
    <3> QED
      <4> HIDE DEF before
      <4>1. Cardinality(after) >= cfg.keepCount
        <5> HIDE DEF after
        <5> QED
          BY <3>2, <3>3
      <4> QED
        BY <4>1
  <2> QED
    BY <2>2, <2>3, <2>5 DEF RotorAt
<1> QED
  BY <1>3, <1>4 DEF RotationInv

(* A removal takes apart what the rotation no longer counts on.            *)
LEMMA RemovalStep == ASSUME NEW p \in Rotor, RotationInv, Removal(p) PROVE RotationInv'
<1>1. TypeInv /\ DiskTyped /\ RotorAt(p) /\ VictimAt(p) /\ alive[p] \in SUBSET Snap
  BY DEF RotationInv, RotorAt, TypeInv
<1>2. /\ UNCHANGED <<inputs, ever, pc, todo, local, verdict>> /\ Spares(p)
      /\ DiskTyped' /\ (p \in disturbed' => p \in disturbed)
      /\ \A t \in Snap \ victim[p] : kb'[t] = kb[t] /\ (t \in done => t \in done')
      /\ victim[p] # {} /\ victim'[p] \subseteq victim[p] /\ stuck[p] \subseteq stuck'[p]
      /\ victim[p] \cap done' \subseteq victim'[p] \cup stuck'[p]
  BY <1>1, RemovalEffect
<1>3. /\ UNCHANGED <<cfg, dryRun, scans, age, size, ever, pc, todo, snaps, alive, toRemove, verdict>>
      /\ done' \subseteq done /\ disturbed \subseteq disturbed'
  BY <1>2 DEF Spares, inputs, local
<1>4. TypeInv'
  BY <1>1, <1>3 DEF TypeInv
<1>5. ListAt(p)' /\ CountAt(p)' /\ NewestAt(p)'
  <2>1. \A w : RemovedFor(p, w)' = RemovedFor(p, w)
    BY <1>3 DEF RemovedFor
  <2> QED
    BY <1>1, <1>3, <2>1 DEF RotorAt, ListAt, CountAt, NewestAt
<1>6. AgeAt(p)'
  <2>1. \A t \in alive[p] : kb'[t] = kb[t] /\ (t \in done => t \in done')
    BY <1>1, <1>2 DEF VictimAt
  <2> QED
    BY <1>1, <1>2, <1>3, <2>1 DEF RotorAt, AgeAt
<1>7. VictimAt(p)'
  <2>1. p \notin dryRun \cup scans =>
            \A t \in (snaps[p] \cap done') \ alive[p] : t \in victim'[p] \cup stuck'[p]
    BY <1>1, <1>2, <1>3 DEF VictimAt
  <2> QED
    BY <1>1, <1>2, <1>3, <2>1 DEF VictimAt
<1> QED
  BY <1>2, <1>4, <1>5, <1>6, <1>7, RotationFrame DEF RotorAt

-----------------------------------------------------------------------------
LEMMA RotationInductive == ASSUME RotationInv, [Next]_vars PROVE RotationInv'
<1>1. ASSUME NEW p \in Rotor, victim[p] = {}, Rotate(p) PROVE RotationInv'
  BY <1>1, ListStep, LookStep, DaysStep, OldStep, CountStep, ExcessStep, SizeStep, BigStep, ScanStep DEF Rotate
<1>2. ASSUME NEW s \in Snap, Finish(s) PROVE RotationInv'
  BY <1>2, FinishStep
<1>3. ASSUME NEW p \in Rotor, Removal(p) PROVE RotationInv'
  BY <1>3, RemovalStep
<1>4. CASE UNCHANGED vars
  <2>1. /\ UNCHANGED <<cfg, dryRun, scans, age, size, there, kb, done, ever, pc, todo, snaps, alive, toRemove>>
        /\ UNCHANGED <<victim, stuck, verdict, disturbed>>
    BY <1>4 DEF vars, inputs, disk, local, outcome
  <2>2. TypeInv' /\ DiskTyped'
    BY <2>1 DEF RotationInv, TypeInv, DiskTyped
  <2>3. ASSUME NEW p \in Rotor PROVE RotorAt(p)'
    BY <2>1 DEF RotationInv, RotorAt, ListAt, CountAt, AgeAt, VictimAt, NewestAt, RemovedFor
  <2> QED
    BY <2>2, <2>3 DEF RotationInv
<1> QED
  BY <1>1, <1>2, <1>3, <1>4 DEF Next, AllEnded

(* What each rotation knows of its list stays true, whatever the others    *)
(* remove and finish beside it.                                            *)
THEOREM RotationInvariant == Spec => []RotationInv
  BY InitialRotation, RotationInductive, PTL DEF Spec

(* keep_count never costs one of the keep_count newest snapshots of all,   *)
(* however many rotations overlap and however stale their lists are.       *)
THEOREM NewestAreKept == Spec => []NewestKept
<1>1. RotationInv => NewestKept
  BY DEF RotationInv, RotorAt, NewestAt, NewestKept
<1> QED
  BY <1>1, RotationInvariant, PTL

-----------------------------------------------------------------------------
(* What a rotation knows of the sizes it has measured: no more is on disk  *)
(* of what is left; the total is that of what it has visited, or of all    *)
(* that is left; what it removed by size is older than what is left, and   *)
(* the last one of it was too much.                                        *)
SizeAt(p) ==
    /\ pc[p] \in {"list", "look", "days", "count"} => totalKB[p] = 0
    /\ pc[p] = "measure" =>
          /\ todo[p] \subseteq alive[p] /\ totalKB[p] = Sum(sizes[p], alive[p] \ todo[p])
          /\ \A s \in alive[p] \ todo[p] : kb[s] <= sizes[p][s]
    /\ pc[p] = "size" => alive[p] \subseteq todo[p] /\ totalKB[p] = Sum(sizes[p], alive[p])
    /\ pc[p] = "end" /\ p \notin scans /\ cfg.sized => Sum(sizes[p], alive[p]) <= cfg.kbLimit
    /\ pc[p] \in {"size", "end"} /\ p \notin scans /\ cfg.sized =>
          \A s \in alive[p] : kb[s] <= sizes[p][s]
    /\ \A b \in RemovedFor(p, "size"), s \in alive[p] : b < s
    /\ RemovedFor(p, "size") # {} =>
          Sum(sizes[p], alive[p] \cup {Max(RemovedFor(p, "size"))}) > cfg.kbLimit

(* A total that a scan may have for the snapshots of a set: it lies        *)
(* between what is on disk of them and what they were.                     *)
Fair(p, names) ==
    /\ Sum(kb, names) <= totalKB[p] /\ totalKB[p] <= Sum(size, names)
    /\ p \notin disturbed => totalKB[p] = Sum(size, names)

(* What a scan knows: the total is that of what it has measured; a         *)
(* directory it does not find is one that another one has removed.         *)
ScanAt(p) ==
    /\ pc[p] = "list" => snaps[p] = {}
    /\ p \in scans => alive[p] = snaps[p]
    /\ pc[p] = "scan" => todo[p] \subseteq snaps[p] /\ Fair(p, snaps[p] \ todo[p])
    /\ pc[p] = "stat" => todo[p] # {} /\ todo[p] \subseteq snaps[p] /\ Fair(p, snaps[p] \ Rest(p))
    /\ pc[p] = "end" /\ p \in scans => Fair(p, snaps[p])
    /\ pc[p] = "failed" => p \in scans /\ (snaps[p] = {} \/ p \in disturbed)

SizesTyped ==
    /\ dryRun \subseteq Rotor /\ scans \subseteq Rotor \ dryRun /\ disturbed \subseteq Rotor
    /\ sizes \in [Rotor -> [Snap -> Nat]]
    /\ totalKB \in [Rotor -> Nat]

SizeInv == SizesTyped /\ \A p \in Rotor : SizeAt(p) /\ ScanAt(p)

LEMMA SnapSums ==
  ASSUME NEW w \in [Snap -> Nat], NEW S \in SUBSET Snap
  PROVE  /\ Sum(w, S) \in Nat
         /\ \A s \in S : Sum(w, S) = w[s] + Sum(w, S \ {s}) /\ Sum(w, S \ {s}) = Sum(w, S) - w[s]
<1>1. IsFiniteSet(S) /\ \A s \in S : w[s] \in Nat
  BY SnapsAreFinite
<1>2. Sum(w, S) \in Nat
  BY <1>1, SumIsNatural
<1>3. ASSUME NEW s \in S
      PROVE  Sum(w, S) = w[s] + Sum(w, S \ {s}) /\ Sum(w, S \ {s}) = Sum(w, S) - w[s]
  BY <1>1, SumOfElement
<1> QED
  BY <1>2, <1>3

LEMMA SnapSumsOrdered ==
  ASSUME NEW v \in [Snap -> Nat], NEW w \in [Snap -> Nat], NEW S \in SUBSET Snap, \A s \in S : v[s] <= w[s]
  PROVE  Sum(v, S) <= Sum(w, S) /\ Sum(v, S) \in Nat /\ Sum(w, S) \in Nat
<1>1. IsFiniteSet(S) /\ \A s \in S : v[s] \in Nat /\ w[s] \in Nat /\ v[s] <= w[s]
  BY SnapsAreFinite
<1> QED
  BY <1>1, SumsOrdered, SnapSums

LEMMA NewestIs ==
  ASSUME NEW S \in SUBSET Snap, NEW s \in S, \A t \in S : t <= s
  PROVE  Max(S) = s
<1>1. s \in S /\ \A t \in S : s >= t
  BY DEF Snap
<1>2. Max(S) \in S /\ \A t \in S : Max(S) >= t
  BY <1>1 DEF Max
<1>3. PICK m : m = Max(S)
  OBVIOUS
<1>4. m \in S /\ m >= s /\ m <= s
  BY <1>2, <1>3
<1>5. m \in Nat /\ s \in Nat
  BY <1>4 DEF Snap
<1> QED
  BY <1>3, <1>4, <1>5

LEMMA NewestExists ==
  ASSUME NEW S \in SUBSET Snap, S # {}
  PROVE  Max(S) \in S /\ \A t \in S : t <= Max(S)
<1> DEFINE bounds == {n \in Nat : \A t \in S : t <= n}
<1>1. Snaps \in bounds
  BY SnapsAssumption DEF Snap
<1>2. PICK m \in bounds : \A n \in bounds : m =< n
  BY <1>1, Smallest
<1>3. m \in S
  <2> SUFFICES ASSUME m \notin S PROVE FALSE
    OBVIOUS
  <2>1. \A t \in S : t <= m - 1 /\ t \in Nat /\ t > 0
    BY <1>2 DEF Snap
  <2>2. m - 1 \in Nat
    BY <1>2, <2>1
  <2>3. m - 1 \in bounds
    BY <2>1, <2>2
  <2> QED
    BY <1>2, <2>3
<1> QED
  BY <1>2, <1>3, NewestIs

LEMMA InitialSizes == Init => SizeInv
<1> SUFFICES ASSUME Init PROVE SizeInv
  OBVIOUS
<1>1. SizesTyped
  BY InputsAssumption DEF Init, SizesTyped
<1>2. ASSUME NEW p \in Rotor PROVE SizeAt(p) /\ ScanAt(p)
  <2>1. /\ pc[p] = "list" /\ alive[p] = {} /\ snaps[p] = {} /\ totalKB[p] = 0
        /\ RemovedFor(p, "size") = {}
    BY DEF Init, RemovedFor
  <2> QED
    BY <2>1 DEF SizeAt, ScanAt
<1> QED
  BY <1>1, <1>2 DEF SizeInv

(* What a rotation knows of sizes stays true when it stands still and      *)
(* others take snapshots apart.                                            *)
LEMMA SizesStay ==
  ASSUME NEW q \in Rotor, RotationInv, SizeInv, DiskTyped', UNCHANGED inputs, disturbed \subseteq disturbed',
         \A s \in Snap : kb'[s] <= kb[s],
         pc'[q] = pc[q], todo'[q] = todo[q], snaps'[q] = snaps[q], alive'[q] = alive[q],
         sizes'[q] = sizes[q], totalKB'[q] = totalKB[q], verdict'[q] = verdict[q]
  PROVE  SizeAt(q)' /\ ScanAt(q)'
<1>1. /\ UNCHANGED <<cfg, scans, size>> /\ SizeAt(q) /\ ScanAt(q)
      /\ todo[q] \in SUBSET Snap /\ snaps[q] \in SUBSET Snap /\ alive[q] \in SUBSET Snap
      /\ kb \in [Snap -> Nat] /\ kb' \in [Snap -> Nat] /\ size \in [Snap -> Nat]
      /\ sizes[q] \in [Snap -> Nat] /\ totalKB[q] \in Nat
  BY DEF inputs, SizeInv, SizesTyped, RotationInv, TypeInv, DiskTyped
<1>2. \A w : RemovedFor(q, w)' = RemovedFor(q, w)
  BY DEF RemovedFor
<1>3. First(q)' = First(q) /\ Rest(q)' = Rest(q)
  BY DEF First, Rest
<1>4. \A s \in Snap : kb[s] <= sizes[q][s] => kb'[s] <= sizes[q][s]
  <2> SUFFICES ASSUME NEW s \in Snap, kb[s] <= sizes[q][s] PROVE kb'[s] <= sizes[q][s]
    OBVIOUS
  <2>1. kb[s] \in Nat /\ kb'[s] \in Nat /\ sizes[q][s] \in Nat /\ kb'[s] <= kb[s]
    BY <1>1
  <2> QED
    BY <2>1
<1>5. SizeAt(q)'
  BY <1>1, <1>2, <1>4 DEF SizeAt
<1>6. ASSUME NEW S \in SUBSET Snap, Fair(q, S)
      PROVE  /\ Sum(kb', S) <= totalKB[q] /\ totalKB[q] <= Sum(size, S)
             /\ q \notin disturbed' => totalKB[q] = Sum(size, S)
  <2>1. Sum(kb', S) <= Sum(kb, S) /\ Sum(kb', S) \in Nat /\ Sum(kb, S) \in Nat
    BY <1>1, SnapSumsOrdered
  <2> QED
    BY <1>1, <1>6, <2>1 DEF Fair
<1>7. Rest(q) \in SUBSET Snap
  BY <1>1 DEF Rest
<1>8. ScanAt(q)'
  BY <1>1, <1>3, <1>6, <1>7 DEF ScanAt, Fair
<1> QED
  BY <1>5, <1>8

LEMMA SizeFrame ==
  ASSUME NEW p \in Rotor, RotationInv, SizeInv, DiskTyped', UNCHANGED inputs, disturbed \subseteq disturbed',
         \A s \in Snap : kb'[s] <= kb[s],
         \A q \in Rotor \ {p} :
             /\ pc'[q] = pc[q] /\ todo'[q] = todo[q] /\ snaps'[q] = snaps[q] /\ alive'[q] = alive[q]
             /\ sizes'[q] = sizes[q] /\ totalKB'[q] = totalKB[q] /\ verdict'[q] = verdict[q],
         SizesTyped', SizeAt(p)', ScanAt(p)'
  PROVE  SizeInv'
<1>1. ASSUME NEW q \in Rotor, q # p PROVE SizeAt(q)' /\ ScanAt(q)'
  BY <1>1, SizesStay
<1> QED
  BY <1>1 DEF SizeInv

LEMMA RemovalSizes == ASSUME NEW p \in Rotor, RotationInv, SizeInv, Removal(p) PROVE SizeInv'
<1>1. /\ UNCHANGED <<inputs, ever, pc, todo, local, verdict>> /\ DiskTyped'
      /\ disturbed' \subseteq disturbed \cup Rotor /\ disturbed \subseteq disturbed'
      /\ \A t \in Snap : kb'[t] <= kb[t]
  BY RemovalEffect DEF RotationInv, RotorAt, Spares
<1>2. UNCHANGED <<dryRun, scans, pc, todo, snaps, alive, sizes, totalKB, verdict>>
  BY <1>1 DEF inputs, local
<1>3. SizesTyped'
  BY <1>1, <1>2 DEF SizeInv, SizesTyped
<1>4. ASSUME NEW q \in Rotor PROVE SizeAt(q)' /\ ScanAt(q)'
  BY <1>1, <1>2, SizesStay
<1> QED
  BY <1>3, <1>4 DEF SizeInv

-----------------------------------------------------------------------------
(* The steps before anything is measured.                                  *)
LEMMA EarlySizes ==
  ASSUME NEW p \in Rotor, RotationInv, SizeInv, victim[p] = {},
         \/ List(p) \/ ListFails(p) \/ Look(p) \/ StartDays(p) \/ RemoveOld(p) \/ KeepYoung(p)
         \/ StartCount(p) \/ RemoveExcess(p)
  PROVE  SizeInv'
<1>1. TypeInv /\ RotationInv' /\ SizesTyped /\ SizeAt(p) /\ ScanAt(p) /\ RotorAt(p)' /\ DiskTyped'
  <2>1. [Next]_vars
    BY DEF Next, Rotate
  <2> QED
    BY <2>1, RotationInductive DEF RotationInv, SizeInv
<1>2. /\ UNCHANGED <<inputs, sizes, totalKB>> /\ UNCHANGED <<cfg, dryRun, scans, size, kb>>
      /\ disturbed \subseteq disturbed' /\ disturbed' \subseteq Rotor
      /\ pc[p] \in {"list", "look", "days", "count"}
  <2> USE <1>1 DEF SizesTyped, inputs, disk, local, outcome
  <2>1. CASE List(p)
    BY <2>1 DEF List
  <2>2. CASE ListFails(p)
    BY <2>2 DEF ListFails
  <2>3. CASE Look(p)
    BY <2>3 DEF Look
  <2>4. CASE StartDays(p)
    BY <2>4 DEF StartDays
  <2>5. CASE RemoveOld(p)
    BY <2>5 DEF RemoveOld, Remove
  <2>6. CASE KeepYoung(p)
    BY <2>6 DEF KeepYoung
  <2>7. CASE StartCount(p)
    BY <2>7 DEF StartCount
  <2>8. CASE RemoveExcess(p)
    BY <2>8 DEF RemoveExcess, Remove
  <2> QED
    BY <2>1, <2>2, <2>3, <2>4, <2>5, <2>6, <2>7, <2>8
<1>3. /\ pc'[p] \in {"look", "days", "count"} \/ ListFails(p)
      /\ \A q \in Rotor \ {p} : pc'[q] = pc[q]
  <2> USE <1>1 DEF TypeInv, Goto
  <2>1. CASE List(p)
    BY <2>1 DEF List
  <2>2. CASE ListFails(p)
    BY <2>2 DEF ListFails
  <2>3. CASE Look(p)
    BY <2>3 DEF Look
  <2>4. CASE StartDays(p)
    BY <2>4 DEF StartDays
  <2>5. CASE RemoveOld(p)
    BY <2>5 DEF RemoveOld, Remove
  <2>6. CASE KeepYoung(p)
    BY <2>6 DEF KeepYoung
  <2>7. CASE StartCount(p)
    BY <2>7 DEF StartCount
  <2>8. CASE RemoveExcess(p)
    BY <2>8 DEF RemoveExcess, Remove
  <2> QED
    BY <2>1, <2>2, <2>3, <2>4, <2>5, <2>6, <2>7, <2>8
<1>4. \A q \in Rotor \ {p} :
          /\ todo'[q] = todo[q] /\ snaps'[q] = snaps[q] /\ alive'[q] = alive[q] /\ verdict'[q] = verdict[q]
  <2> USE <1>1 DEF TypeInv, Visit, local, outcome
  <2>1. CASE List(p)
    BY <2>1 DEF List
  <2>2. CASE ListFails(p)
    BY <2>2 DEF ListFails
  <2>3. CASE Look(p)
    BY <2>3 DEF Look
  <2>4. CASE StartDays(p)
    BY <2>4 DEF StartDays
  <2>5. CASE RemoveOld(p)
    BY <2>5 DEF RemoveOld, Remove
  <2>6. CASE KeepYoung(p)
    BY <2>6 DEF KeepYoung
  <2>7. CASE StartCount(p)
    BY <2>7 DEF StartCount
  <2>8. CASE RemoveExcess(p)
    BY <2>8 DEF RemoveExcess, Remove
  <2> QED
    BY <2>1, <2>2, <2>3, <2>4, <2>5, <2>6, <2>7, <2>8
<1>5. SizesTyped' /\ \A s \in Snap : kb'[s] <= kb[s]
  BY <1>1, <1>2 DEF SizesTyped, RotationInv, DiskTyped
<1>6. totalKB'[p] = 0 /\ RemovedFor(p, "size") = {}
  BY <1>1, <1>2 DEF SizeAt, RotationInv, RotorAt, CountAt
<1>7. CASE ListFails(p)
  <2>1. /\ alive'[p] = {} /\ snaps'[p] = {} /\ RemovedFor(p, "size")' = {} /\ cfg.kbLimit \in Nat
        /\ pc'[p] \in {"end", "failed"} /\ (pc'[p] = "failed" <=> p \in scans)
    BY <1>1, <1>2, <1>6, <1>7
       DEF ListFails, RemovedFor, Goto, local, outcome, RotationInv, RotorAt, ListAt, ScanAt, TypeInv, Config
  <2>2. Sum(sizes'[p], {}) = 0 /\ Sum(size', {}) = 0 /\ Sum(kb', {}) = 0
    BY SumOfNone
  <2>3. SizeAt(p)'
    BY <1>2, <2>1, <2>2 DEF SizeAt
  <2>4. ScanAt(p)'
    BY <1>2, <1>6, <2>1, <2>2 DEF ScanAt, Fair
  <2> QED
    BY <1>1, <1>2, <1>5, <1>3, <1>4, <2>3, <2>4, SizeFrame
<1>8. CASE pc'[p] \in {"look", "days", "count"}
  <2>1. RemovedFor(p, "size")' = {}
    BY <1>1, <1>8 DEF RotorAt, CountAt
  <2>2. SizeAt(p)'
    BY <1>6, <1>8, <2>1 DEF SizeAt
  <2>3. p \in scans => alive'[p] = snaps'[p]
    <3> SUFFICES ASSUME p \in scans PROVE alive'[p] = snaps'[p]
      OBVIOUS
    <3>1. alive[p] = snaps[p] /\ pc'[p] = "look"
      BY <1>1, <1>2, <1>8 DEF ScanAt, RotorAt, ListAt
    <3>2. List(p) \/ Look(p)
      BY <1>1, <3>1 DEF ListFails, StartDays, RemoveOld, KeepYoung, StartCount, RemoveExcess, Goto, TypeInv
    <3>3. CASE List(p)
      BY <3>1, <3>3 DEF List, local
    <3>4. CASE Look(p)
      BY <1>1, <3>1, <3>4 DEF Look, TypeInv
    <3> QED
      BY <3>2, <3>3, <3>4
  <2>4. ScanAt(p)'
    BY <1>2, <1>8, <2>3 DEF ScanAt
  <2> QED
    BY <1>1, <1>2, <1>5, <1>3, <1>4, <2>2, <2>4, SizeFrame
<1> QED
  BY <1>7, <1>8, <1>3

(* A step that moves on without removing anything.                         *)
LEMMA CalmSizes ==
  ASSUME NEW p \in Rotor, RotationInv, SizeInv, UNCHANGED <<inputs, disk, outcome, snaps, alive>>,
         \A q \in Rotor \ {p} :
             pc'[q] = pc[q] /\ todo'[q] = todo[q] /\ sizes'[q] = sizes[q] /\ totalKB'[q] = totalKB[q],
         sizes' \in [Rotor -> [Snap -> Nat]], totalKB' \in [Rotor -> Nat],
         SizeAt(p)', ScanAt(p)'
  PROVE  SizeInv'
<1>1. UNCHANGED <<dryRun, scans, size, ever, there, kb, done, victim, stuck, verdict, disturbed>>
  BY DEF inputs, disk, outcome
<1>2. SizesTyped' /\ DiskTyped' /\ \A s \in Snap : kb'[s] <= kb[s]
  BY <1>1 DEF SizesTyped, SizeInv, RotationInv, DiskTyped
<1> QED
  BY <1>1, <1>2, SizeFrame

LEMMA MeasuredSizes ==
  ASSUME NEW p \in Rotor, RotationInv, SizeInv, StartMeasure(p) \/ Measure(p) \/ StartSize(p) \/ SizeFits(p)
  PROVE  SizeInv'
<1>1. /\ TypeInv /\ SizesTyped /\ SizeAt(p) /\ ScanAt(p) /\ RotorAt(p) /\ cfg \in Config
      /\ alive[p] \in SUBSET Snap /\ sizes[p] \in [Snap -> Nat] /\ todo[p] \in SUBSET Snap
      /\ kb \in [Snap -> Nat]
  BY DEF RotationInv, SizeInv, TypeInv, SizesTyped, DiskTyped
<1>2. p \notin scans
  BY <1>1 DEF StartMeasure, Measure, StartSize, SizeFits, RotorAt, ListAt
<1>3. CASE StartMeasure(p)
  <2>1. /\ UNCHANGED <<inputs, disk, local, outcome>> /\ UNCHANGED <<cfg, scans, kb, alive, sizes, totalKB>>
        /\ todo'[p] = alive[p] /\ pc[p] = "count"
        /\ pc'[p] = IF cfg.sized THEN "measure" ELSE "end"
        /\ \A q \in Rotor \ {p} : pc'[q] = pc[q] /\ todo'[q] = todo[q]
        /\ \A w : RemovedFor(p, w)' = RemovedFor(p, w)
    BY <1>1, <1>3 DEF StartMeasure, Goto, Visit, TypeInv, inputs, disk, local, outcome, RemovedFor
  <2>2. totalKB[p] = 0 /\ RemovedFor(p, "size") = {} /\ Sum(sizes[p], {}) = 0 /\ alive[p] \ alive[p] = {}
    BY <1>1, <2>1, SumOfNone DEF SizeAt, RotorAt, CountAt
  <2>3. SizeAt(p)'
    BY <1>1, <2>1, <2>2 DEF SizeAt
  <2>4. ScanAt(p)'
    BY <1>2, <2>1 DEF ScanAt
  <2> QED
    BY <1>1, <2>1, <2>3, <2>4, CalmSizes DEF local, SizesTyped
<1>4. CASE Measure(p)
  <2> DEFINE s == First(p)
             found == kb[s]
             seen == alive[p] \ todo[p]
  <2>1. s \in todo[p] /\ s \in Snap /\ todo[p] \subseteq alive[p] /\ totalKB[p] = Sum(sizes[p], seen) /\ found \in Nat
    BY <1>1, <1>4, FirstIsFirst DEF Measure, SizeAt
  <2>2. /\ UNCHANGED <<inputs, disk, outcome, pc, snaps, alive>> /\ UNCHANGED <<cfg, scans, kb>>
        /\ pc[p] = "measure" /\ todo'[p] = todo[p] \ {s}
        /\ sizes' = [sizes EXCEPT ![p] = [sizes[p] EXCEPT ![s] = found]]
        /\ totalKB' = [totalKB EXCEPT ![p] = totalKB[p] + found]
        /\ \A q \in Rotor \ {p} : todo'[q] = todo[q]
        /\ \A w : RemovedFor(p, w)' = RemovedFor(p, w)
    BY <1>1, <1>4 DEF Measure, Visit, Rest, TypeInv, inputs, disk, outcome, RemovedFor
  <2> HIDE DEF s
  <2>3. /\ sizes'[p] \in [Snap -> Nat] /\ sizes'[p][s] = found /\ \A t \in Snap \ {s} : sizes'[p][t] = sizes[p][t]
        /\ totalKB'[p] = totalKB[p] + found /\ totalKB[p] \in Nat
        /\ sizes' \in [Rotor -> [Snap -> Nat]] /\ totalKB' \in [Rotor -> Nat]
        /\ \A q \in Rotor \ {p} : sizes'[q] = sizes[q] /\ totalKB'[q] = totalKB[q]
    BY <1>1, <2>1, <2>2 DEF SizesTyped
  <2>4. seen \in SUBSET Snap /\ seen \cup {s} \in SUBSET Snap /\ (seen \cup {s}) \ {s} = seen
        /\ alive[p] \ (todo[p] \ {s}) = seen \cup {s}
    BY <1>1, <2>1
  <2> HIDE DEF seen
  <2>5. Sum(sizes'[p], seen) = Sum(sizes[p], seen)
    <3>1. \A t \in seen : sizes'[p][t] = sizes[p][t]
      <4>1. s \notin seen
        BY <2>1 DEF seen
      <4> QED
        BY <2>3, <2>4, <4>1
    <3> QED
      BY <2>4, <3>1, SnapsAreFinite, SumsAlike
  <2>6. Sum(sizes'[p], seen \cup {s}) = found + Sum(sizes[p], seen)
    <3>1. Sum(sizes'[p], seen \cup {s}) = sizes'[p][s] + Sum(sizes'[p], (seen \cup {s}) \ {s})
      BY <2>3, <2>4, SnapSums
    <3> QED
      BY <2>3, <2>4, <2>5, <3>1
  <2>7. totalKB'[p] = Sum(sizes'[p], alive'[p] \ todo'[p]) /\ todo'[p] \subseteq alive'[p]
    <3>1. alive'[p] = alive[p] /\ Sum(sizes[p], seen) \in Nat
      BY <1>1, <2>2, <2>4, SnapSums
    <3>2. alive'[p] \ todo'[p] = seen \cup {s} /\ todo'[p] \subseteq alive'[p]
      BY <2>1, <2>2, <2>4, <3>1
    <3>3. totalKB'[p] = found + Sum(sizes[p], seen)
      BY <2>1, <2>3, <3>1
    <3> QED
      BY <2>6, <3>2, <3>3
  <2>8. RemovedFor(p, "size")' = {}
    BY <1>1, <2>2 DEF RotorAt, CountAt
  <2>9. \A t \in alive'[p] \ todo'[p] : kb'[t] <= sizes'[p][t]
    <3>1. \A t \in seen : kb[t] <= sizes[p][t]
      BY <1>1, <2>2 DEF SizeAt, seen
    <3>2. kb[s] <= sizes'[p][s]
      BY <1>1, <2>1, <2>3
    <3>3. alive'[p] \ todo'[p] = seen \cup {s}
      BY <2>2, <2>4
    <3>4. \A t \in seen : kb[t] <= sizes'[p][t]
      <4>1. s \notin seen
        BY <2>1 DEF seen
      <4> QED
        BY <2>3, <2>4, <3>1, <4>1
    <3> QED
      BY <2>2, <3>2, <3>3, <3>4
  <2>10. SizeAt(p)' /\ ScanAt(p)'
    BY <1>2, <2>2, <2>7, <2>8, <2>9 DEF SizeAt, ScanAt
  <2> QED
    BY <2>2, <2>3, <2>10, CalmSizes
<1>5. CASE StartSize(p)
  <2>1. /\ UNCHANGED <<inputs, disk, local, outcome>> /\ UNCHANGED <<cfg, scans, kb, alive, sizes, totalKB>>
        /\ todo'[p] = alive[p] /\ pc[p] = "measure" /\ todo[p] = {} /\ pc'[p] = "size"
        /\ \A q \in Rotor \ {p} : pc'[q] = pc[q] /\ todo'[q] = todo[q]
        /\ \A w : RemovedFor(p, w)' = RemovedFor(p, w)
    BY <1>1, <1>5 DEF StartSize, Goto, Visit, TypeInv, inputs, disk, local, outcome, RemovedFor
  <2>2. /\ totalKB[p] = Sum(sizes[p], alive[p]) /\ RemovedFor(p, "size") = {}
        /\ \A s \in alive[p] : kb[s] <= sizes[p][s]
    <3>1. alive[p] \ {} = alive[p]
      OBVIOUS
    <3> QED
      BY <1>1, <2>1, <3>1 DEF SizeAt, RotorAt, CountAt
  <2>3. SizeAt(p)' /\ ScanAt(p)'
    BY <1>2, <2>1, <2>2 DEF SizeAt, ScanAt
  <2> QED
    BY <1>1, <2>1, <2>3, CalmSizes DEF local, SizesTyped
<1>6. CASE SizeFits(p)
  <2>1. /\ UNCHANGED <<inputs, disk, local, outcome>> /\ UNCHANGED <<cfg, scans, kb, alive, sizes, totalKB>>
        /\ UNCHANGED todo /\ pc[p] = "size" /\ pc'[p] = "end" /\ ~TooBig(p)
        /\ \A q \in Rotor \ {p} : pc'[q] = pc[q]
        /\ \A w : RemovedFor(p, w)' = RemovedFor(p, w)
    BY <1>1, <1>6 DEF SizeFits, Goto, TypeInv, inputs, disk, local, outcome, RemovedFor
  <2>2. Sum(sizes[p], alive[p]) <= cfg.kbLimit
    <3>1. alive[p] \subseteq todo[p] /\ totalKB[p] = Sum(sizes[p], alive[p]) /\ cfg.kbLimit \in Nat
          /\ totalKB[p] \in Nat
      BY <1>1, <2>1 DEF SizeAt, Config, SizesTyped
    <3>2. CASE todo[p] = {}
      <4>1. alive[p] = {}
        BY <3>1, <3>2
      <4>2. Sum(sizes[p], alive[p]) = 0
        BY <4>1, SumOfNone
      <4> QED
        BY <3>1, <4>2
    <3>3. CASE todo[p] # {}
      BY <2>1, <3>1, <3>3 DEF TooBig
    <3> QED
      BY <3>2, <3>3
  <2>3. SizeAt(p)' /\ ScanAt(p)'
    BY <1>1, <1>2, <2>1, <2>2 DEF SizeAt, ScanAt
  <2> QED
    BY <1>1, <2>1, <2>3, CalmSizes DEF local, SizesTyped
<1> QED
  BY <1>3, <1>4, <1>5, <1>6

(* The total stays that of what is left, and was too much before.          *)
LEMMA BigSizes ==
  ASSUME NEW p \in Rotor, RotationInv, SizeInv, victim[p] = {}, RemoveBig(p) PROVE SizeInv'
<1> DEFINE big == RemovedFor(p, "size")
           w == sizes[p]
<1>1. /\ TypeInv /\ DiskTyped /\ SizesTyped /\ SizeAt(p) /\ ScanAt(p) /\ RotorAt(p) /\ cfg.kbLimit \in Nat
      /\ alive[p] \in SUBSET Snap /\ w \in [Snap -> Nat] /\ todo[p] \in SUBSET Snap
  BY DEF RotationInv, SizeInv, TypeInv, SizesTyped, Config
<1>2. /\ pc[p] = "size" /\ TooBig(p) /\ Remove(p, First(p), "size") /\ todo' = [todo EXCEPT ![p] = Rest(p)]
      /\ totalKB' = [totalKB EXCEPT ![p] = totalKB[p] - w[First(p)]]
      /\ UNCHANGED <<inputs, pc, snaps, toRemove, sizes>> /\ UNCHANGED <<cfg, dryRun, scans, size>>
  BY DEF RemoveBig, Visit, inputs
<1>3. PICK s : s = First(p)
  OBVIOUS
<1>4. /\ s \in alive[p] /\ s \in Snap /\ \A t \in alive[p] \ {s} : s < t
      /\ totalKB[p] = Sum(w, alive[p]) /\ totalKB[p] > cfg.kbLimit /\ p \notin scans
  <2>1. todo[p] # {} /\ todo[p] = alive[p]
    BY <1>1, <1>2 DEF TooBig, SizeAt, RotorAt, ListAt
  <2>2. s \in todo[p] /\ s \in Snap /\ \A t \in todo[p] \ {s} : s < t
    BY <1>1, <1>3, <2>1, FirstIsFirst DEF Rest
  <2> QED
    BY <1>1, <1>2, <2>1, <2>2 DEF TooBig, SizeAt, RotorAt, ListAt
<1>5. /\ UNCHANGED <<kb, disturbed>> /\ DiskTyped' /\ alive'[p] = alive[p] \ {s}
      /\ RemovedFor(p, "size")' = big \cup {s}
      /\ \A q \in Rotor \ {p} : alive'[q] = alive[q] /\ verdict'[q] = verdict[q]
  <2>1. \A q \in Rotor \ {p} : todo'[q] = todo[q] /\ toRemove'[q] = toRemove[q]
    BY <1>1, <1>2 DEF TypeInv
  <2>2. /\ Spares(p) /\ UNCHANGED <<kb, disturbed>> /\ DiskTyped' /\ alive'[p] = alive[p] \ {s}
        /\ RemovedFor(p, "size")' = big \cup {s}
    BY <1>1, <1>2, <1>3, <1>4, <2>1, RemoveEffect DEF RotorAt
  <2> QED
    BY <2>2 DEF Spares
<1>6. totalKB' \in [Rotor -> Nat] /\ totalKB'[p] = Sum(w, alive[p] \ {s})
      /\ \A q \in Rotor \ {p} : totalKB'[q] = totalKB[q]
  <2>1. Sum(w, alive[p] \ {s}) = Sum(w, alive[p]) - w[s] /\ Sum(w, alive[p] \ {s}) \in Nat
    <3>1. alive[p] \ {s} \in SUBSET Snap
      BY <1>1
    <3> QED
      BY <1>1, <1>4, <3>1, SnapSums
  <2>2. totalKB' = [totalKB EXCEPT ![p] = Sum(w, alive[p] \ {s})]
    BY <1>2, <1>3, <1>4, <2>1
  <2> QED
    BY <1>1, <2>1, <2>2 DEF SizesTyped
<1>7. Max(big \cup {s}) = s
  <2>1. big \in SUBSET Snap
    BY DEF RemovedFor
  <2>2. \A b \in big \cup {s} : b <= s
    BY <1>1, <1>4, <2>1 DEF SizeAt, Snap
  <2>3. big \cup {s} \in SUBSET Snap /\ s \in big \cup {s}
    BY <1>4, <2>1
  <2> HIDE DEF big
  <2> QED
    BY <2>2, <2>3, NewestIs
<1>8. SizeAt(p)'
  <2>1. alive'[p] \cup {s} = alive[p]
    BY <1>4, <1>5
  <2>2. Sum(sizes'[p], alive'[p] \cup {Max(RemovedFor(p, "size")')}) > cfg'.kbLimit
    BY <1>2, <1>4, <1>5, <1>7, <2>1
  <2>3. totalKB'[p] = Sum(sizes'[p], alive'[p])
    BY <1>2, <1>5, <1>6
  <2>4. \A b \in RemovedFor(p, "size")', t \in alive'[p] : b < t
    BY <1>1, <1>4, <1>5 DEF SizeAt
  <2>5. alive'[p] \subseteq todo'[p]
    <3>1. todo'[p] = todo[p] \ {s} /\ alive[p] \subseteq todo[p]
      BY <1>1, <1>2, <1>3 DEF Rest, TypeInv, SizeAt
    <3> QED
      BY <1>5, <3>1
  <2>6. \A t \in alive'[p] : cfg.sized => kb'[t] <= sizes'[p][t]
    BY <1>1, <1>2, <1>4, <1>5 DEF SizeAt
  <2> QED
    BY <1>2, <2>2, <2>3, <2>4, <2>5, <2>6 DEF SizeAt
<1>9. ScanAt(p)'
  BY <1>2, <1>4 DEF ScanAt
<1>10. SizesTyped'
  BY <1>1, <1>2, <1>5, <1>6 DEF SizesTyped
<1> QED
  <2>1. \A q \in Rotor \ {p} : todo'[q] = todo[q]
    BY <1>1, <1>2 DEF TypeInv
  <2>2. \A t \in Snap : kb'[t] <= kb[t]
    BY <1>1, <1>5 DEF DiskTyped
  <2> QED
    BY <1>2, <1>5, <1>6, <1>8, <1>9, <1>10, <2>1, <2>2, SizeFrame

LEMMA ScannedSizes ==
  ASSUME NEW p \in Rotor, RotationInv, SizeInv, StartScan(p) \/ Scan(p) \/ Stat(p) \/ EndScan(p)
  PROVE  SizeInv'
<1>1. /\ TypeInv /\ SizesTyped /\ SizeAt(p) /\ ScanAt(p) /\ RotorAt(p) /\ size \in [Snap -> Nat]
      /\ kb \in [Snap -> Nat] /\ done \subseteq there /\ (\A s \in Snap : kb[s] <= size[s])
      /\ snaps[p] \in SUBSET Snap /\ todo[p] \in SUBSET Snap
  BY DEF RotationInv, SizeInv, TypeInv, SizesTyped, DiskTyped
<1>2. /\ p \in scans /\ pc[p] \in {"look", "scan", "stat"}
      /\ UNCHANGED <<inputs, disk, outcome, snaps, alive, sizes>>
      /\ UNCHANGED <<cfg, scans, size, kb, done, verdict, disturbed>>
      /\ pc'[p] \in {"scan", "stat", "end", "failed"}
      /\ \A q \in Rotor \ {p} : pc'[q] = pc[q] /\ todo'[q] = todo[q] /\ totalKB'[q] = totalKB[q]
  <2> USE <1>1 DEF TypeInv, SizesTyped, Goto, Visit, inputs, disk, local, outcome, RotorAt, ListAt
  <2>1. CASE StartScan(p)
    BY <2>1 DEF StartScan
  <2>2. CASE Scan(p)
    BY <2>2 DEF Scan
  <2>3. CASE Stat(p)
    BY <2>3 DEF Stat
  <2>4. CASE EndScan(p)
    BY <2>4 DEF EndScan
  <2> QED
    BY <2>1, <2>2, <2>3, <2>4
<1>3. SizeAt(p)'
  <2>1. RemovedFor(p, "size")' = RemovedFor(p, "size")
    BY <1>2 DEF RemovedFor
  <2> QED
    BY <1>1, <1>2, <2>1 DEF SizeAt
<1>4. sizes' \in [Rotor -> [Snap -> Nat]]
  BY <1>1, <1>2 DEF SizesTyped
<1>5. CASE StartScan(p)
  <2>1. /\ UNCHANGED totalKB /\ totalKB[p] = 0 /\ todo'[p] = snaps[p] /\ pc'[p] = "scan"
        /\ snaps[p] \ snaps[p] = {} /\ Sum(size, {}) = 0 /\ Sum(kb, {}) = 0
    BY <1>1, <1>5, SumOfNone DEF StartScan, Visit, Goto, TypeInv, local, SizeAt
  <2>2. ScanAt(p)'
    BY <1>1, <1>2, <2>1 DEF ScanAt, Fair
  <2> QED
    BY <1>1, <1>2, <1>3, <1>4, <2>1, <2>2, CalmSizes DEF SizesTyped
<1>6. CASE Scan(p)
  <2> DEFINE s == First(p)
             seen == snaps[p] \ todo[p]
             more == snaps[p] \ Rest(p)
  <2>1. /\ pc[p] = "scan" /\ todo[p] # {} /\ pc'[p] = "stat" /\ UNCHANGED todo
        /\ totalKB' = [totalKB EXCEPT ![p] = totalKB[p] + kb[s]]
    BY <1>1, <1>6 DEF Scan, Goto, TypeInv
  <2>2. s \in todo[p] /\ s \in Snap /\ Rest(p) = todo[p] \ {s} /\ kb[s] \in Nat
    BY <1>1, <2>1, FirstIsFirst DEF Rest
  <2>3. totalKB' \in [Rotor -> Nat] /\ totalKB'[p] = totalKB[p] + kb[s] /\ totalKB[p] \in Nat
    BY <1>1, <2>1, <2>2 DEF SizesTyped
  <2>4. todo[p] \subseteq snaps[p] /\ Fair(p, seen) /\ alive[p] = snaps[p]
    BY <1>1, <1>2, <2>1 DEF ScanAt
  <2>5. First(p)' = s /\ Rest(p)' = Rest(p)
    BY <2>1 DEF First, Rest
  <2>6. more \in SUBSET Snap /\ s \in more /\ more \ {s} = seen
    BY <1>1, <2>2, <2>4
  <2>7. p \notin disturbed => kb[s] = size[s]
    BY <1>1, <2>1, <2>2, <2>4 DEF RotorAt, AgeAt
  <2> HIDE DEF s, seen, more
  <2>8. /\ Sum(size, more) = size[s] + Sum(size, seen) /\ Sum(kb, more) = kb[s] + Sum(kb, seen)
        /\ Sum(size, seen) \in Nat /\ Sum(kb, seen) \in Nat /\ size[s] \in Nat /\ kb[s] <= size[s]
    <3>1. seen \in SUBSET Snap
      BY <1>1 DEF seen
    <3> QED
      BY <1>1, <2>2, <2>6, <3>1, SnapSums
  <2>9. /\ Sum(kb, more) <= totalKB'[p] /\ totalKB'[p] <= Sum(size, more)
        /\ p \notin disturbed => totalKB'[p] = Sum(size, more)
    BY <2>2, <2>3, <2>4, <2>7, <2>8 DEF Fair
  <2>10. ScanAt(p)'
    BY <1>2, <2>1, <2>4, <2>5, <2>9 DEF ScanAt, Fair, more
  <2> QED
    BY <1>2, <1>3, <1>4, <2>3, <2>1, <2>10, CalmSizes
<1>7. CASE Stat(p)
  <2> DEFINE s == First(p)
  <2>1. /\ UNCHANGED totalKB /\ pc[p] = "stat" /\ todo[p] # {} /\ todo[p] \subseteq snaps[p] /\ alive[p] = snaps[p]
        /\ Fair(p, snaps[p] \ Rest(p))
        /\ IF s \in there THEN pc'[p] = "scan" /\ todo'[p] = Rest(p) ELSE pc'[p] = "failed"
    BY <1>1, <1>2, <1>7 DEF Stat, Goto, Visit, TypeInv, local, ScanAt
  <2>2. s \in todo[p] /\ Rest(p) \subseteq todo[p]
    BY <1>1, <2>1, FirstIsFirst DEF Rest
  <2>3. s \notin there => p \in disturbed
    <3>1. s \in alive[p]
      BY <2>1, <2>2
    <3> QED
      BY <1>1, <2>1, <3>1 DEF RotorAt, AgeAt
  <2>4. ScanAt(p)'
    <3> HIDE DEF s
    <3>1. CASE s \in there
      BY <1>2, <2>1, <2>2, <3>1 DEF ScanAt, Fair
    <3>2. CASE s \notin there
      BY <1>2, <2>1, <2>3, <3>2 DEF ScanAt
    <3> QED
      BY <3>1, <3>2
  <2> QED
    BY <1>1, <1>2, <1>3, <1>4, <2>1, <2>4, CalmSizes DEF SizesTyped
<1>8. CASE EndScan(p)
  <2>1. UNCHANGED totalKB /\ pc[p] = "scan" /\ todo[p] = {} /\ pc'[p] = "end" /\ snaps[p] \ {} = snaps[p]
    BY <1>1, <1>8 DEF EndScan, Goto, TypeInv, local
  <2>2. ScanAt(p)'
    BY <1>1, <1>2, <2>1 DEF ScanAt, Fair
  <2> QED
    BY <1>1, <1>2, <1>3, <1>4, <2>1, <2>2, CalmSizes DEF SizesTyped
<1> QED
  BY <1>5, <1>6, <1>7, <1>8

(* A snapshot that is finished is one that nobody has listed.              *)
LEMMA FinishSizes == ASSUME NEW s \in Snap, RotationInv, SizeInv, Finish(s) PROVE SizeInv'
<1>1. /\ s \notin ever /\ kb' = [kb EXCEPT ![s] = size[s]]
      /\ UNCHANGED <<cfg, dryRun, scans, size, pc, todo, snaps, alive, sizes, totalKB, verdict, disturbed>>
  BY DEF Finish, inputs, local, outcome
<1>2. SizesTyped'
  BY <1>1 DEF SizeInv, SizesTyped
<1>3. ASSUME NEW p \in Rotor PROVE SizeAt(p)' /\ ScanAt(p)'
  <2>1. /\ SizeAt(p) /\ ScanAt(p) /\ kb \in [Snap -> Nat] /\ snaps[p] \in SUBSET Snap
        /\ alive[p] \subseteq snaps[p] /\ snaps[p] \subseteq ever
    BY DEF SizeInv, RotationInv, TypeInv, DiskTyped, RotorAt, ListAt
  <2>2. RemovedFor(p, "size")' = RemovedFor(p, "size") /\ First(p)' = First(p) /\ Rest(p)' = Rest(p)
    BY <1>1 DEF RemovedFor, First, Rest
  <2>3. \A t \in snaps[p] : kb'[t] = kb[t]
    BY <1>1, <2>1
  <2>4. SizeAt(p)'
    BY <1>1, <2>1, <2>2, <2>3 DEF SizeAt
  <2>5. \A S \in SUBSET snaps[p] : Sum(kb', S) = Sum(kb, S)
    <3> SUFFICES ASSUME NEW S \in SUBSET snaps[p] PROVE Sum(kb', S) = Sum(kb, S)
      OBVIOUS
    <3>1. IsFiniteSet(S) /\ \A t \in S : kb'[t] = kb[t]
      BY <2>1, <2>3, SnapsAreFinite
    <3> QED
      BY <3>1, SumsAlike
  <2>6. ScanAt(p)'
    BY <1>1, <2>1, <2>2, <2>5 DEF ScanAt, Fair
  <2> QED
    BY <2>4, <2>6
<1> QED
  BY <1>2, <1>3 DEF SizeInv

LEMMA SizesInductive == ASSUME RotationInv, SizeInv, [Next]_vars PROVE SizeInv'
<1>1. ASSUME NEW p \in Rotor, victim[p] = {}, Rotate(p) PROVE SizeInv'
  BY <1>1, EarlySizes, MeasuredSizes, BigSizes, ScannedSizes DEF Rotate
<1>2. ASSUME NEW s \in Snap, Finish(s) PROVE SizeInv'
  BY <1>2, FinishSizes
<1>3. ASSUME NEW p \in Rotor, Removal(p) PROVE SizeInv'
  BY <1>3, RemovalSizes
<1>4. CASE UNCHANGED vars
  <2>1. UNCHANGED <<cfg, dryRun, scans, size, kb, pc, todo, snaps, alive, sizes, totalKB, verdict, disturbed>>
    BY <1>4 DEF vars, inputs, disk, local, outcome
  <2>2. SizesTyped'
    BY <2>1 DEF SizeInv, SizesTyped
  <2>3. ASSUME NEW p \in Rotor PROVE SizeAt(p)' /\ ScanAt(p)'
    <3>1. RemovedFor(p, "size")' = RemovedFor(p, "size") /\ First(p)' = First(p) /\ Rest(p)' = Rest(p)
      BY <2>1 DEF RemovedFor, First, Rest
    <3> QED
      BY <2>1, <3>1 DEF SizeInv, SizeAt, ScanAt, Fair
  <2> QED
    BY <2>2, <2>3 DEF SizeInv
<1> QED
  BY <1>1, <1>2, <1>3, <1>4 DEF Next, AllEnded

LEMMA SizeInvariant == Spec => []SizeInv
<1>1. RotationInv /\ SizeInv /\ [Next]_vars => SizeInv'
  BY SizesInductive
<1> QED
  BY <1>1, InitialSizes, RotationInvariant, PTL DEF Spec

(* Every variable keeps its type; a total never falls below zero.          *)
THEOREM RotationTypes == Spec => []TypeOK
<1>1. RotationInv /\ SizeInv => TypeOK
  BY DEF RotationInv, SizeInv, TypeInv, DiskTyped, SizesTyped, TypeOK
<1> QED
  BY <1>1, RotationInvariant, SizeInvariant, PTL

(* What is on disk, when a rotation ends, of the snapshots it has listed   *)
(* is within the limits of age, count and size, whatever others remove     *)
(* meanwhile, except for what it could not remove itself.                  *)
THEOREM LimitsAreKept == Spec => []LimitsHold
<1>1. RotationInv /\ SizeInv => LimitsHold
  <2> SUFFICES ASSUME RotationInv, SizeInv, NEW p \in Rotor \ (dryRun \cup scans), pc[p] = "end"
               PROVE  LET left == (snaps[p] \cap done) \ stuck[p]
                      IN  /\ cfg.keepDays > 0 => \A s \in left : age[s] <= cfg.keepDays
                          /\ cfg.keepCount > 0 => Cardinality(left) <= cfg.keepCount
                          /\ cfg.sized => MapThenSumSet(LAMBDA s : kb[s], left) <= cfg.kbLimit
    BY DEF LimitsHold
  <2> DEFINE left == (snaps[p] \cap done) \ stuck[p]
  <2>1. /\ RotorAt(p) /\ SizeAt(p) /\ cfg.keepCount \in Nat /\ cfg.kbLimit \in Nat /\ alive[p] \in SUBSET Snap
        /\ kb \in [Snap -> Nat] /\ sizes[p] \in [Snap -> Nat]
    BY DEF RotationInv, SizeInv, TypeInv, Config, DiskTyped, SizesTyped
  <2>2. left \in SUBSET alive[p] /\ left \in SUBSET Snap /\ left \subseteq done
    BY <2>1 DEF RotorAt, VictimAt
  <2>3. MapThenSumSet(LAMBDA s : kb[s], left) = Sum(kb, left)
    BY DEF Sum
  <2> HIDE DEF left
  <2>4. cfg.keepDays > 0 => \A s \in left : age[s] <= cfg.keepDays
    BY <2>1, <2>2 DEF RotorAt, AgeAt
  <2>5. cfg.keepCount > 0 => Cardinality(left) <= cfg.keepCount
    <3>1. Cardinality(left) <= Cardinality(alive[p]) /\ Cardinality(left) \in Nat /\ Cardinality(alive[p]) \in Nat
      BY <2>1, <2>2, FewerSnaps, SnapsAreFinite
    <3> QED
      BY <2>1, <3>1 DEF RotorAt, CountAt
  <2>6. cfg.sized => Sum(kb, left) <= cfg.kbLimit
    <3> SUFFICES ASSUME cfg.sized PROVE Sum(kb, left) <= cfg.kbLimit
      OBVIOUS
    <3>1. Sum(sizes[p], alive[p]) <= cfg.kbLimit /\ \A s \in alive[p] : kb[s] <= sizes[p][s]
      BY <2>1 DEF SizeAt
    <3>2. Sum(kb, alive[p]) <= Sum(sizes[p], alive[p]) /\ Sum(kb, alive[p]) \in Nat
          /\ Sum(sizes[p], alive[p]) \in Nat
      BY <2>1, <3>1, SnapSumsOrdered
    <3>3. Sum(kb, left) <= Sum(kb, alive[p]) /\ Sum(kb, left) \in Nat
      <4>1. IsFiniteSet(alive[p]) /\ \A s \in alive[p] : kb[s] \in Nat
        BY <2>1, SnapsAreFinite
      <4>2. Sum(kb, left) \in Nat
        BY <2>1, <2>2, SnapSums
      <4> QED
        BY <2>2, <4>1, <4>2, SumOfFewer
    <3> QED
      BY <2>1, <3>1, <3>2, <3>3
  <2> QED
    BY <2>3, <2>4, <2>5, <2>6 DEF left
<1> QED
  BY <1>1, RotationInvariant, SizeInvariant, PTL

(* No rotation removes more than the limits ask for: one snapshot less     *)
(* removed by count or by size would have been one too many.               *)
THEOREM NoneTooMany == Spec => []NoMoreThanNeeded
<1>1. RotationInv /\ SizeInv => NoMoreThanNeeded
  <2> SUFFICES ASSUME RotationInv, SizeInv, NEW p \in Rotor, pc[p] = "end"
               PROVE  LET counted == RemovedFor(p, "count")
                          big == RemovedFor(p, "size")
                      IN  /\ counted # {} => Cardinality(alive[p] \cup big) = cfg.keepCount
                          /\ big # {} => SumKB(p, alive[p] \cup {Max(big)}) > cfg.kbLimit
    BY DEF NoMoreThanNeeded
  <2>1. RotorAt(p) /\ SizeAt(p)
    BY DEF RotationInv, SizeInv
  <2>2. \A S : SumKB(p, S) = Sum(sizes[p], S)
    BY DEF SumKB, Sum
  <2> QED
    BY <2>1, <2>2 DEF RotorAt, CountAt, SizeAt
<1> QED
  BY <1>1, RotationInvariant, SizeInvariant, PTL

(* A scan reports at least what is on disk of what it lists and at most    *)
(* what was; unless a rotation took some of it apart, all of that, and it  *)
(* does not fail in the middle.                                            *)
THEOREM ScansAreWhole == Spec => []ScanIsWhole
<1>1. SizeInv => ScanIsWhole
  <2>1. \A S : /\ MapThenSumSet(LAMBDA s : size[s], S) = Sum(size, S)
               /\ MapThenSumSet(LAMBDA s : kb[s], S) = Sum(kb, S)
    BY DEF Sum
  <2>2. ASSUME SizeInv, NEW p \in scans PROVE p \in Rotor /\ ScanAt(p)
    BY <2>2 DEF SizeInv, SizesTyped
  <2> QED
    BY <2>1, <2>2 DEF ScanAt, Fair, ScanIsWhole
<1> QED
  BY <1>1, SizeInvariant, PTL

-----------------------------------------------------------------------------
(* What decides the removals of a rotation whose list nobody meddled with: *)
(* the ages; then the number of those that are left; then their sizes.     *)
TooAged(s) == cfg.keepDays > 0 /\ age[s] > cfg.keepDays
Uncounted(p) == alive[p] \cup RemovedFor(p, "size")

VerdictAt(p) ==
    /\ \A s \in Snap : verdict[p][s] = "none" \/ s \in snaps[p]
    /\ pc[p] \in {"list", "look"} => \A s \in Snap : verdict[p][s] = "none"
    /\ p \notin scans => alive[p] = {s \in snaps[p] : verdict[p][s] = "none"}

AgedAt(p) ==
    /\ pc[p] = "days" =>
          /\ todo[p] \subseteq snaps[p] /\ (cfg.keepDays = 0 => todo[p] = {})
          /\ \A s \in snaps[p] : verdict[p][s] = "age" <=> s \notin todo[p] /\ TooAged(s)
    /\ pc[p] \in {"count", "measure", "size", "end"} /\ p \notin scans =>
          \A s \in snaps[p] : verdict[p][s] = "age" <=> TooAged(s)

CountedAt(p) ==
    /\ \A c \in RemovedFor(p, "count"), s \in Uncounted(p) : c < s
    /\ cfg.keepCount = 0 => RemovedFor(p, "count") = {} /\ (pc[p] = "count" => toRemove[p] = 0)
    /\ pc[p] \in {"measure", "size", "end"} /\ p \notin scans /\ cfg.keepCount > 0 =>
          Cardinality(Uncounted(p)) <= cfg.keepCount

MeasuredAt(p) ==
    /\ pc[p] = "measure" => \A s \in alive[p] \ todo[p] : sizes[p][s] = size[s]
    /\ pc[p] \in {"size", "end"} /\ p \notin scans /\ cfg.sized =>
          \A s \in Uncounted(p) : sizes[p][s] = size[s]
    /\ ~cfg.sized => RemovedFor(p, "size") = {} /\ pc[p] \notin {"measure", "size"}

JudgedAt(p) == p \notin disturbed => VerdictAt(p) /\ AgedAt(p) /\ CountedAt(p) /\ MeasuredAt(p)
JudgeInv == \A p \in Rotor : JudgedAt(p)

LEMMA InitialJudgement == Init => JudgeInv
<1> SUFFICES ASSUME Init, NEW p \in Rotor PROVE JudgedAt(p)
  BY DEF JudgeInv
<1>1. /\ pc[p] = "list" /\ alive[p] = {} /\ snaps[p] = {} /\ \A s \in Snap : verdict[p][s] = "none"
      /\ RemovedFor(p, "size") = {} /\ RemovedFor(p, "count") = {}
  BY DEF Init, RemovedFor
<1> QED
  BY <1>1 DEF JudgedAt, VerdictAt, AgedAt, CountedAt, MeasuredAt

LEMMA JudgeFrame ==
  ASSUME NEW p \in Rotor, JudgeInv, UNCHANGED inputs, disturbed \subseteq disturbed',
         \A q \in Rotor \ {p} :
             /\ pc'[q] = pc[q] /\ todo'[q] = todo[q] /\ snaps'[q] = snaps[q] /\ alive'[q] = alive[q]
             /\ sizes'[q] = sizes[q] /\ toRemove'[q] = toRemove[q] /\ verdict'[q] = verdict[q],
         JudgedAt(p)'
  PROVE  JudgeInv'
<1>1. ASSUME NEW q \in Rotor, q # p PROVE JudgedAt(q)'
  <2>1. /\ pc'[q] = pc[q] /\ todo'[q] = todo[q] /\ snaps'[q] = snaps[q] /\ alive'[q] = alive[q]
        /\ sizes'[q] = sizes[q] /\ toRemove'[q] = toRemove[q] /\ verdict'[q] = verdict[q]
        /\ UNCHANGED <<cfg, scans, age, size>>
    BY <1>1 DEF inputs
  <2>2. /\ \A w : RemovedFor(q, w)' = RemovedFor(q, w)
        /\ \A t : TooAged(t)' = TooAged(t)
    BY <2>1 DEF RemovedFor, TooAged
  <2>3. Uncounted(q)' = Uncounted(q)
    BY <2>1, <2>2 DEF Uncounted
  <2> SUFFICES ASSUME q \notin disturbed' PROVE (VerdictAt(q) /\ AgedAt(q) /\ CountedAt(q) /\ MeasuredAt(q))'
    BY DEF JudgedAt
  <2>4. VerdictAt(q) /\ AgedAt(q) /\ CountedAt(q) /\ MeasuredAt(q)
    BY DEF JudgeInv, JudgedAt
  <2>5. VerdictAt(q)'
    BY <2>1, <2>4 DEF VerdictAt
  <2>6. AgedAt(q)'
    BY <2>1, <2>2, <2>4 DEF AgedAt
  <2>7. CountedAt(q)'
    BY <2>1, <2>2, <2>3, <2>4 DEF CountedAt
  <2>8. MeasuredAt(q)'
    BY <2>1, <2>2, <2>3, <2>4 DEF MeasuredAt
  <2> QED
    BY <2>5, <2>6, <2>7, <2>8
<1> QED
  BY <1>1 DEF JudgeInv

(* A step that neither lists nor removes leaves what has been decided.     *)
LEMMA CalmJudgement ==
  ASSUME NEW p \in Rotor, JudgeInv, UNCHANGED <<inputs, disk, outcome, snaps, alive>>,
         \A q \in Rotor \ {p} :
             pc'[q] = pc[q] /\ todo'[q] = todo[q] /\ sizes'[q] = sizes[q] /\ toRemove'[q] = toRemove[q],
         p \notin disturbed /\ VerdictAt(p) /\ AgedAt(p) /\ CountedAt(p) /\ MeasuredAt(p) =>
             VerdictAt(p)' /\ AgedAt(p)' /\ CountedAt(p)' /\ MeasuredAt(p)'
  PROVE  JudgeInv'
<1>1. UNCHANGED <<verdict, disturbed>>
  BY DEF outcome
<1>2. JudgedAt(p)'
  BY <1>1 DEF JudgeInv, JudgedAt
<1> QED
  BY <1>1, <1>2, JudgeFrame

LEMMA SameJudgement ==
  ASSUME NEW p \in Rotor, UNCHANGED <<inputs, snaps, alive, verdict>>
  PROVE  /\ UNCHANGED <<cfg, scans, age, size, snaps, alive, verdict>>
         /\ \A w : RemovedFor(p, w)' = RemovedFor(p, w)
         /\ \A t : TooAged(t)' = TooAged(t)
         /\ Uncounted(p)' = Uncounted(p)
<1>1. \A w : RemovedFor(p, w)' = RemovedFor(p, w)
  BY DEF RemovedFor
<1> QED
  BY <1>1 DEF inputs, TooAged, Uncounted

LEMMA ListJudgement ==
  ASSUME NEW p \in Rotor, RotationInv, SizeInv, JudgeInv, List(p) \/ ListFails(p)
  PROVE  JudgeInv'
<1>1. /\ TypeInv /\ RotorAt(p) /\ ScanAt(p) /\ pc[p] = "list"
      /\ UNCHANGED <<inputs, disk, outcome, snaps, alive, verdict, sizes, toRemove>>
      /\ pc'[p] \in {"look", "end", "failed"}
      /\ \A q \in Rotor \ {p} : pc'[q] = pc[q] /\ todo'[q] = todo[q]
  BY DEF RotationInv, SizeInv, List, ListFails, Goto, Visit, TypeInv, inputs, disk, local, outcome
<1>2. /\ snaps'[p] = {} /\ alive'[p] = {} /\ RemovedFor(p, "count")' = {} /\ RemovedFor(p, "size")' = {}
      /\ UNCHANGED <<cfg, scans, age, size, snaps, alive, verdict>>
  BY <1>1, SameJudgement DEF RotorAt, ListAt, CountAt, ScanAt
<1>3. Uncounted(p)' = {} /\ Cardinality({}) = 0 /\ cfg.keepCount \in Nat
  BY <1>1, <1>2, FS_EmptySet DEF Uncounted, TypeInv, Config
<1>4. ASSUME p \notin disturbed, VerdictAt(p), AgedAt(p), CountedAt(p), MeasuredAt(p)
      PROVE  VerdictAt(p)' /\ AgedAt(p)' /\ CountedAt(p)' /\ MeasuredAt(p)'
  BY <1>1, <1>2, <1>3, <1>4 DEF VerdictAt, AgedAt, CountedAt, MeasuredAt
<1> QED
  BY <1>1, <1>4, CalmJudgement

LEMMA LookJudgement ==
  ASSUME NEW p \in Rotor, RotationInv, SizeInv, JudgeInv, Look(p) PROVE JudgeInv'
<1>1. /\ TypeInv /\ RotorAt(p) /\ ScanAt(p) /\ pc[p] = "look"
      /\ UNCHANGED <<inputs, pc, verdict, sizes, toRemove>> /\ UNCHANGED <<cfg, scans>>
      /\ disturbed \subseteq disturbed'
      /\ snaps'[p] = snaps[p] \cup (done \cap {First(p)}) /\ alive'[p] = alive[p] \cup (done \cap {First(p)})
      /\ \A q \in Rotor \ {p} : todo'[q] = todo[q] /\ snaps'[q] = snaps[q] /\ alive'[q] = alive[q]
  BY DEF RotationInv, SizeInv, Look, Visit, TypeInv, inputs, disk
<1>2. snaps'[p] \in SUBSET Snap
  BY <1>1 DEF TypeInv
<1>3. RemovedFor(p, "count")' = {} /\ RemovedFor(p, "size")' = {}
  BY <1>1 DEF RotorAt, CountAt, RemovedFor
<1>4. ASSUME p \notin disturbed, VerdictAt(p), CountedAt(p)
      PROVE  VerdictAt(p)' /\ AgedAt(p)' /\ CountedAt(p)' /\ MeasuredAt(p)'
  <2>1. (\A s \in Snap : verdict[p][s] = "none") /\ (p \notin scans => alive[p] = {s \in snaps[p] : verdict[p][s] = "none"})
    BY <1>1, <1>4 DEF VerdictAt
  <2>2. VerdictAt(p)'
    <3>1. p \notin scans => alive'[p] = {s \in snaps'[p] : verdict'[p][s] = "none"}
      BY <1>1, <1>2, <2>1 DEF TypeInv
    <3> QED
      BY <1>1, <2>1, <3>1 DEF VerdictAt
  <2> QED
    BY <1>1, <1>3, <2>2 DEF AgedAt, CountedAt, MeasuredAt
<1>5. JudgedAt(p)'
  BY <1>1, <1>4 DEF JudgeInv, JudgedAt
<1> QED
  BY <1>1, <1>5, JudgeFrame

LEMMA DaysJudgement ==
  ASSUME NEW p \in Rotor, RotationInv, SizeInv, JudgeInv, StartDays(p) \/ KeepYoung(p) PROVE JudgeInv'
<1>1. /\ TypeInv /\ RotorAt(p) /\ pc[p] \in {"look", "days"} /\ pc'[p] = "days" /\ p \notin scans
      /\ UNCHANGED <<inputs, disk, outcome, snaps, alive, verdict, sizes, toRemove>>
      /\ \A q \in Rotor \ {p} : pc'[q] = pc[q] /\ todo'[q] = todo[q]
  BY DEF RotationInv, RotorAt, ListAt, StartDays, KeepYoung, Goto, Visit, TypeInv, inputs, disk, local, outcome
<1>2. /\ RemovedFor(p, "count") = {} /\ RemovedFor(p, "size") = {}
      /\ UNCHANGED <<cfg, scans, age, size, snaps, alive, verdict>>
      /\ \A w : RemovedFor(p, w)' = RemovedFor(p, w)
      /\ \A t : TooAged(t)' = TooAged(t)
  BY <1>1, SameJudgement DEF RotorAt, CountAt
<1>3. /\ snaps[p] \in SUBSET Snap /\ verdict[p] \in [Snap -> {"none", "age", "count", "size"}]
      /\ cfg.keepDays \in Nat
  BY <1>1 DEF TypeInv, Config
<1>4. ASSUME p \notin disturbed, VerdictAt(p), AgedAt(p), CountedAt(p), MeasuredAt(p)
      PROVE  VerdictAt(p)' /\ AgedAt(p)' /\ CountedAt(p)' /\ MeasuredAt(p)'
  <2>1. VerdictAt(p)' /\ CountedAt(p)' /\ MeasuredAt(p)'
    BY <1>1, <1>2, <1>4 DEF VerdictAt, CountedAt, MeasuredAt
  <2>2. CASE StartDays(p)
    <3>1. pc[p] = "look" /\ todo'[p] = IF cfg.keepDays > 0 THEN snaps[p] ELSE {}
      BY <1>1, <2>2 DEF StartDays, Visit, TypeInv
    <3>2. \A s \in snaps[p] : verdict[p][s] = "none"
      BY <1>3, <1>4, <3>1 DEF VerdictAt
    <3>3. todo'[p] \subseteq snaps[p] /\ (cfg.keepDays = 0 => todo'[p] = {})
      BY <1>3, <3>1
    <3>4. \A s \in snaps[p] : ~(s \notin todo'[p] /\ TooAged(s))
      BY <3>1 DEF TooAged
    <3> QED
      BY <1>1, <1>2, <2>1, <3>2, <3>3, <3>4 DEF AgedAt
  <2>3. CASE KeepYoung(p)
    <3> DEFINE s == First(p)
    <3>1. pc[p] = "days" /\ todo[p] # {} /\ todo'[p] = Rest(p) /\ ~TooOld(s)
      BY <1>1, <2>3 DEF KeepYoung, Visit, TypeInv
    <3>2. s \in todo[p] /\ Rest(p) = todo[p] \ {s} /\ todo[p] \subseteq snaps[p]
      BY <1>1, <1>4, <3>1, FirstIsFirst DEF Rest, AgedAt
    <3> HIDE DEF s
    <3>3. verdict[p][s] = "none"
      BY <1>2, <1>3, <1>4, <3>1, <3>2 DEF AgedAt, RemovedFor
    <3>4. s \in done
      BY <1>1, <1>4, <3>1, <3>2, <3>3 DEF VerdictAt, RotorAt, AgeAt
    <3>5. ~TooAged(s)
      BY <3>1, <3>4 DEF TooOld, TooAged
    <3>6. \A t \in snaps[p] : verdict[p][t] = "age" <=> t \notin todo'[p] /\ TooAged(t)
      BY <1>4, <3>1, <3>2, <3>3, <3>5 DEF AgedAt
    <3> QED
      BY <1>1, <1>2, <1>4, <2>1, <3>1, <3>2, <3>6 DEF AgedAt
  <2> QED
    BY <2>2, <2>3
<1> QED
  BY <1>1, <1>4, CalmJudgement

(* What a removal does to the judgement of the rotation that makes it.     *)
LEMMA RemoveJudgement ==
  ASSUME TypeInv, NEW p \in Rotor, NEW s \in Snap, NEW why \in {"age", "count", "size"}, Remove(p, s, why),
         UNCHANGED <<inputs, pc, snaps>>, VerdictAt(p), p \notin scans, s \in alive[p],
         pc[p] \in {"days", "count", "size"}
  PROVE  /\ VerdictAt(p)' /\ verdict'[p][s] = why /\ verdict[p][s] = "none" /\ s \in snaps[p]
         /\ \A t \in Snap \ {s} : verdict'[p][t] = verdict[p][t]
<1>1. /\ verdict'[p][s] = why /\ \A t \in Snap \ {s} : verdict'[p][t] = verdict[p][t]
  BY DEF Remove, TypeInv
<1>2. alive'[p] = alive[p] \ {s} /\ UNCHANGED scans
  BY DEF Remove, TypeInv, inputs
<1>3. alive[p] = {t \in snaps[p] : verdict[p][t] = "none"} /\ snaps[p] \in SUBSET Snap
  BY DEF VerdictAt, TypeInv
<1>4. s \in snaps[p] /\ verdict[p][s] = "none"
  BY <1>3
<1>5. alive'[p] = {t \in snaps'[p] : verdict'[p][t] = "none"}
  BY <1>1, <1>2, <1>3, <1>4
<1>6. VerdictAt(p)'
  BY <1>1, <1>2, <1>4, <1>5 DEF VerdictAt
<1> QED
  BY <1>1, <1>4, <1>6

LEMMA OldJudgement ==
  ASSUME NEW p \in Rotor, RotationInv, SizeInv, JudgeInv, victim[p] = {}, RemoveOld(p) PROVE JudgeInv'
<1> DEFINE s == First(p)
<1>1. /\ TypeInv /\ DiskTyped /\ VictimAt(p) /\ RotorAt(p) /\ pc[p] = "days" /\ todo[p] # {} /\ TooOld(s) /\ Remove(p, s, "age")
      /\ UNCHANGED <<inputs, pc, snaps, sizes, toRemove>> /\ UNCHANGED <<cfg, scans, age, size>>
      /\ todo'[p] = Rest(p) /\ p \notin scans /\ \A q \in Rotor \ {p} : todo'[q] = todo[q]
  BY DEF RemoveOld, Visit, RotationInv, TypeInv, inputs, RotorAt, ListAt
<1>2. s \in todo[p] /\ s \in Snap /\ Rest(p) = todo[p] \ {s}
  BY <1>1, FirstIsFirst DEF Rest
<1> HIDE DEF s
<1>3. /\ Spares(p) /\ RemovedFor(p, "count")' = {} /\ RemovedFor(p, "size")' = {}
      /\ RemovedFor(p, "count") = {} /\ RemovedFor(p, "size") = {} /\ UNCHANGED disturbed
  <2>1. RemovedFor(p, "count") = {} /\ RemovedFor(p, "size") = {}
    BY <1>1 DEF RotorAt, CountAt
  <2>2. /\ Spares(p) /\ UNCHANGED disturbed
        /\ \A w : w # "age" => RemovedFor(p, w)' = RemovedFor(p, w) \ {s}
    BY <1>1, <1>2, RemoveEffect
  <2> QED
    BY <2>1, <2>2
<1>4. ASSUME p \notin disturbed, VerdictAt(p), AgedAt(p), CountedAt(p), MeasuredAt(p)
      PROVE  VerdictAt(p)' /\ AgedAt(p)' /\ CountedAt(p)' /\ MeasuredAt(p)'
  <2>1. todo[p] \subseteq snaps[p] /\ snaps[p] \in SUBSET Snap /\ cfg.keepDays \in Nat /\ cfg.keepDays # 0
        /\ verdict[p] \in [Snap -> {"none", "age", "count", "size"}]
    BY <1>1, <1>4 DEF AgedAt, TypeInv, Config
  <2>2. s \in alive[p]
    BY <1>1, <1>2, <1>3, <1>4, <2>1 DEF AgedAt, VerdictAt, RemovedFor
  <2>3. VerdictAt(p)' /\ verdict'[p][s] = "age" /\ \A t \in Snap \ {s} : verdict'[p][t] = verdict[p][t]
    BY <1>1, <1>2, <1>4, <2>2, RemoveJudgement
  <2>4. \A t : TooAged(t)' = TooAged(t)
    BY <1>1 DEF TooAged
  <2>5. TooAged(s)
    BY <1>1, <2>1 DEF TooOld, TooAged
  <2>6. \A t \in snaps[p] : verdict'[p][t] = "age" <=> t \notin todo'[p] /\ TooAged(t)
    BY <1>1, <1>2, <1>4, <2>1, <2>3, <2>5 DEF AgedAt
  <2>7. AgedAt(p)'
    BY <1>1, <1>2, <2>1, <2>4, <2>6 DEF AgedAt
  <2>8. CountedAt(p)' /\ MeasuredAt(p)'
    BY <1>1, <1>3, <1>4 DEF CountedAt, MeasuredAt
  <2> QED
    BY <2>3, <2>7, <2>8
<1>5. JudgedAt(p)'
  BY <1>3, <1>4 DEF JudgeInv, JudgedAt, Spares
<1> QED
  <2>1. \A q \in Rotor \ {p} :
            /\ pc'[q] = pc[q] /\ todo'[q] = todo[q] /\ snaps'[q] = snaps[q] /\ alive'[q] = alive[q]
            /\ sizes'[q] = sizes[q] /\ toRemove'[q] = toRemove[q] /\ verdict'[q] = verdict[q]
    BY <1>1, <1>3 DEF Spares
  <2> QED
    BY <1>1, <1>3, <1>5, <2>1, JudgeFrame DEF Spares

LEMMA CountJudgement ==
  ASSUME NEW p \in Rotor, RotationInv, SizeInv, JudgeInv, StartCount(p) PROVE JudgeInv'
<1>1. /\ TypeInv /\ RotorAt(p) /\ pc[p] = "days" /\ pc'[p] = "count" /\ p \notin scans /\ todo[p] = {}
      /\ UNCHANGED <<inputs, disk, outcome, snaps, alive, verdict, sizes>>
      /\ cfg.keepCount = 0 => toRemove'[p] = 0
      /\ \A q \in Rotor \ {p} : pc'[q] = pc[q] /\ todo'[q] = todo[q] /\ toRemove'[q] = toRemove[q]
  BY DEF RotationInv, RotorAt, ListAt, StartCount, Goto, Visit, TypeInv, inputs, disk, local, outcome
<1>2. /\ RemovedFor(p, "count")' = {} /\ RemovedFor(p, "size")' = {}
      /\ UNCHANGED <<cfg, scans, age, size, snaps, alive, verdict>>
      /\ \A t : TooAged(t)' = TooAged(t)
  BY <1>1, SameJudgement DEF RotorAt, CountAt
<1>3. ASSUME p \notin disturbed, VerdictAt(p), AgedAt(p), CountedAt(p), MeasuredAt(p)
      PROVE  VerdictAt(p)' /\ AgedAt(p)' /\ CountedAt(p)' /\ MeasuredAt(p)'
  <2>1. VerdictAt(p)' /\ CountedAt(p)' /\ MeasuredAt(p)'
    BY <1>1, <1>2, <1>3 DEF VerdictAt, CountedAt, MeasuredAt
  <2>2. AgedAt(p)'
    BY <1>1, <1>2, <1>3 DEF AgedAt
  <2> QED
    BY <2>1, <2>2
<1> QED
  BY <1>1, <1>3, CalmJudgement

LEMMA ExcessJudgement ==
  ASSUME NEW p \in Rotor, RotationInv, SizeInv, JudgeInv, victim[p] = {}, RemoveExcess(p) PROVE JudgeInv'
<1> DEFINE s == First(p)
<1>1. /\ TypeInv /\ DiskTyped /\ VictimAt(p) /\ RotorAt(p) /\ pc[p] = "count" /\ toRemove[p] > 0 /\ Remove(p, s, "count")
      /\ UNCHANGED <<inputs, pc, snaps, sizes>> /\ UNCHANGED <<cfg, scans, age, size>>
      /\ p \notin scans
      /\ \A q \in Rotor \ {p} : todo'[q] = todo[q] /\ toRemove'[q] = toRemove[q]
  BY DEF RemoveExcess, Visit, RotationInv, TypeInv, inputs, RotorAt, ListAt
<1>2. s \in alive[p] /\ s \in Snap /\ \A t \in alive[p] \ {s} : s < t
  <2>1. todo[p] = alive[p] /\ alive[p] \in SUBSET Snap /\ cfg.keepCount \in Nat /\ toRemove[p] \in Nat
        /\ Cardinality(alive[p]) = cfg.keepCount + toRemove[p]
    BY <1>1 DEF RotorAt, ListAt, CountAt, TypeInv, Config
  <2>2. Cardinality({}) = 0 /\ Cardinality(alive[p]) # 0
    BY <1>1, <2>1, FS_EmptySet
  <2>3. todo[p] # {}
    BY <2>1, <2>2
  <2> QED
    BY <1>1, <2>1, <2>3, FirstIsFirst DEF Rest
<1> HIDE DEF s
<1>3. /\ Spares(p) /\ RemovedFor(p, "count")' = RemovedFor(p, "count") \cup {s} /\ RemovedFor(p, "size")' = {}
      /\ RemovedFor(p, "size") = {} /\ UNCHANGED disturbed /\ alive'[p] = alive[p] \ {s}
  <2>1. RemovedFor(p, "size") = {}
    BY <1>1 DEF RotorAt, CountAt
  <2>2. /\ Spares(p) /\ UNCHANGED disturbed /\ alive'[p] = alive[p] \ {s}
        /\ RemovedFor(p, "count")' = RemovedFor(p, "count") \cup {s}
        /\ \A w : w # "count" => RemovedFor(p, w)' = RemovedFor(p, w) \ {s}
    BY <1>1, <1>2, RemoveEffect
  <2> QED
    BY <2>1, <2>2
<1>4. ASSUME p \notin disturbed, VerdictAt(p), AgedAt(p), CountedAt(p), MeasuredAt(p)
      PROVE  VerdictAt(p)' /\ AgedAt(p)' /\ CountedAt(p)' /\ MeasuredAt(p)'
  <2>1. /\ VerdictAt(p)' /\ verdict'[p][s] = "count" /\ verdict[p][s] = "none" /\ s \in snaps[p]
        /\ \A t \in Snap \ {s} : verdict'[p][t] = verdict[p][t]
    BY <1>1, <1>2, <1>4, RemoveJudgement
  <2>2. \A t : TooAged(t)' = TooAged(t)
    BY <1>1 DEF TooAged
  <2>3. AgedAt(p)'
    <3>1. snaps[p] \in SUBSET Snap /\ \A t \in snaps[p] : verdict[p][t] = "age" <=> TooAged(t)
      BY <1>1, <1>4 DEF AgedAt, TypeInv
    <3> QED
      BY <1>1, <2>1, <2>2, <3>1 DEF AgedAt
  <2>4. Uncounted(p) = alive[p] /\ Uncounted(p)' = alive[p] \ {s}
    BY <1>3 DEF Uncounted
  <2>5. \A c \in RemovedFor(p, "count")', t \in Uncounted(p)' : c < t
    BY <1>2, <1>3, <1>4, <2>4 DEF CountedAt
  <2>6. cfg.keepCount # 0
    BY <1>1, <1>4 DEF CountedAt
  <2>7. CountedAt(p)'
    BY <1>1, <2>5, <2>6 DEF CountedAt
  <2>8. MeasuredAt(p)'
    BY <1>1, <1>3, <1>4 DEF MeasuredAt
  <2> QED
    BY <2>1, <2>3, <2>7, <2>8
<1>5. JudgedAt(p)'
  BY <1>3, <1>4 DEF JudgeInv, JudgedAt, Spares
<1> QED
  <2>1. \A q \in Rotor \ {p} :
            /\ pc'[q] = pc[q] /\ todo'[q] = todo[q] /\ snaps'[q] = snaps[q] /\ alive'[q] = alive[q]
            /\ sizes'[q] = sizes[q] /\ toRemove'[q] = toRemove[q] /\ verdict'[q] = verdict[q]
    BY <1>1, <1>3 DEF Spares
  <2> QED
    BY <1>1, <1>3, <1>5, <2>1, JudgeFrame DEF Spares

LEMMA MeasureJudgement ==
  ASSUME NEW p \in Rotor, RotationInv, SizeInv, JudgeInv,
         StartMeasure(p) \/ Measure(p) \/ StartSize(p) \/ SizeFits(p)
  PROVE  JudgeInv'
<1>1. /\ TypeInv /\ RotorAt(p) /\ DiskTyped /\ SizesTyped /\ SizeAt(p) /\ p \notin scans
      /\ UNCHANGED <<inputs, disk, outcome, snaps, alive, verdict, toRemove>>
      /\ \A q \in Rotor \ {p} : pc'[q] = pc[q] /\ todo'[q] = todo[q] /\ sizes'[q] = sizes[q]
  <2> USE DEF Goto, Visit, RotationInv, SizeInv, SizesTyped, TypeInv, inputs, disk, local, outcome, RotorAt, ListAt
  <2>1. CASE StartMeasure(p)
    BY <2>1 DEF StartMeasure
  <2>2. CASE Measure(p)
    BY <2>2 DEF Measure
  <2>3. CASE StartSize(p)
    BY <2>3 DEF StartSize
  <2>4. CASE SizeFits(p)
    BY <2>4 DEF SizeFits
  <2> QED
    BY <2>1, <2>2, <2>3, <2>4
<1>2. /\ UNCHANGED <<cfg, scans, age, size, snaps, alive, verdict>>
      /\ \A w : RemovedFor(p, w)' = RemovedFor(p, w)
      /\ \A t : TooAged(t)' = TooAged(t)
      /\ Uncounted(p)' = Uncounted(p)
  BY <1>1, SameJudgement
<1>3. CASE StartMeasure(p)
  <2>1. /\ pc[p] = "count" /\ toRemove[p] = 0 /\ UNCHANGED sizes /\ todo'[p] = alive[p]
        /\ pc'[p] = IF cfg.sized THEN "measure" ELSE "end"
    BY <1>1, <1>3 DEF StartMeasure, Goto, Visit, TypeInv, local
  <2>2. ASSUME p \notin disturbed, VerdictAt(p), AgedAt(p), CountedAt(p), MeasuredAt(p)
        PROVE  VerdictAt(p)' /\ AgedAt(p)' /\ CountedAt(p)' /\ MeasuredAt(p)'
    <3>1. RemovedFor(p, "size") = {} /\ Uncounted(p) = alive[p]
      BY <1>1, <2>1 DEF RotorAt, CountAt, Uncounted
    <3>2. cfg.keepCount > 0 => Cardinality(alive[p]) <= cfg.keepCount
      <4>1. cfg.keepCount \in Nat
        BY <1>1 DEF TypeInv, Config
      <4> QED
        BY <1>1, <2>1, <4>1 DEF RotorAt, CountAt
    <3>3. VerdictAt(p)' /\ AgedAt(p)'
      BY <1>1, <1>2, <2>1, <2>2 DEF VerdictAt, AgedAt
    <3>4. CountedAt(p)'
      BY <1>1, <1>2, <2>1, <2>2, <3>1, <3>2 DEF CountedAt
    <3>5. MeasuredAt(p)'
      BY <1>1, <1>2, <2>1, <2>2, <3>1 DEF MeasuredAt
    <3> QED
      BY <3>3, <3>4, <3>5
  <2> QED
    BY <1>1, <2>2, CalmJudgement
<1>4. CASE Measure(p)
  <2> DEFINE s == First(p)
  <2>1. /\ pc[p] = "measure" /\ todo[p] # {} /\ UNCHANGED pc /\ todo'[p] = Rest(p)
        /\ sizes' = [sizes EXCEPT ![p][s] = kb[s]]
    BY <1>1, <1>4 DEF Measure, Visit, TypeInv
  <2>2. s \in todo[p] /\ s \in Snap /\ Rest(p) = todo[p] \ {s} /\ todo[p] \subseteq alive[p]
    BY <1>1, <2>1, FirstIsFirst DEF Rest, SizeAt
  <2> HIDE DEF s
  <2>3. sizes'[p][s] = kb[s] /\ \A t \in Snap \ {s} : sizes'[p][t] = sizes[p][t]
    BY <1>1, <2>1, <2>2 DEF SizesTyped
  <2>4. ASSUME p \notin disturbed, VerdictAt(p), AgedAt(p), CountedAt(p), MeasuredAt(p)
        PROVE  VerdictAt(p)' /\ AgedAt(p)' /\ CountedAt(p)' /\ MeasuredAt(p)'
    <3>1. kb[s] = size[s]
      BY <1>1, <2>1, <2>2, <2>4 DEF RotorAt, AgeAt
    <3>2. \A t \in alive[p] \ todo'[p] : sizes'[p][t] = size[t]
      <4>1. alive[p] \in SUBSET Snap /\ \A t \in alive[p] \ todo[p] : sizes[p][t] = size[t]
        BY <1>1, <2>1, <2>4 DEF TypeInv, MeasuredAt
      <4> QED
        BY <2>1, <2>2, <2>3, <3>1, <4>1
    <3>3. VerdictAt(p)' /\ AgedAt(p)' /\ CountedAt(p)'
      BY <1>1, <1>2, <2>1, <2>4 DEF VerdictAt, AgedAt, CountedAt
    <3>4. MeasuredAt(p)'
      BY <1>2, <2>1, <2>4, <3>2 DEF MeasuredAt
    <3> QED
      BY <3>3, <3>4
  <2> QED
    BY <1>1, <2>4, CalmJudgement
<1>5. CASE StartSize(p) \/ SizeFits(p)
  <2>1. /\ UNCHANGED sizes
        /\ \/ pc[p] = "measure" /\ pc'[p] = "size" /\ todo[p] = {}
           \/ pc[p] = "size" /\ pc'[p] = "end"
    BY <1>1, <1>5 DEF StartSize, SizeFits, Goto, TypeInv, local
  <2>2. pc[p] = "measure" => Uncounted(p) = alive[p]
    BY <1>1 DEF RotorAt, CountAt, Uncounted
  <2>3. ASSUME p \notin disturbed, VerdictAt(p), AgedAt(p), CountedAt(p), MeasuredAt(p)
        PROVE  VerdictAt(p)' /\ AgedAt(p)' /\ CountedAt(p)' /\ MeasuredAt(p)'
    <3>1. VerdictAt(p)' /\ AgedAt(p)' /\ CountedAt(p)'
      BY <1>1, <1>2, <2>1, <2>3 DEF VerdictAt, AgedAt, CountedAt
    <3>2. MeasuredAt(p)'
      BY <1>1, <1>2, <2>1, <2>2, <2>3 DEF MeasuredAt
    <3> QED
      BY <3>1, <3>2
  <2> QED
    BY <1>1, <2>3, CalmJudgement
<1> QED
  BY <1>3, <1>4, <1>5

LEMMA BigJudgement ==
  ASSUME NEW p \in Rotor, RotationInv, SizeInv, JudgeInv, victim[p] = {}, RemoveBig(p) PROVE JudgeInv'
<1> DEFINE s == First(p)
<1>1. /\ TypeInv /\ DiskTyped /\ VictimAt(p) /\ RotorAt(p) /\ SizeAt(p) /\ pc[p] = "size" /\ todo[p] # {} /\ Remove(p, s, "size")
      /\ UNCHANGED <<inputs, pc, snaps, sizes, toRemove>> /\ UNCHANGED <<cfg, scans, age, size>>
      /\ p \notin scans /\ \A q \in Rotor \ {p} : todo'[q] = todo[q]
  BY DEF RemoveBig, TooBig, Visit, RotationInv, SizeInv, TypeInv, inputs, RotorAt, ListAt
<1>2. s \in alive[p] /\ s \in Snap
  BY <1>1, FirstIsFirst DEF RotorAt, ListAt
<1> HIDE DEF s
<1>3. /\ Spares(p) /\ RemovedFor(p, "size")' = RemovedFor(p, "size") \cup {s}
      /\ RemovedFor(p, "count")' = RemovedFor(p, "count") \ {s}
      /\ UNCHANGED disturbed /\ alive'[p] = alive[p] \ {s}
  BY <1>1, <1>2, RemoveEffect
<1>4. Uncounted(p)' = Uncounted(p)
  BY <1>2, <1>3 DEF Uncounted
<1>5. ASSUME p \notin disturbed, VerdictAt(p), AgedAt(p), CountedAt(p), MeasuredAt(p)
      PROVE  VerdictAt(p)' /\ AgedAt(p)' /\ CountedAt(p)' /\ MeasuredAt(p)'
  <2>1. /\ VerdictAt(p)' /\ verdict'[p][s] = "size" /\ verdict[p][s] = "none" /\ s \in snaps[p]
        /\ \A t \in Snap \ {s} : verdict'[p][t] = verdict[p][t]
    BY <1>1, <1>2, <1>5, RemoveJudgement
  <2>2. \A t : TooAged(t)' = TooAged(t)
    BY <1>1 DEF TooAged
  <2>3. AgedAt(p)'
    <3>1. snaps[p] \in SUBSET Snap /\ \A t \in snaps[p] : verdict[p][t] = "age" <=> TooAged(t)
      BY <1>1, <1>5 DEF AgedAt, TypeInv
    <3> QED
      BY <1>1, <2>1, <2>2, <3>1 DEF AgedAt
  <2>4. CountedAt(p)'
    BY <1>1, <1>3, <1>4, <1>5 DEF CountedAt
  <2>5. MeasuredAt(p)'
    BY <1>1, <1>4, <1>5 DEF MeasuredAt
  <2> QED
    BY <2>1, <2>3, <2>4, <2>5
<1>6. JudgedAt(p)'
  BY <1>3, <1>5 DEF JudgeInv, JudgedAt, Spares
<1> QED
  <2>1. \A q \in Rotor \ {p} :
            /\ pc'[q] = pc[q] /\ todo'[q] = todo[q] /\ snaps'[q] = snaps[q] /\ alive'[q] = alive[q]
            /\ sizes'[q] = sizes[q] /\ toRemove'[q] = toRemove[q] /\ verdict'[q] = verdict[q]
    BY <1>1, <1>3 DEF Spares
  <2> QED
    BY <1>1, <1>3, <1>6, <2>1, JudgeFrame DEF Spares

LEMMA ScanJudgement ==
  ASSUME NEW p \in Rotor, RotationInv, SizeInv, JudgeInv, StartScan(p) \/ Scan(p) \/ Stat(p) \/ EndScan(p)
  PROVE  JudgeInv'
<1>1. /\ TypeInv /\ p \in scans /\ pc'[p] \in {"scan", "stat", "end", "failed"}
      /\ UNCHANGED <<inputs, disk, outcome, snaps, alive, verdict, sizes, toRemove>>
      /\ \A q \in Rotor \ {p} : pc'[q] = pc[q] /\ todo'[q] = todo[q]
  <2> USE DEF Goto, Visit, RotationInv, TypeInv, inputs, disk, local, outcome, RotorAt, ListAt
  <2>1. CASE StartScan(p)
    BY <2>1 DEF StartScan
  <2>2. CASE Scan(p)
    BY <2>2 DEF Scan
  <2>3. CASE Stat(p)
    BY <2>3 DEF Stat
  <2>4. CASE EndScan(p)
    BY <2>4 DEF EndScan
  <2> QED
    BY <2>1, <2>2, <2>3, <2>4
<1>2. /\ UNCHANGED <<cfg, scans, age, size, snaps, alive, verdict>>
      /\ \A w : RemovedFor(p, w)' = RemovedFor(p, w)
      /\ Uncounted(p)' = Uncounted(p)
  BY <1>1, SameJudgement
<1>3. ASSUME p \notin disturbed, VerdictAt(p), AgedAt(p), CountedAt(p), MeasuredAt(p)
      PROVE  VerdictAt(p)' /\ AgedAt(p)' /\ CountedAt(p)' /\ MeasuredAt(p)'
  BY <1>1, <1>2, <1>3 DEF VerdictAt, AgedAt, CountedAt, MeasuredAt
<1> QED
  BY <1>1, <1>3, CalmJudgement

LEMMA JudgeInductive == ASSUME RotationInv, SizeInv, JudgeInv, [Next]_vars PROVE JudgeInv'
<1>1. ASSUME NEW p \in Rotor, victim[p] = {}, Rotate(p) PROVE JudgeInv'
  BY <1>1, ListJudgement, LookJudgement, DaysJudgement, OldJudgement, CountJudgement, ExcessJudgement,
     MeasureJudgement, BigJudgement, ScanJudgement DEF Rotate
<1>2. CASE (\E p \in Rotor : Removal(p)) \/ (\E s \in Snap : Finish(s)) \/ UNCHANGED vars
  <2>1. /\ UNCHANGED <<cfg, scans, age, size, pc, todo, snaps, alive, toRemove, sizes, verdict>>
        /\ disturbed \subseteq disturbed'
    <3>1. CASE \E p \in Rotor : Removal(p)
      <4> PICK p \in Rotor : Removal(p)
        BY <3>1
      <4>1. TypeInv /\ DiskTyped /\ VictimAt(p)
        BY DEF RotationInv, RotorAt
      <4> QED
        BY <4>1, RemovalEffect DEF inputs, local, Spares
    <3>2. CASE (\E s \in Snap : Finish(s)) \/ UNCHANGED vars
      BY <3>2 DEF Finish, vars, inputs, local, outcome
    <3> QED
      BY <1>2, <3>1, <3>2
  <2> SUFFICES ASSUME NEW p \in Rotor PROVE JudgedAt(p)'
    BY DEF JudgeInv
  <2>2. /\ \A w : RemovedFor(p, w)' = RemovedFor(p, w)
        /\ \A t : TooAged(t)' = TooAged(t)
    BY <2>1 DEF RemovedFor, TooAged
  <2>3. Uncounted(p)' = Uncounted(p)
    BY <2>1, <2>2 DEF Uncounted
  <2>4. JudgedAt(p)
    BY DEF JudgeInv
  <2>5. VerdictAt(p) => VerdictAt(p)'
    BY <2>1 DEF VerdictAt
  <2>6. AgedAt(p) => AgedAt(p)'
    BY <2>1, <2>2 DEF AgedAt
  <2>7. CountedAt(p) => CountedAt(p)'
    BY <2>1, <2>2, <2>3 DEF CountedAt
  <2>8. MeasuredAt(p) => MeasuredAt(p)'
    BY <2>1, <2>2, <2>3 DEF MeasuredAt
  <2> QED
    BY <2>1, <2>4, <2>5, <2>6, <2>7, <2>8 DEF JudgedAt
<1> QED
  BY <1>1, <1>2 DEF Next, AllEnded

LEMMA JudgeInvariant == Spec => []JudgeInv
<1>1. RotationInv /\ SizeInv /\ JudgeInv /\ [Next]_vars => JudgeInv'
  BY JudgeInductive
<1> QED
  BY <1>1, InitialJudgement, RotationInvariant, SizeInvariant, PTL DEF Spec

(* Two rotations of the same list that nobody meddled with.                *)
Ended(p) ==
    /\ p \in Rotor \ (scans \cup disturbed) /\ pc[p] = "end"
    /\ VerdictAt(p) /\ AgedAt(p) /\ CountedAt(p) /\ MeasuredAt(p)
    /\ SizeAt(p) /\ RotorAt(p)

(* What is left by age is the same, and so is how many of it go: of two    *)
(* sets of the oldest, the larger one would have gone too far.             *)
LEMMA SameCounted ==
  ASSUME TypeInv, NEW p \in Rotor, NEW q \in Rotor, Ended(p), Ended(q), snaps[p] = snaps[q]
  PROVE  RemovedFor(p, "count") \subseteq RemovedFor(q, "count")
<1> SUFFICES ASSUME NEW x \in RemovedFor(p, "count"), x \notin RemovedFor(q, "count") PROVE FALSE
  OBVIOUS
<1> DEFINE P == Uncounted(p)
           Q == Uncounted(q)
<1>1. /\ verdict[p] \in [Snap -> {"none", "age", "count", "size"}]
      /\ verdict[q] \in [Snap -> {"none", "age", "count", "size"}]
      /\ snaps[p] \in SUBSET Snap /\ cfg.keepCount \in Nat
      /\ alive[p] = {s \in snaps[p] : verdict[p][s] = "none"}
      /\ alive[q] = {s \in snaps[p] : verdict[q][s] = "none"}
      /\ \A s \in Snap : (verdict[p][s] = "none" \/ s \in snaps[p]) /\ (verdict[q][s] = "none" \/ s \in snaps[p])
      /\ \A s \in snaps[p] : verdict[p][s] = "age" <=> verdict[q][s] = "age"
  BY DEF TypeInv, Config, Ended, VerdictAt, AgedAt
<1>2. P \in SUBSET Snap /\ Q \in SUBSET Snap
  BY <1>1 DEF Uncounted, RemovedFor
<1>3. /\ \A s \in snaps[p] : s \in P <=> verdict[p][s] \in {"none", "size"}
      /\ \A s \in snaps[p] : s \in Q <=> verdict[q][s] \in {"none", "size"}
      /\ P \subseteq snaps[p] /\ Q \subseteq snaps[p]
  BY <1>1 DEF Uncounted, RemovedFor
<1>4. x \in snaps[p] /\ x \in Q /\ x \notin P
  BY <1>1, <1>3 DEF RemovedFor
<1>5. \A t \in P : t \in Q
  <2> SUFFICES ASSUME NEW t \in P, t \notin Q PROVE FALSE
    OBVIOUS
  <2>1. t \in RemovedFor(q, "count") /\ t \in Snap /\ x \in Snap
    BY <1>1, <1>2, <1>3 DEF RemovedFor
  <2>2. t < x /\ x < t
    BY <1>4, <2>1 DEF Ended, CountedAt
  <2> QED
    BY <2>1, <2>2 DEF Snap
<1>6. cfg.keepCount > 0 /\ Cardinality(P) = cfg.keepCount /\ Cardinality(Q) <= cfg.keepCount
  BY <1>1 DEF Ended, CountedAt, RotorAt, CountAt, Uncounted
<1> HIDE DEF P, Q
<1>7. P \in SUBSET (Q \ {x}) /\ Q \ {x} \in SUBSET Snap
  BY <1>2, <1>4, <1>5
<1>8. Cardinality(P) <= Cardinality(Q \ {x}) /\ Cardinality(Q \ {x}) = Cardinality(Q) - 1
      /\ Cardinality(P) \in Nat /\ Cardinality(Q) \in Nat
  BY <1>2, <1>4, <1>7, FewerSnaps, OneSnapLess, SnapsAreFinite
<1> QED
  BY <1>1, <1>6, <1>8

LEMMA SameBig ==
  ASSUME TypeInv, DiskTyped, SizesTyped, NEW p \in Rotor, NEW q \in Rotor, Ended(p), Ended(q), Uncounted(p) = Uncounted(q)
  PROVE  RemovedFor(p, "size") \subseteq RemovedFor(q, "size")
<1> SUFFICES ASSUME NEW x \in RemovedFor(p, "size"), x \notin RemovedFor(q, "size") PROVE FALSE
  OBVIOUS
<1> DEFINE big == RemovedFor(p, "size")
           last == Max(big)
<1>1. /\ big \in SUBSET Snap /\ alive[p] \in SUBSET Snap /\ alive[q] \in SUBSET Snap
      /\ size \in [Snap -> Nat] /\ sizes[p] \in [Snap -> Nat] /\ sizes[q] \in [Snap -> Nat]
      /\ cfg.kbLimit \in Nat
  BY DEF RemovedFor, TypeInv, DiskTyped, SizesTyped, Config
<1>2. last \in big /\ \A b \in big : b <= last
  <2> HIDE DEF big
  <2> QED
    BY <1>1, NewestExists DEF big
<1> HIDE DEF last
<1>3. x \in alive[q] /\ x \in Snap
  BY <1>1 DEF Uncounted
<1>4. \A t \in alive[p] \cup {last} : t \in alive[q]
  <2> SUFFICES ASSUME NEW t \in alive[p] \cup {last}, t \in RemovedFor(q, "size") PROVE FALSE
    BY <1>2 DEF Uncounted
  <2>1. t < x /\ t \in Snap
    BY <1>1, <1>2, <1>3 DEF Ended, SizeAt
  <2>2. x <= t
    <3>1. t \in alive[p] => x < t
      BY DEF Ended, SizeAt
    <3> QED
      BY <1>2, <1>3, <2>1, <3>1 DEF Snap
  <2> QED
    BY <1>3, <2>1, <2>2 DEF Snap
<1>5. cfg.sized
  BY DEF Ended, MeasuredAt
<1>6. /\ \A t \in alive[p] \cup {last} : sizes[p][t] = size[t]
      /\ \A t \in alive[q] : sizes[q][t] = size[t]
  BY <1>2, <1>5 DEF Ended, MeasuredAt, Uncounted
<1>7. Sum(sizes[p], alive[p] \cup {last}) > cfg.kbLimit /\ Sum(sizes[q], alive[q]) <= cfg.kbLimit
  BY <1>5 DEF Ended, SizeAt, last
<1> DEFINE more == alive[p] \cup {last}
<1>8. more \in SUBSET alive[q] /\ more \in SUBSET Snap
  BY <1>1, <1>4
<1> HIDE DEF more, big
<1>9. Sum(size, more) = Sum(sizes[p], more) /\ Sum(size, alive[q]) = Sum(sizes[q], alive[q])
  <2>1. IsFiniteSet(more) /\ IsFiniteSet(alive[q])
    BY <1>1, <1>8, SnapsAreFinite
  <2>2. \A t \in more : size[t] = sizes[p][t]
    BY <1>6 DEF more
  <2>3. \A t \in alive[q] : size[t] = sizes[q][t]
    BY <1>6
  <2>4. Sum(size, more) = Sum(sizes[p], more)
    BY <2>1, <2>2, SumsAlike
  <2> QED
    BY <2>1, <2>3, <2>4, SumsAlike
<1>10. Sum(size, more) <= Sum(size, alive[q]) /\ Sum(size, more) \in Nat /\ Sum(size, alive[q]) \in Nat
  <2>1. IsFiniteSet(alive[q]) /\ \A t \in alive[q] : size[t] \in Nat
    BY <1>1, SnapsAreFinite
  <2> QED
    BY <1>1, <1>8, <2>1, SumOfFewer, SnapSums
<1> QED
  <2>1. Sum(size, more) > cfg.kbLimit /\ Sum(size, alive[q]) <= cfg.kbLimit
    BY <1>7, <1>9 DEF more
  <2> QED
    BY <1>1, <1>10, <2>1

(* A dry run logs exactly the removals that a real rotation of the same    *)
(* list makes, unless one of its snapshots was removed meanwhile.          *)
THEOREM DryRunsPredict == Spec => []DryRunPredicts
<1>1. RotationInv /\ SizeInv /\ JudgeInv => DryRunPredicts
  <2> SUFFICES ASSUME RotationInv, SizeInv, JudgeInv,
                      NEW p \in dryRun \ disturbed, NEW q \in Rotor \ (dryRun \cup scans \cup disturbed),
                      pc[p] = "end", pc[q] = "end", snaps[p] = snaps[q]
               PROVE  verdict[p] = verdict[q]
    BY DEF DryRunPredicts
  <2>1. TypeInv /\ DiskTyped /\ SizesTyped /\ p \in Rotor /\ q \in Rotor /\ Ended(p) /\ Ended(q)
    BY DEF RotationInv, SizeInv, SizesTyped, JudgeInv, JudgedAt, Ended
  <2>2. RemovedFor(p, "count") = RemovedFor(q, "count")
    <3>1. RemovedFor(p, "count") \subseteq RemovedFor(q, "count")
      BY <2>1, SameCounted
    <3>2. RemovedFor(q, "count") \subseteq RemovedFor(p, "count")
      BY <2>1, SameCounted
    <3> QED
      BY <3>1, <3>2
  <2>3. /\ verdict[p] \in [Snap -> {"none", "age", "count", "size"}]
        /\ verdict[q] \in [Snap -> {"none", "age", "count", "size"}]
        /\ \A s \in Snap : s \notin snaps[p] => verdict[p][s] = "none" /\ verdict[q][s] = "none"
        /\ \A s \in snaps[p] : verdict[p][s] = "age" <=> verdict[q][s] = "age"
        /\ alive[p] = {s \in snaps[p] : verdict[p][s] = "none"}
        /\ alive[q] = {s \in snaps[p] : verdict[q][s] = "none"}
    BY <2>1 DEF TypeInv, Ended, VerdictAt, AgedAt
  <2>4. \A s \in Snap : verdict[p][s] = "count" <=> verdict[q][s] = "count"
    BY <2>2 DEF RemovedFor
  <2>5. Uncounted(p) = Uncounted(q)
    <3>1. \A s \in Snap : verdict[p][s] \in {"none", "size"} <=> verdict[q][s] \in {"none", "size"}
      BY <2>3, <2>4
    <3>2. snaps[p] \in SUBSET Snap
      BY <2>1 DEF TypeInv
    <3>3. /\ Uncounted(p) = {s \in snaps[p] : verdict[p][s] \in {"none", "size"}}
          /\ Uncounted(q) = {s \in snaps[p] : verdict[q][s] \in {"none", "size"}}
      BY <2>3, <3>2 DEF Uncounted, RemovedFor
    <3> QED
      BY <3>1, <3>2, <3>3
  <2>6. RemovedFor(p, "size") = RemovedFor(q, "size")
    <3>1. RemovedFor(p, "size") \subseteq RemovedFor(q, "size")
      BY <2>1, <2>5, SameBig
    <3>2. RemovedFor(q, "size") \subseteq RemovedFor(p, "size")
      BY <2>1, <2>5, SameBig
    <3> QED
      BY <3>1, <3>2
  <2>7. \A s \in Snap : verdict[p][s] = "size" <=> verdict[q][s] = "size"
    BY <2>6 DEF RemovedFor
  <2>8. \A s \in Snap : verdict[p][s] = verdict[q][s]
    BY <2>3, <2>4, <2>7
  <2> QED
    BY <2>3, <2>8
<1> QED
  BY <1>1, RotationInvariant, SizeInvariant, JudgeInvariant, PTL
=============================================================================
