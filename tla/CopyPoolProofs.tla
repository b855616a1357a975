---------------------------- MODULE CopyPoolProofs ----------------------------
(***************************************************************************)
(* Theorems about CopyPool for every number of paths, workers and places   *)
(* in the channel, with their proofs.                                      *)
(***************************************************************************)
EXTENDS CopyPool, TLAPS

(* Every path received so far is being worked on, copied or recorded, and  *)
(* only one of the three.                                                  *)
JobInv ==
    /\ \A w \in Worker : job[w] # 0 <=> worker[w] \in {"copy", "report"}
    /\ \A w \in Worker : job[w] # 0 => job[w] <= received
    /\ \A v, w \in Worker : job[v] # 0 /\ job[v] = job[w] => v = w
    /\ \A w \in Worker : job[w] \notin copied \cup copyErrors
    /\ \A i \in 1 .. received :
          i \in copied \cup copyErrors \/ \E w \in Worker : job[w] = i
    /\ copied \cup copyErrors \subseteq 1 .. received
    /\ copied \cap copyErrors = {}

ErrorInv ==
    /\ firstErr = 0 => copyErrors = {}
    /\ firstErr # 0 => firstErr \in copyErrors

(* Why the main goroutine or a worker is done.                             *)
DoneInv ==
    /\ producer = "send" => sent < Paths
    /\ Closed => sent = Paths \/ canceled
    /\ \A w \in Worker :
          worker[w] = "gone" => canceled \/ (Closed /\ received = sent)

OutcomeInv ==
    /\ outcome # "none" <=> producer = "returned"
    /\ outcome # "none" => \A w \in Worker : worker[w] = "gone"
    /\ outcome = "ok" => copied = Path /\ copyErrors = {}
    /\ outcome = "interrupted" => copyErrors = {}
    /\ outcome = "failed" => copyErrors # {}

PoolInv == TypeOK /\ JobInv /\ ErrorInv /\ DoneInv /\ OutcomeInv

LEMMA InitPoolInv == Init => PoolInv
<1> SUFFICES ASSUME Init PROVE PoolInv
  OBVIOUS
<1>1. TypeOK
  <2>1. sent \in 0 .. Paths /\ received \in 0 .. Paths
    BY PathsAssumption DEF Init
  <2>2. received <= sent /\ sent - received <= Capacity
    BY CapacityAssumption DEF Init
  <2> QED
    BY <2>1, <2>2 DEF Init, TypeOK
<1>2. JobInv
  BY DEF Init, JobInv
<1>3. ErrorInv /\ DoneInv /\ OutcomeInv
  BY DEF Init, ErrorInv, DoneInv, Closed, OutcomeInv
<1> QED
  BY <1>1, <1>2, <1>3 DEF PoolInv

LEMMA ProducerPoolInv == ASSUME PoolInv, ProducerStep PROVE PoolInv'
<1> USE PathsAssumption, CapacityAssumption DEF PoolInv, Path, pool
<1>1. CASE LoopHead
  <2>1. TypeOK' /\ JobInv' /\ ErrorInv'
    BY <1>1 DEF LoopHead, TypeOK, JobInv, ErrorInv
  <2>2. DoneInv' /\ OutcomeInv'
    BY <1>1 DEF LoopHead, TypeOK, DoneInv, OutcomeInv, Closed
  <2> QED
    BY <2>1, <2>2
<1>2. CASE Send
  <2>1. TypeOK' /\ JobInv' /\ ErrorInv'
    BY <1>2 DEF Send, TypeOK, JobInv, ErrorInv, DoneInv
  <2>2. DoneInv' /\ OutcomeInv'
    BY <1>2 DEF Send, DoneInv, OutcomeInv, Closed
  <2> QED
    BY <2>1, <2>2
<1>3. CASE Return
  <2>1. TypeOK' /\ JobInv' /\ ErrorInv' /\ DoneInv'
    BY <1>3 DEF Return, TypeOK, JobInv, ErrorInv, DoneInv, Closed
  <2>2. outcome' = "ok" => copied' = Path
    <3> SUFFICES ASSUME copyErrors = {}, ~canceled PROVE copied = Path
      BY <1>3 DEF Return
    <3>1. received = Paths
      <4>1. PICK w \in Worker : worker[w] = "gone"
        BY <1>3, WorkerAssumption DEF Return
      <4> QED
        BY <4>1 DEF DoneInv
    <3>2. \A w \in Worker : job[w] = 0
      BY <1>3 DEF Return, JobInv
    <3>3. Path \subseteq copied
      BY <3>1, <3>2 DEF JobInv
    <3> QED
      BY <3>3 DEF TypeOK
  <2>3. OutcomeInv'
    BY <1>3, <2>2 DEF Return, OutcomeInv
  <2> QED
    BY <2>1, <2>3
<1> QED
  BY <1>1, <1>2, <1>3 DEF ProducerStep

LEMMA WorkerPoolInv ==
  ASSUME PoolInv, NEW w \in Worker, WorkerStep(w) PROVE PoolInv'
<1> USE PathsAssumption, CapacityAssumption DEF PoolInv, Path
<1>1. CASE Receive(w)
  <2>1. TypeOK' /\ ErrorInv'
    BY <1>1 DEF Receive, TypeOK, ErrorInv
  <2>2. JobInv'
    BY <1>1 DEF Receive, TypeOK, JobInv
  <2>3. DoneInv' /\ OutcomeInv'
    BY <1>1 DEF Receive, TypeOK, DoneInv, OutcomeInv, Closed
  <2> QED
    BY <2>1, <2>2, <2>3
<1>2. CASE Leave(w)
  <2>1. TypeOK' /\ ErrorInv' /\ JobInv'
    BY <1>2 DEF Leave, TypeOK, ErrorInv, JobInv
  <2>2. DoneInv' /\ OutcomeInv'
    BY <1>2 DEF Leave, TypeOK, DoneInv, OutcomeInv, Closed
  <2> QED
    BY <2>1, <2>2
<1>3. CASE Copy(w)
  <2>1. TypeOK' /\ ErrorInv'
    BY <1>3 DEF Copy, TypeOK, ErrorInv, JobInv
  <2>2. JobInv'
    <3>1. job[w] \in 1 .. received /\ job' = [job EXCEPT ![w] = 0]
      BY <1>3 DEF Copy, TypeOK, JobInv
    <3>2. \A v \in Worker : /\ v # w => job'[v] = job[v] /\ job[v] # job[w]
                            /\ v = w => job'[v] = 0
      BY <3>1 DEF TypeOK, JobInv
    <3>3. \A i \in 1 .. received :
             i \in (copied \cup copyErrors)' \/ \E v \in Worker : job'[v] = i
      BY <1>3, <3>1, <3>2 DEF Copy, JobInv
    <3>4. copied' \cap copyErrors' = {} /\ (copied \cup copyErrors)' \subseteq 1 .. received
      BY <1>3, <3>1 DEF Copy, JobInv
    <3>5. \A v \in Worker : job'[v] \notin (copied \cup copyErrors)'
      BY <1>3, <3>1, <3>2 DEF Copy, JobInv
    <3> QED
      BY <1>3, <3>1, <3>2, <3>3, <3>4, <3>5 DEF Copy, TypeOK, JobInv
  <2>3. DoneInv' /\ OutcomeInv'
    BY <1>3 DEF Copy, TypeOK, DoneInv, OutcomeInv, Closed
  <2> QED
    BY <2>1, <2>2, <2>3
<1>4. CASE CopyFails(w)
  <2>1. TypeOK' /\ ErrorInv' /\ JobInv'
    BY <1>4 DEF CopyFails, TypeOK, ErrorInv, JobInv
  <2>2. DoneInv' /\ OutcomeInv'
    BY <1>4 DEF CopyFails, TypeOK, DoneInv, OutcomeInv, Closed
  <2> QED
    BY <2>1, <2>2
<1>5. CASE RecordError(w)
  <2>1. TypeOK' /\ ErrorInv'
    BY <1>5 DEF RecordError, TypeOK, ErrorInv, JobInv
  <2>2. JobInv'
    <3>1. job[w] \in 1 .. received /\ job' = [job EXCEPT ![w] = 0]
      BY <1>5 DEF RecordError, TypeOK, JobInv
    <3>2. \A v \in Worker : /\ v # w => job'[v] = job[v] /\ job[v] # job[w]
                            /\ v = w => job'[v] = 0
      BY <3>1 DEF TypeOK, JobInv
    <3>3. \A i \in 1 .. received :
             i \in (copied \cup copyErrors)' \/ \E v \in Worker : job'[v] = i
      BY <1>5, <3>1, <3>2 DEF RecordError, JobInv
    <3>4. copied' \cap copyErrors' = {} /\ (copied \cup copyErrors)' \subseteq 1 .. received
      BY <1>5, <3>1 DEF RecordError, JobInv
    <3>5. \A v \in Worker : job'[v] \notin (copied \cup copyErrors)'
      BY <1>5, <3>1, <3>2 DEF RecordError, JobInv
    <3> QED
      BY <1>5, <3>1, <3>2, <3>3, <3>4, <3>5 DEF RecordError, TypeOK, JobInv
  <2>3. DoneInv' /\ OutcomeInv'
    BY <1>5 DEF RecordError, TypeOK, DoneInv, OutcomeInv, Closed
  <2> QED
    BY <2>1, <2>2, <2>3
<1> QED
  BY <1>1, <1>2, <1>3, <1>4, <1>5 DEF WorkerStep

LEMMA PoolInvInductive == PoolInv /\ [Next]_vars => PoolInv'
<1> SUFFICES ASSUME PoolInv, [Next]_vars PROVE PoolInv'
  OBVIOUS
<1>1. CASE Cancel
  BY <1>1 DEF Cancel, pool, PoolInv, TypeOK, Path, JobInv, ErrorInv, DoneInv,
              OutcomeInv, Closed
<1>2. CASE UNCHANGED vars
  BY <1>2 DEF vars, pool, PoolInv, TypeOK, Path, JobInv, ErrorInv, DoneInv,
              OutcomeInv, Closed
<1> QED
  BY <1>1, <1>2, ProducerPoolInv, WorkerPoolInv DEF Next, Finished

THEOREM PoolInvariant == Spec => []PoolInv
  BY InitPoolInv, PoolInvInductive, PTL DEF Spec

(* Every state of the pool is well typed: no more is sent than there is    *)
(* room for in the channel, and nothing is received twice.                 *)
THEOREM PoolTypeCorrect == Spec => []TypeOK
<1>1. PoolInv => TypeOK
  BY DEF PoolInv
<1> QED
  BY <1>1, PoolInvariant, PTL

(* A copy reported as complete holds every selected path.                  *)
THEOREM CompleteCopies == Spec => []OkIsComplete
<1>1. PoolInv => OkIsComplete
  BY DEF PoolInv, OutcomeInv, OkIsComplete
<1> QED
  BY <1>1, PoolInvariant, PTL

(* No path that a worker received is forgotten.                            *)
THEOREM AllAccountedFor == Spec => []NothingLost
<1>1. PoolInv => NothingLost
  BY DEF PoolInv, OutcomeInv, JobInv, NothingLost
<1> QED
  BY <1>1, PoolInvariant, PTL

(* An error is returned exactly when one was recorded.                     *)
THEOREM ErrorsReported == Spec => []FailureIsReported
<1>1. PoolInv => FailureIsReported
  BY DEF PoolInv, OutcomeInv, ErrorInv, FailureIsReported
<1> QED
  BY <1>1, PoolInvariant, PTL

(* The pool never touches the snapshot after the function returned.        *)
THEOREM QuietAfterReturn == Spec => NoWriteAfterReturn
<1>1. PoolInv /\ [Next]_vars =>
        [outcome # "none" => UNCHANGED <<copied, copyErrors>>]_vars
  BY DEF PoolInv, OutcomeInv, Next, ProducerStep, LoopHead, Send, Return, WorkerStep,
         Receive, Leave, Copy, CopyFails, RecordError, Cancel, Finished, pool, vars
<1> QED
  BY <1>1, PoolInvariant, PTL DEF Spec, NoWriteAfterReturn
=============================================================================
