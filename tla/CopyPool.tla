------------------------------- MODULE CopyPool -------------------------------
(***************************************************************************)
(* copySelectedFiles in internal/usecase/backup.go: the main goroutine     *)
(* sends the selected paths over a bounded channel to a pool of workers,   *)
(* closes it and waits for them; a signal can cancel the context at any    *)
(* time.  The paths are numbered in the order they are sent, so the        *)
(* channel always holds the paths received+1 .. sent.                      *)
(***************************************************************************)
EXTENDS Naturals

CONSTANTS
    Paths,      \* how many paths were selected
    Worker,     \* the goroutines of the pool (2 * NumCPU in the code)
    Capacity,   \* the capacity of the channel (2 * workers in the code)
    Cancellable \* a signal may arrive

ASSUME PathsAssumption == Paths \in Nat \ {0}
ASSUME WorkerAssumption == Worker # {}
ASSUME CapacityAssumption == Capacity \in Nat \ {0}
ASSUME CancellableAssumption == Cancellable \in BOOLEAN

VARIABLES
    producer,   \* where the main goroutine is
    sent,       \* how many paths it has sent
    received,   \* how many the workers have received
    worker,     \* where each worker is
    job,        \* the path each worker works on, 0 for none
    copied,     \* the paths that are in the snapshot
    copyErrors, \* the paths recorded as failed
    firstErr,   \* the first of them, 0 for none
    canceled,   \* ctx.Err() # nil
    outcome     \* what copyRepoSnapshot returns

pool == <<worker, job, copied, copyErrors, firstErr>>
vars == <<producer, sent, received, pool, canceled, outcome>>

Path == 1 .. Paths

TypeOK ==
    /\ producer \in {"loop", "send", "wait", "returned"}
    /\ sent \in 0 .. Paths /\ received \in 0 .. Paths
    /\ received <= sent /\ sent - received <= Capacity
    /\ worker \in [Worker -> {"select", "copy", "report", "gone"}]
    /\ job \in [Worker -> Path \cup {0}]
    /\ copied \subseteq Path /\ copyErrors \subseteq Path
    /\ firstErr \in Path \cup {0}
    /\ canceled \in BOOLEAN
    /\ outcome \in {"none", "ok", "interrupted", "failed"}

Init ==
    /\ producer = "loop" /\ sent = 0 /\ received = 0
    /\ worker = [w \in Worker |-> "select"]
    /\ job = [w \in Worker |-> 0]
    /\ copied = {} /\ copyErrors = {} /\ firstErr = 0
    /\ canceled = FALSE /\ outcome = "none"

(* The channel is closed once the loop is left.                            *)
Closed == producer \in {"wait", "returned"}

-----------------------------------------------------------------------------
(* The head of the loop: stop sending when there are no more paths or the  *)
(* context is canceled, otherwise get ready to send.                       *)
LoopHead ==
    /\ producer = "loop"
    /\ producer' = IF sent = Paths \/ canceled THEN "wait" ELSE "send"
    /\ UNCHANGED <<sent, received, pool, canceled, outcome>>

(* Mistake: the channel is taken for an unbounded one.                     *)
SendUnbounded ==
    /\ producer = "send"
    /\ sent' = sent + 1 /\ producer' = "loop"
    /\ UNCHANGED <<received, pool, canceled, outcome>>

(* jobs <- p: waits for room, and for nothing else.                        *)
Send ==
    /\ producer = "send" /\ sent - received < Capacity
    /\ sent' = sent + 1 /\ producer' = "loop"
    /\ UNCHANGED <<received, pool, canceled, outcome>>

(* Mistakes: no check of the context after the copy; the context checked   *)
(* before the errors; no wg.Wait.                                          *)
ReturnUnchecked ==
    /\ producer = "wait" /\ \A w \in Worker : worker[w] = "gone"
    /\ producer' = "returned"
    /\ outcome' = IF copyErrors # {} THEN "failed" ELSE "ok"
    /\ UNCHANGED <<sent, received, pool, canceled>>

ReturnContextFirst ==
    /\ producer = "wait" /\ \A w \in Worker : worker[w] = "gone"
    /\ producer' = "returned"
    /\ outcome' = IF canceled THEN "interrupted"
                  ELSE IF copyErrors # {} THEN "failed" ELSE "ok"
    /\ UNCHANGED <<sent, received, pool, canceled>>

ReturnEarly ==
    /\ producer = "wait"
    /\ producer' = "returned"
    /\ outcome' = IF copyErrors # {} THEN "failed"
                  ELSE IF canceled THEN "interrupted" ELSE "ok"
    /\ UNCHANGED <<sent, received, pool, canceled>>

(* wg.Wait, the error if one was recorded, and the check of the context    *)
(* that copyRepoSnapshot makes next.                                       *)
Return ==
    /\ producer = "wait" /\ \A w \in Worker : worker[w] = "gone"
    /\ producer' = "returned"
    /\ outcome' = IF copyErrors # {} THEN "failed"
                  ELSE IF canceled THEN "interrupted" ELSE "ok"
    /\ UNCHANGED <<sent, received, pool, canceled>>

(* The select of copySelectedWorker; with both cases ready it takes either.*)
Receive(w) ==
    /\ worker[w] = "select" /\ received < sent
    /\ received' = received + 1
    /\ job' = [job EXCEPT ![w] = received + 1]
    /\ worker' = [worker EXCEPT ![w] = "copy"]
    /\ UNCHANGED <<producer, sent, copied, copyErrors, firstErr, canceled, outcome>>

(* Mistake: the channel is never closed, only a signal ends a worker.      *)
LeaveOnSignal(w) ==
    /\ worker[w] = "select" /\ canceled
    /\ worker' = [worker EXCEPT ![w] = "gone"]
    /\ UNCHANGED <<producer, sent, received, job, copied, copyErrors, firstErr,
                   canceled, outcome>>

Leave(w) ==
    /\ worker[w] = "select"
    /\ canceled \/ (Closed /\ received = sent)
    /\ worker' = [worker EXCEPT ![w] = "gone"]
    /\ UNCHANGED <<producer, sent, received, job, copied, copyErrors, firstErr,
                   canceled, outcome>>

(* copySelectedPath succeeds ...                                           *)
Copy(w) ==
    /\ worker[w] = "copy"
    /\ copied' = copied \cup {job[w]}
    /\ job' = [job EXCEPT ![w] = 0]
    /\ worker' = [worker EXCEPT ![w] = "select"]
    /\ UNCHANGED <<producer, sent, received, copyErrors, firstErr, canceled, outcome>>

(* ... or fails at one of its file-system calls, and the worker takes the  *)
(* mutex to record it.                                                     *)
CopyFails(w) ==
    /\ worker[w] = "copy"
    /\ worker' = [worker EXCEPT ![w] = "report"]
    /\ UNCHANGED <<producer, sent, received, job, copied, copyErrors, firstErr,
                   canceled, outcome>>

(* Mistake: only the first error is recorded.                              *)
RecordFirstError(w) ==
    /\ worker[w] = "report"
    /\ IF firstErr = 0
       THEN copyErrors' = {job[w]} /\ firstErr' = job[w]
       ELSE UNCHANGED <<copyErrors, firstErr>>
    /\ job' = [job EXCEPT ![w] = 0]
    /\ worker' = [worker EXCEPT ![w] = "select"]
    /\ UNCHANGED <<producer, sent, received, copied, canceled, outcome>>

RecordError(w) ==
    /\ worker[w] = "report"
    /\ copyErrors' = copyErrors \cup {job[w]}
    /\ firstErr' = IF firstErr = 0 THEN job[w] ELSE firstErr
    /\ job' = [job EXCEPT ![w] = 0]
    /\ worker' = [worker EXCEPT ![w] = "select"]
    /\ UNCHANGED <<producer, sent, received, copied, canceled, outcome>>

(* SIGINT or SIGTERM.                                                      *)
Cancel ==
    /\ Cancellable /\ ~canceled
    /\ canceled' = TRUE
    /\ UNCHANGED <<producer, sent, received, pool, outcome>>

Finished == producer = "returned" /\ UNCHANGED vars

ProducerStep == LoopHead \/ Send \/ Return
WorkerStep(w) ==
    Receive(w) \/ Leave(w) \/ Copy(w) \/ CopyFails(w) \/ RecordError(w)

Next == ProducerStep \/ (\E w \in Worker : WorkerStep(w)) \/ Cancel \/ Finished

Spec == Init /\ [][Next]_vars

(* Goroutines that can run are run, and file-system calls return.          *)
Fairness == WF_vars(ProducerStep) /\ \A w \in Worker : WF_vars(WorkerStep(w))
FairSpec == Spec /\ Fairness

-----------------------------------------------------------------------------
(* A copy reported as complete holds every selected path, however the      *)
(* signal falls between the sends, the selects and the final check.        *)
OkIsComplete == outcome = "ok" => copied = Path

(* Every path a worker received is in the snapshot or in copyErrors by the *)
(* time the function returns, and never in both.                           *)
NothingLost ==
    /\ outcome # "none" => 1 .. received = copied \cup copyErrors
    /\ copied \cap copyErrors = {}

(* An error is returned exactly when one was recorded, and it wraps the    *)
(* first that was.                                                         *)
FailureIsReported ==
    /\ outcome = "failed" => firstErr \in copyErrors
    /\ outcome \in {"ok", "interrupted"} => copyErrors = {}

(* Nothing is written into the snapshot after the function has returned:   *)
(* handleBackupFlow may then remove the directory of a failed backup       *)
(* without a worker creating it again.                                     *)
NoWriteAfterReturn == [][outcome # "none" => UNCHANGED <<copied, copyErrors>>]_vars

(* The function returns ("130 ExitInterrupted: process interrupted by      *)
(* signal" relies on it after a signal).                                   *)
Returns == <>(outcome # "none")

(* It fails to return in one way only: the signal arrives while the main   *)
(* goroutine waits for room in the channel, and every worker takes the     *)
(* ctx.Done case of its select before it receives another path.            *)
Stalled ==
    /\ canceled /\ producer = "send" /\ sent - received = Capacity
    /\ \A w \in Worker : worker[w] = "gone"

ReturnsOrStalls == <>(outcome # "none" \/ Stalled)
=============================================================================
