-------------------------- MODULE EntitlementCheck --------------------------
(***************************************************************************)
(* Asynchronous entitlement evaluation of one subject and one meter that   *)
(* stay in one plan and one quota period.                                  *)
(*                                                                         *)
(* Each accepted usage event moves the counter and, through the outbox,    *)
(* enqueues the pair's check job: there is one row of                      *)
(* entitlement_check_jobs per pair, and an enqueue that meets a row under  *)
(* a live lease does nothing.  Replicas of the entitlement worker claim    *)
(* the row, evaluate the pair and delete the row; what they do to the row  *)
(* is fenced by its number of attempts.  The clock is abstracted as in     *)
(* UsageOutbox.                                                            *)
(***************************************************************************)
EXTENDS Integers

CONSTANTS
    Worker,        \* replicas of the entitlement worker
    MaxAttempts,   \* OPEN_SPANNER_ENTITLEMENT_WORKER_MAX_ATTEMPTS
    Warning, Limit,\* usage at which the state is warning, exceeded
    MaxUsage,      \* bound: usage events
    MaxFaults,     \* bound: failed and abandoned attempts
    MaxRequeues    \* bound: dead letters an operator requeues

ASSUME LimitAssumption == Warning \in Nat /\ Limit \in Nat
ASSUME MaxAttemptsAssumption == MaxAttempts \in Nat \ {0}
ASSUME BoundAssumption ==
    MaxUsage \in Nat /\ MaxFaults \in Nat /\ MaxRequeues \in Nat

VARIABLES
    usage,     \* the period's usage counter
    owed,      \* committed events whose enqueue is still to come
    row,       \* the check job: "absent", "free", or its lease "live", "expired"
    attempts, due,
    state,     \* entitlement_states.current_value (-1: no row)
    logged,    \* state of the latest entitlement event ("none": no event)
    dead,      \* dead letters
    pc, try, read, prev,  \* workers: place, claimed attempt, counter and state read
    faults, requeued,
    fenced,    \* history: no worker outlasted its lease, no dead letter was requeued
    needed     \* history: the counter at the last enqueue that took effect

fence == <<requeued, fenced>>
jobVars == <<row, attempts, due>>
workerVars == <<pc, try, read, prev>>
vars == <<usage, owed, jobVars, state, logged, dead, workerVars, faults, fence, needed>>

Level == {"none", "ok", "warning", "exceeded"}
PC == {"idle", "progress", "previous", "save", "complete", "fail"}
Value == -1..MaxUsage

TypeOK ==
    /\ usage \in 0..MaxUsage /\ owed \in 0..MaxUsage /\ needed \in 0..MaxUsage
    /\ row \in {"absent", "free", "live", "expired"}
    /\ attempts \in 0..MaxAttempts /\ due \in BOOLEAN
    /\ state \in Value /\ logged \in Level /\ dead \in Nat
    /\ pc \in [Worker -> PC] /\ try \in [Worker -> 0..MaxAttempts]
    /\ read \in [Worker -> 0..MaxUsage] /\ prev \in [Worker -> Level]
    /\ faults \in 0..MaxFaults /\ requeued \in 0..MaxRequeues
    /\ fenced \in BOOLEAN

Init ==
    /\ usage = 0 /\ owed = 0 /\ needed = 0
    /\ row = "absent" /\ attempts = 0 /\ due = FALSE
    /\ state = -1 /\ logged = "none" /\ dead = 0
    /\ pc = [w \in Worker |-> "idle"] /\ try = [w \in Worker |-> 0]
    /\ read = [w \in Worker |-> 0] /\ prev = [w \in Worker |-> "none"]
    /\ faults = 0 /\ requeued = 0 /\ fenced = TRUE

\* overageState of a stored value
OverageState(v) == IF v = -1 THEN "none" ELSE IF v >= Limit THEN "exceeded"
                   ELSE IF v >= Warning THEN "warning" ELSE "ok"

\* An accepted usage event: counter and outbox record, in one transaction.
RecordUsage ==
    /\ usage < MaxUsage
    /\ usage' = usage + 1 /\ owed' = owed + 1
    /\ UNCHANGED <<jobVars, state, logged, dead, workerVars, faults, fence, needed>>

\* (mutant) the enqueue pulls a running job forward
EnqueueUnlocks ==
    /\ owed > 0 /\ owed' = owed - 1
    /\ row' = "free" /\ due' = TRUE /\ needed' = usage
    /\ attempts' = IF row = "absent" THEN 0 ELSE attempts
    /\ UNCHANGED <<usage, state, logged, dead, workerVars, faults, fence>>

\* EnqueueForUsageEvents, called by the usage worker: insert the row, or make it due
\* (DefaultCheckEvaluationWait is 0) if no live lease is on it.
EnqueueForUsageEvents ==
    /\ owed > 0 /\ owed' = owed - 1
    /\ IF row = "live"
       THEN UNCHANGED <<row, due, attempts, needed>>
       ELSE /\ row' = IF row = "absent" THEN "free" ELSE row
            /\ attempts' = IF row = "absent" THEN 0 ELSE attempts
            /\ due' = TRUE /\ needed' = usage
    /\ UNCHANGED <<usage, state, logged, dead, workerVars, faults, fence>>

\* (mutant) a claim does not look at attempts
ClaimForEver(w) ==
    /\ pc[w] = "idle"
    /\ row \in {"free", "expired"} /\ due
    /\ row' = "live" /\ attempts' = attempts + 1
    /\ pc' = [pc EXCEPT ![w] = "progress"]
    /\ try' = [try EXCEPT ![w] = attempts + 1]
    /\ UNCHANGED <<usage, owed, due, state, logged, dead, read, prev, faults, fence, needed>>

\* ClaimEntitlementCheckJob: one statement, whichever replica runs it.
ClaimCheckJob(w) ==
    /\ pc[w] = "idle"
    /\ row \in {"free", "expired"} /\ due /\ attempts < MaxAttempts
    /\ row' = "live" /\ attempts' = attempts + 1
    /\ pc' = [pc EXCEPT ![w] = "progress"]
    /\ try' = [try EXCEPT ![w] = attempts + 1]
    /\ UNCHANGED <<usage, owed, due, state, logged, dead, read, prev, faults, fence, needed>>

\* Evaluate: progressItem reads the counter ...
ReadProgress(w) ==
    /\ pc[w] = "progress"
    /\ read' = [read EXCEPT ![w] = usage]
    /\ pc' = [pc EXCEPT ![w] = "previous"]
    /\ UNCHANGED <<usage, owed, jobVars, state, logged, dead, try, prev, faults, fence, needed>>

\* ... the stored state is read ...
ReadPrevious(w) ==
    /\ pc[w] = "previous"
    /\ prev' = [prev EXCEPT ![w] = OverageState(state)]
    /\ pc' = [pc EXCEPT ![w] = "save"]
    /\ UNCHANGED <<usage, owed, jobVars, state, logged, dead, try, read, faults, fence, needed>>

\* (mutant) only a transition to exceeded is logged
LogsExceededOnly(old, new, last) == IF old # new /\ new = "exceeded" THEN new ELSE last

\* entitlementEventType: a change is logged, except the first "ok".
Logs(old, new, last) == IF old = new \/ (old = "none" /\ new = "ok") THEN last ELSE new

\* ... and state, snapshot and transition event are saved in one transaction.
SaveEvaluation(w) ==
    /\ pc[w] = "save"
    /\ state' = read[w]
    /\ logged' = Logs(prev[w], OverageState(read[w]), logged)
    /\ pc' = [pc EXCEPT ![w] = "complete"]
    /\ UNCHANGED <<usage, owed, jobVars, dead, try, read, prev, faults, fence, needed>>

\* Any read or the save fails (error, timeout of the job's context).
EvaluateFails(w) ==
    /\ pc[w] \in {"progress", "previous", "save"} /\ faults < MaxFaults
    /\ faults' = faults + 1
    /\ pc' = [pc EXCEPT ![w] = "fail"]
    /\ UNCHANGED <<usage, owed, jobVars, state, logged, dead, try, read, prev, fence, needed>>

\* The fence of Delete and Requeue: the row exists with the claimed attempt.
Holds(w) == row # "absent" /\ attempts = try[w]

\* CompleteCheckJob deletes the row; no match is ErrNotFound and ignored.
CompleteCheckJob(w) ==
    /\ pc[w] = "complete"
    /\ row' = IF Holds(w) THEN "absent" ELSE row
    /\ pc' = [pc EXCEPT ![w] = "idle"]
    /\ UNCHANGED <<usage, owed, attempts, due, state, logged, dead, try, read, prev, faults,
                   fence, needed>>

\* (mutant) the last attempt is put back as well
FailRequeuesLast(w) ==
    /\ pc[w] = "fail"
    /\ pc' = [pc EXCEPT ![w] = "idle"]
    /\ IF Holds(w) THEN row' = "free" /\ due' = FALSE ELSE UNCHANGED <<row, due>>
    /\ UNCHANGED <<usage, owed, attempts, state, logged, dead, try, read, prev, faults,
                   fence, needed>>

\* FailCheckJob puts the row back for later; the last attempt is moved to the dead
\* letters instead (DeadLetterCheckJob, one transaction).
FailCheckJob(w) ==
    /\ pc[w] = "fail"
    /\ pc' = [pc EXCEPT ![w] = "idle"]
    /\ \/ ~Holds(w) /\ UNCHANGED <<row, due, dead>>
       \/ /\ Holds(w) /\ try[w] < MaxAttempts
          /\ row' = "free" /\ due' = FALSE /\ UNCHANGED dead
       \/ /\ Holds(w) /\ try[w] >= MaxAttempts
          /\ row' = "absent" /\ dead' = dead + 1 /\ UNCHANGED due
    /\ UNCHANGED <<usage, owed, attempts, state, logged, try, read, prev, faults, fence, needed>>

\* The worker stops (crash, shutdown) or its last statement errs.
Abandon(w) ==
    /\ pc[w] # "idle" /\ faults < MaxFaults
    /\ faults' = faults + 1
    /\ pc' = [pc EXCEPT ![w] = "idle"]
    /\ UNCHANGED <<usage, owed, jobVars, state, logged, dead, try, read, prev, fence, needed>>

\* Time passes: locked_until is reached; run_after is reached.
LeaseExpires ==
    /\ row = "live"
    /\ row' = "expired"
    /\ fenced' = (fenced /\ \A w \in Worker : pc[w] = "idle")
    /\ UNCHANGED <<usage, owed, attempts, due, state, logged, dead, workerVars, faults,
                   requeued, needed>>

BecomesDue ==
    /\ row # "absent" /\ ~due
    /\ due' = TRUE
    /\ UNCHANGED <<usage, owed, row, attempts, state, logged, dead, workerVars, faults,
                   fence, needed>>

\* RetryWorkerDeadLetter: the row is inserted, or reset whoever is working on it, and
\* the dead letter is marked requeued, once.
RetryWorkerDeadLetter ==
    /\ dead > requeued /\ requeued < MaxRequeues
    /\ requeued' = requeued + 1 /\ fenced' = FALSE
    /\ row' = "free" /\ attempts' = 0 /\ due' = TRUE /\ needed' = usage
    /\ UNCHANGED <<usage, owed, state, logged, dead, workerVars, faults>>

Evaluate(w) == ReadProgress(w) \/ ReadPrevious(w) \/ SaveEvaluation(w)
ProcessOnce(w) == Evaluate(w) \/ CompleteCheckJob(w) \/ FailCheckJob(w)

Next ==
    \/ RecordUsage \/ EnqueueForUsageEvents \/ LeaseExpires \/ BecomesDue
    \/ RetryWorkerDeadLetter
    \/ \E w \in Worker : ClaimCheckJob(w) \/ ProcessOnce(w) \/ EvaluateFails(w) \/ Abandon(w)

Spec == Init /\ [][Next]_vars

\* The outbox delivers, workers poll and go on, time passes.
Fairness ==
    /\ WF_vars(EnqueueForUsageEvents) /\ WF_vars(LeaseExpires) /\ WF_vars(BecomesDue)
    /\ WF_vars(\E w \in Worker : ClaimCheckJob(w))
    /\ \A w \in Worker : WF_vars(ProcessOnce(w))

FairSpec == Spec /\ Fairness

----------------------------------------------------------------------------
(* Properties.                                                             *)

\* attempts fences what a worker does to the row, not what it saves, and a requeue
\* resets it.  The next three hold as long as workers keep within their leases (the
\* default timeout is below the lock TTL) and no dead letter is requeued.

\* The job is deleted as done only when the stored state covers all usage that the
\* enqueues which took effect had announced.
CompletionCovers ==
    [][fenced' /\ row # "absent" /\ row' = "absent" /\ dead' = dead => state >= needed]_vars

\* Within a period the stored value never goes back to an older reading.
StateAdvances == [][fenced' => state' >= state]_vars

\* The event log tells the truth: its latest transition leads to the stored state.
EventLogAgrees ==
    \/ ~fenced
    \/ logged = OverageState(state)
    \/ logged = "none" /\ OverageState(state) = "ok"

\* A job is never left behind: it is deleted, or a worker stopped during its last
\* attempt and left it where no claim takes it again.
EventuallyDrained ==
    row # "absent" ~>
        \/ row = "absent"
        \/ /\ row \in {"live", "expired"} /\ attempts = MaxAttempts
           /\ \A w \in Worker : pc[w] = "idle" \/ try[w] # attempts

(* A statement of the documentation that the code does not keep.           *)

\* The worker "stores the latest state ... a current status record": once usage
\* stops, and with workers that keep within their leases, the stored state becomes
\* the state of the counter.
StateCatchesUp == []fenced => <>[](usage > 0 => state = usage)
============================================================================
