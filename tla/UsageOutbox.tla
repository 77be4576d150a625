---------------------------- MODULE UsageOutbox ----------------------------
(***************************************************************************)
(* The transactional usage outbox and the usage workers that drain it into *)
(* the alert and entitlement queues.                                       *)
(*                                                                         *)
(* A row of usage_event_outbox is inserted in the transaction that accepts *)
(* its event.  Replicas of the usage worker claim rows with a lease and a  *)
(* fresh claim token; Complete and Retry only apply while the token is the *)
(* row's.  The clock is abstracted to two facts per row: whether the lease *)
(* is still live (locked_until > now) and whether the next attempt is due. *)
(***************************************************************************)
EXTENDS Integers

CONSTANTS
    Event,        \* accepted usage events
    Worker,       \* replicas of the usage worker
    MaxAttempts   \* OPEN_SPANNER_USAGE_WORKER_MAX_ATTEMPTS

ASSUME MaxAttemptsAssumption == MaxAttempts \in Nat \ {0}
ASSUME EventAssumption == Event # {}

VARIABLES
    status,    \* of each event's row; "none" before it exists, "gone" once deleted
    attempts, token, leased, due,
    issued,    \* claim tokens handed out so far
    pc, job, claim,   \* each worker: where it is, its message, its claim token
    fanned     \* queues that have received each event

rowVars == <<status, attempts, token, leased, due>>
workerVars == <<pc, job, claim>>
vars == <<rowVars, issued, workerVars, fanned>>

Queue == {"alerts", "entitlements"}
Status == {"none", "pending", "running", "dead_letter", "gone"}
PC == {"idle", "alerts", "entitlements", "complete", "fail"}

TypeOK ==
    /\ status \in [Event -> Status]
    /\ attempts \in [Event -> 0..MaxAttempts]
    /\ token \in [Event -> Nat]          \* 0: NULL
    /\ leased \in [Event -> BOOLEAN]
    /\ due \in [Event -> BOOLEAN]
    /\ issued \in Nat
    /\ pc \in [Worker -> PC]
    /\ job \in [Worker -> Event]
    /\ claim \in [Worker -> Nat]
    /\ fanned \in [Event -> SUBSET Queue]

Init ==
    /\ status = [e \in Event |-> "none"]
    /\ attempts = [e \in Event |-> 0]
    /\ token = [e \in Event |-> 0]
    /\ leased = [e \in Event |-> FALSE]
    /\ due = [e \in Event |-> FALSE]
    /\ issued = 0
    /\ pc = [w \in Worker |-> "idle"]
    /\ job = [w \in Worker |-> CHOOSE e \in Event : TRUE]
    /\ claim = [w \in Worker |-> 0]
    /\ fanned = [e \in Event |-> {}]

\* EnqueueUsageEventOutbox, committed with the event.
EnqueueOutbox(e) ==
    /\ status[e] = "none"
    /\ status' = [status EXCEPT ![e] = "pending"]
    /\ due' = [due EXCEPT ![e] = TRUE]
    /\ UNCHANGED <<attempts, token, leased, issued, workerVars, fanned>>

\* (mutant) a claim does not look at attempts
ClaimableForEver(e) == due[e] /\ (status[e] = "pending" \/ (status[e] = "running" /\ ~leased[e]))

\* The WHERE clause of ClaimUsageEventOutbox.
Claimable(e) ==
    /\ attempts[e] < MaxAttempts /\ due[e]
    /\ status[e] = "pending" \/ (status[e] = "running" /\ ~leased[e])

\* (mutant) a claim re-uses the row's claim token
ClaimKeepsToken(w, e) ==
    /\ pc[w] = "idle" /\ Claimable(e)
    /\ status' = [status EXCEPT ![e] = "running"]
    /\ attempts' = [attempts EXCEPT ![e] = @ + 1]
    /\ leased' = [leased EXCEPT ![e] = TRUE]
    /\ issued' = 1 /\ token' = [token EXCEPT ![e] = 1]
    /\ pc' = [pc EXCEPT ![w] = "alerts"]
    /\ job' = [job EXCEPT ![w] = e]
    /\ claim' = [claim EXCEPT ![w] = 1]
    /\ UNCHANGED <<due, fanned>>

\* ClaimOutbox: one statement takes a due row, whichever replica runs it.
ClaimOutbox(w, e) ==
    /\ pc[w] = "idle" /\ Claimable(e)
    /\ status' = [status EXCEPT ![e] = "running"]
    /\ attempts' = [attempts EXCEPT ![e] = @ + 1]
    /\ leased' = [leased EXCEPT ![e] = TRUE]
    /\ issued' = issued + 1
    /\ token' = [token EXCEPT ![e] = issued + 1]
    /\ pc' = [pc EXCEPT ![w] = "alerts"]
    /\ job' = [job EXCEPT ![w] = e]
    /\ claim' = [claim EXCEPT ![w] = issued + 1]
    /\ UNCHANGED <<due, fanned>>

Goto(w, next) ==
    /\ pc' = [pc EXCEPT ![w] = next]
    /\ UNCHANGED <<job, claim>>

\* (mutant) an error of the alert queue does not stop the dispatch
EnqueueAlertsIgnoresError(w) ==
    /\ pc[w] = "alerts"
    /\ \/ fanned' = [fanned EXCEPT ![job[w]] = @ \cup {"alerts"}]
       \/ fanned' = fanned
    /\ Goto(w, "entitlements")
    /\ UNCHANGED <<rowVars, issued>>

\* alerts.EnqueueForUsageEvents; on an error (timeout, database) the message fails.
EnqueueAlerts(w) ==
    /\ pc[w] = "alerts"
    /\ \/ fanned' = [fanned EXCEPT ![job[w]] = @ \cup {"alerts"}] /\ Goto(w, "entitlements")
       \/ fanned' = fanned /\ Goto(w, "fail")
    /\ UNCHANGED <<rowVars, issued>>

\* entitlements.EnqueueForUsageEvents
EnqueueEntitlements(w) ==
    /\ pc[w] = "entitlements"
    /\ \/ fanned' = [fanned EXCEPT ![job[w]] = @ \cup {"entitlements"}] /\ Goto(w, "complete")
       \/ fanned' = fanned /\ Goto(w, "fail")
    /\ UNCHANGED <<rowVars, issued>>

\* The row is still the one this worker claimed.
Holds(w) == status[job[w]] = "running" /\ token[job[w]] = claim[w]

\* CompleteUsageEventOutbox deletes the row; no match is ErrNotFound and ignored.
CompleteOutbox(w) ==
    /\ pc[w] = "complete"
    /\ status' = IF Holds(w) THEN [status EXCEPT ![job[w]] = "gone"] ELSE status
    /\ Goto(w, "idle")
    /\ UNCHANGED <<attempts, token, leased, due, issued, fanned>>

\* (mutant) the last attempt goes back to pending
RetryForEver(w) ==
    LET e == job[w] IN
    /\ pc[w] = "fail"
    /\ IF Holds(w)
       THEN /\ status' = [status EXCEPT ![e] = "pending"]
            /\ due' = [due EXCEPT ![e] = FALSE]
            /\ leased' = [leased EXCEPT ![e] = FALSE]
            /\ token' = [token EXCEPT ![e] = 0]
       ELSE UNCHANGED <<status, due, leased, token>>
    /\ Goto(w, "idle")
    /\ UNCHANGED <<attempts, issued, fanned>>

\* FailOutbox: RetryUsageEventOutbox puts the row back, later, or dead-letters it.
FailOutbox(w) ==
    LET e == job[w] IN
    /\ pc[w] = "fail"
    /\ IF Holds(w)
       THEN /\ status' = [status EXCEPT ![e] = IF attempts[e] >= MaxAttempts
                                               THEN "dead_letter" ELSE "pending"]
            /\ due' = [due EXCEPT ![e] = FALSE]
            /\ leased' = [leased EXCEPT ![e] = FALSE]
            /\ token' = [token EXCEPT ![e] = 0]
       ELSE UNCHANGED <<status, due, leased, token>>
    /\ Goto(w, "idle")
    /\ UNCHANGED <<attempts, issued, fanned>>

\* The worker crashes or shuts down, or its Complete or Fail statement errs: it
\* leaves the message as it is, to be reclaimed when the lease runs out.
Abandon(w) ==
    /\ pc[w] # "idle"
    /\ Goto(w, "idle")
    /\ UNCHANGED <<rowVars, issued, fanned>>

\* Time passes: locked_until is reached, whatever the worker is doing.
LeaseExpires(e) ==
    /\ status[e] = "running" /\ leased[e]
    /\ leased' = [leased EXCEPT ![e] = FALSE]
    /\ UNCHANGED <<status, attempts, token, due, issued, workerVars, fanned>>

\* ... and next_attempt_at, after the back-off of retryDelay.
BecomesDue(e) ==
    /\ status[e] = "pending" /\ ~due[e]
    /\ due' = [due EXCEPT ![e] = TRUE]
    /\ UNCHANGED <<status, attempts, token, leased, issued, workerVars, fanned>>

ProcessOnce(w) ==
    EnqueueAlerts(w) \/ EnqueueEntitlements(w) \/ CompleteOutbox(w) \/ FailOutbox(w)

Next ==
    \/ \E w \in Worker : ProcessOnce(w) \/ Abandon(w) \/ \E e \in Event : ClaimOutbox(w, e)
    \/ \E e \in Event : EnqueueOutbox(e) \/ LeaseExpires(e) \/ BecomesDue(e)

Spec == Init /\ [][Next]_vars

\* The poll loop drains the queue, oldest due row first; workers go on; time passes.
Fairness ==
    /\ \A w \in Worker : WF_vars(ProcessOnce(w))
    /\ \A e \in Event : /\ SF_vars(\E w \in Worker : ClaimOutbox(w, e))
                        /\ WF_vars(LeaseExpires(e)) /\ WF_vars(BecomesDue(e))

FairSpec == Spec /\ Fairness

----------------------------------------------------------------------------
(* Properties.                                                             *)

\* The outbox keeps its promise (module Fanout): a row is deleted only after both
\* queues have received its event, over all the attempts that were made, and a
\* dead letter is never revived or settled.
Owed(s) == CASE s = "none" -> "none" [] s \in {"pending", "running"} -> "owed"
             [] s = "gone" -> "settled" [] s = "dead_letter" -> "dead"
Promise == INSTANCE Fanout WITH state <- [e \in Event |-> Owed(status[e])], received <- fanned
FanoutPromise == Promise!Spec

\* A worker that holds a message under a live lease loses it only by finishing its
\* own attempt: no stale worker that completes or fails an earlier claim of the
\* row, and no other replica's claim, can end the attempt (at no time do two
\* replicas hold the row).
LeaseProtects ==
    [][\A w \in Worker : pc[w] # "idle" /\ Holds(w) /\ leased[job[w]] =>
          Holds(w)' \/ pc'[w] = "idle"]_vars

\* A dead letter has used up its attempts: none is given up early, and no claim
\* or late answer changes a dead letter's count afterwards.
DeadLetterExhausted ==
    \A e \in Event : status[e] = "dead_letter" => attempts[e] = MaxAttempts

\* A message whose last attempt was abandoned: no claim takes it again.
Stranded(e) ==
    /\ status[e] = "running" /\ attempts[e] = MaxAttempts
    /\ \A w \in Worker : pc[w] = "idle" \/ claim[w] # token[e]

\* An accepted event reaches both queues, becomes a dead letter, or is stranded
\* by a worker that stopped in the middle of the last attempt.
EventuallySettled ==
    \A e \in Event : status[e] = "pending" ~>
        status[e] \in {"gone", "dead_letter"} \/ Stranded(e)

(* The inductive invariant behind them.                                    *)

\* Claim tokens are never handed out twice, so no two running attempts share one.
ClaimInv ==
    /\ \A w \in Worker : claim[w] <= issued
    /\ \A v, w \in Worker : v # w /\ pc[v] # "idle" /\ pc[w] # "idle" => claim[v] # claim[w]

\* A worker works on an accepted event, and has done what its place says.
FanInv ==
    \A w \in Worker :
        /\ pc[w] # "idle" => status[job[w]] # "none"
        /\ pc[w] = "entitlements" => "alerts" \in fanned[job[w]]
        /\ pc[w] = "complete" => fanned[job[w]] = Queue
============================================================================
