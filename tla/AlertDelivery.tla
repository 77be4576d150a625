---------------------------- MODULE AlertDelivery ----------------------------
(***************************************************************************)
(* The webhook delivery of one alert event: its job row, the replicas of   *)
(* the alert worker that claim it, and the receiver.  The attempt a claim  *)
(* counts is its fence; a requeue starts the count again.                  *)
(***************************************************************************)
EXTENDS Integers

CONSTANTS
    Worker,          \* replicas of the alert worker
    MaxAttempts,     \* OPEN_SPANNER_ALERT_WORKER_MAX_ATTEMPTS
    MaxRequeues,     \* bound: requeues by a user
    MaxFaults        \* bound: crashes and failed calls

VARIABLES
    jobStatus, jobAttempts, jobLock,   \* columns of alert_delivery_jobs
    recorded,        \* alert_deliveries: whether a delivered attempt is recorded
    received,        \* whether the receiver got the webhook
    dpc, attempt,    \* each replica: where it is, the attempt it claimed
    redeliveries, dfaults

vars == <<jobStatus, jobAttempts, jobLock, recorded, received, dpc, attempt, redeliveries, dfaults>>
jobRow == <<jobStatus, jobAttempts, jobLock>>

TypeOK ==
    /\ jobStatus \in {"pending", "running", "delivered", "dead_letter"}
    /\ jobAttempts \in 0..MaxAttempts /\ jobLock \in {"none", "live", "past"}
    /\ recorded \in BOOLEAN /\ received \in BOOLEAN
    /\ dpc \in [Worker -> {"idle", "posting", "delivered", "failed"}]
    /\ attempt \in [Worker -> 0..MaxAttempts]
    /\ redeliveries \in 0..MaxRequeues /\ dfaults \in 0..MaxFaults

\* SaveDeliveryJob, in the transaction of the event
Init ==
    /\ jobStatus = "pending" /\ jobAttempts = 0 /\ jobLock = "none"
    /\ recorded = FALSE /\ received = FALSE
    /\ dpc = [w \in Worker |-> "idle"] /\ attempt = [w \in Worker |-> 0]
    /\ redeliveries = 0 /\ dfaults = 0

DFault == dfaults < MaxFaults /\ dfaults' = dfaults + 1
DGo(w, place) == dpc' = [dpc EXCEPT ![w] = place]

----------------------------------------------------------------------------
\* (mutant) the job of a replica that stopped is not taken over
ClaimPending(w) ==
    /\ dpc[w] = "idle" /\ jobAttempts < MaxAttempts /\ jobStatus = "pending"
    /\ jobStatus' = "running" /\ jobAttempts' = jobAttempts + 1 /\ jobLock' = "live"
    /\ attempt' = [attempt EXCEPT ![w] = jobAttempts'] /\ DGo(w, "posting")
    /\ UNCHANGED <<recorded, received, redeliveries, dfaults>>

\* The claim; when the destination then cannot be read the job waits for its lock.
ClaimDeliveryJob(w) ==
    /\ dpc[w] = "idle" /\ jobAttempts < MaxAttempts
    /\ jobStatus = "pending" \/ (jobStatus = "running" /\ jobLock = "past")
    /\ jobStatus' = "running" /\ jobAttempts' = jobAttempts + 1 /\ jobLock' = "live"
    /\ \/ attempt' = [attempt EXCEPT ![w] = jobAttempts'] /\ DGo(w, "posting") /\ UNCHANGED dfaults
       \/ DFault /\ UNCHANGED <<attempt, dpc>>
    /\ UNCHANGED <<recorded, received, redeliveries>>

\* The POST: it may be received and its answer lost.
DeliverWebhook(w) ==
    /\ dpc[w] = "posting"
    /\ \/ received' = TRUE /\ (DGo(w, "delivered") \/ DGo(w, "failed"))
       \/ DGo(w, "failed") /\ UNCHANGED received
    /\ UNCHANGED <<jobRow, recorded, attempt, redeliveries, dfaults>>

DHolds(w) == jobStatus = "running" /\ jobAttempts = attempt[w]

\* Each with the delivery's record in one transaction: without the fence, or with an
\* error, nothing is saved.
CompleteDeliveryJob(w) ==
    /\ dpc[w] = "delivered" /\ DGo(w, "idle") /\ attempt' = [attempt EXCEPT ![w] = 0]
    /\ \/ /\ DHolds(w) /\ jobStatus' = "delivered" /\ jobLock' = "none" /\ recorded' = TRUE
          /\ UNCHANGED <<jobAttempts, dfaults>>
       \/ ~DHolds(w) /\ UNCHANGED <<jobRow, recorded, dfaults>>
       \/ DFault /\ UNCHANGED <<jobRow, recorded>>
    /\ UNCHANGED <<received, redeliveries>>

FailDeliveryJob(w) ==
    /\ dpc[w] = "failed" /\ DGo(w, "idle") /\ attempt' = [attempt EXCEPT ![w] = 0]
    /\ \/ /\ DHolds(w) /\ jobLock' = "none" /\ UNCHANGED <<jobAttempts, dfaults>>
          /\ jobStatus' = IF jobAttempts >= MaxAttempts THEN "dead_letter" ELSE "pending"
       \/ ~DHolds(w) /\ UNCHANGED <<jobRow, dfaults>>
       \/ DFault /\ UNCHANGED jobRow
    /\ UNCHANGED <<recorded, received, redeliveries>>

RequeueDeliveryJob ==
    /\ jobStatus = "dead_letter" /\ redeliveries < MaxRequeues /\ redeliveries' = redeliveries + 1
    /\ jobStatus' = "pending" /\ jobAttempts' = 0 /\ jobLock' = "none"
    /\ UNCHANGED <<recorded, received, dpc, attempt, dfaults>>

DCrash(w) ==
    /\ dpc[w] # "idle" /\ DFault /\ DGo(w, "idle") /\ attempt' = [attempt EXCEPT ![w] = 0]
    /\ UNCHANGED <<jobRow, recorded, received, redeliveries>>

DeliveryLockExpires ==
    /\ jobLock = "live" /\ jobLock' = "past"
    /\ UNCHANGED <<jobStatus, jobAttempts, recorded, received, dpc, attempt, redeliveries, dfaults>>

----------------------------------------------------------------------------
DStep(w) == DeliverWebhook(w) \/ CompleteDeliveryJob(w) \/ FailDeliveryJob(w)

Next ==
    \/ RequeueDeliveryJob \/ DeliveryLockExpires
    \/ \E w \in Worker : ClaimDeliveryJob(w) \/ DStep(w) \/ DCrash(w)

Spec == Init /\ [][Next]_vars

----------------------------------------------------------------------------
(* Properties.                                                             *)

\* The job of a replica that stopped in the last attempt; it cannot be requeued.
DStranded ==
    /\ jobStatus = "running" /\ jobAttempts = MaxAttempts
    /\ \A w \in Worker : dpc[w] = "idle" \/ attempt[w] # jobAttempts

\* An alert's webhook is delivered and received, or given up after its attempts, or
\* stranded in the last one: whatever stale replica of an earlier attempt, or of an
\* equal attempt before a requeue, writes between.
DeliverySettles ==
    jobStatus = "pending" ~> \/ (jobStatus = "delivered" /\ received /\ recorded)
                             \/ jobStatus = "dead_letter" \/ DStranded
============================================================================
