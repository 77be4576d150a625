---------------------------- MODULE MCOperations ----------------------------
(***************************************************************************)
(* The independent parts that work beside ingestion and consumption,       *)
(* checked in one run: which of them a behaviour is about is chosen in its *)
(* initial state, and the others stay in theirs.                           *)
(***************************************************************************)
EXTENDS Integers, FiniteSets

CONSTANTS
    Client, MaxEvents, MaxVersion,                                \* CounterRepair
    Worker, Drift, MaxAttempts, MaxRuns, MaxRequeues, MaxFaults,  \* ReconciliationSchedule
    Plan, Caller, MaxTime, MaxCalls, MaxUpdates,                  \* PlanAssignments
    RateEvents, MaxWindow                                         \* IngestionLimit

VARIABLES
    part,
    total, pruned, retained, runRecorded, counter, version, rowLock, ipc, rpc, dryRun, preview, source,
    spc, scanned, verdict, drifted, racedPrune, forgotten, disturbed,
    present, lastFingerprint, lastNotified, lastFailure, holder, lease, notes, noteCount,
    wpc, claimed, found, note, runs, requeues, sfaults,
    jobStatus, jobAttempts, jobLock, recorded, received, dpc, attempt, redeliveries, dfaults,
    now, current, rows, apc, call, overlapping, calls, updates,
    clock, window, permitted, throttled, lpc, mine, size, admitted, late

Repair == INSTANCE CounterRepair
Schedule == INSTANCE ReconciliationSchedule
Delivery == INSTANCE AlertDelivery
Plans == INSTANCE PlanAssignments
Limit == INSTANCE IngestionLimit

\* A client is not one of the other values of rowLock, nor a replica the empty token.
ASSUME RepairAssumption ==
    MaxEvents \in Nat /\ MaxVersion \in Nat /\ "none" \notin Client /\ "repair" \notin Client
ASSUME ScheduleAssumption ==
    /\ MaxRuns \in Nat \ {0} /\ MaxAttempts \in Nat \ {0} /\ MaxRequeues \in Nat /\ MaxFaults \in Nat
    /\ Schedule!Nobody \notin Worker
ASSUME PlanAssumption ==
    Plan # {} /\ MaxTime \in Nat /\ MaxCalls \in Nat /\ MaxUpdates \in Nat
ASSUME LimitAssumption == RateEvents \in Nat /\ MaxWindow \in Nat

repairVars == <<total, pruned, retained, runRecorded, counter, version, rowLock, ipc, rpc, dryRun, preview, source,
                spc, scanned, verdict, drifted, racedPrune, forgotten, disturbed>>
scheduleVars == <<present, lastFingerprint, lastNotified, lastFailure, holder, lease, notes, noteCount,
                  wpc, claimed, found, note, runs, requeues, sfaults>>
deliveryVars == <<jobStatus, jobAttempts, jobLock, recorded, received, dpc, attempt, redeliveries, dfaults>>
planVars == <<now, current, rows, apc, call, overlapping, calls, updates>>
limitVars == <<clock, window, permitted, throttled, lpc, mine, size, admitted, late>>
vars == <<part, repairVars, scheduleVars, deliveryVars, planVars, limitVars>>

Init ==
    /\ part \in {"repair", "schedule", "delivery", "plans", "limit"}
    /\ Repair!Init /\ Schedule!Init /\ Delivery!Init /\ Plans!Init /\ Limit!Init

RepairStep ==
    /\ part = "repair" /\ Repair!Next
    /\ UNCHANGED <<part, scheduleVars, deliveryVars, planVars, limitVars>>

ScheduleStep(A) ==
    /\ part = "schedule" /\ A
    /\ UNCHANGED <<part, repairVars, deliveryVars, planVars, limitVars>>

DeliveryStep(A) ==
    /\ part = "delivery" /\ A
    /\ UNCHANGED <<part, repairVars, scheduleVars, planVars, limitVars>>

PlansStep ==
    /\ part = "plans" /\ Plans!Next
    /\ UNCHANGED <<part, repairVars, scheduleVars, deliveryVars, limitVars>>

LimitStep ==
    /\ part = "limit" /\ Limit!Next
    /\ UNCHANGED <<part, repairVars, scheduleVars, deliveryVars, planVars>>

Next ==
    RepairStep \/ ScheduleStep(Schedule!Next) \/ DeliveryStep(Delivery!Next) \/ PlansStep \/ LimitStep

\* The workers come to the end of what they hold (which, as every step leads there, is
\* weak fairness of SStep and DStep), claim what there is to deliver, and a lock that
\* nobody renews runs out.
Fairness ==
    /\ \A w \in Worker : []<>(wpc[w] = "idle")
    /\ \A n \in Schedule!NoteId :
          /\ WF_vars(ScheduleStep(\E w \in Worker : Schedule!ClaimNotification(w, n)))
          /\ WF_vars(ScheduleStep(Schedule!NoteLeaseExpires(n)))
    /\ \A w \in Worker : []<>(dpc[w] = "idle")
    /\ WF_vars(DeliveryStep(\E w \in Worker : Delivery!ClaimDeliveryJob(w)))
    /\ WF_vars(DeliveryStep(Delivery!DeliveryLockExpires))

Spec == Init /\ [][Next]_vars
FairSpec == Spec /\ Fairness

\* The types of every part.
TypeOK ==
    Repair!TypeOK /\ Schedule!TypeOK /\ Delivery!TypeOK /\ Plans!TypeOK /\ Limit!TypeOK

\* CounterRepair: a repair beside ingestion and pruning counts every accepted event; one
\* that a prune raced, or whose prune record is gone, still every stored one.
CounterCountsAccepted == Repair!CounterCountsAccepted

\* CounterRepair: a scan that nothing disturbed reports drift if and only if there is.
ScanIsRight == Repair!ScanIsRight

\* ReconciliationSchedule: a drift is announced once, whatever replicas do.
DriftAnnouncedOnce == Schedule!DriftAnnouncedOnce

\* ReconciliationSchedule: no notification is stranded.
NotificationSettles == part = "schedule" => Schedule!NotificationSettles

\* AlertDelivery: a webhook is received, given up, or stranded in its last attempt.
DeliverySettles == part = "delivery" => Delivery!DeliverySettles

\* PlanAssignments: a subject has at most one plan at a time, in its current version.
OneCurrentPlan == Plans!OneCurrentPlan

\* IngestionLimit: no window admits more than the limit, and one limit more for every
\* request that came late.
WindowWithinLimit == Limit!WindowWithinLimit
============================================================================
