---------------------------- MODULE CounterRepair ----------------------------
(***************************************************************************)
(* One active quota counter and the usage events it counts: ingestion adds *)
(* to both, retention prunes the events, the reconciliation scan compares  *)
(* them, and a repair rebuilds the counter from the events.                *)
(*                                                                         *)
(* Transactions are READ COMMITTED: every statement sees what is committed *)
(* when it starts, and only the counter's row lock orders them.  The scan  *)
(* runs in no transaction.  A counter is its event count, 0 without a row; *)
(* updated_at is a version.                                                *)
(***************************************************************************)
EXTENDS Integers

CONSTANTS
    Client,        \* ingesting requests
    MaxEvents,     \* bound: events accepted in the period
    MaxVersion     \* bound: changes of the counter row

VARIABLES
    total,         \* events ever accepted in the period
    pruned,        \* those of them that retention deleted
    retained,      \* whether the meter's retention covers the period so far
    runRecorded,   \* a prune run that deleted events of the period is on record
    counter, version,  \* event_count and updated_at of the row
    rowLock,       \* the transaction that holds the row: "none", "repair" or a client
    ipc,           \* each client: idle, event inserted, counter incremented
    rpc, dryRun, preview, source,  \* the repair: where it is, what it previewed and read
    spc, scanned, verdict,         \* the scan: where it is, the counter it read, its result
    drifted,       \* history: the counter was changed from outside
    racedPrune,    \* history: a prune committed between a repair's check and its read
    forgotten,     \* history: such a record was deleted with the operational history
    disturbed      \* history: something was committed since the scan began

vars == <<total, pruned, retained, runRecorded, counter, version, rowLock, ipc, rpc, dryRun, preview,
          source, spc, scanned, verdict, drifted, racedPrune, forgotten, disturbed>>

storeVars == <<total, pruned, retained, runRecorded, forgotten>>
repairVars == <<rpc, dryRun, preview, source>>
scanVars == <<spc, scanned, verdict>>

TypeOK ==
    /\ total \in 0..MaxEvents /\ pruned \in 0..total /\ retained \in BOOLEAN
    /\ counter \in 0..MaxEvents /\ version \in 0..MaxVersion
    /\ rowLock \in Client \cup {"none", "repair"}
    /\ ipc \in [Client -> {"idle", "inserted", "counted"}]
    /\ rpc \in {"idle", "locked", "checked", "read"} /\ dryRun \in BOOLEAN
    /\ preview \in 0..MaxVersion /\ source \in 0..MaxEvents
    /\ spc \in {"idle", "counter", "cutoff"} /\ scanned \in 0..MaxEvents
    /\ verdict \in {"none", "skipped", "agrees", "drift"}
    /\ drifted \in BOOLEAN /\ racedPrune \in BOOLEAN /\ disturbed \in BOOLEAN
    /\ runRecorded \in BOOLEAN /\ forgotten \in BOOLEAN

Init ==
    /\ total = 0 /\ pruned = 0 /\ retained = TRUE
    /\ counter = 0 /\ version = 0 /\ rowLock = "none"
    /\ ipc = [c \in Client |-> "idle"]
    /\ rpc = "idle" /\ dryRun = FALSE /\ preview = 0 /\ source = 0
    /\ spc = "idle" /\ scanned = 0 /\ verdict = "none"
    /\ drifted = FALSE /\ racedPrune = FALSE /\ disturbed = FALSE
    /\ runRecorded = FALSE /\ forgotten = FALSE

Events == total - pruned

----------------------------------------------------------------------------
(* Ingestion, retention, and what a repair is for.                         *)

InsertEvent(c) ==
    /\ ipc[c] = "idle" /\ ipc' = [ipc EXCEPT ![c] = "inserted"]
    /\ UNCHANGED <<storeVars, counter, version, rowLock, repairVars, scanVars, drifted,
                   racedPrune, disturbed>>

\* The upsert of the counter waits for its row.
IncrementCounter(c) ==
    /\ ipc[c] = "inserted" /\ rowLock = "none"
    /\ ipc' = [ipc EXCEPT ![c] = "counted"] /\ rowLock' = c
    /\ UNCHANGED <<storeVars, counter, version, repairVars, scanVars, drifted, racedPrune, disturbed>>

CommitEvent(c) ==
    /\ ipc[c] = "counted" /\ total < MaxEvents /\ counter < MaxEvents /\ version < MaxVersion
    /\ total' = total + 1 /\ counter' = counter + 1 /\ version' = version + 1
    /\ ipc' = [ipc EXCEPT ![c] = "idle"] /\ rowLock' = "none"
    /\ disturbed' = TRUE
    /\ UNCHANGED <<pruned, retained, runRecorded, forgotten, repairVars, scanVars, drifted,
                   racedPrune>>

RollbackEvent(c) ==
    /\ ipc[c] # "idle" /\ ipc' = [ipc EXCEPT ![c] = "idle"]
    /\ rowLock' = IF rowLock = c THEN "none" ELSE rowLock
    /\ UNCHANGED <<storeVars, counter, version, repairVars, scanVars, drifted, racedPrune, disturbed>>

\* An update of the meter's event_retention_days.
SetRetention ==
    /\ retained' = ~retained /\ disturbed' = TRUE
    /\ UNCHANGED <<total, pruned, runRecorded, forgotten, counter, version, rowLock, ipc,
                   repairVars, scanVars, drifted, racedPrune>>

\* PruneEvents deletes the events before its cutoff and records the run, in one
\* transaction; the counter keeps counting them.
PruneEvents ==
    /\ ~retained
    /\ pruned' \in (pruned + 1)..total /\ runRecorded' = TRUE
    /\ racedPrune' = (racedPrune \/ rpc = "checked")
    /\ disturbed' = TRUE
    /\ UNCHANGED <<total, retained, forgotten, counter, version, rowLock, ipc, repairVars, scanVars,
                   drifted>>

\* The history worker deletes the records of prune runs after its own retention, which
\* may be shorter than the counter's period.
PruneHistory ==
    /\ runRecorded /\ runRecorded' = FALSE /\ forgotten' = TRUE
    /\ UNCHANGED <<total, pruned, retained, counter, version, rowLock, ipc, repairVars, scanVars,
                   drifted, racedPrune, disturbed>>

\* The row is changed by something else: a restore, or a statement by hand.
CorruptCounter ==
    /\ counter > 0 /\ rowLock = "none" /\ ~drifted
    /\ counter' \in (1..MaxEvents) \ {counter}
    /\ drifted' = TRUE /\ disturbed' = TRUE
    /\ UNCHANGED <<storeVars, version, rowLock, ipc, repairVars, scanVars, racedPrune>>

----------------------------------------------------------------------------
(* RepairCounter: one transaction, as a preview (dry run) or to apply.     *)

\* The counter FOR UPDATE, with the retention of its meter.
GetCounterForRepair ==
    /\ rpc = "idle" /\ counter > 0 /\ rowLock = "none" /\ version < MaxVersion
    /\ rowLock' = "repair" /\ rpc' = "locked"
    /\ retained
    /\ dryRun' \in BOOLEAN /\ (dryRun' \/ preview # 0)
    /\ UNCHANGED <<storeVars, counter, version, ipc, preview, source, scanVars, drifted,
                   racedPrune, disturbed>>

\* (mutant) the recorded prune runs are not looked at
CheckVersionOnly ==
    /\ rpc = "locked" /\ (dryRun \/ preview = version)
    /\ rpc' = "checked"
    /\ UNCHANGED <<storeVars, counter, version, rowLock, ipc, dryRun, preview, source, scanVars,
                   drifted, racedPrune, disturbed>>

\* FindLatestMeterPruneCutoff and the expected version.
CheckRepair ==
    /\ rpc = "locked" /\ ~runRecorded /\ (dryRun \/ preview = version)
    /\ rpc' = "checked"
    /\ UNCHANGED <<storeVars, counter, version, rowLock, ipc, dryRun, preview, source, scanVars,
                   drifted, racedPrune, disturbed>>

\* matchedCounterEvents
ReadSource ==
    /\ rpc = "checked" /\ rpc' = "read" /\ source' = Events
    /\ UNCHANGED <<storeVars, counter, version, rowLock, ipc, dryRun, preview, scanVars,
                   drifted, racedPrune, disturbed>>

\* The counter is replaced, or deleted when there are no events, and the run saved.
FinishRepair ==
    /\ rpc = "read" /\ rpc' = "idle" /\ rowLock' = "none" /\ source' = 0
    /\ \/ dryRun /\ preview' = version /\ UNCHANGED <<counter, version, drifted, disturbed>>
       \/ /\ ~dryRun /\ counter' = source /\ version' = version + 1 /\ preview' = 0
          /\ drifted' = FALSE /\ disturbed' = TRUE
    /\ dryRun' = FALSE
    /\ UNCHANGED <<storeVars, ipc, scanVars, racedPrune>>

\* An error, a conflict, or a source that is not complete rolls back.
RollbackRepair ==
    /\ rpc # "idle" /\ rpc' = "idle" /\ rowLock' = "none" /\ source' = 0 /\ dryRun' = FALSE
    /\ UNCHANGED <<storeVars, counter, version, ipc, preview, scanVars, drifted, racedPrune, disturbed>>

----------------------------------------------------------------------------
(* Reconcile: the counter, the prune runs and the events, each on its own. *)

ListCounters ==
    /\ spc = "idle" /\ counter > 0
    /\ scanned' = counter /\ disturbed' = FALSE
    /\ \/ retained /\ spc' = "counter" /\ verdict' = "none"
       \/ ~retained /\ spc' = "idle" /\ verdict' = "skipped"
    /\ UNCHANGED <<storeVars, counter, version, rowLock, ipc, repairVars, drifted, racedPrune>>

\* (mutant) the recorded prune runs are not looked at
CutoffIgnored ==
    /\ spc = "counter" /\ spc' = "cutoff"
    /\ UNCHANGED <<storeVars, counter, version, rowLock, ipc, repairVars, scanned, verdict,
                   drifted, racedPrune, disturbed>>

FindPruneCutoff ==
    /\ spc = "counter"
    /\ \/ ~runRecorded /\ spc' = "cutoff" /\ UNCHANGED verdict
       \/ runRecorded /\ spc' = "idle" /\ verdict' = "skipped"
    /\ UNCHANGED <<storeVars, counter, version, rowLock, ipc, repairVars, scanned, drifted,
                   racedPrune, disturbed>>

ReconcileCounter ==
    /\ spc = "cutoff" /\ spc' = "idle"
    /\ verdict' = IF scanned = Events THEN "agrees" ELSE "drift"
    /\ UNCHANGED <<storeVars, counter, version, rowLock, ipc, repairVars, scanned, drifted,
                   racedPrune, disturbed>>

----------------------------------------------------------------------------
Next ==
    \/ \E c \in Client : InsertEvent(c) \/ IncrementCounter(c) \/ CommitEvent(c) \/ RollbackEvent(c)
    \/ SetRetention \/ PruneEvents \/ PruneHistory \/ CorruptCounter
    \/ GetCounterForRepair \/ CheckRepair \/ ReadSource \/ FinishRepair \/ RollbackRepair
    \/ ListCounters \/ FindPruneCutoff \/ ReconcileCounter

Spec == Init /\ [][Next]_vars

----------------------------------------------------------------------------
(* Properties.                                                             *)

\* A counter that nothing outside changed counts every accepted event of the period,
\* those that retention deleted too; a repair beside ingestion and pruning loses and
\* repeats none, unless a prune committed between its check and its read or the record
\* of a prune was deleted before the period ended.  Even then it counts every stored
\* event, and none that was not accepted.
CounterCountsAccepted ==
    ~drifted => /\ Events <= counter /\ counter <= total
                /\ ~racedPrune /\ ~forgotten => counter = total

\* A scan beside which nothing was committed reports drift if and only if the counter
\* differs from the accepted events, and never because events were pruned, as long as
\* the prune is on record.
ScanIsRight ==
    ~disturbed /\ ~forgotten =>
        /\ verdict = "drift" => counter # total
        /\ verdict = "agrees" => counter = total
============================================================================
