-------------------------- MODULE OperationsProofs --------------------------
(***************************************************************************)
(* What the parts beside ingestion and consumption promise, for every      *)
(* number of clients, replicas, events, runs and windows: of each part on  *)
(* its own, and of MCOperations, whose behaviours are behaviours of each.  *)
(***************************************************************************)
EXTENDS MCOperations, FiniteSetTheorems, TLAPS

(* CounterRepair: the repair.                                              *)

\* The row is locked by the transaction that is past its locking statement.
LockHeld ==
    /\ rowLock = "repair" <=> rpc # "idle"
    /\ \A c \in Client : rowLock = c <=> ipc[c] = "counted"

\* While the repair holds the row the counter is not written by anyone else.
RepairFits == rpc # "idle" => version < MaxVersion

\* A prune of the period is on record, until the history is pruned.
Recorded == pruned > 0 => runRecorded \/ forgotten

\* What the repair checked and read still covers every accepted event.
SourceComplete ==
    /\ rpc = "checked" /\ ~racedPrune /\ ~forgotten => pruned = 0
    /\ rpc = "read" /\ ~racedPrune /\ ~forgotten => source = total
CountsAll == ~drifted /\ ~racedPrune /\ ~forgotten => counter = total

\* What it read covers the stored events in any case: pruning only takes more away.
StoredCovered ==
    /\ rpc = "read" => total - pruned <= source /\ source <= total
    /\ ~drifted => total - pruned <= counter /\ counter <= total

RepairInv ==
    Repair!TypeOK /\ LockHeld /\ RepairFits /\ Recorded /\ SourceComplete /\ CountsAll /\ StoredCovered

LEMMA RepairInit == Repair!Init => RepairInv
<1> SUFFICES ASSUME Repair!Init PROVE RepairInv OBVIOUS
<1>1. Repair!TypeOK
  <2>1. /\ retained \in BOOLEAN /\ dryRun \in BOOLEAN
        /\ drifted \in BOOLEAN /\ racedPrune \in BOOLEAN /\ disturbed \in BOOLEAN
        /\ runRecorded \in BOOLEAN /\ forgotten \in BOOLEAN
    BY DEF Repair!Init
  <2>2. ipc \in [Client -> {"idle", "inserted", "counted"}] BY DEF Repair!Init
  <2>3. /\ total \in 0..MaxEvents /\ pruned \in 0..total
        /\ counter \in 0..MaxEvents /\ version \in 0..MaxVersion
        /\ preview \in 0..MaxVersion /\ source \in 0..MaxEvents /\ scanned \in 0..MaxEvents
    BY RepairAssumption DEF Repair!Init
  <2> QED BY <2>1, <2>2, <2>3 DEF Repair!Init, Repair!TypeOK
<1>2. LockHeld BY RepairAssumption DEF Repair!Init, LockHeld
<1>3. RepairFits /\ Recorded /\ SourceComplete /\ CountsAll /\ StoredCovered
  BY DEF Repair!Init, RepairFits, Recorded, SourceComplete, CountsAll, StoredCovered
<1> QED BY <1>1, <1>2, <1>3 DEF RepairInv

\* Every step keeps the types: the version of the row is bounded because a repair
\* took the row below its bound and nobody else writes it since.
LEMMA RepairTypes == ASSUME RepairInv, [Repair!Next]_(Repair!vars) PROVE Repair!TypeOK'
<1> USE RepairAssumption DEF RepairInv, Repair!TypeOK
<1>1. ASSUME NEW c \in Client, Repair!InsertEvent(c) PROVE Repair!TypeOK'
  BY <1>1 DEF Repair!InsertEvent, Repair!storeVars, Repair!repairVars, Repair!scanVars
<1>2. ASSUME NEW c \in Client, Repair!IncrementCounter(c) PROVE Repair!TypeOK'
  BY <1>2 DEF Repair!IncrementCounter, Repair!storeVars, Repair!repairVars, Repair!scanVars
<1>3. ASSUME NEW c \in Client, Repair!CommitEvent(c) PROVE Repair!TypeOK'
  BY <1>3 DEF Repair!CommitEvent, Repair!repairVars, Repair!scanVars
<1>4. ASSUME NEW c \in Client, Repair!RollbackEvent(c) PROVE Repair!TypeOK'
  BY <1>4 DEF Repair!RollbackEvent, Repair!storeVars, Repair!repairVars, Repair!scanVars
<1>5. ASSUME Repair!SetRetention PROVE Repair!TypeOK'
  BY <1>5 DEF Repair!SetRetention, Repair!repairVars, Repair!scanVars
<1>6. ASSUME Repair!PruneEvents \/ Repair!PruneHistory PROVE Repair!TypeOK'
  <2>1. CASE Repair!PruneEvents
    <3>1. /\ racedPrune' \in BOOLEAN /\ disturbed' \in BOOLEAN /\ runRecorded' \in BOOLEAN
          /\ pruned' \in 0..total'
      BY <2>1 DEF Repair!PruneEvents
    <3>2. UNCHANGED <<total, retained, forgotten, counter, version, rowLock, ipc, rpc, dryRun,
                      preview, source, spc, scanned, verdict, drifted>>
      BY <2>1 DEF Repair!PruneEvents, Repair!repairVars, Repair!scanVars
    <3> QED BY <3>1, <3>2
  <2>2. CASE Repair!PruneHistory
    <3>1. runRecorded' \in BOOLEAN /\ forgotten' \in BOOLEAN BY <2>2 DEF Repair!PruneHistory
    <3>2. UNCHANGED <<total, pruned, retained, counter, version, rowLock, ipc, rpc, dryRun,
                      preview, source, spc, scanned, verdict, drifted, racedPrune, disturbed>>
      BY <2>2 DEF Repair!PruneHistory, Repair!repairVars, Repair!scanVars
    <3> QED BY <3>1, <3>2
  <2> QED BY <1>6, <2>1, <2>2
<1>7. ASSUME Repair!CorruptCounter PROVE Repair!TypeOK'
  BY <1>7 DEF Repair!CorruptCounter, Repair!storeVars, Repair!repairVars, Repair!scanVars
<1>8. ASSUME Repair!GetCounterForRepair \/ Repair!CheckRepair \/ Repair!ReadSource PROVE Repair!TypeOK'
  <2>1. CASE Repair!GetCounterForRepair BY <2>1 DEF Repair!GetCounterForRepair, Repair!storeVars, Repair!scanVars
  <2>2. CASE Repair!CheckRepair BY <2>2 DEF Repair!CheckRepair, Repair!storeVars, Repair!scanVars
  <2>3. CASE Repair!ReadSource BY <2>3 DEF Repair!ReadSource, Repair!Events, Repair!storeVars, Repair!scanVars
  <2> QED BY <1>8, <2>1, <2>2, <2>3
<1>9. ASSUME Repair!FinishRepair PROVE Repair!TypeOK'
  <2>1. version' \in 0..MaxVersion /\ counter' \in 0..MaxEvents /\ preview' \in 0..MaxVersion
    BY <1>9 DEF Repair!FinishRepair, RepairFits
  <2>2. drifted' \in BOOLEAN /\ disturbed' \in BOOLEAN
    BY <1>9 DEF Repair!FinishRepair
  <2>3. /\ dryRun' \in BOOLEAN /\ retained' \in BOOLEAN /\ racedPrune' \in BOOLEAN
        /\ runRecorded' \in BOOLEAN /\ forgotten' \in BOOLEAN
    BY <1>9 DEF Repair!FinishRepair, Repair!storeVars
  <2>4. /\ rpc' = "idle" /\ rowLock' = "none" /\ source' = 0
        /\ UNCHANGED <<total, pruned, ipc, spc, scanned, verdict>>
    BY <1>9 DEF Repair!FinishRepair, Repair!storeVars, Repair!scanVars
  <2> QED BY <2>1, <2>2, <2>3, <2>4
<1>10. ASSUME Repair!RollbackRepair PROVE Repair!TypeOK'
  <2>1. dryRun' \in BOOLEAN BY <1>10 DEF Repair!RollbackRepair
  <2>2. /\ rpc' = "idle" /\ rowLock' = "none" /\ source' = 0
        /\ UNCHANGED <<total, pruned, retained, runRecorded, forgotten, counter, version, ipc,
                       preview, spc, scanned, verdict, drifted, racedPrune, disturbed>>
    BY <1>10 DEF Repair!RollbackRepair, Repair!storeVars, Repair!scanVars
  <2> QED BY <2>1, <2>2
<1>11. ASSUME Repair!ListCounters \/ Repair!FindPruneCutoff \/ Repair!ReconcileCounter PROVE Repair!TypeOK'
  <2>1. CASE Repair!ListCounters BY <2>1 DEF Repair!ListCounters, Repair!storeVars, Repair!repairVars
  <2>2. CASE Repair!FindPruneCutoff BY <2>2 DEF Repair!FindPruneCutoff, Repair!storeVars, Repair!repairVars
  <2>3. CASE Repair!ReconcileCounter BY <2>3 DEF Repair!ReconcileCounter, Repair!storeVars, Repair!repairVars
  <2> QED BY <1>11, <2>1, <2>2, <2>3
<1>12. ASSUME UNCHANGED Repair!vars PROVE Repair!TypeOK'
  BY <1>12 DEF Repair!vars
<1> QED BY <1>1, <1>2, <1>3, <1>4, <1>5, <1>6, <1>7, <1>8, <1>9, <1>10, <1>11, <1>12 DEF Repair!Next

\* The counter's row lock orders ingestion and the repair; pruning takes no lock, and
\* is what racedPrune records.
LEMMA RepairKeeps ==
    ASSUME RepairInv, [Repair!Next]_(Repair!vars)
    PROVE (LockHeld /\ RepairFits /\ Recorded /\ SourceComplete /\ CountsAll)'
<1> DEFINE Rest == LockHeld /\ RepairFits /\ Recorded /\ SourceComplete /\ CountsAll
<1> USE RepairAssumption DEF RepairInv, Repair!TypeOK, LockHeld, RepairFits, Recorded, SourceComplete, CountsAll
<1>1. ASSUME NEW c \in Client, Repair!InsertEvent(c) PROVE Rest'
  BY <1>1 DEF Repair!InsertEvent, Repair!storeVars, Repair!repairVars
<1>2. ASSUME NEW c \in Client, Repair!IncrementCounter(c) PROVE Rest'
  BY <1>2 DEF Repair!IncrementCounter, Repair!storeVars, Repair!repairVars
<1>3. ASSUME NEW c \in Client, Repair!CommitEvent(c) PROVE Rest'
  <2>1. rpc = "idle" /\ rowLock = c BY <1>3 DEF Repair!CommitEvent
  <2> QED BY <1>3, <2>1 DEF Repair!CommitEvent, Repair!repairVars
<1>4. ASSUME NEW c \in Client, Repair!RollbackEvent(c) PROVE Rest'
  BY <1>4 DEF Repair!RollbackEvent, Repair!storeVars, Repair!repairVars
<1>5. ASSUME Repair!SetRetention PROVE Rest'
  BY <1>5 DEF Repair!SetRetention, Repair!repairVars
<1>6. ASSUME Repair!PruneEvents \/ Repair!PruneHistory PROVE Rest'
  BY <1>6 DEF Repair!PruneEvents, Repair!PruneHistory, Repair!repairVars
<1>7. ASSUME Repair!CorruptCounter PROVE Rest'
  BY <1>7 DEF Repair!CorruptCounter, Repair!storeVars, Repair!repairVars
<1>8. ASSUME Repair!GetCounterForRepair PROVE Rest'
  BY <1>8 DEF Repair!GetCounterForRepair, Repair!storeVars
<1>9. ASSUME Repair!CheckRepair \/ Repair!ReadSource PROVE Rest'
  BY <1>9 DEF Repair!CheckRepair, Repair!ReadSource, Repair!Events, Repair!storeVars
<1>10. ASSUME Repair!FinishRepair PROVE Rest'
  BY <1>10 DEF Repair!FinishRepair, Repair!storeVars
<1>11. ASSUME Repair!RollbackRepair PROVE Rest'
  BY <1>11 DEF Repair!RollbackRepair, Repair!storeVars
<1>12. ASSUME Repair!ListCounters \/ Repair!FindPruneCutoff \/ Repair!ReconcileCounter PROVE Rest'
  BY <1>12 DEF Repair!ListCounters, Repair!FindPruneCutoff, Repair!ReconcileCounter, Repair!storeVars, Repair!repairVars
<1>13. ASSUME UNCHANGED Repair!vars PROVE Rest'
  BY <1>13 DEF Repair!vars
<1> QED BY <1>1, <1>2, <1>3, <1>4, <1>5, <1>6, <1>7, <1>8, <1>9, <1>10, <1>11, <1>12, <1>13
        DEF Repair!Next

LEMMA FewerLeft ==
    \A t, p, n \in Nat : \A q \in Int : p <= q /\ t - p <= n => t - q <= n
OBVIOUS

LEMMA StoredKept == ASSUME RepairInv, [Repair!Next]_(Repair!vars) PROVE StoredCovered'
<1>0. /\ total \in Nat /\ pruned \in Nat /\ pruned <= total /\ counter \in Nat /\ source \in Nat
      /\ StoredCovered /\ drifted \in BOOLEAN
  BY RepairAssumption DEF RepairInv, Repair!TypeOK
<1>1. CASE UNCHANGED <<total, pruned, counter, drifted, source>> /\ (rpc' = rpc \/ rpc' # "read")
  BY <1>0, <1>1 DEF StoredCovered
<1>2. ASSUME NEW c \in Client, Repair!CommitEvent(c) PROVE StoredCovered'
  <2>1. rpc = "idle"
    BY <1>2, RepairAssumption DEF Repair!CommitEvent, RepairInv, LockHeld
  <2>2. /\ total' = total + 1 /\ counter' = counter + 1
        /\ UNCHANGED <<pruned, rpc, drifted>>
    BY <1>2 DEF Repair!CommitEvent, Repair!repairVars
  <2> QED BY <1>0, <2>1, <2>2 DEF StoredCovered
<1>3. ASSUME Repair!PruneEvents PROVE StoredCovered'
  <2>1. pruned' \in (pruned + 1)..total BY <1>3 DEF Repair!PruneEvents
  <2>2. UNCHANGED <<total, counter, drifted, rpc, source>>
    BY <1>3 DEF Repair!PruneEvents, Repair!repairVars
  <2>3. total \in Nat /\ pruned \in Nat /\ counter \in Nat /\ source \in Nat BY <1>0
  <2>4. pruned' \in Int /\ pruned <= pruned' BY <2>1, <2>3
  <2>5. \A n \in Nat : total - pruned <= n => total - pruned' <= n
    BY <2>3, <2>4, FewerLeft
  <2>6. rpc = "read" => total - pruned' <= source /\ source <= total
    BY <1>0, <2>5 DEF StoredCovered
  <2>7. ~drifted => total - pruned' <= counter /\ counter <= total
    BY <1>0, <2>5 DEF StoredCovered
  <2> QED BY <2>2, <2>6, <2>7 DEF StoredCovered
<1>4. ASSUME Repair!CorruptCounter PROVE StoredCovered'
  <2>1. drifted' /\ UNCHANGED <<total, pruned, rpc, source>>
    BY <1>4 DEF Repair!CorruptCounter, Repair!storeVars, Repair!repairVars
  <2> QED BY <1>0, <2>1 DEF StoredCovered
<1>5. ASSUME Repair!ReadSource PROVE StoredCovered'
  <2>1. source' = total - pruned /\ UNCHANGED <<total, pruned, counter, drifted>>
    BY <1>5 DEF Repair!ReadSource, Repair!Events, Repair!storeVars
  <2> QED BY <1>0, <2>1 DEF StoredCovered
<1>6. ASSUME Repair!FinishRepair PROVE StoredCovered'
  <2>1. rpc = "read" /\ rpc' = "idle" /\ UNCHANGED <<total, pruned>>
    BY <1>6 DEF Repair!FinishRepair, Repair!storeVars
  <2>2. UNCHANGED <<counter, drifted>> \/ counter' = source
    BY <1>6 DEF Repair!FinishRepair
  <2> QED BY <1>0, <2>1, <2>2 DEF StoredCovered
<1>7. ASSUME Repair!RollbackRepair PROVE StoredCovered'
  <2>1. rpc' = "idle" /\ UNCHANGED <<total, pruned, counter, drifted>>
    BY <1>7 DEF Repair!RollbackRepair, Repair!storeVars
  <2> QED BY <1>0, <2>1 DEF StoredCovered
<1>8. ASSUME \/ \E c \in Client : Repair!InsertEvent(c) \/ Repair!IncrementCounter(c) \/ Repair!RollbackEvent(c)
             \/ Repair!SetRetention \/ Repair!PruneHistory \/ Repair!GetCounterForRepair \/ Repair!CheckRepair
             \/ Repair!ListCounters \/ Repair!FindPruneCutoff \/ Repair!ReconcileCounter
             \/ UNCHANGED Repair!vars
      PROVE StoredCovered'
  BY <1>1, <1>8
     DEF Repair!InsertEvent, Repair!IncrementCounter, Repair!RollbackEvent, Repair!SetRetention,
         Repair!PruneHistory, Repair!GetCounterForRepair, Repair!CheckRepair, Repair!ListCounters,
         Repair!FindPruneCutoff, Repair!ReconcileCounter, Repair!vars, Repair!storeVars,
         Repair!repairVars, Repair!scanVars
<1> QED BY <1>2, <1>3, <1>4, <1>5, <1>6, <1>7, <1>8 DEF Repair!Next

LEMMA RepairInductive == Repair!Spec => []RepairInv
<1>1. Repair!Init => RepairInv BY RepairInit
<1>2. RepairInv /\ [Repair!Next]_(Repair!vars) => RepairInv'
  BY RepairTypes, RepairKeeps, StoredKept DEF RepairInv
<1> QED BY <1>1, <1>2, PTL DEF Repair!Spec

\* The counter of a period counts every event accepted in it, whatever ingestion,
\* retention and repairs (app/system/repair.go) interleave, unless something outside
\* changed it, a prune committed between a repair's check and its read, or the record
\* of a prune was deleted; in the last two cases it still counts every stored event
\* and no event that was not accepted.
THEOREM RepairCountsAccepted == Repair!Spec => []Repair!CounterCountsAccepted
<1>1. RepairInv => Repair!CounterCountsAccepted
  BY DEF RepairInv, CountsAll, StoredCovered, Repair!CounterCountsAccepted, Repair!Events
<1> QED BY <1>1, RepairInductive, PTL

----------------------------------------------------------------------------
(* The scan.                                                               *)

\* While nothing is committed, what the scan read is what there is.
ScanInv ==
    /\ spc # "idle" => verdict = "none"
    /\ ~disturbed => /\ spc # "idle" => scanned = counter
                     /\ spc = "cutoff" /\ ~forgotten => pruned = 0
    /\ Repair!ScanIsRight

LEMMA ScanStep == ASSUME Repair!TypeOK, Recorded, ScanInv, [Repair!Next]_(Repair!vars) PROVE ScanInv'
<1> USE DEF Repair!TypeOK, Recorded, ScanInv, Repair!ScanIsRight
<1>1. ASSUME NEW c \in Client, Repair!InsertEvent(c) \/ Repair!IncrementCounter(c) \/ Repair!RollbackEvent(c)
      PROVE ScanInv'
  BY <1>1 DEF Repair!InsertEvent, Repair!IncrementCounter, Repair!RollbackEvent, Repair!storeVars, Repair!scanVars
<1>2. ASSUME NEW c \in Client, Repair!CommitEvent(c) PROVE ScanInv'
  BY <1>2 DEF Repair!CommitEvent, Repair!scanVars
<1>3. ASSUME Repair!SetRetention \/ Repair!PruneEvents \/ Repair!PruneHistory PROVE ScanInv'
  BY <1>3 DEF Repair!SetRetention, Repair!PruneEvents, Repair!PruneHistory, Repair!scanVars
<1>4. ASSUME Repair!CorruptCounter PROVE ScanInv'
  BY <1>4 DEF Repair!CorruptCounter, Repair!scanVars
<1>5. ASSUME Repair!GetCounterForRepair \/ Repair!CheckRepair \/ Repair!ReadSource \/ Repair!RollbackRepair PROVE ScanInv'
  BY <1>5 DEF Repair!GetCounterForRepair, Repair!CheckRepair, Repair!ReadSource, Repair!RollbackRepair, Repair!storeVars, Repair!scanVars
<1>6. ASSUME Repair!FinishRepair PROVE ScanInv'
  BY <1>6 DEF Repair!FinishRepair, Repair!storeVars, Repair!scanVars
<1>7. ASSUME Repair!ListCounters PROVE ScanInv'
  BY <1>7 DEF Repair!ListCounters, Repair!storeVars
<1>8. ASSUME Repair!FindPruneCutoff PROVE ScanInv'
  BY <1>8 DEF Repair!FindPruneCutoff, Repair!storeVars
<1>9. ASSUME Repair!ReconcileCounter PROVE ScanInv'
  BY <1>9 DEF Repair!ReconcileCounter, Repair!Events, Repair!storeVars
<1>10. ASSUME UNCHANGED Repair!vars PROVE ScanInv'
  BY <1>10 DEF Repair!vars
<1> QED BY <1>1, <1>2, <1>3, <1>4, <1>5, <1>6, <1>7, <1>8, <1>9, <1>10 DEF Repair!Next

\* The scan of app/system/service.go, when nothing is committed beside it and no record
\* of a prune was deleted, reports drift if and only if the counter differs from the accepted events.
THEOREM ScanReportsDrift == Repair!Spec => []Repair!ScanIsRight
<1>1. Repair!Init => ScanInv BY DEF Repair!Init, ScanInv, Repair!ScanIsRight
<1>2. RepairInv /\ ScanInv /\ [Repair!Next]_(Repair!vars) => ScanInv' BY ScanStep DEF RepairInv
<1>3. ScanInv => Repair!ScanIsRight BY DEF ScanInv
<1> QED BY <1>1, <1>2, <1>3, RepairInductive, PTL DEF Repair!Spec

----------------------------------------------------------------------------
(* ReconciliationSchedule.                                                 *)

Busy == {"scanning", "saving", "failing"}

NoteRec == [kind : {"none", "drift_detected", "scan_failed"}, fingerprint : Schedule!Found \cup {"failed"},
            status : {"none", "pending", "delivered", "dead_letter"}, attempts : Nat,
            holder : Worker \cup {Schedule!Nobody}, lease : {"none", "live", "past"}]

\* The columns the argument is about, with their types.
Rows ==
    /\ present \in Schedule!Found /\ lastFingerprint \in Schedule!Found /\ lastFailure \in {"none", "failed"}
    /\ holder \in Worker \cup {Schedule!Nobody}
    /\ noteCount \in Nat /\ runs \in Nat /\ runs <= MaxRuns
    /\ notes \in [Schedule!NoteId -> NoteRec]
    /\ wpc \in [Worker -> Busy \cup {"idle", "notifying", "sent", "unsent"}]
    /\ claimed \in [Worker -> [fingerprint : Schedule!Found, failure : {"none", "failed"}]]
    /\ found \in [Worker -> Schedule!Found] /\ note \in [Worker -> Schedule!NoteId \cup {0}]

\* Every claim saves at most one notification.
Budget == noteCount + (IF holder = Schedule!Nobody THEN 0 ELSE 1) <= runs

\* The notifications not saved yet are empty.
Fresh == \A n \in Schedule!NoteId : n > noteCount => notes[n].kind = "none"

\* The holder of the schedule knows its last fingerprint: nobody wrote it since.
KnowsLast ==
    \A w \in Worker : holder = w /\ wpc[w] \in Busy => claimed[w].fingerprint = lastFingerprint

ScheduleInv == Rows /\ Budget /\ Fresh /\ KnowsLast

\* A saved notification is a new one, and the others stay.
LEMMA SavedNote ==
    ASSUME Rows, Fresh, noteCount < MaxRuns,
           NEW kind \in {"drift_detected", "scan_failed"}, NEW f \in Schedule!Found \cup {"failed"},
           Schedule!SaveNotification(kind, f)
    PROVE /\ noteCount' = noteCount + 1 /\ noteCount' \in Schedule!NoteId
          /\ notes' \in [Schedule!NoteId -> NoteRec]
          /\ notes[noteCount'].kind = "none" /\ notes'[noteCount'].kind = kind
          /\ \A n \in Schedule!NoteId \ {noteCount'} : notes'[n] = notes[n]
<1>1. noteCount' = noteCount + 1 /\ noteCount' \in Schedule!NoteId
  BY ScheduleAssumption DEF Schedule!SaveNotification, Schedule!NoteId, Rows
<1> DEFINE new == [Schedule!NoNote EXCEPT !.kind = kind, !.fingerprint = f, !.status = "pending"]
<1>2. new \in NoteRec /\ new.kind = kind BY DEF Schedule!NoNote, NoteRec
<1>3. notes' = [notes EXCEPT ![noteCount'] = new] BY DEF Schedule!SaveNotification
<1> HIDE DEF new
<1> QED BY <1>1, <1>2, <1>3 DEF Rows, Fresh

\* What SaveRun, by the holder, writes.
LEMMA SavedRun ==
    ASSUME ScheduleInv, NEW w \in Worker, wpc[w] = "saving", holder = w, Schedule!SaveRun(w)
    PROVE /\ holder' = Schedule!Nobody /\ lastFingerprint' = found[w] /\ lastFailure' = "none"
          /\ notes' \in [Schedule!NoteId -> NoteRec]
          /\ \/ /\ found[w] # "none" /\ found[w] # lastFingerprint
                /\ noteCount' = noteCount + 1 /\ noteCount' \in Schedule!NoteId
                /\ notes[noteCount'].kind = "none" /\ notes'[noteCount'].kind = "drift_detected"
                /\ \A n \in Schedule!NoteId \ {noteCount'} : notes'[n] = notes[n]
             \/ /\ found[w] = "none" \/ found[w] = lastFingerprint
                /\ UNCHANGED <<notes, noteCount>>
<1>1. claimed[w].fingerprint = lastFingerprint BY DEF ScheduleInv, KnowsLast, Busy
<1>2. noteCount < MaxRuns BY ScheduleAssumption DEF ScheduleInv, Rows, Budget
<1>3. holder' = Schedule!Nobody /\ lastFingerprint' = found[w] /\ lastFailure' = "none" BY DEF Schedule!SaveRun, Schedule!Unlock
<1>4. CASE found[w] # "none" /\ found[w] # claimed[w].fingerprint
  <2>1. Schedule!SaveNotification("drift_detected", found[w]) BY <1>4 DEF Schedule!SaveRun
  <2>2. found[w] \in Schedule!Found \cup {"failed"} BY DEF ScheduleInv, Rows
  <2> QED BY <1>1, <1>2, <1>3, <1>4, <2>1, <2>2, SavedNote DEF ScheduleInv
<1>5. CASE ~(found[w] # "none" /\ found[w] # claimed[w].fingerprint)
  BY <1>1, <1>3, <1>5 DEF Schedule!SaveRun, Schedule!noteVars, ScheduleInv, Rows
<1> QED BY <1>4, <1>5

\* A notification that is claimed, settled, requeued or whose lease runs out keeps
\* its kind.
LEMMA ClaimedNote ==
    ASSUME NEW r \in NoteRec, NEW w \in Worker
    PROVE /\ [r EXCEPT !.holder = w, !.lease = "live"] \in NoteRec
          /\ [r EXCEPT !.holder = w, !.lease = "live"].kind = r.kind
<1>1. [r EXCEPT !.holder = w, !.lease = "live"] \in NoteRec BY DEF NoteRec
<1>2. [r EXCEPT !.holder = w, !.lease = "live"].kind = r.kind BY DEF NoteRec
<1> QED BY <1>1, <1>2

LEMMA ExpiredNote ==
    ASSUME NEW r \in NoteRec
    PROVE [r EXCEPT !.lease = "past"] \in NoteRec /\ [r EXCEPT !.lease = "past"].kind = r.kind
<1>1. [r EXCEPT !.lease = "past"] \in NoteRec BY DEF NoteRec
<1>2. [r EXCEPT !.lease = "past"].kind = r.kind BY DEF NoteRec
<1> QED BY <1>1, <1>2

LEMMA SettledNote ==
    ASSUME NEW r \in NoteRec, NEW st \in {"delivered", "dead_letter", "pending"}, NEW k \in Nat
    PROVE /\ [r EXCEPT !.status = st, !.attempts = k, !.holder = Schedule!Nobody, !.lease = "none"] \in NoteRec
          /\ [r EXCEPT !.status = st, !.attempts = k, !.holder = Schedule!Nobody, !.lease = "none"].kind = r.kind
<1>1. [r EXCEPT !.status = st, !.attempts = k, !.holder = Schedule!Nobody, !.lease = "none"] \in NoteRec
  BY DEF NoteRec
<1>2. [r EXCEPT !.status = st, !.attempts = k, !.holder = Schedule!Nobody, !.lease = "none"].kind = r.kind
  BY DEF NoteRec
<1> QED BY <1>1, <1>2

LEMMA OneNote ==
    ASSUME notes \in [Schedule!NoteId -> NoteRec], NEW m, NEW new,
           m \in Schedule!NoteId => new \in NoteRec /\ new.kind = notes[m].kind,
           notes' = [notes EXCEPT ![m] = new]
    PROVE notes' \in [Schedule!NoteId -> NoteRec] /\ \A k \in Schedule!NoteId : notes'[k].kind = notes[k].kind
OBVIOUS

LEMMA NoteWrites ==
    ASSUME Rows, NEW n \in Schedule!NoteId,
           \/ \E w \in Worker :
                 Schedule!ClaimNotification(w, n) \/ Schedule!CompleteNotification(w) \/ Schedule!RetryNotification(w)
           \/ Schedule!RequeueNotification(n) \/ Schedule!NoteLeaseExpires(n)
    PROVE notes' \in [Schedule!NoteId -> NoteRec] /\ \A k \in Schedule!NoteId : notes'[k].kind = notes[k].kind
<1> DEFINE Kept == notes' \in [Schedule!NoteId -> NoteRec] /\ \A k \in Schedule!NoteId : notes'[k].kind = notes[k].kind
<1>0. notes \in [Schedule!NoteId -> NoteRec] BY DEF Rows
<1>1. ASSUME NEW w \in Worker, NEW st \in {"delivered", "dead_letter", "pending"}, Schedule!Settle(w, st) PROVE Kept
  <2> DEFINE new == [notes[note[w]] EXCEPT !.status = st,
                                           !.attempts = notes[note[w]].attempts + 1,
                                           !.holder = Schedule!Nobody, !.lease = "none"]
  <2>1. ASSUME note[w] \in Schedule!NoteId PROVE new \in NoteRec /\ new.kind = notes[note[w]].kind
    <3>1. notes[note[w]] \in NoteRec BY <1>0, <2>1
    <3>2. notes[note[w]].attempts + 1 \in Nat BY <3>1 DEF NoteRec
    <3>3. new \in NoteRec BY <3>1, <3>2 DEF NoteRec
    <3>4. new.kind = notes[note[w]].kind BY <3>1 DEF NoteRec
    <3> QED BY <3>3, <3>4
  <2>2. notes' = [notes EXCEPT ![note[w]] = new] BY <1>1 DEF Schedule!Settle
  <2> HIDE DEF new
  <2> QED BY <1>0, <2>1, <2>2, OneNote
<1>2. ASSUME NEW w \in Worker, Schedule!ClaimNotification(w, n) PROVE Kept
  <2>1. notes[n] \in NoteRec BY <1>0
  <2>2. notes' = [notes EXCEPT ![n] = [notes[n] EXCEPT !.holder = w, !.lease = "live"]]
    BY <1>2 DEF Schedule!ClaimNotification
  <2> QED BY <1>0, <2>1, <2>2, ClaimedNote, OneNote
<1>3. ASSUME NEW w \in Worker, Schedule!CompleteNotification(w) PROVE Kept
  <2>1. Schedule!Settle(w, "delivered") \/ notes' = notes BY <1>3 DEF Schedule!CompleteNotification
  <2> QED BY <1>0, <1>1, <2>1
<1>4. ASSUME NEW w \in Worker, Schedule!RetryNotification(w) PROVE Kept
  <2>1. Schedule!Settle(w, "dead_letter") \/ Schedule!Settle(w, "pending") \/ notes' = notes
    BY <1>4 DEF Schedule!RetryNotification
  <2> QED BY <1>0, <1>1, <2>1
<1>5. CASE Schedule!RequeueNotification(n)
  <2>1. notes[n] \in NoteRec BY <1>0
  <2>2. notes' = [notes EXCEPT ![n] = [notes[n] EXCEPT !.status = "pending", !.attempts = 0,
                                                       !.holder = Schedule!Nobody, !.lease = "none"]]
    BY <1>5 DEF Schedule!RequeueNotification
  <2> QED BY <1>0, <2>1, <2>2, SettledNote, OneNote
<1>6. CASE Schedule!NoteLeaseExpires(n)
  <2>1. notes[n] \in NoteRec BY <1>0
  <2>2. notes' = [notes EXCEPT ![n] = [notes[n] EXCEPT !.lease = "past"]]
    BY <1>6 DEF Schedule!NoteLeaseExpires
  <2> QED BY <1>0, <2>1, <2>2, ExpiredNote, OneNote
<1> QED BY <1>2, <1>3, <1>4, <1>5, <1>6

----------------------------------------------------------------------------
(* The invariant.                                                          *)

LEMMA ScheduleInit == Schedule!Init => ScheduleInv
<1> SUFFICES ASSUME Schedule!Init PROVE ScheduleInv OBVIOUS
<1> USE ScheduleAssumption DEF Schedule!Init
<1>1. Schedule!NoNote \in NoteRec /\ Schedule!NoNote.kind = "none" BY DEF Schedule!NoNote, NoteRec, Schedule!Found
<1>2. notes \in [Schedule!NoteId -> NoteRec] BY <1>1
<1>3. claimed \in [Worker -> [fingerprint : Schedule!Found, failure : {"none", "failed"}]]
  BY DEF Schedule!Unclaimed, Schedule!Found
<1>4. Rows BY <1>2, <1>3 DEF Rows, Schedule!Found, Busy
<1>5. Budget /\ Fresh /\ KnowsLast BY <1>1 DEF Budget, Fresh, KnowsLast
<1> QED BY <1>4, <1>5 DEF ScheduleInv

\* A step that leaves the schedule, the claims and the notifications' kinds alone, and
\* moves no replica into a scan.
LEMMA Elsewhere ==
    ASSUME ScheduleInv,
           UNCHANGED <<lastFingerprint, lastFailure, holder, noteCount, runs, claimed>>, present' \in Schedule!Found,
           notes' \in [Schedule!NoteId -> NoteRec], \A k \in Schedule!NoteId : notes'[k].kind = notes[k].kind,
           wpc' \in [Worker -> Busy \cup {"idle", "notifying", "sent", "unsent"}],
           \A w \in Worker : wpc'[w] \in Busy => wpc[w] \in Busy,
           found' \in [Worker -> Schedule!Found], note' \in [Worker -> Schedule!NoteId \cup {0}]
    PROVE ScheduleInv'
BY DEF ScheduleInv, Rows, Budget, Fresh, KnowsLast

\* The holder's steps: what it claims it knows, and what it writes it gives up.
LEMMA ScheduleKeeps == ASSUME ScheduleInv, [Schedule!Next]_(Schedule!vars) PROVE ScheduleInv'
<1> USE ScheduleAssumption
<1>0. Rows BY DEF ScheduleInv
<1>1. ASSUME Schedule!DriftChanges \/ Schedule!ScheduleLeaseExpires PROVE ScheduleInv'
  BY <1>0, <1>1, Elsewhere DEF Schedule!DriftChanges, Schedule!ScheduleLeaseExpires, Schedule!scheduleVars, Schedule!noteVars,
     Schedule!replicaVars, Schedule!sbounds, Rows
<1>2. ASSUME NEW w \in Worker, NEW n \in Schedule!NoteId,
             \/ Schedule!ClaimNotification(w, n) \/ Schedule!CompleteNotification(w) \/ Schedule!RetryNotification(w)
      PROVE ScheduleInv'
  <2>1. notes' \in [Schedule!NoteId -> NoteRec] /\ \A k \in Schedule!NoteId : notes'[k].kind = notes[k].kind
    BY <1>0, <1>2, NoteWrites
  <2>2. UNCHANGED <<present, lastFingerprint, lastFailure, holder, noteCount, runs, claimed, found>>
    BY <1>2 DEF Schedule!ClaimNotification, Schedule!CompleteNotification, Schedule!RetryNotification, Schedule!scheduleVars, Schedule!sbounds
  <2>3. wpc' = [wpc EXCEPT ![w] = "notifying"] \/ wpc' = [wpc EXCEPT ![w] = "idle"]
    BY <1>2 DEF Schedule!ClaimNotification, Schedule!CompleteNotification, Schedule!RetryNotification, Schedule!SGo
  <2>4. note' \in [Worker -> Schedule!NoteId \cup {0}]
    BY <1>0, <1>2 DEF Schedule!ClaimNotification, Schedule!CompleteNotification, Schedule!RetryNotification, Rows
  <2>5. wpc' \in [Worker -> Busy \cup {"idle", "notifying", "sent", "unsent"}]
    BY <1>0, <2>3 DEF Rows
  <2>6. \A v \in Worker : wpc'[v] \in Busy => wpc[v] \in Busy BY <1>0, <2>3 DEF Rows, Busy
  <2>7. found' \in [Worker -> Schedule!Found] /\ present' \in Schedule!Found BY <1>0, <2>2 DEF Rows
  <2> QED BY <2>1, <2>2, <2>4, <2>5, <2>6, <2>7, Elsewhere
<1>3. ASSUME NEW n \in Schedule!NoteId, Schedule!RequeueNotification(n) \/ Schedule!NoteLeaseExpires(n)
      PROVE ScheduleInv'
  <2>1. notes' \in [Schedule!NoteId -> NoteRec] /\ \A k \in Schedule!NoteId : notes'[k].kind = notes[k].kind
    BY <1>0, <1>3, NoteWrites
  <2> QED BY <1>0, <1>3, <2>1, Elsewhere DEF Schedule!RequeueNotification, Schedule!NoteLeaseExpires, Schedule!scheduleVars,
        Schedule!replicaVars, Rows
<1>4. ASSUME NEW w \in Worker, Schedule!Notify(w) \/ Schedule!SCrash(w) PROVE ScheduleInv'
  <2>1. UNCHANGED <<present, lastFingerprint, lastFailure, holder, notes, noteCount, runs, claimed, found>>
    BY <1>4 DEF Schedule!Notify, Schedule!SCrash, Schedule!scheduleVars, Schedule!noteVars, Schedule!sbounds
  <2>2. \E place \in {"sent", "unsent", "idle"} : wpc' = [wpc EXCEPT ![w] = place]
    BY <1>4 DEF Schedule!Notify, Schedule!SCrash, Schedule!SGo
  <2>3. note' \in [Worker -> Schedule!NoteId \cup {0}] BY <1>0, <1>4 DEF Schedule!Notify, Schedule!SCrash, Rows
  <2>4. wpc' \in [Worker -> Busy \cup {"idle", "notifying", "sent", "unsent"}]
    BY <1>0, <2>2 DEF Rows
  <2>5. \A v \in Worker : wpc'[v] \in Busy => wpc[v] \in Busy BY <1>0, <2>2 DEF Rows, Busy
  <2> QED BY <1>0, <2>1, <2>3, <2>4, <2>5, Elsewhere DEF Rows
<1>5. ASSUME NEW w \in Worker, Schedule!Reconcile(w) PROVE ScheduleInv'
  <2>1. UNCHANGED <<present, lastFingerprint, lastFailure, holder, notes, noteCount, runs, claimed, note>>
    BY <1>5 DEF Schedule!Reconcile, Schedule!scheduleVars, Schedule!noteVars
  <2>2. wpc[w] \in Busy /\ \E place \in Busy : wpc' = [wpc EXCEPT ![w] = place]
    BY <1>5 DEF Schedule!Reconcile, Schedule!SGo, Busy
  <2>3. wpc' \in [Worker -> Busy \cup {"idle", "notifying", "sent", "unsent"}]
    BY <1>0, <2>2 DEF Rows
  <2>4. \A v \in Worker : wpc'[v] \in Busy => wpc[v] \in Busy BY <1>0, <2>2 DEF Rows
  <2>5. found' \in [Worker -> Schedule!Found] BY <1>0, <1>5 DEF Schedule!Reconcile, Rows
  <2> QED BY <1>0, <2>1, <2>3, <2>4, <2>5, Elsewhere DEF Rows
<1>6. ASSUME NEW w \in Worker, Schedule!ClaimSchedule(w) PROVE ScheduleInv'
  <2>1. runs' = runs + 1 /\ runs < MaxRuns /\ holder' = w
    BY <1>6 DEF Schedule!ClaimSchedule
  <2>2. UNCHANGED <<present, lastFingerprint, lastFailure, notes, noteCount, found, note>>
    BY <1>6 DEF Schedule!ClaimSchedule, Schedule!noteVars
  <2>3. wpc' \in [Worker -> Busy \cup {"idle", "notifying", "sent", "unsent"}]
    BY <1>0, <1>6 DEF Schedule!ClaimSchedule, Schedule!SGo, Rows, Busy
  <2> DEFINE new == [fingerprint |-> lastFingerprint, failure |-> lastFailure]
  <2>4. new \in [fingerprint : Schedule!Found, failure : {"none", "failed"}]
        /\ new.fingerprint = lastFingerprint
    BY <1>0 DEF Rows
  <2>5. claimed' = [claimed EXCEPT ![w] = new] BY <1>6 DEF Schedule!ClaimSchedule
  <2> HIDE DEF new
  <2>6. claimed' \in [Worker -> [fingerprint : Schedule!Found, failure : {"none", "failed"}]]
        /\ claimed'[w].fingerprint = lastFingerprint
    BY <1>0, <2>4, <2>5 DEF Rows
  <2>7. Rows' BY <1>0, <2>1, <2>2, <2>3, <2>6 DEF Rows
  <2>8. Budget' BY <1>0, <2>1, <2>2 DEF Rows, Budget, ScheduleInv
  <2>9. Fresh' BY <2>2 DEF Fresh, ScheduleInv
  <2>10. KnowsLast' BY <2>1, <2>2, <2>6 DEF KnowsLast
  <2> QED BY <2>7, <2>8, <2>9, <2>10 DEF ScheduleInv
<1>7. ASSUME NEW w \in Worker, Schedule!CompleteSchedule(w) PROVE ScheduleInv'
  <2>1. /\ wpc[w] = "saving" /\ UNCHANGED <<present, runs, claimed, found, note>>
        /\ \E place \in {"idle", "failing"} : wpc' = [wpc EXCEPT ![w] = place]
    BY <1>7 DEF Schedule!CompleteSchedule, Schedule!SGo
  <2>2. wpc' \in [Worker -> Busy \cup {"idle", "notifying", "sent", "unsent"}]
    BY <1>0, <2>1 DEF Rows, Busy
  <2>3. CASE holder = w /\ Schedule!SaveRun(w)
    <3>1. /\ holder' = Schedule!Nobody /\ lastFingerprint' = found[w] /\ lastFailure' = "none"
          /\ notes' \in [Schedule!NoteId -> NoteRec]
          /\ noteCount' \in {noteCount, noteCount + 1}
          /\ \A n \in Schedule!NoteId : n > noteCount' => notes'[n] = notes[n]
      BY <2>1, <2>3, SavedRun DEF Schedule!NoteId
    <3>2. Rows' BY <1>0, <2>1, <2>2, <3>1 DEF Rows
    <3>3. Budget'
      <4>1. noteCount + 1 <= runs BY <2>3 DEF Budget, ScheduleInv
      <4>2. noteCount' <= runs' BY <1>0, <2>1, <3>1, <4>1 DEF Rows
      <4>3. (IF holder' = Schedule!Nobody THEN 0 ELSE 1) = 0 BY <3>1
      <4>4. noteCount' \in Nat BY <1>0, <3>1 DEF Rows
      <4> QED BY <4>2, <4>3, <4>4 DEF Budget
    <3>4. Fresh' BY <1>0, <3>1 DEF Fresh, ScheduleInv, Schedule!NoteId, Rows
    <3>5. KnowsLast' BY <3>1 DEF KnowsLast
    <3> QED BY <3>2, <3>3, <3>4, <3>5 DEF ScheduleInv
  <2>4. CASE UNCHANGED <<Schedule!scheduleVars, Schedule!noteVars>>
    <3>1. \A v \in Worker : wpc'[v] \in Busy => wpc[v] \in Busy BY <1>0, <2>1 DEF Rows, Busy
    <3> QED BY <1>0, <2>1, <2>2, <2>4, <3>1, Elsewhere DEF Schedule!scheduleVars, Schedule!noteVars, Rows
  <2> QED BY <1>7, <2>3, <2>4 DEF Schedule!CompleteSchedule
<1>8. ASSUME NEW w \in Worker, Schedule!FailSchedule(w) PROVE ScheduleInv'
  <2>1. /\ UNCHANGED <<present, lastFingerprint, runs, claimed, found, note>>
        /\ wpc' = [wpc EXCEPT ![w] = "idle"]
    BY <1>8 DEF Schedule!FailSchedule, Schedule!SGo, Schedule!scheduleVars
  <2>2. wpc' \in [Worker -> Busy \cup {"idle", "notifying", "sent", "unsent"}]
    BY <1>0, <2>1 DEF Rows, Busy
  <2>3. \A v \in Worker : wpc'[v] \in Busy => wpc[v] \in Busy BY <1>0, <2>1 DEF Rows, Busy
  <2>4. CASE UNCHANGED <<Schedule!scheduleVars, Schedule!noteVars>>
    BY <1>0, <2>1, <2>2, <2>3, <2>4, Elsewhere DEF Schedule!scheduleVars, Schedule!noteVars, Rows
  <2>5. CASE /\ holder = w /\ Schedule!Unlock /\ lastFailure' = "failed"
             /\ (Schedule!SaveNotification("scan_failed", "failed") \/ UNCHANGED Schedule!noteVars)
    <3>1. noteCount < MaxRuns BY <1>0, <2>5 DEF ScheduleInv, Rows, Budget
    <3>2. /\ holder' = Schedule!Nobody /\ notes' \in [Schedule!NoteId -> NoteRec]
          /\ noteCount' \in {noteCount, noteCount + 1}
          /\ \A n \in Schedule!NoteId : n > noteCount' => notes'[n] = notes[n]
      BY <1>0, <2>5, <3>1, SavedNote DEF Schedule!Unlock, Schedule!noteVars, ScheduleInv, Rows, Schedule!NoteId
    <3>3. Rows' BY <1>0, <2>1, <2>2, <2>5, <3>2 DEF Rows
    <3>4. Budget'
      <4>1. noteCount + 1 <= runs BY <2>5 DEF Budget, ScheduleInv
      <4>2. noteCount' <= runs' BY <1>0, <2>1, <3>2, <4>1 DEF Rows
      <4>3. (IF holder' = Schedule!Nobody THEN 0 ELSE 1) = 0 BY <3>2
      <4>4. noteCount' \in Nat BY <1>0, <3>2 DEF Rows
      <4> QED BY <4>2, <4>3, <4>4 DEF Budget
    <3>5. Fresh' BY <1>0, <3>2 DEF Fresh, ScheduleInv, Schedule!NoteId, Rows
    <3>6. KnowsLast' BY <3>2 DEF KnowsLast
    <3> QED BY <3>3, <3>4, <3>5, <3>6 DEF ScheduleInv
  <2> QED BY <1>8, <2>4, <2>5 DEF Schedule!FailSchedule
<1>9. ASSUME UNCHANGED Schedule!vars PROVE ScheduleInv'
  BY <1>0, <1>9, Elsewhere DEF Schedule!vars, Schedule!scheduleVars, Schedule!noteVars, Schedule!replicaVars, Schedule!sbounds, Rows
<1>10. 1 \in Schedule!NoteId BY DEF Schedule!NoteId
<1> QED BY <1>1, <1>2, <1>3, <1>4, <1>5, <1>6, <1>7, <1>8, <1>9, <1>10 DEF Schedule!Next, Schedule!SStep

----------------------------------------------------------------------------
(* The announcement.                                                       *)

\* A notification of drift is saved exactly when the schedule learns a new one.
Announces ==
    (\E n \in Schedule!NoteId : notes[n].kind = "none" /\ notes'[n].kind = "drift_detected")
        <=> (lastFingerprint' # lastFingerprint /\ lastFingerprint' # "none")

\* Steps that save no drift and learn none.
LEMMA Quiet ==
    ASSUME lastFingerprint' = lastFingerprint,
           \A n \in Schedule!NoteId : notes'[n].kind \in {notes[n].kind, "scan_failed"}
    PROVE Announces
BY DEF Announces

LEMMA AnnounceStep == ASSUME ScheduleInv, [Schedule!Next]_(Schedule!vars) PROVE Announces
<1> USE ScheduleAssumption
<1>0. Rows BY DEF ScheduleInv
<1>1. ASSUME NEW w \in Worker, Schedule!CompleteSchedule(w) PROVE Announces
  <2>1. CASE holder = w /\ Schedule!SaveRun(w)
    <3>1. wpc[w] = "saving" BY <1>1 DEF Schedule!CompleteSchedule
    <3> QED BY <2>1, <3>1, SavedRun DEF Announces
  <2>2. CASE UNCHANGED <<Schedule!scheduleVars, Schedule!noteVars>>
    BY <2>2, Quiet DEF Schedule!scheduleVars, Schedule!noteVars
  <2> QED BY <1>1, <2>1, <2>2 DEF Schedule!CompleteSchedule
<1>2. ASSUME NEW w \in Worker, Schedule!FailSchedule(w) PROVE Announces
  <2>1. lastFingerprint' = lastFingerprint BY <1>2 DEF Schedule!FailSchedule, Schedule!scheduleVars
  <2>2. CASE UNCHANGED Schedule!noteVars BY <2>1, <2>2, Quiet DEF Schedule!noteVars
  <2>3. CASE holder = w /\ Schedule!SaveNotification("scan_failed", "failed")
    <3>1. noteCount < MaxRuns BY <1>0, <2>3 DEF ScheduleInv, Rows, Budget
    <3>2. noteCount' \in Schedule!NoteId /\ notes'[noteCount'].kind = "scan_failed"
          /\ \A n \in Schedule!NoteId \ {noteCount'} : notes'[n] = notes[n]
      BY <1>0, <2>3, <3>1, SavedNote DEF ScheduleInv
    <3> QED BY <2>1, <3>2, Quiet
  <2> QED BY <1>2, <2>2, <2>3 DEF Schedule!FailSchedule
<1>3. ASSUME NEW n \in Schedule!NoteId,
             \/ \E w \in Worker :
                   Schedule!ClaimNotification(w, n) \/ Schedule!CompleteNotification(w) \/ Schedule!RetryNotification(w)
             \/ Schedule!RequeueNotification(n) \/ Schedule!NoteLeaseExpires(n)
      PROVE Announces
  <2>1. \A k \in Schedule!NoteId : notes'[k].kind = notes[k].kind BY <1>0, <1>3, NoteWrites
  <2>2. lastFingerprint' = lastFingerprint
    BY <1>3 DEF Schedule!ClaimNotification, Schedule!CompleteNotification, Schedule!RetryNotification, Schedule!RequeueNotification,
       Schedule!NoteLeaseExpires, Schedule!scheduleVars
  <2> QED BY <2>1, <2>2, Quiet
<1>4. ASSUME NEW w \in Worker, Schedule!ClaimSchedule(w) \/ Schedule!Reconcile(w) \/ Schedule!Notify(w) \/ Schedule!SCrash(w)
      PROVE Announces
  BY <1>4, Quiet DEF Schedule!ClaimSchedule, Schedule!Reconcile, Schedule!Notify, Schedule!SCrash, Schedule!scheduleVars, Schedule!noteVars
<1>5. ASSUME Schedule!DriftChanges \/ Schedule!ScheduleLeaseExpires \/ UNCHANGED Schedule!vars PROVE Announces
  BY <1>5, Quiet DEF Schedule!DriftChanges, Schedule!ScheduleLeaseExpires, Schedule!vars, Schedule!scheduleVars, Schedule!noteVars
<1>6. 1 \in Schedule!NoteId BY DEF Schedule!NoteId
<1> QED BY <1>1, <1>2, <1>3, <1>4, <1>5, <1>6 DEF Schedule!Next, Schedule!SStep

\* Whatever replicas scan, fail, stop or come back after their lease, a drift is
\* announced exactly when the schedule learns of it (adapters/postgres/
\* system_repository.go, CompleteReconciliationSchedule).
THEOREM AnnouncedOnce == Schedule!Spec => Schedule!DriftAnnouncedOnce
<1>1. Schedule!Init => ScheduleInv BY ScheduleInit
<1>2. ScheduleInv /\ [Schedule!Next]_(Schedule!vars) => ScheduleInv' BY ScheduleKeeps
<1>3. ScheduleInv /\ [Schedule!Next]_(Schedule!vars) => [Announces]_(Schedule!vars) BY AnnounceStep
<1>4. Schedule!DriftAnnouncedOnce <=> [][Announces]_(Schedule!vars) BY DEF Schedule!DriftAnnouncedOnce, Announces
<1> QED BY <1>1, <1>2, <1>3, <1>4, PTL DEF Schedule!Spec

----------------------------------------------------------------------------
(* The types of the schedule and of the delivery.                          *)

\* A notification that someone holds is pending, and a pending one has an attempt left.
AttemptLeft(r) ==
    /\ r.attempts <= MaxAttempts
    /\ r.status = "pending" => r.attempts < MaxAttempts
    /\ r.holder # Schedule!Nobody => r.status = "pending"

ScheduleBounds ==
    /\ lastNotified \in Schedule!Found /\ lease \in {"none", "live", "past"}
    /\ requeues \in 0..MaxRequeues /\ sfaults \in 0..MaxFaults
    /\ \A n \in Schedule!NoteId : AttemptLeft(notes[n])

LEMMA OneLeft ==
    ASSUME notes \in [Schedule!NoteId -> NoteRec], \A n \in Schedule!NoteId : AttemptLeft(notes[n]),
           NEW m, NEW new, m \in Schedule!NoteId => AttemptLeft(new),
           notes' = [notes EXCEPT ![m] = new]
    PROVE \A n \in Schedule!NoteId : AttemptLeft(notes'[n])
OBVIOUS

\* The writers of notifications keep an attempt for those that are pending.
LEMMA LeftAfter ==
    ASSUME Rows, ScheduleBounds,
           \/ \E kind \in {"drift_detected", "scan_failed"}, f \in Schedule!Found \cup {"failed"} :
                 Schedule!SaveNotification(kind, f)
           \/ \E w \in Worker : \/ \E n \in Schedule!NoteId : Schedule!ClaimNotification(w, n)
                                \/ Schedule!CompleteNotification(w) \/ Schedule!RetryNotification(w)
           \/ \E n \in Schedule!NoteId : Schedule!RequeueNotification(n) \/ Schedule!NoteLeaseExpires(n)
    PROVE \A n \in Schedule!NoteId : AttemptLeft(notes'[n])
<1> DEFINE Kept == \A n \in Schedule!NoteId : AttemptLeft(notes'[n])
<1>0. notes \in [Schedule!NoteId -> NoteRec] /\ \A n \in Schedule!NoteId : AttemptLeft(notes[n])
  BY DEF Rows, ScheduleBounds
<1>1. \A n \in Schedule!NoteId : notes[n] \in NoteRec /\ notes[n].attempts \in Nat BY <1>0 DEF NoteRec
<1>2. MaxAttempts \in Nat /\ MaxAttempts > 0 /\ Schedule!Nobody \notin Worker BY ScheduleAssumption
<1>3. ASSUME NEW kind \in {"drift_detected", "scan_failed"}, NEW f \in Schedule!Found \cup {"failed"},
             Schedule!SaveNotification(kind, f)
      PROVE Kept
  <2> DEFINE new == [Schedule!NoNote EXCEPT !.kind = kind, !.fingerprint = f, !.status = "pending"]
  <2>1. AttemptLeft(new) BY <1>2 DEF AttemptLeft, Schedule!NoNote
  <2>2. notes' = [notes EXCEPT ![noteCount'] = new] BY <1>3 DEF Schedule!SaveNotification
  <2> HIDE DEF new
  <2> QED BY <1>0, <2>1, <2>2, OneLeft
<1>4. ASSUME NEW w \in Worker, NEW n \in Schedule!NoteId, Schedule!ClaimNotification(w, n) PROVE Kept
  <2> DEFINE new == [notes[n] EXCEPT !.holder = w, !.lease = "live"]
  <2>1. notes[n].status = "pending" BY <1>4 DEF Schedule!ClaimNotification
  <2>2. new.status = notes[n].status /\ new.attempts = notes[n].attempts BY <1>1 DEF NoteRec
  <2>3. AttemptLeft(new) BY <1>0, <2>1, <2>2 DEF AttemptLeft
  <2>4. notes' = [notes EXCEPT ![n] = new] BY <1>4 DEF Schedule!ClaimNotification
  <2> HIDE DEF new
  <2> QED BY <1>0, <2>3, <2>4, OneLeft
<1>5. ASSUME NEW w \in Worker, notes[note[w]].holder = w, NEW st, Schedule!Settle(w, st),
             st = "pending" => ~(notes[note[w]].attempts + 1 >= MaxAttempts)
      PROVE Kept
  <2> DEFINE old == notes[note[w]]
             new == [old EXCEPT !.status = st, !.attempts = old.attempts + 1,
                                !.holder = Schedule!Nobody, !.lease = "none"]
  <2>1. ASSUME note[w] \in Schedule!NoteId PROVE AttemptLeft(new)
    <3>1. old \in NoteRec /\ old.attempts \in Nat BY <1>1, <2>1
    <3>2. old.attempts < MaxAttempts BY <1>0, <1>2, <1>5, <2>1 DEF AttemptLeft
    <3>3. new.status = st /\ new.attempts = old.attempts + 1 /\ new.holder = Schedule!Nobody
      BY <3>1 DEF NoteRec
    <3> HIDE DEF old, new
    <3>4. st = "pending" => ~(old.attempts + 1 >= MaxAttempts) BY <1>5 DEF old
    <3> QED BY <1>2, <3>1, <3>2, <3>3, <3>4 DEF AttemptLeft
  <2>2. notes' = [notes EXCEPT ![note[w]] = new] BY <1>5 DEF Schedule!Settle
  <2> HIDE DEF new, old
  <2> QED BY <1>0, <2>1, <2>2, OneLeft
<1>6. ASSUME NEW w \in Worker, Schedule!CompleteNotification(w) PROVE Kept
  <2>1. (notes[note[w]].holder = w /\ Schedule!Settle(w, "delivered")) \/ notes' = notes
    BY <1>6 DEF Schedule!CompleteNotification
  <2> QED BY <1>0, <1>5, <2>1
<1>7. ASSUME NEW w \in Worker, Schedule!RetryNotification(w) PROVE Kept
  <2>1. \/ notes' = notes
        \/ /\ notes[note[w]].holder = w
           /\ Schedule!Settle(w, IF notes[note[w]].attempts + 1 >= MaxAttempts THEN "dead_letter" ELSE "pending")
    BY <1>7 DEF Schedule!RetryNotification
  <2> QED BY <1>0, <1>5, <2>1
<1>8. ASSUME NEW n \in Schedule!NoteId, Schedule!RequeueNotification(n) PROVE Kept
  <2> DEFINE new == [notes[n] EXCEPT !.status = "pending", !.attempts = 0,
                                     !.holder = Schedule!Nobody, !.lease = "none"]
  <2>1. new.attempts = 0 /\ new.holder = Schedule!Nobody BY <1>1 DEF NoteRec
  <2>2. AttemptLeft(new) BY <1>2, <2>1 DEF AttemptLeft
  <2>3. notes' = [notes EXCEPT ![n] = new] BY <1>8 DEF Schedule!RequeueNotification
  <2> HIDE DEF new
  <2> QED BY <1>0, <2>2, <2>3, OneLeft
<1>9. ASSUME NEW n \in Schedule!NoteId, Schedule!NoteLeaseExpires(n) PROVE Kept
  <2> DEFINE new == [notes[n] EXCEPT !.lease = "past"]
  <2>1. new.status = notes[n].status /\ new.attempts = notes[n].attempts /\ new.holder = notes[n].holder
    BY <1>1 DEF NoteRec
  <2>2. AttemptLeft(new) BY <1>0, <2>1 DEF AttemptLeft
  <2>3. notes' = [notes EXCEPT ![n] = new] BY <1>9 DEF Schedule!NoteLeaseExpires
  <2> HIDE DEF new
  <2> QED BY <1>0, <2>2, <2>3, OneLeft
<1> QED BY <1>3, <1>4, <1>6, <1>7, <1>8, <1>9

LEMMA ScheduleBoundsStep ==
    ASSUME ScheduleInv, ScheduleBounds, [Schedule!Next]_(Schedule!vars) PROVE ScheduleBounds'
<1> DEFINE Cols == /\ lastNotified' \in Schedule!Found /\ lease' \in {"none", "live", "past"}
                   /\ requeues' \in 0..MaxRequeues /\ sfaults' \in 0..MaxFaults
           Kept == \A n \in Schedule!NoteId : AttemptLeft(notes'[n])
<1>0. Rows BY DEF ScheduleInv
<1>1. /\ lastNotified \in Schedule!Found /\ lease \in {"none", "live", "past"}
      /\ requeues \in 0..MaxRequeues /\ sfaults \in 0..MaxFaults
      /\ MaxRequeues \in Nat /\ MaxFaults \in Nat
      /\ \A n \in Schedule!NoteId : AttemptLeft(notes[n])
  BY ScheduleAssumption DEF ScheduleBounds
<1>2. Schedule!SFault => sfaults' \in 0..MaxFaults BY <1>1 DEF Schedule!SFault
<1>3. ASSUME NEW w \in Worker, Schedule!SaveRun(w)
      PROVE Kept /\ lastNotified' \in Schedule!Found /\ lease' = "none"
  <2>1. Kept
    <3>1. CASE Schedule!SaveNotification("drift_detected", found[w])
      <4>1. found[w] \in Schedule!Found \cup {"failed"} BY <1>0 DEF Rows
      <4> QED BY <1>0, <3>1, <4>1, LeftAfter
    <3>2. CASE UNCHANGED Schedule!noteVars BY <1>1, <3>2 DEF Schedule!noteVars
    <3> QED BY <1>3, <3>1, <3>2 DEF Schedule!SaveRun
  <2>2. lastNotified' \in Schedule!Found BY <1>1, <1>3 DEF Schedule!SaveRun, Schedule!Found
  <2> QED BY <1>3, <2>1, <2>2 DEF Schedule!SaveRun, Schedule!Unlock
<1>4. ASSUME NEW w \in Worker, Schedule!CompleteSchedule(w) PROVE Cols /\ Kept
  <2>1. requeues' = requeues /\ (sfaults' = sfaults \/ Schedule!SFault) BY <1>4 DEF Schedule!CompleteSchedule
  <2>2. Schedule!SaveRun(w) \/ UNCHANGED <<Schedule!scheduleVars, Schedule!noteVars>>
    BY <1>4 DEF Schedule!CompleteSchedule
  <2> QED BY <1>1, <1>2, <1>3, <2>1, <2>2 DEF Schedule!scheduleVars, Schedule!noteVars
<1>5. ASSUME NEW w \in Worker, Schedule!FailSchedule(w) PROVE Cols /\ Kept
  <2>1. Schedule!SaveNotification("scan_failed", "failed") \/ notes' = notes
    BY <1>5 DEF Schedule!FailSchedule, Schedule!noteVars
  <2>2. Kept BY <1>0, <1>1, <2>1, LeftAfter
  <2>3. Cols BY <1>1, <1>2, <1>5 DEF Schedule!FailSchedule, Schedule!Unlock, Schedule!scheduleVars
  <2> QED BY <2>2, <2>3
<1>6. ASSUME NEW w \in Worker,
             Schedule!ClaimSchedule(w) \/ Schedule!Reconcile(w) \/ Schedule!Notify(w) \/ Schedule!SCrash(w)
      PROVE Cols /\ Kept
  BY <1>1, <1>2, <1>6 DEF Schedule!ClaimSchedule, Schedule!Reconcile, Schedule!Notify, Schedule!SCrash,
     Schedule!scheduleVars, Schedule!noteVars, Schedule!sbounds
<1>7. ASSUME Schedule!DriftChanges \/ Schedule!ScheduleLeaseExpires \/ UNCHANGED Schedule!vars PROVE Cols /\ Kept
  BY <1>1, <1>2, <1>7 DEF Schedule!DriftChanges, Schedule!ScheduleLeaseExpires, Schedule!vars,
     Schedule!scheduleVars, Schedule!noteVars, Schedule!sbounds
<1>8. ASSUME NEW w \in Worker, NEW n \in Schedule!NoteId, Schedule!ClaimNotification(w, n) PROVE Cols /\ Kept
  <2>1. Kept BY <1>0, <1>8, LeftAfter
  <2>2. Cols BY <1>1, <1>8 DEF Schedule!ClaimNotification, Schedule!scheduleVars, Schedule!sbounds
  <2> QED BY <2>1, <2>2
<1>9. ASSUME NEW w \in Worker, Schedule!CompleteNotification(w) \/ Schedule!RetryNotification(w) PROVE Cols /\ Kept
  <2>1. Kept BY <1>0, <1>9, LeftAfter
  <2>2. Cols BY <1>0, <1>1, <1>2, <1>9
        DEF Schedule!CompleteNotification, Schedule!RetryNotification, Schedule!scheduleVars, Rows
  <2> QED BY <2>1, <2>2
<1>10. ASSUME NEW n \in Schedule!NoteId, Schedule!RequeueNotification(n) \/ Schedule!NoteLeaseExpires(n)
       PROVE Cols /\ Kept
  <2>1. Kept BY <1>0, <1>10, LeftAfter
  <2>2. Cols BY <1>1, <1>2, <1>10
        DEF Schedule!RequeueNotification, Schedule!NoteLeaseExpires, Schedule!scheduleVars
  <2> QED BY <2>1, <2>2
<1> QED BY <1>4, <1>5, <1>6, <1>7, <1>8, <1>9, <1>10 DEF Schedule!Next, Schedule!SStep, ScheduleBounds

LEMMA ScheduleTypeInvariant == Schedule!Spec => []Schedule!TypeOK
<1>1. Schedule!Init => ScheduleInv /\ ScheduleBounds
  <2> SUFFICES ASSUME Schedule!Init PROVE ScheduleBounds BY ScheduleInit
  <2>1. AttemptLeft(Schedule!NoNote) BY ScheduleAssumption DEF AttemptLeft, Schedule!NoNote
  <2> QED BY <2>1, ScheduleAssumption DEF Schedule!Init, ScheduleBounds, Schedule!Found
<1>2. ScheduleInv /\ ScheduleBounds /\ [Schedule!Next]_(Schedule!vars) => (ScheduleInv /\ ScheduleBounds)'
  BY ScheduleKeeps, ScheduleBoundsStep
<1>3. ASSUME ScheduleInv, ScheduleBounds PROVE Schedule!TypeOK
  <2>1. Rows BY <1>3 DEF ScheduleInv
  <2>2. noteCount \in 0..MaxRuns /\ runs \in 0..MaxRuns
    BY <1>3, ScheduleAssumption DEF ScheduleInv, Rows, Budget
  <2> DEFINE Note == [kind : {"none", "drift_detected", "scan_failed"},
                      fingerprint : Schedule!Found \cup {"failed"},
                      status : {"none", "pending", "delivered", "dead_letter"},
                      attempts : 0..MaxAttempts,
                      holder : Worker \cup {Schedule!Nobody}, lease : {"none", "live", "past"}]
  <2>3. \A n \in Schedule!NoteId : notes[n] \in Note
    <3> TAKE n \in Schedule!NoteId
    <3>1. notes[n] \in NoteRec /\ AttemptLeft(notes[n]) BY <1>3, <2>1 DEF Rows, ScheduleBounds
    <3>2. notes[n].attempts \in 0..MaxAttempts BY <3>1, ScheduleAssumption DEF NoteRec, AttemptLeft
    <3> QED BY <3>1, <3>2 DEF NoteRec
  <2>4. notes \in [Schedule!NoteId -> Note] BY <2>1, <2>3 DEF Rows
  <2> QED BY <1>3, <2>1, <2>2, <2>4 DEF Rows, ScheduleBounds, Busy, Schedule!TypeOK
<1> QED BY <1>1, <1>2, <1>3, PTL DEF Schedule!Spec

LEMMA DeliveryTypeInvariant == Delivery!Spec => []Delivery!TypeOK
<1>1. Delivery!Init => Delivery!TypeOK
  <2> SUFFICES ASSUME Delivery!Init PROVE Delivery!TypeOK OBVIOUS
  <2>1. recorded \in BOOLEAN /\ received \in BOOLEAN BY DEF Delivery!Init
  <2> QED BY <2>1, ScheduleAssumption DEF Delivery!Init, Delivery!TypeOK
<1>2. ASSUME Delivery!TypeOK, [Delivery!Next]_(Delivery!vars) PROVE Delivery!TypeOK'
  <2> USE <1>2, ScheduleAssumption DEF Delivery!TypeOK, Delivery!jobRow, Delivery!DGo, Delivery!DFault
  <2>1. ASSUME NEW w \in Worker, Delivery!ClaimDeliveryJob(w) PROVE Delivery!TypeOK'
    BY <2>1 DEF Delivery!ClaimDeliveryJob
  <2>2. ASSUME NEW w \in Worker, Delivery!DeliverWebhook(w) PROVE Delivery!TypeOK'
    BY <2>2 DEF Delivery!DeliverWebhook
  <2>3. ASSUME NEW w \in Worker, Delivery!CompleteDeliveryJob(w) PROVE Delivery!TypeOK'
    <3>1. recorded' \in BOOLEAN /\ received' \in BOOLEAN
      BY <2>3, Zenon DEF Delivery!CompleteDeliveryJob
    <3>2. jobStatus' \in {"pending", "running", "delivered", "dead_letter"}
          /\ jobAttempts' \in 0..MaxAttempts /\ jobLock' \in {"none", "live", "past"}
      BY <2>3 DEF Delivery!CompleteDeliveryJob
    <3>3. dpc' \in [Worker -> {"idle", "posting", "delivered", "failed"}]
          /\ attempt' \in [Worker -> 0..MaxAttempts]
      BY <2>3 DEF Delivery!CompleteDeliveryJob
    <3>4. redeliveries' \in 0..MaxRequeues /\ dfaults' \in 0..MaxFaults
      BY <2>3 DEF Delivery!CompleteDeliveryJob
    <3> QED BY <3>1, <3>2, <3>3, <3>4
  <2>4. ASSUME NEW w \in Worker, Delivery!FailDeliveryJob(w) PROVE Delivery!TypeOK'
    BY <2>4 DEF Delivery!FailDeliveryJob
  <2>5. ASSUME NEW w \in Worker, Delivery!DCrash(w) PROVE Delivery!TypeOK'
    BY <2>5 DEF Delivery!DCrash
  <2>6. ASSUME Delivery!RequeueDeliveryJob \/ Delivery!DeliveryLockExpires PROVE Delivery!TypeOK'
    BY <2>6 DEF Delivery!RequeueDeliveryJob, Delivery!DeliveryLockExpires
  <2>7. ASSUME UNCHANGED Delivery!vars PROVE Delivery!TypeOK' BY <2>7 DEF Delivery!vars
  <2> QED BY <2>1, <2>2, <2>3, <2>4, <2>5, <2>6, <2>7 DEF Delivery!Next, Delivery!DStep
<1> QED BY <1>1, <1>2, PTL DEF Delivery!Spec

----------------------------------------------------------------------------
(* IngestionLimit.                                                         *)

\* The row counts what its window has admitted since the last late request; a window
\* to come has admitted only before one, and a window that is over has at most one
\* limit more.
RowCounts ==
    /\ admitted[window] <= RateEvents * late + permitted
    /\ \A v \in Limit!Window :
          /\ v > window => admitted[v] <= RateEvents * late
          /\ v < window => admitted[v] <= RateEvents * late + RateEvents

LimitInv == Limit!TypeOK /\ RowCounts

LEMMA LimitInit == Limit!Init => LimitInv
<1> SUFFICES ASSUME Limit!Init PROVE LimitInv OBVIOUS
<1> USE LimitAssumption DEF Limit!Init, Limit!Window
<1>1. Limit!TypeOK
  <2>2. admitted \in [Limit!Window -> Nat] /\ late \in Nat OBVIOUS
  <2>3. mine \in [Caller -> Limit!Window] /\ size \in [Caller -> 0..RateEvents + 1] OBVIOUS
  <2>4. lpc \in [Caller -> {"idle", "consuming", "throttling"}] OBVIOUS
  <2> QED BY <2>2, <2>3, <2>4 DEF Limit!TypeOK, Limit!MaxThrottled
<1>2. RateEvents * late = 0 OBVIOUS
<1>3. RowCounts BY <1>2 DEF RowCounts
<1> QED BY <1>1, <1>3 DEF LimitInv

\* How the row changes when a request is admitted.
LEMMA Admitted ==
    ASSUME Limit!TypeOK, NEW c \in Caller, Limit!ConsumeCapacity(c)
    PROVE \/ UNCHANGED <<mine, size, window, permitted, throttled, admitted, late>>
          \/ /\ window' = mine[c] /\ Limit!Allowed(c) /\ Limit!Done(c) /\ Limit!Arrive(c)
             /\ permitted' = (IF window = mine[c] THEN permitted ELSE 0) + size[c]
             /\ throttled' \in {throttled, 0}
             /\ admitted' = [admitted EXCEPT ![mine[c]] = @ + size[c]]
BY DEF Limit!ConsumeCapacity

LEMMA LimitTypes == ASSUME LimitInv, [Limit!Next]_(Limit!vars) PROVE Limit!TypeOK'
<1> USE LimitAssumption DEF LimitInv, Limit!TypeOK, Limit!Window, Limit!MaxThrottled
<1>1. ASSUME Limit!NextWindow PROVE Limit!TypeOK' BY <1>1 DEF Limit!NextWindow
<1>2. ASSUME NEW c \in Caller, NEW n \in 1..(RateEvents + 1), Limit!CheckCapacity(c, n) PROVE Limit!TypeOK'
  BY <1>2 DEF Limit!CheckCapacity
<1>3. ASSUME NEW c \in Caller, Limit!ConsumeCapacity(c) PROVE Limit!TypeOK'
  <2>1. lpc' \in [Caller -> {"idle", "consuming", "throttling"}] /\ clock' = clock
    BY <1>3 DEF Limit!ConsumeCapacity
  <2>2. CASE UNCHANGED <<mine, size, window, permitted, throttled, admitted, late>>
    BY <2>1, <2>2
  <2>3. CASE ~UNCHANGED <<mine, size, window, permitted, throttled, admitted, late>>
    <3>1. window' = mine[c] /\ Limit!Allowed(c) /\ Limit!Done(c) /\ Limit!Arrive(c)
      BY <1>3, <2>3, Admitted
    <3>2. /\ permitted' = (IF window = mine[c] THEN permitted ELSE 0) + size[c]
          /\ throttled' \in {throttled, 0}
          /\ admitted' = [admitted EXCEPT ![mine[c]] = @ + size[c]]
      BY <1>3, <2>3, Admitted
    <3>3. permitted' \in 0..RateEvents /\ throttled' \in 0..Limit!MaxThrottled
      BY <3>1, <3>2 DEF Limit!Allowed
    <3>4. mine' \in [Caller -> Limit!Window] /\ size' \in [Caller -> 0..RateEvents + 1]
      BY <3>1 DEF Limit!Done
    <3>5. admitted' \in [Limit!Window -> Nat] BY <3>2
    <3>6. late' \in Nat BY <3>1 DEF Limit!Arrive
    <3> QED BY <2>1, <3>1, <3>3, <3>4, <3>5, <3>6
  <2> QED BY <2>2, <2>3
<1>4. ASSUME NEW c \in Caller, Limit!CountThrottled(c) PROVE Limit!TypeOK'
  <2>1. late' \in Nat BY <1>4 DEF Limit!CountThrottled, Limit!Arrive
  <2>2. /\ mine' \in [Caller -> Limit!Window] /\ size' \in [Caller -> 0..RateEvents + 1]
        /\ lpc' \in [Caller -> {"idle", "consuming", "throttling"}]
    BY <1>4 DEF Limit!CountThrottled, Limit!Done
  <2>3. /\ window' \in Limit!Window /\ permitted' \in 0..RateEvents /\ throttled' \in 0..Limit!MaxThrottled
        /\ UNCHANGED <<clock, admitted>>
    BY <1>4 DEF Limit!CountThrottled
  <2> QED BY <2>1, <2>2, <2>3
<1>5. ASSUME NEW c \in Caller, Limit!Rollback(c) PROVE Limit!TypeOK'
  BY <1>5 DEF Limit!Rollback, Limit!Done
<1>6. ASSUME UNCHANGED Limit!vars PROVE Limit!TypeOK' BY <1>6 DEF Limit!vars
<1> QED BY <1>1, <1>2, <1>3, <1>4, <1>5, <1>6 DEF Limit!Next

\* A request in its turn leaves the allowance of late requests alone, a late one adds
\* a limit to it.
LEMMA Allowance ==
    ASSUME Limit!TypeOK, NEW c \in Caller, Limit!Arrive(c)
    PROVE /\ RateEvents * late \in Nat
          /\ mine[c] >= window => RateEvents * late' = RateEvents * late
          /\ mine[c] < window => RateEvents * late' = RateEvents * late + RateEvents
<1>1. late \in Nat /\ RateEvents \in Nat /\ mine[c] \in Nat /\ window \in Nat
  BY LimitAssumption DEF Limit!TypeOK, Limit!Window
<1>2. RateEvents * (late + 1) = RateEvents * late + RateEvents BY <1>1
<1> QED BY <1>1, <1>2 DEF Limit!Arrive

\* The row moves to window w, with count p, for a request that was admitted n events
\* there; l and m are the allowances of late requests before and after.
LEMMA RowMoves ==
    ASSUME LimitInv, NEW w \in Limit!Window, NEW p \in Nat, NEW n \in Nat, NEW l \in Nat, NEW m \in Nat,
           l = RateEvents * late, m = RateEvents * late',
           window' = w, permitted' = p, p = (IF window = w THEN permitted ELSE 0) + n,
           w >= window => m = l, w < window => m = l + RateEvents,
           admitted' = [admitted EXCEPT ![w] = @ + n]
    PROVE RowCounts'
<1>0. /\ RateEvents \in Nat /\ permitted \in 0..RateEvents /\ window \in Nat /\ w \in Nat
      /\ admitted \in [Limit!Window -> Nat] /\ window \in Limit!Window
  BY LimitAssumption DEF LimitInv, Limit!TypeOK, Limit!Window
<1>1. ASSUME NEW v \in Limit!Window
      PROVE /\ v = w => admitted'[v] <= m + p
            /\ v > w => admitted'[v] <= m
            /\ v < w => admitted'[v] <= m + RateEvents
  <2>1. v \in Nat /\ admitted[v] \in Nat BY <1>0, LimitAssumption DEF Limit!Window
  <2>2. /\ v = window => admitted[v] <= l + permitted
        /\ v > window => admitted[v] <= l
        /\ v < window => admitted[v] <= l + RateEvents
    BY DEF LimitInv, RowCounts
  <2>3. admitted'[v] = IF v = w THEN admitted[v] + n ELSE admitted[v] BY <1>0
  <2> QED BY <1>0, <2>1, <2>2, <2>3
<1> QED BY <1>1 DEF RowCounts, Limit!Window

LEMMA LimitKeeps == ASSUME LimitInv, [Limit!Next]_(Limit!vars) PROVE RowCounts'
<1>0. /\ RateEvents \in Nat /\ late \in Nat /\ late' \in Nat /\ permitted \in Nat
      /\ admitted \in [Limit!Window -> Nat]
      /\ \A c \in Caller : mine[c] \in Limit!Window /\ size[c] \in Nat
  BY LimitAssumption, LimitTypes DEF LimitInv, Limit!TypeOK
<1>1. CASE UNCHANGED <<admitted, window, permitted, late>>
  BY <1>1 DEF LimitInv, RowCounts
<1>2. PICK l \in Nat, m \in Nat : l = RateEvents * late /\ m = RateEvents * late'
  BY <1>0
<1>3. ASSUME NEW c \in Caller, Limit!Arrive(c)
      PROVE /\ mine[c] >= window => m = l
            /\ mine[c] < window => m = l + RateEvents
  BY <1>2, <1>3, Allowance DEF LimitInv
<1>4. ASSUME NEW c \in Caller, Limit!ConsumeCapacity(c),
             ~UNCHANGED <<mine, size, window, permitted, throttled, admitted, late>>
      PROVE RowCounts'
  <2>1. /\ window' = mine[c] /\ Limit!Arrive(c)
        /\ permitted' = (IF window = mine[c] THEN permitted ELSE 0) + size[c]
        /\ admitted' = [admitted EXCEPT ![mine[c]] = @ + size[c]]
    BY <1>4, Admitted DEF LimitInv
  <2>2. permitted' \in Nat /\ mine[c] \in Limit!Window /\ size[c] \in Nat BY <1>0, <2>1
  <2>3. /\ mine[c] >= window => m = l
        /\ mine[c] < window => m = l + RateEvents
    BY <1>3, <2>1
  <2> QED BY <1>2, <2>1, <2>2, <2>3, RowMoves
<1>5. ASSUME NEW c \in Caller, Limit!CountThrottled(c) PROVE RowCounts'
  <2>1. /\ window' = mine[c] /\ Limit!Arrive(c) /\ admitted' = admitted
        /\ permitted' = (IF window = mine[c] THEN permitted ELSE 0) + 0
    BY <1>0, <1>5 DEF Limit!CountThrottled
  <2>2. permitted' \in Nat /\ mine[c] \in Limit!Window /\ 0 \in Nat BY <1>0, <2>1
  <2>3. /\ mine[c] >= window => m = l
        /\ mine[c] < window => m = l + RateEvents
    BY <1>3, <2>1
  <2>4. admitted' = [admitted EXCEPT ![mine[c]] = @ + 0] BY <1>0, <2>1
  <2> QED BY <1>2, <2>1, <2>2, <2>3, <2>4, RowMoves
<1> QED
  BY <1>1, <1>4, <1>5
     DEF Limit!Next, Limit!NextWindow, Limit!CheckCapacity, Limit!Rollback, Limit!vars

LEMMA LimitInductive == Limit!Spec => []LimitInv
<1>1. LimitInv /\ [Limit!Next]_(Limit!vars) => LimitInv' BY LimitTypes, LimitKeeps DEF LimitInv
<1> QED BY <1>1, LimitInit, PTL DEF Limit!Spec

\* No window admits more events than OPEN_SPANNER_INGESTION_RATE_EVENTS, and as many
\* again for every request that reached the row after a newer window had.
THEOREM LimitHolds == Limit!Spec => []Limit!WindowWithinLimit
<1>1. ASSUME LimitInv PROVE Limit!WindowWithinLimit
  <2>1. /\ RateEvents \in Nat /\ late \in Nat /\ permitted \in 0..RateEvents /\ window \in Limit!Window
        /\ admitted \in [Limit!Window -> Nat] /\ Limit!Window \subseteq Nat
    BY <1>1, LimitAssumption DEF LimitInv, Limit!TypeOK, Limit!Window
  <2>2. RateEvents * (1 + late) = RateEvents * late + RateEvents /\ RateEvents * late \in Nat
    BY <2>1
  <2> QED BY <1>1, <2>1, <2>2 DEF LimitInv, RowCounts, Limit!WindowWithinLimit
<1> QED BY <1>1, LimitInductive, PTL

----------------------------------------------------------------------------
(* PlanAssignments.                                                        *)

\* A row that an UPDATE left of a row: it may have ended earlier.
From(q, r) == q.at = r.at /\ q.plan = r.plan /\ q.version = r.version /\ q.until <= r.until

\* A row that is effective now or will be.
Live(r) == r.until > r.at /\ r.until > now

\* UNIQUE (workspace_id, subject, assigned_at)
UniqueStarts == \A r, s \in rows : r.at = s.at => r = s

\* Versions come from updates, and each moves a start by a nanosecond at most.
Versions ==
    /\ \A p \in Plan : current[p] <= updates + 1
    /\ \A r \in rows : r.at < MaxTime + r.version
    /\ \A c \in Caller : apc[c] # "idle" =>
          /\ call[c].version <= current[call[c].plan]
          /\ apc[c] = "updating" => call[c].version <= updates
          /\ \A r \in call[c].seen : r.at < MaxTime + r.version
          /\ call[c].time <= now /\ call[c].time <= call[c].at

\* Without overlap one call is under way at most: what it read is still so, but for
\* rows that were ended meanwhile.
Alone ==
    ~overlapping =>
        /\ \A c, d \in Caller : apc[c] # "idle" /\ apc[d] # "idle" => c = d
        /\ \A c \in Caller : apc[c] # "idle" =>
              /\ call[c].version = current[call[c].plan]
              /\ \A r \in rows : \E s \in call[c].seen : From(r, s)

\* Without overlap the rows follow each other from now on, and those of a retired
\* version last for a nanosecond.
Timeline ==
    ~overlapping =>
        /\ \A r, s \in rows : Live(r) /\ Live(s) /\ r.at < s.at => r.until <= s.at
        /\ \A r \in rows : Live(r) => r.version = current[r.plan] \/ r.until <= r.at + 1

FiniteRows == IsFiniteSet(rows) /\ \A c \in Caller : IsFiniteSet(call[c].seen)

PlanInv == Plans!TypeOK /\ FiniteRows /\ UniqueStarts /\ Versions /\ Alone /\ Timeline

LEMMA RowTypes ==
    ASSUME NEW r \in Plans!Row
    PROVE /\ r.at \in Nat /\ r.until \in Nat /\ r.version \in Nat /\ r.plan \in Plan
          /\ r.until <= Plans!Never /\ r.version >= 1 /\ r.version <= MaxUpdates + 1
          /\ Plans!Never \in Nat
BY PlanAssumption DEF Plans!Row, Plans!Time, Plans!Never

\* CancelPending and EndEffective on one row: it ends no later than before, and one
\* that the statements see and that starts elsewhere is over when the new one starts.
LEMMA Ends ==
    ASSUME NEW r \in Plans!Row, NEW visible, NEW time \in Nat, NEW at \in Nat,
           time <= at, at <= Plans!Never
    PROVE LET q == Plans!CancelOrEnd(r, visible, time, at) IN
          /\ q \in Plans!Row /\ From(q, r)
          /\ r.at \in visible /\ r.at # at => q.until <= at
<1> DEFINE pending == IF r.at \in visible /\ r.at > time /\ r.until > time
                      THEN [r EXCEPT !.until = time] ELSE r
           q == IF pending.at \in visible /\ pending.at < at /\ pending.until > at
                THEN [pending EXCEPT !.until = at] ELSE pending
<1>0. Plans!CancelOrEnd(r, visible, time, at) = q BY DEF Plans!CancelOrEnd
<1>1. time \in Plans!Time /\ at \in Plans!Time BY PlanAssumption DEF Plans!Time, Plans!Never
<1>2. /\ pending \in Plans!Row /\ From(pending, r)
      /\ r.at \in visible /\ r.at > time => pending.until <= time
  BY <1>1, RowTypes DEF From, Plans!Row
<1> HIDE DEF pending
<1>3. q \in Plans!Row /\ From(q, pending) /\ (r.at \in visible /\ r.at < at => q.until <= at)
  BY <1>1, <1>2, RowTypes DEF From, Plans!Row
<1>4. From(q, r) BY <1>2, <1>3, RowTypes DEF From
<1>5. r.at \in visible /\ r.at > at => q.until <= at
  BY <1>2, <1>3, RowTypes DEF From
<1> HIDE DEF q
<1> QED BY <1>0, <1>3, <1>4, <1>5, RowTypes

\* SaveSubjectAssignment: the old rows, and the new one.
LEMMA SavedRows ==
    ASSUME NEW set \in SUBSET Plans!Row, IsFiniteSet(set), NEW visible, NEW time \in Nat, NEW at \in Nat,
           time <= at, at <= Plans!Never, NEW plan \in Plan, NEW v \in 1..(MaxUpdates + 1),
           at \notin Plans!Starts(set), \A r, s \in set : r.at = s.at => r = s,
           NEW after, after = Plans!Saved(set, visible, time, at, plan, v)
    PROVE /\ after \in SUBSET Plans!Row /\ IsFiniteSet(after)
          /\ \A q, s \in after : q.at = s.at => q = s
          /\ \A q \in after : \/ q = [at |-> at, until |-> Plans!Never, plan |-> plan, version |-> v]
                              \/ /\ q.at # at /\ \E r \in set : From(q, r)
                                 /\ q.at \in visible => q.until <= at
<1> DEFINE new == [at |-> at, until |-> Plans!Never, plan |-> plan, version |-> v]
           F(r) == Plans!CancelOrEnd(r, visible, time, at)
<1>1. after = {F(r) : r \in set} \cup {new} BY DEF Plans!Saved
<1>2. \A r \in set : /\ F(r) \in Plans!Row /\ From(F(r), r) /\ r.at # at
                     /\ r.at \in visible => F(r).until <= at
  <2> TAKE r \in set
  <2>1. r.at # at BY DEF Plans!Starts
  <2> QED BY <2>1, Ends
<1>3. new \in Plans!Row /\ new.at = at
  BY PlanAssumption DEF Plans!Row, Plans!Time, Plans!Never
<1> HIDE DEF F, new
<1>4. after \in SUBSET Plans!Row /\ IsFiniteSet(after)
  <2>1. IsFiniteSet({F(r) : r \in set})
    <3> DEFINE f == [r \in set |-> F(r)]
               T == {F(r) : r \in set}
    <3>1. f \in Surjection(set, T) BY DEF Surjection
    <3> HIDE DEF f, T
    <3>2. IsFiniteSet(T) BY <3>1, FS_Surjection
    <3> QED BY <3>2 DEF T
  <2> QED BY <1>1, <1>2, <1>3, <2>1, FS_AddElement
<1>5. \A q, s \in after : q.at = s.at => q = s BY <1>1, <1>2, <1>3 DEF From
<1>6. \A q \in after : \/ q = new
                       \/ /\ q.at # at /\ \E r \in set : From(q, r)
                          /\ q.at \in visible => q.until <= at
  BY <1>1, <1>2, <1>3 DEF From
<1> QED BY <1>4, <1>5, <1>6 DEF new

LEMMA Counts == ASSUME NEW S PROVE Plans!Cardinality(S) = Cardinality(S)
BY DEF Plans!Cardinality, Cardinality

LEMMA Least == ASSUME NEW Z, Z \subseteq Nat, Z # {} PROVE \E m \in Z : \A j \in Z : m <= j
<1>1. IsWellFoundedOn(OpToRel(<, Nat), Nat) BY NatLessThanWellFounded, Zenon
<1>2. \E m \in Z : \A j \in Z : ~(<<j, m>> \in OpToRel(<, Nat)) BY <1>1, WFMin, Zenon
<1>3. PICK m \in Z : \A j \in Z : ~(<<j, m>> \in OpToRel(<, Nat)) BY <1>2, Zenon
<1>4. ASSUME NEW j \in Z, j < m PROVE FALSE
  <2>1. <<j, m>> \in OpToRel(<, Nat) BY <1>4, Zenon DEF OpToRel
  <2> QED BY <1>3, <2>1, Zenon
<1> QED BY <1>4

\* The loop of UpdatePlan: set[i] is what there is after i moves.
Loop(set, k, order, n) ==
    set = [i \in 0..n |-> IF i = 0 THEN rows
                          ELSE Plans!Moved(set[i - 1], k, Plans!MoveAt(k, order[i]))]

LEMMA LoopExists == ASSUME NEW k, NEW order, NEW n \in Nat PROVE \E set : Loop(set, k, order, n)
<1> DEFINE Z == {m \in Nat : ~\E set : Loop(set, k, order, m)}
           Move(s, i) == Plans!Moved(s, k, Plans!MoveAt(k, order[i]))
<1> SUFFICES ASSUME Z # {} PROVE FALSE OBVIOUS
<1>0. \A set, m : Loop(set, k, order, m)
        <=> set = [i \in 0..m |-> IF i = 0 THEN rows ELSE Move(set[i - 1], i)]
  BY DEF Loop
<1> HIDE DEF Move
<1>1. PICK m \in Z : \A j \in Z : m <= j
  <2>1. Z \subseteq Nat OBVIOUS
  <2> HIDE DEF Z
  <2> QED BY <2>1, Least
<1>2. CASE m = 0
  <2> DEFINE f == [i \in 0..0 |-> rows]
  <2>1. f = [i \in 0..0 |-> IF i = 0 THEN rows ELSE Move(f[i - 1], i)] OBVIOUS
  <2>2. Loop(f, k, order, 0) BY <1>0, <2>1
  <2> QED BY <1>2, <2>2
<1>3. CASE m # 0
  <2>1. m - 1 \in Nat /\ m - 1 \notin Z BY <1>1, <1>3
  <2>2. PICK f : Loop(f, k, order, m - 1) BY <2>1
  <2>3. f = [i \in 0..(m - 1) |-> IF i = 0 THEN rows ELSE Move(f[i - 1], i)] BY <1>0, <2>2
  <2> DEFINE g == [i \in 0..m |-> IF i = m THEN Move(f[m - 1], m) ELSE f[i]]
  <2>4. ASSUME NEW i \in 0..m PROVE g[i] = IF i = 0 THEN rows ELSE Move(g[i - 1], i)
    <3>1. CASE i = 0 BY <1>3, <2>1, <2>3, <3>1
    <3>2. CASE i # 0 /\ i # m
      <4>1. i \in 0..(m - 1) /\ i - 1 \in 0..m /\ i - 1 # m BY <2>1, <3>2
      <4> QED BY <2>3, <3>2, <4>1
    <3>3. CASE i # 0 /\ i = m
      <4>1. m - 1 \in 0..m /\ m - 1 # m BY <2>1
      <4> QED BY <3>3, <4>1
    <3> QED BY <3>1, <3>2, <3>3
  <2>5. g = [i \in 0..m |-> IF i = 0 THEN rows ELSE Move(g[i - 1], i)]
    <3>1. g = [i \in 0..m |-> g[i]] OBVIOUS
    <3> HIDE DEF g
    <3> QED BY <2>4, <3>1
  <2>6. Loop(g, k, order, m)
    <3> HIDE DEF g
    <3> QED BY <1>0, <2>5
  <2> QED BY <2>6
<1> QED BY <1>2, <1>3

\* What the loop keeps: rows of before, which may have ended earlier, and rows of the
\* next version; with every row visible, all are over when a later one starts.
LoopInv(set, k, order, i) ==
    LET a(j) == Plans!MoveAt(k, order[j])
        visible == Plans!Starts(rows) \subseteq Plans!Starts(k.seen)
    IN
    /\ set \in SUBSET Plans!Row /\ IsFiniteSet(set)
    /\ \A q, s \in set : q.at = s.at => q = s
    /\ \A q \in set :
          \/ /\ \E r \in rows : From(q, r)
             /\ visible => \A j \in 1..i : q.until <= a(j)
          \/ \E j \in 1..i : /\ q.at = a(j) /\ q.plan = k.plan /\ q.version = k.version + 1
                             /\ visible => \A l \in (j + 1)..i : q.until <= a(l)

LEMMA MoveTypes ==
    ASSUME PlanInv, NEW c \in Caller, apc[c] = "updating", NEW r \in Plans!Listed(call[c])
    PROVE LET k == call[c] IN
          /\ r \in Plans!Row /\ r.version = k.version /\ r.plan = k.plan
          /\ k.version \in Nat /\ k.version + 1 \in 1..(MaxUpdates + 1) /\ k.plan \in Plan
          /\ Plans!MoveAt(k, r) \in Nat /\ Plans!MoveAt(k, r) < MaxTime + k.version + 1
          /\ Plans!MoveAt(k, r) <= Plans!Never /\ Plans!MoveAt(k, r) # r.at
          /\ Plans!MoveAt(k, r) <= k.time \/ Plans!MoveAt(k, r) = r.at + 1
<1> DEFINE k == call[c]
<1>1. k \in Plans!Call BY DEF PlanInv, Plans!TypeOK
<1>2. /\ k.version \in Nat /\ k.version >= 1 /\ k.plan \in Plan /\ k.time \in Nat /\ k.time <= MaxTime
      /\ k.seen \in SUBSET Plans!Row
  BY <1>1, PlanAssumption DEF Plans!Call
<1>3. r \in k.seen /\ r.version = k.version /\ r.plan = k.plan BY DEF Plans!Listed
<1>4. k.version <= updates /\ r.at < MaxTime + r.version BY <1>3 DEF PlanInv, Versions
<1>5. updates \in Nat /\ updates <= MaxUpdates BY PlanAssumption DEF PlanInv, Plans!TypeOK
<1>6. r \in Plans!Row /\ r.at \in Nat BY <1>2, <1>3, RowTypes
<1> HIDE DEF k
<1>7. /\ Plans!MoveAt(k, r) \in Nat /\ Plans!MoveAt(k, r) < MaxTime + k.version + 1
      /\ Plans!MoveAt(k, r) # r.at
      /\ Plans!MoveAt(k, r) <= k.time \/ Plans!MoveAt(k, r) = r.at + 1
  BY <1>2, <1>3, <1>4, <1>6, PlanAssumption DEF Plans!MoveAt
<1>8. k.version + 1 \in 1..(MaxUpdates + 1) /\ Plans!MoveAt(k, r) <= Plans!Never
  BY <1>2, <1>4, <1>5, <1>7, PlanAssumption DEF Plans!Never
<1> QED BY <1>2, <1>3, <1>6, <1>7, <1>8 DEF k

LEMMA LoopKeeps ==
    ASSUME PlanInv, NEW c \in Caller, apc[c] = "updating", ~Plans!Collide(call[c]),
           NEW n \in Nat, n = Plans!Cardinality(Plans!Listed(call[c])),
           NEW order \in Plans!Orders(Plans!Listed(call[c])),
           NEW set, Loop(set, call[c], order, n)
    PROVE LoopInv(set[n], call[c], order, n)
<1> DEFINE k == call[c]
           L == Plans!Listed(k)
           a(j) == Plans!MoveAt(k, order[j])
           visible == Plans!Starts(rows) \subseteq Plans!Starts(k.seen)
           Z == {m \in 0..n : ~LoopInv(set[m], k, order, m)}
<1>0. /\ \A j \in 1..n : order[j] \in L
      /\ \A i, j \in 1..n : order[i] = order[j] => i = j
  BY DEF Plans!Orders, Plans!Bijection, Plans!Injection, Plans!Surjection, Plans!IsInjective
<1>1. \A j \in 1..n : a(j) \in Nat /\ a(j) <= Plans!Never /\ a(j) \notin Plans!Starts(rows)
  BY <1>0, MoveTypes DEF Plans!Collide
<1>2. \A i, j \in 1..n : i # j => a(i) # a(j) BY <1>0 DEF Plans!Collide
<1> SUFFICES ASSUME Z # {} PROVE FALSE OBVIOUS
<1>3. PICK m \in Z : \A j \in Z : m <= j
  <2>1. Z \subseteq Nat OBVIOUS
  <2> HIDE DEF Z
  <2> QED BY <2>1, Least
<1>4. CASE m = 0
  <2>1. set[0] = rows BY DEF Loop
  <2>2. rows \in SUBSET Plans!Row /\ UniqueStarts /\ IsFiniteSet(rows)
    BY DEF PlanInv, Plans!TypeOK, FiniteRows
  <2>3. \A r \in rows : From(r, r) BY <2>2, RowTypes DEF From
  <2>4. LoopInv(rows, k, order, 0) BY <2>2, <2>3 DEF LoopInv, UniqueStarts
  <2> QED BY <1>4, <2>1, <2>4
<1>5. CASE m # 0
  <2>1. m \in 1..n /\ m - 1 \in 0..n /\ m - 1 \notin Z BY <1>3, <1>5
  <2> DEFINE s0 == set[m - 1]
             vis == Plans!Starts(k.seen) \cup (Plans!Starts(s0) \ Plans!Starts(rows))
             new == [at |-> a(m), until |-> Plans!Never, plan |-> k.plan, version |-> k.version + 1]
  <2>2. LoopInv(s0, k, order, m - 1) BY <2>1
  <2>3. set[m] = Plans!Moved(s0, k, a(m)) BY <1>5, <2>1 DEF Loop
  <2>4. set[m] = Plans!Saved(s0, vis, a(m), a(m), k.plan, k.version + 1) BY <2>3 DEF Plans!Moved
  <2>5. k.plan \in Plan /\ k.version + 1 \in 1..(MaxUpdates + 1) BY <1>0, <2>1, MoveTypes
  <2>6. /\ s0 \in SUBSET Plans!Row /\ IsFiniteSet(s0) /\ \A q, s \in s0 : q.at = s.at => q = s
        /\ \A q \in s0 :
             \/ /\ \E r \in rows : From(q, r)
                /\ visible => \A j \in 1..(m - 1) : q.until <= a(j)
             \/ \E j \in 1..(m - 1) :
                   /\ q.at = a(j) /\ q.plan = k.plan /\ q.version = k.version + 1
                   /\ visible => \A l \in (j + 1)..(m - 1) : q.until <= a(l)
    <3> HIDE DEF s0
    <3> QED BY <2>2 DEF LoopInv
  <2>7. ~LoopInv(set[m], k, order, m) BY <1>3
  <2>8. \A q \in s0 : q.at \in Plans!Starts(s0) BY DEF Plans!Starts
  <2>9. \A q \in s0, r \in rows : From(q, r) => q.at \in Plans!Starts(rows)
    BY DEF Plans!Starts, From
  <2> HIDE DEF s0, a, k, Z, L
  <2>10. a(m) \notin Plans!Starts(s0)
    <3> SUFFICES ASSUME NEW q \in s0, q.at = a(m) PROVE FALSE BY DEF Plans!Starts
    <3>1. CASE \E r \in rows : From(q, r) BY <1>1, <2>1, <2>9, <3>1
    <3>2. CASE \E j \in 1..(m - 1) : q.at = a(j)
      <4>1. PICK j \in 1..(m - 1) : q.at = a(j) BY <3>2
      <4>2. j \in 1..n /\ j # m BY <2>1
      <4> QED BY <1>2, <2>1, <4>1, <4>2
    <3> QED BY <2>6, <3>1, <3>2
  <2>11. /\ set[m] \in SUBSET Plans!Row /\ IsFiniteSet(set[m])
         /\ \A q, s \in set[m] : q.at = s.at => q = s
         /\ \A q \in set[m] : q = new \/ (/\ q.at # a(m) /\ \E r \in s0 : From(q, r)
                                          /\ q.at \in vis => q.until <= a(m))
    <3>1. a(m) \in Nat /\ a(m) <= Plans!Never /\ a(m) <= a(m) BY <1>1, <2>1
    <3> HIDE DEF vis
    <3> QED BY <2>4, <2>5, <2>6, <2>10, <3>1, SavedRows DEF new
  <2>12. new.at = a(m) /\ new.plan = k.plan /\ new.version = k.version + 1 OBVIOUS
  <2>13. \A q \in s0 : visible => q.at \in vis BY <2>8
  <2> HIDE DEF new, vis, visible
  <2>14. ASSUME NEW q \in set[m]
         PROVE \/ /\ \E r \in rows : From(q, r)
                  /\ visible => \A j \in 1..m : q.until <= a(j)
               \/ \E j \in 1..m : /\ q.at = a(j) /\ q.plan = k.plan /\ q.version = k.version + 1
                                  /\ visible => \A l \in (j + 1)..m : q.until <= a(l)
    <3>1. CASE q = new
      <4>1. (m + 1)..m = {} BY <2>1
      <4> QED BY <2>1, <2>12, <3>1, <4>1
    <3>2. CASE q # new
      <4>1. PICK r \in s0 : From(q, r) BY <2>11, <3>2
      <4>2. q \in Plans!Row /\ r \in Plans!Row BY <2>6, <2>11
      <4>3. visible => q.until <= a(m) BY <2>11, <2>13, <3>2, <4>1 DEF From
      <4>4. \A x \in Nat : r.until <= x => q.until <= x BY <4>1, <4>2, RowTypes DEF From
      <4>5. CASE \E r0 \in rows : From(r, r0) /\ (visible => \A j \in 1..(m - 1) : r.until <= a(j))
        <5>1. PICK r0 \in rows : From(r, r0) /\ (visible => \A j \in 1..(m - 1) : r.until <= a(j)) BY <4>5
        <5>2. r0 \in Plans!Row BY DEF PlanInv, Plans!TypeOK
        <5>3. From(q, r0) BY <4>1, <4>2, <5>1, <5>2, RowTypes DEF From
        <5>4. ASSUME visible, NEW j \in 1..m PROVE q.until <= a(j)
          <6>1. CASE j = m BY <4>3, <5>4, <6>1
          <6>2. CASE j # m
            <7>1. j \in 1..(m - 1) /\ a(j) \in Nat BY <1>1, <2>1, <6>2
            <7> QED BY <4>4, <5>1, <5>4, <7>1
          <6> QED BY <6>1, <6>2
        <5> QED BY <5>3, <5>4
      <4>6. CASE \E j \in 1..(m - 1) :
                    /\ r.at = a(j) /\ r.plan = k.plan /\ r.version = k.version + 1
                    /\ visible => \A l \in (j + 1)..(m - 1) : r.until <= a(l)
        <5>1. PICK j \in 1..(m - 1) :
                    /\ r.at = a(j) /\ r.plan = k.plan /\ r.version = k.version + 1
                    /\ visible => \A l \in (j + 1)..(m - 1) : r.until <= a(l)
          BY <4>6
        <5>2. ASSUME visible, NEW l \in (j + 1)..m PROVE q.until <= a(l)
          <6>1. CASE l = m BY <4>3, <5>2, <6>1
          <6>2. CASE l # m
            <7>1. l \in (j + 1)..(m - 1) /\ a(l) \in Nat BY <1>1, <2>1, <6>2
            <7> QED BY <4>4, <5>1, <5>2, <7>1
          <6> QED BY <6>1, <6>2
        <5>3. q.at = a(j) /\ q.plan = k.plan /\ q.version = k.version + 1 /\ j \in 1..m
          BY <2>1, <4>1, <5>1 DEF From
        <5> QED BY <5>2, <5>3
      <4> QED BY <2>6, <4>5, <4>6
    <3> QED BY <3>1, <3>2
  <2>15. LoopInv(set[m], k, order, m) BY <2>11, <2>14 DEF LoopInv, a, visible
  <2> QED BY <2>7, <2>15
<1> QED BY <1>4, <1>5

LEMMA LoopResult ==
    ASSUME NEW k, NEW order, NEW n \in Nat, n = Plans!Cardinality(Plans!Listed(k))
    PROVE \E set : Loop(set, k, order, n) /\ Plans!MovedAll(k, order) = set[n]
<1> DEFINE f == CHOOSE set : Loop(set, k, order, n)
<1>1. Loop(f, k, order, n)
  <2>1. \E set : Loop(set, k, order, n) BY LoopExists
  <2> HIDE DEF Loop
  <2> QED BY <2>1
<1>2. Plans!MovedAll(k, order) = f[n] BY DEF Plans!MovedAll, Loop
<1> HIDE DEF f
<1> QED BY <1>1, <1>2

LEMMA PlanInit == Plans!Init => PlanInv
<1> SUFFICES ASSUME Plans!Init PROVE PlanInv OBVIOUS
<1> USE DEF Plans!Init
<1>1. Plans!NoCall \in Plans!Call
  BY PlanAssumption DEF Plans!NoCall, Plans!Call
<1>2. Plans!TypeOK
  <2>1. current \in [Plan -> 1..(MaxUpdates + 1)] /\ now \in 0..MaxTime BY PlanAssumption
  <2>2. call \in [Caller -> Plans!Call] BY <1>1
  <2>3. calls \in 0..MaxCalls /\ updates \in 0..MaxUpdates BY PlanAssumption
  <2>4. overlapping \in BOOLEAN OBVIOUS
  <2> QED BY <2>1, <2>2, <2>3, <2>4 DEF Plans!TypeOK
<1>3. FiniteRows
  <2>1. \A c \in Caller : call[c].seen = {} BY DEF Plans!NoCall
  <2> QED BY <2>1, FS_EmptySet DEF FiniteRows
<1>4. UniqueStarts /\ Versions /\ Alone /\ Timeline
  BY DEF UniqueStarts, Versions, Alone, Timeline
<1> QED BY <1>2, <1>3, <1>4 DEF PlanInv

LEMMA Entered ==
    ASSUME PlanInv, NEW c \in Caller, NEW plan \in Plan, NEW place, NEW at \in 0..MaxTime,
           at >= now, Plans!Enter(c, place, plan, at),
           \/ place = "assigning" /\ updates' = updates
           \/ place = "updating" /\ updates < MaxUpdates /\ updates' = updates + 1
    PROVE PlanInv'
<1> DEFINE k == [plan |-> plan, version |-> current[plan], time |-> now, at |-> at, seen |-> rows]
<1>1. /\ apc[c] = "idle" /\ apc' = [apc EXCEPT ![c] = place]
      /\ calls < MaxCalls /\ calls' = calls + 1 /\ call' = [call EXCEPT ![c] = k]
      /\ overlapping' = (overlapping \/ \E d \in Caller : apc[d] # "idle")
      /\ UNCHANGED <<now, current, rows>>
  BY DEF Plans!Enter
<1>2. Plans!TypeOK /\ FiniteRows BY DEF PlanInv
<1>3. k \in Plans!Call BY <1>2 DEF Plans!Call, Plans!TypeOK
<1>4. overlapping' \in BOOLEAN /\ (~overlapping' => ~overlapping /\ \A d \in Caller : apc[d] = "idle")
  BY <1>1, <1>2 DEF Plans!TypeOK
<1>5. call'[c] = k /\ \A d \in Caller \ {c} : call'[d] = call[d] BY <1>1, <1>2 DEF Plans!TypeOK
<1>6. apc'[c] = place /\ place # "idle" /\ \A d \in Caller \ {c} : apc'[d] = apc[d]
  BY <1>1, <1>2 DEF Plans!TypeOK
<1>7. k.plan = plan /\ k.version = current[plan] /\ k.time = now /\ k.at = at /\ k.seen = rows OBVIOUS
<1>8. updates \in Nat /\ updates' \in 0..MaxUpdates /\ updates <= updates'
  BY <1>2, PlanAssumption DEF Plans!TypeOK
<1>9. \A p \in Plan : current[p] \in Nat BY <1>2, PlanAssumption DEF Plans!TypeOK
<1>10. now \in Nat /\ at \in Nat BY <1>2, PlanAssumption DEF Plans!TypeOK
<1> HIDE DEF k
<1>11. Plans!TypeOK'
  <2>1. call' \in [Caller -> Plans!Call] BY <1>1, <1>2, <1>3 DEF Plans!TypeOK
  <2>2. apc' \in [Caller -> {"idle", "assigning", "updating"}] BY <1>1, <1>2 DEF Plans!TypeOK
  <2>3. calls' \in 0..MaxCalls BY <1>1, <1>2, PlanAssumption DEF Plans!TypeOK
  <2> QED BY <1>1, <1>2, <1>4, <1>8, <2>1, <2>2, <2>3 DEF Plans!TypeOK
<1>12. FiniteRows' BY <1>1, <1>2, <1>5, <1>7 DEF FiniteRows
<1>13. UniqueStarts' BY <1>1 DEF UniqueStarts, PlanInv
<1>14. Versions'
  <2>1. \A p \in Plan : current'[p] <= updates' + 1 BY <1>1, <1>8, <1>9 DEF Versions, PlanInv
  <2>2. \A r \in rows' : r.at < MaxTime + r.version BY <1>1 DEF Versions, PlanInv
  <2>3. ASSUME NEW d \in Caller, apc'[d] # "idle"
        PROVE /\ call'[d].version <= current'[call'[d].plan]
              /\ apc'[d] = "updating" => call'[d].version <= updates'
              /\ \A r \in call'[d].seen : r.at < MaxTime + r.version
              /\ call'[d].time <= now' /\ call'[d].time <= call'[d].at
    <3>1. CASE d = c
      <4>1. place = "updating" => current[plan] <= updates'
        BY <1>8, <1>9 DEF Versions, PlanInv
      <4> QED BY <1>1, <1>5, <1>6, <1>7, <1>9, <1>10, <2>2, <3>1, <4>1
    <3>2. CASE d # c
      <4>1. call[d].version \in Nat /\ call[d] \in Plans!Call
        BY <1>2, PlanAssumption DEF Plans!TypeOK, Plans!Call
      <4>2. apc[d] = "updating" => call[d].version <= updates'
        BY <1>8, <4>1 DEF Versions, PlanInv
      <4> QED BY <1>1, <1>5, <1>6, <2>3, <3>2, <4>2 DEF Versions, PlanInv
    <3> QED BY <3>1, <3>2
  <2> QED BY <2>1, <2>2, <2>3 DEF Versions
<1>15. Alone'
  <2> SUFFICES ASSUME ~overlapping'
               PROVE /\ \A d, e \in Caller : apc'[d] # "idle" /\ apc'[e] # "idle" => d = e
                     /\ \A d \in Caller : apc'[d] # "idle" =>
                          /\ call'[d].version = current'[call'[d].plan]
                          /\ \A r \in rows' : \E s \in call'[d].seen : From(r, s)
    BY DEF Alone
  <2>1. \A d \in Caller : apc'[d] # "idle" => d = c BY <1>4, <1>6
  <2>2. \A r \in rows : From(r, r) BY <1>2, RowTypes DEF From, Plans!TypeOK
  <2> QED BY <1>1, <1>5, <1>7, <2>1, <2>2
<1>16. Timeline' BY <1>1, <1>4 DEF Timeline, PlanInv, Live
<1> QED BY <1>11, <1>12, <1>13, <1>14, <1>15, <1>16 DEF PlanInv

\* A call that commits or fails leaves the others what they read; without overlap there
\* are none.
LEMMA Left ==
    ASSUME PlanInv, NEW c \in Caller, Plans!Leave(c), UNCHANGED <<now, calls, updates>>,
           rows' \in SUBSET Plans!Row, IsFiniteSet(rows'), UniqueStarts',
           \A r \in rows' : r.at < MaxTime + r.version,
           current' \in [Plan -> 1..(MaxUpdates + 1)],
           \A p \in Plan : current[p] <= current'[p] /\ current'[p] <= updates + 1,
           overlapping' \in BOOLEAN,
           ~overlapping' => \A d \in Caller \ {c} : apc[d] = "idle",
           Timeline'
    PROVE PlanInv'
<1>1. Plans!TypeOK /\ FiniteRows BY DEF PlanInv
<1>2. apc' = [apc EXCEPT ![c] = "idle"] /\ call' = [call EXCEPT ![c] = Plans!NoCall]
  BY DEF Plans!Leave
<1>3. Plans!NoCall \in Plans!Call /\ Plans!NoCall.seen = {}
  BY PlanAssumption DEF Plans!NoCall, Plans!Call
<1>4. apc'[c] = "idle" /\ \A d \in Caller \ {c} : apc'[d] = apc[d] /\ call'[d] = call[d]
  BY <1>1, <1>2 DEF Plans!TypeOK
<1>5. Plans!TypeOK'
  <2>1. call' \in [Caller -> Plans!Call] BY <1>1, <1>2, <1>3 DEF Plans!TypeOK
  <2>2. apc' \in [Caller -> {"idle", "assigning", "updating"}] BY <1>1, <1>2 DEF Plans!TypeOK
  <2> QED BY <1>1, <2>1, <2>2 DEF Plans!TypeOK
<1>6. FiniteRows' BY <1>1, <1>2, <1>3, FS_EmptySet DEF FiniteRows, Plans!TypeOK
<1>7. Versions'
  <2> SUFFICES ASSUME NEW d \in Caller, apc'[d] # "idle"
               PROVE /\ call'[d].version <= current'[call'[d].plan]
                     /\ apc'[d] = "updating" => call'[d].version <= updates'
                     /\ \A r \in call'[d].seen : r.at < MaxTime + r.version
                     /\ call'[d].time <= now' /\ call'[d].time <= call'[d].at
    BY DEF Versions
  <2>1. call'[d] = call[d] /\ apc'[d] = apc[d] BY <1>4
  <2>2. call[d].version \in Nat /\ call[d].plan \in Plan BY <1>1, PlanAssumption DEF Plans!TypeOK, Plans!Call
  <2>3. current[call[d].plan] \in Nat /\ current'[call[d].plan] \in Nat
    BY <1>1, <2>2, PlanAssumption DEF Plans!TypeOK
  <2>4. call[d].version <= current[call[d].plan] BY <2>1 DEF PlanInv, Versions
  <2>5. call[d].version <= current'[call[d].plan] BY <2>2, <2>3, <2>4
  <2> QED BY <2>1, <2>5 DEF PlanInv, Versions
<1>8. Alone' BY <1>4 DEF Alone
<1> QED BY <1>5, <1>6, <1>7, <1>8 DEF PlanInv

LEMMA Assigned == ASSUME PlanInv, NEW c \in Caller, Plans!CommitAssignment(c) PROVE PlanInv'
<1> DEFINE k == call[c]
<1>1. Plans!TypeOK /\ FiniteRows /\ UniqueStarts BY DEF PlanInv
<1>2. /\ k.plan \in Plan /\ k.version \in 1..(MaxUpdates + 1) /\ k.version \in Nat /\ k.version >= 1
      /\ k.time \in Nat /\ k.at \in Nat /\ k.at <= MaxTime
  <2>1. k \in Plans!Call BY <1>1 DEF Plans!TypeOK
  <2> QED BY <2>1, PlanAssumption DEF Plans!Call
<1>3. k.time <= k.at /\ k.time <= now /\ k.version <= current[k.plan] /\ now \in Nat
  BY <1>1, PlanAssumption DEF PlanInv, Versions, Plans!CommitAssignment, Plans!TypeOK
<1>4. /\ apc[c] = "assigning" /\ Plans!Leave(c) /\ UNCHANGED <<now, current, calls, updates>>
  BY DEF Plans!CommitAssignment
<1>5. /\ current' \in [Plan -> 1..(MaxUpdates + 1)]
      /\ \A p \in Plan : current[p] <= current'[p] /\ current'[p] <= updates + 1
  BY <1>1, <1>4, PlanAssumption DEF PlanInv, Versions, Plans!TypeOK
<1>6. ~overlapping => \A d \in Caller \ {c} : apc[d] = "idle" BY <1>4 DEF PlanInv, Alone
<1>7. CASE UNCHANGED <<rows, overlapping>>
  <2>1. Timeline' BY <1>4, <1>7 DEF Timeline, PlanInv, Live
  <2>2. UniqueStarts' BY <1>1, <1>7 DEF UniqueStarts
  <2>3. \A r \in rows' : r.at < MaxTime + r.version BY <1>7 DEF PlanInv, Versions
  <2>4. rows' \in SUBSET Plans!Row /\ IsFiniteSet(rows') /\ overlapping' \in BOOLEAN
    BY <1>1, <1>7 DEF Plans!TypeOK, FiniteRows
  <2>5. ~overlapping' => \A d \in Caller \ {c} : apc[d] = "idle" BY <1>6, <1>7
  <2> QED BY <1>4, <1>5, <2>1, <2>2, <2>3, <2>4, <2>5, Left
<1>8. CASE /\ k.at \notin Plans!Starts(rows)
           /\ rows' = Plans!Saved(rows, Plans!Starts(k.seen), k.time, k.at, k.plan, k.version)
           /\ overlapping' = (overlapping /\ ~Plans!Undisturbed(c))
  <2> DEFINE vis == Plans!Starts(k.seen)
             new == [at |-> k.at, until |-> Plans!Never, plan |-> k.plan, version |-> k.version]
  <2>1. /\ rows' \in SUBSET Plans!Row /\ IsFiniteSet(rows')
        /\ \A q, s \in rows' : q.at = s.at => q = s
        /\ \A q \in rows' : q = new \/ (/\ q.at # k.at /\ \E r \in rows : From(q, r)
                                        /\ q.at \in vis => q.until <= k.at)
    <3>1. rows \in SUBSET Plans!Row /\ IsFiniteSet(rows) /\ \A r, s \in rows : r.at = s.at => r = s
      BY <1>1 DEF Plans!TypeOK, FiniteRows, UniqueStarts
    <3>2. k.at <= Plans!Never BY <1>2, PlanAssumption DEF Plans!Never
    <3> HIDE DEF k, vis
    <3> QED BY <1>2, <1>3, <1>8, <3>1, <3>2, SavedRows DEF new, vis
  <2>2. new.at = k.at /\ new.version = k.version /\ new.plan = k.plan OBVIOUS
  <2>3. /\ overlapping' \in BOOLEAN
        /\ ~overlapping' => ~overlapping \/ Plans!Undisturbed(c)
    BY <1>1, <1>8 DEF Plans!TypeOK
  <2>4. ~overlapping' => \A d \in Caller \ {c} : apc[d] = "idle"
    BY <1>6, <2>3 DEF Plans!Undisturbed
  \* every row is visible, and the version is still the current one
  <2>5. ASSUME ~overlapping' PROVE k.version = current[k.plan] /\ \A r \in rows : r.at \in vis
    <3>1. CASE ~overlapping BY <1>4, <3>1 DEF PlanInv, Alone, From, Plans!Starts
    <3>2. CASE Plans!Undisturbed(c) BY <3>2 DEF Plans!Undisturbed, Plans!Starts
    <3> QED BY <2>3, <2>5, <3>1, <3>2
  <2> HIDE DEF new, k, vis
  <2>6. \A r \in rows' : r.at < MaxTime + r.version
    <3> TAKE q \in rows'
    <3>1. CASE q = new BY <1>2, <2>2, <3>1, PlanAssumption
    <3>2. CASE q # new BY <2>1, <3>2 DEF From, PlanInv, Versions
    <3> QED BY <3>1, <3>2
  <2>7. Timeline'
    <3> SUFFICES ASSUME ~overlapping'
                 PROVE /\ \A q, s \in rows' : Live(q)' /\ Live(s)' /\ q.at < s.at => q.until <= s.at
                       /\ \A q \in rows' : Live(q)' => q.version = current'[q.plan] \/ q.until <= q.at + 1
      BY DEF Timeline, Live
    <3>1. \A q \in rows' : q \in Plans!Row /\ q.at \in Nat /\ q.until \in Nat BY <2>1, RowTypes
    <3>2. \A q \in rows' : q # new =>
             /\ q.until <= k.at
             /\ \E r \in rows : From(q, r) /\ r.at \in Nat /\ r.until \in Nat
      <4> TAKE q \in rows'
      <4> HAVE q # new
      <4>1. PICK r \in rows : From(q, r) BY <2>1
      <4>2. r \in Plans!Row BY <1>1 DEF Plans!TypeOK
      <4>3. q.until <= k.at BY <2>1, <2>5, <4>1 DEF From
      <4> QED BY <4>1, <4>2, <4>3, RowTypes
    \* without overlap the old rows were apart before; otherwise they are over by now
    <3>3. \A q \in rows' : q # new /\ Live(q)' =>
             ~overlapping /\ \E r \in rows : From(q, r) /\ Live(r)
      <4> TAKE q \in rows'
      <4> HAVE q # new /\ Live(q)'
      <4>1. PICK r \in rows : From(q, r) /\ r.at \in Nat /\ r.until \in Nat BY <3>2
      <4>2. q.until > q.at /\ q.until > now BY <1>4 DEF Live
      <4>3. Live(r) BY <1>3, <3>1, <4>1, <4>2 DEF Live, From
      <4>4. CASE Plans!Undisturbed(c)
        <5>1. k.at = k.time BY <4>4 DEF Plans!Undisturbed, k
        <5> QED BY <1>2, <1>3, <3>1, <3>2, <4>2, <5>1
      <4> QED BY <2>3, <4>1, <4>3, <4>4
    <3>4. ASSUME NEW q \in rows', NEW s \in rows', Live(q)', Live(s)', q.at < s.at
          PROVE q.until <= s.at
      <4>1. CASE q = new
        <5>1. s # new /\ s.until <= k.at /\ s.until > s.at BY <3>1, <3>2, <3>4, <4>1 DEF Live
        <5> QED BY <1>2, <2>2, <3>1, <3>4, <4>1, <5>1
      <4>2. CASE s = new /\ q # new BY <2>2, <3>2, <4>2
      <4>3. CASE s # new /\ q # new
        <5>1. PICK r \in rows : From(q, r) /\ Live(r) BY <3>3, <3>4, <4>3
        <5>2. PICK t \in rows : From(s, t) /\ Live(t) BY <3>3, <3>4, <4>3
        <5>3. r.until <= t.at BY <3>3, <3>4, <4>3, <5>1, <5>2 DEF From, PlanInv, Timeline
        <5>4. r \in Plans!Row /\ t \in Plans!Row BY <1>1 DEF Plans!TypeOK
        <5> QED BY <3>1, <5>1, <5>2, <5>3, <5>4, RowTypes DEF From
      <4> QED BY <4>1, <4>2, <4>3
    <3>5. ASSUME NEW q \in rows', Live(q)' PROVE q.version = current'[q.plan] \/ q.until <= q.at + 1
      <4>1. CASE q = new BY <1>4, <2>2, <2>5, <4>1
      <4>2. CASE q # new
        <5>1. PICK r \in rows : From(q, r) /\ Live(r) BY <3>3, <3>5, <4>2
        <5>2. r.version = current[r.plan] \/ r.until <= r.at + 1
          BY <3>3, <3>5, <4>2, <5>1 DEF PlanInv, Timeline
        <5>3. r \in Plans!Row BY <1>1 DEF Plans!TypeOK
        <5> QED BY <1>4, <3>1, <5>1, <5>2, <5>3, RowTypes DEF From
      <4> QED BY <4>1, <4>2
    <3> QED BY <3>4, <3>5
  <2>8. UniqueStarts' BY <2>1 DEF UniqueStarts
  <2> QED BY <1>4, <1>5, <2>1, <2>3, <2>4, <2>6, <2>7, <2>8, Left
<1> QED BY <1>7, <1>8 DEF Plans!CommitAssignment

LEMMA Updated == ASSUME PlanInv, NEW c \in Caller, Plans!CommitUpdate(c) PROVE PlanInv'
<1> DEFINE k == call[c]
<1>1. Plans!TypeOK /\ FiniteRows /\ UniqueStarts BY DEF PlanInv
<1>2. /\ apc[c] = "updating" /\ Plans!Leave(c) /\ UNCHANGED <<now, overlapping, calls, updates>>
  BY DEF Plans!CommitUpdate
<1>3. /\ k.plan \in Plan /\ k.version \in Nat /\ k.version >= 1 /\ k.version <= updates
      /\ k.time \in Nat /\ k.time <= now /\ k.seen \in SUBSET Plans!Row
      /\ now \in Nat /\ updates \in Nat /\ updates <= MaxUpdates
  <2>1. k \in Plans!Call BY <1>1 DEF Plans!TypeOK
  <2> QED BY <1>1, <1>2, <2>1, PlanAssumption DEF Plans!Call, PlanInv, Versions, Plans!TypeOK
<1>4. ~overlapping' => \A d \in Caller \ {c} : apc[d] = "idle" BY <1>2 DEF PlanInv, Alone
<1>5. overlapping' \in BOOLEAN BY <1>1, <1>2 DEF Plans!TypeOK
<1>6. \A p \in Plan : current[p] \in Nat /\ current[p] <= updates + 1
  BY <1>1, PlanAssumption DEF Plans!TypeOK, PlanInv, Versions
<1>7. CASE UNCHANGED <<current, rows>>
  <2>1. Timeline' BY <1>2, <1>7 DEF Timeline, PlanInv, Live
  <2>2. UniqueStarts' BY <1>1, <1>7 DEF UniqueStarts
  <2>3. \A r \in rows' : r.at < MaxTime + r.version BY <1>7 DEF PlanInv, Versions
  <2>4. rows' \in SUBSET Plans!Row /\ IsFiniteSet(rows') BY <1>1, <1>7 DEF Plans!TypeOK, FiniteRows
  <2>5. /\ current' \in [Plan -> 1..(MaxUpdates + 1)]
        /\ \A p \in Plan : current[p] <= current'[p] /\ current'[p] <= updates + 1
    BY <1>1, <1>6, <1>7 DEF Plans!TypeOK
  <2> QED BY <1>2, <1>4, <1>5, <2>1, <2>2, <2>3, <2>4, <2>5, Left
<1>8. ASSUME current[k.plan] = k.version, ~Plans!Collide(k),
             current' = [current EXCEPT ![k.plan] = k.version + 1],
             NEW order \in Plans!Orders(Plans!Listed(k)), rows' = Plans!MovedAll(k, order)
      PROVE PlanInv'
  <2> DEFINE n == Plans!Cardinality(Plans!Listed(k))
             L == Plans!Listed(k)
             a(j) == Plans!MoveAt(k, order[j])
             visible == Plans!Starts(rows) \subseteq Plans!Starts(k.seen)
  <2>1. n \in Nat
    <3>1. IsFiniteSet(k.seen) BY <1>1 DEF FiniteRows
    <3>2. IsFiniteSet(L) BY <3>1, FS_Subset DEF Plans!Listed
    <3> HIDE DEF L
    <3>3. Cardinality(L) \in Nat BY <3>2, FS_CardinalityType
    <3> QED BY <3>3, Counts DEF L
  <2>2. PICK set : Loop(set, k, order, n) /\ rows' = set[n]
    <3> HIDE DEF k
    <3> QED BY <1>8, <2>1, LoopResult
  <2>3. LoopInv(rows', k, order, n) BY <1>2, <1>8, <2>1, <2>2, LoopKeeps
  <2>4. /\ rows' \in SUBSET Plans!Row /\ IsFiniteSet(rows')
        /\ \A q, s \in rows' : q.at = s.at => q = s
        /\ \A q \in rows' :
             \/ /\ \E r \in rows : From(q, r)
                /\ visible => \A j \in 1..n : q.until <= a(j)
             \/ \E j \in 1..n : /\ q.at = a(j) /\ q.plan = k.plan /\ q.version = k.version + 1
                                /\ visible => \A l \in (j + 1)..n : q.until <= a(l)
    <3> HIDE DEF k, n
    <3> QED BY <2>3 DEF LoopInv
  <2>5. \A j \in 1..n : /\ order[j] \in L /\ a(j) \in Nat /\ a(j) < MaxTime + k.version + 1
                        /\ a(j) <= k.time \/ a(j) = order[j].at + 1
    <3>1. \A j \in 1..n : order[j] \in L
      BY DEF Plans!Orders, Plans!Bijection, Plans!Injection, Plans!Surjection
    <3> QED BY <1>2, <3>1, MoveTypes
  <2>6. \A r \in L : \E j \in 1..n : order[j] = r
    BY DEF Plans!Orders, Plans!Bijection, Plans!Injection, Plans!Surjection
  <2>7. /\ current' \in [Plan -> 1..(MaxUpdates + 1)]
        /\ current'[k.plan] = k.version + 1 /\ \A p \in Plan \ {k.plan} : current'[p] = current[p]
    BY <1>1, <1>3, <1>8, PlanAssumption DEF Plans!TypeOK
  <2>8. \A p \in Plan : current[p] <= current'[p] /\ current'[p] <= updates + 1
    BY <1>3, <1>6, <1>8, <2>7
  <2>9. ~overlapping => /\ visible
                        /\ \A r \in rows : \E s \in k.seen : From(r, s)
    BY <1>2 DEF PlanInv, Alone, From, Plans!Starts
  <2>10. \A r \in k.seen : r.plan = k.plan /\ r.version = k.version /\ r.until > k.time => r \in L
    BY DEF Plans!Listed
  <2> HIDE DEF k, n, a, L, visible
  <2>11. \A q \in rows' : q.at < MaxTime + q.version
    <3> TAKE q \in rows'
    <3>1. CASE \E r \in rows : From(q, r) BY <3>1 DEF From, PlanInv, Versions
    <3>2. CASE \E j \in 1..n : q.at = a(j) /\ q.version = k.version + 1
      BY <1>3, <2>5, <3>2, PlanAssumption
    <3> QED BY <2>4, <3>1, <3>2
  <2>12. Timeline'
    <3> SUFFICES ASSUME ~overlapping'
                 PROVE /\ \A q, s \in rows' : Live(q)' /\ Live(s)' /\ q.at < s.at => q.until <= s.at
                       /\ \A q \in rows' : Live(q)' => q.version = current'[q.plan] \/ q.until <= q.at + 1
      BY DEF Timeline, Live
    <3> DEFINE Old(q) == (\E r \in rows : From(q, r)) /\ (\A j \in 1..n : q.until <= a(j))
               New(q, j) == /\ q.at = a(j) /\ q.plan = k.plan /\ q.version = k.version + 1
                            /\ \A l \in (j + 1)..n : q.until <= a(l)
    <3>0. ~overlapping /\ now' = now BY <1>2
    <3>1. \A q \in rows' : q \in Plans!Row /\ q.at \in Nat /\ q.until \in Nat BY <2>4, RowTypes
    <3>2. \A q \in rows' : Old(q) \/ \E j \in 1..n : New(q, j) BY <2>4, <2>9, <3>0
    <3>3. \A q \in rows' : Live(q)' => q.until > q.at /\ q.until > now BY <3>0 DEF Live
    <3>4. ASSUME NEW q \in rows', NEW s \in rows', Live(q)', Live(s)', q.at < s.at
          PROVE q.until <= s.at
      <4>1. CASE Old(q) /\ Old(s)
        <5>1. PICK r \in rows : From(q, r) BY <4>1
        <5>2. PICK t \in rows : From(s, t) BY <4>1
        <5>3. r \in Plans!Row /\ t \in Plans!Row BY <1>1 DEF Plans!TypeOK
        <5>4. Live(r) /\ Live(t) /\ r.at < t.at
          BY <1>3, <3>1, <3>3, <3>4, <5>1, <5>2, <5>3, RowTypes DEF From, Live
        <5>5. r.until <= t.at BY <3>0, <5>4 DEF PlanInv, Timeline
        <5> QED BY <3>1, <5>1, <5>2, <5>3, <5>5, RowTypes DEF From
      <4>2. CASE Old(q) /\ \E j \in 1..n : New(s, j) BY <4>2
      <4>3. CASE Old(s) /\ \E j \in 1..n : New(q, j)
        <5>1. PICK j \in 1..n : New(q, j) BY <4>3
        <5>2. s.until <= q.at BY <4>3, <5>1
        <5> QED BY <3>1, <3>3, <3>4, <5>2
      <4>4. CASE (\E j \in 1..n : New(q, j)) /\ (\E j \in 1..n : New(s, j))
        <5>1. PICK i \in 1..n : New(q, i) BY <4>4
        <5>2. PICK j \in 1..n : New(s, j) BY <4>4
        <5>3. CASE i < j
          <6>1. j \in (i + 1)..n BY <2>1, <5>3
          <6> QED BY <5>1, <5>2, <6>1
        <5>4. CASE j < i
          <6>1. i \in (j + 1)..n BY <2>1, <5>4
          <6>2. s.until <= q.at BY <5>1, <5>2, <6>1
          <6> QED BY <3>1, <3>3, <3>4, <6>2
        <5>5. CASE i = j BY <3>1, <3>4, <5>1, <5>2, <5>5
        <5> QED BY <2>1, <5>3, <5>4, <5>5
      <4> QED BY <3>2, <4>1, <4>2, <4>3, <4>4
    <3>5. ASSUME NEW q \in rows', Live(q)' PROVE q.version = current'[q.plan] \/ q.until <= q.at + 1
      <4>1. CASE \E j \in 1..n : New(q, j) BY <2>7, <4>1
      <4>2. CASE Old(q)
        <5>1. PICK r \in rows : From(q, r) BY <4>2
        <5>2. r \in Plans!Row BY <1>1 DEF Plans!TypeOK
        <5>3. Live(r) BY <1>3, <3>1, <3>3, <3>5, <5>1, <5>2, RowTypes DEF From, Live
        <5>4. r.version = current[r.plan] \/ r.until <= r.at + 1 BY <3>0, <5>3 DEF PlanInv, Timeline
        <5>5. CASE r.until <= r.at + 1 BY <3>1, <5>1, <5>2, <5>5, RowTypes DEF From
        <5>6. CASE r.version = current[r.plan] /\ r.plan # k.plan
          <6>1. r.plan \in Plan BY <5>2, RowTypes
          <6> QED BY <2>7, <5>1, <5>6, <6>1 DEF From
        <5>7. CASE r.version = current[r.plan] /\ r.plan = k.plan
          <6>1. PICK s \in k.seen : From(r, s) BY <2>9, <3>0
          <6>2. s \in Plans!Row BY <1>3
          <6>3. s.plan = k.plan /\ s.version = k.version /\ s.until > k.time
            BY <1>3, <1>8, <5>2, <5>3, <5>7, <6>1, <6>2, RowTypes DEF From, Live
          <6>4. PICK j \in 1..n : order[j] = s BY <2>6, <2>10, <6>3
          <6>5. q.until <= a(j) /\ q.at = s.at BY <4>2, <5>1, <6>1 DEF From
          <6>6. a(j) <= k.time \/ a(j) = s.at + 1 BY <2>5, <6>4
          <6>7. a(j) \in Nat BY <2>5
          <6>8. ~(q.until <= k.time) BY <1>3, <3>1, <3>3, <3>5
          <6> QED BY <1>3, <3>1, <6>5, <6>6, <6>7, <6>8
        <5> QED BY <5>4, <5>5, <5>6, <5>7
      <4> QED BY <3>2, <4>1, <4>2
    <3> QED BY <3>4, <3>5
  <2>13. UniqueStarts' BY <2>4 DEF UniqueStarts
  <2> QED BY <1>2, <1>4, <1>5, <2>4, <2>7, <2>8, <2>11, <2>12, <2>13, Left
<1> QED BY <1>7, <1>8 DEF Plans!CommitUpdate

LEMMA Removed == ASSUME PlanInv, Plans!DeleteSubjectAssignment PROVE PlanInv'
<1> DEFINE F(r) == IF r.until > now THEN [r EXCEPT !.until = now] ELSE r
<1>1. Plans!TypeOK /\ FiniteRows /\ UniqueStarts BY DEF PlanInv
<1>2. now \in Nat /\ now \in Plans!Time
  BY <1>1, PlanAssumption DEF Plans!TypeOK, Plans!Time, Plans!Never
<1>3. /\ rows' = {F(r) : r \in rows} /\ UNCHANGED <<now, current, apc, call, calls, updates>>
      /\ overlapping' = (overlapping /\ \E c \in Caller : apc[c] # "idle")
  BY DEF Plans!DeleteSubjectAssignment
<1>4. \A r \in rows : F(r) \in Plans!Row /\ From(F(r), r) /\ F(r).until <= now
  <2> TAKE r \in rows
  <2>1. r \in Plans!Row BY <1>1 DEF Plans!TypeOK
  <2> QED BY <1>2, <2>1, RowTypes DEF From, Plans!Row
<1>5. /\ overlapping' \in BOOLEAN
      /\ ~overlapping' => ~overlapping \/ \A c \in Caller : apc[c] = "idle"
  BY <1>1, <1>3 DEF Plans!TypeOK
<1> HIDE DEF F
<1>6. Plans!TypeOK' BY <1>1, <1>3, <1>4, <1>5 DEF Plans!TypeOK
<1>7. FiniteRows'
  <2> DEFINE f == [r \in rows |-> F(r)]
             T == {F(r) : r \in rows}
  <2>1. f \in Surjection(rows, T) BY DEF Surjection
  <2> HIDE DEF f, T
  <2>2. IsFiniteSet(T) BY <1>1, <2>1, FS_Surjection DEF FiniteRows
  <2> QED BY <1>1, <1>3, <2>2 DEF FiniteRows, T
<1>8. UniqueStarts' BY <1>1, <1>3, <1>4 DEF UniqueStarts, From
<1>9. Versions' BY <1>3, <1>4 DEF PlanInv, Versions, From
<1>10. Alone'
  <2> SUFFICES ASSUME ~overlapping, NEW c \in Caller, apc[c] # "idle", NEW q \in rows'
               PROVE \E s \in call[c].seen : From(q, s)
    BY <1>3, <1>5 DEF PlanInv, Alone
  <2>1. PICK r \in rows : q = F(r) BY <1>3
  <2>2. PICK s \in call[c].seen : From(r, s) BY DEF PlanInv, Alone
  <2>3. call[c] \in Plans!Call BY <1>1 DEF Plans!TypeOK
  <2>4. r \in Plans!Row /\ s \in Plans!Row /\ q \in Plans!Row
    BY <1>1, <1>4, <2>1, <2>3 DEF Plans!TypeOK, Plans!Call
  <2> QED BY <1>4, <2>1, <2>2, <2>4, RowTypes DEF From
<1>11. Timeline'
  <2>1. \A q \in rows' : ~Live(q)'
    <3> TAKE q \in rows'
    <3>1. q.until <= now /\ q.until \in Nat BY <1>3, <1>4, RowTypes
    <3> QED BY <1>2, <1>3, <3>1 DEF Live
  <2> QED BY <2>1 DEF Timeline, Live
<1> QED BY <1>6, <1>7, <1>8, <1>9, <1>10, <1>11 DEF PlanInv

LEMMA Ticked == ASSUME PlanInv, Plans!Tick PROVE PlanInv'
<1>1. Plans!TypeOK BY DEF PlanInv
<1>2. /\ now \in Nat /\ now' \in 0..MaxTime /\ now' \in Nat /\ now <= now'
      /\ UNCHANGED <<current, rows, apc, call, overlapping, calls, updates>>
  BY <1>1, PlanAssumption DEF Plans!Tick, Plans!TypeOK
<1>3. Plans!TypeOK' /\ FiniteRows' /\ UniqueStarts'
  BY <1>1, <1>2 DEF Plans!TypeOK, FiniteRows, UniqueStarts, PlanInv
<1>4. \A c \in Caller : call[c].time \in Nat
  BY <1>1, PlanAssumption DEF Plans!TypeOK, Plans!Call
<1>5. Versions' BY <1>2, <1>4 DEF Versions, PlanInv
<1>6. Alone' BY <1>2 DEF Alone, PlanInv
<1>7. \A r \in rows : Live(r)' => Live(r)
  <2> TAKE r \in rows
  <2>1. r \in Plans!Row BY <1>1 DEF Plans!TypeOK
  <2> QED BY <1>2, <2>1, RowTypes DEF Live
<1>8. Timeline' BY <1>2, <1>7 DEF Timeline, PlanInv, Live
<1> QED BY <1>3, <1>5, <1>6, <1>8 DEF PlanInv

LEMMA PlansKeep == ASSUME PlanInv, [Plans!Next]_(Plans!vars) PROVE PlanInv'
<1>1. now \in Nat /\ now \in 0..MaxTime BY PlanAssumption DEF PlanInv, Plans!TypeOK
<1>2. ASSUME NEW c \in Caller, NEW p \in Plan, NEW at \in 0..MaxTime, Plans!AssignSubject(c, p, at)
      PROVE PlanInv'
  BY <1>2, Entered DEF Plans!AssignSubject
<1>3. ASSUME NEW c \in Caller, NEW p \in Plan, Plans!UpdatePlan(c, p) PROVE PlanInv'
  BY <1>1, <1>3, Entered DEF Plans!UpdatePlan
<1>4. ASSUME UNCHANGED Plans!vars PROVE PlanInv'
  BY <1>4 DEF Plans!vars, PlanInv, Plans!TypeOK, FiniteRows, UniqueStarts, Versions, Alone, Timeline, Live
<1> QED BY <1>2, <1>3, <1>4, Assigned, Updated, Removed, Ticked DEF Plans!Next

LEMMA PlanInvariant == Plans!Spec => []PlanInv
BY PlanInit, PlansKeep, PTL DEF Plans!Spec

\* However assignments, schedules, plan updates and removals follow each other, the
\* subject has at most one plan at a time, in its current version but for the instant a
\* scheduled assignment starts, unless two calls overlapped (app/entitlement/service.go,
\* AssignSubject and UpdatePlan).
THEOREM OnePlanAtATime == Plans!Spec => []Plans!OneCurrentPlan
<1>1. ASSUME PlanInv PROVE Plans!OneCurrentPlan
  <2> SUFFICES ASSUME ~overlapping
               PROVE /\ Plans!Cardinality(Plans!Effective) <= 1
                     /\ \A r \in Plans!Effective : r.version = current[r.plan] \/ r.at = now
    BY DEF Plans!OneCurrentPlan
  <2>1. \A r \in Plans!Effective : /\ r \in rows /\ r.at \in Nat /\ r.until \in Nat /\ now \in Nat
                                   /\ r.at <= now /\ now < r.until
    BY <1>1, RowTypes, PlanAssumption DEF PlanInv, Plans!TypeOK, Plans!Effective
  <2>2. \A r \in Plans!Effective : Live(r) BY <2>1 DEF Live
  <2>3. \A r, s \in Plans!Effective : r = s
    <3> TAKE r, s \in Plans!Effective
    <3>1. ~(r.at < s.at) BY <1>1, <2>1, <2>2 DEF PlanInv, Timeline
    <3>2. ~(s.at < r.at) BY <1>1, <2>1, <2>2 DEF PlanInv, Timeline
    <3> QED BY <1>1, <2>1, <3>1, <3>2 DEF PlanInv, UniqueStarts
  <2>4. Cardinality(Plans!Effective) <= 1
    <3>1. Plans!Effective = {} \/ \E r : Plans!Effective = {r} BY <2>3
    <3>2. CASE Plans!Effective = {} BY <3>2, FS_EmptySet
    <3>3. CASE \E r : Plans!Effective = {r}
      <4>1. PICK r : Plans!Effective = {r} BY <3>3
      <4>2. Cardinality({r}) = 1 BY FS_Singleton, Zenon
      <4> QED BY <4>1, <4>2
    <3> QED BY <3>1, <3>2, <3>3
  <2>5. \A r \in Plans!Effective : r.version = current[r.plan] \/ r.at = now
    BY <1>1, <2>1, <2>2 DEF PlanInv, Timeline
  <2> QED BY <2>4, <2>5, Counts
<1> QED BY <1>1, PlanInvariant, PTL

----------------------------------------------------------------------------
(* The run.                                                                *)

\* A step of the run is a step of one part, and leaves the others alone.
LEMMA Parts ==
    ASSUME [Next]_vars
    PROVE /\ [Repair!Next]_(Repair!vars)
          /\ [Schedule!Next]_(Schedule!vars)
          /\ [Delivery!Next]_(Delivery!vars)
          /\ [Plans!Next]_(Plans!vars)
          /\ [Limit!Next]_(Limit!vars)
<1> USE DEF vars, repairVars, scheduleVars, deliveryVars, planVars, limitVars,
            Repair!vars, Delivery!vars, Plans!vars, Limit!vars,
            Schedule!vars, Schedule!scheduleVars, Schedule!noteVars, Schedule!replicaVars, Schedule!sbounds
<1>1. CASE RepairStep BY <1>1 DEF RepairStep
<1>2. CASE ScheduleStep(Schedule!Next) BY <1>2 DEF ScheduleStep
<1>3. CASE DeliveryStep(Delivery!Next) BY <1>3 DEF DeliveryStep
<1>4. CASE PlansStep BY <1>4 DEF PlansStep
<1>5. CASE LimitStep BY <1>5 DEF LimitStep
<1>6. CASE UNCHANGED vars BY <1>6
<1> QED BY <1>1, <1>2, <1>3, <1>4, <1>5, <1>6 DEF Next

\* A behaviour of the run is a behaviour of each part.
LEMMA ImplementsParts ==
    Spec => Repair!Spec /\ Schedule!Spec /\ Delivery!Spec /\ Plans!Spec /\ Limit!Spec
<1>1. Init => Repair!Init /\ Schedule!Init /\ Delivery!Init /\ Plans!Init /\ Limit!Init BY DEF Init
<1> QED BY <1>1, Parts, PTL
        DEF Spec, Repair!Spec, Schedule!Spec, Delivery!Spec, Plans!Spec, Limit!Spec

\* CounterRepair as the operations run checks it: a repair beside ingestion and
\* pruning counts every accepted event.
THEOREM OperationsCountAccepted == Spec => []CounterCountsAccepted
BY ImplementsParts, RepairCountsAccepted, PTL DEF CounterCountsAccepted

\* The scan as the operations run checks it.
THEOREM OperationsScan == Spec => []ScanIsRight
BY ImplementsParts, ScanReportsDrift, PTL DEF ScanIsRight

\* The reconciliation schedule as the operations run checks it.
THEOREM OperationsAnnounceOnce == Spec => DriftAnnouncedOnce
BY ImplementsParts, AnnouncedOnce DEF DriftAnnouncedOnce

\* The ingestion limit as the operations run checks it.
THEOREM OperationsWithinLimit == Spec => []WindowWithinLimit
BY ImplementsParts, LimitHolds, PTL DEF WindowWithinLimit

\* The subject's plan as the operations run checks it.
THEOREM OperationsOnePlan == Spec => []OneCurrentPlan
BY ImplementsParts, OnePlanAtATime, PTL DEF OneCurrentPlan

\* Every part keeps its types: in particular a repair, a delivery and a notification
\* stay within their versions and attempts, and updates move no start past the end of
\* time.
THEOREM OperationsTypeOK == Spec => []TypeOK
<1>1. RepairInv => Repair!TypeOK BY DEF RepairInv
<1>2. LimitInv => Limit!TypeOK BY DEF LimitInv
<1>3. PlanInv => Plans!TypeOK BY DEF PlanInv
<1> QED BY <1>1, <1>2, <1>3, ImplementsParts, RepairInductive, ScheduleTypeInvariant,
           DeliveryTypeInvariant, PlanInvariant, LimitInductive, PTL DEF TypeOK
============================================================================
