----------------------- MODULE EntitlementCheckProofs -----------------------
(***************************************************************************)
(* Asynchronous entitlement checks for every number of workers, attempts,  *)
(* events and faults, as long as workers keep within their leases.         *)
(***************************************************************************)
EXTENDS EntitlementCheck, TLAPS

LEMMA OverageLevel == \A v \in Value : OverageState(v) \in Level
BY LimitAssumption, BoundAssumption DEF OverageState, Value, Level

LEMMA TypeInit == Init => TypeOK
<1> SUFFICES ASSUME Init PROVE TypeOK OBVIOUS
<1> USE LimitAssumption, MaxAttemptsAssumption, BoundAssumption DEF Init
<1>1. due \in BOOLEAN /\ fenced \in BOOLEAN OBVIOUS
<1>2. /\ pc \in [Worker -> PC] /\ try \in [Worker -> 0..MaxAttempts]
      /\ read \in [Worker -> 0..MaxUsage] /\ prev \in [Worker -> Level]
  BY DEF PC, Level
<1> QED BY <1>1, <1>2 DEF TypeOK, Value, Level

\* Enqueues are owed only for recorded events.
TypeInv == TypeOK /\ owed <= usage

\* Every step keeps the types.
LEMMA TypeStep ==
    ASSUME TypeInv, [Next]_vars PROVE TypeInv'
<1> USE MaxAttemptsAssumption, BoundAssumption DEF TypeInv, TypeOK, PC, Value, Level
<1>1. ASSUME RecordUsage PROVE TypeInv'
  BY <1>1 DEF RecordUsage, jobVars, workerVars, fence
<1>2. ASSUME EnqueueForUsageEvents PROVE TypeInv'
  <2>1. due' \in BOOLEAN BY <1>2 DEF EnqueueForUsageEvents
  <2>2. /\ owed' \in 0..MaxUsage /\ owed' <= usage /\ needed' \in 0..MaxUsage
        /\ row' \in {"absent", "free", "live", "expired"} /\ attempts' \in 0..MaxAttempts
    BY <1>2 DEF EnqueueForUsageEvents
  <2> QED BY <1>2, <2>1, <2>2 DEF EnqueueForUsageEvents, workerVars, fence
<1>3. ASSUME LeaseExpires PROVE TypeInv'
  BY <1>3 DEF LeaseExpires, workerVars
<1>4. ASSUME BecomesDue PROVE TypeInv'
  BY <1>4 DEF BecomesDue, workerVars, fence
<1>5. ASSUME RetryWorkerDeadLetter PROVE TypeInv'
  <2>1. due' \in BOOLEAN /\ fenced' \in BOOLEAN BY <1>5 DEF RetryWorkerDeadLetter
  <2>2. requeued' \in 0..MaxRequeues BY <1>5 DEF RetryWorkerDeadLetter
  <2> QED BY <1>5, <2>1, <2>2 DEF RetryWorkerDeadLetter, workerVars
<1>6. ASSUME NEW w \in Worker, ClaimCheckJob(w) PROVE TypeInv'
  BY <1>6 DEF ClaimCheckJob, fence
<1>7. ASSUME NEW w \in Worker, ReadProgress(w) PROVE TypeInv'
  BY <1>7 DEF ReadProgress, jobVars, fence
<1>8. ASSUME NEW w \in Worker, ReadPrevious(w) PROVE TypeInv'
  <2>1. OverageState(state) \in Level BY OverageLevel
  <2> QED BY <1>8, <2>1 DEF ReadPrevious, jobVars, fence
<1>9. ASSUME NEW w \in Worker, SaveEvaluation(w) PROVE TypeInv'
  <2>1. read[w] \in Value /\ OverageState(read[w]) \in Level BY OverageLevel
  <2>2. logged' \in Level BY <1>9, <2>1 DEF SaveEvaluation, Logs
  <2> QED BY <1>9, <2>1, <2>2 DEF SaveEvaluation, jobVars, fence
<1>10. ASSUME NEW w \in Worker, CompleteCheckJob(w) PROVE TypeInv'
  BY <1>10 DEF CompleteCheckJob, Holds, fence
<1>11. ASSUME NEW w \in Worker, FailCheckJob(w) PROVE TypeInv'
  <2>1. due' \in BOOLEAN BY <1>11 DEF FailCheckJob
  <2>2. dead' \in Nat /\ row' \in {"absent", "free", "live", "expired"}
    BY <1>11 DEF FailCheckJob
  <2> QED BY <1>11, <2>1, <2>2 DEF FailCheckJob, fence
<1>12. ASSUME NEW w \in Worker, EvaluateFails(w) PROVE TypeInv'
  BY <1>12 DEF EvaluateFails, jobVars, fence
<1>13. ASSUME NEW w \in Worker, Abandon(w) PROVE TypeInv'
  BY <1>13 DEF Abandon, jobVars, fence
<1>14. ASSUME UNCHANGED vars PROVE TypeInv'
  BY <1>14 DEF vars, jobVars, workerVars, fence
<1> QED
  BY <1>1, <1>2, <1>3, <1>4, <1>5, <1>6, <1>7, <1>8, <1>9, <1>10, <1>11, <1>12, <1>13, <1>14
  DEF Next, ProcessOnce, Evaluate

\* The types of the job row, the stored state and the workers.
THEOREM TypeCorrect == Spec => []TypeOK
<1>1. Init => TypeInv BY TypeInit DEF TypeInv, Init
<1>2. TypeInv => TypeOK BY DEF TypeInv
<1> QED BY <1>1, <1>2, TypeStep, PTL DEF Spec

----------------------------------------------------------------------------
(* Workers that keep within their leases.                                  *)

\* The lease and the attempt exclude every other worker.
Alone ==
    fenced => \A w \in Worker : pc[w] # "idle" =>
                  /\ row = "live" /\ attempts = try[w]
                  /\ \A v \in Worker \ {w} : pc[v] = "idle"

\* A claim finds nobody at work, and nobody else touches the row until it is done.
LEMMA AloneStep ==
    ASSUME TypeOK, Alone, [Next]_vars PROVE Alone'
<1> USE DEF TypeOK, PC, Alone
<1>1. ASSUME RecordUsage PROVE Alone'
  BY <1>1 DEF RecordUsage, jobVars, workerVars, fence
<1>2. ASSUME EnqueueForUsageEvents PROVE Alone'
  BY <1>2 DEF EnqueueForUsageEvents, workerVars, fence
<1>3. ASSUME LeaseExpires PROVE Alone'
  BY <1>3 DEF LeaseExpires, workerVars
<1>4. ASSUME BecomesDue PROVE Alone'
  BY <1>4 DEF BecomesDue, workerVars, fence
<1>5. ASSUME RetryWorkerDeadLetter PROVE Alone'
  BY <1>5 DEF RetryWorkerDeadLetter, workerVars
<1>6. ASSUME NEW w \in Worker, ClaimCheckJob(w) PROVE Alone'
  BY <1>6 DEF ClaimCheckJob, fence
<1>7. ASSUME NEW w \in Worker, ReadProgress(w) PROVE Alone'
  BY <1>7 DEF ReadProgress, jobVars, fence
<1>8. ASSUME NEW w \in Worker, ReadPrevious(w) PROVE Alone'
  BY <1>8 DEF ReadPrevious, jobVars, fence
<1>9. ASSUME NEW w \in Worker, SaveEvaluation(w) PROVE Alone'
  BY <1>9 DEF SaveEvaluation, jobVars, fence
<1>10. ASSUME NEW w \in Worker, CompleteCheckJob(w) PROVE Alone'
  BY <1>10 DEF CompleteCheckJob, Holds, fence
<1>11. ASSUME NEW w \in Worker, FailCheckJob(w) PROVE Alone'
  BY <1>11 DEF FailCheckJob, Holds, fence
<1>12. ASSUME NEW w \in Worker, EvaluateFails(w) PROVE Alone'
  BY <1>12 DEF EvaluateFails, jobVars, fence
<1>13. ASSUME NEW w \in Worker, Abandon(w) PROVE Alone'
  BY <1>13 DEF Abandon, jobVars, fence
<1>14. ASSUME UNCHANGED vars PROVE Alone'
  BY <1>14 DEF vars, jobVars, workerVars, fence
<1> QED
  BY <1>1, <1>2, <1>3, <1>4, <1>5, <1>6, <1>7, <1>8, <1>9, <1>10, <1>11, <1>12, <1>13, <1>14
  DEF Next, ProcessOnce, Evaluate

\* What has been read and stored is usage; under the lease it stays what it was.
Readings ==
    /\ state <= usage /\ needed <= usage
    /\ \A w \in Worker : read[w] <= usage
    /\ fenced => \A w \in Worker :
          /\ pc[w] \in {"previous", "save"} => read[w] >= state
          /\ pc[w] \in {"previous", "save", "complete"} => read[w] >= needed
          /\ pc[w] = "complete" => state = read[w]

\* A reading covers what was announced before the claim.
LEMMA ReadingsStep ==
    ASSUME TypeOK, Alone, Readings, [Next]_vars PROVE Readings'
<1> USE DEF TypeOK, PC, Value, Alone, Readings
<1>1. ASSUME RecordUsage PROVE Readings'
  BY <1>1 DEF RecordUsage, jobVars, workerVars, fence
<1>2. ASSUME EnqueueForUsageEvents PROVE Readings'
  BY <1>2 DEF EnqueueForUsageEvents, workerVars, fence
<1>3. ASSUME LeaseExpires PROVE Readings'
  BY <1>3 DEF LeaseExpires, workerVars
<1>4. ASSUME BecomesDue PROVE Readings'
  BY <1>4 DEF BecomesDue, workerVars, fence
<1>5. ASSUME RetryWorkerDeadLetter PROVE Readings'
  BY <1>5 DEF RetryWorkerDeadLetter, workerVars
<1>6. ASSUME NEW w \in Worker, ClaimCheckJob(w) PROVE Readings'
  BY <1>6 DEF ClaimCheckJob, fence
<1>7. ASSUME NEW w \in Worker, ReadProgress(w) PROVE Readings'
  BY <1>7 DEF ReadProgress, jobVars, fence
<1>8. ASSUME NEW w \in Worker, ReadPrevious(w) PROVE Readings'
  BY <1>8 DEF ReadPrevious, jobVars, fence
<1>9. ASSUME NEW w \in Worker, SaveEvaluation(w) PROVE Readings'
  BY <1>9 DEF SaveEvaluation, jobVars, fence
<1>10. ASSUME NEW w \in Worker, CompleteCheckJob(w) PROVE Readings'
  BY <1>10 DEF CompleteCheckJob, Holds, fence
<1>11. ASSUME NEW w \in Worker, FailCheckJob(w) PROVE Readings'
  BY <1>11 DEF FailCheckJob, Holds, fence
<1>12. ASSUME NEW w \in Worker, EvaluateFails(w) PROVE Readings'
  BY <1>12 DEF EvaluateFails, jobVars, fence
<1>13. ASSUME NEW w \in Worker, Abandon(w) PROVE Readings'
  BY <1>13 DEF Abandon, jobVars, fence
<1>14. ASSUME UNCHANGED vars PROVE Readings'
  BY <1>14 DEF vars, jobVars, workerVars, fence
<1> QED
  BY <1>1, <1>2, <1>3, <1>4, <1>5, <1>6, <1>7, <1>8, <1>9, <1>10, <1>11, <1>12, <1>13, <1>14
  DEF Next, ProcessOnce, Evaluate

LEMMA LeaseInvariant == Spec => [](TypeOK /\ Alone /\ Readings)
<1>1. Init => Alone /\ Readings
  BY LimitAssumption, BoundAssumption DEF Init, Alone, Readings
<1> QED BY <1>1, TypeCorrect, AloneStep, ReadingsStep, PTL DEF Spec

\* Within a period the stored value never goes back to an older reading: SaveState is
\* a blind write, and the lease is what orders it.
THEOREM Advances == Spec => StateAdvances
<1>1. TypeOK /\ Alone /\ Readings /\ [Next]_vars => [fenced' => state' >= state]_vars
  <2> SUFFICES ASSUME TypeOK, Alone, Readings, [Next]_vars, fenced' PROVE state' >= state OBVIOUS
  <2>0. state \in Int BY DEF TypeOK, Value
  <2>1. CASE state' = state BY <2>0, <2>1
  <2>2. ASSUME NEW w \in Worker, SaveEvaluation(w) PROVE state' >= state
    <3>1. fenced BY <2>2 DEF SaveEvaluation, fence
    <3> QED BY <2>2, <3>1 DEF SaveEvaluation, Readings
  <2>3. state' = state \/ \E w \in Worker : SaveEvaluation(w)
    BY DEF Next, ProcessOnce, Evaluate, RecordUsage, EnqueueForUsageEvents, LeaseExpires, BecomesDue,
       RetryWorkerDeadLetter, ClaimCheckJob, ReadProgress, ReadPrevious, CompleteCheckJob,
       FailCheckJob, EvaluateFails, Abandon, vars
  <2> QED BY <2>1, <2>2, <2>3
<1> QED BY <1>1, LeaseInvariant, PTL DEF Spec, StateAdvances

\* A job is deleted as done only when the stored state covers the usage announced by
\* the enqueues that took effect: those skipped under a live lease are the exception
\* that StateCatchesUp is about.
THEOREM Covered == Spec => CompletionCovers
<1> DEFINE Ends == fenced' /\ row # "absent" /\ row' = "absent" /\ dead' = dead
<1>1. TypeOK /\ Alone /\ Readings /\ [Next]_vars => [Ends => state >= needed]_vars
  <2> SUFFICES ASSUME TypeOK, Alone, Readings, [Next]_vars, Ends PROVE state >= needed OBVIOUS
  <2>1. \E w \in Worker : CompleteCheckJob(w)
    <3>1. \A w \in Worker : ~FailCheckJob(w) BY DEF FailCheckJob, TypeOK
    <3> QED BY <3>1
        DEF Next, ProcessOnce, Evaluate, RecordUsage, EnqueueForUsageEvents, LeaseExpires,
            BecomesDue, RetryWorkerDeadLetter, ClaimCheckJob, ReadProgress, ReadPrevious,
            SaveEvaluation, EvaluateFails, Abandon, jobVars, vars
  <2>2. PICK w \in Worker : CompleteCheckJob(w) BY <2>1
  <2>3. fenced /\ pc[w] = "complete" BY <2>2 DEF CompleteCheckJob, fence
  <2> QED BY <2>3 DEF Readings
<1> QED BY <1>1, LeaseInvariant, PTL DEF Spec, CompletionCovers

----------------------------------------------------------------------------
(* The event log.                                                          *)

\* A worker about to save knows the stored state.
LogInv ==
    /\ fenced => \A w \in Worker : pc[w] = "save" => prev[w] = OverageState(state)
    /\ EventLogAgrees

\* An event is saved with the state it leads to, and nobody else saves meanwhile.
LEMMA LogStep ==
    ASSUME TypeOK, Alone, LogInv, [Next]_vars PROVE LogInv'
<1> USE DEF TypeOK, PC, Alone, LogInv, EventLogAgrees
<1>1. ASSUME RecordUsage PROVE LogInv'
  BY <1>1 DEF RecordUsage, jobVars, workerVars, fence
<1>2. ASSUME EnqueueForUsageEvents PROVE LogInv'
  BY <1>2 DEF EnqueueForUsageEvents, workerVars, fence
<1>3. ASSUME LeaseExpires PROVE LogInv'
  BY <1>3 DEF LeaseExpires, workerVars
<1>4. ASSUME BecomesDue PROVE LogInv'
  BY <1>4 DEF BecomesDue, workerVars, fence
<1>5. ASSUME RetryWorkerDeadLetter PROVE LogInv'
  BY <1>5 DEF RetryWorkerDeadLetter, workerVars
<1>6. ASSUME NEW w \in Worker, ClaimCheckJob(w) PROVE LogInv'
  BY <1>6 DEF ClaimCheckJob, fence
<1>7. ASSUME NEW w \in Worker, ReadProgress(w) PROVE LogInv'
  BY <1>7 DEF ReadProgress, jobVars, fence
<1>8. ASSUME NEW w \in Worker, ReadPrevious(w) PROVE LogInv'
  BY <1>8 DEF ReadPrevious, jobVars, fence
<1>9. ASSUME NEW w \in Worker, SaveEvaluation(w) PROVE LogInv'
  <2>1. CASE ~fenced'
    BY <1>9, <2>1 DEF SaveEvaluation, fence
  <2>2. CASE fenced'
    <3>1. /\ fenced /\ pc[w] = "save" /\ state' = read[w]
          /\ logged' = Logs(prev[w], OverageState(read[w]), logged)
          /\ pc' = [pc EXCEPT ![w] = "complete"]
      BY <1>9, <2>2 DEF SaveEvaluation, fence
    <3>2. prev[w] = OverageState(state) BY <3>1
    <3>3. \A v \in Worker : pc'[v] # "save" BY <3>1
    <3>4. OverageState(state') = OverageState(read[w]) BY <3>1 DEF OverageState
    <3>5. \/ logged = OverageState(state)
          \/ logged = "none" /\ OverageState(state) = "ok"
      BY <3>1
    <3>6. OverageState(read[w]) # "none"
      BY LimitAssumption DEF OverageState
    <3>7. \/ logged' = OverageState(read[w])
          \/ logged' = "none" /\ OverageState(read[w]) = "ok"
      BY <3>1, <3>2, <3>5, <3>6 DEF Logs
    <3> QED BY <3>3, <3>4, <3>7
  <2> QED BY <2>1, <2>2
<1>10. ASSUME NEW w \in Worker, CompleteCheckJob(w) PROVE LogInv'
  BY <1>10 DEF CompleteCheckJob, Holds, fence
<1>11. ASSUME NEW w \in Worker, FailCheckJob(w) PROVE LogInv'
  BY <1>11 DEF FailCheckJob, Holds, fence
<1>12. ASSUME NEW w \in Worker, EvaluateFails(w) PROVE LogInv'
  BY <1>12 DEF EvaluateFails, jobVars, fence
<1>13. ASSUME NEW w \in Worker, Abandon(w) PROVE LogInv'
  BY <1>13 DEF Abandon, jobVars, fence
<1>14. ASSUME UNCHANGED vars PROVE LogInv'
  BY <1>14 DEF vars, jobVars, workerVars, fence
<1> QED
  BY <1>1, <1>2, <1>3, <1>4, <1>5, <1>6, <1>7, <1>8, <1>9, <1>10, <1>11, <1>12, <1>13, <1>14
  DEF Next, ProcessOnce, Evaluate

\* The latest transition in the event log leads to the stored state.
THEOREM LogAgrees == Spec => []EventLogAgrees
<1>1. Init => LogInv BY DEF Init, LogInv, EventLogAgrees, OverageState
<1>2. LogInv => EventLogAgrees BY DEF LogInv
<1> QED BY <1>1, <1>2, LeaseInvariant, LogStep, PTL DEF Spec
=============================================================================
