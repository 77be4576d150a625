-------------------------- MODULE AlertEvaluation --------------------------
(***************************************************************************)
(* One alert rule: its evaluation job, the replicas of the alert worker    *)
(* that claim it, the evaluations the API runs at any time beside them,    *)
(* and the states and events they record.                                  *)
(*                                                                         *)
(* A rule has one state, or with a group-by one for every group with       *)
(* usage; an evaluation that fails is recorded under the rule's own key    *)
(* either way.  The aggregate is abstracted to its side of the threshold   *)
(* (the rule's own is that of a meter that takes the maximum), the clock   *)
(* to whether a lock has run out: run_after and next_evaluate_at only      *)
(* delay a claim and an enqueue, which here come as late as they like.  An *)
(* event is saved together with its delivery job.                          *)
(***************************************************************************)
EXTENDS Integers

CONSTANTS
    Evaluator,     \* goroutines that evaluate: worker replicas and API requests
    Group,         \* values of the group-by key
    MaxAttempts,   \* OPEN_SPANNER_ALERT_WORKER_MAX_ATTEMPTS
    MaxChanges,    \* bound: changes of the usage, updates of the rule, dead letters requeued
    MaxFaults      \* bound: crashes, failed calls and evaluations asked for by the API

ASSUME MaxAttemptsAssumption == MaxAttempts \in Nat \ {0}
ASSUME BoundsAssumption == MaxChanges \in Nat /\ MaxFaults \in Nat
ASSUME GroupAssumption == "rule" \notin Group    \* the empty group key is no group

VARIABLES
    rule,          \* "absent", "enabled", "disabled" or "deleted"
    grouped,       \* whether the rule has a group-by
    usage,         \* the window's aggregate of each group: none, low or high
    state,         \* alert_states: the status of each key, "none" without a row
    announced,     \* the last triggered or resolved event of each key
    jobState,      \* alert_evaluation_jobs: no row, unlocked, locked, lock run out
    attempts,
    dead,          \* system_worker_dead_letters: those of the rule not requeued
    pc, mine,      \* each evaluator: where it is, the attempt it claimed (0: the API)
    seen, previous,    \* what it measured, and the states it read
    overlapped,    \* history: two evaluations have been under way together
    changes, faults

ruleVars == <<rule, grouped>>
jobVars == <<jobState, attempts, dead>>
localVars == <<pc, mine, seen, previous>>
bounds == <<changes, faults>>
vars == <<ruleVars, usage, state, announced, jobVars, localVars, overlapped, bounds>>

Own == "rule"        \* the empty group key
Key == Group \cup {Own}

Usage == {"none", "low", "high"}
Status == {"none", "ok", "alerting", "no_data", "error"}
Measurement == UNION {[D -> Status \cup {"disabled"}] : D \in SUBSET Key}
PC == {"idle", "started", "comparing", "saving", "completing", "failing"}

TypeOK ==
    /\ rule \in {"absent", "enabled", "disabled", "deleted"} /\ grouped \in BOOLEAN
    /\ usage \in [Group -> Usage]
    /\ state \in [Key -> Status]
    /\ announced \in [Key -> {"none", "triggered", "resolved"}]
    /\ jobState \in {"none", "waiting", "locked", "past"} /\ attempts \in 0..MaxAttempts
    /\ dead \in Nat
    /\ pc \in [Evaluator -> PC] /\ mine \in [Evaluator -> 0..MaxAttempts]
    /\ seen \in [Evaluator -> Measurement] /\ previous \in [Evaluator -> [Key -> Status]]
    /\ overlapped \in BOOLEAN
    /\ changes \in 0..MaxChanges /\ faults \in 0..MaxFaults

NoStates == [k \in Key |-> "none"]
NoReading == [k \in {} |-> "none"]

Init ==
    /\ rule = "absent" /\ grouped \in BOOLEAN
    /\ usage \in [Group -> {"low", "high"}]
    /\ state = NoStates /\ announced = NoStates
    /\ jobState = "none" /\ attempts = 0 /\ dead = 0
    /\ pc = [e \in Evaluator |-> "idle"] /\ mine = [e \in Evaluator |-> 0]
    /\ seen = [e \in Evaluator |-> NoReading] /\ previous = [e \in Evaluator |-> NoStates]
    /\ overlapped = FALSE
    /\ changes = 0 /\ faults = 0

Fault == faults < MaxFaults /\ faults' = faults + 1

----------------------------------------------------------------------------
(* The rule and its usage.                                                 *)

\* INSERT ... ON CONFLICT: a new job starts at no attempts, of a job that exists only
\* run_after may change, a locked one stays as it is.
Enqueue ==
    /\ IF jobState = "none" THEN jobState' = "waiting" /\ attempts' = 0 ELSE UNCHANGED <<jobState, attempts>>
    /\ UNCHANGED dead

\* Create: the job is enqueued by a second statement, which may fail; the rule is due
\* at once all the same.
CreateRule ==
    /\ rule = "absent" /\ rule' = "enabled"
    /\ \/ Enqueue /\ UNCHANGED faults
       \/ Fault /\ UNCHANGED jobVars
    /\ UNCHANGED <<grouped, usage, state, announced, localVars, overlapped, changes>>

\* Update, of what an evaluation depends on: enabled and the group-by.
UpdateRule ==
    /\ rule \in {"enabled", "disabled"} /\ changes < MaxChanges /\ changes' = changes + 1
    /\ rule' \in {"enabled", "disabled"} /\ grouped' \in BOOLEAN
    /\ ruleVars' # ruleVars
    /\ \/ rule' = "enabled" /\ Enqueue /\ UNCHANGED faults
       \/ rule' = "enabled" /\ Fault /\ UNCHANGED jobVars
       \/ rule' = "disabled" /\ UNCHANGED <<jobVars, faults>>
    /\ UNCHANGED <<usage, state, announced, localVars, overlapped>>

\* Delete: the rows that refer to the rule go with it, its dead letters stay.
DeleteRule ==
    /\ rule \in {"enabled", "disabled"} /\ rule' = "deleted" /\ grouped' = FALSE
    /\ state' = NoStates /\ announced' = NoStates
    /\ jobState' = "none" /\ attempts' = 0
    /\ UNCHANGED <<usage, dead, localVars, overlapped, bounds>>

\* Events arrive, or leave the window, while there is a rule to evaluate them.
UsageChanges(g) ==
    /\ rule \in {"enabled", "disabled"} /\ changes < MaxChanges /\ changes' = changes + 1
    /\ \E u \in Usage \ {usage[g]} : usage' = [usage EXCEPT ![g] = u]
    /\ UNCHANGED <<ruleVars, state, announced, jobVars, localVars, overlapped,
                   faults>>

\* The usage worker's fanout of an event that matches the rule, or the alert worker's
\* enqueue of the rules whose interval has elapsed.  Both read the enabled rules first
\* and insert later: the rule may be disabled by then, and when it is deleted the
\* insert fails on its foreign key.
EnqueueEvaluation ==
    /\ rule # "absent"
    /\ IF rule = "deleted" THEN UNCHANGED jobVars ELSE Enqueue
    /\ UNCHANGED <<ruleVars, usage, state, announced, localVars, overlapped, bounds>>

\* RetryWorkerDeadLetter: the operator's requeue of a dead letter joins the rule, and
\* puts the job back to no attempts and no lock, also one that a worker holds.
RetryWorkerDeadLetter ==
    /\ dead > 0 /\ rule \in {"enabled", "disabled"}
    /\ changes < MaxChanges /\ changes' = changes + 1
    /\ jobState' = "waiting" /\ attempts' = 0 /\ dead' = dead - 1
    /\ UNCHANGED <<ruleVars, usage, state, announced, localVars, overlapped, faults>>

LockExpires ==
    /\ jobState = "locked" /\ jobState' = "past"
    /\ UNCHANGED <<ruleVars, usage, state, announced, attempts, dead, localVars,
                   overlapped, bounds>>

----------------------------------------------------------------------------
(* An evaluation: read the rule and the aggregate, read the states, save.  *)

At(e, place) == pc[e] = place
Go(e, place) == pc' = [pc EXCEPT ![e] = place]

\* (mutant) a claim does not look at attempts
ClaimForEver(e) ==
    /\ At(e, "idle") /\ jobState \in {"waiting", "past"}
    /\ jobState' = "locked" /\ attempts' = attempts + 1
    /\ mine' = [mine EXCEPT ![e] = attempts'] /\ Go(e, "started")
    /\ UNCHANGED <<ruleVars, usage, state, announced, dead, seen, previous, overlapped, bounds>>

\* (mutant) a lock that has run out is not taken over
ClaimUnlocked(e) ==
    /\ At(e, "idle") /\ jobState = "waiting" /\ attempts < MaxAttempts
    /\ jobState' = "locked" /\ attempts' = attempts + 1
    /\ mine' = [mine EXCEPT ![e] = attempts'] /\ Go(e, "started")
    /\ UNCHANGED <<ruleVars, usage, state, announced, dead, seen, previous, overlapped, bounds>>

ClaimEvaluationJob(e) ==
    /\ At(e, "idle") /\ jobState \in {"waiting", "past"} /\ attempts < MaxAttempts
    /\ jobState' = "locked" /\ attempts' = attempts + 1
    /\ mine' = [mine EXCEPT ![e] = attempts'] /\ Go(e, "started")
    /\ UNCHANGED <<ruleVars, usage, state, announced, dead, seen, previous, overlapped, bounds>>

\* POST /v1/alerts/{id}/evaluate: no job is involved.
EvaluateByAPI(e) ==
    /\ At(e, "idle") /\ rule # "absent" /\ Fault
    /\ mine' = [mine EXCEPT ![e] = 0] /\ Go(e, "started")
    /\ UNCHANGED <<ruleVars, usage, state, announced, jobVars, seen, previous,
                   overlapped, changes>>

Total ==
    CASE \E g \in Group : usage[g] = "high" -> "high"
      [] \A g \in Group : usage[g] = "none" -> "none"
      [] OTHER -> "low"

Classify(u) == CASE u = "none" -> "no_data" [] u = "low" -> "ok" [] u = "high" -> "alerting"

\* The keys an evaluation finds: the rule's own, or the groups of the breakdown.
Items == IF grouped THEN {g \in Group : usage[g] # "none"} ELSE {Own}
Reading == [k \in Items |-> Classify(IF k = Own THEN Total ELSE usage[k])]
OwnStatus(s) == [k \in {Own} |-> s]

\* A disabled rule is ok; a query that fails is an error; neither looks at the
\* previous states.  A rule or a meter that is not found ends the evaluation.
Measure(e) ==
    /\ At(e, "started")
    /\ overlapped' = (overlapped \/ \E f \in Evaluator \ {e} : pc[f] \in {"comparing", "saving"})
    /\ \/ rule = "deleted" /\ Go(e, "failing") /\ UNCHANGED <<seen, faults>>
       \/ Fault /\ Go(e, "failing") /\ UNCHANGED seen
       \/ /\ rule = "disabled" /\ Go(e, "saving") /\ UNCHANGED faults
          /\ seen' = [seen EXCEPT ![e] = OwnStatus("disabled")]
       \/ /\ rule = "enabled" /\ Go(e, "comparing") /\ UNCHANGED faults
          /\ seen' = [seen EXCEPT ![e] = Reading]
       \/ /\ rule = "enabled" /\ Fault /\ Go(e, "saving")
          /\ seen' = [seen EXCEPT ![e] = OwnStatus("error")]
    /\ previous' = [previous EXCEPT ![e] = NoStates]
    /\ UNCHANGED <<ruleVars, usage, state, announced, jobVars, mine, changes>>

\* FindState or FindStates; which it was shows in what was measured.
Compare(e) ==
    /\ At(e, "comparing")
    /\ \/ /\ previous' = [previous EXCEPT ![e] =
                [k \in Key |-> IF (k = Own) = (Own \in DOMAIN seen[e]) THEN state[k] ELSE "none"]]
          /\ Go(e, "saving") /\ UNCHANGED <<seen, faults>>
       \/ /\ Fault /\ Go(e, "failing") /\ seen' = [seen EXCEPT ![e] = NoReading]
          /\ UNCHANGED previous
    /\ UNCHANGED <<ruleVars, usage, state, announced, jobVars, mine, overlapped, changes>>

\* The states to save: what was measured, and no_data for a group that has a state
\* and no usage any more.
NextStates(r, p) ==
    LET vanished == {g \in Group : p[g] # "none"} \ DOMAIN r IN
    CASE r = OwnStatus("disabled") -> OwnStatus("ok")
      [] r # OwnStatus("disabled") /\ Own \in DOMAIN r -> r
      [] Own \notin DOMAIN r /\ DOMAIN r \cup vanished = {} -> OwnStatus("no_data")
      [] Own \notin DOMAIN r /\ DOMAIN r \cup vanished # {} ->
            [k \in DOMAIN r \cup vanished |-> IF k \in DOMAIN r THEN r[k] ELSE "no_data"]

\* (mutant) only a state that was ok before is announced as triggered
TriggeredFromOk(p, n, last) ==
    CASE n = "alerting" /\ p \in {"none", "ok"} -> "triggered"
      [] p = "alerting" /\ n # "alerting" -> "resolved"
      [] OTHER -> last

\* shouldCreateEvent and eventForState: the event of a key, if there is one.
Announce(p, n, last) ==
    CASE n = "alerting" /\ p # "alerting" -> "triggered"
      [] p = "alerting" /\ n # "alerting" -> "resolved"
      [] OTHER -> last

\* The transaction of saveEvaluations, or SaveState alone for a disabled rule.
Record(r, p) ==
    LET next == NextStates(r, p) IN
    /\ state' = [k \in Key |-> IF k \in DOMAIN next THEN next[k] ELSE state[k]]
    /\ announced' = [k \in Key |-> IF k \in DOMAIN next THEN Announce(p[k], next[k], announced[k])
                                   ELSE announced[k]]

\* (mutant) the states of a deleted rule are saved
SaveUnchecked(e) ==
    /\ At(e, "saving")
    /\ Record(seen[e], previous[e]) /\ Go(e, "completing")
    /\ seen' = [seen EXCEPT ![e] = NoReading] /\ previous' = [previous EXCEPT ![e] = NoStates]
    /\ UNCHANGED <<ruleVars, usage, jobVars, mine, overlapped, bounds>>

\* The rows of a deleted rule are gone: the save fails on its foreign key.
Save(e) ==
    /\ At(e, "saving")
    /\ \/ /\ rule # "deleted" /\ Record(seen[e], previous[e]) /\ UNCHANGED faults
          /\ Go(e, IF seen[e] = OwnStatus("error") THEN "failing" ELSE "completing")
       \/ rule = "deleted" /\ Go(e, "failing") /\ UNCHANGED <<state, announced, faults>>
       \/ /\ Fault /\ Go(e, "failing")
          /\ \/ rule # "deleted" /\ Record(seen[e], previous[e])
             \/ UNCHANGED <<state, announced>>
    /\ seen' = [seen EXCEPT ![e] = NoReading] /\ previous' = [previous EXCEPT ![e] = NoStates]
    /\ UNCHANGED <<ruleVars, usage, jobVars, mine, overlapped, changes>>

----------------------------------------------------------------------------
(* The end of the job.                                                     *)

\* The fence of the three statements: attempts is the one claimed.
Holds(e) == jobState # "none" /\ attempts = mine[e]

DeleteJob == jobState' = "none" /\ attempts' = 0

\* CompleteEvaluationJob; a job that is not found any more, and an API request, have
\* nothing to do.  After an error the lock stays until it runs out.
CompleteEvaluationJob(e) ==
    /\ At(e, "completing") /\ Go(e, "idle") /\ mine' = [mine EXCEPT ![e] = 0]
    /\ \/ mine[e] # 0 /\ Holds(e) /\ DeleteJob /\ UNCHANGED <<dead, faults>>
       \/ (mine[e] = 0 \/ ~Holds(e)) /\ UNCHANGED <<jobVars, faults>>
       \/ mine[e] # 0 /\ Fault /\ UNCHANGED jobVars
    /\ UNCHANGED <<ruleVars, usage, state, announced, seen, previous, overlapped,
                   changes>>

\* RequeueEvaluationJob, or after the last attempt DeadLetterEvaluationJob.
Release(e) ==
    \/ mine[e] >= MaxAttempts /\ DeleteJob /\ dead' = dead + 1
    \/ mine[e] < MaxAttempts /\ jobState' = "waiting" /\ UNCHANGED <<attempts, dead>>

FailEvaluationJob(e) ==
    /\ At(e, "failing") /\ Go(e, "idle") /\ mine' = [mine EXCEPT ![e] = 0]
    /\ \/ mine[e] # 0 /\ Holds(e) /\ Release(e) /\ UNCHANGED faults
       \/ (mine[e] = 0 \/ ~Holds(e)) /\ UNCHANGED <<jobVars, faults>>
       \/ mine[e] # 0 /\ Fault /\ UNCHANGED jobVars
    /\ UNCHANGED <<ruleVars, usage, state, announced, seen, previous, overlapped,
                   changes>>

\* The process stops; its lock runs out.
Crash(e) ==
    /\ ~At(e, "idle") /\ Fault
    /\ Go(e, "idle") /\ mine' = [mine EXCEPT ![e] = 0]
    /\ seen' = [seen EXCEPT ![e] = NoReading] /\ previous' = [previous EXCEPT ![e] = NoStates]
    /\ UNCHANGED <<ruleVars, usage, state, announced, jobVars, overlapped, changes>>

----------------------------------------------------------------------------
Step(e) == Measure(e) \/ Compare(e) \/ Save(e) \/ CompleteEvaluationJob(e) \/ FailEvaluationJob(e)

Next ==
    \/ CreateRule \/ UpdateRule \/ DeleteRule \/ (\E g \in Group : UsageChanges(g))
    \/ EnqueueEvaluation \/ RetryWorkerDeadLetter \/ LockExpires
    \/ \E e \in Evaluator : ClaimEvaluationJob(e) \/ EvaluateByAPI(e) \/ Step(e) \/ Crash(e)

Spec == Init /\ [][Next]_vars

\* The interval elapses and the worker's ticker enqueues the rule, a worker claims what
\* it can, an evaluation that began comes to its end (which, as every step leads there,
\* is weak fairness of Step), and a lock runs out.
Fairness ==
    /\ WF_vars(rule = "enabled" /\ EnqueueEvaluation) /\ WF_vars(LockExpires)
    /\ WF_vars(\E e \in Evaluator : ClaimEvaluationJob(e))
    /\ \A e \in Evaluator : []<>At(e, "idle")

FairSpec == Spec /\ Fairness

----------------------------------------------------------------------------
(* Properties.                                                             *)

\* Unless two evaluations overlapped, whoever follows the events of a rule knows its
\* alerts: an alerting state was announced as triggered, and a group that is not
\* alerting was not left announced as triggered, although its usage may vanish, the
\* rule may fail, be disabled or be regrouped meanwhile, and a save that answered
\* with an error may have been applied.
AlertsAnnounced ==
    ~overlapped =>
        /\ \A k \in Key : state[k] = "alerting" => announced[k] = "triggered"
        /\ \A g \in Group : state[g] # "alerting" => announced[g] # "triggered"

\* Nothing is recorded for a rule once it is deleted, by an evaluation that was under
\* way, by an enqueue from an older reading of the rules or by a requeued dead letter.
DeletedForGood ==
    [][rule = "deleted" => UNCHANGED <<state, announced, jobState, attempts>>]_vars

\* The job of a worker that stopped in its last attempt is never claimed again, and no
\* enqueue resets it; only the requeue of an earlier dead letter of the rule would.
Stranded ==
    /\ jobState \in {"locked", "past"} /\ attempts = MaxAttempts
    /\ \A e \in Evaluator : At(e, "idle") \/ mine[e] # attempts

\* What is recorded agrees with the usage.
UpToDate ==
    LET next == NextStates(Reading, state) IN \A k \in DOMAIN next : state[k] = next[k]

\* When usage and rule stay as they are, the states come to agree with the usage for
\* good, whatever stale evaluations, crashes and failures came before: unless the
\* rule's job is stranded.
CatchesUp == <>[](rule = "enabled" => UpToDate \/ Stranded)

\* docs/content/docs/concepts/alerts.mdx:38: "Open Spanner records alert events when a
\* rule first enters `alerting`, resolves back out of `alerting`, or fails
\* evaluation."  An evaluation that fails, or finds the rule disabled, replaces the
\* alerting state, and the next one has nothing to resolve.
ResolvedIsRecorded ==
    ~overlapped /\ state[Own] = "ok" => announced[Own] # "triggered"
============================================================================
