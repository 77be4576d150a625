----------------------- MODULE AlertEvaluationProofs -----------------------
(***************************************************************************)
(* The alerts of a rule are announced, and a deleted rule stays deleted,   *)
(* for every number of evaluators, groups, changes and faults.             *)
(***************************************************************************)
EXTENDS AlertEvaluation, TLAPS

Measured == {"ok", "alerting", "no_data"}

\* What an enabled rule measures: its own aggregate, or that of some groups.
OwnReading == [{Own} -> Measured]
GroupReading == UNION {[D -> Measured] : D \in SUBSET Group}

\* An evaluation holds what its path measured.
SeenInv ==
    \A e \in Evaluator :
        /\ pc[e] = "comparing" => seen[e] \in OwnReading \cup GroupReading
        /\ pc[e] = "saving" => seen[e] \in OwnReading \cup GroupReading
                                           \cup {OwnStatus("disabled"), OwnStatus("error")}

\* Without an overlap one evaluation at a time is between its reading and its save.
OneEvaluation ==
    ~overlapped => \A e, f \in Evaluator :
        e # f /\ pc[e] \in {"comparing", "saving"} => pc[f] \notin {"comparing", "saving"}

\* What an evaluation compares with is still the state of the keys it may save: of the
\* rule's own key when it measured that, else of every group.
Fits(r, p) ==
    /\ r \in OwnReading => p[Own] = state[Own]
    /\ r \in GroupReading => p[Own] = "none" /\ \A g \in Group : p[g] = state[g]
    /\ r \in {OwnStatus("disabled"), OwnStatus("error")} => p[Own] = "none"

PreviousInv ==
    ~overlapped /\ rule # "deleted" =>
        \A e \in Evaluator : pc[e] = "saving" => Fits(seen[e], previous[e])

\* A deleted rule has no job, and gets none.
JobGone == rule = "deleted" => jobState = "none" /\ attempts = 0

AlertInv == TypeOK /\ SeenInv /\ OneEvaluation /\ PreviousInv /\ JobGone /\ AlertsAnnounced
----------------------------------------------------------------------------
(* What is measured and what is saved.                                     *)

LEMMA Measurements ==
    OwnReading \cup GroupReading \cup {OwnStatus("disabled"), OwnStatus("error"), NoReading}
        \subseteq Measurement
<1>1. OwnReading \subseteq Measurement
  BY DEF OwnReading, Measured, Measurement, Status, Key
<1>2. ASSUME NEW D \in SUBSET Group, NEW r \in [D -> Measured] PROVE r \in Measurement
  <2>1. D \in SUBSET Key BY DEF Key
  <2>2. r \in [D -> Status \cup {"disabled"}] BY DEF Measured, Status
  <2> QED BY <2>1, <2>2 DEF Measurement
<1>3. ASSUME NEW s \in Status \cup {"disabled"} PROVE OwnStatus(s) \in Measurement
  <2>1. {Own} \in SUBSET Key BY DEF Key
  <2>2. OwnStatus(s) \in [{Own} -> Status \cup {"disabled"}] BY DEF OwnStatus
  <2> QED BY <2>1, <2>2 DEF Measurement
<1>4. NoReading \in Measurement
  <2>1. NoReading \in [{} -> Status \cup {"disabled"}] BY DEF NoReading
  <2> QED BY <2>1 DEF Measurement
<1> QED BY <1>1, <1>2, <1>3, <1>4 DEF GroupReading, Status

LEMMA Classified == ASSUME NEW u \in Usage PROVE Classify(u) \in Measured
BY DEF Usage, Classify, Measured

\* What Measure reads of an enabled rule.
LEMMA ReadingKind == ASSUME usage \in [Group -> Usage] PROVE Reading \in OwnReading \cup GroupReading
<1>1. CASE grouped
  <2> DEFINE D == {g \in Group : usage[g] # "none"}
  <2>1. Items = D BY <1>1 DEF Items
  <2>2. \A k \in D : k # Own BY GroupAssumption DEF Own
  <2>3. Reading = [k \in D |-> Classify(usage[k])] BY <2>1, <2>2 DEF Reading
  <2>4. Reading \in [D -> Measured] BY <2>3, Classified
  <2> QED BY <2>4 DEF GroupReading
<1>2. CASE ~grouped
  <2>1. Total \in Usage BY DEF Total, Usage
  <2>2. Reading = [k \in {Own} |-> Classify(Total)] BY <1>2 DEF Reading, Items
  <2> QED BY <2>1, <2>2, Classified DEF OwnReading
<1> QED BY <1>1, <1>2

\* The three kinds of evaluation have different readings.
LEMMA Kinds ==
    /\ \A r \in OwnReading : Own \in DOMAIN r /\ r # OwnStatus("disabled")
    /\ \A r \in GroupReading : Own \notin DOMAIN r /\ DOMAIN r \subseteq Group /\ r \in [DOMAIN r -> Measured]
    /\ OwnStatus("error") # OwnStatus("disabled")
<1>1. ASSUME NEW r \in OwnReading PROVE Own \in DOMAIN r /\ r # OwnStatus("disabled")
  <2>1. r[Own] # "disabled" BY DEF OwnReading, Measured
  <2>2. OwnStatus("disabled")[Own] = "disabled" BY DEF OwnStatus
  <2> QED BY <2>1, <2>2 DEF OwnReading
<1>2. ASSUME NEW r \in GroupReading
      PROVE Own \notin DOMAIN r /\ DOMAIN r \subseteq Group /\ r \in [DOMAIN r -> Measured]
  <2>1. PICK D \in SUBSET Group : r \in [D -> Measured] BY DEF GroupReading
  <2> QED BY <2>1, GroupAssumption DEF Own
<1>3. OwnStatus("error")[Own] = "error" /\ OwnStatus("disabled")[Own] = "disabled" BY DEF OwnStatus
<1> QED BY <1>1, <1>2, <1>3

\* NextStates, by the kind of the reading.
LEMMA NextOfOwn == ASSUME NEW r \in OwnReading \cup {OwnStatus("error")}, NEW p PROVE NextStates(r, p) = r
<1>1. Own \in DOMAIN r /\ r # OwnStatus("disabled") BY Kinds DEF OwnStatus
<1> QED BY <1>1 DEF NextStates

LEMMA NextOfDisabled == ASSUME NEW p PROVE NextStates(OwnStatus("disabled"), p) = OwnStatus("ok")
<1>1. Own \in DOMAIN OwnStatus("disabled") BY DEF OwnStatus
<1> QED BY <1>1 DEF NextStates

LEMMA NextOfGroups ==
    ASSUME NEW r \in GroupReading, NEW p
    PROVE \/ NextStates(r, p) = OwnStatus("no_data")
          \/ /\ DOMAIN NextStates(r, p) \subseteq Group
             /\ \A k \in DOMAIN NextStates(r, p) : NextStates(r, p)[k] \in Measured
<1>1. Own \notin DOMAIN r /\ DOMAIN r \subseteq Group /\ r \in [DOMAIN r -> Measured] BY Kinds
<1>2. r # OwnStatus("disabled") BY <1>1 DEF OwnStatus
<1> DEFINE D == DOMAIN r \cup ({g \in Group : p[g] # "none"} \ DOMAIN r)
           n == [k \in D |-> IF k \in DOMAIN r THEN r[k] ELSE "no_data"]
<1>3. CASE D = {} BY <1>1, <1>2, <1>3 DEF NextStates
<1>4. CASE D # {}
  <2>1. NextStates(r, p) = n BY <1>1, <1>2, <1>4 DEF NextStates
  <2>2. DOMAIN n \subseteq Group BY <1>1
  <2>3. \A k \in D : n[k] \in Measured BY <1>1 DEF Measured
  <2> QED BY <2>1, <2>2, <2>3
<1> QED BY <1>3, <1>4

\* What a save records of one key, when nothing was recorded since it compared.
LEMMA Recorded ==
    ASSUME NEW r \in OwnReading \cup GroupReading \cup {OwnStatus("disabled"), OwnStatus("error")},
           NEW p, state \in [Key -> Status], announced \in [Key -> {"none", "triggered", "resolved"}],
           Record(r, p)
    PROVE /\ state' \in [Key -> Status]
          /\ announced' \in [Key -> {"none", "triggered", "resolved"}]
<1>1. \A k \in DOMAIN NextStates(r, p) : NextStates(r, p)[k] \in Status
  <2>1. CASE r \in OwnReading \cup {OwnStatus("error")}
    BY <2>1, NextOfOwn DEF OwnReading, OwnStatus, Measured, Status
  <2>2. CASE r = OwnStatus("disabled") BY <2>2, NextOfDisabled DEF OwnStatus, Status
  <2>3. CASE r \in GroupReading BY <2>3, NextOfGroups DEF OwnStatus, Measured, Status
  <2> QED BY <2>1, <2>2, <2>3
<1>2. state' \in [Key -> Status] BY <1>1 DEF Record
<1>3. \A a, b : \A last \in {"none", "triggered", "resolved"} :
          Announce(a, b, last) \in {"none", "triggered", "resolved"}
  BY DEF Announce
<1>4. announced' \in [Key -> {"none", "triggered", "resolved"}] BY <1>3 DEF Record
<1> QED BY <1>2, <1>4

LEMMA RecordAnnounces ==
    ASSUME NEW r \in OwnReading \cup GroupReading \cup {OwnStatus("disabled"), OwnStatus("error")},
           NEW p, state \in [Key -> Status], announced \in [Key -> {"none", "triggered", "resolved"}],
           Fits(r, p), Record(r, p),
           \A k \in Key : state[k] = "alerting" => announced[k] = "triggered",
           \A g \in Group : state[g] # "alerting" => announced[g] # "triggered"
    PROVE /\ \A k \in Key : state'[k] = "alerting" => announced'[k] = "triggered"
          /\ \A g \in Group : state'[g] # "alerting" => announced'[g] # "triggered"
<1> DEFINE next == NextStates(r, p)
<1>1. \A k \in Key : /\ k \in DOMAIN next => /\ state'[k] = next[k]
                                             /\ announced'[k] = Announce(p[k], next[k], announced[k])
                     /\ k \notin DOMAIN next => state'[k] = state[k] /\ announced'[k] = announced[k]
  BY DEF Record
\* A key that was compared with its state.
<1>2. ASSUME NEW k \in Key, k \in DOMAIN next, p[k] = state[k]
      PROVE /\ state'[k] = "alerting" => announced'[k] = "triggered"
            /\ k \in Group => (state'[k] # "alerting" => announced'[k] # "triggered")
  BY <1>1, <1>2 DEF Announce
\* The rule's own key when it was not, and does not become alerting.
<1>3. ASSUME Own \in DOMAIN next, next[Own] # "alerting", p[Own] = "none"
      PROVE state'[Own] # "alerting"
  BY <1>1, <1>3 DEF Key
<1>4. CASE r \in OwnReading
  <2>1. next = r /\ DOMAIN next = {Own} BY <1>4, NextOfOwn DEF OwnReading
  <2>2. p[Own] = state[Own] BY <1>4 DEF Fits
  <2> HIDE DEF next
  <2> QED BY <1>1, <1>2, <2>1, <2>2, GroupAssumption DEF Key, Own
<1>5. CASE r \in {OwnStatus("disabled"), OwnStatus("error")}
  <2>1. DOMAIN next = {Own} /\ next[Own] # "alerting"
    BY <1>5, NextOfOwn, NextOfDisabled DEF OwnStatus
  <2>2. p[Own] = "none" BY <1>5 DEF Fits
  <2> HIDE DEF next
  <2> QED BY <1>1, <1>3, <2>1, <2>2, GroupAssumption DEF Key, Own
<1>6. CASE r \in GroupReading
  <2>1. p[Own] = "none" /\ \A g \in Group : p[g] = state[g] BY <1>6 DEF Fits
  <2>2. CASE next = OwnStatus("no_data")
    <3>1. DOMAIN next = {Own} /\ next[Own] # "alerting" BY <2>2 DEF OwnStatus
    <3> HIDE DEF next
    <3> QED BY <1>1, <1>3, <2>1, <3>1, GroupAssumption DEF Key, Own
  <2>3. CASE DOMAIN next \subseteq Group
    <3> HIDE DEF next
    <3> QED BY <1>1, <1>2, <2>1, <2>3 DEF Key
  <2> QED BY <1>6, <2>2, <2>3, NextOfGroups
<1> QED BY <1>4, <1>5, <1>6

----------------------------------------------------------------------------
(* The steps.                                                              *)

LEMMA AlertInit == Init => AlertInv
<1> SUFFICES ASSUME Init PROVE AlertInv OBVIOUS
<1>1. TypeOK
  <2>1. NoStates \in [Key -> Status] /\ NoStates \in [Key -> {"none", "triggered", "resolved"}]
    BY DEF NoStates, Status
  <2>2. seen \in [Evaluator -> Measurement] BY Measurements DEF Init
  <2>3. usage \in [Group -> Usage] BY DEF Init, Usage
  <2>4. /\ 0 \in 0..MaxAttempts /\ 0 \in 0..MaxChanges /\ 0 \in 0..MaxFaults
    BY MaxAttemptsAssumption, BoundsAssumption
  <2>5. grouped \in BOOLEAN /\ overlapped \in BOOLEAN BY DEF Init
  <2>6. pc \in [Evaluator -> PC] BY DEF Init, PC
  <2> QED BY <2>1, <2>2, <2>3, <2>4, <2>5, <2>6 DEF Init, TypeOK
<1>2. SeenInv /\ OneEvaluation /\ PreviousInv BY DEF Init, SeenInv, OneEvaluation, PreviousInv
<1>3. JobGone BY DEF Init, JobGone
<1>4. AlertsAnnounced BY DEF Init, AlertsAnnounced, NoStates, Key
<1> QED BY <1>1, <1>2, <1>3, <1>4 DEF AlertInv

\* Steps of the rule, its usage and its job leave the evaluations and what they
\* recorded alone.
LEMMA QuietStep ==
    ASSUME AlertInv, UNCHANGED <<state, announced, pc, seen, previous, overlapped>>,
           rule = "deleted" => rule' = "deleted"
    PROVE (SeenInv /\ OneEvaluation /\ PreviousInv /\ AlertsAnnounced)'
<1>1. SeenInv' BY DEF AlertInv, SeenInv
<1>2. OneEvaluation' BY DEF AlertInv, OneEvaluation
<1>3. PreviousInv' BY DEF AlertInv, PreviousInv, Fits
<1>4. AlertsAnnounced' BY DEF AlertInv, AlertsAnnounced
<1> QED BY <1>1, <1>2, <1>3, <1>4

\* An evaluation that goes back to idle, or on without recording, gives up its place.
LEMMA LeavingStep ==
    ASSUME AlertInv, NEW e \in Evaluator,
           NEW place \in {"idle", "started", "completing", "failing"},
           pc' = [pc EXCEPT ![e] = place],
           \A f \in Evaluator \ {e} : seen'[f] = seen[f] /\ previous'[f] = previous[f],
           overlapped' = overlapped \/ overlapped' = TRUE, UNCHANGED <<state, announced, rule>>
    PROVE (SeenInv /\ OneEvaluation /\ PreviousInv /\ AlertsAnnounced)'
<1>0. pc'[e] = place /\ (\A f \in Evaluator \ {e} : pc'[f] = pc[f]) /\ (overlapped => overlapped')
  BY DEF AlertInv, TypeOK
<1>1. SeenInv' BY <1>0 DEF AlertInv, SeenInv
<1>2. OneEvaluation' BY <1>0 DEF AlertInv, OneEvaluation
<1>3. PreviousInv' BY <1>0 DEF AlertInv, PreviousInv, Fits
<1>4. AlertsAnnounced' BY <1>0 DEF AlertInv, AlertsAnnounced
<1> QED BY <1>1, <1>2, <1>3, <1>4

\* Every step keeps the types.
LEMMA AlertTypes == ASSUME AlertInv, [Next]_vars PROVE TypeOK'
<1> USE MaxAttemptsAssumption, BoundsAssumption DEF AlertInv, TypeOK, ruleVars, jobVars, localVars, bounds
<1>0. NoStates \in [Key -> Status] /\ NoStates \in [Key -> {"none", "triggered", "resolved"}]
  BY DEF NoStates, Status
<1>1. ASSUME CreateRule \/ UpdateRule \/ EnqueueEvaluation PROVE TypeOK'
  <2>1. grouped' \in BOOLEAN /\ overlapped' \in BOOLEAN
    BY <1>1 DEF CreateRule, UpdateRule, EnqueueEvaluation
  <2>2. /\ rule' \in {"absent", "enabled", "disabled", "deleted"} /\ changes' \in 0..MaxChanges
        /\ faults' \in 0..MaxFaults /\ jobState' \in {"none", "waiting", "locked", "past"}
        /\ attempts' \in 0..MaxAttempts /\ dead' \in Nat
        /\ UNCHANGED <<usage, state, announced, localVars>>
    BY <1>1 DEF CreateRule, UpdateRule, EnqueueEvaluation, Enqueue, Fault
  <2> QED BY <2>1, <2>2
<1>2. ASSUME DeleteRule PROVE TypeOK'
  <2>1. grouped' \in BOOLEAN /\ overlapped' \in BOOLEAN BY <1>2 DEF DeleteRule
  <2> QED BY <1>0, <1>2, <2>1 DEF DeleteRule
<1>3. ASSUME NEW g \in Group, UsageChanges(g) PROVE TypeOK' BY <1>3 DEF UsageChanges
<1>4. ASSUME LockExpires \/ RetryWorkerDeadLetter PROVE TypeOK'
  <2>1. grouped' \in BOOLEAN /\ overlapped' \in BOOLEAN BY <1>4 DEF LockExpires, RetryWorkerDeadLetter
  <2>2. /\ jobState' \in {"none", "waiting", "locked", "past"} /\ attempts' \in 0..MaxAttempts
        /\ dead' \in Nat /\ changes' \in 0..MaxChanges
        /\ UNCHANGED <<rule, usage, state, announced, localVars, faults>>
    BY <1>4 DEF LockExpires, RetryWorkerDeadLetter
  <2> QED BY <2>1, <2>2
<1>5. ASSUME NEW e \in Evaluator, ClaimEvaluationJob(e) \/ EvaluateByAPI(e) PROVE TypeOK'
  <2>1. pc' \in [Evaluator -> PC] BY <1>5 DEF ClaimEvaluationJob, EvaluateByAPI, Go, PC
  <2> QED BY <1>5, <2>1 DEF ClaimEvaluationJob, EvaluateByAPI, Fault
<1>6. ASSUME NEW e \in Evaluator, Measure(e) PROVE TypeOK'
  <2>1. pc' \in [Evaluator -> PC] BY <1>6 DEF Measure, Go, PC
  <2>2. previous' \in [Evaluator -> [Key -> Status]] BY <1>0, <1>6 DEF Measure
  <2>3. seen' \in [Evaluator -> Measurement]
    <3>1. \E m \in {OwnStatus("disabled"), Reading, OwnStatus("error")} :
              seen' \in {seen, [seen EXCEPT ![e] = m]}
      BY <1>6 DEF Measure
    <3>2. {OwnStatus("disabled"), Reading, OwnStatus("error")} \subseteq Measurement
      BY ReadingKind, Measurements
    <3> QED BY <3>1, <3>2
  <2>4. overlapped' \in BOOLEAN BY <1>6 DEF Measure
  <2>5. faults' \in 0..MaxFaults
        /\ UNCHANGED <<rule, grouped, usage, state, announced, jobState, attempts, dead, mine, changes>>
    BY <1>6 DEF Measure, Fault
  <2> QED BY <2>1, <2>2, <2>3, <2>4, <2>5
<1>7. ASSUME NEW e \in Evaluator, Compare(e) PROVE TypeOK'
  <2>1. pc' \in [Evaluator -> PC] BY <1>7 DEF Compare, Go, PC
  <2> DEFINE p == [k \in Key |-> IF (k = Own) = (Own \in DOMAIN seen[e]) THEN state[k] ELSE "none"]
  <2>2. p \in [Key -> Status] BY DEF Status
  <2>3. previous' \in {previous, [previous EXCEPT ![e] = p]} BY <1>7 DEF Compare
  <2>4. previous' \in [Evaluator -> [Key -> Status]] BY <2>2, <2>3
  <2>5. overlapped' \in BOOLEAN /\ grouped' \in BOOLEAN BY <1>7 DEF Compare
  <2>6. faults' \in 0..MaxFaults
        /\ UNCHANGED <<rule, usage, state, announced, jobState, attempts, dead, mine, changes>>
    BY <1>7 DEF Compare, Fault
  <2>7. seen' \in [Evaluator -> Measurement] BY <1>7, Measurements DEF Compare
  <2> QED BY <2>1, <2>4, <2>5, <2>6, <2>7
<1>8. ASSUME NEW e \in Evaluator, Save(e) PROVE TypeOK'
  <2>1. pc' \in [Evaluator -> PC] BY <1>8 DEF Save, Go, PC
  <2>2. seen' \in [Evaluator -> Measurement] /\ previous' \in [Evaluator -> [Key -> Status]]
    BY <1>0, <1>8, Measurements DEF Save
  <2>3. state' \in [Key -> Status] /\ announced' \in [Key -> {"none", "triggered", "resolved"}]
    <3>1. CASE Record(seen[e], previous[e]) BY <1>8, <3>1, Recorded DEF Save, At, SeenInv
    <3>2. CASE UNCHANGED <<state, announced>> BY <3>2
    <3> QED BY <1>8, <3>1, <3>2 DEF Save
  <2>4. overlapped' \in BOOLEAN /\ grouped' \in BOOLEAN BY <1>8 DEF Save
  <2>5. faults' \in 0..MaxFaults /\ UNCHANGED <<rule, usage, jobState, attempts, dead, mine, changes>>
    BY <1>8 DEF Save, Fault
  <2> QED BY <2>1, <2>2, <2>3, <2>4, <2>5
<1>9. ASSUME NEW e \in Evaluator, CompleteEvaluationJob(e) \/ FailEvaluationJob(e) PROVE TypeOK'
  <2>1. pc' \in [Evaluator -> PC] BY <1>9 DEF CompleteEvaluationJob, FailEvaluationJob, Go, PC
  <2>2. /\ jobState' \in {"none", "waiting", "locked", "past"} /\ attempts' \in 0..MaxAttempts
        /\ faults' \in 0..MaxFaults /\ mine' \in [Evaluator -> 0..MaxAttempts] /\ dead' \in Nat
    BY <1>9 DEF CompleteEvaluationJob, FailEvaluationJob, Release, DeleteJob, Fault
  <2>3. overlapped' \in BOOLEAN /\ grouped' \in BOOLEAN BY <1>9 DEF CompleteEvaluationJob, FailEvaluationJob
  <2>4. UNCHANGED <<rule, usage, state, announced, seen, previous, changes>>
    BY <1>9 DEF CompleteEvaluationJob, FailEvaluationJob
  <2> QED BY <2>1, <2>2, <2>3, <2>4
<1>10. ASSUME NEW e \in Evaluator, Crash(e) PROVE TypeOK'
  <2>1. pc' \in [Evaluator -> PC] BY <1>10 DEF Crash, Go, PC
  <2>2. seen' \in [Evaluator -> Measurement] /\ previous' \in [Evaluator -> [Key -> Status]]
    BY <1>0, <1>10, Measurements DEF Crash
  <2> QED BY <1>10, <2>1, <2>2 DEF Crash, Fault
<1>11. ASSUME UNCHANGED vars PROVE TypeOK' BY <1>11 DEF vars
<1> QED BY <1>1, <1>2, <1>3, <1>4, <1>5, <1>6, <1>7, <1>8, <1>9, <1>10, <1>11 DEF Next, Step

\* A deleted rule has no job: nothing claims, releases or enqueues one.
LEMMA JobStep ==
    ASSUME AlertInv, [Next]_vars
    PROVE JobGone' /\ (rule = "deleted" => UNCHANGED <<state, announced, jobState, attempts>>)
<1> DEFINE Kept == JobGone' /\ (rule = "deleted" => UNCHANGED <<state, announced, jobState, attempts>>)
<1> USE DEF AlertInv, JobGone, ruleVars, jobVars, localVars, bounds
<1>1. ASSUME CreateRule \/ UpdateRule \/ DeleteRule \/ EnqueueEvaluation \/ RetryWorkerDeadLetter
             \/ LockExpires
      PROVE Kept
  BY <1>1 DEF CreateRule, UpdateRule, DeleteRule, EnqueueEvaluation, RetryWorkerDeadLetter, LockExpires, Enqueue
<1>2. ASSUME NEW g \in Group, UsageChanges(g) PROVE Kept BY <1>2 DEF UsageChanges
<1>3. ASSUME NEW e \in Evaluator, ClaimEvaluationJob(e) \/ EvaluateByAPI(e) PROVE Kept
  BY <1>3 DEF ClaimEvaluationJob, EvaluateByAPI
<1>4. ASSUME NEW e \in Evaluator, Measure(e) \/ Compare(e) \/ Save(e) \/ Crash(e) PROVE Kept
  BY <1>4 DEF Measure, Compare, Save, Crash
<1>5. ASSUME NEW e \in Evaluator, CompleteEvaluationJob(e) \/ FailEvaluationJob(e) PROVE Kept
  BY <1>5 DEF CompleteEvaluationJob, FailEvaluationJob, Holds, Release, DeleteJob
<1>6. ASSUME UNCHANGED vars PROVE Kept BY <1>6 DEF vars
<1> QED BY <1>1, <1>2, <1>3, <1>4, <1>5, <1>6 DEF Next, Step

\* An evaluation is alone from its reading to its save, or overlapped says so: what it
\* compared with is then what the save replaces.
LEMMA AlertStep ==
    ASSUME AlertInv, [Next]_vars PROVE (SeenInv /\ OneEvaluation /\ PreviousInv /\ AlertsAnnounced)'
<1> DEFINE Rest == SeenInv /\ OneEvaluation /\ PreviousInv /\ AlertsAnnounced
<1> USE DEF ruleVars, jobVars, localVars, bounds
<1>0. pc \in [Evaluator -> PC] /\ overlapped \in BOOLEAN
      /\ seen \in [Evaluator -> Measurement] /\ previous \in [Evaluator -> [Key -> Status]]
  BY DEF AlertInv, TypeOK
<1>1. ASSUME CreateRule \/ UpdateRule \/ EnqueueEvaluation \/ RetryWorkerDeadLetter \/ LockExpires
      PROVE Rest'
  BY <1>1, QuietStep DEF CreateRule, UpdateRule, EnqueueEvaluation, RetryWorkerDeadLetter, LockExpires
<1>2. ASSUME NEW g \in Group, UsageChanges(g) PROVE Rest'
  BY <1>2, QuietStep DEF UsageChanges
<1>3. ASSUME DeleteRule PROVE Rest'
  <2>1. SeenInv' BY <1>3 DEF AlertInv, SeenInv, DeleteRule
  <2>2. OneEvaluation' BY <1>3 DEF AlertInv, OneEvaluation, DeleteRule
  <2>3. PreviousInv' BY <1>3 DEF PreviousInv, DeleteRule
  <2>4. AlertsAnnounced' BY <1>3 DEF AlertsAnnounced, DeleteRule, NoStates, Key
  <2> QED BY <2>1, <2>2, <2>3, <2>4
<1>4. ASSUME NEW e \in Evaluator,
             ClaimEvaluationJob(e) \/ EvaluateByAPI(e) \/ CompleteEvaluationJob(e) \/ FailEvaluationJob(e)
      PROVE Rest'
  <2>1. \E place \in {"idle", "started"} : pc' = [pc EXCEPT ![e] = place]
    BY <1>4 DEF ClaimEvaluationJob, EvaluateByAPI, CompleteEvaluationJob, FailEvaluationJob, Go
  <2>2. UNCHANGED <<state, announced, rule, seen, previous, overlapped>>
    BY <1>4 DEF ClaimEvaluationJob, EvaluateByAPI, CompleteEvaluationJob, FailEvaluationJob
  <2> QED BY <2>1, <2>2, LeavingStep
<1>5. ASSUME NEW e \in Evaluator, Crash(e) PROVE Rest'
  <2>1. pc' = [pc EXCEPT ![e] = "idle"] BY <1>5 DEF Crash, Go
  <2>2. UNCHANGED <<state, announced, rule, overlapped>> BY <1>5 DEF Crash
  <2>3. \A f \in Evaluator \ {e} : seen'[f] = seen[f] /\ previous'[f] = previous[f]
    BY <1>0, <1>5 DEF Crash
  <2> QED BY <2>1, <2>2, <2>3, LeavingStep
<1>6. ASSUME NEW e \in Evaluator, Measure(e) PROVE Rest'
  <2>1. /\ UNCHANGED <<state, announced, rule>> /\ (overlapped => overlapped')
        /\ \A f \in Evaluator \ {e} : seen'[f] = seen[f] /\ previous'[f] = previous[f] /\ pc'[f] = pc[f]
    BY <1>0, <1>6 DEF Measure, Go
  <2>2. ~overlapped' => \A f \in Evaluator \ {e} : pc[f] \notin {"comparing", "saving"}
    BY <1>6 DEF Measure
  <2>3. previous'[e] = NoStates BY <1>0, <1>6 DEF Measure
  <2>4. \/ pc'[e] = "failing"
        \/ pc'[e] = "comparing" /\ seen'[e] = Reading
        \/ pc'[e] = "saving" /\ seen'[e] \in {OwnStatus("disabled"), OwnStatus("error")}
    BY <1>0, <1>6 DEF Measure, Go
  <2>5. Reading \in OwnReading \cup GroupReading BY ReadingKind DEF AlertInv, TypeOK
  <2>6. SeenInv' BY <2>1, <2>4, <2>5 DEF AlertInv, SeenInv
  <2>7. OneEvaluation' BY <2>1, <2>2 DEF OneEvaluation
  <2>8. PreviousInv'
    <3>1. \A r \in {OwnStatus("disabled"), OwnStatus("error")} : r \notin OwnReading /\ r \notin GroupReading
      BY Kinds DEF OwnStatus, OwnReading, Measured
    <3>2. NoStates[Own] = "none" BY DEF NoStates, Key
    <3>3. pc'[e] = "saving" => Fits(seen[e], previous[e])' BY <2>3, <2>4, <3>1, <3>2 DEF Fits
    <3>4. ~overlapped' => \A f \in Evaluator \ {e} : pc'[f] # "saving" BY <2>1, <2>2
    <3> QED BY <3>3, <3>4 DEF PreviousInv
  <2>9. AlertsAnnounced' BY <2>1 DEF AlertInv, AlertsAnnounced
  <2> QED BY <2>6, <2>7, <2>8, <2>9
<1>7. ASSUME NEW e \in Evaluator, Compare(e) PROVE Rest'
  <2> DEFINE p == [k \in Key |-> IF (k = Own) = (Own \in DOMAIN seen[e]) THEN state[k] ELSE "none"]
  <2>1. /\ UNCHANGED <<state, announced, rule, overlapped>> /\ pc[e] = "comparing"
        /\ \A f \in Evaluator \ {e} :
              seen'[f] = seen[f] /\ previous'[f] = previous[f] /\ pc'[f] = pc[f]
    BY <1>0, <1>7 DEF Compare, Go, At
  <2>2. CASE pc' = [pc EXCEPT ![e] = "failing"] BY <2>1, <2>2, LeavingStep
  <2>3. CASE pc' = [pc EXCEPT ![e] = "saving"] /\ previous' = [previous EXCEPT ![e] = p] /\ seen' = seen
    <3>1. pc'[e] = "saving" /\ previous'[e] = p /\ seen'[e] = seen[e] BY <1>0, <2>3
    <3>2. seen[e] \in OwnReading \cup GroupReading BY <2>1 DEF AlertInv, SeenInv
    <3>3. SeenInv' BY <2>1, <3>1, <3>2 DEF AlertInv, SeenInv
    <3>4. OneEvaluation' BY <2>1, <3>1 DEF AlertInv, OneEvaluation
    <3>5. Fits(seen[e], p)
      <4>2. CASE seen[e] \in OwnReading
        <5>1. Own \in DOMAIN seen[e] BY <4>2, Kinds
        <5>2. seen[e] \notin GroupReading BY <5>1, Kinds
        <5>3. seen[e] # OwnStatus("disabled") BY <4>2, Kinds
        <5>4. seen[e] # OwnStatus("error") BY <4>2 DEF OwnReading, OwnStatus, Measured
        <5>5. p[Own] = state[Own] BY <5>1 DEF Key
        <5> HIDE DEF p
        <5> QED BY <5>2, <5>3, <5>4, <5>5 DEF Fits
      <4>3. CASE seen[e] \in GroupReading
        <5>1. Own \notin DOMAIN seen[e] BY <4>3, Kinds
        <5>2. p[Own] = "none" /\ \A g \in Group : p[g] = state[g]
          BY <5>1, GroupAssumption DEF Key, Own
        <5>3. seen[e] \notin OwnReading BY <5>1, Kinds
        <5> HIDE DEF p
        <5> QED BY <5>2, <5>3 DEF Fits
      <4> QED BY <3>2, <4>2, <4>3
    <3>6. Fits(seen[e], previous[e])' BY <2>1, <3>1, <3>5 DEF Fits
    <3>7. PreviousInv' BY <2>1, <3>6 DEF AlertInv, PreviousInv, Fits
    <3>8. AlertsAnnounced' BY <2>1 DEF AlertInv, AlertsAnnounced
    <3> QED BY <3>3, <3>4, <3>7, <3>8
  <2> QED BY <1>7, <2>2, <2>3 DEF Compare, Go
<1>8. ASSUME NEW e \in Evaluator, Save(e) PROVE Rest'
  <2>1. /\ UNCHANGED <<rule, overlapped>> /\ pc[e] = "saving"
        /\ \A f \in Evaluator \ {e} : seen'[f] = seen[f] /\ previous'[f] = previous[f] /\ pc'[f] = pc[f]
        /\ \E place \in {"failing", "completing"} : pc' = [pc EXCEPT ![e] = place]
    BY <1>0, <1>8 DEF Save, Go, At
  <2>2. CASE UNCHANGED <<state, announced>> BY <2>1, <2>2, LeavingStep
  <2>3. CASE rule # "deleted" /\ Record(seen[e], previous[e])
    <3>1. SeenInv' BY <1>0, <2>1 DEF AlertInv, SeenInv
    <3>2. OneEvaluation' BY <1>0, <2>1 DEF AlertInv, OneEvaluation
    <3>3. ~overlapped => \A f \in Evaluator : pc'[f] # "saving"
      BY <1>0, <2>1 DEF AlertInv, OneEvaluation
    <3>4. PreviousInv' BY <2>1, <3>3 DEF PreviousInv
    <3>5. ASSUME ~overlapped PROVE AlertsAnnounced'
      <4>1. Fits(seen[e], previous[e]) BY <2>1, <2>3, <3>5 DEF AlertInv, PreviousInv
      <4>2. seen[e] \in OwnReading \cup GroupReading \cup {OwnStatus("disabled"), OwnStatus("error")}
        BY <2>1 DEF AlertInv, SeenInv
      <4>3. state \in [Key -> Status] /\ announced \in [Key -> {"none", "triggered", "resolved"}]
        BY DEF AlertInv, TypeOK
      <4> QED BY <2>3, <3>5, <4>1, <4>2, <4>3, RecordAnnounces DEF AlertInv, AlertsAnnounced
    <3>6. AlertsAnnounced' BY <2>1, <3>5 DEF AlertsAnnounced
    <3> QED BY <3>1, <3>2, <3>4, <3>6
  <2> QED BY <1>8, <2>2, <2>3 DEF Save
<1>9. ASSUME UNCHANGED vars PROVE Rest' BY <1>9, QuietStep DEF vars
<1> QED BY <1>1, <1>2, <1>3, <1>4, <1>5, <1>6, <1>7, <1>8, <1>9 DEF Next, Step

LEMMA AlertInductive == Spec => []AlertInv
<1>1. AlertInv /\ [Next]_vars => AlertInv' BY AlertTypes, JobStep, AlertStep DEF AlertInv
<1> QED BY AlertInit, <1>1, PTL DEF Spec

\* The columns of the rule, its states, events and job, and what every evaluation
\* carries, have their types.
THEOREM AlertTypeOK == Spec => []TypeOK
BY AlertInductive, PTL DEF AlertInv

\* Unless two evaluations overlapped, an alerting state was announced as triggered and
\* a group that is not alerting is not left announced (app/alert/service.go,
\* evaluateRule and saveEvaluations), whatever fails or changes between.
THEOREM AlertsAreAnnounced == Spec => []AlertsAnnounced
BY AlertInductive, PTL DEF AlertInv

\* An evaluation or a worker that is still under way when its rule is deleted, an
\* enqueue from an older reading and an operator's requeue record nothing and bring no
\* job back.
THEOREM DeletedStaysDeleted == Spec => DeletedForGood
<1>1. AlertInv /\ [Next]_vars => [rule = "deleted" => UNCHANGED <<state, announced, jobState, attempts>>]_vars
  BY JobStep
<1> QED BY AlertInductive, <1>1, PTL DEF Spec, DeletedForGood

============================================================================
