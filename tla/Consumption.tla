---------------------------- MODULE Consumption ----------------------------
(***************************************************************************)
(* Atomic quota consumption (POST /v1/entitlements/consume) for one        *)
(* subject, one metered signal and one quota period.                       *)
(*                                                                         *)
(* API requests run as concurrent database transactions under READ         *)
(* COMMITTED: every statement sees what was committed when it started.     *)
(* LockEffectivePlanSubjectAssignment (SELECT ... FOR UPDATE) locks the    *)
(* assignment row in effect at the event time; the counter row, the        *)
(* workspace statistics row and the unique index on the idempotency key    *)
(* make a second writer wait for the first one's commit.                   *)
(*                                                                         *)
(* Assignment rows follow one another in time: row t is in effect from     *)
(* instant t until instant t+1, the last one is open-ended.  A handover    *)
(* (AssignSubject, UpdatePlan) keeps the period anchor, so every row       *)
(* counts into the same counter.                                           *)
(***************************************************************************)
EXTENDS Integers, Sequences, Sums

CONSTANTS
    Client,      \* concurrent API requests
    Key,         \* idempotency keys
    Plan,        \* plan versions
    PlanLimit,   \* [Plan -> limit of the meter in that plan version]
    NoPlan,      \* an assignment interval without a plan (unassigned)
    Quantity,    \* quantities a request may consume
    MaxRows,     \* bound: assignment rows of the subject
    MaxFaults    \* bound: failed evaluations, transaction retries and runs of
                 \* event retention, together

LimitRecord == [included : BOOLEAN, limit : Nat,
                enforcement : {"advisory", "hard"},
                failurePolicy : {"fail_open", "fail_closed"}]

ASSUME PlanAssumption == PlanLimit \in [Plan -> LimitRecord] /\ NoPlan \notin Plan
ASSUME BoundAssumption == MaxRows \in Nat \ {0} /\ MaxFaults \in Nat
ASSUME QuantityAssumption == Quantity \subseteq Nat \ {0} /\ Quantity # {}
ASSUME KeyAssumption == Key # {}
ASSUME FiniteKeyAssumption == IsFiniteSet(Key)    \* the keys that clients send
ASSUME ActorAssumption == "free" \notin Client /\ "admin" \notin Client

VARIABLES
    \* committed database state
    assigned,    \* plan_subject_assignments: the plan of each row, oldest first
    rowLock,     \* who holds each row's lock
    events,      \* usage_events by idempotency key
    counter,     \* entitlement_usage_counters.quantity_sum of the period
    decisions,   \* consumption_decisions by idempotency key
    aged,        \* keys whose decision is older than the retention window
    pendingPlan, \* the plan an open handover transaction will assign
    \* requests
    pc, req,     \* where each request is; its key, quantity and event instant
    row,         \* the row its lock statement chose (0: none)
    verdict,     \* outcome of AssessConsumption
    accept,      \* Result.Accepted so far
    wrote,       \* its open transaction has inserted the usage event
    counted,     \* ... and incremented the counter
    \* environment and history
    faults, granted, answers,
    pruned,      \* acceptances whose event was deleted by retention since
    dropped      \* per key, what the counter was charged for deleted events

pruneVars == <<pruned, dropped>>
dbVars == <<assigned, rowLock, events, counter, decisions, aged, pendingPlan,
            pruned, dropped>>
reqVars == <<pc, req, row, verdict, accept, wrote, counted>>
vars == <<dbVars, reqVars, faults, granted, answers>>

Row == 1..MaxRows
NoEvent == [qty |-> 0, via |-> "none", at |-> 0, counted |-> FALSE]
NoRequest == [key |-> CHOOSE k \in Key : TRUE,
              qty |-> CHOOSE q \in Quantity : TRUE, at |-> 1]
\* A stored decision: Accepted and EvaluationFailed of the Result.
Outcome == {"accepted", "rejected", "fail_open", "fail_closed"}
Accepted(outcome) == outcome \in {"accepted", "fail_open"}
Verdict == {"none", "advisory", "allowed", "exceeded", "failed"}
PC == {"idle", "lock", "lockwait", "assess", "find", "lookup", "create",
       "persist", "readback", "openfind"}

\* The row LockEffectivePlanSubjectAssignment selects for an event at instant t.
EffectiveRow(t) == IF t <= Len(assigned) THEN t ELSE Len(assigned)
EffectivePlan(t) == assigned[EffectiveRow(t)]

TypeOK ==
    /\ assigned \in Seq(Plan \cup {NoPlan}) /\ Len(assigned) \in Row
    /\ rowLock \in [Row -> Client \cup {"free", "admin"}]
    /\ events \in [Key -> [qty : Nat, via : Verdict \cup {"ingest"},
                           at : Row \cup {0}, counted : BOOLEAN]]
    /\ counter \in Nat
    /\ decisions \in [Key -> Outcome \cup {"none"}]
    /\ aged \subseteq Key
    /\ pendingPlan \in Plan \cup {NoPlan}
    /\ pc \in [Client -> PC]
    /\ req \in [Client -> [key : Key, qty : Quantity, at : Row]]
    /\ row \in [Client -> Row \cup {0}]
    /\ verdict \in [Client -> Verdict]
    /\ accept \in [Client -> BOOLEAN]
    /\ wrote \in [Client -> BOOLEAN]
    /\ counted \in [Client -> BOOLEAN]
    /\ faults \in Nat
    /\ granted \in [Row -> Nat]
    /\ answers \in [Key -> SUBSET Outcome]
    /\ pruned \subseteq Key
    /\ dropped \in [Key -> Nat]

Init ==
    /\ \E p \in Plan \cup {NoPlan} : assigned = <<p>>
    /\ rowLock = [r \in Row |-> "free"]
    /\ events = [k \in Key |-> NoEvent]
    /\ counter = 0
    /\ decisions = [k \in Key |-> "none"]
    /\ aged = {}
    /\ pendingPlan = NoPlan
    /\ pc = [c \in Client |-> "idle"]
    /\ req = [c \in Client |-> NoRequest]
    /\ row = [c \in Client |-> 0]
    /\ verdict = [c \in Client |-> "none"]
    /\ accept = [c \in Client |-> FALSE]
    /\ wrote = [c \in Client |-> FALSE]
    /\ counted = [c \in Client |-> FALSE]
    /\ faults = 0
    /\ granted = [r \in Row |-> 0]
    /\ answers = [k \in Key |-> {}]
    /\ pruned = {}
    /\ dropped = [k \in Key |-> 0]

----------------------------------------------------------------------------
(* Transactions.                                                           *)

\* The end of a transaction, either way, frees the row it locked.
ReleaseRow(c) == rowLock' = [r \in Row |-> IF rowLock[r] = c THEN "free" ELSE rowLock[r]]

\* The handler returns: nothing of the request is left.
EndRequest(c) ==
    /\ pc' = [pc EXCEPT ![c] = "idle"]
    /\ req' = [req EXCEPT ![c] = NoRequest]
    /\ row' = [row EXCEPT ![c] = 0]
    /\ verdict' = [verdict EXCEPT ![c] = "none"]
    /\ accept' = [accept EXCEPT ![c] = FALSE]
    /\ wrote' = [wrote EXCEPT ![c] = FALSE]
    /\ counted' = [counted EXCEPT ![c] = FALSE]

\* tx.Commit: the inserted event and the counter increment become visible.
Commit(c) ==
    LET r == req[c] IN
    /\ events' = IF wrote[c]
                 THEN [events EXCEPT ![r.key] = [qty |-> r.qty, via |-> verdict[c],
                                                 at |-> r.at, counted |-> counted[c]]]
                 ELSE events
    /\ counter' = IF counted[c] THEN counter + r.qty ELSE counter
    /\ pruned' = IF wrote[c] THEN pruned \ {r.key} ELSE pruned
    /\ granted' = IF wrote[c] /\ verdict[c] = "allowed"
                  THEN [granted EXCEPT ![row[c]] = @ + r.qty] ELSE granted
    /\ ReleaseRow(c)
    /\ EndRequest(c)

\* The response the client receives for its key.
Answer(k, outcome) == answers' = [answers EXCEPT ![k] = @ \cup {outcome}]

\* Any step may instead fail for good (cancelled context, lost connection, rate
\* limit, process crash): the transaction rolls back and the client gets an error.
Abort(c) ==
    /\ pc[c] # "idle"
    /\ ReleaseRow(c)
    /\ EndRequest(c)
    /\ UNCHANGED <<assigned, events, counter, decisions, aged, pendingPlan, pruneVars,
                   faults, granted, answers>>

\* Roll back and go on at another statement, in a new transaction.
Restart(c, next, outcome) ==
    /\ pc' = [pc EXCEPT ![c] = next]
    /\ row' = [row EXCEPT ![c] = 0]
    /\ verdict' = [verdict EXCEPT ![c] = outcome]
    /\ ReleaseRow(c)
    /\ UNCHANGED <<assigned, events, counter, decisions, aged, pendingPlan, pruneVars,
                   req, accept, wrote, counted, granted, answers>>

\* runWithTransactionRetries: a deadlock found while waiting re-runs the function.
TxRetry(c) ==
    /\ pc[c] \in {"lockwait", "create"} /\ faults < MaxFaults
    /\ faults' = faults + 1
    /\ IF verdict[c] = "failed" THEN Restart(c, "openfind", "failed")
                               ELSE Restart(c, "lock", "none")

----------------------------------------------------------------------------
(* service.Consume                                                         *)

\* The first find, outside any transaction.
Start(c, k, q, t) ==
    /\ pc[c] = "idle"
    /\ IF decisions[k] # "none"
       THEN /\ Answer(k, decisions[k])
            /\ UNCHANGED <<pc, req>>
       ELSE /\ pc' = [pc EXCEPT ![c] = "lock"]
            /\ req' = [req EXCEPT ![c] = [key |-> k, qty |-> q, at |-> t]]
            /\ UNCHANGED answers
    /\ UNCHANGED <<dbVars, row, verdict, accept, wrote, counted, faults, granted>>

\* AssessConsumption without a plan, or with a plan that lacks the meter.
AssessedAdvisory(c) ==
    /\ verdict' = [verdict EXCEPT ![c] = "advisory"]
    /\ pc' = [pc EXCEPT ![c] = "find"]

\* (mutant) the row is read without FOR UPDATE
LockNotTaken(r) == r \in Row

\* FOR UPDATE covers the joined plan row too: the lock is free when nobody holds
\* the assignment row and no request holds another row of the same plan.
LockFree(r) ==
    /\ rowLock[r] = "free"
    /\ \A s \in 1..Len(assigned) : assigned[s] = assigned[r] => rowLock[s] \notin Client

\* SELECT ... FOR UPDATE of the row in effect at the event time.
LockEffectiveSubjectAssignment(c) ==
    LET t == req[c].at  r == EffectiveRow(t) IN
    /\ pc[c] = "lock"
    /\ \/ /\ EffectivePlan(t) = NoPlan
          /\ AssessedAdvisory(c)
          /\ UNCHANGED <<row, rowLock>>
       \/ /\ EffectivePlan(t) # NoPlan /\ LockFree(r)
          /\ rowLock' = [rowLock EXCEPT ![r] = c]
          /\ row' = [row EXCEPT ![c] = r]
          /\ pc' = [pc EXCEPT ![c] = "assess"]
          /\ UNCHANGED verdict
       \/ /\ EffectivePlan(t) # NoPlan /\ ~LockFree(r)
          /\ row' = [row EXCEPT ![c] = r]
          /\ pc' = [pc EXCEPT ![c] = "lockwait"]
          /\ UNCHANGED <<verdict, rowLock>>
    /\ UNCHANGED <<assigned, events, counter, decisions, aged, pendingPlan, pruneVars,
                   req, accept, wrote, counted, faults, granted, answers>>

\* (mutant) a statement that had to wait takes the row for gone
LockGrantedSkips(c) ==
    /\ pc[c] = "lockwait" /\ LockFree(row[c])
    /\ AssessedAdvisory(c)
    /\ row' = [row EXCEPT ![c] = 0]
    /\ UNCHANGED <<assigned, rowLock, events, counter, decisions, aged, pendingPlan,
                   pruneVars, req, accept, wrote, counted, faults, granted, answers>>

\* The lock is granted to a waiting statement.  The database evaluates the WHERE
\* clause again on the row as it is now: a row that ended meanwhile is skipped,
\* and the row that replaced it is not in the statement's snapshot.
LockGranted(c) ==
    LET r == row[c] IN
    /\ pc[c] = "lockwait" /\ LockFree(r)
    /\ IF EffectiveRow(req[c].at) = r
       THEN /\ rowLock' = [rowLock EXCEPT ![r] = c]
            /\ pc' = [pc EXCEPT ![c] = "assess"]
            /\ UNCHANGED <<row, verdict>>
       ELSE /\ AssessedAdvisory(c)
            /\ row' = [row EXCEPT ![c] = 0]
            /\ UNCHANGED rowLock
    /\ UNCHANGED <<assigned, events, counter, decisions, aged, pendingPlan, pruneVars,
                   req, accept, wrote, counted, faults, granted, answers>>

\* The quota rule of AssessConsumption for a sum meter.
Assessment(limit, current, quantity) ==
    IF ~limit.included \/ limit.enforcement = "advisory" THEN "advisory"
    ELSE IF current + quantity <= limit.limit THEN "allowed" ELSE "exceeded"

\* AssessConsumption after the lock: plan, limit, meter and counter are read.
AssessConsumption(c) ==
    /\ pc[c] = "assess"
    /\ verdict' = [verdict EXCEPT ![c] =
                     Assessment(PlanLimit[assigned[row[c]]], counter, req[c].qty)]
    /\ pc' = [pc EXCEPT ![c] = "find"]
    /\ UNCHANGED <<dbVars, req, row, accept, wrote, counted, faults, granted, answers>>

\* A read fails before the limit is known: the assessment still carries the
\* default policy fail_open.
FailBeforeLimit(c) ==
    /\ pc[c] \in {"lock", "lockwait", "assess"} /\ faults < MaxFaults
    /\ faults' = faults + 1
    /\ Restart(c, "openfind", "failed")

\* A read fails after the limit is known: the limit's policy applies.
FailAfterLimit(c) ==
    LET limit == PlanLimit[assigned[row[c]]] IN
    /\ pc[c] = "assess" /\ limit.included /\ faults < MaxFaults
    /\ faults' = faults + 1
    /\ IF limit.failurePolicy = "fail_open"
       THEN Restart(c, "openfind", "failed")
       ELSE /\ verdict' = [verdict EXCEPT ![c] = "failed"]
            /\ pc' = [pc EXCEPT ![c] = "persist"]
            /\ UNCHANGED <<dbVars, req, row, accept, wrote, counted, granted, answers>>

\* (mutant) the early return of the find under the lock leaves the transaction open
FindKeepsTransaction(c) ==
    LET k == req[c].key IN
    /\ pc[c] \in {"find", "openfind"}
    /\ IF decisions[k] # "none"
       THEN Answer(k, decisions[k]) /\ EndRequest(c)
       ELSE /\ pc' = [pc EXCEPT ![c] = IF @ = "find" THEN "lookup" ELSE "create"]
            /\ UNCHANGED <<req, row, verdict, accept, wrote, counted, answers>>
    /\ UNCHANGED <<dbVars, faults, granted>>

\* The find under the lock, and the find of the fail-open transaction.
FindDecision(c) ==
    LET k == req[c].key IN
    /\ pc[c] \in {"find", "openfind"}
    /\ IF decisions[k] # "none"
       THEN /\ Answer(k, decisions[k])
            /\ ReleaseRow(c)
            /\ EndRequest(c)
       ELSE /\ pc' = [pc EXCEPT ![c] = IF @ = "find" THEN "lookup" ELSE "create"]
            /\ UNCHANGED <<rowLock, req, row, verdict, accept, wrote, counted, answers>>
    /\ UNCHANGED <<assigned, events, counter, decisions, aged, pendingPlan, pruneVars,
                   faults, granted>>

\* (mutant) the hard-limit test comes before the replay test
LookupLimitFirst(c) ==
    LET known == events[req[c].key] # NoEvent IN
    /\ pc[c] = "lookup"
    /\ accept' = [accept EXCEPT ![c] = known /\ verdict[c] # "exceeded"]
    /\ pc' = [pc EXCEPT ![c] = IF known \/ verdict[c] = "exceeded"
                               THEN "persist" ELSE "create"]
    /\ UNCHANGED <<dbVars, req, row, verdict, wrote, counted, faults, granted, answers>>

\* (mutant) an allowed request is stored as accepted without creating its event
LookupSkipsCreate(c) ==
    /\ pc[c] = "lookup"
    /\ accept' = [accept EXCEPT ![c] = verdict[c] # "exceeded"]
    /\ pc' = [pc EXCEPT ![c] = "persist"]
    /\ UNCHANGED <<dbVars, req, row, verdict, wrote, counted, faults, granted, answers>>

\* usage.GetByIdempotencyKey, then the hard-limit test.
LookupEvent(c) ==
    LET known == events[req[c].key] # NoEvent IN
    /\ pc[c] = "lookup"
    /\ accept' = [accept EXCEPT ![c] = known]
    /\ pc' = [pc EXCEPT ![c] = IF known \/ verdict[c] = "exceeded"
                               THEN "persist" ELSE "create"]
    /\ UNCHANGED <<dbVars, req, row, verdict, wrote, counted, faults, granted, answers>>

\* (mutant) a duplicate event moves the counter too
CreateCountsDuplicate(c) ==
    /\ pc[c] = "create"
    /\ \A d \in Client : ~wrote[d]
    /\ wrote' = [wrote EXCEPT ![c] = events[req[c].key] = NoEvent]
    /\ counted' = [counted EXCEPT ![c] = EffectivePlan(req[c].at) # NoPlan]
    /\ accept' = [accept EXCEPT ![c] = TRUE]
    /\ pc' = [pc EXCEPT ![c] = "persist"]
    /\ UNCHANGED <<dbVars, req, row, verdict, faults, granted, answers>>

\* usage.Create in the request's transaction.  An insert waits for the workspace's
\* other open insert; the counter moves only if a plan is in effect.
CreateEvent(c) ==
    /\ pc[c] = "create"
    /\ \/ events[req[c].key] # NoEvent /\ UNCHANGED <<wrote, counted>>
       \/ /\ events[req[c].key] = NoEvent
          /\ \A d \in Client : ~wrote[d]
          /\ wrote' = [wrote EXCEPT ![c] = TRUE]
          /\ counted' = [counted EXCEPT ![c] = EffectivePlan(req[c].at) # NoPlan]
    /\ accept' = [accept EXCEPT ![c] = TRUE]
    /\ pc' = [pc EXCEPT ![c] = "persist"]
    /\ UNCHANGED <<dbVars, req, row, verdict, faults, granted, answers>>

\* (mutant) a rejection leaves the outcome of the Result unset
DecidedUnset(c) == IF ~accept[c] THEN "none"
                   ELSE IF verdict[c] = "failed" THEN "fail_open" ELSE "accepted"

\* The Result a request is about to store.
Decided(c) == IF verdict[c] = "failed"
              THEN IF accept[c] THEN "fail_open" ELSE "fail_closed"
              ELSE IF accept[c] THEN "accepted" ELSE "rejected"

\* (mutant) the insert is an upsert
PersistUpserts(c) ==
    LET k == req[c].key IN
    /\ pc[c] = "persist"
    /\ decisions' = [decisions EXCEPT ![k] = Decided(c)]
    /\ Answer(k, Decided(c))
    /\ Commit(c)
    /\ UNCHANGED <<assigned, aged, pendingPlan, faults, dropped>>

\* persist: INSERT ... ON CONFLICT DO NOTHING, then commit.
Persist(c) ==
    LET k == req[c].key IN
    /\ pc[c] = "persist"
    /\ IF decisions[k] # "none"
       THEN /\ pc' = [pc EXCEPT ![c] = "readback"]
            /\ UNCHANGED <<rowLock, events, counter, decisions, req, row, verdict,
                           accept, wrote, counted, granted, answers, pruned>>
       ELSE /\ decisions' = [decisions EXCEPT ![k] = Decided(c)]
            /\ Answer(k, Decided(c))
            /\ Commit(c)
    /\ UNCHANGED <<assigned, aged, pendingPlan, faults, dropped>>

\* (mutant) the caller gets the decision it computed, not the stored one
ReadBackOwn(c) ==
    LET k == req[c].key IN
    /\ pc[c] = "readback"
    /\ Answer(k, Decided(c)) /\ Commit(c)
    /\ UNCHANGED <<assigned, decisions, aged, pendingPlan, faults, dropped>>

\* The decision was there already: it is read back and returned, and the
\* transaction commits; if it was pruned in between the request fails.
ReadBack(c) ==
    LET k == req[c].key IN
    /\ pc[c] = "readback"
    /\ IF decisions[k] # "none"
       THEN Answer(k, decisions[k]) /\ Commit(c)
       ELSE /\ ReleaseRow(c)
            /\ EndRequest(c)
            /\ UNCHANGED <<events, counter, granted, answers, pruned>>
    /\ UNCHANGED <<assigned, decisions, aged, pendingPlan, faults, dropped>>

----------------------------------------------------------------------------
(* The rest of the system around a consumption.                            *)

\* POST /v1/usages: a recording-only event, in a transaction of its own.
Ingest(k, q, t) ==
    /\ events[k] = NoEvent
    /\ \A d \in Client : ~wrote[d]
    /\ LET counts == EffectivePlan(t) # NoPlan IN
       /\ events' = [events EXCEPT ![k] = [qty |-> q, via |-> "ingest", at |-> t,
                                           counted |-> counts]]
       /\ counter' = IF counts THEN counter + q ELSE counter
    /\ pruned' = pruned \ {k}
    /\ UNCHANGED <<assigned, rowLock, decisions, aged, pendingPlan, reqVars,
                   faults, granted, answers, dropped>>

\* SaveSubjectAssignment ends the open row (and so locks it) ...
BeginHandover(p) ==
    LET last == Len(assigned) IN
    /\ last < MaxRows /\ assigned[last] # NoPlan /\ rowLock[last] = "free"
    /\ rowLock' = [rowLock EXCEPT ![last] = "admin"]
    /\ pendingPlan' = p
    /\ UNCHANGED <<assigned, events, counter, decisions, aged, reqVars,
                   pruneVars, faults, granted, answers>>

\* ... and its successor appears when the transaction commits.  The insert's
\* foreign key waits for requests that hold the new row's plan.
EndHandover ==
    LET last == Len(assigned) IN
    /\ last < MaxRows /\ rowLock[last] = "admin"
    /\ \A s \in 1..last : assigned[s] = pendingPlan => rowLock[s] \notin Client
    /\ assigned' = Append(assigned, pendingPlan)
    /\ rowLock' = [rowLock EXCEPT ![last] = "free"]
    /\ pendingPlan' = NoPlan
    /\ UNCHANGED <<events, counter, decisions, aged, reqVars, pruneVars,
                   faults, granted, answers>>

AbortHandover ==
    LET last == Len(assigned) IN
    /\ rowLock[last] = "admin"
    /\ rowLock' = [rowLock EXCEPT ![last] = "free"]
    /\ pendingPlan' = NoPlan
    /\ UNCHANGED <<assigned, events, counter, decisions, aged, reqVars,
                   pruneVars, faults, granted, answers>>

\* DeleteSubjectAssignment: one UPDATE that ends the open row.
DeleteSubjectAssignment ==
    LET last == Len(assigned) IN
    /\ last < MaxRows /\ assigned[last] # NoPlan /\ rowLock[last] = "free"
    /\ assigned' = Append(assigned, NoPlan)
    /\ UNCHANGED <<rowLock, events, counter, decisions, aged, pendingPlan, reqVars,
                   pruneVars, faults, granted, answers>>

\* Time passes: every decision made so far leaves the retention window.
AgeDecisions ==
    /\ aged' = {k \in Key : decisions[k] # "none"}
    /\ aged' # aged
    /\ UNCHANGED <<assigned, rowLock, events, counter, decisions, pendingPlan, reqVars,
                   pruneVars, faults, granted, answers>>

\* A request of the key has found or written its event and is going to store an
\* acceptance.
Found(k) == \E c \in Client : accept[c] /\ req[c].key = k

\* PruneDecisions deletes what is older than the cutoff.
PruneDecisions ==
    /\ aged # {}
    /\ decisions' = [k \in Key |-> IF k \in aged THEN "none" ELSE decisions[k]]
    /\ answers' = [k \in Key |-> IF k \in aged THEN {} ELSE answers[k]]
    /\ aged' = {}
    /\ pruned' = {k \in pruned : k \notin aged \/ Found(k)}
    /\ UNCHANGED <<assigned, rowLock, events, counter, pendingPlan, reqVars,
                   faults, granted, dropped>>

\* What the counter was charged for an event.
Charge(e) == IF e.counted THEN e.qty ELSE 0

\* PruneEvents: one retention run, in one transaction, deletes the events before
\* the cutoff t, whatever the age of their decisions, and leaves the counter as it
\* is.  Its last statement needs the statistics row, so it commits when no insert
\* is open; an event that was committed after its delete statement stays.
PruneEvents(t) ==
    /\ faults < MaxFaults
    /\ \A d \in Client : ~wrote[d]
    /\ \E old \in SUBSET {k \in Key : events[k] # NoEvent /\ events[k].at <= t} :
          /\ old # {}
          /\ events' = [k \in Key |-> IF k \in old THEN NoEvent ELSE events[k]]
          /\ pruned' = pruned \cup {k \in old : Accepted(decisions[k]) \/ Found(k)}
          /\ dropped' = [k \in Key |-> IF k \in old THEN dropped[k] + Charge(events[k])
                                                 ELSE dropped[k]]
    /\ faults' = faults + 1
    /\ UNCHANGED <<assigned, rowLock, counter, decisions, aged, pendingPlan, reqVars,
                   granted, answers>>

----------------------------------------------------------------------------
Step(c) ==
    \/ LockEffectiveSubjectAssignment(c) \/ LockGranted(c) \/ AssessConsumption(c)
    \/ FindDecision(c) \/ LookupEvent(c) \/ CreateEvent(c) \/ Persist(c) \/ ReadBack(c)

Fault(c) == Abort(c) \/ TxRetry(c) \/ FailBeforeLimit(c) \/ FailAfterLimit(c)

Next ==
    \/ \E c \in Client : Step(c) \/ Fault(c)
    \/ \E c \in Client, k \in Key, q \in Quantity, t \in Row : Start(c, k, q, t)
    \/ \E k \in Key, q \in Quantity, t \in Row : Ingest(k, q, t)
    \/ \E p \in Plan : BeginHandover(p)
    \/ EndHandover \/ AbortHandover \/ DeleteSubjectAssignment \/ AgeDecisions \/ PruneDecisions
    \/ \E t \in Row : PruneEvents(t)

Spec == Init /\ [][Next]_vars

\* A running handler takes its next statement; the database grants row locks in
\* the order of the waiters, so a waiter cannot be overtaken for ever.
Fairness ==
    /\ \A c \in Client : WF_vars(Step(c)) /\ SF_vars(LockGranted(c)) /\ SF_vars(CreateEvent(c))
    /\ WF_vars(EndHandover \/ AbortHandover)

FairSpec == Spec /\ Fairness

----------------------------------------------------------------------------
(* Properties.                                                             *)

\* What Consume grants against one assignment row under a hard limit never adds
\* up to more than that row's limit, however requests, plain ingestion, failed
\* evaluations, retries, crashes, pruning and handovers interleave: the row lock is
\* held from the counter read of AssessConsumption to the commit of the event.
GrantsWithinLimit ==
    \A r \in 1..Len(assigned) :
        granted[r] > 0 => assigned[r] # NoPlan /\ granted[r] <= PlanLimit[assigned[r]].limit

\* A decision stored as accepted has its usage event: decision and event are
\* written by one transaction, whichever request of the key gets there first.  Only
\* retention can take the event away, after it was found or written for that very
\* acceptance; an acceptance is never stored on a deletion that came before.
AcceptedHasEvent ==
    \A k \in Key : Accepted(decisions[k]) => events[k] # NoEvent \/ k \in pruned

\* While a key's decision is retained every caller that gets an answer for the
\* key gets the same one, also when several requests of the key race (persist
\* returns the stored decision, not the one it computed).
ReplayStable ==
    \A k \in Key : \A a \in answers[k] : a = decisions[k]

\* The decision audit is immutable: a stored decision is never rewritten, it can
\* only be deleted, and only by PruneDecisions once it has aged.
DecisionImmutable ==
    [][\A k \in Key : decisions[k] # "none" =>
          \/ decisions'[k] = decisions[k]
          \/ k \in aged /\ decisions'[k] = "none"]_vars

\* As long as the subject keeps one assignment, a key rejected by the hard limit
\* has no event that was granted quota under it, before or after the rejection,
\* even when its requests race or its decision was pruned in between.  (A key
\* whose event and decision are both deleted by retention is a new key.)
RejectionGrantsNothing ==
    Len(assigned) = 1 =>
        \A k \in Key : decisions[k] = "rejected" => events[k].via # "allowed"

\* The first assignment row has a hard limit for the meter.
HardFirstRow ==
    /\ assigned[1] # NoPlan
    /\ PlanLimit[assigned[1]].included /\ PlanLimit[assigned[1]].enforcement = "hard"

\* An event is waved through without an assessment only when no hard limit applies
\* to it or when a handover replaced the row its request was waiting for: while
\* the first row is the one in effect at the event time, a hard limit of that row
\* is assessed, however long the lock statement waited.
AssessedUnderHardLimit ==
    \A k \in Key :
        events[k].via = "advisory" /\ EffectiveRow(events[k].at) = 1 => ~HardFirstRow

\* What the counter was charged for each key: for its event, and for the events of
\* the key that retention has deleted.
Charged == [k \in Key |-> dropped[k] + Charge(events[k])]

\* The counter is the sum of the events recorded within a plan, those retention
\* has deleted since included (PruneEvents leaves the counter alone): no replay,
\* retry, duplicate or lost race is charged twice or not at all.
CounterMatchesEvents == counter = Total(Charged)

\* A request in progress is always answered or failed: nobody keeps the row lock
\* or the statistics row for ever.
RequestCompletes == \A c \in Client : pc[c] # "idle" ~> pc[c] = "idle"

(* The inductive invariant behind GrantsWithinLimit and AcceptedHasEvent.   *)

\* A request that has assessed a row, or was allowed against it, holds its lock,
\* and the locked row stays the row in effect at the request's event time.
Locking(c) ==
    /\ pc[c] = "lockwait" => row[c] \in 1..Len(assigned) /\ assigned[row[c]] # NoPlan
    /\ pc[c] = "assess" \/ verdict[c] = "allowed" => row[c] \in Row /\ rowLock[row[c]] = c
    /\ verdict[c] = "allowed" => pc[c] \in {"find", "lookup", "create", "persist", "readback"}
    /\ pc[c] \in {"idle", "lock", "lockwait", "openfind"} => \A r \in Row : rowLock[r] # c
    /\ \A r \in Row : rowLock[r] = c =>
          /\ r = row[c] /\ r <= Len(assigned)
          /\ assigned[r] # NoPlan /\ EffectiveRow(req[c].at) = r
LockInv == \A c \in Client : Locking(c)

\* What a row has granted is part of the counter, and rows to come granted nothing.
LedgerInv ==
    \A r \in Row : granted[r] <= counter /\ (r > Len(assigned) => granted[r] = 0)

\* An allowed request still fits, and what it has written moves the counter too.
Gated(c) ==
    /\ wrote[c] => pc[c] \in {"persist", "readback"}
    /\ wrote[c] /\ verdict[c] = "allowed" => counted[c]
    /\ verdict[c] = "allowed" =>
          granted[row[c]] + req[c].qty <= PlanLimit[assigned[row[c]]].limit
GateInv == \A c \in Client : Gated(c)

\* A request about to store an acceptance has its event, written or found.
Backed(c) ==
    accept[c] => /\ pc[c] \in {"persist", "readback"}
                 /\ wrote[c] \/ events[req[c].key] # NoEvent \/ req[c].key \in pruned
AcceptInv == \A c \in Client : Backed(c)

\* A lock statement waits for a row that was in effect at the event time, and a
\* request let through without an assessment had no hard first row to assess.
Waved(c) ==
    /\ pc[c] = "idle" => verdict[c] = "none"
    /\ pc[c] = "lockwait" => row[c] <= EffectiveRow(req[c].at)
    /\ verdict[c] = "advisory" /\ EffectiveRow(req[c].at) = 1 => ~HardFirstRow
WaveInv == \A c \in Client : Waved(c)
============================================================================
