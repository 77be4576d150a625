# open-spanner: a TLA+ model of the metering core

open-spanner is a metering service. Applications send it usage events. It keeps
quota counters per subject, meter and period, answers "may this subject consume
this much?", and evaluates entitlements and alerts in background workers. Several
API and worker processes share one PostgreSQL database, so most of what can go
wrong goes wrong between two transactions, or between a worker and its lease.

This directory models that core, checks it with TLC on small instances, and
proves the central results with TLAPS. Paths below are relative to
`src/internal/metering/` unless they start with `src/`.

## 1. Inventory

| Component | State | Operations | Talks to | What is hard | What makes it correct |
|---|---|---|---|---|---|
| Atomic consumption: `app/consumption`, `app/entitlement/consumption.go` | `consumption_decisions`, plus the event and the counter it moves | `Consume`, `PruneDecisions`, audit reads | plans (row lock), usage (`Create`), counters | racing requests, requests of one key, fail-open outside the lock, retries, handover while waiting for the lock | one assignment grants at most its limit; one stable answer per key; acceptance and event go together |
| Usage ingestion: `app/usage/commands.go`, `adapters/postgres/usage_repository.go` | `usage_events`, `bulk_usage_ingestions`, `workspace_stats`, ingestion runs | `Create`, `CreateBulk`, stream chunks | counters, outbox (same transaction) | re-sent requests, overlapping batches, nested transactions, deadlocks between batches | each keyed event accepted, counted and enqueued once; a batch key has one response |
| Usage outbox and worker: `workers/outbox`, `queries/usage_outbox.sql` | `usage_event_outbox` | enqueue, claim, complete, retry, dead letter | alert and entitlement queues | replicas, expired leases, half-done fan-out, crash in the last attempt | deleted only after both queues got the event; stale workers change nothing; everything ends |
| Entitlement checks: `workers/entitlement`, `app/entitlement/service.go` | `entitlement_check_jobs`, `entitlement_states`, `entitlement_events`, dead letters | enqueue, claim, evaluate, complete, requeue, dead-letter, operator retry | outbox, counters, plans | one row per pair, dropped enqueues, two evaluations at a time | state reflects the counter, never goes back, event log agrees |
| Plans and assignments: `app/entitlement/service.go`, `queries/plans.sql` | plans, plan limits, `plan_subject_assignments` | create, update (new version), assign, unassign | consumption, counters | concurrent assigns, future-dated rows, an update beside an assignment | one plan in effect, at its current version |
| Quota counters and periods: `adapters/internal/usagebatch` | `entitlement_usage_counters` | increment, window search | ingestion, assessment, repair | month ends, instants compared as text | counter and assessment use the same window |
| Ingestion rate limit: `adapters/postgres/ingestion_limits.go` | one window row per workspace | admit, count throttled | ingestion | requests that arrive with an older window | at most the limit per window |
| Alerts: `app/alert`, `workers/alert` | rules, states, events, evaluation jobs, delivery jobs | rule changes, evaluate, deliver, requeue | outbox, webhooks | evaluations beside each other, failed evaluations, at-least-once delivery, leases | every change of state is announced, every webhook settled |
| Exports: `app/usage/exports*`, `workers/export` | export jobs, artifact files | create, cancel, retry, claim, renew, complete, fail, clean up | blob store | row and file share no transaction, lost leases | a completed job has its file, no file is forgotten |
| Retention: `app/usage/prune.go`, `adapters/postgres/operational_history.go`, roll-ups | events, roll-ups, history tables | prune, roll up, prune history | ingestion, repair | prune against late retries, against repair | a counter keeps counting what was accepted |
| Reconciliation, repair, monitoring: `app/system`, `workers/reconciliation` | drift runs, repairs, schedules, notifications | scan, repair, scheduled run, notify, requeue | counters, webhooks | repair beside ingestion and pruning, replicas of one schedule | a repair loses no event, a drift is announced once |
| Database transactions: `adapters/postgres/store.go` | none | `WithinTransaction`, retry | everything | nesting is a plain call; the function may run twice | a rolled back attempt leaves nothing |
| Auth, meters, queries, HTTP and gRPC, configuration, SQLite store, SDKs, console | – | – | – | – | see section 8 |

`PROJECT.json` lists every component with its status, and under "hazards" each
place in the code where one of these difficulties bites.

## 2. Modules

| Module | Models | Uses |
|---|---|---|
| `Consumption` | `Consume` step by step, with what touches the same rows: plain ingestion, plan handover, unassignment, retention of decisions and of events (the repair of a counter is in `CounterRepair`) | `Sums` |
| `Ingestion` | single, batch and stream writes as transactions | `Sums` |
| `UsageOutbox` | outbox rows, claims, the usage worker | `Fanout` |
| `Fanout` | abstract promise of the outbox | – |
| `EntitlementCheck` | check jobs of one subject and meter, their workers, the stored state and event log | – |
| `ExportJobs` | export jobs, export workers, artifact store, clean-up | – |
| `AlertEvaluation` | one alert rule: its evaluation job, workers and API evaluations, states and events | – |
| `AlertDelivery` | the webhook of one alert event | – |
| `CounterRepair` | one counter beside ingestion, pruning, scan and repair | – |
| `ReconciliationSchedule` | scheduled scans of one workspace and their notifications | – |
| `PlanAssignments` | assignments of one subject and updates of its plans | – |
| `IngestionLimit` | the rate-limit row of one workspace | – |
| `Sums` | the total of a function, for counters that must agree with rows | – |
| `MC...` | instances for TLC: plan tables, request sets, symmetry | the module named |
| `MCOperations` | the last five components in one run; `part`, chosen in `Init`, says which of them the behaviour is about, because they share no state | INSTANCEs of the five |
| `...Proofs` | theorems about the module named; `OperationsProofs` about the five components and their composition `MCOperations`; `SumsProofs` are the lemmas about totals | the module, TLAPS |

A definition whose comment starts with *(mutant)* is a plausible bug, placed
before the definition it would replace. Each property has at least one such
variant that violates it, which shows that the property depends on the code.

### How the modules follow the code

**Consumption.** A request is a client with a program counter; each value is the
next database statement. `Start` is the find before any transaction (`Consume`,
service.go:115). `LockEffectiveSubjectAssignment` is `SELECT ... FOR UPDATE` of the
row in effect at the *event* time. It either finds no plan, gets the lock, or
waits. `LockGranted` is PostgreSQL's re-check of a waiting statement: the row it
waited for is evaluated again, a row that ended is dropped, and its successor is
not in the statement's snapshot. `AssessConsumption` reads the counter and decides.
`FindDecision`, `LookupEvent`, `CreateEvent`, `Persist` and `ReadBack` are the rest of
the function, in order. `FailBeforeLimit` and `FailAfterLimit` are errors of the
assessment: the first still carries the default policy, the second the limit's.
Failing open leaves the transaction and goes on *without the lock*. `TxRetry`
is `runWithTransactionRetries`; `Abort` is every other error, a cancelled request, or a
crash. An open transaction's writes (`wrote`, `counted`) are invisible until `Commit`.
Assignment rows are numbered by the interval they cover; `Ingest`, `BeginHandover`,
`EndHandover`, `AbortHandover`, `DeleteSubjectAssignment`, `AgeDecisions`,
`PruneDecisions` and `PruneEvents` are the environment. `PruneEvents` deletes events before a
cutoff, whatever the age of their decisions, and leaves the counter alone.
`granted` (quota granted per row) and `answers`
(what callers of a key were told) are history; pruning a key's decision starts
its `answers` afresh, because a later request of that key is a new decision.
`dropped` is the history of what deleted events were charged, `pruned` of the keys whose
event retention deleted after it was found or written for the acceptance that stands.
The meter is a sum meter and the period is one period.

**UsageOutbox.** A row has `status`, `attempts`, `token`, and two facts of the clock:
the lease is live (`leased`), the next attempt is due (`due`). The worker's steps are
those of `processOnce`: claim, alert queue, entitlement queue, complete or fail.
Complete and Retry require the claim token. `Abandon` is a crash, a shutdown, or a
final statement that errs.

**Ingestion.** A request carries keyed events, a number of events without a key
("loose"), and possibly a batch key. The transaction's uncommitted inserts are
`ins` and `insLoose`; an insert of a key another open transaction has inserted waits.
`SaveBulkUsageIngestion` models the late loser of a batch key: `errBulkReplay` leaves
the inner `WithinTransaction`, which is a plain call inside the outer one, so nothing
is rolled back.

**EntitlementCheck.** One row per pair: `absent`, `free`, or under a `live` or `expired`
lease. An enqueue that meets a live lease does nothing. An evaluation is three
statements: counter, previous state, save. `attempts` is the fence of Delete and
Requeue. It does not fence the save. `fenced` records that no worker has outlasted its
lease and no operator has requeued a dead letter.

**ExportJobs.** The job row and the file store share no transaction. A claim hands out
a fresh token that is also part of the artifact's name, so an artifact *is* its
token. `WriteArtifact`, `CompleteExportJob`, `FailExportJob` and `Discard` are the steps of
`processOnce`; `RenewLease` and `LoseLease` are the renewal goroutine, which runs beside
them. Renewing, completing and failing ask for the token. `CompleteErrs` is a completion whose outcome the worker does
not learn. Clean-up lists, removes and marks as separate steps and may meet jobs
that another replica has handled. `orphaned` is the history of files a fault left.

**AlertEvaluation.** A key is a group, or `Own`, the rule itself. An evaluation measures
(three outcomes: readings, an error, a disabled rule), reads the previous states,
and saves states, events and delivery jobs in one transaction, which first finds the
rule. The API evaluates without a job; that is bounded together with the faults. Enqueuers
read the enabled rules first and insert later, so the rule may be disabled by then; when it
is deleted the insert fails on its foreign key. `RetryWorkerDeadLetter` is the operator's
requeue (`app/system/dead_letters.go`), which joins the rule and resets attempts and lock
also of a job that a worker holds. Dead letters (`dead`) outlive the rule.
`overlapped` is the history of two evaluations at a time.

**AlertDelivery.** Claim, POST, record and complete or fail. The number of attempts is
the fence, and a requeue resets it. A worker that stops after the POST is the
duplicate of at-least-once delivery.

**CounterRepair.** The counter is its event count, `version` its `updated_at`. A repair
takes the row lock, compares the preview's version, looks for prune runs and retention,
reads the events and writes: four statements under READ COMMITTED. The scan runs in
no transaction. `CorruptCounter` is what repair exists for. Histories: `racedPrune` (a
prune committed between the repair's check and its read), `forgotten` (the record of
a prune run was deleted with the operational history), `disturbed` (something was
committed since the scan began).

**ReconciliationSchedule.** A run is claimed, scanned and recorded; the notification and
the new fingerprint are written in the fenced completion. A failure is known by the hash of
its error text: after one failure the next may be announced or not. Notifications are
claimed, sent, retried and dead-lettered, and a user may requeue them.

**PlanAssignments.** A call reads the clock, the plan and the rows its statements will
see, and commits later; an UPDATE then changes the rows it saw and not the ones that
were inserted meanwhile. Time goes in steps of two, so that the odd instants are the
nanosecond `UpdatePlan` adds. A row's start is unique (a UNIQUE constraint), so a second
row with it makes an assignment, or the whole update, fail and leave nothing. `UpdatePlan`
lists the assignments it moves by their last change; that column is left out, so the loop
takes them in any order. `overlapping` is the history of two calls under way
together; a later assignment or removal that ran on its own repairs the subject.

**IngestionLimit.** A request computes its window, then reaches the row; a refused one
writes the row again in a transaction of its own. `Consume` takes its capacity inside its
transaction, whose rollback gives it back, and the count of a refusal with it (`Rollback`).
`late` counts the requests that wrote the row of a newer window.

## 3. Runs

| Run | Instance | Shows |
|---|---|---|
| `consumption` | 2 clients, 2 keys, 2 rows, a hard fail-closed limit of 1, then perhaps a plan version without the meter, 1 fault | the quota gate, no way around the assessment, replays and the ledger under races, failures, retries, crashes, handover, ingestion and the retention of decisions and events |
| `consumption_live` | 2 clients, 1 key, 2 rows, hard limits under both failure policies, 1 fault, fair | stored decisions are never rewritten, every request ends |
| `usage_outbox` | 2 workers, 2 events, 2 attempts, fair | refinement of `Fanout`, lease protection, everything is settled, dead or stranded |
| `ingestion` | 3 clients, 4 requests out of 4 kinds | one acceptance per key, every keyed event enqueued, one response per batch key, exact statistics |
| `entitlement_check` | 2 workers, 2 attempts, 3 units of usage, 2 faults, 1 requeue, fair | completed jobs are covered by the state, the state never goes back, the log agrees, no job is left behind unless stranded |
| `export_jobs` | 1 job, 2 workers, 2 attempts, 2 user retries, 3 faults, fair | a completed export can be downloaded until it expires and names its last claim's file, no file is forgotten without a fault, every job settles unless stranded |
| `alert_evaluation` | 2 evaluators, 1 group and the rule's own key, 2 attempts, 2 changes or requeues, 1 fault or API evaluation, fair | states and events agree while evaluations do not overlap, a deleted rule stays untouched, the states catch up with the usage unless stranded |
| `operations` | repair: 2 clients, 2 events, 3 versions; schedule and delivery: 2 workers, 2 drifts, 2 attempts, 2 runs, 1 requeue, 1 fault; assignments: 2 callers, 2 plans, 3 calls, 1 update, 4 instants; limit: 2 events, 2 windows; fair | a repair loses no stored event, and none at all unless a prune raced it; the scan is right, one plan in effect at its current version, the limit per window and late request, a drift announced once, notifications and webhooks settled |

Four runs are expected to fail. Each states a sentence of the documentation, or
what a test says, that the code does not keep; "findings" in `PROJECT.json` quotes it.

| Run | What TLC finds |
|---|---|
| `consumption_share_quota` | requests whose event times lie on either side of a plan update lock different rows, read the same counter, and are both granted |
| `ingestion_outbox` | the late loser of a batch key commits its events without a key, a second time and without outbox records |
| `entitlement_check_latest` | usage announced while its pair is being evaluated is dropped with the job; the state stays behind for good if no more usage comes |
| `alert_resolved` | an alerting rule fails one evaluation, or is disabled and enabled, and recovers: no resolved event is recorded |

Deadlock is not checked (`CHECK_DEADLOCK FALSE`) where the environment is finite by a
bound: once all events are settled, all requests sent or all usage recorded, these
systems rightly rest. `Consumption` is checked for deadlock.

### Bounds, and why they are enough

- *Clients, workers, evaluators, callers.* Two actors show every race between two;
  ingestion uses three, so that two wait for one, or one overtakes two.
- *Keys.* Two: requests that share one, and requests that compete for quota
  with different ones.
- *Limit and quantity 1.* The second grant already exceeds the limit. The proof of
  `QuotaGate` is for any limits and quantities.
- *`MaxRows` 2.* One handover or one unassignment, before, during or after a request.
- *`MaxFaults`.* Caps failed calls, crashes and transaction retries, and in `Consumption`
  runs of event retention with them. One fault puts a
  request on the fail-open path against another on the locked path, or prunes the events
  between any two of their statements. In
  `EntitlementCheck` two allow a dead letter, or a failed first and an abandoned
  last attempt; in `ExportJobs` three allow a crash, an unknown completion and a failed
  removal in one behaviour.
- *`MaxAttempts` 2.* First and last attempt differ; a stale worker meets a newer claim.
- *`MaxRetries` 2, `MaxRequeues` 1.* What users send back, once while an older worker is
  still at it.
- *`MaxSubmissions`, `MaxUsage`, `MaxChanges`, `MaxRuns`, `MaxEvents`, `MaxVersion`,
  `MaxCalls`, `MaxUpdates`.* Cap what the environment sends: four requests (two batches re-sent and
  overlapping), usage up to the limit, a drift that comes and changes, a scheduled
  plan with an update beside it. `MaxChanges` counts usage changes, rule updates and
  requeued dead letters together.
- *`MaxTime` 4 (three instants and the nanoseconds after them), `MaxWindow` 1 (two windows).*

The run `consumption`, which checks safety only, uses symmetry over clients and over keys:
all requests may use every key, and no constant names one. Its constraint `HardFirst` starts the
subject under the hard limit, which it then keeps, updates, leaves for the version without the
meter, or loses; `consumption_live` starts from every plan and from none, and the theorems have
no such bound.

### Fairness

- A running handler or worker takes its next statement (weak fairness of `Step`,
  `ProcessOnce`, `Work`, `Clean`): the process is running, contexts have timeouts. In
  `AlertEvaluation` and `MCOperations` the same is said as "every worker is idle again and
  again", which is equivalent, since every step of theirs leads to idle, and cheaper to check.
- PostgreSQL grants a row lock to its waiters in order, so a waiter is not overtaken
  for ever (strong fairness of `LockGranted` and `CreateEvent`). A handover ends.
- Workers poll (weak fairness of claiming a check, evaluation, delivery or notification).
  The outbox and export claims take the oldest row first, so a row that is claimable
  again and again is claimed (strong fairness per row).
- The alert worker's ticker enqueues rules that are due (weak fairness of `EnqueueEvaluation`
  of an enabled rule).
- A Notifier is configured: without one `ProcessDeliveryOnce` returns at once
  (`workers/reconciliation/worker.go:77`) and notifications stay pending.
- Time passes: leases and locks expire, back-offs end, retention ends. An export's lease
  must expire only when no worker renews it.
- Nothing is assumed about failures, aborts, crashes, users or clients.

## 4. Proofs

All theorems are for any sets of clients, workers, keys, events, jobs and plans, any
limits and quantities, and any bounds. They use only the named assumptions of the
modules (bounds are natural numbers, markers such as `"none"` are no client, the keys
that clients send and the keys of one request are finitely many, there is a plan), which
TLC evaluates in every run, and one hypothesis, `SameBatch`. Every invariant and every
action property that a passing run checks is a theorem.

`ConsumptionProofs`:

- `TypeCorrect`: `Spec => []TypeOK`.
- `QuotaGate`: `Spec => []GrantsWithinLimit`. The property is not inductive: that
  a grant fits was decided several statements before it is committed. The
  strengthening has three parts. `LockInv`: a request that has assessed a row or was
  allowed against it holds that row's lock; the row exists, has a plan and stays the
  row in effect at the request's event time. `LedgerInv`: what a row has granted is part
  of the counter, and rows to come have granted nothing. `GateInv`: an allowed request
  still fits, that is granted + quantity is at most the limit, and the event it
  writes moves the counter. Assessing establishes the last part from `LedgerInv`
  (granted <= counter); it survives other requests' steps because only the lock
  holder adds to `granted` of that row.
- `AcceptanceIsRecorded`: `Spec => []AcceptedHasEvent`, with `AcceptInv`: a request
  about to store an acceptance has written its event or found it, or retention deleted
  that event since (`Backed`).
- `HardLimitIsAssessed`: `Spec => []AssessedUnderHardLimit`, with `WaveInv`: a request that goes on
  without an assessment found no hard limit in the first row, or that row is not the one
  in effect at its event time (`Waved`).
- `DecisionsAreImmutable` and `ReplaysAreStable`: the lemmas `DecisionsStep` and `AnswersStep`
  say what any step does to the decisions and to what callers are told. Nobody was told
  anything of a key without a decision, so the request that stores it answers first.
- `RejectionsGrantNothing`: `JudgeInv` (a request over the limit holds the lock like one
  within it) and `LockInv` make requests that reject and requests that grant exclude each
  other under one row (`OneHolder`); `RejectInv` then says that what each has read of
  decisions and events stays true until it commits.
- `CounterIsTheSum`: `WriterInv` says that a request with an open insert is about to commit it
  under a key that has no event, and that one such request exists at most, for the
  statistics row is held from the insert to the commit. A commit thus adds to one term of
  the sum what the event is charged. Retention, which needs the statistics row too, moves
  that amount from the event to `dropped` and changes no term.

`SumsProofs`: a total changes with one of its terms by their difference (`TotalChanges`), from
which `CounterIsTheSum` and `StatsAreTheCount` follow. The library's fold is a recursive function on
sets; the lemmas unfold it with a minimal counterexample (`MinimalSubset`) in place of the
library's induction theorem, which takes an operator the provers cannot instantiate.

`UsageOutboxProofs`:

- `TypeCorrect`; `DeadLettersExhausted`: `Spec => []DeadLetterExhausted` (a dead letter has used
  all its attempts; only proved, no run checks it).
- `LeaseIsProtected`: the action property `LeaseProtects`, from `ClaimInv` (tokens
  are never issued twice, so no two running attempts share one).
- `OutboxImplementsFanout`: every behaviour of the outbox is a behaviour of `Fanout`
  under the mapping `Owed`, from `FanInv` (a worker about to complete has delivered
  to both queues).

`IngestionProofs`:

- `KeyAcceptedOnce`: no key is accepted twice, from `KeyInv`: what an open transaction has
  inserted nobody else has (`Inserts`), and an acceptance was answered at most once and
  for a committed event (`Acks`).
- `ReplayOriginal`: every answer for a batch key is the stored one, from `Flags` (a batch
  request about to answer has stored its response or found one, and one at most is
  storing) and `AnswersStored`.
- `KeyedEnqueued`: every committed keyed event is in the outbox, from `Covers`: the keys of a
  request past its insert, and of a batch whose response is stored, are committed or
  about to be, so a late loser has inserted no key of its own. That needs `SameBatch`:
  requests of one batch key send the same keys. The API does not enforce it; without it
  the loser's keyed events are missed too.
- `StatsAreTheCount`: the statistics are the number of events, from `Counts`: a transaction past
  its writes holds the statistics row or has inserted nothing. It holds for the late loser
  too, whose events are stored twice and counted twice. `IngestionTypeOK` puts the types of the
  other proofs together.

`EntitlementCheckProofs`: `TypeCorrect`; the action properties `Advances` and `Covered`, and
`LogAgrees`, all while leases hold. `Alone`: a worker at work has the live lease, its attempt is
the row's, and nobody else is at work; `Readings`: the counter it read is not older than
the stored state or than what the job was enqueued for; `LogInv`: the previous state it
read is still the stored one.

`ExportJobsProofs`: `TypeCorrect`; `CompletedByLast` from `Claims` (tokens are handed out once, a
running job has its last claim's, a completed job names it); `Downloadable` and
`FilesAccountedFor` from `Tokens` (no two workers, and no worker and a completed job, share
a token) and `Held` (clean-ups list only jobs past their retention, what is about to be
marked is gone, what was written is there).

`AlertEvaluationProofs`: `AlertTypeOK`, `AlertsAreAnnounced` and `DeletedStaysDeleted` from one inductive
invariant, `AlertInv`. Without an overlap one evaluation at a time is between its reading and
its save (`OneEvaluation`), so what it compares with is still the state of the keys it may save
(`PreviousInv`): of the rule's own key when it measured that, else of every group. `JobGone`: a
deleted rule has no job, and gets none, from an enqueue or a requeue.

`OperationsProofs`, first each component:

- `RepairCountsAccepted` from `LockHeld` (the row is locked by the transaction past its locking
  statement, so nobody writes the counter beside a repair), `RepairFits` (its write stays
  within the version bound), `Recorded` (deleted events have a prune run on record, until it
  is forgotten) and `SourceComplete` (what the repair checked and read covers all that was
  accepted). What remains true when a prune races the repair or its record is gone,
  that the counter lies between the stored and the accepted events, is `StoredCovered`; `ScanReportsDrift` from `ScanInv` (while nothing is committed, what the scan read is
  what there is).
- `AnnouncedOnce` from `KnowsLast`: a replica that still holds the schedule's token claimed the
  fingerprint the schedule has now. `Budget` (a claim saves at most one notification) and `Fresh`
  (those not saved yet are empty) make a saved notification a new one; `Rows` types the
  columns. `AttemptLeft` (a pending or claimed notification has an attempt left) bounds the
  attempts.
- `LimitHolds` from `RowCounts`: what a window admitted is what the row counts of it and at most
  one limit more for every late request, and later windows have admitted nothing but
  under such an allowance.
- `OnePlanAtATime` from `PlanInv`. `UniqueStarts` is the table's constraint. `Alone`: without overlap one call is
  under way at most, and what it read still stands, but for rows ended since. `Timeline`: without
  overlap, rows that are not over follow each other in time, and those of a retired
  version last a nanosecond. `Versions` bounds how far updates can move a start. The loop of
  `UpdatePlan` is a recursive function of its steps; `LoopKeeps` shows its invariant (`LoopInv`) at
  every step by the least step at which it would fail, for every order of the assignments.

Then the composition: a step of `MCOperations` is a step of one component and leaves the others
alone (`Parts`), so each behaviour of it is one of each component (`ImplementsParts`), and the
properties the run checks follow (`OperationsCountAccepted`, `OperationsScan`, `OperationsAnnounceOnce`,
`OperationsWithinLimit`, `OperationsOnePlan`, `OperationsTypeOK`).

Only model-checked: liveness (`RequestCompletes`, `EventuallySettled`, `EventuallyDrained`,
`CatchesUp`, `NotificationSettles`, `DeliverySettles`), which the prover does not support.

## 5. Assumptions of the models

- READ COMMITTED: a statement sees what was committed when it began; writers of one
  row or key wait for each other; the database is otherwise correct.
- The workspace statistics row is written by every accepted write, so at most one
  open transaction of a workspace is between its insert and its commit.
- A claim token is a fresh random value (here: a counter, or the replica that drew it).
- Period, meter and subject are fixed; aggregation is sum; an event's time lies in
  the period. Names, properties and payloads are left out.
- `Ingestion` re-sends requests within the retention of their events: a key whose event was
  pruned is a new key (`docs/content/docs/concepts/retention.mdx`).
- `StateAdvances`, `CompletionCovers` and `EventLogAgrees` presuppose that a worker's
  job timeout is below its lock TTL. The defaults (1 minute, 5 minutes) are; the
  configuration (`src/internal/config/config.go:544`) checks only that they are positive.
- `AlertsAnnounced`, `OneCurrentPlan`, `CounterCountsAccepted`, `ScanIsRight` and
  `WindowWithinLimit` hold up to the history variable each names: the code gives no more.
  `OneCurrentPlan` says nothing while two calls overlap; it does check that the next
  undisturbed call repairs what they left.

## 6. Where the code gives less than one might expect

Found while modelling; the models contain each of them, the properties above say what
remains true.

- *Consumption.* `fail_closed` is not known when the lock or the plan read fails, so such
  a request is accepted (`app/entitlement/consumption.go:39`). If one request of a key
  fails open and another is rejected, the stored rejection may be answered although the event
  is recorded (`app/consumption/service.go:199`). A request whose event time belongs to the new
  row, and that waited for the old one during a handover, is waved through as unassigned.
  A retained acceptance may have lost its event to retention, and a key whose decision and
  event are both pruned is charged again.
- *Last attempts.* A worker that stops in the last attempt of an outbox record, an export, an
  alert evaluation or a delivery leaves the row running; claims ask for attempts below the
  maximum and nothing dead-letters it (`Stranded`). Notifications do not have this gap.
- *Exports.* A crash, an unknown completion or a failed removal leaves an artifact that no
  row names.
- *Alerts.* Overlapping evaluations can announce twice or miss an event. The attempts
  fence cannot tell a job from its deleted and re-inserted successor. A grouped rule sees at
  most 1000 groups. An update of a concurrently deleted rule inserts it again (not in the
  model, where a deleted rule stays deleted). A requeued dead letter resets the attempts that
  fence a worker at work. A webhook is sent at least once, and a requeue resets its attempts.
- *Plans.* Two assignments at once leave two open rows, and an assignment beside an update
  leaves a retired version, until the next call repairs it. Two open rows of one plan make
  every update of that plan fail, since both would move to the same start. An update cancels a scheduled
  change to another plan, moves at most 1000 assignments, and leaves the old version
  in effect for a nanosecond. `DeletePlan` counts and deletes in two statements.
- *Repair and scan.* The scan's statements see different moments, so it can report drift
  beside ingestion. A prune between the repair's check and its read lowers the counter.
  History clean-up (30 days by default) deletes the prune runs the check relies on, so
  counters of a longer period can be repaired downward.
- *Rate limit.* A request with an older window resets the row, which can cost the newer window
  one more limit. Ingestion takes its capacity before its transaction and does not give it
  back; `Consume` takes it inside its transaction, so a rollback gives it back.

## 7. Running

In this directory:

    tlc -workers 2 -config consumption.cfg MCConsumption
    tlc -workers 2 -config operations.cfg MCOperations
    tlapm ConsumptionProofs.tla

The module of a run is in `PROJECT.json`; it is `MC` and the component's name. `consumption` takes
two to three minutes, the others two or less.

What is left, in the order of its value: a composition of `Ingestion`, `UsageOutbox` and
`EntitlementCheck`, in which an accepted event reaches the stored state; counter windows against
assessment windows, and instants compared as text, as operators against reference
definitions.

## 8. Not modelled

- *System statistics, health, heartbeats, usage queries, meters, subjects, saved
  queries*: read-only or single-statement operations without decisions over time. What
  the history clean-up deletes is modelled where a decision reads it (exports, prune runs).
- *Roll-ups*: rebuilt from events by one statement per bucket.
- *Authentication and workspaces*: outside the metering core.
- *HTTP and gRPC adapters, configuration, wiring*: decoding and start-up. What they
  submit is the environment; the limits they set are constants.
- *SQLite store*: the same queries with one writer, whose interleavings are a subset.
- *SDKs, console, examples, documentation*: clients.
- *Audit rows* (ingestion runs, snapshots): no decision reads them.

Most of the repository's Go is of this kind: the generated API description, generated
query code for two stores, data transfer types, request decoding and read-only
queries. The models therefore stand for a small share of its lines, the share in
which state changes depend on what others did meanwhile.
