----------------------------- MODULE Ingestion -----------------------------
(***************************************************************************)
(* Usage ingestion: POST /v1/usages, /v1/usages/bulk and the gRPC stream.  *)
(*                                                                         *)
(* A request carries events with an idempotency key, events without one    *)
(* and, when it is a batch, possibly a batch idempotency key whose stored  *)
(* response is replayed.  A request runs as one database transaction under *)
(* READ COMMITTED.  UsageRepository.SaveBulk opens a transaction of its    *)
(* own inside it, which Store.WithinTransaction turns into a plain call:   *)
(* an error it returns and its caller swallows rolls nothing back.         *)
(***************************************************************************)
EXTENDS Integers, FiniteSets, Sums

CONSTANTS
    Client,         \* concurrent requests
    Key,            \* idempotency keys of events
    BulkKey,        \* idempotency keys of batches
    NoBulk,         \* a request without a batch key
    Request,        \* the requests clients send (and send again)
    MaxSubmissions  \* bound: requests sent

ASSUME RequestAssumption ==
    /\ NoBulk \notin BulkKey
    /\ Request # {}
    /\ Request \subseteq [bulk : BulkKey \cup {NoBulk}, keys : SUBSET Key, loose : Nat]
\* A request is a finite message, and batches have finitely many keys.
ASSUME FiniteAssumption == IsFiniteSet(BulkKey) /\ \A r \in Request : IsFiniteSet(r.keys)
ASSUME BoundAssumption == MaxSubmissions \in Nat

VARIABLES
    \* committed database state
    events,     \* keyed usage_events
    loose,      \* number of usage_events without a key, per batch key
    outbox,     \* keyed events that were given an outbox record
    looseOut,   \* ... and the number of events without a key that were
    responses,  \* bulk_usage_ingestions
    stats,      \* workspace_stats.usage_events
    \* requests and their open transactions
    pc, req,
    ins,        \* keys the transaction has inserted
    insLoose,   \* events without a key it has inserted
    counting,   \* it holds the workspace_stats row, with its increment
    saved,      \* it has inserted its batch response
    replay,     \* SaveBulk returned a replay
    \* environment and history
    sent, answers, acks

dbVars == <<events, loose, outbox, looseOut, responses, stats>>
txVars == <<ins, insLoose, counting, saved, replay>>
vars == <<dbVars, pc, req, txVars, sent, answers, acks>>

NoResponse == [accepted |-> {}, duplicates |-> {}, loose |-> 0, stored |-> FALSE]
Response == [accepted : SUBSET Key, duplicates : SUBSET Key, loose : Nat, stored : BOOLEAN]
PC == {"idle", "find", "insert", "apply", "bulk", "finish"}

TypeOK ==
    /\ events \subseteq Key /\ outbox \subseteq Key
    /\ loose \in [BulkKey \cup {NoBulk} -> Nat]
    /\ looseOut \in [BulkKey \cup {NoBulk} -> Nat]
    /\ responses \in [BulkKey -> Response]
    /\ stats \in Nat
    /\ pc \in [Client -> PC] /\ req \in [Client -> Request]
    /\ ins \in [Client -> SUBSET Key] /\ insLoose \in [Client -> Nat]
    /\ counting \in [Client -> BOOLEAN] /\ saved \in [Client -> BOOLEAN]
    /\ replay \in [Client -> BOOLEAN]
    /\ sent \in 0..MaxSubmissions
    /\ answers \in [BulkKey -> SUBSET Response]
    /\ acks \in [Key -> Nat]

Init ==
    /\ events = {} /\ outbox = {}
    /\ loose = [b \in BulkKey \cup {NoBulk} |-> 0]
    /\ looseOut = [b \in BulkKey \cup {NoBulk} |-> 0]
    /\ responses = [b \in BulkKey |-> NoResponse]
    /\ stats = 0
    /\ pc = [c \in Client |-> "idle"]
    /\ req = [c \in Client |-> CHOOSE r \in Request : TRUE]
    /\ ins = [c \in Client |-> {}] /\ insLoose = [c \in Client |-> 0]
    /\ counting = [c \in Client |-> FALSE] /\ saved = [c \in Client |-> FALSE]
    /\ replay = [c \in Client |-> FALSE]
    /\ sent = 0
    /\ answers = [b \in BulkKey |-> {}]
    /\ acks = [k \in Key |-> 0]

\* The transaction is over: its inserts, row locks and results are gone.
CloseTransaction(c) ==
    /\ ins' = [ins EXCEPT ![c] = {}]
    /\ insLoose' = [insLoose EXCEPT ![c] = 0]
    /\ counting' = [counting EXCEPT ![c] = FALSE]
    /\ saved' = [saved EXCEPT ![c] = FALSE]
    /\ replay' = [replay EXCEPT ![c] = FALSE]

Goto(c, next) == pc' = [pc EXCEPT ![c] = next]

First(r) == IF r.bulk = NoBulk THEN "insert" ELSE "find"

\* A client sends a request, for the first time or again.
Submit(c, r) ==
    /\ pc[c] = "idle" /\ sent < MaxSubmissions
    /\ sent' = sent + 1
    /\ req' = [req EXCEPT ![c] = r]
    /\ Goto(c, First(r))
    /\ UNCHANGED <<dbVars, txVars, answers, acks>>

\* SaveBulk: findBulk, before anything is written.
FindBulk(c) ==
    /\ pc[c] = "find"
    /\ LET known == responses[req[c].bulk].stored IN
       /\ replay' = [replay EXCEPT ![c] = known]
       /\ Goto(c, IF known THEN "finish" ELSE "insert")
    /\ UNCHANGED <<dbVars, req, ins, insLoose, counting, saved, sent, answers, acks>>

\* (mutant) the insert overwrites an event with the same key
InsertUpserts(c) ==
    /\ pc[c] = "insert"
    /\ \A d \in Client \ {c} : ins[d] \cap req[c].keys = {}
    /\ ins' = [ins EXCEPT ![c] = req[c].keys]
    /\ insLoose' = [insLoose EXCEPT ![c] = req[c].loose]
    /\ Goto(c, "apply")
    /\ UNCHANGED <<dbVars, req, counting, saved, replay, sent, answers, acks>>

\* (mutant) accepted events are counted as those sent less the duplicates, twice over
InsertMiscounts(c) ==
    /\ pc[c] = "insert"
    /\ \A d \in Client \ {c} : ins[d] \cap req[c].keys = {}
    /\ ins' = [ins EXCEPT ![c] = req[c].keys \ events]
    /\ insLoose' = [insLoose EXCEPT ![c] = req[c].loose - Cardinality(req[c].keys \cap events)]
    /\ Goto(c, "apply")
    /\ UNCHANGED <<dbVars, req, counting, saved, replay, sent, answers, acks>>

\* insertUsageEvents: INSERT ... ON CONFLICT DO NOTHING waits for an open insert of
\* the same key; what it skips is a duplicate.
InsertUsageEvents(c) ==
    /\ pc[c] = "insert"
    /\ \A d \in Client \ {c} : ins[d] \cap req[c].keys = {}
    /\ ins' = [ins EXCEPT ![c] = req[c].keys \ events]
    /\ insLoose' = [insLoose EXCEPT ![c] = req[c].loose]
    /\ Goto(c, "apply")
    /\ UNCHANGED <<dbVars, req, counting, saved, replay, sent, answers, acks>>

Inserted(c) == Cardinality(ins[c]) + insLoose[c]

\* (mutant) the statistics count every event of the request, duplicates too
CountsDuplicates(c) ==
    IF counting[c] THEN Cardinality(req[c].keys) + req[c].loose ELSE 0

\* The increment of the statistics row that the transaction will commit.
Increment(c) == IF counting[c] THEN Inserted(c) ELSE 0

\* applyAcceptedUsage: counters and workspace statistics, whose row the
\* transaction then holds; with nothing accepted it returns at once.
ApplyAcceptedUsage(c) ==
    /\ pc[c] = "apply"
    /\ \/ Inserted(c) = 0 /\ UNCHANGED counting
       \/ /\ Inserted(c) > 0
          /\ \A d \in Client \ {c} : ~counting[d]
          /\ counting' = [counting EXCEPT ![c] = TRUE]
    /\ Goto(c, IF req[c].bulk = NoBulk THEN "finish" ELSE "bulk")
    /\ UNCHANGED <<dbVars, req, ins, insLoose, saved, replay, sent, answers, acks>>

\* What SaveBulk computed: accepted and duplicates.
Result(c) == [accepted |-> ins[c], duplicates |-> req[c].keys \ ins[c],
              loose |-> insLoose[c], stored |-> TRUE]

\* SaveBulkUsageIngestion: ON CONFLICT DO NOTHING.  No row means another request
\* stored the response meanwhile: errBulkReplay ends the inner transaction, which is
\* the outer one, and SaveBulk goes on with the stored response.
SaveBulkUsageIngestion(c) ==
    LET b == req[c].bulk IN
    /\ pc[c] = "bulk"
    /\ \A d \in Client \ {c} : ~(saved[d] /\ req[d].bulk = b)
    /\ IF responses[b].stored
       THEN replay' = [replay EXCEPT ![c] = TRUE] /\ UNCHANGED saved
       ELSE saved' = [saved EXCEPT ![c] = TRUE] /\ UNCHANGED replay
    /\ Goto(c, "finish")
    /\ UNCHANGED <<dbVars, req, ins, insLoose, counting, sent, answers, acks>>

\* (mutant) a batch with a duplicate in it enqueues nothing
EnqueuesCleanBatch(c) == ~replay[c] /\ req[c].keys = ins[c]

\* createBulk enqueues what SaveBulk accepted, unless it was a replay.
Enqueues(c) == ~replay[c]

\* (mutant) the late loser of a batch key answers with what it computed
AnswerOwn(c) == Result(c)

\* The response: the stored one for a replay.
Answered(c) == IF replay[c] THEN responses[req[c].bulk] ELSE Result(c)

\* EnqueueOutbox, saveIngestionRun, then commit, and the client is answered.
Finish(c) ==
    LET b == req[c].bulk IN
    /\ pc[c] = "finish"
    /\ events' = events \cup ins[c]
    /\ loose' = [loose EXCEPT ![b] = @ + insLoose[c]]
    /\ outbox' = IF Enqueues(c) THEN outbox \cup ins[c] ELSE outbox
    /\ looseOut' = IF Enqueues(c) THEN [looseOut EXCEPT ![b] = @ + insLoose[c]] ELSE looseOut
    /\ responses' = IF saved[c] THEN [responses EXCEPT ![b] = Result(c)] ELSE responses
    /\ stats' = stats + Increment(c)
    /\ answers' = IF b = NoBulk THEN answers
                  ELSE [answers EXCEPT ![b] = @ \cup {Answered(c)}]
    /\ acks' = IF replay[c] THEN acks
               ELSE [k \in Key |-> IF k \in ins[c] THEN acks[k] + 1 ELSE acks[k]]
    /\ CloseTransaction(c)
    /\ Goto(c, "idle")
    /\ UNCHANGED <<req, sent>>

\* runWithTransactionRetries: a deadlock (batches that insert the same keys in
\* different orders) rolls back and runs the function again.
TxRetry(c) ==
    /\ pc[c] \in {"insert", "apply", "bulk"}
    /\ CloseTransaction(c)
    /\ Goto(c, First(req[c]))
    /\ UNCHANGED <<dbVars, req, sent, answers, acks>>

\* Any other error, a cancelled request or a crash rolls back for good.
Abort(c) ==
    /\ pc[c] # "idle"
    /\ CloseTransaction(c)
    /\ Goto(c, "idle")
    /\ UNCHANGED <<dbVars, req, sent, answers, acks>>

Step(c) ==
    \/ FindBulk(c) \/ InsertUsageEvents(c) \/ ApplyAcceptedUsage(c)
    \/ SaveBulkUsageIngestion(c) \/ Finish(c)

Next ==
    \E c \in Client :
        Step(c) \/ TxRetry(c) \/ Abort(c) \/ \E r \in Request : Submit(c, r)

Spec == Init /\ [][Next]_vars

----------------------------------------------------------------------------
(* Properties.                                                             *)

\* Every keyed event has its outbox record from the moment it is committed, and no
\* record lacks its event, when clients send the same batch under the same batch
\* key, however often and however many at once.
KeyedEventsEnqueued == outbox = events

\* One answered request, and no other, learns that a key's event was accepted by
\* it; all others are told it is a duplicate.
AcceptedOnce ==
    \A k \in Key : acks[k] <= 1 /\ (acks[k] = 1 => k \in events)

\* All answers for a batch key are the one stored response, also for a request
\* that lost the race after it had done all the work.
ReplayReturnsOriginal ==
    \A b \in BulkKey : \A a \in answers[b] : a = responses[b]

\* The workspace statistics count every committed event exactly once, whatever
\* was retried, rolled back, skipped as a duplicate or replayed.
StatsMatchEvents == stats = Cardinality(events) + Total(loose)

(* A statement of the documentation that the code does not keep.           *)

\* "accepted events and their outbox records commit atomically": also those
\* without an idempotency key.
EventsHaveOutboxRecords ==
    outbox = events /\ looseOut = loose
============================================================================
