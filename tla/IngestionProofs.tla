--------------------------- MODULE IngestionProofs ---------------------------
(***************************************************************************)
(* Ingestion for every number of clients, keys, batches and requests:      *)
(* a keyed event is accepted once and enqueued with its commit, all        *)
(* answers for a batch key are the stored one, and the workspace           *)
(* statistics count the committed events.                                  *)
(***************************************************************************)
EXTENDS Ingestion, SumsProofs

\* The columns and requests that the event keys go through.
KeyTypes ==
    /\ events \subseteq Key /\ outbox \subseteq Key
    /\ pc \in [Client -> PC] /\ req \in [Client -> Request]
    /\ ins \in [Client -> SUBSET Key]
    /\ acks \in [Key -> Nat]

\* A request that is past its insert.
Past == {"apply", "bulk", "finish"}

\* An open transaction has inserted keys that nobody else has; a keyed request has
\* inserted what was not there.
Inserts ==
    /\ \A c \in Client : ins[c] \cap events = {} /\ ins[c] \subseteq req[c].keys
    /\ \A c, d \in Client : c # d => ins[c] \cap ins[d] = {}
    /\ \A c \in Client : pc[c] \in {"idle", "find", "insert"} => ins[c] = {}

\* What a request was told about a key.
Acks == \A k \in Key : acks[k] <= 1 /\ (acks[k] = 1 => k \in events)

KeyInv == KeyTypes /\ Inserts /\ Acks

LEMMA RequestTypes ==
    ASSUME NEW r \in Request
    PROVE r.bulk \in BulkKey \cup {NoBulk} /\ r.keys \in SUBSET Key /\ r.loose \in Nat
BY RequestAssumption

LEMMA KeyInit == Init => KeyInv
<1> SUFFICES ASSUME Init PROVE KeyInv OBVIOUS
<1>1. (CHOOSE r \in Request : TRUE) \in Request BY RequestAssumption
<1>2. KeyTypes BY <1>1 DEF Init, KeyTypes, PC
<1>3. Inserts /\ Acks BY DEF Init, Inserts, Acks
<1> QED BY <1>2, <1>3 DEF KeyInv

LEMMA KeyStep == ASSUME KeyInv, [Next]_vars PROVE KeyInv'
<1> USE DEF KeyInv, KeyTypes, Inserts, Acks, PC
<1>1. ASSUME NEW c \in Client, NEW r \in Request, Submit(c, r) PROVE KeyInv'
  BY <1>1 DEF Submit, Goto, First, dbVars, txVars
<1>2. ASSUME NEW c \in Client, FindBulk(c) PROVE KeyInv'
  BY <1>2 DEF FindBulk, Goto, dbVars
<1>3. ASSUME NEW c \in Client, InsertUsageEvents(c) PROVE KeyInv'
  BY <1>3, RequestTypes DEF InsertUsageEvents, Goto, dbVars
<1>4. ASSUME NEW c \in Client, ApplyAcceptedUsage(c) PROVE KeyInv'
  BY <1>4 DEF ApplyAcceptedUsage, Goto, dbVars
<1>5. ASSUME NEW c \in Client, SaveBulkUsageIngestion(c) PROVE KeyInv'
  BY <1>5 DEF SaveBulkUsageIngestion, Goto, dbVars
<1>6. ASSUME NEW c \in Client, Finish(c) PROVE KeyInv'
  BY <1>6 DEF Finish, CloseTransaction, Goto
<1>7. ASSUME NEW c \in Client, TxRetry(c) \/ Abort(c) PROVE KeyInv'
  BY <1>7 DEF TxRetry, Abort, CloseTransaction, First, Goto, dbVars
<1>8. ASSUME UNCHANGED vars PROVE KeyInv'
  BY <1>8 DEF vars, dbVars, txVars
<1> QED BY <1>1, <1>2, <1>3, <1>4, <1>5, <1>6, <1>7, <1>8 DEF Next, Step

LEMMA KeyInvariant == Spec => []KeyInv
BY KeyInit, KeyStep, PTL DEF Spec

\* A key's event is acknowledged as accepted by one request at most, whatever requests
\* with that key run at once, are retried or sent again.
THEOREM KeyAcceptedOnce == Spec => []AcceptedOnce
<1>1. KeyInv => AcceptedOnce BY DEF KeyInv, Acks, AcceptedOnce
<1> QED BY <1>1, KeyInvariant, PTL

----------------------------------------------------------------------------
(* Batches.                                                                *)

FlagTypes ==
    /\ saved \in [Client -> BOOLEAN] /\ replay \in [Client -> BOOLEAN]
    /\ responses \in [BulkKey -> Response] /\ insLoose \in [Client -> Nat]

\* A batch request that is about to answer has stored its response or found one, and
\* of the requests with one batch key one at most is storing.
Flags ==
    /\ \A c \in Client : pc[c] \in {"find", "bulk"} => req[c].bulk \in BulkKey
    /\ \A c \in Client : replay[c] => /\ pc[c] = "finish" /\ req[c].bulk \in BulkKey
                                      /\ responses[req[c].bulk].stored
    /\ \A c \in Client : saved[c] => /\ pc[c] = "finish" /\ req[c].bulk \in BulkKey
                                     /\ ~responses[req[c].bulk].stored
    /\ \A c, d \in Client : saved[c] /\ saved[d] /\ req[c].bulk = req[d].bulk => c = d
    /\ \A c \in Client : pc[c] = "finish" /\ req[c].bulk \in BulkKey => replay[c] \/ saved[c]

LEMMA FlagTypesStep == ASSUME KeyInv, FlagTypes, Flags, [Next]_vars PROVE FlagTypes'
<1> USE DEF FlagTypes, KeyInv, KeyTypes
<1>1. ASSUME NEW c \in Client, NEW r \in Request, Submit(c, r) PROVE FlagTypes'
  BY <1>1 DEF Submit, dbVars, txVars
<1>2. ASSUME NEW c \in Client, FindBulk(c) PROVE FlagTypes'
  <2>0. req[c].bulk \in BulkKey BY <1>2 DEF FindBulk, Flags
  <2>1. responses[req[c].bulk].stored \in BOOLEAN BY <2>0 DEF Response
  <2> QED BY <1>2, <2>1 DEF FindBulk, dbVars
<1>3. ASSUME NEW c \in Client, InsertUsageEvents(c) PROVE FlagTypes'
  BY <1>3, RequestTypes DEF InsertUsageEvents, dbVars
<1>4. ASSUME NEW c \in Client, ApplyAcceptedUsage(c) PROVE FlagTypes'
  BY <1>4 DEF ApplyAcceptedUsage, dbVars
<1>5. ASSUME NEW c \in Client, SaveBulkUsageIngestion(c) PROVE FlagTypes'
  BY <1>5 DEF SaveBulkUsageIngestion, dbVars
<1>6. ASSUME NEW c \in Client, Finish(c) PROVE FlagTypes'
  <2>1. Result(c) \in Response BY RequestTypes DEF Result, Response
  <2> QED BY <1>6, <2>1 DEF Finish, CloseTransaction
<1>7. ASSUME NEW c \in Client, TxRetry(c) \/ Abort(c) PROVE FlagTypes'
  <2>1. CloseTransaction(c) /\ responses' = responses BY <1>7 DEF TxRetry, Abort, dbVars
  <2>2. saved' \in [Client -> BOOLEAN] /\ replay' \in [Client -> BOOLEAN]
    BY <2>1 DEF CloseTransaction
  <2>3. insLoose' \in [Client -> Nat] BY <2>1 DEF CloseTransaction
  <2> QED BY <2>1, <2>2, <2>3
<1>8. ASSUME UNCHANGED vars PROVE FlagTypes'
  BY <1>8 DEF vars, dbVars, txVars
<1> QED BY <1>1, <1>2, <1>3, <1>4, <1>5, <1>6, <1>7, <1>8 DEF Next, Step

LEMMA FlagsStep == ASSUME KeyInv, FlagTypes, Flags, [Next]_vars PROVE Flags'
<1> USE RequestAssumption DEF FlagTypes, KeyInv, KeyTypes, Flags
<1>1. ASSUME NEW c \in Client, NEW r \in Request, Submit(c, r) PROVE Flags'
  BY <1>1, RequestTypes DEF Submit, First, Goto, dbVars, txVars
<1>2. ASSUME NEW c \in Client, FindBulk(c) PROVE Flags'
  BY <1>2 DEF FindBulk, Goto, dbVars
<1>3. ASSUME NEW c \in Client, InsertUsageEvents(c) PROVE Flags'
  BY <1>3 DEF InsertUsageEvents, Goto, dbVars
<1>4. ASSUME NEW c \in Client, ApplyAcceptedUsage(c) PROVE Flags'
  BY <1>4, RequestTypes DEF ApplyAcceptedUsage, Goto, dbVars
<1>5. ASSUME NEW c \in Client, SaveBulkUsageIngestion(c) PROVE Flags'
  BY <1>5 DEF SaveBulkUsageIngestion, Goto, dbVars
<1>6. ASSUME NEW c \in Client, Finish(c) PROVE Flags'
  BY <1>6 DEF Finish, CloseTransaction, Goto, Result
<1>7. ASSUME NEW c \in Client, TxRetry(c) \/ Abort(c) PROVE Flags'
  <2>1. /\ saved' = [saved EXCEPT ![c] = FALSE] /\ replay' = [replay EXCEPT ![c] = FALSE]
        /\ responses' = responses /\ req' = req
    BY <1>7 DEF TxRetry, Abort, CloseTransaction, dbVars
  <2>2. \/ pc' = [pc EXCEPT ![c] = "idle"] \/ pc' = [pc EXCEPT ![c] = "insert"]
        \/ req[c].bulk \in BulkKey /\ pc' = [pc EXCEPT ![c] = "find"]
    BY <1>7, RequestTypes DEF TxRetry, Abort, First, Goto
  <2> QED BY <2>1, <2>2
<1>8. ASSUME UNCHANGED vars PROVE Flags'
  BY <1>8 DEF vars, dbVars, txVars
<1> QED BY <1>1, <1>2, <1>3, <1>4, <1>5, <1>6, <1>7, <1>8 DEF Next, Step

LEMMA FlagInvariant == Spec => [](KeyInv /\ FlagTypes /\ Flags)
<1>1. Init => FlagTypes /\ Flags
  <2> SUFFICES ASSUME Init PROVE FlagTypes /\ Flags OBVIOUS
  <2>1. NoResponse \in Response BY DEF NoResponse, Response
  <2>2. FlagTypes BY <2>1 DEF Init, FlagTypes
  <2>3. Flags BY DEF Init, Flags
  <2> QED BY <2>2, <2>3
<1> QED BY <1>1, KeyInvariant, FlagTypesStep, FlagsStep, PTL DEF Spec

\* Every answer for a batch key is the response that is stored for it.
AnswersStored ==
    /\ answers \in [BulkKey -> SUBSET Response]
    /\ \A b \in BulkKey : \A a \in answers[b] : responses[b].stored /\ a = responses[b]

LEMMA AnswersStep ==
    ASSUME KeyInv, FlagTypes, Flags, AnswersStored, [Next]_vars PROVE AnswersStored'
<1>1. CASE UNCHANGED <<responses, answers>> BY <1>1 DEF AnswersStored
<1>2. ASSUME NEW c \in Client, Finish(c) PROVE AnswersStored'
  <2> DEFINE b == req[c].bulk
  <2>1. b \in BulkKey \cup {NoBulk} BY RequestTypes DEF KeyInv, KeyTypes
  <2>2. CASE b = NoBulk
    <3>1. ~saved[c] BY <2>2, RequestAssumption DEF Flags
    <3> QED BY <1>2, <2>2, <3>1, <1>1 DEF Finish
  <2>3. CASE b \in BulkKey /\ replay[c]
    <3>1. ~saved[c] /\ responses[b].stored BY <2>3 DEF Flags
    <3>2. responses' = responses BY <1>2, <3>1 DEF Finish
    <3>3. answers' = [answers EXCEPT ![b] = @ \cup {responses[b]}]
      BY <1>2, <2>3, RequestAssumption DEF Finish, Answered
    <3>4. responses[b] \in Response BY <2>3 DEF FlagTypes
    <3> HIDE DEF b
    <3> QED BY <2>3, <3>1, <3>2, <3>3, <3>4 DEF AnswersStored
  <2>4. CASE b \in BulkKey /\ ~replay[c]
    <3>1. saved[c] /\ ~responses[b].stored BY <1>2, <2>4 DEF Flags, Finish
    <3>2. responses' = [responses EXCEPT ![b] = Result(c)] BY <1>2, <3>1 DEF Finish
    <3>3. answers' = [answers EXCEPT ![b] = @ \cup {Result(c)}]
      BY <1>2, <2>4, RequestAssumption DEF Finish, Answered
    <3>4. Result(c) \in Response /\ Result(c).stored
      <4>1. Result(c).stored BY DEF Result
      <4>2. Result(c) \in Response
        BY RequestTypes DEF Result, Response, KeyInv, KeyTypes, FlagTypes
      <4> QED BY <4>1, <4>2
    <3>5. answers[b] = {} BY <2>4, <3>1 DEF AnswersStored
    <3> HIDE DEF b
    <3> QED BY <2>4, <3>2, <3>3, <3>4, <3>5 DEF AnswersStored, FlagTypes
  <2> QED BY <2>1, <2>2, <2>3, <2>4
<1>3. (\E c \in Client : Finish(c)) \/ UNCHANGED <<responses, answers>>
  BY DEF Next, Step, Submit, FindBulk, InsertUsageEvents, ApplyAcceptedUsage,
     SaveBulkUsageIngestion, TxRetry, Abort, vars, dbVars
<1> QED BY <1>1, <1>2, <1>3

LEMMA AnswersInvariant == Spec => []AnswersStored
<1>1. Init => AnswersStored BY DEF Init, AnswersStored
<1> QED BY <1>1, FlagInvariant, AnswersStep, PTL DEF Spec

\* All answers for a batch key, also to a request that lost the race for it after it
\* had done all the work, are the one that SaveBulk stored.
THEOREM ReplayOriginal == Spec => []ReplayReturnsOriginal
<1>1. AnswersStored => ReplayReturnsOriginal BY DEF AnswersStored, ReplayReturnsOriginal
<1> QED BY <1>1, AnswersInvariant, PTL

----------------------------------------------------------------------------
(* The outbox.                                                             *)

\* Clients send the same batch under the same batch key.
SameBatch ==
    \A r, s \in Request : r.bulk = s.bulk /\ r.bulk \in BulkKey => r.keys = s.keys

\* The keys of a request that is past its insert, and of a batch whose response is
\* stored, are there or about to be.
Covers ==
    /\ \A c \in Client : pc[c] \in Past => req[c].keys \subseteq events \cup ins[c]
    /\ \A r \in Request : r.bulk \in BulkKey /\ responses[r.bulk].stored => r.keys \subseteq events

OutboxInv == Covers /\ KeyedEventsEnqueued

LEMMA OutboxStep ==
    ASSUME SameBatch, KeyInv, FlagTypes, Flags, OutboxInv, [Next]_vars PROVE OutboxInv'
<1> USE DEF KeyInv, KeyTypes, Inserts, Past, OutboxInv, Covers, KeyedEventsEnqueued
<1>1. ASSUME NEW c \in Client, NEW r \in Request, Submit(c, r) PROVE OutboxInv'
  BY <1>1 DEF Submit, First, Goto, dbVars, txVars
<1>2. ASSUME NEW c \in Client, FindBulk(c) PROVE OutboxInv'
  BY <1>2 DEF FindBulk, Goto, dbVars, Flags
<1>3. ASSUME NEW c \in Client, InsertUsageEvents(c) PROVE OutboxInv'
  BY <1>3 DEF InsertUsageEvents, Goto, dbVars
<1>4. ASSUME NEW c \in Client, ApplyAcceptedUsage(c) PROVE OutboxInv'
  BY <1>4 DEF ApplyAcceptedUsage, Goto, dbVars
<1>5. ASSUME NEW c \in Client, SaveBulkUsageIngestion(c) PROVE OutboxInv'
  BY <1>5 DEF SaveBulkUsageIngestion, Goto, dbVars
<1>6. ASSUME NEW c \in Client, Finish(c) PROVE OutboxInv'
  <2>1. pc[c] = "finish" /\ events' = events \cup ins[c] /\ req' = req
        /\ ins' = [ins EXCEPT ![c] = {}] /\ pc' = [pc EXCEPT ![c] = "idle"]
    BY <1>6 DEF Finish, CloseTransaction, Goto
  <2>2. KeyedEventsEnqueued'
    <3>1. replay[c] => ins[c] = {} BY DEF Flags
    <3>2. outbox' = IF ~replay[c] THEN outbox \cup ins[c] ELSE outbox
      BY <1>6 DEF Finish, Enqueues
    <3> QED BY <2>1, <3>1, <3>2
  <2>3. ASSUME NEW d \in Client, pc'[d] \in Past PROVE req'[d].keys \subseteq events' \cup ins'[d]
    BY <2>1, <2>3
  <2>4. ASSUME NEW r \in Request, r.bulk \in BulkKey, responses'[r.bulk].stored
        PROVE r.keys \subseteq events'
    <3>1. CASE saved[c] /\ r.bulk = req[c].bulk BY <2>1, <2>4, <3>1 DEF SameBatch
    <3>2. CASE ~(saved[c] /\ r.bulk = req[c].bulk)
      <4>1. responses'[r.bulk] = responses[r.bulk]
        BY <1>6, <2>4, <3>2 DEF Finish, FlagTypes
      <4> QED BY <2>1, <2>4, <4>1
    <3> QED BY <3>1, <3>2
  <2> QED BY <2>2, <2>3, <2>4
<1>7. ASSUME NEW c \in Client, TxRetry(c) \/ Abort(c) PROVE OutboxInv'
  BY <1>7 DEF TxRetry, Abort, CloseTransaction, First, Goto, dbVars
<1>8. ASSUME UNCHANGED vars PROVE OutboxInv'
  BY <1>8 DEF vars, dbVars, txVars
<1> QED BY <1>1, <1>2, <1>3, <1>4, <1>5, <1>6, <1>7, <1>8 DEF Next, Step

\* A keyed event has its outbox record from its commit on, and no record lacks its
\* event, also when a replayed batch ends without enqueueing anything.
THEOREM KeyedEnqueued == ASSUME SameBatch PROVE Spec => []KeyedEventsEnqueued
<1>1. Init => OutboxInv
  BY DEF Init, OutboxInv, Covers, Past, KeyedEventsEnqueued, NoResponse
<1>2. OutboxInv => KeyedEventsEnqueued BY DEF OutboxInv
<1> QED BY <1>1, <1>2, FlagInvariant, OutboxStep, PTL DEF Spec

----------------------------------------------------------------------------
(* The workspace statistics.                                               *)

CountTypes ==
    /\ loose \in [BulkKey \cup {NoBulk} -> Nat]
    /\ looseOut \in [BulkKey \cup {NoBulk} -> Nat]
    /\ stats \in Nat /\ sent \in 0..MaxSubmissions
    /\ counting \in [Client -> BOOLEAN]

\* A transaction has inserted finitely many events; one that is past its writes holds
\* the statistics row unless it has inserted nothing.
Counts ==
    /\ IsFiniteSet(events)
    /\ \A c \in Client : IsFiniteSet(ins[c])
    /\ \A c \in Client : pc[c] \in {"idle", "find", "insert"} => insLoose[c] = 0
    /\ \A c \in Client : pc[c] \in {"bulk", "finish"} => counting[c] \/ Inserted(c) = 0
    /\ \A c \in Client : counting[c] => pc[c] \in {"bulk", "finish"}

StatsInv == CountTypes /\ Counts /\ StatsMatchEvents

\* Everything that the other theorems keep, and the counts.
Written == KeyInv /\ FlagTypes /\ Flags

LEMMA InsertedType ==
    ASSUME NEW c \in Client, IsFiniteSet(ins[c]), insLoose \in [Client -> Nat]
    PROVE Cardinality(ins[c]) \in Nat /\ Inserted(c) \in Nat
BY FS_CardinalityType DEF Inserted

LEMMA StatsInit == Init => StatsInv
<1> SUFFICES ASSUME Init PROVE StatsInv OBVIOUS
<1>1. CountTypes BY BoundAssumption DEF Init, CountTypes
<1>2. IsFiniteSet({}) /\ Cardinality({}) = 0 BY FS_EmptySet
<1>3. Counts BY <1>2 DEF Init, Counts
<1>4. IsFiniteSet(BulkKey \cup {NoBulk}) BY FiniteAssumption, FS_AddElement
<1>5. StatsMatchEvents BY <1>2, <1>4, TotalOfZeros DEF Init, StatsMatchEvents
<1> QED BY <1>1, <1>3, <1>5 DEF StatsInv

\* A step that commits nothing keeps the statistics; it has to keep the open
\* transactions' counts.
LEMMA OpenStep ==
    ASSUME Written, StatsInv, [Next]_vars, \A c \in Client : ~Finish(c) PROVE StatsInv'
<1> USE DEF Written, KeyInv, KeyTypes, FlagTypes, PC, StatsInv, CountTypes, Counts
<1>0. /\ dbVars' = dbVars
      /\ StatsMatchEvents' /\ IsFiniteSet(events')
      /\ loose' \in [BulkKey \cup {NoBulk} -> Nat]
      /\ looseOut' \in [BulkKey \cup {NoBulk} -> Nat] /\ stats' \in Nat
  BY DEF Next, Step, Submit, FindBulk, InsertUsageEvents, ApplyAcceptedUsage,
     SaveBulkUsageIngestion, TxRetry, Abort, vars, dbVars, StatsMatchEvents
<1>1. ASSUME NEW c \in Client, NEW r \in Request, Submit(c, r) PROVE StatsInv'
  <2>1. CountTypes' BY <1>0, <1>1, BoundAssumption DEF Submit, txVars
  <2>2. Counts' BY <1>0, <1>1 DEF Submit, First, Goto, txVars, Inserted
  <2> QED BY <1>0, <2>1, <2>2
<1>2. ASSUME NEW c \in Client, FindBulk(c) PROVE StatsInv'
  <2>1. CountTypes' BY <1>0, <1>2 DEF FindBulk
  <2>2. ins[c] = {} /\ insLoose[c] = 0 BY <1>2 DEF FindBulk, Inserts
  <2>3. Inserted(c) = 0 BY <2>2, FS_EmptySet DEF Inserted
  <2>4. Counts' BY <1>0, <1>2, <2>3 DEF FindBulk, Goto, Inserted
  <2> QED BY <1>0, <2>1, <2>4
<1>3. ASSUME NEW c \in Client, InsertUsageEvents(c) PROVE StatsInv'
  <2>1. CountTypes' BY <1>0, <1>3 DEF InsertUsageEvents
  <2>2. IsFiniteSet(req[c].keys \ events)
    <3>1. IsFiniteSet(req[c].keys) BY FiniteAssumption
    <3> QED BY <3>1, FS_Subset
  <2>3. Counts' BY <1>0, <1>3, <2>2 DEF InsertUsageEvents, Goto, Inserted
  <2> QED BY <1>0, <2>1, <2>3
<1>4. ASSUME NEW c \in Client, ApplyAcceptedUsage(c) PROVE StatsInv'
  <2>1. CountTypes' BY <1>0, <1>4 DEF ApplyAcceptedUsage
  <2>2. Counts' BY <1>0, <1>4 DEF ApplyAcceptedUsage, Goto, Inserted
  <2> QED BY <1>0, <2>1, <2>2
<1>5. ASSUME NEW c \in Client, SaveBulkUsageIngestion(c) PROVE StatsInv'
  <2>1. CountTypes' BY <1>0, <1>5 DEF SaveBulkUsageIngestion
  <2>2. Counts' BY <1>0, <1>5 DEF SaveBulkUsageIngestion, Goto, Inserted
  <2> QED BY <1>0, <2>1, <2>2
<1>6. ASSUME NEW c \in Client, TxRetry(c) \/ Abort(c) PROVE StatsInv'
  <2>1. CloseTransaction(c) /\ sent' = sent BY <1>6 DEF TxRetry, Abort
  <2>2. CountTypes' BY <1>0, <2>1 DEF CloseTransaction
  <2>3. \E p \in {"idle", "find", "insert"} : pc' = [pc EXCEPT ![c] = p]
    BY <1>6 DEF TxRetry, Abort, First, Goto
  <2>4. Counts' BY <1>0, <2>1, <2>3, FS_EmptySet DEF CloseTransaction, Inserted
  <2> QED BY <1>0, <2>2, <2>4
<1>7. ASSUME UNCHANGED vars PROVE StatsInv'
  <2>1. CountTypes' BY <1>0, <1>7 DEF vars, txVars
  <2>2. Counts' BY <1>0, <1>7 DEF vars, txVars, Inserted
  <2> QED BY <1>0, <2>1, <2>2
<1> QED BY <1>1, <1>2, <1>3, <1>4, <1>5, <1>6, <1>7 DEF Next, Step

\* A commit adds the transaction's new keys, its events without a key and its
\* increment, which are the same number: the keys were not there, and a transaction
\* without the statistics row has inserted nothing.
LEMMA CommitStep ==
    ASSUME Written, StatsInv, NEW c \in Client, Finish(c) PROVE StatsInv'
<1> DEFINE b == req[c].bulk
           B == BulkKey \cup {NoBulk}
<1> USE DEF Written, KeyInv, KeyTypes, FlagTypes, StatsInv, CountTypes, Counts
<1>1. b \in B BY RequestTypes
<1>2. IsFiniteSet(B) BY FiniteAssumption, FS_AddElement
<1>3. insLoose[c] \in Nat /\ Cardinality(ins[c]) \in Nat /\ Inserted(c) \in Nat
  BY InsertedType
<1>4. Increment(c) = Inserted(c) /\ Inserted(c) = Cardinality(ins[c]) + insLoose[c]
  BY <1>3 DEF Finish, Increment, Inserted
<1>5. /\ pc' = [pc EXCEPT ![c] = "idle"] /\ CloseTransaction(c) /\ sent' = sent
      /\ events' = events \cup ins[c] /\ stats' = stats + Increment(c)
      /\ loose' = [loose EXCEPT ![b] = @ + insLoose[c]]
      /\ looseOut' = IF Enqueues(c) THEN [looseOut EXCEPT ![b] = @ + insLoose[c]] ELSE looseOut
  BY DEF Finish, Goto
<1> HIDE DEF b
<1>6. CountTypes'
  <2>1. loose' \in [B -> Nat] /\ looseOut' \in [B -> Nat] BY <1>1, <1>3, <1>5
  <2>2. stats' \in Nat BY <1>3, <1>4, <1>5
  <2>3. counting' \in [Client -> BOOLEAN] BY <1>5 DEF CloseTransaction
  <2> QED BY <1>5, <2>1, <2>2, <2>3
<1>7. IsFiniteSet(events') /\ Cardinality(events') = Cardinality(events) + Cardinality(ins[c])
  <2>1. ins[c] \cap events = {} BY DEF Inserts
  <2>2. Cardinality(events \cap ins[c]) = 0 BY <2>1, FS_EmptySet
  <2>3. Cardinality(events) \in Nat BY FS_CardinalityType
  <2>4. /\ IsFiniteSet(events \cup ins[c])
        /\ Cardinality(events \cup ins[c])
             = Cardinality(events) + Cardinality(ins[c]) - Cardinality(events \cap ins[c])
    <3>1. IsFiniteSet(events) /\ IsFiniteSet(ins[c]) OBVIOUS
    <3> HIDE DEF Written, StatsInv
    <3> QED BY <3>1, FS_Union, Zenon
  <2> QED BY <1>3, <1>5, <2>2, <2>3, <2>4
<1>8. Counts' BY <1>5, <1>7, FS_EmptySet DEF CloseTransaction, Inserted
<1>9. StatsMatchEvents'
  <2>1. \A x \in B \ {b} : loose'[x] = loose[x] BY <1>5
  <2>2. loose'[b] = loose[b] + insLoose[c] /\ loose[b] \in Nat BY <1>1, <1>5
  <2>3. Total(loose) \in Nat /\ Total(loose') \in Nat
        /\ Total(loose') = Total(loose) - loose[b] + loose'[b]
    <3>1. loose \in [B -> Nat] /\ loose' \in [B -> Nat] BY <1>6
    <3> HIDE DEF Written, StatsInv, B
    <3> QED BY <1>1, <1>2, <2>1, <3>1, TotalChanges
  <2>4. Cardinality(events) \in Nat BY FS_CardinalityType
  <2> QED BY <1>3, <1>4, <1>5, <1>7, <2>2, <2>3, <2>4 DEF StatsMatchEvents
<1> QED BY <1>6, <1>8, <1>9

LEMMA StatsInvariant == Spec => [](Written /\ StatsInv)
<1>1. ASSUME Written, StatsInv, [Next]_vars PROVE StatsInv'
  BY <1>1, OpenStep, CommitStep
<1>2. (KeyInv /\ FlagTypes /\ Flags) <=> Written BY DEF Written
<1> QED BY <1>1, <1>2, FlagInvariant, StatsInit, PTL DEF Spec

\* The workspace statistics count every committed event once, with a key or without,
\* whatever was retried, rolled back, skipped as a duplicate or replayed.
THEOREM StatsAreTheCount == Spec => []StatsMatchEvents
<1>1. StatsInv => StatsMatchEvents BY DEF StatsInv
<1> QED BY <1>1, StatsInvariant, PTL

\* Every variable keeps its type: no request is counted below zero or answered with
\* anything but a response.
THEOREM IngestionTypeOK == Spec => []TypeOK
<1>1. ASSUME Written, StatsInv, AnswersStored PROVE TypeOK
  BY <1>1 DEF Written, KeyInv, KeyTypes, FlagTypes, StatsInv, CountTypes, AnswersStored, TypeOK
<1> QED BY <1>1, StatsInvariant, AnswersInvariant, PTL
=============================================================================
