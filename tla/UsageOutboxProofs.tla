------------------------- MODULE UsageOutboxProofs -------------------------
(* Proofs about UsageOutbox, for every set of events and workers and every *)
(* number of attempts.                                                     *)
EXTENDS UsageOutbox, TLAPS

(***************************************************************************)
(* Types.                                                                  *)
(***************************************************************************)

\* Every step keeps the type of the rows and of the workers.
LEMMA TypeStep == TypeOK /\ [Next]_vars => TypeOK'
<1> SUFFICES ASSUME TypeOK, [Next]_vars PROVE TypeOK'
    OBVIOUS
<1> USE DEF TypeOK, Status, PC, Queue
<1>1. CASE UNCHANGED vars
    BY <1>1 DEF vars, rowVars, workerVars
<1>2. ASSUME NEW w \in Worker, NEW e \in Event, ClaimOutbox(w, e) PROVE TypeOK'
    BY <1>2, MaxAttemptsAssumption DEF ClaimOutbox, Claimable
<1>3. ASSUME NEW w \in Worker, EnqueueAlerts(w) PROVE TypeOK'
    BY <1>3 DEF EnqueueAlerts, Goto, rowVars
<1>4. ASSUME NEW w \in Worker, EnqueueEntitlements(w) PROVE TypeOK'
    BY <1>4 DEF EnqueueEntitlements, Goto, rowVars
<1>5. ASSUME NEW w \in Worker, CompleteOutbox(w) PROVE TypeOK'
    BY <1>5 DEF CompleteOutbox, Goto
<1>6. ASSUME NEW w \in Worker, FailOutbox(w) PROVE TypeOK'
  <2>1. CASE Holds(w)
    <3>1. status' \in [Event -> Status] /\ token' \in [Event -> Nat]
        BY <1>6, <2>1 DEF FailOutbox
    <3>2. due' \in [Event -> BOOLEAN] /\ leased' \in [Event -> BOOLEAN]
        BY <1>6, <2>1 DEF FailOutbox
    <3> QED
        BY <1>6, <3>1, <3>2 DEF FailOutbox, Goto
  <2>2. CASE ~Holds(w)
    BY <1>6, <2>2 DEF FailOutbox, Goto
  <2> QED
    BY <2>1, <2>2
<1>7. ASSUME NEW w \in Worker, Abandon(w) PROVE TypeOK'
    BY <1>7 DEF Abandon, Goto, rowVars
<1>8. ASSUME NEW e \in Event, EnqueueOutbox(e) PROVE TypeOK'
    BY <1>8 DEF EnqueueOutbox, workerVars
<1>9. ASSUME NEW e \in Event, LeaseExpires(e) PROVE TypeOK'
    BY <1>9 DEF LeaseExpires, workerVars
<1>10. ASSUME NEW e \in Event, BecomesDue(e) PROVE TypeOK'
    BY <1>10 DEF BecomesDue, workerVars
<1> QED
    BY <1>1, <1>2, <1>3, <1>4, <1>5, <1>6, <1>7, <1>8, <1>9, <1>10 DEF Next, ProcessOnce

\* Rows, tokens and workers keep their types in every reachable state.
THEOREM TypeCorrect == Spec => []TypeOK
<1>1. Init => TypeOK
  <2> SUFFICES ASSUME Init PROVE TypeOK
    OBVIOUS
  <2>1. (CHOOSE e \in Event : TRUE) \in Event
    BY EventAssumption
  <2>2. job \in [Worker -> Event]
    <3> DEFINE first == CHOOSE e \in Event : TRUE
    <3>1. first \in Event /\ job = [w \in Worker |-> first]
        BY <2>1 DEF Init
    <3> HIDE DEF first
    <3> QED
        BY <3>1
  <2>3. leased \in [Event -> BOOLEAN] /\ due \in [Event -> BOOLEAN] /\ fanned \in [Event -> SUBSET Queue]
    BY DEF Init
  <2>4. attempts \in [Event -> 0..MaxAttempts] /\ token \in [Event -> Nat]
        /\ issued \in Nat /\ claim \in [Worker -> Nat]
    BY MaxAttemptsAssumption DEF Init
  <2>5. status \in [Event -> Status] /\ pc \in [Worker -> PC]
    BY DEF Init, Status, PC
  <2> QED
    BY <2>2, <2>3, <2>4, <2>5 DEF TypeOK
<1> QED
    BY <1>1, TypeStep, PTL DEF Spec

(***************************************************************************)
(* Dead letters.                                                           *)
(***************************************************************************)

\* Only FailOutbox makes a dead letter, on the last attempt, and no claim takes one.
LEMMA DeadLetterStep == TypeOK /\ DeadLetterExhausted /\ [Next]_vars => DeadLetterExhausted'
<1> SUFFICES ASSUME TypeOK, DeadLetterExhausted, [Next]_vars PROVE DeadLetterExhausted'
    OBVIOUS
<1> USE DEF TypeOK, DeadLetterExhausted
<1>1. CASE UNCHANGED vars
    BY <1>1 DEF vars, rowVars
<1>2. ASSUME NEW w \in Worker, NEW e \in Event, ClaimOutbox(w, e) PROVE DeadLetterExhausted'
    BY <1>2 DEF ClaimOutbox, Claimable
<1>3. ASSUME NEW w \in Worker, EnqueueAlerts(w) \/ EnqueueEntitlements(w) \/ Abandon(w)
      PROVE DeadLetterExhausted'
    BY <1>3 DEF EnqueueAlerts, EnqueueEntitlements, Abandon, rowVars
<1>4. ASSUME NEW w \in Worker, CompleteOutbox(w) PROVE DeadLetterExhausted'
    BY <1>4 DEF CompleteOutbox
<1>5. ASSUME NEW w \in Worker, FailOutbox(w) PROVE DeadLetterExhausted'
  <2>1. CASE Holds(w)
    BY <1>5, <2>1, MaxAttemptsAssumption DEF FailOutbox
  <2>2. CASE ~Holds(w)
    BY <1>5, <2>2 DEF FailOutbox
  <2> QED
    BY <2>1, <2>2
<1>6. ASSUME NEW e \in Event, EnqueueOutbox(e) \/ LeaseExpires(e) \/ BecomesDue(e)
      PROVE DeadLetterExhausted'
    BY <1>6 DEF EnqueueOutbox, LeaseExpires, BecomesDue
<1> QED
    BY <1>1, <1>2, <1>3, <1>4, <1>5, <1>6 DEF Next, ProcessOnce

\* No usage event is given up before its attempts are used up.
THEOREM DeadLettersExhausted == Spec => []DeadLetterExhausted
<1>1. Init => DeadLetterExhausted
    BY DEF Init, DeadLetterExhausted
<1> QED
    BY <1>1, TypeCorrect, DeadLetterStep, PTL DEF Spec

(***************************************************************************)
(* Claims: tokens are fresh, so a stale worker never passes for the holder. *)
(***************************************************************************)

LEMMA ClaimStep == TypeOK /\ ClaimInv /\ [Next]_vars => ClaimInv'
<1> SUFFICES ASSUME TypeOK, ClaimInv, [Next]_vars PROVE ClaimInv'
    OBVIOUS
<1> USE DEF TypeOK, ClaimInv
<1>1. CASE UNCHANGED <<issued, workerVars>>
    BY <1>1 DEF workerVars
<1>2. ASSUME NEW w \in Worker, NEW e \in Event, ClaimOutbox(w, e) PROVE ClaimInv'
    BY <1>2 DEF ClaimOutbox
<1>3. ASSUME NEW w \in Worker, NEW next, Goto(w, next), pc[w] # "idle", issued' = issued
      PROVE ClaimInv'
    BY <1>3 DEF Goto
<1> QED
    BY <1>1, <1>2, <1>3 DEF Next, ProcessOnce, EnqueueAlerts, EnqueueEntitlements,
       CompleteOutbox, FailOutbox, Abandon, EnqueueOutbox, LeaseExpires, BecomesDue, vars

\* Claim tokens are unique among the attempts in progress.
THEOREM ClaimsUnique == Spec => []ClaimInv
<1>1. Init => ClaimInv
    BY DEF Init, ClaimInv
<1> QED
    BY <1>1, TypeCorrect, ClaimStep, PTL DEF Spec

\* The action inside LeaseProtects.
LeaseKept ==
    \A w \in Worker : pc[w] # "idle" /\ Holds(w) /\ leased[job[w]] =>
        Holds(w)' \/ pc'[w] = "idle"

LEMMA LeaseStep == TypeOK /\ ClaimInv /\ [Next]_vars => [LeaseKept]_vars
<1> SUFFICES ASSUME TypeOK, ClaimInv, Next,
                    NEW w \in Worker, pc[w] # "idle", Holds(w), leased[job[w]], pc'[w] # "idle"
             PROVE  Holds(w)'
    BY DEF LeaseKept
<1> USE DEF TypeOK, Holds
<1>1. ASSUME NEW v \in Worker, NEW e \in Event, ClaimOutbox(v, e) PROVE Holds(w)'
    BY <1>1 DEF ClaimOutbox, Claimable
<1>2. ASSUME NEW v \in Worker, EnqueueAlerts(v) \/ EnqueueEntitlements(v) \/ Abandon(v)
      PROVE Holds(w)'
    BY <1>2 DEF EnqueueAlerts, EnqueueEntitlements, Abandon, Goto, rowVars
<1>3. ASSUME NEW v \in Worker, CompleteOutbox(v) PROVE Holds(w)'
  <2>1. v # w
    BY <1>3 DEF CompleteOutbox, Goto
  <2>2. claim[v] # claim[w]
    BY <1>3, <2>1 DEF ClaimInv, CompleteOutbox
  <2> QED
    BY <1>3, <2>2 DEF CompleteOutbox, Goto
<1>4. ASSUME NEW v \in Worker, FailOutbox(v) PROVE Holds(w)'
  <2>1. v # w
    BY <1>4 DEF FailOutbox, Goto
  <2>2. claim[v] # claim[w]
    BY <1>4, <2>1 DEF ClaimInv, FailOutbox
  <2> QED
    BY <1>4, <2>2 DEF FailOutbox, Goto
<1>5. ASSUME NEW e \in Event, EnqueueOutbox(e) \/ LeaseExpires(e) \/ BecomesDue(e)
      PROVE Holds(w)'
    BY <1>5 DEF EnqueueOutbox, LeaseExpires, BecomesDue, workerVars
<1> QED
    BY <1>1, <1>2, <1>3, <1>4, <1>5 DEF Next, ProcessOnce

\* Under a live lease nobody but the holder ends the attempt.
THEOREM LeaseIsProtected == Spec => LeaseProtects
<1>1. Spec => [][LeaseKept]_vars
    BY TypeCorrect, ClaimsUnique, LeaseStep, PTL DEF Spec
<1> QED
    BY <1>1 DEF LeaseKept, LeaseProtects

(***************************************************************************)
(* The outbox implements Fanout.                                           *)
(***************************************************************************)

LEMMA FanStep == TypeOK /\ FanInv /\ [Next]_vars => FanInv'
<1> SUFFICES ASSUME TypeOK, FanInv, [Next]_vars PROVE FanInv'
    OBVIOUS
<1> USE DEF TypeOK, FanInv, Queue
<1>1. CASE UNCHANGED vars
    BY <1>1 DEF vars, rowVars, workerVars
<1>2. ASSUME NEW w \in Worker, NEW e \in Event, ClaimOutbox(w, e) PROVE FanInv'
    BY <1>2 DEF ClaimOutbox, Claimable
<1>3. ASSUME NEW w \in Worker, EnqueueAlerts(w) PROVE FanInv'
    BY <1>3 DEF EnqueueAlerts, Goto, rowVars
<1>4. ASSUME NEW w \in Worker, EnqueueEntitlements(w) PROVE FanInv'
    BY <1>4 DEF EnqueueEntitlements, Goto, rowVars
<1>5. ASSUME NEW w \in Worker, CompleteOutbox(w) PROVE FanInv'
    BY <1>5 DEF CompleteOutbox, Goto
<1>6. ASSUME NEW w \in Worker, FailOutbox(w) PROVE FanInv'
    BY <1>6 DEF FailOutbox, Goto
<1>7. ASSUME NEW w \in Worker, Abandon(w) PROVE FanInv'
    BY <1>7 DEF Abandon, Goto, rowVars
<1>8. ASSUME NEW e \in Event, EnqueueOutbox(e) \/ LeaseExpires(e) \/ BecomesDue(e)
      PROVE FanInv'
    BY <1>8 DEF EnqueueOutbox, LeaseExpires, BecomesDue, workerVars
<1> QED
    BY <1>1, <1>2, <1>3, <1>4, <1>5, <1>6, <1>7, <1>8 DEF Next, ProcessOnce

\* What a worker has done is what its place says, on an accepted event.
THEOREM FanInvariant == Spec => []FanInv
<1>1. Init => FanInv
    BY DEF Init, FanInv
<1> QED
    BY <1>1, TypeCorrect, FanStep, PTL DEF Spec

\* A row that changes its status changes what the promise says of that event only.
LEMMA OwedMoves ==
    ASSUME TypeOK, NEW e \in Event, NEW to \in Status,
           status' = [status EXCEPT ![e] = to], fanned' = fanned
    PROVE  /\ [x \in Event |-> Owed(status'[x])] =
                [[x \in Event |-> Owed(status[x])] EXCEPT ![e] = Owed(to)]
           /\ [x \in Event |-> Owed(status[x])][e] = Owed(status[e])
BY DEF TypeOK

\* Every step of the outbox is a step of Fanout, or changes nothing there.
LEMMA PromiseStep ==
    TypeOK /\ FanInv /\ [Next]_vars => [Promise!Next]_<<[e \in Event |-> Owed(status[e])], fanned>>
<1> SUFFICES ASSUME TypeOK, FanInv, [Next]_vars
             PROVE  Promise!Next \/ UNCHANGED <<[e \in Event |-> Owed(status[e])], fanned>>
    OBVIOUS
<1> USE DEF TypeOK
<1>1. CASE UNCHANGED <<status, fanned>>
    BY <1>1
<1>2. ASSUME NEW w \in Worker, NEW e \in Event, ClaimOutbox(w, e)
      PROVE UNCHANGED <<[x \in Event |-> Owed(status[x])], fanned>>
  <2>1. status[e] \in {"pending", "running"} /\ fanned' = fanned
        /\ status' = [status EXCEPT ![e] = "running"]
    BY <1>2 DEF ClaimOutbox, Claimable
  <2>2. \A x \in Event : Owed(status'[x]) = Owed(status[x])
    BY <2>1 DEF Owed
  <2> QED
    BY <2>1, <2>2
<1>3. ASSUME NEW w \in Worker, NEW q \in Queue, pc[w] # "idle", status' = status,
             fanned' = [fanned EXCEPT ![job[w]] = @ \cup {q}]
      PROVE Promise!Next
  <2>1. job[w] \in Event /\ status[job[w]] \in Status \ {"none"}
    BY <1>3 DEF FanInv
  <2>2. [x \in Event |-> Owed(status[x])][job[w]] # "none"
    BY <2>1 DEF Owed, Status
  <2> QED
    BY <1>3, <2>1, <2>2 DEF Promise!Next, Promise!Receive
<1>4. ASSUME NEW w \in Worker, CompleteOutbox(w), Holds(w) PROVE Promise!Next
  <2>1. job[w] \in Event /\ fanned' = fanned /\ fanned[job[w]] = Queue
        /\ status[job[w]] = "running" /\ status' = [status EXCEPT ![job[w]] = "gone"]
    BY <1>4 DEF CompleteOutbox, Holds, FanInv
  <2>2. Owed(status[job[w]]) = "owed" /\ Owed("gone") = "settled" /\ "gone" \in Status
    BY <2>1 DEF Owed, Status
  <2>3. Promise!Settle(job[w])
    BY <2>1, <2>2, OwedMoves DEF Promise!Settle, Promise!Move
  <2> QED
    BY <2>1, <2>3 DEF Promise!Next
<1>5. ASSUME NEW w \in Worker, FailOutbox(w), Holds(w)
      PROVE Promise!Next \/ UNCHANGED <<[x \in Event |-> Owed(status[x])], fanned>>
  <2> DEFINE e == job[w]
  <2>1. e \in Event /\ fanned' = fanned /\ status[e] = "running"
        /\ \/ status' = [status EXCEPT ![e] = "dead_letter"]
           \/ status' = [status EXCEPT ![e] = "pending"]
    BY <1>5 DEF FailOutbox, Holds
  <2>2. CASE status' = [status EXCEPT ![e] = "dead_letter"]
    <3>1. Owed(status[e]) = "owed" /\ Owed("dead_letter") = "dead" /\ "dead_letter" \in Status
        BY <2>1 DEF Owed, Status
    <3>2. Promise!GiveUp(e)
        BY <2>1, <2>2, <3>1, OwedMoves DEF Promise!GiveUp, Promise!Move
    <3> QED
        BY <2>1, <3>2 DEF Promise!Next
  <2>3. CASE status' = [status EXCEPT ![e] = "pending"]
    <3>1. \A x \in Event : Owed(status'[x]) = Owed(status[x])
        BY <2>1, <2>3 DEF Owed
    <3> QED
        BY <2>1, <3>1
  <2> QED
    BY <2>1, <2>2, <2>3
<1>6. ASSUME NEW e \in Event, EnqueueOutbox(e) PROVE Promise!Next
  <2>1. status[e] = "none" /\ status' = [status EXCEPT ![e] = "pending"] /\ fanned' = fanned
    BY <1>6 DEF EnqueueOutbox
  <2>2. Owed(status[e]) = "none" /\ Owed("pending") = "owed" /\ "pending" \in Status
    BY <2>1 DEF Owed, Status
  <2>3. Promise!Accept(e)
    BY <2>1, <2>2, OwedMoves DEF Promise!Accept, Promise!Move
  <2> QED
    BY <2>3 DEF Promise!Next
<1>7. ASSUME NEW w \in Worker, EnqueueAlerts(w) \/ EnqueueEntitlements(w)
      PROVE Promise!Next \/ UNCHANGED <<[x \in Event |-> Owed(status[x])], fanned>>
    BY <1>7, <1>1, <1>3 DEF EnqueueAlerts, EnqueueEntitlements, rowVars, Queue
<1>8. ASSUME NEW w \in Worker, ((CompleteOutbox(w) \/ FailOutbox(w)) /\ ~Holds(w)) \/ Abandon(w)
      PROVE UNCHANGED <<status, fanned>>
    BY <1>8 DEF CompleteOutbox, FailOutbox, Abandon, rowVars
<1>9. ASSUME NEW e \in Event, LeaseExpires(e) \/ BecomesDue(e) PROVE UNCHANGED <<status, fanned>>
    BY <1>9 DEF LeaseExpires, BecomesDue
<1>10. CASE UNCHANGED vars
    BY <1>1, <1>10 DEF vars, rowVars
<1> QED
    BY <1>1, <1>2, <1>4, <1>5, <1>6, <1>7, <1>8, <1>9, <1>10 DEF Next, ProcessOnce

\* The outbox implements its promise: an event leaves the outbox only after both
\* queues received it, or as a dead letter.
THEOREM OutboxImplementsFanout == Spec => FanoutPromise
<1>1. Init => Promise!Init
    BY DEF Init, Promise!Init, Owed
<1>2. Spec => [][Promise!Next]_<<[e \in Event |-> Owed(status[e])], fanned>>
    BY TypeCorrect, FanInvariant, PromiseStep, PTL DEF Spec
<1> QED
    BY <1>1, <1>2, PTL DEF Spec, FanoutPromise, Promise!Spec
============================================================================
