------------------------- MODULE ConsumptionProofs -------------------------
(***************************************************************************)
(* Proofs about Consumption, for any number of requests, keys, plan        *)
(* versions, assignment rows and failures.                                 *)
(***************************************************************************)
EXTENDS Consumption, SumsProofs

\* The placeholder of an idle handler is a well-typed request.
LEMMA NoRequestType == NoRequest \in [key : Key, qty : Quantity, at : Row]
<1>1. (CHOOSE k \in Key : TRUE) \in Key
  BY KeyAssumption
<1>2. (CHOOSE q \in Quantity : TRUE) \in Quantity
  BY QuantityAssumption
<1>3. 1 \in Row
  BY BoundAssumption DEF Row
<1> QED
  BY <1>1, <1>2, <1>3 DEF NoRequest

LEMMA InitType == Init => TypeOK
<1> SUFFICES ASSUME Init PROVE TypeOK
  OBVIOUS
<1>1. PICK p \in Plan \cup {NoPlan} : assigned = <<p>>
  BY DEF Init
<1>2. assigned \in Seq(Plan \cup {NoPlan}) /\ Len(assigned) \in Row
  BY <1>1, BoundAssumption DEF Row
<1>3. req \in [Client -> [key : Key, qty : Quantity, at : Row]]
  BY NoRequestType DEF Init
<1> QED
  BY <1>2, <1>3 DEF Init, TypeOK, NoEvent, Outcome, Verdict, PC

\* Ending a request keeps the types of the request's variables.
LEMMA EndRequestType ==
    ASSUME TypeOK, NEW c \in Client, EndRequest(c)
    PROVE  /\ pc' \in [Client -> PC]
           /\ req' \in [Client -> [key : Key, qty : Quantity, at : Row]]
           /\ row' \in [Client -> Row \cup {0}]
           /\ verdict' \in [Client -> Verdict]
           /\ accept' \in [Client -> BOOLEAN]
           /\ wrote' \in [Client -> BOOLEAN]
           /\ counted' \in [Client -> BOOLEAN]
BY NoRequestType DEF TypeOK, EndRequest, PC, Verdict

LEMMA ReleaseRowType ==
    ASSUME TypeOK, NEW c \in Client, ReleaseRow(c)
    PROVE  rowLock' \in [Row -> Client \cup {"free", "admin"}]
BY DEF TypeOK, ReleaseRow

LEMMA AnswerType ==
    ASSUME TypeOK, NEW k \in Key, NEW o \in Outcome, Answer(k, o)
    PROVE  answers' \in [Key -> SUBSET Outcome]
BY DEF TypeOK, Answer

LEMMA CommitType ==
    ASSUME TypeOK, NEW c \in Client, Commit(c)
    PROVE  /\ events' \in [Key -> [qty : Nat, via : Verdict \cup {"ingest"},
                                   at : Row \cup {0}, counted : BOOLEAN]]
           /\ counter' \in Nat
           /\ granted' \in [Row -> Nat]
           /\ pruned' \subseteq Key
<1> USE DEF TypeOK, Commit
<1>1. req[c].key \in Key /\ req[c].qty \in Nat /\ req[c].at \in Row
  BY QuantityAssumption
<1>2. [qty |-> req[c].qty, via |-> verdict[c], at |-> req[c].at, counted |-> counted[c]]
        \in [qty : Nat, via : Verdict \cup {"ingest"}, at : Row \cup {0}, counted : BOOLEAN]
  BY <1>1
<1>3. events' \in [Key -> [qty : Nat, via : Verdict \cup {"ingest"},
                           at : Row \cup {0}, counted : BOOLEAN]]
  BY <1>1, <1>2
<1>4. counter' \in Nat
  BY <1>1
<1>5. granted' \in [Row -> Nat]
  <2>1. CASE row[c] \in Row /\ wrote[c] /\ verdict[c] = "allowed"
    BY <1>1, <2>1
  <2>2. CASE row[c] \notin Row /\ wrote[c] /\ verdict[c] = "allowed"
    BY <2>2
  <2>3. CASE ~(wrote[c] /\ verdict[c] = "allowed")
    BY <2>3
  <2> QED
    BY <2>1, <2>2, <2>3
<1>6. pruned' \subseteq Key
  OBVIOUS
<1> QED
  BY <1>3, <1>4, <1>5, <1>6

LEMMA StartType ==
    ASSUME TypeOK, NEW c \in Client, NEW k \in Key, NEW q \in Quantity, NEW t \in Row,
           Start(c, k, q, t)
    PROVE  TypeOK'
<1>1. CASE decisions[k] # "none"
  <2>1. answers' \in [Key -> SUBSET Outcome]
    BY <1>1, AnswerType DEF TypeOK, Start
  <2> QED
    BY <1>1, <2>1 DEF TypeOK, Start, dbVars
<1>2. CASE decisions[k] = "none"
  <2>0. [key |-> k, qty |-> q, at |-> t] \in [key : Key, qty : Quantity, at : Row]
    OBVIOUS
  <2>1. /\ pc' \in [Client -> PC]
        /\ req' \in [Client -> [key : Key, qty : Quantity, at : Row]]
    BY <1>2, <2>0 DEF TypeOK, Start, PC
  <2> QED
    BY <1>2, <2>1 DEF TypeOK, Start, dbVars
<1> QED
  BY <1>1, <1>2

LEMMA RestartType ==
    ASSUME TypeOK, NEW c \in Client, NEW next \in PC, NEW outcome \in Verdict,
           Restart(c, next, outcome), faults' \in Nat
    PROVE  TypeOK'
BY ReleaseRowType DEF TypeOK, Restart, pruneVars

\* A fault of a request keeps the types.
LEMMA FaultType ==
    ASSUME TypeOK, NEW c \in Client, Fault(c)
    PROVE  TypeOK'
<1>1. CASE Abort(c)
  BY <1>1, EndRequestType, ReleaseRowType DEF TypeOK, Abort, pruneVars
<1>2. CASE TxRetry(c)
  <2>1. faults' \in Nat
    BY <1>2 DEF TxRetry, TypeOK
  <2>2. {"openfind", "lock"} \subseteq PC /\ {"failed", "none"} \subseteq Verdict
    BY DEF PC, Verdict
  <2> QED
    BY <1>2, <2>1, <2>2, RestartType DEF TxRetry
<1>3. CASE FailBeforeLimit(c)
  <2>1. faults' \in Nat
    BY <1>3 DEF FailBeforeLimit, TypeOK
  <2>2. "openfind" \in PC /\ "failed" \in Verdict
    BY DEF PC, Verdict
  <2> QED
    BY <1>3, <2>1, <2>2, RestartType DEF FailBeforeLimit
<1>4. CASE FailAfterLimit(c)
  <2>1. faults' \in Nat
    BY <1>4 DEF FailAfterLimit, TypeOK
  <2>2. {"openfind", "persist"} \subseteq PC /\ "failed" \in Verdict
    BY DEF PC, Verdict
  <2>3. CASE Restart(c, "openfind", "failed")
    BY <2>1, <2>2, <2>3, RestartType
  <2>4. CASE ~Restart(c, "openfind", "failed")
    BY <1>4, <2>1, <2>2, <2>4 DEF FailAfterLimit, TypeOK, dbVars
  <2> QED
    BY <2>3, <2>4
<1> QED
  BY <1>1, <1>2, <1>3, <1>4 DEF Fault

\* A statement of a request keeps the types.
LEMMA StepType ==
    ASSUME TypeOK, NEW c \in Client, Step(c)
    PROVE  TypeOK'
<1>0. /\ req[c].key \in Key /\ req[c].at \in Row /\ row[c] \in Row \cup {0}
      /\ EffectiveRow(req[c].at) \in Row
  BY DEF TypeOK, EffectiveRow
<1>1. CASE LockEffectiveSubjectAssignment(c)
  <2>1. /\ pc' \in [Client -> PC]
        /\ row' \in [Client -> Row \cup {0}]
        /\ verdict' \in [Client -> Verdict]
        /\ rowLock' \in [Row -> Client \cup {"free", "admin"}]
    <3>1. pc' \in [Client -> PC]
      <4>1. pc \in [Client -> PC] /\ {"find", "assess", "lockwait"} \subseteq PC
        BY DEF TypeOK, PC
      <4> QED
        BY <1>1, <4>1 DEF LockEffectiveSubjectAssignment, AssessedAdvisory
    <3>2. row' \in [Client -> Row \cup {0}]
      BY <1>0, <1>1 DEF TypeOK, LockEffectiveSubjectAssignment
    <3>3. verdict' \in [Client -> Verdict]
      BY <1>1 DEF TypeOK, LockEffectiveSubjectAssignment, AssessedAdvisory, Verdict
    <3>4. rowLock' \in [Row -> Client \cup {"free", "admin"}]
      BY <1>0, <1>1 DEF TypeOK, LockEffectiveSubjectAssignment
    <3> QED
      BY <3>1, <3>2, <3>3, <3>4
  <2> QED
    BY <1>1, <2>1 DEF TypeOK, LockEffectiveSubjectAssignment, pruneVars
<1>2. CASE LockGranted(c)
  <2>1. /\ pc' \in [Client -> PC]
        /\ row' \in [Client -> Row \cup {0}]
        /\ verdict' \in [Client -> Verdict]
        /\ rowLock' \in [Row -> Client \cup {"free", "admin"}]
    <3>1. pc' \in [Client -> PC]
      <4>1. pc \in [Client -> PC] /\ {"find", "assess", "lockwait"} \subseteq PC
        BY DEF TypeOK, PC
      <4> QED
        BY <1>2, <4>1 DEF LockGranted, AssessedAdvisory
    <3>2. row' \in [Client -> Row \cup {0}]
      BY <1>0, <1>2 DEF TypeOK, LockGranted
    <3>3. verdict' \in [Client -> Verdict]
      BY <1>2 DEF TypeOK, LockGranted, AssessedAdvisory, Verdict
    <3>4. rowLock' \in [Row -> Client \cup {"free", "admin"}]
      BY <1>0, <1>2 DEF TypeOK, LockGranted
    <3> QED
      BY <3>1, <3>2, <3>3, <3>4
  <2> QED
    BY <1>2, <2>1 DEF TypeOK, LockGranted, pruneVars
<1>3. CASE AssessConsumption(c)
  <2>1. Assessment(PlanLimit[assigned[row[c]]], counter, req[c].qty) \in Verdict
    BY DEF Assessment, Verdict
  <2> QED
    BY <1>3, <2>1 DEF TypeOK, AssessConsumption, PC, dbVars
<1>4. CASE FindDecision(c)
  <2>1. CASE decisions[req[c].key] # "none"
    <3>1. answers' \in [Key -> SUBSET Outcome]
      BY <1>0, <1>4, <2>1, AnswerType DEF TypeOK, FindDecision, pruneVars
    <3> QED
      BY <1>4, <2>1, <3>1, EndRequestType, ReleaseRowType DEF TypeOK, FindDecision, pruneVars
  <2>2. CASE decisions[req[c].key] = "none"
    BY <1>4, <2>2 DEF TypeOK, FindDecision, pruneVars, PC
  <2> QED
    BY <2>1, <2>2
<1>5. CASE LookupEvent(c)
  BY <1>5 DEF TypeOK, LookupEvent, PC, dbVars
<1>6. CASE CreateEvent(c)
  BY <1>6 DEF TypeOK, CreateEvent, PC, dbVars
<1>7. CASE Persist(c)
  <2>1. CASE decisions[req[c].key] # "none"
    BY <1>7, <2>1 DEF TypeOK, Persist, PC
  <2>2. CASE decisions[req[c].key] = "none"
    <3>0. Decided(c) \in Outcome
      BY DEF Decided, Outcome
    <3>1. Commit(c) /\ Answer(req[c].key, Decided(c))
      BY <1>7, <2>2 DEF Persist
    <3>2. answers' \in [Key -> SUBSET Outcome]
      BY <1>0, <3>0, <3>1, AnswerType
    <3>3. decisions' \in [Key -> Outcome \cup {"none"}]
      <4>1. decisions \in [Key -> Outcome \cup {"none"}]
        BY DEF TypeOK
      <4>2. decisions' = [decisions EXCEPT ![req[c].key] = Decided(c)]
        BY <1>7, <2>2 DEF Persist
      <4> QED
        BY <1>0, <3>0, <4>1, <4>2
    <3>4. EndRequest(c) /\ ReleaseRow(c)
      BY <3>1 DEF Commit
    <3> QED
      BY <1>7, <3>1, <3>2, <3>3, <3>4, CommitType, EndRequestType, ReleaseRowType
         DEF TypeOK, Persist
  <2> QED
    BY <2>1, <2>2
<1>8. CASE ReadBack(c)
  <2>1. CASE decisions[req[c].key] # "none"
    <3>1. Commit(c) /\ Answer(req[c].key, decisions[req[c].key])
      BY <1>8, <2>1 DEF ReadBack
    <3>2. answers' \in [Key -> SUBSET Outcome]
      BY <1>0, <2>1, <3>1, AnswerType DEF TypeOK
    <3>4. EndRequest(c) /\ ReleaseRow(c)
      BY <3>1 DEF Commit
    <3> QED
      BY <1>8, <3>1, <3>2, <3>4, CommitType, EndRequestType, ReleaseRowType
         DEF TypeOK, ReadBack
  <2>2. CASE decisions[req[c].key] = "none"
    BY <1>8, <2>2, EndRequestType, ReleaseRowType DEF TypeOK, ReadBack
  <2> QED
    BY <2>1, <2>2
<1> QED
  BY <1>1, <1>2, <1>3, <1>4, <1>5, <1>6, <1>7, <1>8 DEF Step

\* What the environment of a request does: every action of Next that is not a
\* step or a fault of a request or its start.
Environment ==
    \/ \E k \in Key, q \in Quantity, t \in Row : Ingest(k, q, t)
    \/ \E p \in Plan : BeginHandover(p)
    \/ EndHandover \/ AbortHandover \/ DeleteSubjectAssignment
    \/ AgeDecisions \/ PruneDecisions
    \/ \E t \in Row : PruneEvents(t)

\* An event is charged a natural number.
LEMMA ChargeType ==
    ASSUME NEW e \in [qty : Nat, via : Verdict \cup {"ingest"}, at : Row \cup {0},
                      counted : BOOLEAN]
    PROVE  Charge(e) \in Nat
BY DEF Charge

LEMMA EnvironmentType ==
    ASSUME TypeOK, Environment
    PROVE  TypeOK'
<1>0. Len(assigned) \in Row /\ Len(assigned) \in Nat
  BY DEF TypeOK
<1>1. ASSUME NEW k \in Key, NEW q \in Quantity, NEW t \in Row, Ingest(k, q, t)
      PROVE  TypeOK'
  <2>1. q \in Nat /\ (EffectivePlan(t) # NoPlan) \in BOOLEAN
    BY QuantityAssumption
  <2>2. [qty |-> q, via |-> "ingest", at |-> t, counted |-> EffectivePlan(t) # NoPlan]
          \in [qty : Nat, via : Verdict \cup {"ingest"}, at : Row \cup {0}, counted : BOOLEAN]
    BY <2>1
  <2>3. /\ events' \in [Key -> [qty : Nat, via : Verdict \cup {"ingest"},
                                at : Row \cup {0}, counted : BOOLEAN]]
        /\ counter' \in Nat
    BY <1>1, <2>1, <2>2 DEF Ingest, TypeOK
  <2> QED
    BY <1>1, <2>3 DEF Ingest, TypeOK, reqVars
<1>2. ASSUME NEW p \in Plan, BeginHandover(p)
      PROVE  TypeOK'
  BY <1>0, <1>2 DEF BeginHandover, TypeOK, reqVars, pruneVars
<1>3. CASE EndHandover
  <2>1. assigned' \in Seq(Plan \cup {NoPlan}) /\ Len(assigned') = Len(assigned) + 1
    BY <1>3 DEF EndHandover, TypeOK
  <2>2. rowLock' \in [Row -> Client \cup {"free", "admin"}]
    BY <1>0, <1>3 DEF EndHandover, TypeOK
  <2>3. Len(assigned) + 1 \in Row
    BY <1>3, BoundAssumption DEF EndHandover, TypeOK, Row
  <2> QED
    BY <1>3, <2>1, <2>2, <2>3 DEF EndHandover, TypeOK, reqVars, pruneVars
<1>4. CASE AbortHandover
  BY <1>0, <1>4 DEF AbortHandover, TypeOK, reqVars, pruneVars
<1>5. CASE DeleteSubjectAssignment
  <2>1. assigned' \in Seq(Plan \cup {NoPlan}) /\ Len(assigned') = Len(assigned) + 1
    BY <1>5 DEF DeleteSubjectAssignment, TypeOK
  <2>2. Len(assigned) + 1 \in Row
    BY <1>0, <1>5, BoundAssumption DEF DeleteSubjectAssignment, Row
  <2> QED
    BY <1>5, <2>1, <2>2 DEF DeleteSubjectAssignment, TypeOK, reqVars, pruneVars
<1>6. CASE AgeDecisions
  BY <1>6 DEF AgeDecisions, TypeOK, reqVars, pruneVars
<1>7. CASE PruneDecisions
  BY <1>7 DEF PruneDecisions, TypeOK, reqVars
<1>8. ASSUME NEW t \in Row, PruneEvents(t)
      PROVE  TypeOK'
  <2>1. PICK old \in SUBSET Key :
          /\ events' = [k \in Key |-> IF k \in old THEN NoEvent ELSE events[k]]
          /\ pruned' = pruned \cup {k \in old : Accepted(decisions[k]) \/ Found(k)}
          /\ dropped' = [k \in Key |-> IF k \in old THEN dropped[k] + Charge(events[k])
                                                 ELSE dropped[k]]
    BY <1>8 DEF PruneEvents
  <2>2. NoEvent \in [qty : Nat, via : Verdict \cup {"ingest"}, at : Row \cup {0},
                     counted : BOOLEAN]
    BY DEF NoEvent, Verdict
  <2>3. events' \in [Key -> [qty : Nat, via : Verdict \cup {"ingest"},
                             at : Row \cup {0}, counted : BOOLEAN]]
    BY <2>1, <2>2 DEF TypeOK
  <2>4. \A k \in Key : Charge(events[k]) \in Nat
    BY ChargeType DEF TypeOK
  <2>5. pruned' \subseteq Key /\ dropped' \in [Key -> Nat]
    BY <2>1, <2>4 DEF TypeOK
  <2>6. faults' \in Nat
    BY <1>8 DEF PruneEvents, TypeOK
  <2> QED
    BY <1>8, <2>3, <2>5, <2>6 DEF PruneEvents, TypeOK, reqVars
<1> QED
  BY <1>1, <1>2, <1>3, <1>4, <1>5, <1>6, <1>7, <1>8 DEF Environment

LEMMA TypeStep == TypeOK /\ [Next]_vars => TypeOK'
<1> SUFFICES ASSUME TypeOK, [Next]_vars PROVE TypeOK'
  OBVIOUS
<1>1. ASSUME NEW c \in Client, Step(c) \/ Fault(c) PROVE TypeOK'
  BY <1>1, StepType, FaultType
<1>2. ASSUME NEW c \in Client, NEW k \in Key, NEW q \in Quantity, NEW t \in Row,
             Start(c, k, q, t)
      PROVE  TypeOK'
  BY <1>2, StartType
<1>3. CASE Environment
  BY <1>3, EnvironmentType
<1>4. CASE UNCHANGED vars
  BY <1>4 DEF TypeOK, vars, dbVars, reqVars
<1> QED
  BY <1>1, <1>2, <1>3, <1>4 DEF Next, Environment

\* Type correctness: every variable keeps its type in every reachable state.
THEOREM TypeCorrect == Spec => []TypeOK
BY InitType, TypeStep, PTL DEF Spec

----------------------------------------------------------------------------
(* A request's own variables and locks change only by its own actions.     *)

Frame(d) ==
    /\ pc'[d] = pc[d] /\ req'[d] = req[d] /\ row'[d] = row[d]
    /\ verdict'[d] = verdict[d] /\ accept'[d] = accept[d]
    /\ wrote'[d] = wrote[d] /\ counted'[d] = counted[d]
    /\ \A r \in Row : rowLock'[r] = d <=> rowLock[r] = d

LEMMA EndRequestFrame ==
    ASSUME TypeOK, NEW c \in Client, NEW d \in Client, d # c,
           ReleaseRow(c), EndRequest(c)
    PROVE  Frame(d)
BY ActorAssumption DEF TypeOK, Frame, ReleaseRow, EndRequest

LEMMA RestartFrame ==
    ASSUME TypeOK, NEW c \in Client, NEW d \in Client, d # c,
           NEW next, NEW outcome, Restart(c, next, outcome)
    PROVE  Frame(d)
BY ActorAssumption DEF TypeOK, Frame, ReleaseRow, Restart

LEMMA RequestFrame ==
    ASSUME TypeOK, NEW c \in Client, NEW d \in Client, d # c, Step(c) \/ Fault(c)
    PROVE  Frame(d) /\ assigned' = assigned
<1>1. CASE LockEffectiveSubjectAssignment(c)
  BY <1>1, ActorAssumption
     DEF TypeOK, Frame, LockEffectiveSubjectAssignment, AssessedAdvisory, LockFree
<1>2. CASE LockGranted(c)
  BY <1>2, ActorAssumption DEF TypeOK, Frame, LockGranted, AssessedAdvisory, LockFree
<1>3. CASE AssessConsumption(c)
  BY <1>3 DEF TypeOK, Frame, AssessConsumption, dbVars
<1>4. CASE FindDecision(c)
  <2>1. CASE decisions[req[c].key] # "none"
    BY <1>4, <2>1, EndRequestFrame DEF FindDecision
  <2>2. CASE decisions[req[c].key] = "none"
    BY <1>4, <2>2 DEF TypeOK, Frame, FindDecision
  <2> QED
    BY <2>1, <2>2
<1>5. CASE LookupEvent(c)
  BY <1>5 DEF TypeOK, Frame, LookupEvent, dbVars
<1>6. CASE CreateEvent(c)
  BY <1>6 DEF TypeOK, Frame, CreateEvent, dbVars
<1>7. CASE Persist(c)
  <2>1. CASE decisions[req[c].key] # "none"
    BY <1>7, <2>1 DEF TypeOK, Frame, Persist
  <2>2. CASE decisions[req[c].key] = "none"
    BY <1>7, <2>2, EndRequestFrame DEF Persist, Commit
  <2> QED
    BY <2>1, <2>2
<1>8. CASE ReadBack(c)
  BY <1>8, EndRequestFrame DEF ReadBack, Commit
<1>9. CASE Abort(c)
  BY <1>9, EndRequestFrame DEF Abort
<1>10. CASE TxRetry(c)
  BY <1>10, RestartFrame DEF TxRetry, Restart
<1>11. CASE FailBeforeLimit(c)
  BY <1>11, RestartFrame DEF FailBeforeLimit, Restart
<1>12. CASE FailAfterLimit(c)
  <2>1. CASE Restart(c, "openfind", "failed")
    BY <2>1, RestartFrame DEF Restart
  <2>2. CASE ~Restart(c, "openfind", "failed")
    BY <1>12, <2>2 DEF TypeOK, Frame, FailAfterLimit, dbVars
  <2> QED
    BY <2>1, <2>2
<1> QED
  BY <1>1, <1>2, <1>3, <1>4, <1>5, <1>6, <1>7, <1>8, <1>9, <1>10, <1>11, <1>12
     DEF Step, Fault

----------------------------------------------------------------------------
(* The lock discipline.                                                    *)

LEMMA OtherLocking ==
    ASSUME TypeOK, NEW d \in Client, Locking(d), Frame(d), assigned' = assigned
    PROVE  Locking(d)'
<1>1. EffectiveRow(req[d].at)' = EffectiveRow(req[d].at)
  BY DEF EffectiveRow, Frame
<1> QED
  BY <1>1 DEF Locking, Frame, TypeOK

\* A request whose transaction has ended, or restarted, holds no lock.
LEMMA ReleasedLocking ==
    ASSUME TypeOK, TypeOK', NEW c \in Client, ReleaseRow(c),
           pc'[c] \in {"idle", "lock", "openfind"}, verdict'[c] # "allowed"
    PROVE  Locking(c)'
<1>1. \A r \in Row : rowLock'[r] # c
  BY ActorAssumption DEF ReleaseRow, TypeOK
<1> QED
  BY <1>1 DEF Locking

\* A statement that keeps row, lock and event time, and verdict unless allowed.
LEMMA KeptLocking ==
    ASSUME TypeOK, NEW c \in Client, Locking(c), assigned' = assigned,
           rowLock' = rowLock, row' = row, req' = req,
           pc'[c] \in {"find", "lookup", "create", "persist", "readback"},
           verdict'[c] = "allowed" => row[c] \in Row /\ rowLock[row[c]] = c
    PROVE  Locking(c)'
<1>1. EffectiveRow(req[c].at)' = EffectiveRow(req[c].at)
  BY DEF EffectiveRow
<1> QED
  BY <1>1 DEF Locking

LEMMA OwnLocking ==
    ASSUME TypeOK, TypeOK', NEW c \in Client, Locking(c), Step(c) \/ Fault(c)
    PROVE  Locking(c)'
<1>1. CASE LockEffectiveSubjectAssignment(c)
  <2> DEFINE r == EffectiveRow(req[c].at)
  <2>0. /\ r \in 1..Len(assigned) /\ r \in Row /\ assigned' = assigned /\ req' = req
        /\ EffectivePlan(req[c].at) = assigned[r]
        /\ pc[c] = "lock" /\ verdict[c] # "allowed" /\ \A s \in Row : rowLock[s] # c
    BY <1>1 DEF LockEffectiveSubjectAssignment, EffectiveRow, EffectivePlan, TypeOK, Row, Locking
  <2>1. EffectiveRow(req[c].at)' = r
    BY <2>0 DEF EffectiveRow
  <2>2. CASE pc'[c] = "find"
    BY <1>1, <2>0, <2>2 DEF LockEffectiveSubjectAssignment, AssessedAdvisory, Locking, TypeOK
  <2>3. CASE pc'[c] = "assess"
    <3>1. /\ assigned[r] # NoPlan /\ rowLock' = [rowLock EXCEPT ![r] = c]
          /\ row' = [row EXCEPT ![c] = r] /\ verdict' = verdict
      BY <1>1, <2>0, <2>3 DEF LockEffectiveSubjectAssignment, AssessedAdvisory, TypeOK
    <3> QED
      BY <2>0, <2>1, <2>3, <3>1 DEF Locking, TypeOK
  <2>4. CASE pc'[c] = "lockwait"
    <3>1. /\ assigned[r] # NoPlan /\ rowLock' = rowLock
          /\ row' = [row EXCEPT ![c] = r] /\ verdict' = verdict
      BY <1>1, <2>0, <2>4 DEF LockEffectiveSubjectAssignment, AssessedAdvisory, TypeOK
    <3> QED
      BY <2>0, <2>1, <2>4, <3>1 DEF Locking, TypeOK
  <2> QED
    BY <1>1, <2>2, <2>3, <2>4 DEF LockEffectiveSubjectAssignment, AssessedAdvisory, TypeOK
<1>2. CASE LockGranted(c)
  <2>0. /\ row[c] \in 1..Len(assigned) /\ row[c] \in Row /\ assigned[row[c]] # NoPlan
        /\ assigned' = assigned /\ req' = req
        /\ verdict[c] # "allowed" /\ \A s \in Row : rowLock[s] # c
    BY <1>2 DEF LockGranted, Locking, TypeOK
  <2>1. EffectiveRow(req[c].at)' = EffectiveRow(req[c].at)
    BY <2>0 DEF EffectiveRow
  <2>2. CASE EffectiveRow(req[c].at) = row[c]
    <3>1. /\ pc'[c] = "assess" /\ rowLock' = [rowLock EXCEPT ![row[c]] = c]
          /\ row' = row /\ verdict' = verdict
      BY <1>2, <2>2 DEF LockGranted, TypeOK
    <3> QED
      BY <2>0, <2>1, <2>2, <3>1 DEF Locking, TypeOK
  <2>3. CASE EffectiveRow(req[c].at) # row[c]
    <3>1. pc'[c] = "find" /\ rowLock' = rowLock /\ verdict'[c] # "allowed"
      BY <1>2, <2>3 DEF LockGranted, AssessedAdvisory, TypeOK
    <3> QED
      BY <2>0, <3>1 DEF Locking, TypeOK
  <2> QED
    BY <2>2, <2>3
<1>3. CASE AssessConsumption(c)
  <2>1. /\ assigned' = assigned /\ rowLock' = rowLock /\ row' = row /\ req' = req
        /\ pc'[c] \in {"find", "lookup", "create", "persist", "readback"}
    BY <1>3 DEF AssessConsumption, TypeOK, dbVars
  <2>2. verdict'[c] = "allowed" => row[c] \in Row /\ rowLock[row[c]] = c
    BY <1>3 DEF AssessConsumption, Locking, TypeOK
  <2> QED
    BY <2>1, <2>2, KeptLocking
<1>4. CASE FindDecision(c)
  <2>1. CASE decisions[req[c].key] # "none"
    <3>1. ReleaseRow(c) /\ pc'[c] = "idle" /\ verdict'[c] = "none"
      BY <1>4, <2>1 DEF FindDecision, EndRequest, TypeOK
    <3> QED
      BY <3>1, ReleasedLocking
  <2>2. CASE decisions[req[c].key] = "none"
    <3>1. /\ assigned' = assigned /\ rowLock' = rowLock /\ row' = row /\ req' = req
          /\ pc'[c] \in {"find", "lookup", "create", "persist", "readback"}
      BY <1>4, <2>2 DEF FindDecision, TypeOK
    <3>2. verdict'[c] = "allowed" => row[c] \in Row /\ rowLock[row[c]] = c
      BY <1>4, <2>2 DEF FindDecision, Locking, TypeOK
    <3> QED
      BY <3>1, <3>2, KeptLocking
  <2> QED
    BY <2>1, <2>2
<1>5. CASE LookupEvent(c)
  <2>1. /\ assigned' = assigned /\ rowLock' = rowLock /\ row' = row /\ req' = req
        /\ pc'[c] \in {"find", "lookup", "create", "persist", "readback"}
    BY <1>5 DEF LookupEvent, TypeOK, dbVars
  <2>2. verdict'[c] = "allowed" => row[c] \in Row /\ rowLock[row[c]] = c
    BY <1>5 DEF LookupEvent, Locking, TypeOK
  <2> QED
    BY <2>1, <2>2, KeptLocking
<1>6. CASE CreateEvent(c)
  <2>1. /\ assigned' = assigned /\ rowLock' = rowLock /\ row' = row /\ req' = req
        /\ pc'[c] \in {"find", "lookup", "create", "persist", "readback"}
    BY <1>6 DEF CreateEvent, TypeOK, dbVars
  <2>2. verdict'[c] = "allowed" => row[c] \in Row /\ rowLock[row[c]] = c
    BY <1>6 DEF CreateEvent, Locking, TypeOK
  <2> QED
    BY <2>1, <2>2, KeptLocking
<1>7. CASE Persist(c)
  <2>1. CASE decisions[req[c].key] # "none"
    <3>1. /\ assigned' = assigned /\ rowLock' = rowLock /\ row' = row /\ req' = req
          /\ pc'[c] \in {"find", "lookup", "create", "persist", "readback"}
      BY <1>7, <2>1 DEF Persist, TypeOK
    <3>2. verdict'[c] = "allowed" => row[c] \in Row /\ rowLock[row[c]] = c
      BY <1>7, <2>1 DEF Persist, Locking, TypeOK
    <3> QED
      BY <3>1, <3>2, KeptLocking
  <2>2. CASE decisions[req[c].key] = "none"
    <3>1. ReleaseRow(c) /\ pc'[c] = "idle" /\ verdict'[c] = "none"
      BY <1>7, <2>2 DEF Persist, Commit, EndRequest, TypeOK
    <3> QED
      BY <3>1, ReleasedLocking
  <2> QED
    BY <2>1, <2>2
<1>8. CASE ReadBack(c)
  <2>1. ReleaseRow(c) /\ pc'[c] = "idle" /\ verdict'[c] = "none"
    BY <1>8 DEF ReadBack, Commit, EndRequest, TypeOK
  <2> QED
    BY <2>1, ReleasedLocking
<1>9. CASE Abort(c)
  <2>1. ReleaseRow(c) /\ pc'[c] = "idle" /\ verdict'[c] = "none"
    BY <1>9 DEF Abort, EndRequest, TypeOK
  <2> QED
    BY <2>1, ReleasedLocking
<1>10. CASE TxRetry(c)
  <2>0. Restart(c, "openfind", "failed") \/ Restart(c, "lock", "none")
    BY <1>10 DEF TxRetry
  <2>1. ReleaseRow(c) /\ pc'[c] \in {"openfind", "lock"} /\ verdict'[c] \in {"failed", "none"}
    BY <2>0 DEF Restart, TypeOK
  <2> QED
    BY <2>1, ReleasedLocking
<1>11. CASE FailBeforeLimit(c)
  <2>1. ReleaseRow(c) /\ pc'[c] = "openfind" /\ verdict'[c] = "failed"
    BY <1>11 DEF FailBeforeLimit, Restart, TypeOK
  <2> QED
    BY <2>1, ReleasedLocking
<1>12. CASE FailAfterLimit(c)
  <2>1. CASE Restart(c, "openfind", "failed")
    <3>1. ReleaseRow(c) /\ pc'[c] = "openfind" /\ verdict'[c] = "failed"
      BY <2>1 DEF Restart, TypeOK
    <3> QED
      BY <3>1, ReleasedLocking
  <2>2. CASE ~Restart(c, "openfind", "failed")
    <3>1. /\ assigned' = assigned /\ rowLock' = rowLock /\ row' = row /\ req' = req
          /\ pc'[c] \in {"find", "lookup", "create", "persist", "readback"}
      BY <1>12, <2>2 DEF FailAfterLimit, TypeOK, dbVars
    <3>2. verdict'[c] = "allowed" => row[c] \in Row /\ rowLock[row[c]] = c
      BY <1>12, <2>2 DEF FailAfterLimit, Locking, TypeOK
    <3> QED
      BY <3>1, <3>2, KeptLocking
  <2> QED
    BY <2>1, <2>2
<1> QED
  BY <1>1, <1>2, <1>3, <1>4, <1>5, <1>6, <1>7, <1>8, <1>9, <1>10, <1>11, <1>12
     DEF Step, Fault

LEMMA StartFrame ==
    ASSUME TypeOK, NEW c \in Client, NEW k \in Key, NEW q \in Quantity, NEW t \in Row,
           Start(c, k, q, t), NEW d \in Client, d # c
    PROVE  Frame(d)
<1>1. pc'[d] = pc[d] /\ req'[d] = req[d]
  BY DEF Start, TypeOK
<1> QED
  BY <1>1 DEF Start, Frame, dbVars

LEMMA EnvironmentFrame ==
    ASSUME TypeOK, Environment, NEW d \in Client
    PROVE  Frame(d) /\ UNCHANGED reqVars
<1>1. UNCHANGED reqVars
  BY DEF Environment, Ingest, BeginHandover, EndHandover, AbortHandover,
         DeleteSubjectAssignment, AgeDecisions, PruneDecisions, PruneEvents
<1>2. \A r \in Row : rowLock'[r] = d <=> rowLock[r] = d
  <2>1. \/ rowLock' = rowLock
        \/ /\ rowLock[Len(assigned)] \in {"free", "admin"}
           /\ \E v \in {"free", "admin"} : rowLock' = [rowLock EXCEPT ![Len(assigned)] = v]
    BY DEF Environment, Ingest, BeginHandover, EndHandover, AbortHandover,
           DeleteSubjectAssignment, AgeDecisions, PruneDecisions, PruneEvents
  <2> QED
    BY <2>1, ActorAssumption DEF TypeOK
<1> QED
  BY <1>1, <1>2 DEF Frame, reqVars

\* A handover or an unassignment ends a row only when no request holds it.
LEMMA EnvironmentAssigned ==
    ASSUME TypeOK, Environment
    PROVE  \/ assigned' = assigned
           \/ /\ \E p \in Plan \cup {NoPlan} : assigned' = Append(assigned, p)
              /\ rowLock[Len(assigned)] \in {"free", "admin"}
BY DEF TypeOK, Environment, Ingest, BeginHandover, EndHandover, AbortHandover,
       DeleteSubjectAssignment, AgeDecisions, PruneDecisions, PruneEvents

LEMMA EnvironmentLocking ==
    ASSUME TypeOK, Environment, NEW d \in Client, Locking(d)
    PROVE  Locking(d)'
<1>1. Frame(d)
  BY EnvironmentFrame
<1>2. CASE assigned' = assigned
  BY <1>1, <1>2, OtherLocking
<1>3. ASSUME NEW p \in Plan \cup {NoPlan}, assigned' = Append(assigned, p),
             rowLock[Len(assigned)] \in {"free", "admin"}
      PROVE  Locking(d)'
  <2>1. /\ Len(assigned) \in Nat /\ Len(assigned') = Len(assigned) + 1
        /\ \A r \in 1..Len(assigned) : assigned'[r] = assigned[r]
    BY <1>3 DEF TypeOK
  <2>2. \A r \in Row : rowLock[r] = d =>
            r < Len(assigned) /\ r = req[d].at /\ EffectiveRow(req[d].at)' = r
    <3> SUFFICES ASSUME NEW r \in Row, rowLock[r] = d
                 PROVE  r < Len(assigned) /\ r = req[d].at /\ EffectiveRow(req[d].at)' = r
      OBVIOUS
    <3>1. r <= Len(assigned) /\ EffectiveRow(req[d].at) = r /\ r # Len(assigned)
      BY <1>3, ActorAssumption DEF Locking
    <3>2. r < Len(assigned) /\ r = req[d].at
      BY <2>1, <3>1 DEF EffectiveRow, Row, TypeOK
    <3> QED
      BY <1>1, <2>1, <3>2 DEF EffectiveRow, Frame, Row
  <2>3. pc[d] = "lockwait" => row[d] \in 1..Len(assigned') /\ assigned'[row[d]] # NoPlan
    BY <2>1 DEF Locking
  <2>4. \A r \in Row : rowLock[r] = d =>
            /\ r = row[d] /\ r <= Len(assigned') /\ assigned'[r] # NoPlan
    BY <2>1, <2>2 DEF Locking, Row
  <2> QED
    BY <1>1, <2>2, <2>3, <2>4 DEF Locking, Frame
<1> QED
  BY <1>2, <1>3, EnvironmentAssigned

LEMMA LockStep == TypeOK /\ TypeOK' /\ LockInv /\ [Next]_vars => LockInv'
<1> SUFFICES ASSUME TypeOK, TypeOK', LockInv, [Next]_vars, NEW d \in Client
             PROVE  Locking(d)'
  BY DEF LockInv
<1>0. Locking(d)
  BY DEF LockInv
<1>1. ASSUME NEW c \in Client, Step(c) \/ Fault(c) PROVE Locking(d)'
  BY <1>0, <1>1, OwnLocking, RequestFrame, OtherLocking
<1>2. ASSUME NEW c \in Client, NEW k \in Key, NEW q \in Quantity, NEW t \in Row,
             Start(c, k, q, t)
      PROVE  Locking(d)'
  <2>1. assigned' = assigned
    BY <1>2 DEF Start, dbVars
  <2>2. CASE d # c
    BY <1>0, <1>2, <2>1, <2>2, StartFrame, OtherLocking
  <2>3. CASE d = c
    <3>1. /\ \A r \in Row : rowLock'[r] # d
          /\ verdict'[d] # "allowed"
          /\ pc'[d] \in {"idle", "lock"}
      BY <1>0, <1>2, <2>3 DEF Start, Locking, dbVars, TypeOK
    <3> QED
      BY <3>1 DEF Locking
  <2> QED
    BY <2>2, <2>3
<1>3. CASE Environment
  BY <1>0, <1>3, EnvironmentLocking
<1>4. CASE UNCHANGED vars
  <2>1. Frame(d) /\ assigned' = assigned
    BY <1>4 DEF vars, dbVars, reqVars, Frame
  <2> QED
    BY <1>0, <2>1, OtherLocking
<1> QED
  BY <1>1, <1>2, <1>3, <1>4 DEF Next, Environment

----------------------------------------------------------------------------
(* The gate: what is granted, and what is still being granted, fits.       *)

\* The value of a limit is a number, and a locked row has one.
LEMMA LimitType ==
    ASSUME TypeOK, NEW r \in 1..Len(assigned), assigned[r] # NoPlan
    PROVE  assigned[r] \in Plan /\ PlanLimit[assigned[r]].limit \in Nat
BY PlanAssumption DEF TypeOK, LimitRecord

\* A request moves the ledger only by the commit of an allowed event, which adds
\* the same quantity to its row and to the counter; other commits only raise
\* the counter.
LEMMA RequestLedger ==
    ASSUME TypeOK, NEW c \in Client, Locking(c), Gated(c), Step(c) \/ Fault(c)
    PROVE  /\ counter' \in Nat /\ counter' >= counter
           /\ \/ granted' = granted
              \/ /\ verdict[c] = "allowed" /\ row[c] \in Row /\ rowLock[row[c]] = c
                 /\ granted' = [granted EXCEPT ![row[c]] = @ + req[c].qty]
                 /\ counter' = counter + req[c].qty
                 /\ verdict'[c] = "none"
<1>0. req[c].qty \in Nat
  BY QuantityAssumption DEF TypeOK
<1>1. CASE Commit(c)
  <2>1. counter' \in Nat /\ counter' >= counter
    BY <1>0, <1>1 DEF Commit, TypeOK
  <2>2. CASE wrote[c] /\ verdict[c] = "allowed"
    BY <1>1, <2>1, <2>2 DEF Commit, EndRequest, TypeOK, Locking, Gated
  <2>3. CASE ~(wrote[c] /\ verdict[c] = "allowed")
    BY <1>1, <2>1, <2>3 DEF Commit
  <2> QED
    BY <2>2, <2>3
<1>2. CASE ~Commit(c)
  <2>1. granted' = granted /\ counter' = counter
    BY <1>2 DEF Step, Fault, LockEffectiveSubjectAssignment, LockGranted, AssessConsumption,
                FindDecision, LookupEvent, CreateEvent, Persist, ReadBack, Abort, TxRetry,
                FailBeforeLimit, FailAfterLimit, Restart, dbVars
  <2> QED
    BY <2>1 DEF TypeOK
<1> QED
  BY <1>1, <1>2

\* A request that is not allowed and has written nothing is gated trivially.
LEMMA IdleGated ==
    ASSUME NEW c \in Client, ~wrote'[c], verdict'[c] # "allowed"
    PROVE  Gated(c)'
BY DEF Gated

\* A request keeps its own gate.
LEMMA OwnGated ==
    ASSUME TypeOK, LedgerInv, NEW c \in Client, Locking(c), Gated(c), Step(c) \/ Fault(c)
    PROVE  Gated(c)'
<1>0. /\ req[c].qty \in Nat /\ counter \in Nat
      /\ verdict[c] = "allowed" \/ pc[c] = "assess" =>
            /\ row[c] \in 1..Len(assigned) /\ assigned[row[c]] # NoPlan
            /\ EffectiveRow(req[c].at) = row[c] /\ row[c] \in Row
  <2>1. req[c].qty \in Nat /\ counter \in Nat /\ Len(assigned) \in Nat
    <3>1. req[c] \in [key : Key, qty : Quantity, at : Row] /\ counter \in Nat
      BY DEF TypeOK
    <3>2. Len(assigned) \in Nat
      BY DEF TypeOK
    <3> QED
      BY <3>1, <3>2, QuantityAssumption
  <2>2. ASSUME verdict[c] = "allowed" \/ pc[c] = "assess"
        PROVE  /\ row[c] \in Row /\ row[c] <= Len(assigned) /\ assigned[row[c]] # NoPlan
               /\ EffectiveRow(req[c].at) = row[c]
    BY <2>2 DEF Locking
  <2> QED
    BY <2>1, <2>2 DEF Row
<1>1. CASE EndRequest(c)
  <2>1. ~wrote'[c] /\ verdict'[c] # "allowed"
    BY <1>1 DEF EndRequest, TypeOK
  <2> QED
    BY <2>1, IdleGated
<1>2. CASE TxRetry(c) \/ FailBeforeLimit(c) \/ FailAfterLimit(c)
  <2>1. ~wrote'[c] /\ verdict'[c] # "allowed"
    BY <1>2 DEF TxRetry, FailBeforeLimit, FailAfterLimit, Restart, Gated, TypeOK
  <2> QED
    BY <2>1, IdleGated
<1>3. CASE LockEffectiveSubjectAssignment(c)
  <2>1. ~wrote'[c] /\ verdict'[c] # "allowed"
    BY <1>3 DEF LockEffectiveSubjectAssignment, AssessedAdvisory, TypeOK, Locking, Gated
  <2> QED
    BY <2>1, IdleGated
<1>4. CASE LockGranted(c)
  <2>1. ~wrote'[c] /\ verdict'[c] # "allowed"
    BY <1>4 DEF LockGranted, AssessedAdvisory, TypeOK, Locking, Gated
  <2> QED
    BY <2>1, IdleGated
<1>5. CASE AssessConsumption(c)
  <2>1. ~wrote'[c] /\ granted' = granted /\ row' = row /\ req' = req /\ assigned' = assigned
    BY <1>5 DEF AssessConsumption, Gated, dbVars
  <2>2. CASE verdict'[c] = "allowed"
    <3>1. counter + req[c].qty <= PlanLimit[assigned[row[c]]].limit
      BY <1>5, <2>2 DEF AssessConsumption, Assessment, TypeOK
    <3>2. granted[row[c]] <= counter /\ granted[row[c]] \in Nat
      BY <1>0, <1>5 DEF LedgerInv, TypeOK, AssessConsumption
    <3>3. PlanLimit[assigned[row[c]]].limit \in Nat
      BY <1>0, <1>5, LimitType DEF AssessConsumption
    <3>4. granted[row[c]] + req[c].qty <= PlanLimit[assigned[row[c]]].limit
      BY <1>0, <3>1, <3>2, <3>3
    <3> QED
      BY <2>1, <3>4 DEF Gated
  <2>3. CASE verdict'[c] # "allowed"
    BY <2>1, <2>3, IdleGated
  <2> QED
    BY <2>2, <2>3
<1>6. CASE CreateEvent(c)
  <2>1. /\ pc'[c] = "persist" /\ verdict' = verdict /\ granted' = granted
        /\ row' = row /\ req' = req /\ assigned' = assigned
    BY <1>6 DEF CreateEvent, TypeOK, dbVars
  <2>2. verdict[c] = "allowed" => EffectivePlan(req[c].at) # NoPlan
    BY <1>0 DEF EffectivePlan
  <2>3. wrote'[c] /\ verdict[c] = "allowed" => counted'[c]
    BY <1>6, <2>2 DEF CreateEvent, TypeOK, Gated
  <2> QED
    BY <2>1, <2>3 DEF Gated
<1>7. CASE FindDecision(c) /\ ~EndRequest(c)
  BY <1>7 DEF FindDecision, Gated
<1>8. CASE LookupEvent(c)
  BY <1>8 DEF LookupEvent, Gated, dbVars
<1>9. CASE Persist(c) /\ ~EndRequest(c)
  <2>1. /\ pc'[c] = "readback"
        /\ UNCHANGED <<verdict, wrote, counted, granted, row, req, assigned>>
    BY <1>9 DEF Persist, Commit, TypeOK
  <2> QED
    BY <2>1 DEF Gated
<1> QED
  BY <1>1, <1>2, <1>3, <1>4, <1>5, <1>6, <1>7, <1>8, <1>9
     DEF Step, Fault, ReadBack, Commit, Abort

\* Row locks are exclusive, so another request's commit leaves an allowed request
\* the room it was promised.
LEMMA OtherGated ==
    ASSUME TypeOK, NEW c \in Client, NEW d \in Client, d # c, Locking(c), Gated(c),
           Locking(d), Gated(d), Step(c) \/ Fault(c)
    PROVE  Gated(d)'
<1>1. Frame(d) /\ assigned' = assigned
  BY RequestFrame
<1>2. verdict[d] = "allowed" => granted'[row[d]] = granted[row[d]]
  <2> SUFFICES ASSUME verdict[d] = "allowed", granted' # granted
               PROVE  granted'[row[d]] = granted[row[d]]
    OBVIOUS
  <2>1. rowLock[row[c]] = c /\ granted' = [granted EXCEPT ![row[c]] = @ + req[c].qty]
    BY RequestLedger
  <2>2. row[d] \in Row /\ rowLock[row[d]] = d /\ granted \in [Row -> Nat]
    BY DEF Locking, TypeOK
  <2> QED
    BY <2>1, <2>2
<1> QED
  BY <1>1, <1>2 DEF Gated, Frame

LEMMA EnvironmentGated ==
    ASSUME TypeOK, Environment, NEW d \in Client, Locking(d), Gated(d)
    PROVE  Gated(d)'
<1>1. Frame(d)
  BY EnvironmentFrame
<1>2. granted' = granted
  BY DEF Environment, Ingest, BeginHandover, EndHandover, AbortHandover,
         DeleteSubjectAssignment, AgeDecisions, PruneDecisions, PruneEvents
<1>3. verdict[d] = "allowed" => assigned'[row[d]] = assigned[row[d]]
  <2> SUFFICES ASSUME verdict[d] = "allowed" PROVE assigned'[row[d]] = assigned[row[d]]
    OBVIOUS
  <2>1. row[d] \in Row /\ row[d] <= Len(assigned)
    BY DEF Locking
  <2>2. row[d] \in 1..Len(assigned)
    BY <2>1 DEF Row, TypeOK
  <2> QED
    BY <2>2, EnvironmentAssigned DEF TypeOK
<1> QED
  BY <1>1, <1>2, <1>3 DEF Gated, Frame

LEMMA GateStep == TypeOK /\ LockInv /\ LedgerInv /\ GateInv /\ [Next]_vars => GateInv'
<1> SUFFICES ASSUME TypeOK, LockInv, LedgerInv, GateInv, [Next]_vars, NEW d \in Client
             PROVE  Gated(d)'
  BY DEF GateInv
<1>0. \A c \in Client : Locking(c) /\ Gated(c)
  BY DEF LockInv, GateInv
<1>1. ASSUME NEW c \in Client, Step(c) \/ Fault(c) PROVE Gated(d)'
  BY <1>0, <1>1, OwnGated, OtherGated
<1>2. ASSUME NEW c \in Client, NEW k \in Key, NEW q \in Quantity, NEW t \in Row,
             Start(c, k, q, t)
      PROVE  Gated(d)'
  <2>1. granted' = granted /\ assigned' = assigned
    BY <1>2 DEF Start, dbVars
  <2>2. CASE d # c
    BY <1>0, <1>2, <2>1, <2>2, StartFrame DEF Gated, Frame
  <2>3. CASE d = c
    BY <1>0, <1>2, <2>3, IdleGated DEF Start, Locking, Gated
  <2> QED
    BY <2>2, <2>3
<1>3. CASE Environment
  BY <1>0, <1>3, EnvironmentGated
<1>4. CASE UNCHANGED vars
  BY <1>0, <1>4 DEF vars, dbVars, reqVars, Gated
<1> QED
  BY <1>1, <1>2, <1>3, <1>4 DEF Next, Environment

\* Every action other than a request's commit leaves what rows have granted alone
\* and never lowers the counter.
LEMMA LedgerFrame ==
    ASSUME TypeOK,
           \/ Environment
           \/ \E c \in Client, k \in Key, q \in Quantity, t \in Row : Start(c, k, q, t)
           \/ UNCHANGED vars
    PROVE  granted' = granted /\ counter' \in Nat /\ counter' >= counter
<1>1. ASSUME NEW k \in Key, NEW q \in Quantity, NEW t \in Row, Ingest(k, q, t)
      PROVE  granted' = granted /\ counter' \in Nat /\ counter' >= counter
  <2>1. counter \in Nat /\ q \in Nat
    BY QuantityAssumption DEF TypeOK
  <2>2. granted' = granted /\ (counter' = counter \/ counter' = counter + q)
    BY <1>1 DEF Ingest
  <2> QED
    BY <2>1, <2>2
<1>2. CASE counter' = counter /\ granted' = granted
  BY <1>2 DEF TypeOK
<1> QED
  BY <1>1, <1>2 DEF Environment, BeginHandover, EndHandover, AbortHandover, Start, vars, dbVars,
                    DeleteSubjectAssignment, AgeDecisions, PruneDecisions, PruneEvents

LEMMA AssignedGrows ==
    ASSUME TypeOK, [Next]_vars
    PROVE  /\ Len(assigned') \in Nat /\ Len(assigned) <= Len(assigned')
           /\ \A r \in 1..Len(assigned) : assigned'[r] = assigned[r]
<1>1. CASE assigned' = assigned
  BY <1>1 DEF TypeOK
<1>2. CASE Environment
  <2>1. ASSUME NEW p \in Plan \cup {NoPlan}, assigned' = Append(assigned, p)
        PROVE  /\ Len(assigned') \in Nat /\ Len(assigned) <= Len(assigned')
               /\ \A r \in 1..Len(assigned) : assigned'[r] = assigned[r]
    <3>1. assigned \in Seq(Plan \cup {NoPlan})
      BY DEF TypeOK
    <3>2. Len(assigned') = Len(assigned) + 1 /\ Len(assigned) \in Nat
      BY <2>1, <3>1
    <3>3. \A r \in 1..Len(assigned) : assigned'[r] = assigned[r]
      BY <2>1, <3>1
    <3> QED
      BY <3>2, <3>3
  <2> QED
    BY <1>1, <1>2, <2>1, EnvironmentAssigned
<1>3. ASSUME NEW c \in Client, Step(c) \/ Fault(c) PROVE assigned' = assigned
  BY <1>3 DEF Step, Fault, LockEffectiveSubjectAssignment, LockGranted, AssessConsumption,
              FindDecision, LookupEvent, CreateEvent, Persist, ReadBack, Abort, TxRetry,
              FailBeforeLimit, FailAfterLimit, Restart, dbVars
<1>4. ASSUME NEW c \in Client, NEW k \in Key, NEW q \in Quantity, NEW t \in Row,
             Start(c, k, q, t)
      PROVE  assigned' = assigned
  BY <1>4 DEF Start, dbVars
<1> QED
  BY <1>1, <1>2, <1>3, <1>4 DEF Next, Environment, vars, dbVars

\* The ledger invariant and the limit itself, together: they change together.
LEMMA GrantStep ==
    TypeOK /\ TypeOK' /\ LockInv /\ LedgerInv /\ GateInv /\ GrantsWithinLimit /\ [Next]_vars
       => LedgerInv' /\ GrantsWithinLimit'
<1> SUFFICES ASSUME TypeOK, TypeOK', LockInv, LedgerInv, GateInv, GrantsWithinLimit, [Next]_vars
             PROVE  LedgerInv' /\ GrantsWithinLimit'
  OBVIOUS
<1>0. /\ Len(assigned) \in Nat /\ Len(assigned') \in Nat /\ Len(assigned) <= Len(assigned')
      /\ Len(assigned) <= MaxRows /\ Len(assigned') <= MaxRows /\ MaxRows \in Nat
      /\ \A r \in 1..Len(assigned) : assigned'[r] = assigned[r]
      /\ counter \in Nat /\ \A r \in Row : granted[r] \in Nat
  <2>1. Len(assigned) \in 1..MaxRows /\ Len(assigned') \in 1..MaxRows /\ MaxRows \in Nat
    BY BoundAssumption DEF TypeOK, Row
  <2>2. counter \in Nat /\ \A r \in Row : granted[r] \in Nat
    BY DEF TypeOK
  <2> QED
    BY <2>1, <2>2, AssignedGrows
<1>1. ASSUME granted' = granted, counter' \in Nat, counter' >= counter
      PROVE  LedgerInv' /\ GrantsWithinLimit'
  <2>1. LedgerInv'
    BY <1>0, <1>1 DEF LedgerInv, Row
  <2>2. ASSUME NEW r \in 1..Len(assigned'), granted'[r] > 0
        PROVE  assigned'[r] # NoPlan /\ granted'[r] <= PlanLimit[assigned'[r]].limit
    <3>1. r \in Row /\ granted[r] > 0
      BY <1>0, <1>1, <2>2 DEF Row
    <3>2. r \in 1..Len(assigned)
      BY <1>0, <2>2, <3>1 DEF LedgerInv
    <3> QED
      BY <1>0, <1>1, <3>1, <3>2 DEF GrantsWithinLimit
  <2> QED
    BY <2>1, <2>2 DEF GrantsWithinLimit
<1>2. ASSUME NEW c \in Client, Step(c) \/ Fault(c), ~(granted' = granted)
      PROVE  LedgerInv' /\ GrantsWithinLimit'
  <2> DEFINE r0 == row[c]
  <2>1. Locking(c) /\ Gated(c)
    BY DEF LockInv, GateInv
  <2>2. /\ verdict[c] = "allowed" /\ r0 \in Row /\ rowLock[r0] = c
        /\ granted' = [granted EXCEPT ![r0] = @ + req[c].qty]
        /\ counter' = counter + req[c].qty
    BY <1>2, <2>1, RequestLedger
  <2>3. req[c].qty \in Nat
    <3>1. req[c] \in [key : Key, qty : Quantity, at : Row]
      BY DEF TypeOK
    <3> QED
      BY <3>1, QuantityAssumption
  <2>4. assigned' = assigned
    BY <1>2 DEF Step, Fault, LockEffectiveSubjectAssignment, LockGranted, AssessConsumption,
                FindDecision, LookupEvent, CreateEvent, Persist, ReadBack, Abort, TxRetry,
                FailBeforeLimit, FailAfterLimit, Restart, dbVars
  <2>5. r0 <= Len(assigned) /\ assigned[r0] # NoPlan
    BY <2>1, <2>2 DEF Locking
  <2>6. granted[r0] + req[c].qty <= PlanLimit[assigned[r0]].limit
    BY <2>1, <2>2 DEF Gated
  <2>7. \A r \in Row : granted'[r] = IF r = r0 THEN granted[r0] + req[c].qty ELSE granted[r]
    BY <2>2 DEF TypeOK
  <2>8. LedgerInv'
    <3> SUFFICES ASSUME NEW r \in Row
                 PROVE  granted'[r] <= counter' /\ (r > Len(assigned) => granted'[r] = 0)
      BY <2>4 DEF LedgerInv
    <3>1. /\ granted[r] <= counter /\ (r > Len(assigned) => granted[r] = 0)
          /\ granted[r] \in Nat /\ r \in Nat
      BY <1>0 DEF LedgerInv, Row
    <3>2. CASE r = r0
      BY <1>0, <2>2, <2>3, <2>5, <2>7, <3>1, <3>2
    <3>3. CASE r # r0
      BY <1>0, <2>2, <2>3, <2>7, <3>1, <3>3
    <3> QED
      BY <3>2, <3>3
  <2>9. GrantsWithinLimit'
    <3> SUFFICES ASSUME NEW r \in 1..Len(assigned), granted'[r] > 0
                 PROVE  assigned[r] # NoPlan /\ granted'[r] <= PlanLimit[assigned[r]].limit
      BY <2>4 DEF GrantsWithinLimit
    <3>1. r \in Row
      BY <1>0 DEF Row
    <3>2. CASE r = r0
      BY <2>5, <2>6, <2>7, <3>1, <3>2
    <3>3. CASE r # r0
      BY <2>7, <3>1, <3>3 DEF GrantsWithinLimit
    <3> QED
      BY <3>2, <3>3
  <2> QED
    BY <2>8, <2>9
<1>3. ASSUME NEW c \in Client, Step(c) \/ Fault(c), granted' = granted
      PROVE  LedgerInv' /\ GrantsWithinLimit'
  <2>1. Locking(c) /\ Gated(c)
    BY DEF LockInv, GateInv
  <2> QED
    BY <1>1, <1>3, <2>1, RequestLedger
<1>4. ASSUME \/ Environment
             \/ \E c \in Client, k \in Key, q \in Quantity, t \in Row : Start(c, k, q, t)
             \/ UNCHANGED vars
      PROVE  LedgerInv' /\ GrantsWithinLimit'
  BY <1>1, <1>4, LedgerFrame
<1> QED
  BY <1>2, <1>3, <1>4 DEF Next, Environment

GateInvariant == TypeOK /\ LockInv /\ LedgerInv /\ GateInv /\ GrantsWithinLimit

LEMMA GateInit == Init => GateInvariant
<1> SUFFICES ASSUME Init PROVE GateInvariant
  OBVIOUS
<1>1. TypeOK
  BY InitType
<1>2. LockInv
  BY ActorAssumption DEF Init, LockInv, Locking
<1>3. LedgerInv /\ GateInv
  BY DEF Init, LedgerInv, GateInv, Gated
<1>4. GrantsWithinLimit
  BY <1>1 DEF Init, GrantsWithinLimit, TypeOK, Row
<1> QED
  BY <1>1, <1>2, <1>3, <1>4 DEF GateInvariant

\* The hard limit holds: for any number of concurrent consume requests, plan
\* versions, failures and handovers, the quota granted against an assignment row
\* stays within the limit of the row's plan.
THEOREM QuotaGate == Spec => []GrantsWithinLimit
<1>1. GateInvariant /\ [Next]_vars => GateInvariant'
  BY TypeStep, LockStep, GateStep, GrantStep DEF GateInvariant
<1>2. GateInvariant => GrantsWithinLimit
  BY DEF GateInvariant
<1> QED
  BY GateInit, <1>1, <1>2, PTL DEF Spec

----------------------------------------------------------------------------
(* Decisions, their events and their replays.                              *)

\* What a request does to the tables: events appear only by its commit, and its
\* own decision only together with that commit.
LEMMA RequestTables ==
    ASSUME TypeOK, NEW c \in Client, Step(c) \/ Fault(c)
    PROVE  \/ UNCHANGED <<events, decisions, pruned>>
           \/ Commit(c) /\ pc[c] = "readback" /\ decisions' = decisions
           \/ /\ Commit(c) /\ pc[c] = "persist" /\ decisions[req[c].key] = "none"
              /\ decisions' = [decisions EXCEPT ![req[c].key] = Decided(c)]
BY DEF Step, Fault, LockEffectiveSubjectAssignment, LockGranted, AssessConsumption,
       FindDecision, LookupEvent, CreateEvent, Persist, ReadBack, Abort, TxRetry,
       FailBeforeLimit, FailAfterLimit, Restart, dbVars, pruneVars

\* The key has its event, or had it until retention deleted it.
Recorded(k) == events[k] # NoEvent \/ k \in pruned

LEMMA CommitEvents ==
    ASSUME TypeOK, NEW c \in Client, Commit(c)
    PROVE  /\ \A k \in Key : Recorded(k) => Recorded(k)'
           /\ wrote[c] => events'[req[c].key] # NoEvent
<1>1. req[c].key \in Key /\ req[c].qty # 0
  <2>1. req[c] \in [key : Key, qty : Quantity, at : Row]
    BY DEF TypeOK
  <2> QED
    BY <2>1, QuantityAssumption
<1>2. CASE wrote[c]
  <2>1. events'[req[c].key].qty = req[c].qty
    BY <1>1, <1>2 DEF Commit, TypeOK
  <2>2. events'[req[c].key] # NoEvent
    BY <1>1, <2>1 DEF NoEvent
  <2>3. \A k \in Key : k # req[c].key => events'[k] = events[k]
    BY <1>1, <1>2 DEF Commit, TypeOK
  <2>4. pruned' = pruned \ {req[c].key}
    BY <1>2 DEF Commit
  <2> QED
    BY <2>2, <2>3, <2>4 DEF Recorded
<1>3. CASE ~wrote[c]
  BY <1>3 DEF Commit, Recorded
<1> QED
  BY <1>2, <1>3

\* An acceptance that is stored, or about to be, keeps its record.
LEMMA RecordKept ==
    ASSUME TypeOK, [Next]_vars, NEW k \in Key, Recorded(k),
           Found(k) \/ (Accepted(decisions[k]) /\ Accepted(decisions'[k]))
    PROVE  Recorded(k)'
<1>1. ASSUME NEW c \in Client, Step(c) \/ Fault(c) PROVE Recorded(k)'
  <2>1. CASE UNCHANGED <<events, decisions, pruned>>
    BY <2>1 DEF Recorded
  <2> QED
    BY <1>1, <2>1, RequestTables, CommitEvents
<1>2. ASSUME NEW j \in Key, NEW q \in Quantity, NEW t \in Row, Ingest(j, q, t)
      PROVE  Recorded(k)'
  <2> DEFINE n == [qty |-> q, via |-> "ingest", at |-> t, counted |-> EffectivePlan(t) # NoPlan]
  <2>1. n # NoEvent
    <3>1. q # 0
      BY QuantityAssumption
    <3>2. n.qty # NoEvent.qty
      BY <3>1 DEF NoEvent
    <3> QED
      BY <3>2
  <2>2. events' = [events EXCEPT ![j] = n] /\ pruned' = pruned \ {j}
    BY <1>2 DEF Ingest
  <2> HIDE DEF n
  <2> QED
    BY <2>1, <2>2 DEF Recorded, TypeOK
<1>3. CASE PruneDecisions
  <2>1. /\ events' = events /\ pruned' = {j \in pruned : j \notin aged \/ Found(j)}
        /\ decisions'[k] = IF k \in aged THEN "none" ELSE decisions[k]
    BY <1>3 DEF PruneDecisions
  <2>2. k \notin aged \/ Found(k)
    BY <2>1 DEF Accepted
  <2> QED
    BY <2>1, <2>2 DEF Recorded
<1>4. ASSUME NEW t \in Row, PruneEvents(t) PROVE Recorded(k)'
  <2>1. PICK old \in SUBSET Key :
          /\ events' = [j \in Key |-> IF j \in old THEN NoEvent ELSE events[j]]
          /\ pruned' = pruned \cup {j \in old : Accepted(decisions[j]) \/ Found(j)}
    BY <1>4 DEF PruneEvents
  <2> QED
    BY <2>1 DEF Recorded
<1>5. CASE UNCHANGED <<events, pruned>>
  BY <1>5 DEF Recorded
<1> QED
  BY <1>1, <1>2, <1>3, <1>4, <1>5
     DEF Next, Start, BeginHandover, EndHandover, AbortHandover, DeleteSubjectAssignment,
         AgeDecisions, vars, dbVars, pruneVars

LEMMA OwnBacked ==
    ASSUME TypeOK, [Next]_vars, NEW c \in Client, Backed(c), Step(c) \/ Fault(c)
    PROVE  Backed(c)'
<1>0. req[c].key \in Key
  BY DEF TypeOK
<1>1. CASE EndRequest(c)
  BY <1>1 DEF EndRequest, Backed, TypeOK
<1>2. CASE LookupEvent(c)
  BY <1>2 DEF LookupEvent, Backed, TypeOK, dbVars
<1>3. CASE CreateEvent(c)
  BY <1>3 DEF CreateEvent, Backed, TypeOK, dbVars
<1>4. CASE Persist(c) /\ ~EndRequest(c)
  <2>1. pc'[c] = "readback" /\ UNCHANGED <<accept, wrote, events, req, pruned>>
    BY <1>4 DEF Persist, Commit, TypeOK
  <2> QED
    BY <2>1 DEF Backed
<1>5. CASE ~accept[c] /\ accept' = accept
  BY <1>5 DEF Backed
<1> QED
  BY <1>1, <1>2, <1>3, <1>4, <1>5
     DEF Step, Fault, LockEffectiveSubjectAssignment, LockGranted, AssessConsumption,
         FindDecision, ReadBack, Commit, Abort, TxRetry, FailBeforeLimit, FailAfterLimit,
         Restart, Backed

LEMMA AcceptStep == TypeOK /\ AcceptInv /\ [Next]_vars => AcceptInv'
<1> SUFFICES ASSUME TypeOK, AcceptInv, [Next]_vars, NEW d \in Client PROVE Backed(d)'
  BY DEF AcceptInv
<1>0. Backed(d) /\ req[d].key \in Key
  BY DEF AcceptInv, TypeOK
<1>1. ASSUME Frame(d) PROVE Backed(d)'
  <2> SUFFICES ASSUME accept'[d] PROVE Backed(d)'
    BY DEF Backed
  <2>1. accept[d] /\ pc'[d] = pc[d] /\ wrote'[d] = wrote[d] /\ req'[d].key = req[d].key
    BY <1>1 DEF Frame
  <2>2. Found(req[d].key)
    BY <2>1 DEF Found
  <2>3. wrote[d] \/ Recorded(req[d].key)
    BY <1>0, <2>1 DEF Backed, Recorded
  <2>4. wrote'[d] \/ Recorded(req[d].key)'
    BY <1>0, <2>1, <2>2, <2>3, RecordKept
  <2>5. pc'[d] \in {"persist", "readback"}
    BY <1>0, <2>1 DEF Backed
  <2> QED
    BY <2>1, <2>4, <2>5 DEF Backed, Recorded
<1>2. ASSUME NEW c \in Client, Step(c) \/ Fault(c) PROVE Backed(d)'
  BY <1>0, <1>1, <1>2, OwnBacked, RequestFrame
<1>3. ASSUME NEW c \in Client, NEW k \in Key, NEW q \in Quantity, NEW t \in Row,
             Start(c, k, q, t)
      PROVE  Backed(d)'
  <2>1. CASE d # c
    BY <1>1, <1>3, <2>1, StartFrame
  <2>2. CASE d = c
    BY <1>0, <1>3, <2>2 DEF Start, Backed
  <2> QED
    BY <2>1, <2>2
<1>4. CASE Environment
  BY <1>1, <1>4, EnvironmentFrame
<1>5. CASE UNCHANGED vars
  BY <1>1, <1>5 DEF vars, dbVars, reqVars, Frame
<1> QED
  BY <1>2, <1>3, <1>4, <1>5 DEF Next, Environment

\* How the stored decisions may change in one step.
LEMMA DecisionsStep ==
    ASSUME TypeOK, [Next]_vars
    PROVE  \/ decisions' = decisions
           \/ \E c \in Client : /\ Commit(c) /\ pc[c] = "persist" /\ decisions[req[c].key] = "none"
                                 /\ decisions' = [decisions EXCEPT ![req[c].key] = Decided(c)]
           \/ decisions' = [k \in Key |-> IF k \in aged THEN "none" ELSE decisions[k]]
<1>1. ASSUME NEW c \in Client, Step(c) \/ Fault(c)
      PROVE  \/ decisions' = decisions
             \/ /\ Commit(c) /\ pc[c] = "persist" /\ decisions[req[c].key] = "none"
                /\ decisions' = [decisions EXCEPT ![req[c].key] = Decided(c)]
  BY <1>1, RequestTables
<1> QED
  BY <1>1 DEF Next, Start, Ingest, BeginHandover, EndHandover, AbortHandover,
              DeleteSubjectAssignment, AgeDecisions, PruneDecisions, PruneEvents, vars, dbVars

LEMMA AcceptedStep ==
    TypeOK /\ AcceptInv /\ AcceptedHasEvent /\ [Next]_vars => AcceptedHasEvent'
<1> SUFFICES ASSUME TypeOK, AcceptInv, AcceptedHasEvent, [Next]_vars,
                    NEW k \in Key, Accepted(decisions'[k])
             PROVE  Recorded(k)'
  BY DEF AcceptedHasEvent, Accepted, Recorded
<1>1. CASE Accepted(decisions[k])
  <2>1. Recorded(k)
    BY <1>1 DEF AcceptedHasEvent, Recorded
  <2> QED
    BY <1>1, <2>1, RecordKept
<1>2. ASSUME NEW c \in Client, Commit(c), ~Accepted(decisions[k]),
             decisions' = [decisions EXCEPT ![req[c].key] = Decided(c)]
      PROVE  Recorded(k)'
  <2>1. k = req[c].key /\ Accepted(Decided(c))
    BY <1>2 DEF TypeOK
  <2>2. accept[c]
    BY <2>1 DEF Decided, Accepted
  <2>3. wrote[c] \/ Recorded(k)
    BY <2>1, <2>2 DEF AcceptInv, Backed, Recorded
  <2> QED
    BY <1>2, <2>1, <2>3, CommitEvents DEF Recorded
<1>3. CASE decisions' = [j \in Key |-> IF j \in aged THEN "none" ELSE decisions[j]]
  BY <1>1, <1>3 DEF Accepted
<1> QED
  BY <1>1, <1>2, <1>3, DecisionsStep

\* Atomic consume: for any number of racing requests and of retention runs beside
\* them, a decision stored as accepted has its usage event, or had it when it was
\* stored and lost it to retention.
THEOREM AcceptanceIsRecorded == Spec => []AcceptedHasEvent
<1>1. Init => TypeOK /\ AcceptInv /\ AcceptedHasEvent
  <2>1. Init => AcceptInv /\ AcceptedHasEvent
    BY DEF Init, AcceptInv, Backed, AcceptedHasEvent, Accepted
  <2> QED
    BY <2>1, InitType
<1>2. TypeOK /\ AcceptInv /\ AcceptedHasEvent /\ [Next]_vars
        => (TypeOK /\ AcceptInv /\ AcceptedHasEvent)'
  BY TypeStep, AcceptStep, AcceptedStep
<1> QED
  BY <1>1, <1>2, PTL DEF Spec

\* The audit trail: a stored decision is never rewritten, only pruned once it has aged.
THEOREM DecisionsAreImmutable == Spec => DecisionImmutable
<1>1. TypeOK /\ [Next]_vars =>
        [\A k \in Key : decisions[k] # "none" =>
            \/ decisions'[k] = decisions[k]
            \/ k \in aged /\ decisions'[k] = "none"]_vars
  <2> SUFFICES ASSUME TypeOK, [Next]_vars, NEW k \in Key, decisions[k] # "none"
               PROVE  decisions'[k] = decisions[k] \/ (k \in aged /\ decisions'[k] = "none")
    OBVIOUS
  <2>1. ASSUME NEW c \in Client, decisions[req[c].key] = "none",
               decisions' = [decisions EXCEPT ![req[c].key] = Decided(c)]
        PROVE  decisions'[k] = decisions[k]
    BY <2>1 DEF TypeOK
  <2>2. CASE decisions' = [j \in Key |-> IF j \in aged THEN "none" ELSE decisions[j]]
    BY <2>2
  <2> QED
    BY <2>1, <2>2, DecisionsStep
<1> QED
  BY <1>1, TypeCorrect, PTL DEF Spec, DecisionImmutable

----------------------------------------------------------------------------
(* What callers are told.                                                  *)

\* A caller is told the decision that is stored, or that this very step stores; the
\* answers of a key are forgotten with its decision.
LEMMA AnswersStep ==
    ASSUME TypeOK, [Next]_vars
    PROVE  \/ UNCHANGED <<decisions, answers>>
           \/ \E k \in Key : decisions' = decisions /\ decisions[k] # "none" /\ Answer(k, decisions[k])
           \/ \E c \in Client : /\ decisions[req[c].key] = "none"
                                /\ decisions' = [decisions EXCEPT ![req[c].key] = Decided(c)]
                                /\ Answer(req[c].key, Decided(c))
           \/ /\ decisions' = [k \in Key |-> IF k \in aged THEN "none" ELSE decisions[k]]
              /\ answers' = [k \in Key |-> IF k \in aged THEN {} ELSE answers[k]]
<1>1. ASSUME NEW c \in Client, Step(c) \/ Fault(c)
      PROVE  \/ UNCHANGED <<decisions, answers>>
             \/ /\ decisions' = decisions /\ decisions[req[c].key] # "none"
                /\ Answer(req[c].key, decisions[req[c].key])
             \/ /\ decisions[req[c].key] = "none"
                /\ decisions' = [decisions EXCEPT ![req[c].key] = Decided(c)]
                /\ Answer(req[c].key, Decided(c))
  BY <1>1 DEF Step, Fault, LockEffectiveSubjectAssignment, LockGranted, AssessConsumption,
              FindDecision, LookupEvent, CreateEvent, Persist, ReadBack, Abort, TxRetry,
              FailBeforeLimit, FailAfterLimit, Restart, dbVars
<1>2. \A c \in Client : req[c].key \in Key
  BY DEF TypeOK
<1>3. ASSUME NEW c \in Client, NEW k \in Key, NEW q \in Quantity, NEW t \in Row,
             Start(c, k, q, t)
      PROVE  \/ UNCHANGED <<decisions, answers>>
             \/ decisions' = decisions /\ decisions[k] # "none" /\ Answer(k, decisions[k])
  BY <1>3 DEF Start, dbVars
<1>4. CASE Environment
  BY <1>4 DEF Environment, Ingest, BeginHandover, EndHandover, AbortHandover,
              DeleteSubjectAssignment, AgeDecisions, PruneDecisions, PruneEvents
<1>5. CASE UNCHANGED vars
  BY <1>5 DEF vars, dbVars
<1> QED
  BY <1>1, <1>2, <1>3, <1>4, <1>5 DEF Next, Environment

\* Nobody was told anything about a key without a decision, so the request that
\* stores one is the first to answer.
LEMMA ReplayStep == TypeOK /\ ReplayStable /\ [Next]_vars => ReplayStable'
<1> SUFFICES ASSUME TypeOK, ReplayStable, [Next]_vars, NEW k \in Key, NEW a \in answers'[k]
             PROVE  a = decisions'[k]
  BY DEF ReplayStable
<1>0. /\ \A b \in answers[k] : b = decisions[k]
      /\ decisions[k] = "none" => answers[k] = {}
  <2>1. \A b \in answers[k] : b = decisions[k]
    BY DEF ReplayStable
  <2>2. answers[k] \subseteq Outcome /\ "none" \notin Outcome
    BY DEF TypeOK, Outcome
  <2> QED
    BY <2>1, <2>2
<1>1. ASSUME NEW j \in Key, decisions' = decisions, Answer(j, decisions[j]) PROVE a = decisions'[k]
  BY <1>0, <1>1 DEF Answer, TypeOK
<1>2. ASSUME NEW c \in Client, decisions[req[c].key] = "none",
             decisions' = [decisions EXCEPT ![req[c].key] = Decided(c)],
             Answer(req[c].key, Decided(c))
      PROVE  a = decisions'[k]
  <2>1. req[c].key \in Key
    BY DEF TypeOK
  <2>2. CASE k = req[c].key
    BY <1>0, <1>2, <2>1, <2>2 DEF Answer, TypeOK
  <2>3. CASE k # req[c].key
    BY <1>0, <1>2, <2>1, <2>3 DEF Answer, TypeOK
  <2> QED
    BY <2>2, <2>3
<1>3. CASE /\ decisions' = [j \in Key |-> IF j \in aged THEN "none" ELSE decisions[j]]
           /\ answers' = [j \in Key |-> IF j \in aged THEN {} ELSE answers[j]]
  BY <1>0, <1>3
<1> QED
  BY <1>0, <1>1, <1>2, <1>3, AnswersStep

\* Replays: for any number of racing requests of a key, all callers that get an answer
\* while its decision is retained get the stored one.
THEOREM ReplaysAreStable == Spec => []ReplayStable
<1>1. Init => ReplayStable
  BY DEF Init, ReplayStable
<1>2. TypeOK /\ ReplayStable /\ [Next]_vars => ReplayStable'
  BY ReplayStep
<1> QED
  BY <1>1, <1>2, TypeCorrect, PTL DEF Spec

----------------------------------------------------------------------------
(* Rejections.                                                             *)

\* A request over the limit holds the lock like one within it, and only such a
\* request, or one that failed closed, stores a rejection.
Judging(c) ==
    /\ verdict[c] = "exceeded" => /\ pc[c] \in {"find", "lookup", "persist", "readback"}
                                  /\ row[c] \in Row /\ rowLock[row[c]] = c
    /\ pc[c] \in {"persist", "readback"} /\ ~accept[c] => verdict[c] \in {"exceeded", "failed"}
JudgeInv == \A c \in Client : Judging(c)

LEMMA RestartJudging ==
    ASSUME TypeOK, NEW c \in Client, NEW next \in {"lock", "openfind"},
           NEW outcome \in {"none", "failed"}, Restart(c, next, outcome)
    PROVE  Judging(c)'
BY DEF Restart, Judging, TypeOK

LEMMA OwnJudging ==
    ASSUME TypeOK, NEW c \in Client, Locking(c), Backed(c), Judging(c), Step(c) \/ Fault(c)
    PROVE  Judging(c)'
<1>0. CASE EndRequest(c)
  BY <1>0 DEF EndRequest, Judging, TypeOK
<1>1. CASE LockEffectiveSubjectAssignment(c)
  BY <1>1 DEF LockEffectiveSubjectAssignment, AssessedAdvisory, Judging, TypeOK
<1>2. CASE LockGranted(c)
  BY <1>2 DEF LockGranted, AssessedAdvisory, Judging, TypeOK
<1>3. CASE AssessConsumption(c)
  BY <1>3 DEF AssessConsumption, Judging, Locking, TypeOK, dbVars
<1>4. CASE FindDecision(c) /\ ~EndRequest(c)
  BY <1>4 DEF FindDecision, Judging, TypeOK
<1>5. CASE LookupEvent(c)
  <2>1. verdict[c] \in {"none", "advisory", "allowed", "exceeded", "failed"}
    BY DEF TypeOK, Verdict
  <2> QED
    BY <1>5, <2>1 DEF LookupEvent, Judging, TypeOK, dbVars
<1>6. CASE CreateEvent(c)
  BY <1>6 DEF CreateEvent, Judging, TypeOK, dbVars
<1>7. CASE Persist(c) /\ ~EndRequest(c)
  BY <1>7 DEF Persist, Commit, Judging, TypeOK
<1>8. CASE TxRetry(c)
  BY <1>8, RestartJudging DEF TxRetry
<1>9. CASE FailBeforeLimit(c)
  BY <1>9, RestartJudging DEF FailBeforeLimit
<1>10. CASE FailAfterLimit(c)
  <2>1. CASE Restart(c, "openfind", "failed")
    BY <2>1, RestartJudging
  <2>2. CASE ~Restart(c, "openfind", "failed")
    BY <1>10, <2>2 DEF FailAfterLimit, Judging, TypeOK, dbVars
  <2> QED
    BY <2>1, <2>2
<1> QED
  BY <1>0, <1>1, <1>2, <1>3, <1>4, <1>5, <1>6, <1>7, <1>8, <1>9, <1>10
     DEF Step, Fault, ReadBack, Commit, Abort

LEMMA JudgeStep == TypeOK /\ LockInv /\ AcceptInv /\ JudgeInv /\ [Next]_vars => JudgeInv'
<1> SUFFICES ASSUME TypeOK, LockInv, AcceptInv, JudgeInv, [Next]_vars, NEW d \in Client
             PROVE  Judging(d)'
  BY DEF JudgeInv
<1>0. Locking(d) /\ Backed(d) /\ Judging(d)
  BY DEF LockInv, AcceptInv, JudgeInv
<1>1. ASSUME Frame(d) PROVE Judging(d)'
  BY <1>0, <1>1 DEF Judging, Frame
<1>2. ASSUME NEW c \in Client, Step(c) \/ Fault(c) PROVE Judging(d)'
  BY <1>0, <1>1, <1>2, OwnJudging, RequestFrame
<1>3. ASSUME NEW c \in Client, NEW k \in Key, NEW q \in Quantity, NEW t \in Row,
             Start(c, k, q, t)
      PROVE  Judging(d)'
  <2>1. CASE d # c
    BY <1>1, <1>3, <2>1, StartFrame
  <2>2. CASE d = c
    BY <1>0, <1>3, <2>2 DEF Start, Judging, TypeOK, dbVars
  <2> QED
    BY <2>1, <2>2
<1>4. CASE Environment
  BY <1>1, <1>4, EnvironmentFrame
<1>5. CASE UNCHANGED vars
  BY <1>1, <1>5 DEF vars, dbVars, reqVars, Frame
<1> QED
  BY <1>2, <1>3, <1>4, <1>5 DEF Next, Environment

\* Requests that are storing a rejection, and requests that found no decision and are
\* writing an event within the limit.
Rejects(c) == verdict[c] = "exceeded" /\ pc[c] \in {"persist", "readback"} /\ ~accept[c]
Grants(c) == verdict[c] = "allowed" /\ pc[c] \in {"lookup", "create", "persist", "readback"}

\* With one assignment row there is one lock, so what the two kinds of requests have
\* read of each other's tables stays true until they commit.
RejectInv ==
    Len(assigned) = 1 =>
        \A c \in Client : /\ Rejects(c) => events[req[c].key].via # "allowed"
                          /\ Grants(c) => decisions[req[c].key] # "rejected"

LEMMA OneHolder ==
    ASSUME TypeOK, LockInv, JudgeInv, Len(assigned) = 1, NEW c \in Client, NEW d \in Client,
           verdict[c] \in {"allowed", "exceeded"}, verdict[d] \in {"allowed", "exceeded"}
    PROVE  c = d
<1>1. \A e \in Client : verdict[e] \in {"allowed", "exceeded"} =>
          row[e] \in Row /\ rowLock[row[e]] = e /\ row[e] <= 1
  BY DEF LockInv, Locking, JudgeInv, Judging
<1>2. \A e \in Client : verdict[e] \in {"allowed", "exceeded"} => rowLock[1] = e
  BY <1>1 DEF Row
<1> QED
  BY <1>2

\* An event within the limit is written by a request that grants ...
LEMMA AllowedEvents ==
    ASSUME TypeOK, [Next]_vars, NEW k \in Key,
           events'[k].via = "allowed", events[k].via # "allowed"
    PROVE  \E c \in Client : /\ Grants(c) /\ req[c].key = k /\ Commit(c)
                             /\ pc[c] \in {"persist", "readback"}
                             /\ decisions' \in {decisions, [decisions EXCEPT ![k] = Decided(c)]}
<1>1. ASSUME NEW c \in Client, Step(c) \/ Fault(c)
      PROVE  /\ Grants(c) /\ req[c].key = k /\ Commit(c) /\ pc[c] \in {"persist", "readback"}
             /\ decisions' \in {decisions, [decisions EXCEPT ![k] = Decided(c)]}
  <2>1. /\ Commit(c) /\ pc[c] \in {"persist", "readback"}
        /\ decisions' \in {decisions, [decisions EXCEPT ![req[c].key] = Decided(c)]}
    BY <1>1, RequestTables
  <2>2. wrote[c] /\ req[c].key = k /\ verdict[c] = "allowed"
    BY <2>1 DEF Commit, TypeOK
  <2> QED
    BY <2>1, <2>2 DEF Grants
<1>2. ASSUME NEW j \in Key, NEW q \in Quantity, NEW t \in Row, Ingest(j, q, t) PROVE FALSE
  BY <1>2 DEF Ingest, TypeOK
<1>3. CASE events' = events
  BY <1>3
<1>4. ASSUME NEW t \in Row, PruneEvents(t) PROVE FALSE
  <2>1. PICK old \in SUBSET Key :
          events' = [j \in Key |-> IF j \in old THEN NoEvent ELSE events[j]]
    BY <1>4 DEF PruneEvents
  <2> QED
    BY <2>1 DEF NoEvent
<1> QED
  BY <1>1, <1>2, <1>3, <1>4 DEF Next, Start, BeginHandover, EndHandover, AbortHandover,
                    DeleteSubjectAssignment, AgeDecisions, PruneDecisions, vars, dbVars

\* ... and a rejection is stored by a request that rejects.
LEMMA RejectedDecisions ==
    ASSUME TypeOK, JudgeInv, [Next]_vars, NEW k \in Key,
           decisions'[k] = "rejected", decisions[k] # "rejected"
    PROVE  \E c \in Client : Rejects(c) /\ req[c].key = k /\ Commit(c)
<1>1. CASE decisions' = [j \in Key |-> IF j \in aged THEN "none" ELSE decisions[j]]
  BY <1>1
<1>2. PICK c \in Client : /\ Commit(c) /\ pc[c] = "persist"
                          /\ decisions' = [decisions EXCEPT ![req[c].key] = Decided(c)]
  BY <1>1, DecisionsStep
<1>3. req[c].key = k /\ Decided(c) = "rejected"
  BY <1>2 DEF TypeOK
<1>4. ~accept[c] /\ verdict[c] # "failed"
  BY <1>3 DEF Decided
<1> QED
  BY <1>2, <1>3, <1>4 DEF JudgeInv, Judging, Rejects

\* A request becomes one that rejects, or one that grants, by its own lookup or find.
LEMMA BecomesRejecting ==
    ASSUME TypeOK, [Next]_vars, NEW d \in Client, Rejects(d)', ~Rejects(d)
    PROVE  events[req'[d].key] = NoEvent /\ events' = events
<1>1. ASSUME NEW c \in Client, Step(c) \/ Fault(c)
      PROVE  events[req'[d].key] = NoEvent /\ events' = events
  <2>1. CASE c # d
    BY <1>1, <2>1, RequestFrame DEF Frame, Rejects
  <2>2. CASE EndRequest(d)
    BY <2>2 DEF EndRequest, Rejects, TypeOK
  <2>3. CASE LookupEvent(d)
    BY <2>3 DEF LookupEvent, Rejects, TypeOK, dbVars
  <2>4. CASE CreateEvent(d)
    BY <2>4 DEF CreateEvent, Rejects, TypeOK, dbVars
  <2>5. CASE Persist(d) /\ ~EndRequest(d)
    BY <2>5 DEF Persist, Commit, Rejects, TypeOK
  <2>6. CASE pc'[d] \notin {"persist", "readback"} \/ verdict'[d] # "exceeded"
    BY <2>6 DEF Rejects
  <2>7. CASE c = d
    <3>1. CASE LockEffectiveSubjectAssignment(d) \/ LockGranted(d) \/ AssessConsumption(d)
      BY <2>6, <3>1 DEF LockEffectiveSubjectAssignment, LockGranted, AssessConsumption,
                        AssessedAdvisory, TypeOK
    <3>2. CASE FindDecision(d) /\ ~EndRequest(d)
      BY <2>6, <3>2 DEF FindDecision, TypeOK
    <3>3. CASE TxRetry(d) \/ FailBeforeLimit(d) \/ FailAfterLimit(d)
      BY <2>6, <3>3 DEF TxRetry, FailBeforeLimit, FailAfterLimit, Restart, TypeOK
    <3> QED
      BY <1>1, <2>2, <2>3, <2>4, <2>5, <2>7, <3>1, <3>2, <3>3
         DEF Step, Fault, ReadBack, Commit, Abort
  <2> QED
    BY <2>1, <2>7
<1>2. ASSUME NEW c \in Client, NEW k \in Key, NEW q \in Quantity, NEW t \in Row,
             Start(c, k, q, t)
      PROVE  FALSE
  BY <1>2 DEF Start, Rejects, TypeOK, dbVars
<1>3. CASE UNCHANGED reqVars
  BY <1>3 DEF reqVars, Rejects
<1> QED
  BY <1>1, <1>2, <1>3, EnvironmentFrame DEF Next, Environment, vars

LEMMA BecomesGranting ==
    ASSUME TypeOK, [Next]_vars, NEW d \in Client, Grants(d)', ~Grants(d)
    PROVE  decisions[req'[d].key] = "none" /\ decisions' = decisions
<1>1. ASSUME NEW c \in Client, Step(c) \/ Fault(c)
      PROVE  decisions[req'[d].key] = "none" /\ decisions' = decisions
  <2>1. CASE c # d
    BY <1>1, <2>1, RequestFrame DEF Frame, Grants
  <2>2. CASE EndRequest(d)
    BY <2>2 DEF EndRequest, Grants, TypeOK
  <2>3. CASE FindDecision(d) /\ ~EndRequest(d)
    BY <2>3 DEF FindDecision, Grants, TypeOK
  <2>4. CASE LookupEvent(d) \/ CreateEvent(d)
    BY <2>4 DEF LookupEvent, CreateEvent, Grants, TypeOK
  <2>5. CASE Persist(d) /\ ~EndRequest(d)
    BY <2>5 DEF Persist, Commit, Grants, TypeOK
  <2>6. CASE pc'[d] \notin {"lookup", "create", "persist", "readback"} \/ verdict'[d] # "allowed"
    BY <2>6 DEF Grants
  <2>7. CASE c = d
    <3>1. CASE LockEffectiveSubjectAssignment(d) \/ LockGranted(d) \/ AssessConsumption(d)
      BY <2>6, <3>1 DEF LockEffectiveSubjectAssignment, LockGranted, AssessConsumption,
                        AssessedAdvisory, TypeOK
    <3>2. CASE TxRetry(d) \/ FailBeforeLimit(d) \/ FailAfterLimit(d)
      BY <2>6, <3>2 DEF TxRetry, FailBeforeLimit, FailAfterLimit, Restart, TypeOK
    <3> QED
      BY <1>1, <2>2, <2>3, <2>4, <2>5, <2>7, <3>1, <3>2
         DEF Step, Fault, ReadBack, Commit, Abort
  <2> QED
    BY <2>1, <2>7
<1>2. ASSUME NEW c \in Client, NEW k \in Key, NEW q \in Quantity, NEW t \in Row,
             Start(c, k, q, t)
      PROVE  FALSE
  BY <1>2 DEF Start, Grants, TypeOK, dbVars
<1>3. CASE UNCHANGED reqVars
  BY <1>3 DEF reqVars, Grants
<1> QED
  BY <1>1, <1>2, <1>3, EnvironmentFrame DEF Next, Environment, vars

\* While a request rejects or grants, its key stays.
LEMMA KeyKept ==
    ASSUME TypeOK, [Next]_vars, NEW d \in Client, Rejects(d) \/ Grants(d),
           Rejects(d)' \/ Grants(d)'
    PROVE  req'[d].key = req[d].key
<1>1. pc[d] # "idle" /\ pc'[d] # "idle"
  BY DEF Rejects, Grants
<1>2. ASSUME NEW c \in Client, Step(c) \/ Fault(c) PROVE req'[d].key = req[d].key
  <2>1. CASE c # d
    BY <1>2, <2>1, RequestFrame DEF Frame
  <2>2. CASE EndRequest(d)
    BY <1>1, <2>2 DEF EndRequest, TypeOK
  <2>3. CASE c = d /\ ~EndRequest(d)
    BY <1>2, <2>3 DEF Step, Fault, LockEffectiveSubjectAssignment, LockGranted, AssessConsumption,
                    FindDecision, LookupEvent, CreateEvent, Persist, ReadBack, Commit, Abort,
                    TxRetry, FailBeforeLimit, FailAfterLimit, Restart
  <2> QED
    BY <2>1, <2>2, <2>3
<1>3. ASSUME NEW c \in Client, NEW k \in Key, NEW q \in Quantity, NEW t \in Row,
             Start(c, k, q, t)
      PROVE  req'[d].key = req[d].key
  BY <1>1, <1>3 DEF Start, TypeOK
<1>4. CASE UNCHANGED reqVars
  BY <1>4 DEF reqVars
<1> QED
  BY <1>2, <1>3, <1>4, EnvironmentFrame DEF Next, Environment, vars

RejectInvariant ==
    TypeOK /\ LockInv /\ AcceptInv /\ JudgeInv /\ RejectInv /\ RejectionGrantsNothing

LEMMA RejectStep == RejectInvariant /\ [Next]_vars => RejectInv' /\ RejectionGrantsNothing'
<1> SUFFICES ASSUME RejectInvariant, [Next]_vars, Len(assigned') = 1
             PROVE  /\ \A c \in Client : /\ Rejects(c)' => events'[req'[c].key].via # "allowed"
                                         /\ Grants(c)' => decisions'[req'[c].key] # "rejected"
                    /\ \A k \in Key : decisions'[k] = "rejected" => events'[k].via # "allowed"
  BY DEF RejectInv, RejectionGrantsNothing
<1> USE DEF RejectInvariant
<1>0. Len(assigned) = 1
  <2>1. Len(assigned) <= 1
    BY AssignedGrows
  <2>2. Len(assigned) \in Nat \ {0}
    BY BoundAssumption DEF TypeOK, Row
  <2> QED
    BY <2>1, <2>2
<1>1. /\ \A c \in Client : /\ Rejects(c) => events[req[c].key].via # "allowed"
                           /\ Grants(c) => decisions[req[c].key] # "rejected"
      /\ \A k \in Key : decisions[k] = "rejected" => events[k].via # "allowed"
  BY <1>0 DEF RejectInv, RejectionGrantsNothing
<1>2. \A c, d \in Client : ~(Rejects(c) /\ Grants(d))
  BY <1>0, OneHolder DEF Rejects, Grants
<1>3. ASSUME NEW c \in Client, Rejects(c)' PROVE events'[req'[c].key].via # "allowed"
  <2>0. req[c].key \in Key
    BY DEF TypeOK
  <2>1. CASE ~Rejects(c)
    BY <1>3, <2>1, BecomesRejecting DEF NoEvent
  <2>2. CASE Rejects(c)
    BY <1>1, <1>2, <1>3, <2>0, <2>2, KeyKept, AllowedEvents
  <2> QED
    BY <2>1, <2>2
<1>4. ASSUME NEW c \in Client, Grants(c)' PROVE decisions'[req'[c].key] # "rejected"
  <2>0. req[c].key \in Key
    BY DEF TypeOK
  <2>1. CASE ~Grants(c)
    BY <1>4, <2>1, BecomesGranting
  <2>2. CASE Grants(c)
    BY <1>1, <1>2, <1>4, <2>0, <2>2, KeyKept, RejectedDecisions
  <2> QED
    BY <2>1, <2>2
<1>5. ASSUME NEW k \in Key, decisions'[k] = "rejected", events'[k].via = "allowed" PROVE FALSE
  <2>1. CASE events[k].via # "allowed"
    <3>1. PICK c \in Client :
             /\ Grants(c) /\ req[c].key = k /\ Commit(c) /\ pc[c] \in {"persist", "readback"}
             /\ decisions' \in {decisions, [decisions EXCEPT ![k] = Decided(c)]}
      BY <1>5, <2>1, AllowedEvents
    <3>2. decisions[k] # "rejected"
      BY <1>1, <3>1
    <3>3. Decided(c) = "rejected"
      BY <1>5, <3>1, <3>2 DEF TypeOK
    <3>4. ~accept[c] /\ verdict[c] = "allowed"
      BY <3>1, <3>3 DEF Decided, Grants
    <3> QED
      BY <3>1, <3>4 DEF JudgeInv, Judging
  <2>2. CASE events[k].via = "allowed"
    <3>1. decisions[k] # "rejected"
      BY <1>1, <2>2
    <3>2. PICK c \in Client : Rejects(c) /\ req[c].key = k
      BY <1>5, <3>1, RejectedDecisions
    <3> QED
      BY <1>1, <2>2, <3>2
  <2> QED
    BY <2>1, <2>2
<1> QED
  BY <1>3, <1>4, <1>5

\* Rejections: as long as a subject keeps one assignment, a key rejected by the hard limit
\* was granted nothing under it, for any number of racing requests and prunings.
THEOREM RejectionsGrantNothing == Spec => []RejectionGrantsNothing
<1>1. Init => RejectInvariant
  <2>1. Init => LockInv
    BY GateInit DEF GateInvariant
  <2>2. Init => AcceptInv
    BY DEF Init, AcceptInv, Backed
  <2>3. Init => JudgeInv
    BY DEF Init, JudgeInv, Judging
  <2>4. Init => RejectInv /\ RejectionGrantsNothing
    BY DEF Init, RejectInv, Rejects, Grants, RejectionGrantsNothing
  <2> QED
    BY InitType, <2>1, <2>2, <2>3, <2>4 DEF RejectInvariant
<1>2. RejectInvariant /\ [Next]_vars => RejectInvariant'
  BY TypeStep, LockStep, AcceptStep, JudgeStep, RejectStep DEF RejectInvariant
<1>3. RejectInvariant => RejectionGrantsNothing
  BY DEF RejectInvariant
<1> QED
  BY <1>1, <1>2, <1>3, PTL DEF Spec

----------------------------------------------------------------------------
(* Requests let through without an assessment.                             *)

\* Rows are only added, so the row in effect at an instant only moves forward, and
\* an instant of the first row has been in it all along.
LEMMA EffectiveForward ==
    ASSUME TypeOK, [Next]_vars, NEW t \in Row
    PROVE  /\ EffectiveRow(t)' \in Nat /\ EffectiveRow(t) \in 1..Len(assigned)
           /\ EffectiveRow(t) <= EffectiveRow(t)'
           /\ HardFirstRow' = HardFirstRow
<1>1. /\ Len(assigned) \in Nat /\ Len(assigned) >= 1 /\ Len(assigned') \in Nat
      /\ Len(assigned) <= Len(assigned')
      /\ \A r \in 1..Len(assigned) : assigned'[r] = assigned[r]
  <2>1. Len(assigned) \in Nat /\ Len(assigned) >= 1
    BY BoundAssumption DEF TypeOK, Row
  <2> QED
    BY <2>1, AssignedGrows
<1>2. t \in Nat /\ t >= 1
  BY DEF Row
<1>3. assigned'[1] = assigned[1]
  BY <1>1
<1> QED
  BY <1>1, <1>2, <1>3 DEF EffectiveRow, HardFirstRow

LEMMA OtherWaved ==
    ASSUME TypeOK, [Next]_vars, NEW d \in Client, Waved(d), Frame(d)
    PROVE  Waved(d)'
<1>1. PICK t \in Row : t = req[d].at
  BY DEF TypeOK
<1>2. req'[d].at = t /\ row[d] \in Nat
  BY <1>1 DEF Frame, TypeOK, Row
<1>3. /\ EffectiveRow(t)' \in Nat /\ EffectiveRow(t) \in 1..Len(assigned)
      /\ EffectiveRow(t) <= EffectiveRow(t)' /\ HardFirstRow' = HardFirstRow
  BY EffectiveForward
<1>4. EffectiveRow(req[d].at)' = EffectiveRow(t)'
  BY <1>2
<1> QED
  BY <1>1, <1>2, <1>3, <1>4 DEF Waved, Frame

\* A statement that leaves the rows and the request's event time alone.
LEMMA KeptWaved ==
    ASSUME TypeOK, NEW c \in Client, Waved(c), assigned' = assigned, req' = req,
           pc'[c] \notin {"idle", "lockwait"}, verdict'[c] \in {verdict[c], "none", "failed"}
    PROVE  Waved(c)'
<1>1. EffectiveRow(req[c].at)' = EffectiveRow(req[c].at) /\ HardFirstRow' = HardFirstRow
  BY DEF EffectiveRow, HardFirstRow
<1> QED
  BY <1>1 DEF Waved

LEMMA OwnWaved ==
    ASSUME TypeOK, NEW c \in Client, Locking(c), Waved(c), Step(c) \/ Fault(c)
    PROVE  Waved(c)'
<1> DEFINE r == EffectiveRow(req[c].at)
<1>0. r \in Nat /\ r \in 1..Len(assigned)
  BY BoundAssumption DEF TypeOK, EffectiveRow, Row
<1>a. ASSUME assigned' = assigned, req' = req
      PROVE  EffectiveRow(req[c].at)' = r /\ HardFirstRow' = HardFirstRow
  BY <1>a DEF EffectiveRow, HardFirstRow
<1> HIDE DEF r
<1>1. CASE EndRequest(c)
  BY <1>1 DEF EndRequest, Waved, TypeOK
<1>2. CASE LockEffectiveSubjectAssignment(c)
  <2>0. EffectiveRow(req[c].at)' = r /\ HardFirstRow' = HardFirstRow
    BY <1>2, <1>a DEF LockEffectiveSubjectAssignment
  <2>1. CASE EffectivePlan(req[c].at) = NoPlan
    <3>1. pc'[c] = "find" /\ assigned[r] = NoPlan
      BY <1>2, <2>1 DEF LockEffectiveSubjectAssignment, AssessedAdvisory, EffectivePlan, TypeOK, r
    <3>2. r = 1 => ~HardFirstRow
      BY <3>1 DEF HardFirstRow
    <3> QED
      BY <2>0, <3>1, <3>2 DEF Waved
  <2>2. CASE EffectivePlan(req[c].at) # NoPlan
    <3>1. verdict' = verdict /\ row'[c] = r /\ pc'[c] # "idle"
      BY <1>2, <2>2 DEF LockEffectiveSubjectAssignment, TypeOK, r
    <3>2. verdict[c] = "advisory" /\ r = 1 => ~HardFirstRow
      BY DEF Waved, r
    <3> QED
      BY <1>0, <2>0, <3>1, <3>2 DEF Waved
  <2> QED
    BY <2>1, <2>2
<1>3. CASE LockGranted(c)
  <2>0. EffectiveRow(req[c].at)' = r /\ HardFirstRow' = HardFirstRow /\ pc[c] = "lockwait"
    BY <1>3, <1>a DEF LockGranted
  <2>1. pc'[c] \notin {"idle", "lockwait"}
    BY <1>3 DEF LockGranted, AssessedAdvisory, TypeOK
  <2>2. CASE r = row[c]
    <3>1. verdict' = verdict
      BY <1>3, <2>2 DEF LockGranted, r
    <3> QED
      BY <2>0, <2>1, <3>1 DEF Waved, r
  <2>3. CASE r # row[c]
    <3>1. row[c] \in 1..Len(assigned) /\ row[c] <= r
      BY <2>0 DEF Locking, Waved, r
    <3>2. r # 1
      BY <1>0, <2>3, <3>1
    <3> QED
      BY <2>0, <2>1, <3>2 DEF Waved
  <2> QED
    BY <2>2, <2>3
<1>4. CASE AssessConsumption(c)
  <2>0. EffectiveRow(req[c].at)' = r /\ HardFirstRow' = HardFirstRow
    BY <1>4, <1>a DEF AssessConsumption, dbVars
  <2>1. pc'[c] = "find" /\ verdict'[c] = Assessment(PlanLimit[assigned[row[c]]], counter, req[c].qty)
    BY <1>4 DEF AssessConsumption, TypeOK
  <2>2. row[c] = r
    BY <1>4 DEF AssessConsumption, Locking, r
  <2>3. verdict'[c] = "advisory" /\ r = 1 => ~HardFirstRow
    BY <2>1, <2>2 DEF Assessment, HardFirstRow
  <2> QED
    BY <2>0, <2>1, <2>3 DEF Waved
<1>5. CASE \/ FindDecision(c) /\ ~EndRequest(c)
           \/ LookupEvent(c) \/ CreateEvent(c)
  <2>1. /\ assigned' = assigned /\ req' = req /\ pc'[c] \notin {"idle", "lockwait"} /\ verdict' = verdict
    BY <1>5 DEF FindDecision, LookupEvent, CreateEvent, TypeOK, dbVars
  <2> QED
    BY <2>1, KeptWaved
<1>6. CASE Persist(c) /\ ~EndRequest(c)
  <2>1. /\ assigned' = assigned /\ req' = req /\ pc'[c] \notin {"idle", "lockwait"} /\ verdict' = verdict
    BY <1>6 DEF Persist, Commit, TypeOK
  <2> QED
    BY <2>1, KeptWaved
<1>7. ASSUME NEW next \in {"lock", "openfind"}, NEW outcome \in {"none", "failed"},
             Restart(c, next, outcome)
      PROVE  Waved(c)'
  <2>1. /\ assigned' = assigned /\ req' = req /\ pc'[c] \notin {"idle", "lockwait"}
        /\ verdict'[c] \in {"none", "failed"}
    BY <1>7 DEF Restart, TypeOK
  <2> QED
    BY <2>1, KeptWaved
<1>8. CASE FailAfterLimit(c) /\ ~Restart(c, "openfind", "failed")
  <2>1. /\ assigned' = assigned /\ req' = req /\ pc'[c] \notin {"idle", "lockwait"} /\ verdict'[c] = "failed"
    BY <1>8 DEF FailAfterLimit, TypeOK, dbVars
  <2> QED
    BY <2>1, KeptWaved
<1> QED
  BY <1>1, <1>2, <1>3, <1>4, <1>5, <1>6, <1>7, <1>8
     DEF Step, Fault, ReadBack, Commit, Abort, TxRetry, FailBeforeLimit

LEMMA WaveStep == TypeOK /\ LockInv /\ WaveInv /\ [Next]_vars => WaveInv'
<1> SUFFICES ASSUME TypeOK, LockInv, WaveInv, [Next]_vars, NEW d \in Client PROVE Waved(d)'
  BY DEF WaveInv
<1>0. Locking(d) /\ Waved(d)
  BY DEF LockInv, WaveInv
<1>1. ASSUME Frame(d) PROVE Waved(d)'
  BY <1>0, <1>1, OtherWaved
<1>2. ASSUME NEW c \in Client, Step(c) \/ Fault(c) PROVE Waved(d)'
  BY <1>0, <1>1, <1>2, OwnWaved, RequestFrame
<1>3. ASSUME NEW c \in Client, NEW k \in Key, NEW q \in Quantity, NEW t \in Row,
             Start(c, k, q, t)
      PROVE  Waved(d)'
  <2>1. CASE d # c
    BY <1>1, <1>3, <2>1, StartFrame
  <2>2. CASE d = c
    <3>1. pc[d] = "idle" /\ verdict' = verdict /\ pc'[d] \in {"idle", "lock"}
      BY <1>3, <2>2 DEF Start, TypeOK
    <3>2. verdict[d] # "advisory"
      BY <1>0, <3>1 DEF Waved
    <3> QED
      BY <1>0, <3>1, <3>2 DEF Waved
  <2> QED
    BY <2>1, <2>2
<1>4. CASE Environment
  BY <1>1, <1>4, EnvironmentFrame
<1>5. CASE UNCHANGED vars
  BY <1>1, <1>5 DEF vars, dbVars, reqVars, Frame
<1> QED
  BY <1>2, <1>3, <1>4, <1>5 DEF Next, Environment

LEMMA AssessedStep ==
    TypeOK /\ WaveInv /\ AssessedUnderHardLimit /\ [Next]_vars => AssessedUnderHardLimit'
<1> SUFFICES ASSUME TypeOK, WaveInv, AssessedUnderHardLimit, [Next]_vars, NEW k \in Key,
                    events'[k].via = "advisory", EffectiveRow(events[k].at)' = 1
             PROVE  ~HardFirstRow'
  BY DEF AssessedUnderHardLimit
<1>1. ASSUME NEW t \in Row, EffectiveRow(t)' = 1
      PROVE  EffectiveRow(t) = 1 /\ HardFirstRow' = HardFirstRow
  BY <1>1, EffectiveForward
<1>2. CASE events'[k] = events[k]
  <2>1. PICK t \in Row \cup {0} : t = events[k].at
    BY DEF TypeOK
  <2>2. EffectiveRow(t)' = 1
    BY <1>2, <2>1
  <2>3. t # 0
    <3>1. Len(assigned') \in Nat
      BY AssignedGrows
    <3> QED
      BY <2>2, <3>1 DEF EffectiveRow
  <2>4. EffectiveRow(t) = 1 /\ HardFirstRow' = HardFirstRow
    BY <1>1, <2>2, <2>3
  <2> QED
    BY <1>2, <2>1, <2>4 DEF AssessedUnderHardLimit
<1>3. ASSUME NEW c \in Client, Commit(c), events'[k] # events[k] PROVE ~HardFirstRow'
  <2>1. PICK t \in Row : t = req[c].at
    BY DEF TypeOK
  <2>2. events'[k].via = verdict[c] /\ events'[k].at = t
    BY <1>3, <2>1 DEF Commit, TypeOK
  <2>3. EffectiveRow(t)' = 1
    BY <2>2
  <2>4. EffectiveRow(t) = 1 /\ HardFirstRow' = HardFirstRow
    BY <1>1, <2>3
  <2> QED
    BY <2>1, <2>2, <2>4 DEF WaveInv, Waved
<1>4. ASSUME NEW c \in Client, Step(c) \/ Fault(c) PROVE ~HardFirstRow'
  BY <1>2, <1>3, <1>4, RequestTables
<1>5. ASSUME NEW j \in Key, NEW q \in Quantity, NEW t \in Row, Ingest(j, q, t)
      PROVE  ~HardFirstRow'
  <2>1. CASE j # k
    BY <1>2, <1>5, <2>1 DEF Ingest, TypeOK
  <2>2. CASE j = k
    BY <1>5, <2>2 DEF Ingest, TypeOK
  <2> QED
    BY <2>1, <2>2
<1>6. ASSUME NEW t \in Row, PruneEvents(t) PROVE ~HardFirstRow'
  <2>1. PICK old \in SUBSET Key :
          events' = [j \in Key |-> IF j \in old THEN NoEvent ELSE events[j]]
    BY <1>6 DEF PruneEvents
  <2>2. k \notin old
    BY <2>1 DEF NoEvent
  <2> QED
    BY <1>2, <2>1, <2>2
<1>7. CASE events' = events
  BY <1>2, <1>7
<1> QED
  BY <1>4, <1>5, <1>6, <1>7
     DEF Next, Start, BeginHandover, EndHandover, AbortHandover, DeleteSubjectAssignment,
         AgeDecisions, PruneDecisions, vars, dbVars

\* The row lock's re-check: however long a lock statement waits, an event is recorded
\* without an assessment under a hard first row only if a handover replaced that row.
THEOREM HardLimitIsAssessed == Spec => []AssessedUnderHardLimit
<1>1. Init => TypeOK /\ LockInv /\ WaveInv /\ AssessedUnderHardLimit
  <2>1. Init => LockInv
    BY GateInit DEF GateInvariant
  <2>2. Init => WaveInv
    BY DEF Init, WaveInv, Waved
  <2>3. Init => AssessedUnderHardLimit
    BY DEF Init, AssessedUnderHardLimit, NoEvent
  <2> QED
    BY <2>1, <2>2, <2>3, InitType
<1>2. TypeOK /\ LockInv /\ WaveInv /\ AssessedUnderHardLimit /\ [Next]_vars
        => (TypeOK /\ LockInv /\ WaveInv /\ AssessedUnderHardLimit)'
  BY TypeStep, LockStep, WaveStep, AssessedStep
<1> QED
  BY <1>1, <1>2, PTL DEF Spec

----------------------------------------------------------------------------
(* The counter and the events it counts.                                   *)

\* A request that has inserted its event is about to commit it under a key that has
\* none, and nobody else has an insert open; only such a request moves the counter.
Writing(c) ==
    /\ counted[c] => wrote[c]
    /\ wrote[c] => pc[c] \in {"persist", "readback"} /\ events[req[c].key] = NoEvent
WriterInv ==
    /\ \A c \in Client : Writing(c)
    /\ \A c, d \in Client : wrote[c] /\ wrote[d] => c = d

LEMMA RequestCharges ==
    ASSUME TypeOK, NEW c \in Client, Step(c) \/ Fault(c)
    PROVE  dropped' = dropped /\ (Commit(c) \/ UNCHANGED <<events, counter>>)
BY DEF Step, Fault, LockEffectiveSubjectAssignment, LockGranted, AssessConsumption,
       FindDecision, LookupEvent, CreateEvent, Persist, ReadBack, Abort, TxRetry,
       FailBeforeLimit, FailAfterLimit, Restart, dbVars, pruneVars

LEMMA EnvironmentCharges ==
    ASSUME TypeOK,
           \/ Environment
           \/ \E c \in Client, k \in Key, q \in Quantity, t \in Row : Start(c, k, q, t)
           \/ UNCHANGED vars
    PROVE  \/ UNCHANGED <<events, counter, dropped>>
           \/ \E k \in Key, q \in Quantity, t \in Row : Ingest(k, q, t)
           \/ \E t \in Row : PruneEvents(t)
BY DEF Environment, BeginHandover, EndHandover, AbortHandover, Start, vars, dbVars,
       DeleteSubjectAssignment, AgeDecisions, PruneDecisions, pruneVars

\* A request's own insert.
LEMMA OwnWriting ==
    ASSUME TypeOK, WriterInv, NEW c \in Client, Step(c) \/ Fault(c)
    PROVE  /\ Writing(c)'
           /\ wrote'[c] => wrote[c] \/ \A d \in Client : ~wrote[d]
<1>0. Writing(c)
  BY DEF WriterInv
<1>1. CASE EndRequest(c)
  <2>1. ~wrote'[c] /\ ~counted'[c]
    BY <1>1 DEF EndRequest, TypeOK
  <2> QED
    BY <2>1 DEF Writing
<1>2. CASE CreateEvent(c)
  <2>1. pc[c] = "create" /\ ~wrote[c] /\ ~counted[c]
    BY <1>0, <1>2 DEF CreateEvent, Writing
  <2>2. pc'[c] = "persist" /\ UNCHANGED <<events, req>>
    BY <1>2 DEF CreateEvent, TypeOK, dbVars
  <2>3. CASE UNCHANGED <<wrote, counted>>
    BY <2>1, <2>3 DEF Writing
  <2>4. CASE events[req[c].key] = NoEvent /\ wrote' = [wrote EXCEPT ![c] = TRUE]
    <3>1. wrote'[c]
      BY <2>4 DEF TypeOK
    <3>2. \A d \in Client : ~wrote[d]
      BY <1>2, <2>3, <2>4, <2>1, <3>1 DEF CreateEvent
    <3> QED
      BY <2>2, <2>4, <3>1, <3>2 DEF Writing
  <2> QED
    BY <1>2, <2>3, <2>4 DEF CreateEvent
<1>3. CASE UNCHANGED <<wrote, counted, events, req>> /\ (pc[c] \in {"persist", "readback"} => pc'[c] = "readback")
  BY <1>0, <1>3 DEF Writing
<1>4. CASE Persist(c) /\ ~EndRequest(c)
  <2>1. UNCHANGED <<wrote, counted, events, req>> /\ pc'[c] = "readback"
    BY <1>4 DEF Persist, Commit, TypeOK
  <2> QED
    BY <1>3, <2>1
<1>5. CASE TxRetry(c) \/ FailBeforeLimit(c) \/ FailAfterLimit(c)
  <2>1. pc[c] \notin {"persist", "readback"} /\ UNCHANGED <<wrote, counted, events, req>>
    BY <1>5 DEF TxRetry, FailBeforeLimit, FailAfterLimit, Restart, dbVars
  <2> QED
    BY <1>3, <2>1
<1>6. CASE LockEffectiveSubjectAssignment(c) \/ LockGranted(c) \/ AssessConsumption(c) \/ LookupEvent(c)
           \/ (FindDecision(c) /\ ~EndRequest(c))
  <2>1. pc[c] \notin {"persist", "readback"} /\ UNCHANGED <<wrote, counted, events, req>>
    BY <1>6 DEF LockEffectiveSubjectAssignment, LockGranted, AssessConsumption, LookupEvent, FindDecision, dbVars
  <2> QED
    BY <1>3, <2>1
<1> QED
  BY <1>1, <1>2, <1>4, <1>5, <1>6 DEF Step, Fault, ReadBack, Commit, Abort

LEMMA WriterStep == TypeOK /\ WriterInv /\ [Next]_vars => WriterInv'
<1> SUFFICES ASSUME TypeOK, WriterInv, [Next]_vars PROVE WriterInv'
  OBVIOUS
<1>1. ASSUME NEW c \in Client, Step(c) \/ Fault(c) PROVE WriterInv'
  <2>1. Writing(c)' /\ (wrote'[c] => wrote[c] \/ \A d \in Client : ~wrote[d])
    BY <1>1, OwnWriting
  <2>2. \A d \in Client : d # c => Frame(d)
    BY <1>1, RequestFrame
  <2>3. ASSUME NEW d \in Client, d # c PROVE Writing(d)'
    <3>1. Frame(d) /\ Writing(d)
      BY <2>2, <2>3 DEF WriterInv
    <3>2. ASSUME wrote[d] PROVE events'[req[d].key] = events[req[d].key]
      <4>1. ~wrote[c]
        BY <2>3, <3>2 DEF WriterInv
      <4> QED
        BY <1>1, <4>1, RequestCharges DEF Commit
    <3> QED
      BY <3>1, <3>2 DEF Frame, Writing
  <2> QED
    BY <2>1, <2>2, <2>3 DEF WriterInv, Frame
<1>2. ASSUME NEW c \in Client, NEW k \in Key, NEW q \in Quantity, NEW t \in Row, Start(c, k, q, t)
      PROVE  WriterInv'
  <2>1. UNCHANGED <<events, wrote, counted>> /\ pc[c] = "idle"
    BY <1>2 DEF Start, dbVars
  <2>2. \A d \in Client : d # c => Frame(d)
    BY <1>2, StartFrame
  <2>3. ~wrote[c] /\ ~counted[c]
    BY <2>1 DEF WriterInv, Writing
  <2> QED
    BY <2>1, <2>2, <2>3 DEF WriterInv, Writing, Frame
<1>3. CASE Environment
  <2>1. UNCHANGED <<wrote, counted, pc, req>>
    BY <1>3 DEF Environment, Ingest, BeginHandover, EndHandover, AbortHandover,
                DeleteSubjectAssignment, AgeDecisions, PruneDecisions, PruneEvents, reqVars
  <2>2. CASE UNCHANGED events
    BY <2>1, <2>2 DEF WriterInv, Writing
  <2>3. CASE \A d \in Client : ~wrote[d]
    BY <2>1, <2>3 DEF WriterInv, Writing
  <2> QED
    BY <1>3, <2>2, <2>3, EnvironmentCharges DEF Ingest, PruneEvents
<1>4. CASE UNCHANGED vars
  BY <1>4 DEF vars, dbVars, reqVars, WriterInv, Writing
<1> QED
  BY <1>1, <1>2, <1>3, <1>4 DEF Next, Environment

\* An event that appears under a free key moves the total by what it is counted with.
LEMMA ChargedEvent ==
    ASSUME TypeOK, NEW k \in Key, NEW n, n \in [qty : Nat, via : Verdict \cup {"ingest"},
                                                at : Row \cup {0}, counted : BOOLEAN],
           events[k] = NoEvent, events' = [events EXCEPT ![k] = n], dropped' = dropped
    PROVE  Total(Charged') = Total(Charged) + Charge(n)
<1>0. Charge(n) \in Nat /\ dropped \in [Key -> Nat] /\ \A j \in Key : Charge(events[j]) \in Nat
  BY ChargeType DEF TypeOK
<1>a. /\ events'[k] = n /\ \A j \in Key \ {k} : events'[j] = events[j]
  BY DEF TypeOK
<1>1. Charged \in [Key -> Nat]
  BY <1>0 DEF Charged
<1>2. Charged' \in [Key -> Nat]
  <2>1. \A j \in Key : Charge(events'[j]) \in Nat
    BY <1>0, <1>a
  <2> QED
    BY <1>0, <2>1 DEF Charged
<1>3. \A j \in Key \ {k} : Charged'[j] = Charged[j]
  BY <1>a DEF Charged
<1>4. Charged[k] = dropped[k] /\ Charged'[k] = dropped[k] + Charge(n) /\ dropped[k] \in Nat
  <2>1. Charge(NoEvent) = 0
    BY DEF Charge, NoEvent
  <2> QED
    BY <1>0, <1>a, <2>1 DEF Charged
<1>5. /\ Total(Charged) \in Nat /\ Total(Charged') \in Nat
      /\ Total(Charged') = Total(Charged) - Charged[k] + Charged'[k]
  BY <1>1, <1>2, <1>3, FiniteKeyAssumption, TotalChanges
<1> QED
  BY <1>0, <1>4, <1>5

\* What retention deletes stays in what the counter was charged.
LEMMA ChargedPrune ==
    ASSUME TypeOK, NEW t \in Row, PruneEvents(t)
    PROVE  Charged' = Charged /\ counter' = counter
<1>1. PICK old \in SUBSET Key :
        /\ events' = [k \in Key |-> IF k \in old THEN NoEvent ELSE events[k]]
        /\ dropped' = [k \in Key |-> IF k \in old THEN dropped[k] + Charge(events[k])
                                               ELSE dropped[k]]
  BY DEF PruneEvents
<1>2. \A k \in Key : Charge(events[k]) \in Nat /\ dropped[k] \in Nat
  BY ChargeType DEF TypeOK
<1>3. Charge(NoEvent) = 0
  BY DEF Charge, NoEvent
<1>4. \A k \in Key : dropped'[k] + Charge(events'[k]) = dropped[k] + Charge(events[k])
  BY <1>1, <1>2, <1>3
<1> QED
  BY <1>4 DEF Charged, PruneEvents

LEMMA CounterStep ==
    TypeOK /\ WriterInv /\ CounterMatchesEvents /\ [Next]_vars => CounterMatchesEvents'
<1> SUFFICES ASSUME TypeOK, WriterInv, CounterMatchesEvents, [Next]_vars PROVE counter' = Total(Charged')
  BY DEF CounterMatchesEvents
<1>0. counter = Total(Charged) /\ counter \in Nat
  BY DEF CounterMatchesEvents, TypeOK
<1>1. CASE UNCHANGED <<events, counter, dropped>>
  BY <1>0, <1>1 DEF Charged
<1>2. ASSUME NEW c \in Client, Commit(c), dropped' = dropped PROVE counter' = Total(Charged')
  <2> DEFINE n == [qty |-> req[c].qty, via |-> verdict[c], at |-> req[c].at, counted |-> counted[c]]
  <2>1. req[c].key \in Key /\ req[c].qty \in Nat
    BY QuantityAssumption DEF TypeOK
  <2>2. CASE wrote[c]
    <3>1. events' = [events EXCEPT ![req[c].key] = n]
      BY <1>2, <2>2 DEF Commit
    <3>2. events[req[c].key] = NoEvent
      BY <2>2 DEF WriterInv, Writing
    <3>3. n \in [qty : Nat, via : Verdict \cup {"ingest"}, at : Row \cup {0}, counted : BOOLEAN]
      BY <2>1 DEF TypeOK
    <3>4. counter' = counter + Charge(n)
      BY <1>0, <1>2, <2>1 DEF Commit, Charge
    <3> HIDE DEF n
    <3> QED
      BY <1>0, <1>2, <2>1, <3>1, <3>2, <3>3, <3>4, ChargedEvent
  <2>3. CASE ~wrote[c]
    <3>1. ~counted[c]
      BY <2>3 DEF WriterInv, Writing
    <3> QED
      BY <1>1, <1>2, <2>3, <3>1 DEF Commit
  <2> QED
    BY <2>2, <2>3
<1>3. ASSUME NEW k \in Key, NEW q \in Quantity, NEW t \in Row, Ingest(k, q, t)
      PROVE  counter' = Total(Charged')
  <2> DEFINE n == [qty |-> q, via |-> "ingest", at |-> t, counted |-> EffectivePlan(t) # NoPlan]
  <2>1. events[k] = NoEvent /\ events' = [events EXCEPT ![k] = n]
    BY <1>3 DEF Ingest
  <2>2. n \in [qty : Nat, via : Verdict \cup {"ingest"}, at : Row \cup {0}, counted : BOOLEAN]
    BY QuantityAssumption
  <2>3. counter' = counter + Charge(n)
    <3>1. counter' = IF EffectivePlan(t) # NoPlan THEN counter + q ELSE counter
      BY <1>3 DEF Ingest
    <3>2. n.qty = q /\ (n.counted <=> EffectivePlan(t) # NoPlan)
      OBVIOUS
    <3> HIDE DEF n
    <3> QED
      BY <1>0, <3>1, <3>2 DEF Charge
  <2>4. dropped' = dropped
    BY <1>3 DEF Ingest
  <2> HIDE DEF n
  <2> QED
    BY <1>0, <2>1, <2>2, <2>3, <2>4, ChargedEvent
<1>4. ASSUME NEW t \in Row, PruneEvents(t) PROVE counter' = Total(Charged')
  BY <1>0, <1>4, ChargedPrune
<1> QED
  BY <1>1, <1>2, <1>3, <1>4, RequestCharges, EnvironmentCharges DEF Next, Environment

\* The counter a request is assessed against is the sum of the events that were
\* counted (service.Consume and usage.Create in one transaction), also of those
\* retention has deleted since: no replay, retry, duplicate or lost race is charged
\* twice or not at all.
THEOREM CounterIsTheSum == Spec => []CounterMatchesEvents
<1>1. Init => TypeOK /\ WriterInv /\ CounterMatchesEvents
  <2>1. Init => WriterInv
    BY DEF Init, WriterInv, Writing
  <2>2. Init => Charged = [k \in Key |-> 0]
    BY DEF Init, Charged, Charge, NoEvent
  <2>3. Init => CounterMatchesEvents
    BY <2>2, FiniteKeyAssumption, TotalOfZeros DEF Init, CounterMatchesEvents
  <2> QED
    BY <2>1, <2>3, InitType
<1>2. TypeOK /\ WriterInv /\ CounterMatchesEvents /\ [Next]_vars
        => (TypeOK /\ WriterInv /\ CounterMatchesEvents)'
  BY TypeStep, WriterStep, CounterStep
<1> QED
  BY <1>1, <1>2, PTL DEF Spec
============================================================================
