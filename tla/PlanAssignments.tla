--------------------------- MODULE PlanAssignments ---------------------------
(***************************************************************************)
(* The plan of one subject: assignments with a start and an end, made now  *)
(* or scheduled, plan updates that retire a version and move its subjects  *)
(* to the next, and the removal of the subject from its plan.              *)
(*                                                                         *)
(* A call reads the plan, the clock and the rows its statements will see,  *)
(* and commits later: an UPDATE then changes the rows it saw, in their     *)
(* newest version, and not the rows that were inserted meanwhile.  The     *)
(* clock moves in steps of two, so that one is the nanosecond UpdatePlan   *)
(* adds.  A row is identified by its start, which is unique.               *)
(***************************************************************************)
EXTENDS Integers, FiniteSets, Functions

CONSTANTS
    Plan,            \* plans, each with versions
    Caller,          \* requests
    MaxTime,         \* bound: the clock
    MaxCalls,        \* bound: assignments and updates
    MaxUpdates       \* bound: updates of plans

VARIABLES
    now,             \* the clock
    current,         \* each plan's current version
    rows,            \* plan_subject_assignments of the subject
    apc, call,       \* each caller: where it is, and what it read
    overlapping,     \* history: two calls have been under way together since the subject
                     \* was last assigned or removed by a call of its own
    calls, updates

vars == <<now, current, rows, apc, call, overlapping, calls, updates>>

Never == MaxTime + MaxUpdates + 1    \* unassigned_at IS NULL: after every start
Time == 0..Never
Row == [at : Time, until : Time, plan : Plan, version : 1..(MaxUpdates + 1)]
Call == [plan : Plan, version : 1..(MaxUpdates + 1), time : 0..MaxTime, at : 0..MaxTime, seen : SUBSET Row]
NoCall == [plan |-> CHOOSE p \in Plan : TRUE, version |-> 1, time |-> 0, at |-> 0, seen |-> {}]

TypeOK ==
    /\ now \in 0..MaxTime
    /\ current \in [Plan -> 1..(MaxUpdates + 1)]
    /\ rows \subseteq Row
    /\ apc \in [Caller -> {"idle", "assigning", "updating"}]
    /\ call \in [Caller -> Call]
    /\ overlapping \in BOOLEAN /\ calls \in 0..MaxCalls /\ updates \in 0..MaxUpdates

Init ==
    /\ now = 0 /\ current = [p \in Plan |-> 1] /\ rows = {}
    /\ apc = [c \in Caller |-> "idle"] /\ call = [c \in Caller |-> NoCall]
    /\ overlapping = FALSE /\ calls = 0 /\ updates = 0

----------------------------------------------------------------------------
(* SaveSubjectAssignment.                                                  *)

\* (mutant) what is scheduled stays scheduled
EndOnly(r, visible, time, at) ==
    IF r.at \in visible /\ r.at < at /\ r.until > at THEN [r EXCEPT !.until = at] ELSE r

\* CancelPendingPlanSubjectAssignments and EndEffectivePlanSubjectAssignments on one
\* of the visible rows.
CancelOrEnd(r, visible, time, at) ==
    LET pending == IF r.at \in visible /\ r.at > time /\ r.until > time
                   THEN [r EXCEPT !.until = time] ELSE r
    IN IF pending.at \in visible /\ pending.at < at /\ pending.until > at
       THEN [pending EXCEPT !.until = at] ELSE pending

Saved(set, visible, time, at, plan, version) ==
    {CancelOrEnd(r, visible, time, at) : r \in set}
        \cup {[at |-> at, until |-> Never, plan |-> plan, version |-> version]}

Starts(set) == {r.at : r \in set}

----------------------------------------------------------------------------
(* The calls.                                                              *)

Enter(c, place, plan, at) ==
    /\ apc[c] = "idle" /\ apc' = [apc EXCEPT ![c] = place]
    /\ calls < MaxCalls /\ calls' = calls + 1
    /\ call' = [call EXCEPT ![c] = [plan |-> plan, version |-> current[plan], time |-> now,
                                    at |-> at, seen |-> rows]]
    /\ overlapping' = (overlapping \/ \E d \in Caller : apc[d] # "idle")
    /\ UNCHANGED <<now, current, rows>>

Leave(c) == apc' = [apc EXCEPT ![c] = "idle"] /\ call' = [call EXCEPT ![c] = NoCall]

\* AssignSubject for now or for later.
AssignSubject(c, plan, at) == at >= now /\ at <= MaxTime /\ Enter(c, "assigning", plan, at)
                              /\ UNCHANGED updates

\* An assignment for now, beside which nothing else happened.
Undisturbed(c) ==
    /\ call[c].at = call[c].time /\ call[c].seen = rows /\ call[c].version = current[call[c].plan]
    /\ \A d \in Caller \ {c} : apc[d] = "idle"

\* A second row with the same start is a conflict.
CommitAssignment(c) ==
    /\ apc[c] = "assigning" /\ Leave(c)
    /\ \/ /\ call[c].at \notin Starts(rows)
          /\ rows' = Saved(rows, Starts(call[c].seen), call[c].time, call[c].at,
                           call[c].plan, call[c].version)
          /\ overlapping' = (overlapping /\ ~Undisturbed(c))
       \/ call[c].at \in Starts(rows) /\ UNCHANGED <<rows, overlapping>>
    /\ UNCHANGED <<now, current, calls, updates>>

UpdatePlan(c, plan) ==
    /\ updates < MaxUpdates /\ updates' = updates + 1
    /\ Enter(c, "updating", plan, now)

\* The assignments UpdatePlan lists: of the version, not over yet; the most recently
\* updated first, which is left open.
Listed(k) == {r \in k.seen : r.plan = k.plan /\ r.version = k.version /\ r.until > k.time}
Orders(set) == Bijection(1..Cardinality(set), set)

\* When one of them moves to the next version: now, or one nanosecond after its start.
MoveAt(k, r) == IF k.time > r.at THEN k.time ELSE r.at + 1

\* SaveSubjectAssignment within UpdatePlan, which sees what the loop inserted before.
Moved(set, k, at) ==
    Saved(set, Starts(k.seen) \cup (Starts(set) \ Starts(rows)), at, at, k.plan, k.version + 1)

MovedAll(k, order) ==
    LET after[i \in 0..Cardinality(Listed(k))] ==
            IF i = 0 THEN rows ELSE Moved(after[i - 1], k, MoveAt(k, order[i]))
    IN after[Cardinality(Listed(k))]

\* Two moves to one start, or one to a start there is already, are a conflict.
Collide(k) ==
    \/ \E r \in Listed(k) : MoveAt(k, r) \in Starts(rows)
    \/ \E r, s \in Listed(k) : r # s /\ MoveAt(k, r) = MoveAt(k, s)

\* RetirePlan finds a version that is still current and no insert fails, or nothing is
\* saved.
CommitUpdate(c) ==
    LET k == call[c] IN
    /\ apc[c] = "updating" /\ Leave(c)
    /\ \/ /\ current[k.plan] = k.version /\ ~Collide(k)
          /\ current' = [current EXCEPT ![k.plan] = k.version + 1]
          /\ \E order \in Orders(Listed(k)) : rows' = MovedAll(k, order)
       \/ (current[k.plan] # k.version \/ Collide(k)) /\ UNCHANGED <<current, rows>>
    /\ UNCHANGED <<now, overlapping, calls, updates>>

\* One statement ends what is effective and what is scheduled.
DeleteSubjectAssignment ==
    /\ \E r \in rows : r.until > now
    /\ rows' = {IF r.until > now THEN [r EXCEPT !.until = now] ELSE r : r \in rows}
    /\ overlapping' = (overlapping /\ \E c \in Caller : apc[c] # "idle")
    /\ UNCHANGED <<now, current, apc, call, calls, updates>>

Tick ==
    /\ now + 2 <= MaxTime /\ now' = now + 2
    /\ UNCHANGED <<current, rows, apc, call, overlapping, calls, updates>>

----------------------------------------------------------------------------
Next ==
    \/ \E c \in Caller, p \in Plan :
          (\E at \in {t \in 0..MaxTime : t % 2 = 0} : AssignSubject(c, p, at)) \/ UpdatePlan(c, p)
    \/ \E c \in Caller : CommitAssignment(c) \/ CommitUpdate(c)
    \/ DeleteSubjectAssignment \/ Tick

Spec == Init /\ [][Next]_vars

----------------------------------------------------------------------------
(* Properties.                                                             *)

Effective == {r \in rows : r.at <= now /\ now < r.until}

\* However assignments, schedules, plan updates and removals follow each other, the
\* subject has at most one plan at a time, in its current version: except in the
\* instant a scheduled assignment starts, which UpdatePlan leaves to the version it
\* retired, and unless two calls overlapped.  What overlapping calls leave behind, two
\* open assignments or a retired version, the next assignment or removal repairs.
OneCurrentPlan ==
    ~overlapping =>
        /\ Cardinality(Effective) <= 1
        /\ \A r \in Effective : r.version = current[r.plan] \/ r.at = now
============================================================================
