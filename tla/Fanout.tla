------------------------------- MODULE Fanout -------------------------------
(***************************************************************************)
(* What the usage outbox promises: every accepted usage event is owed to   *)
(* the downstream queues until it is settled, and it is settled only once  *)
(* each queue has received it, or given up as a dead letter.  A queue may  *)
(* receive an event more than once.                                        *)
(***************************************************************************)
CONSTANTS Event, Queue

VARIABLES
    state,     \* [Event -> what is owed]
    received   \* [Event -> queues that have received the event]

TypeOK ==
    /\ state \in [Event -> {"none", "owed", "settled", "dead"}]
    /\ received \in [Event -> SUBSET Queue]

Init ==
    /\ state = [e \in Event |-> "none"]
    /\ received = [e \in Event |-> {}]

Move(e, from, to) == state[e] = from /\ state' = [state EXCEPT ![e] = to]

Accept(e) == Move(e, "none", "owed") /\ UNCHANGED received
Settle(e) == Move(e, "owed", "settled") /\ received[e] = Queue /\ UNCHANGED received
GiveUp(e) == Move(e, "owed", "dead") /\ UNCHANGED received

Receive(e, q) ==
    /\ state[e] # "none"
    /\ received' = [received EXCEPT ![e] = @ \cup {q}]
    /\ UNCHANGED state

Next ==
    \E e \in Event :
        \/ Accept(e) \/ Settle(e) \/ GiveUp(e)
        \/ \E q \in Queue : Receive(e, q)

Spec == Init /\ [][Next]_<<state, received>>
=============================================================================
