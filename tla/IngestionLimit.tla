--------------------------- MODULE IngestionLimit ---------------------------
(***************************************************************************)
(* The ingestion rate limit of one workspace: a single row with the newest *)
(* window and its count.  A request computes its window from the clock and *)
(* reaches the row later; a request that is refused writes the row again.  *)
(* Ingestion does both before its own transaction, Consume within it, so   *)
(* that a rollback of Consume undoes what it wrote.                        *)
(***************************************************************************)
EXTENDS Integers

CONSTANTS
    Caller,          \* ingesting requests
    RateEvents,      \* OPEN_SPANNER_INGESTION_RATE_EVENTS
    MaxWindow        \* bound: windows the clock passes

VARIABLES
    clock,           \* the current window
    window, permitted, throttled,   \* the row
    lpc, mine, size, \* each request: where it is, its window and its events
    admitted,        \* history: events admitted in each window
    late             \* history: how often a request wrote the row of a newer window

vars == <<clock, window, permitted, throttled, lpc, mine, size, admitted, late>>

Window == 0..MaxWindow
MaxThrottled == RateEvents + 1    \* bound: events counted as throttled

TypeOK ==
    /\ clock \in Window /\ window \in Window
    /\ permitted \in 0..RateEvents /\ throttled \in 0..MaxThrottled
    /\ lpc \in [Caller -> {"idle", "consuming", "throttling"}]
    /\ mine \in [Caller -> Window] /\ size \in [Caller -> 0..RateEvents + 1]
    /\ admitted \in [Window -> Nat] /\ late \in Nat

Init ==
    /\ clock = 0 /\ window = 0 /\ permitted = 0 /\ throttled = 0
    /\ lpc = [c \in Caller |-> "idle"] /\ mine = [c \in Caller |-> 0] /\ size = [c \in Caller |-> 0]
    /\ admitted = [v \in Window |-> 0] /\ late = 0

CheckCapacity(c, n) ==
    /\ lpc[c] = "idle" /\ lpc' = [lpc EXCEPT ![c] = "consuming"]
    /\ mine' = [mine EXCEPT ![c] = clock] /\ size' = [size EXCEPT ![c] = n]
    /\ UNCHANGED <<clock, window, permitted, throttled, admitted, late>>

\* (mutant) the request's own events are not counted against the limit
AllowedBefore(c) == IF window = mine[c] THEN permitted < RateEvents ELSE 0 < RateEvents

\* The WHERE clause of the upsert: the count starts again in another window.
Allowed(c) == (IF window = mine[c] THEN permitted ELSE 0) + size[c] <= RateEvents

Done(c) == mine' = [mine EXCEPT ![c] = 0] /\ size' = [size EXCEPT ![c] = 0]

Arrive(c) == late' = IF mine[c] < window THEN late + 1 ELSE late

ConsumeCapacity(c) ==
    /\ lpc[c] = "consuming"
    /\ \/ /\ Allowed(c) /\ lpc' = [lpc EXCEPT ![c] = "idle"] /\ Done(c)
          /\ window' = mine[c]
          /\ permitted' = (IF window = mine[c] THEN permitted ELSE 0) + size[c]
          /\ throttled' = IF window = mine[c] THEN throttled ELSE 0
          /\ admitted' = [admitted EXCEPT ![mine[c]] = @ + size[c]]
          /\ Arrive(c)
       \/ /\ ~Allowed(c) /\ lpc' = [lpc EXCEPT ![c] = "throttling"]
          /\ UNCHANGED <<mine, size, window, permitted, throttled, admitted, late>>
    /\ UNCHANGED clock

\* The refused request is counted, in its window, which it makes the row's.
CountThrottled(c) ==
    /\ lpc[c] = "throttling" /\ lpc' = [lpc EXCEPT ![c] = "idle"] /\ Done(c)
    /\ window' = mine[c]
    /\ permitted' = IF window = mine[c] THEN permitted ELSE 0
    /\ throttled' = (IF window = mine[c] THEN throttled ELSE 0) + size[c]
    /\ throttled' <= MaxThrottled
    /\ Arrive(c)
    /\ UNCHANGED <<clock, admitted>>

\* The request fails in or after the upsert and its transaction rolls back (Consume,
\* also when it was refused), or the statement itself fails: the row is as before.
Rollback(c) ==
    /\ lpc[c] \in {"consuming", "throttling"}
    /\ lpc' = [lpc EXCEPT ![c] = "idle"] /\ Done(c)
    /\ UNCHANGED <<clock, window, permitted, throttled, admitted, late>>

NextWindow ==
    /\ clock < MaxWindow /\ clock' = clock + 1
    /\ UNCHANGED <<window, permitted, throttled, lpc, mine, size, admitted, late>>

Next ==
    \/ NextWindow
    \/ \E c \in Caller : \/ \E n \in 1..(RateEvents + 1) : CheckCapacity(c, n)
                         \/ ConsumeCapacity(c) \/ CountThrottled(c) \/ Rollback(c)

Spec == Init /\ [][Next]_vars

\* No window admits more events than the limit, whichever requests are refused,
\* roll back or wait between reading the clock and the row; a request that comes to
\* the row of a newer window, and so takes the count away from it, costs at most one
\* more limit.
WindowWithinLimit == \A v \in Window : admitted[v] <= RateEvents * (1 + late)
============================================================================
