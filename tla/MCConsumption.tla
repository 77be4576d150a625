--------------------------- MODULE MCConsumption ---------------------------
(* Instances of Consumption for TLC. *)
EXTENDS Consumption, TLC

CONSTANTS c1, c2, c3, k1, k2, p1, p2

Hard(n, policy) == [included |-> TRUE, limit |-> n, enforcement |-> "hard",
                    failurePolicy |-> policy]

\* hard limits under both failure policies
HardPlans == (p1 :> Hard(1, "fail_open")) @@ (p2 :> Hard(1, "fail_closed"))
\* a hard limit, and a version of the plan that does not include the meter
NarrowedPlans == (p1 :> Hard(1, "fail_closed")) @@
                 (p2 :> [included |-> FALSE, limit |-> 0, enforcement |-> "advisory",
                         failurePolicy |-> "fail_open"])
\* an update of a hard plan that leaves its limit alone
UpdatedPlans == (p1 :> Hard(1, "fail_open")) @@ (p2 :> Hard(1, "fail_open"))

\* Requests and keys are interchangeable: the key CHOOSE picks for NoRequest is a
\* placeholder that no action and no property reads.
RequestSymmetry == Permutations(Client) \cup Permutations(Key)

\* Bound: the subject starts under the hard limit, and is then moved to the version
\* without the meter, updated or unassigned.
HardFirst == assigned[1] = p1

\* "concurrent requests cannot all pass against the same remaining quota": what
\* all rows of the period grant together stays within the largest limit in force.
GrantsShareQuota ==
    Total(granted) <= Max({PlanLimit[p].limit : p \in Plan})
============================================================================
