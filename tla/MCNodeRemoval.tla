---------------------------- MODULE MCNodeRemoval ----------------------------
(* Instances of NodeRemoval for TLC. *)
EXTENDS NodeRemoval, TLC

Once(kinds) == [d \in Disturbances |-> IF d \in kinds THEN 1 ELSE 0]

\* The three callers against each other, with each kind of mishap.
Usual == {
    Once({"remove", "update", "delete", "half", "other"}),
    Once({"remove", "leader", "update", "rejoin", "other"}),
    Once({"remove", "leader", "update", "delete", "kill"}),
    [Once({"remove", "update", "half"}) EXCEPT !["remove"] = 2],
    [Once({"remove", "retryable", "rejoin"}) EXCEPT !["retryable"] = 3]}

\* update-ring once a unit is removed.
Cleanup == {Once({"remove", "update"})}
=============================================================================
