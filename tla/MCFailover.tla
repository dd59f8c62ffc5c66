------------------------------ MODULE MCFailover ------------------------------
(* Instances of Failover for TLC. *)
EXTENDS Failover, TLC

Some(kinds) == [d \in Disturbances |-> IF d \in kinds THEN 1 ELSE 0]

\* A node is lost while MAAS is slow, while its answers are errors, or while
\* an update is on its way; or two are lost in turn.
Usual == {
    [Some({"lose"}) EXCEPT !["lose"] = 2], Some({"lose", "api"}),
    Some({"lose", "timeout", "raise"}),
    [Some({"error", "api"}) EXCEPT !["error"] = 2],
    Some({"lose", "refuse", "error"}),
    Some({"lose", "off"})}
=============================================================================
