--------------------------- MODULE MCClusterOptions ---------------------------
(* Instances of ClusterOptions for TLC. *)
EXTENDS ClusterOptions

Allowed(kinds, n) == [d \in Disturbances |-> IF d \in kinds THEN n ELSE 0]

\* Three changes of the options in a row, or each disturbance once: all of them
\* before a remote leaves, and those that reach stonith when it does.
UsualBudgets ==
    {Allowed({"config"}, 3), Allowed(Disturbances \ {"left"}, 1),
     Allowed(Disturbances \ {"config"}, 1)}
=============================================================================
