------------------------------- MODULE MCRing -------------------------------
(* Instances of Ring for TLC. *)
EXTENDS Ring, TLC

CONSTANTS u1, u2, u3

Start(formed, kinds) ==
    [formed |-> formed,
     budget |-> [d \in Disturbances |-> IF d \in kinds THEN 1 ELSE 0]]

\* Nothing is there yet.
Deployment == {Start({}, {})}
\* A third unit joins, or the machine of one of three is lost.
GrowthAndLoss ==
    {Start({u1, u2}, {"ha"}),
     Start(Unit, {"lost", "leader", "upgrade", "repair"}),
     Start(Unit, {"lost", "config", "repair"})}
\* What can go wrong in a cluster of three, and in one that the third unit joins.
Faults ==
    {Start(Unit, {"stop", "delete", "fail", "pause", "repair"}),
     Start(Unit, {"stop", "fail", "pause", "config", "upgrade", "repair"})}
    \cup {Start(Unit \ {u}, {"fail", "pause"}) : u \in Unit}

\* Where no start names a unit the units are interchangeable.
Sym == Permutations(Unit)
=============================================================================
