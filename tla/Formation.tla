------------------------------ MODULE Formation ------------------------------
(***************************************************************************)
(* What the exchange over `hanode' promises, without hooks, files and      *)
(* corosync: units say that they are ready, and a unit says that it is a   *)
(* member when cluster_count of them, itself included, have said so.       *)
(* Neither is ever taken back.                                             *)
(***************************************************************************)
CONSTANTS
    Unit,     \* the units that may exist
    Enough,   \* the sets of cluster_count units, or more
    Initial   \* the clusters that may be there at the start

VARIABLES
    ready,   \* the units that have published ready
    member   \* the units that have published member_ready

Init ==
    /\ ready \in Initial
    /\ member = ready

BecomeReady(u) ==
    /\ ready' = ready \cup {u}
    /\ UNCHANGED member

BecomeMember(u) ==
    /\ ready \cup {u} \in Enough
    /\ ready' = ready \cup {u}
    /\ member' = member \cup {u}

Next == \E u \in Unit : BecomeReady(u) \/ BecomeMember(u)

Spec == Init /\ [][Next]_<<ready, member>>
=============================================================================
