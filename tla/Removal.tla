------------------------------- MODULE Removal -------------------------------
(* What a removal of nodes from the cluster promises to whoever asked for   *)
(* it: nobody is told of a success before each of the nodes was seen to be  *)
(* gone, and no node goes that nobody has asked to go.                      *)
EXTENDS Naturals

CONSTANT Node

VARIABLES
    present,  \* the nodes of the cluster
    asked,    \* by caller: the nodes it still waits to see gone
    answer    \* by caller: "none", "success" or "failed"

vars == <<present, asked, answer>>

Init ==
    /\ present = Node
    /\ asked = [u \in Node |-> {}]
    /\ answer = [u \in Node |-> "success"]

Ask(u, nodes) ==
    /\ asked[u] = {}
    /\ asked' = [asked EXCEPT ![u] = nodes]
    /\ answer' = [answer EXCEPT ![u] = "none"]
    /\ UNCHANGED present

\* The set of nodes after one that was asked for may have gone.
After(n) == present' \in {present, present \ {n}}

Goes(n) ==
    /\ \E u \in Node : n \in asked[u]
    /\ present' = present \ {n}
    /\ UNCHANGED <<asked, answer>>

Rejoins(n) == present' = present \cup {n} /\ UNCHANGED <<asked, answer>>

Seen(u, n) ==
    /\ n \in asked[u] /\ After(n) /\ n \notin present'
    /\ asked' = [asked EXCEPT ![u] = @ \ {n}]
    /\ UNCHANGED answer

Succeeds(u) ==
    /\ asked[u] = {} /\ answer[u] = "none"
    /\ answer' = [answer EXCEPT ![u] = "success"]
    /\ UNCHANGED <<present, asked>>

Fails(u) ==
    /\ answer[u] = "none"
    /\ present' = present \/ \E n \in asked[u] : After(n)
    /\ asked' = [asked EXCEPT ![u] = {}]
    /\ answer' = [answer EXCEPT ![u] = "failed"]

Next ==
    \/ \E u \in Node : \E nodes \in SUBSET Node : Ask(u, nodes)
    \/ \E n \in Node : Goes(n) \/ Rejoins(n)
    \/ \E u, n \in Node : Seen(u, n)
    \/ \E u \in Node : Succeeds(u) \/ Fails(u)

Spec == Init /\ [][Next]_vars
=============================================================================
