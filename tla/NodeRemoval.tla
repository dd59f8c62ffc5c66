----------------------------- MODULE NodeRemoval -----------------------------
(***************************************************************************)
(* How nodes are taken out of pacemaker's CIB, call by call: by the stop   *)
(* hook of a unit that is being removed, by update-ring on the leader and  *)
(* by delete-node-from-ring on the leader. Each of them sets the node to   *)
(* maintenance and deletes it with `crm', which may fail, may fail after   *)
(* it has done its work, and may be overtaken by another caller or by the  *)
(* node joining again.                                                     *)
(*                                                                         *)
(* A definition that stands right before another one and bears a longer    *)
(* form of its name is a defect the properties must notice.                *)
(***************************************************************************)
EXTENDS Naturals

CONSTANTS
    Node,     \* the units and the pacemaker nodes they are
    Budgets   \* bounds: how often each disturbance may occur

Disturbances ==
    {"remove", "leader", "update", "delete", "retryable", "half", "other", "kill", "rejoin"}
ASSUME BudgetAssumption == Budgets \subseteq [Disturbances -> Nat]

Task == {"none", "stop", "update-ring", "delete-node-from-ring"}
Stage == {"idle", "maintaining", "deleting", "finishing"}

VARIABLES
    cib,       \* "online", "maintenance" or "gone", by node
    related,   \* Juju: the units that are not being removed
    purged,    \* units whose stop hook has ended
    leader,    \* Juju: the unit that holds the lease
    task,      \* what a unit is about, or was last
    at,        \* where it is in that
    todo,      \* the nodes it has yet to see gone
    node,      \* the one of them it is at
    attempt,   \* attempts left after this one
    status,    \* how Juju says the unit's last task ended, "none" until then
    result,    \* the key of that name in what its last action has returned
    blamed,    \* history: nodes whose removal somebody reported as failed
    happened,  \* history: how often each disturbance has occurred
    budget     \* what is left of the chosen one of Budgets

juju == <<related, purged, leader>>
caller == <<task, at, todo, node, attempt, status, result>>
bounds == <<happened, budget>>
vars == <<cib, juju, caller, blamed, bounds>>

Init ==
    /\ cib = [n \in Node |-> "online"]
    /\ related = Node /\ purged = {} /\ leader \in Node
    /\ task = [u \in Node |-> "none"] /\ at = [u \in Node |-> "idle"]
    /\ todo = [u \in Node |-> {}] /\ node = [u \in Node |-> u]
    /\ attempt = [u \in Node |-> 0] /\ status = [u \in Node |-> "success"]
    /\ result = [u \in Node |-> "none"]
    /\ blamed = {} /\ happened = [d \in Disturbances |-> 0] /\ budget \in Budgets

Spend(kind) ==
    /\ budget[kind] > 0
    /\ budget' = [budget EXCEPT ![kind] = @ - 1]
    /\ happened' = [happened EXCEPT ![kind] = @ + 1]

Present == {n \in Node : cib[n] # "gone"}
Goto(u, stage) == at' = [at EXCEPT ![u] = stage]

-----------------------------------------------------------------------------
(* Juju and the operator.                                                  *)

RemoveUnit(u) ==
    /\ u \in related /\ related # {u} /\ Spend("remove")
    /\ related' = related \ {u}
    /\ UNCHANGED <<cib, purged, leader, caller, blamed>>

NewLeader(u) ==
    /\ u \in related /\ Spend("leader")
    /\ leader' = u
    /\ UNCHANGED <<cib, related, purged, caller, blamed>>

\* Corosync still runs on the node: pacemaker adds it to the CIB once more.
Rejoin(n) ==
    /\ cib[n] = "gone" /\ n \notin purged /\ Spend("rejoin")
    /\ cib' = [cib EXCEPT ![n] = "online"]
    /\ UNCHANGED <<juju, caller, blamed>>

Begin(u, kind, nodes) ==
    /\ at[u] = "idle"
    /\ task' = [task EXCEPT ![u] = kind]
    /\ todo' = [todo EXCEPT ![u] = nodes]
    /\ status' = [status EXCEPT ![u] = "none"]
    /\ result' = [result EXCEPT ![u] = "none"]
    /\ UNCHANGED <<cib, juju, attempt, blamed>>

\* stop: its first call. The hook is retried until it succeeds.
StopHook(u) ==
    /\ u \notin related \cup purged
    /\ Begin(u, "stop", {u}) /\ node' = [node EXCEPT ![u] = u]
    /\ Goto(u, "maintaining") /\ UNCHANGED bounds

\* update_node_list: pacemaker's nodes that have no unit in Juju.
Unexpected == Present \ related

UpdateRing(u) ==
    /\ u = leader /\ u \in related /\ Spend("update")
    /\ Begin(u, "update-ring", Unexpected)
    /\ IF Unexpected = {} THEN Goto(u, "finishing") /\ UNCHANGED node
       ELSE /\ Goto(u, "maintaining")
            /\ \E n \in Unexpected : node' = [node EXCEPT ![u] = n]

DeleteNodeFromRing(u, n) ==
    /\ u = leader /\ u \in related /\ Spend("delete")
    /\ Begin(u, "delete-node-from-ring", {n}) /\ node' = [node EXCEPT ![u] = n]
    /\ Goto(u, "maintaining")

-----------------------------------------------------------------------------
(* The calls.                                                              *)

\* delete_node has returned: on with the next node, or with what follows.
Returns(u) ==
    /\ todo' = [todo EXCEPT ![u] = @ \ {node[u]}]
    /\ IF todo'[u] = {} THEN Goto(u, "finishing") /\ UNCHANGED node
       ELSE /\ Goto(u, "maintaining")
            /\ \E n \in todo'[u] : node' = [node EXCEPT ![u] = n]
    /\ UNCHANGED <<task, attempt, status, result, blamed>>

\* CalledProcessError: the hook fails, update_node_list raises, but
\* delete-node-from-ring marks itself as failed (function_fail) and goes on.
RaisesQuietly(u) ==
    /\ status' = IF task[u] = "delete-node-from-ring" THEN status
                 ELSE [status EXCEPT ![u] = "failed"]
    /\ todo' = [todo EXCEPT ![u] = {}]
    /\ blamed' = blamed \cup {node[u]}
    /\ Goto(u, IF task[u] = "delete-node-from-ring" THEN "finishing" ELSE "idle")
    /\ UNCHANGED <<task, node, attempt, result>>
Raises(u) ==
    /\ status' = [status EXCEPT ![u] = "failed"]
    /\ todo' = [todo EXCEPT ![u] = {}]
    /\ blamed' = blamed \cup {node[u]}
    /\ Goto(u, IF task[u] = "delete-node-from-ring" THEN "finishing" ELSE "idle")
    /\ UNCHANGED <<task, node, attempt, result>>

\* set_node_status_to_maintenance, of a node that is there.
SetMaintenance(u) ==
    /\ at[u] = "maintaining" /\ cib[node[u]] # "gone"
    /\ cib' = [cib EXCEPT ![node[u]] = "maintenance"]
    /\ attempt' = [attempt EXCEPT ![u] = 2]
    /\ Goto(u, "deleting")
    /\ UNCHANGED <<juju, task, todo, node, status, result, blamed, bounds>>

MaintenanceFails(u) ==
    /\ at[u] = "maintaining"
    /\ IF cib[node[u]] = "gone" THEN UNCHANGED bounds ELSE Spend("other")
    /\ Raises(u)
    /\ UNCHANGED <<cib, juju>>

\* Round the loop of delete_node.
TriesAgainAlways(u) ==
    /\ attempt' = [attempt EXCEPT ![u] = @ - 1]
    /\ UNCHANGED <<task, at, todo, node, status, result, blamed>>
TriesAgain(u) ==
    /\ attempt[u] > 0
    /\ attempt' = [attempt EXCEPT ![u] = @ - 1]
    /\ UNCHANGED <<task, at, todo, node, status, result, blamed>>

\* `crm node delete' succeeds; the loop does not end with that.
Delete(u) ==
    /\ at[u] = "deleting" /\ cib[node[u]] # "gone"
    /\ cib' = [cib EXCEPT ![node[u]] = "gone"]
    /\ TriesAgain(u) \/ (attempt[u] = 0 /\ Returns(u))
    /\ UNCHANGED <<juju, bounds>>

\* ``not found in the CIB''.
NotFoundRaises(u) ==
    /\ at[u] = "deleting" /\ cib[node[u]] = "gone" /\ Raises(u)
    /\ UNCHANGED <<cib, juju, bounds>>
NotFound(u) ==
    /\ at[u] = "deleting" /\ cib[node[u]] = "gone" /\ Returns(u)
    /\ UNCHANGED <<cib, juju, bounds>>

\* crmsh#283 or ``Transport endpoint is not connected''.
RetryableErrorLast(u) == TriesAgain(u) \/ (attempt[u] = 0 /\ Returns(u))
RetryableError(u) == TriesAgain(u) \/ (attempt[u] = 0 /\ Raises(u))

\* Any error may come after the node was deleted.
DeleteFails(u) ==
    /\ at[u] = "deleting"
    /\ \/ Spend("retryable") /\ RetryableError(u) /\ UNCHANGED cib
       \/ /\ Spend("half") /\ cib' = [cib EXCEPT ![node[u]] = "gone"]
          /\ RetryableError(u) \/ Raises(u)
       \/ Spend("other") /\ Raises(u) /\ UNCHANGED cib
    /\ UNCHANGED juju

\* The rest of the task: the packages are purged, or the peers are told.
\* Juju reports an action as failed once it has called function_fail; the
\* result delete-node-from-ring sets last is "success" all the same.
Finish(u) ==
    /\ at[u] = "finishing"
    /\ status' = [status EXCEPT ![u] = IF @ = "none" THEN "success" ELSE @]
    /\ result' = [result EXCEPT ![u] = IF task[u] = "stop" THEN @ ELSE "success"]
    /\ purged' = IF task[u] = "stop" THEN purged \cup {u} ELSE purged
    /\ Goto(u, "idle")
    /\ UNCHANGED <<cib, related, leader, task, todo, node, attempt, blamed, bounds>>

\* The agent is restarted between two calls.
Kill(u) ==
    /\ at[u] # "idle" /\ Spend("kill")
    /\ status' = [status EXCEPT ![u] = "failed"]
    /\ todo' = [todo EXCEPT ![u] = {}]
    /\ blamed' = blamed \cup {node[u]}
    /\ Goto(u, "idle")
    /\ UNCHANGED <<cib, juju, task, node, attempt, result>>

Works(u) ==
    \/ StopHook(u)
    \/ SetMaintenance(u) \/ MaintenanceFails(u)
    \/ Delete(u) \/ NotFound(u) \/ DeleteFails(u)
    \/ Finish(u)

Next ==
    \/ \E u \in Node : RemoveUnit(u) \/ NewLeader(u) \/ UpdateRing(u) \/ Kill(u) \/ Works(u)
    \/ \E u, n \in Node : DeleteNodeFromRing(u, n)
    \/ \E n \in Node : Rejoin(n)

Spec == Init /\ [][Next]_vars

\* A unit goes on with what it does, and Juju retries a failed stop hook.
FairSpec == Spec /\ \A u \in Node : WF_vars(Works(u))

-----------------------------------------------------------------------------
(* Properties.                                                             *)

\* Variables have their types.
TypeOK ==
    /\ cib \in [Node -> {"online", "maintenance", "gone"}]
    /\ related \subseteq Node /\ purged \subseteq Node /\ leader \in Node
    /\ task \in [Node -> Task] /\ at \in [Node -> Stage]
    /\ todo \in [Node -> SUBSET Node] /\ node \in [Node -> Node]
    /\ attempt \in [Node -> 0 .. 2]
    /\ status \in [Node -> {"none", "success", "failed"}]
    /\ result \in [Node -> {"none", "success"}]
    /\ blamed \subseteq Node
    /\ happened \in [Disturbances -> Nat] /\ budget \in [Disturbances -> Nat]

\* The three callers implement the abstract removal, whatever fails, is
\* retried or is done by two of them at once, as far as the status goes that
\* Juju shows for the hook or the action: none ends well without having seen
\* each of its nodes gone (delete_node's loop, the except clause of
\* delete-node-from-ring). It is not so for `result' in the place of
\* `status': delete-node-from-ring returns "success" from a failed removal.
R == INSTANCE Removal WITH present <- Present, asked <- todo, answer <- status
RemovalSpec == R!Spec

\* A node is in maintenance only while somebody is about to delete it, or
\* when somebody was told that its removal had failed: an operator who is
\* told of no failure is left with no node that pacemaker does not manage.
MaintenanceIsAnnounced ==
    \A n \in Node :
        cib[n] = "maintenance" =>
            n \in blamed \/ \E u \in Node : at[u] = "deleting" /\ node[u] = n

Undisturbed ==
    /\ happened["retryable"] + happened["rejoin"] <= 1
    /\ \A d \in Disturbances \ {"remove", "leader", "retryable", "rejoin"} : happened[d] = 0

\* The stop hook of a unit that is being removed ends, though one call
\* fails in a way delete_node knows, or the node joins again for a moment.
DepartureCompletes ==
    []Undisturbed => \A u \in Node : u \notin related ~> u \in purged

\* The retries that failure_is_fatal=True causes do help: the stop hook ends.
StopEnds == \A u \in Node : u \notin related ~> u \in purged
=============================================================================
