-------------------------------- MODULE Ring --------------------------------
(***************************************************************************)
(* Membership of the corosync ring, as the hooks and the actions of the    *)
(* charm build it: who is in /etc/corosync/corosync.conf on each unit, who *)
(* is in the ring its corosync really runs with, and what the units tell   *)
(* each other over the peer relation `hanode'.                             *)
(*                                                                         *)
(* One unit runs one hook or action at a time; units run concurrently.     *)
(* What a hook puts on a relation leaves the unit when the hook succeeds   *)
(* (Juju flushes relation-set then), a failed hook is retried, and events  *)
(* of the same kind from the same peer coalesce.                           *)
(*                                                                         *)
(* A definition that stands right before another one and bears a longer    *)
(* form of its name is a defect the properties must notice; nothing in the *)
(* specification uses it.                                                  *)
(***************************************************************************)
EXTENDS Naturals, FiniteSets

CONSTANTS
    Unit,          \* the units that may exist
    ClusterCount,  \* config option cluster_count
    Starts,        \* where things start: the units of the cluster that is
                   \* formed already, {} for none, and (a bound) how often
                   \* each disturbance may occur from there
    MaxRequest     \* bound: ring update requests the leaders issue

Disturbances ==
    {"pause", "leader", "fail", "config", "upgrade", "ha", "stop", "lost",
     "delete", "repair"}

ASSUME UnitAssumption == IsFiniteSet(Unit)
ASSUME ClusterCountAssumption == ClusterCount \in Nat
ASSUME StartsAssumption ==
    \A s \in Starts :
        /\ s.formed \subseteq Unit
        /\ s.formed = {} \/ Cardinality(s.formed) >= ClusterCount
        /\ s.budget \in [Disturbances -> Nat]
ASSUME MaxRequestAssumption == MaxRequest \in Nat

VARIABLES
    status,     \* "out" (not deployed), "up", "leaving" or "gone"
    leader,     \* the unit Juju's lease names
    maint,      \* config option maintenance-mode
    view,       \* the peers `relation-list' shows the unit on hanode
    bag,        \* what the unit has published on hanode
    due,        \* the hooks owed to the unit
    principal,  \* the unit has seen its principal on the `ha' relation
    paused,     \* unit-paused in the unit's key-value store
    kv,         \* corosync-update-uuid in the unit's key-value store
    handled,    \* history: the update requests the unit has acted on
    conf,       \* nodelist of corosync.conf on the unit's disk
    ring,       \* nodelist its corosync runs with, {} when services are down
    nodes,      \* the pacemaker node list as the unit's CIB copy has it
    at,         \* where the unit's hook stands
    event,      \* the event of that hook
    counted,    \* the member-ready nodes that hook has read
    request,    \* how many ring update requests were issued
    budget      \* what is left of the disturbances

vars == <<status, leader, maint, view, bag, due, principal, paused, kv,
          handled, conf, ring, nodes, at, event, counted, request, budget>>

\* What a hook in flight leaves alone, whatever it does.
environment == <<status, leader, maint, paused, view, request, budget>>

Event == [kind : {"hanode", "ha", "config"}, from : Unit]
Changed(v) == [kind |-> "hanode", from |-> v]
HaEvent(u) == [kind |-> "ha", from |-> u]
ConfigEvent(u) == [kind |-> "config", from |-> u]

Up == {u \in Unit : status[u] = "up"}
Departed == {u \in Unit : status[u] \in {"leaving", "gone"}}

-----------------------------------------------------------------------------
(* What the charm computes from what it reads.                             *)

\* The nodelist a unit would write: its peers and itself.
HaNodesOfPacemaker(u) == view[u] \cup nodes[u] \cup {u}
HaNodes(u) == view[u] \cup {u}

\* Peers that advertise the flag; the unit itself always counts.
ClusterNodes(u) == {v \in view[u] : bag[v].ready} \cup {u}

MemberReadyNodesByReady(u) == ClusterNodes(u)
MemberReadyNodes(u) == {v \in view[u] : bag[v].member_ready} \cup {u}

EnoughNodesButOne(u) == Cardinality(ClusterNodes(u)) + 1 >= ClusterCount
EnoughNodes(u) == Cardinality(ClusterNodes(u)) >= ClusterCount

\* The id of the update request in the bag of the peer the hook is for.
RequestId(e) == bag[e.from].trigger

\* There is one and it is not the one this unit noted last.
UpdateRequestedAgain(u, e) == e.kind = "hanode" /\ RequestId(e) # 0
UpdateRequestedSame(u, e) ==
    e.kind = "hanode" /\ RequestId(e) # 0 /\ kv[u] = RequestId(e)
UpdateRequested(u, e) ==
    e.kind = "hanode" /\ RequestId(e) # 0 /\ kv[u] # RequestId(e)

-----------------------------------------------------------------------------
(* Corosync and pacemaker, external: two nodes share a ring when each has  *)
(* the other in the nodelist it runs with; nodes that share a ring merge   *)
(* their node lists.                                                       *)

Mates(r, u) == {v \in r[u] : u \in r[v]}

Merged(r, n) ==
    [u \in Unit |-> IF r[u] = {} THEN n[u]
                    ELSE n[u] \cup UNION {n[v] \cup {v} : v \in Mates(r, u)}]

\* Corosync (re)starts on u with the file on disk.
Started(u) ==
    /\ ring' = [ring EXCEPT ![u] = conf[u]]
    /\ nodes' = Merged(ring', nodes)

\* `corosync-cfgtool -R' on u: every node of its ring rereads its own file.
Reloaded(u) ==
    /\ ring' = [v \in Unit |-> IF v \in Mates(ring, u) THEN conf'[v] ELSE ring[v]]

\* `crm node delete': the nodes that share u's CIB forget the given ones.
WithoutNodes(u, gone) ==
    [v \in Unit |-> IF v \in Mates(ring, u) THEN nodes[v] \ gone ELSE nodes[v]]

-----------------------------------------------------------------------------
(* Juju, external: delivery of hooks and of relation data.                 *)

Spend(kind) ==
    /\ budget[kind] > 0
    /\ budget' = [budget EXCEPT ![kind] = @ - 1]

\* The unit's agent can dispatch something new.
Idle(u) == status[u] = "up" /\ at[u] = "idle"

\* A hook for e may start: e is owed, or its hook failed and is retried.
\* Departures are delivered before anything else.
Dispatchable(u, e) ==
    /\ status[u] = "up"
    /\ \/ at[u] = "idle" /\ e \in due[u] /\ view[u] \cap Departed = {}
       \/ at[u] = "failed" /\ e = event[u]

\* The bag u leaves when its hook or action ends, and the hooks others get.
\* Setting what is set already changes nothing and wakes nobody.
Publish(u, b, owed) ==
    /\ bag' = [bag EXCEPT ![u] = b]
    /\ due' = [v \in Unit |->
                 IF u \in view[v] /\ v \in Up /\ b # bag[u]
                 THEN owed[v] \cup {Changed(u)}
                 ELSE owed[v]]

Taken(u, e) == [due EXCEPT ![u] = @ \ {e}]

-----------------------------------------------------------------------------
(* Deployment: install and the first config-changed see no peer yet.       *)

\* Units that are up at the start: one alone, or a cluster already formed.
InitFrom(formed) ==
    /\ leader \in Unit
    /\ formed # {} => leader \in formed
    /\ LET first == IF formed = {} THEN {leader} ELSE formed
           known == [u \in Unit |-> IF u \in first THEN first ELSE {}]
       IN  /\ status = [u \in Unit |-> IF u \in first THEN "up" ELSE "out"]
           /\ view = [u \in Unit |-> known[u] \ {u}]
           /\ due = [u \in Unit |->
                        IF u \in first /\ formed = {} THEN {HaEvent(u)} ELSE {}]
           /\ conf = known
           /\ ring = known
           /\ nodes = known
    /\ bag = [u \in Unit |-> [ready |-> u \in formed,
                              member_ready |-> u \in formed, trigger |-> 0]]
    /\ principal = [u \in Unit |-> u \in formed]
    /\ maint = FALSE
    /\ paused = [u \in Unit |-> FALSE]
    /\ kv = [u \in Unit |-> 0]
    /\ handled = [u \in Unit |-> {}]
    /\ at = [u \in Unit |-> "idle"]
    /\ event = [u \in Unit |-> HaEvent(u)]
    /\ counted = [u \in Unit |-> {}]
    /\ request = 0

Init == \E s \in Starts : InitFrom(s.formed) /\ budget = s.budget

Install(u) ==
    /\ status[u] = "out"
    /\ status' = [status EXCEPT ![u] = "up"]
    /\ due' = [due EXCEPT ![u] = {HaEvent(u)}]
    /\ conf' = [conf EXCEPT ![u] = HaNodes(u)]
    /\ ring' = [ring EXCEPT ![u] = conf'[u]]
    /\ nodes' = Merged(ring', nodes)
    /\ UNCHANGED <<leader, maint, view, bag, principal, paused, kv, handled, at, event,
                   counted, request, budget>>

\* hanode-relation-joined: the addresses it publishes are there already; the
\* changed hook of the new peer follows.
HanodeJoined(u, v) ==
    /\ Idle(u)
    /\ v \in Up \ (view[u] \cup {u})
    /\ view' = [view EXCEPT ![u] = @ \cup {v}]
    /\ due' = [due EXCEPT ![u] = @ \cup {Changed(v)}]
    /\ UNCHANGED <<status, leader, maint, bag, principal, paused, kv, handled, conf,
                   ring, nodes, at, event, counted, request, budget>>

\* hanode-relation-departed: rewrite the file, reload nothing, and in
\* maintenance mode not even that.
HanodeDeparted(u, v) ==
    /\ Idle(u)
    /\ v \in view[u] \cap Departed
    /\ view' = [view EXCEPT ![u] = @ \ {v}]
    /\ due' = Taken(u, Changed(v))
    /\ conf' = IF maint THEN conf ELSE [conf EXCEPT ![u] = view'[u] \cup {u}]
    /\ UNCHANGED <<status, leader, maint, bag, principal, paused, kv, handled, ring,
                   nodes, at, event, counted, request, budget>>

-----------------------------------------------------------------------------
(* ha_relation_changed: hanode-relation-changed and the hooks of the       *)
(* relations ha, peer-availability and pacemaker-remote all run it.        *)

HookLeavesReadyOnly(u) == [ready |-> TRUE]
HookLeavesBoth(u) == [bag[u] EXCEPT !.ready = TRUE, !.member_ready = TRUE]
HookLeaves(u) == [bag[u] EXCEPT !.ready = TRUE]

\* Seeing the principal needs its hook to have run; the call made for a peer
\* only finds it when it did.
SeesPrincipal(u, e) == principal[u] \/ e.kind = "ha"

\* A new update request in the bag of the peer the hook is for: note its id
\* and go and reload; nothing else of the handler runs.
TakeUpdateRequest(u, e) ==
    /\ Dispatchable(u, e)
    /\ UpdateRequested(u, e)
    /\ kv' = [kv EXCEPT ![u] = RequestId(e)]
    /\ handled' = [handled EXCEPT ![u] = @ \cup {RequestId(e)}]
    /\ due' = Taken(u, e)
    /\ at' = [at EXCEPT ![u] = "reload"]
    /\ event' = [event EXCEPT ![u] = e]
    /\ UNCHANGED <<bag, principal, conf, ring, nodes, counted>>
    /\ UNCHANGED environment

\* emit_corosync_conf, corosync-cfgtool -R, return; a cfgtool that fails goes
\* unnoticed.
ReloadRing(u) ==
    /\ at[u] = "reload"
    /\ conf' = [conf EXCEPT ![u] = HaNodes(u)]
    /\ Publish(u, HookLeaves(u), due)
    /\ at' = [at EXCEPT ![u] = "idle"]
    /\ \/ Reloaded(u) /\ UNCHANGED budget
       \/ UNCHANGED ring /\ Spend("fail")
    /\ nodes' = Merged(ring', nodes)
    /\ UNCHANGED <<status, leader, maint, view, principal, paused, kv, handled, event,
                   counted, request>>

\* Too few peers are ready, or no principal yet: tell the peers this unit is
\* ready and leave the rest to a later hook.
DeferConfiguration(u, e) ==
    /\ Dispatchable(u, e)
    /\ e.kind # "config"
    /\ ~UpdateRequested(u, e)
    /\ \/ ~EnoughNodes(u)
       \/ ~SeesPrincipal(u, e)
    /\ principal' = [principal EXCEPT ![u] = SeesPrincipal(u, e)]
    /\ Publish(u, HookLeaves(u), Taken(u, e))
    /\ at' = [at EXCEPT ![u] = "idle"]
    /\ event' = [event EXCEPT ![u] = e]
    /\ UNCHANGED <<kv, handled, conf, ring, nodes, counted>>
    /\ UNCHANGED environment

\* configure_corosync writes the file; the restart follows when that changed
\* the file and the unit is not paused.
WriteConfOnly(u) ==
    /\ conf' = [conf EXCEPT ![u] = HaNodes(u)]
    /\ at' = [at EXCEPT ![u] = "finish"]
WriteConf(u) ==
    /\ conf' = [conf EXCEPT ![u] = HaNodes(u)]
    /\ at' = [at EXCEPT ![u] =
                IF conf'[u] # conf[u] /\ ~paused[u] THEN "restart" ELSE "finish"]

\* Enough peers are ready. What the hook will know of them is what it has read
\* by now: relation-get answers from the hook's own copy.
ConfigureCorosync(u, e) ==
    /\ Dispatchable(u, e)
    /\ e.kind # "config"
    /\ ~UpdateRequested(u, e)
    /\ EnoughNodes(u)
    /\ SeesPrincipal(u, e)
    /\ principal' = [principal EXCEPT ![u] = TRUE]
    /\ WriteConf(u)
    /\ due' = Taken(u, e)
    /\ event' = [event EXCEPT ![u] = e]
    /\ counted' = [counted EXCEPT ![u] = MemberReadyNodes(u)]
    /\ UNCHANGED <<bag, kv, handled, ring, nodes>>
    /\ UNCHANGED environment

\* config-changed configures corosync whatever the number of peers; a paused
\* unit skips it for good.
ConfigChanged(u) ==
    /\ Dispatchable(u, ConfigEvent(u))
    /\ IF paused[u] THEN at' = [at EXCEPT ![u] = "idle"] /\ UNCHANGED conf
                    ELSE WriteConf(u)
    /\ due' = Taken(u, ConfigEvent(u))
    /\ event' = [event EXCEPT ![u] = ConfigEvent(u)]
    /\ UNCHANGED <<bag, principal, kv, handled, ring, nodes, counted>>
    /\ UNCHANGED environment

\* validated_restart_corosync: one of its attempts brings the services up.
RestartCorosync(u) ==
    /\ at[u] = "restart"
    /\ Started(u)
    /\ at' = [at EXCEPT ![u] = "finish"]
    /\ UNCHANGED <<bag, due, principal, kv, handled, conf, event, counted>>
    /\ UNCHANGED environment

\* All of its attempts failed: the services are down, the hook is in error.
RestartFails(u) ==
    /\ at[u] = "restart"
    /\ Spend("fail")
    /\ ring' = [ring EXCEPT ![u] = {}]
    /\ at' = [at EXCEPT ![u] = "failed"]
    /\ UNCHANGED <<status, leader, maint, view, bag, due, principal, paused, kv, handled,
                   conf, nodes, event, counted, request>>

\* The agent is killed, or a later command of the hook fails.
HookFails(u) ==
    /\ at[u] \in {"restart", "reload", "finish"}
    /\ Spend("fail")
    /\ at' = [at EXCEPT ![u] = "failed"]
    /\ UNCHANGED <<status, leader, maint, view, bag, due, principal, paused, kv, handled,
                   conf, ring, nodes, event, counted, request>>

\* try_pcmk_wait raises when the services are down.
PacemakerDown(u) ==
    /\ at[u] = "finish"
    /\ ring[u] = {}
    /\ at' = [at EXCEPT ![u] = "failed"]
    /\ UNCHANGED <<bag, due, principal, kv, handled, conf, ring, nodes, event, counted>>
    /\ UNCHANGED environment

\* The leader adds the remote nodes and stonith when, as it counts them,
\* all members have registered.
ConfiguresRemotes(u) ==
    /\ at[u] = "finish"
    /\ ring[u] # {}
    /\ event[u].kind # "config"
    /\ leader = u
    /\ Cardinality(counted[u]) >= ClusterCount

\* The rest of the hook, and what it publishes.
FinishHook(u) ==
    /\ at[u] = "finish"
    /\ ring[u] # {}
    /\ IF event[u].kind = "config" THEN UNCHANGED <<bag, due>>
       ELSE Publish(u, [bag[u] EXCEPT !.ready = TRUE, !.member_ready = TRUE], due)
    /\ at' = [at EXCEPT ![u] = "idle"]
    /\ UNCHANGED <<principal, kv, handled, conf, ring, nodes, event, counted>>
    /\ UNCHANGED environment

\* The services come back: a reboot of a unit whose services are down, or the
\* operator following "Please manually start it".
ServicesStart(u) ==
    /\ status[u] \in {"up", "leaving"}
    /\ ring[u] = {}
    /\ Started(u)
    /\ UNCHANGED <<bag, due, principal, kv, handled, conf, at, event, counted>>
    /\ UNCHANGED environment

-----------------------------------------------------------------------------
(* Other hooks and actions that run on a unit in one go.                   *)

\* upgrade-charm runs install, which writes the file and restarts nothing.
UpgradeCharm(u) ==
    /\ Idle(u)
    /\ Spend("upgrade")
    /\ conf' = [conf EXCEPT ![u] = HaNodes(u)]
    /\ UNCHANGED <<status, leader, maint, view, bag, due, principal, paused, kv, handled,
                   ring, nodes, at, event, counted, request>>

\* assess_status_helper answers `active': services up, cluster_count units
\* related, no maintenance mode, not paused.
IsActive(u) ==
    /\ ring[u] # {}
    /\ Cardinality(HaNodes(u)) >= ClusterCount
    /\ ~maint
    /\ ~paused[u]

\* pause puts the node in standby and then wants the unit to look healthy.
PauseUnit(u) ==
    /\ Idle(u)
    /\ IsActive(u)
    /\ Spend("pause")
    /\ paused' = [paused EXCEPT ![u] = TRUE]
    /\ UNCHANGED <<status, leader, maint, view, bag, due, principal, kv, handled, conf,
                   ring, nodes, at, event, counted, request>>

\* resume leaves standby and clears the flag; it runs no config-changed.
ResumeUnit(u) ==
    /\ Idle(u)
    /\ ring[u] # {}
    /\ paused[u]
    /\ paused' = [paused EXCEPT ![u] = FALSE]
    /\ UNCHANGED <<status, leader, maint, view, bag, due, principal, kv, handled, conf,
                   ring, nodes, at, event, counted, request, budget>>

\* The unit leaves the application: its peers are owed a departed hook and
\* its agent dispatches none of its hooks any more, save stop.
Leave(u, kind, to) ==
    /\ Spend(kind)
    /\ status' = [status EXCEPT ![u] = to]
    /\ \E l \in Up \ {u} : leader' = IF leader = u THEN l ELSE leader
    /\ due' = [due EXCEPT ![u] = {}]
    /\ at' = [at EXCEPT ![u] = "idle"]
    /\ UNCHANGED <<maint, view, bag, principal, paused, kv, handled, conf, event,
                   counted, request>>

\* juju remove-unit.
UnitRemoved(u) ==
    /\ Idle(u)
    /\ Leave(u, "stop", "leaving")
    /\ UNCHANGED <<ring, nodes>>

\* stop: the unit deletes its own node from the cluster and purges the packages.
Stop(u) ==
    /\ status[u] = "leaving"
    /\ ring[u] # {}
    /\ status' = [status EXCEPT ![u] = "gone"]
    /\ ring' = [ring EXCEPT ![u] = {}]
    /\ nodes' = WithoutNodes(u, {u})
    /\ UNCHANGED <<leader, maint, view, bag, due, principal, paused, kv, handled,
                   conf, at, event, counted, request, budget>>

\* The machine is lost and its unit removed by force: no hook runs there.
UnitLost(u) ==
    /\ status[u] = "up"
    /\ Leave(u, "lost", "gone")
    /\ ring' = [ring EXCEPT ![u] = {}]
    /\ UNCHANGED nodes

-----------------------------------------------------------------------------
(* The leader's actions update-ring and delete-node-from-ring.             *)

\* _trigger_corosync_update: publish a fresh id, and do at once what the
\* peers will do when they see it; a cfgtool that fails goes unnoticed here too.
\* (A start without repairs allows none.)
TriggerCorosyncUpdate(u) ==
    /\ budget["repair"] > 0
    /\ request < MaxRequest
    /\ request' = request + 1
    /\ kv' = [kv EXCEPT ![u] = request']
    /\ handled' = [handled EXCEPT ![u] = @ \cup {request'}]
    /\ Publish(u, [bag[u] EXCEPT !.trigger = request'], due)
    /\ conf' = [conf EXCEPT ![u] = HaNodes(u)]
    /\ \/ Reloaded(u) /\ UNCHANGED budget
       \/ UNCHANGED ring /\ Spend("fail")

\* update_node_list: pacemaker nodes that no unit of the relation owns.
UnexpectedNodesReversed(u) == HaNodes(u) \ nodes[u]
UnexpectedNodes(u) == nodes[u] \ HaNodes(u)

CanRunRingAction(u) == Idle(u) /\ leader = u /\ ring[u] # {}

UpdateRing(u) ==
    /\ CanRunRingAction(u)
    /\ UnexpectedNodes(u) # {}
    /\ TriggerCorosyncUpdate(u)
    /\ nodes' = Merged(ring', WithoutNodes(u, UnexpectedNodes(u)))
    /\ UNCHANGED <<status, leader, maint, view, principal, paused, at, event,
                   counted>>

\* Otherwise the answer is "No changes required." and nothing happens.
SaysNoChanges(u) == CanRunRingAction(u) /\ UnexpectedNodes(u) = {}

\* A delete fails after others succeeded: the action raises, nobody is told.
UpdateRingFails(u) ==
    /\ CanRunRingAction(u)
    /\ Spend("fail")
    /\ \E deleted \in SUBSET UnexpectedNodes(u) :
         /\ deleted # UnexpectedNodes(u)
         /\ nodes' = WithoutNodes(u, deleted)
    /\ UNCHANGED <<status, leader, maint, view, bag, due, principal, paused, kv, handled,
                   conf, ring, at, event, counted, request>>

\* delete-node-from-ring: any name may be given, and the peers are triggered
\* whether or not the node could be deleted, with the services down as well. (A
\* start without deletes allows none: it removes live nodes, too.)
DeleteNodeFromRing(u, n) ==
    /\ Idle(u) /\ leader = u
    /\ budget["delete"] > 0
    /\ TriggerCorosyncUpdate(u)
    /\ nodes' \in {Merged(ring', WithoutNodes(u, {n})), Merged(ring', nodes)}
    /\ UNCHANGED <<status, leader, maint, view, principal, paused, at, event,
                   counted>>

-----------------------------------------------------------------------------
(* The operator and the Juju controller.                                   *)

LeaderElected(u) ==
    /\ u \in Up \ {leader}
    /\ Spend("leader")
    /\ leader' = u
    /\ UNCHANGED <<status, maint, view, bag, due, principal, paused, kv, handled, conf,
                   ring, nodes, at, event, counted, request>>

\* juju config: every unit is owed a config-changed.
SetConfig(m) ==
    /\ Spend("config")
    /\ maint' = m
    /\ due' = [u \in Unit |->
                 IF u \in Up THEN due[u] \cup {ConfigEvent(u)} ELSE due[u]]
    /\ UNCHANGED <<status, leader, view, bag, principal, paused, kv, handled, conf, ring,
                   nodes, at, event, counted, request>>

\* Another hook that runs ha_relation_changed: the principal's data changed.
HaDataChanges(u) ==
    /\ u \in Up
    /\ Spend("ha")
    /\ due' = [due EXCEPT ![u] = @ \cup {HaEvent(u)}]
    /\ UNCHANGED <<status, leader, maint, view, bag, principal, paused, kv, handled,
                   conf, ring, nodes, at, event, counted, request>>

-----------------------------------------------------------------------------
HaRelationChanged(u) ==
    \E e \in Event : \/ TakeUpdateRequest(u, e)
                     \/ DeferConfiguration(u, e)
                     \/ ConfigureCorosync(u, e)

HookStep(u) ==
    \/ HaRelationChanged(u) \/ ConfigChanged(u) \/ ReloadRing(u)
    \/ RestartCorosync(u) \/ PacemakerDown(u) \/ FinishHook(u)
    \/ \E v \in Unit : HanodeJoined(u, v) \/ HanodeDeparted(u, v)

Fault(u) == RestartFails(u) \/ HookFails(u) \/ UnitLost(u) \/ UpdateRingFails(u)

Operate(u) ==
    \/ Install(u) \/ UpgradeCharm(u) \/ PauseUnit(u) \/ ResumeUnit(u)
    \/ UnitRemoved(u) \/ Stop(u)
    \/ UpdateRing(u) \/ LeaderElected(u)
    \/ HaDataChanges(u) \/ \E n \in Unit : DeleteNodeFromRing(u, n)

Next ==
    \/ \E u \in Unit : HookStep(u) \/ Fault(u) \/ Operate(u) \/ ServicesStart(u)
    \/ \E m \in BOOLEAN : SetConfig(m)

Spec == Init /\ [][Next]_vars

\* Juju keeps dispatching the hooks it owes, the hooks end, and services that
\* are down are started again. Nothing says that anybody deploys, pauses or
\* calls an action.
Fairness == \A u \in Unit : WF_vars(HookStep(u)) /\ WF_vars(ServicesStart(u))

FairSpec == Spec /\ Fairness

-----------------------------------------------------------------------------
(* What holds.                                                             *)

\* Type invariant.
TypeOK ==
    /\ status \in [Unit -> {"out", "up", "leaving", "gone"}]
    /\ leader \in Unit
    /\ maint \in BOOLEAN
    /\ view \in [Unit -> SUBSET Unit]
    /\ bag \in [Unit -> [ready : BOOLEAN, member_ready : BOOLEAN,
                         trigger : 0..MaxRequest]]
    /\ due \in [Unit -> SUBSET Event]
    /\ principal \in [Unit -> BOOLEAN]
    /\ paused \in [Unit -> BOOLEAN]
    /\ kv \in [Unit -> 0..MaxRequest]
    /\ handled \in [Unit -> SUBSET (1..MaxRequest)]
    /\ conf \in [Unit -> SUBSET Unit]
    /\ ring \in [Unit -> SUBSET Unit]
    /\ nodes \in [Unit -> SUBSET Unit]
    /\ at \in [Unit -> {"idle", "restart", "reload", "finish", "failed"}]
    /\ event \in [Unit -> Event]
    /\ counted \in [Unit -> SUBSET Unit]
    /\ request \in 0..MaxRequest
    /\ budget \in [Disturbances -> Nat]

\* No corosync runs with, and no corosync.conf names, a node that is neither
\* the unit's own, nor a peer the unit knows, nor a unit that has departed
\* (hooks/utils.py get_ha_nodes, through every path that writes or loads it).
NoStrangers ==
    \A u \in Unit : conf[u] \cup ring[u] \subseteq view[u] \cup {u} \cup Departed

ReadyUnits == {v \in Unit : bag[v].ready}
MemberUnits == {v \in Unit : bag[v].member_ready}

\* A unit that says it is a member has seen cluster_count ready units: the
\* threshold in ha_relation_changed is not passed through a failed hook, a
\* retry, a trigger or a departure.
MembersAreEnough ==
    \A u \in Unit : bag[u].member_ready =>
        Cardinality(ReadyUnits) >= ClusterCount

\* More than that, and checked in its place, the flags change as Formation says:
\* nobody takes one back, one unit speaks at a time, and it becomes a member only
\* behind the threshold (ha_relation_changed and its relation_set calls).
F == INSTANCE Formation
     WITH Enough <- {S \in SUBSET Unit : Cardinality(S) >= ClusterCount},
          Initial <- {s.formed : s \in Starts},
          ready <- ReadyUnits, member <- MemberUnits
FormationSpec == F!Spec

\* What makes it inductive: a hook past the threshold stands on enough ready
\* units, itself included, though its own readiness is not out yet.
HooksAreEnough ==
    \A u \in Unit :
        at[u] \in {"restart", "finish"} /\ event[u].kind # "config" =>
            Cardinality(ReadyUnits \cup {u}) >= ClusterCount

EnoughInv == MembersAreEnough /\ HooksAreEnough

\* The unit's corosync runs with the file on disk, or its hook is about to
\* restart it with that.
InStep(u) == ring[u] = conf[u] \/ at[u] = "restart"

\* Whatever rewrites corosync.conf gets it loaded (restart_corosync_on_change, the
\* reloads of an update request), however the hooks and actions of several units
\* interleave. A unit falls out of step with its file only by a departed hook or
\* an upgrade of the charm, which write and load nothing, by a hook on a paused
\* unit, which leaves out the restart, by a failure, or by leaving itself.
RingFollowsConf ==
    [][\A u \in Unit : InStep(u) /\ ~InStep(u)' =>
          \/ \E v \in Unit : HanodeDeparted(u, v)
          \/ UpgradeCharm(u)
          \/ paused[u]
          \/ Spend("fail")
          \/ status'[u] = "gone"]_vars

\* No ring with peers is built before cluster_count units are ready, or
\* at least present (README, cluster_count).
NoRingTooEarly ==
    \A u \in Up : ring[u] \in {{}, {u}} \/ Cardinality(ring[u]) >= ClusterCount

\* When the leader configures remote nodes, the members it counts and that
\* are still there share its ring: "All members of the cluster need to be
\* registered before resources that reference them can be created".
MembersRegistered ==
    \A u \in Up : ConfiguresRemotes(u) => counted[u] \cap Up \subseteq Mates(ring, u)

\* No unit acts twice on one update request (is_update_ring_requested): it
\* notes only the last id, so it takes that a leader stops leading by leaving.
RequestsHandledOnce ==
    [][\A u \in Unit : (\E e \in Event : TakeUpdateRequest(u, e)) =>
         handled'[u] # handled[u]]_vars

\* Nothing is owed to the unit and nothing runs there.
Settled(u) == at[u] = "idle" /\ due[u] = {} /\ view[u] \cap Departed = {}

\* "No changes required" is said only when the rings of the settled nodes the
\* leader shares its ring with are rid of every departed node: the departed
\* hook leaves it to update-ring to reload them.
NoChangesMeansClean ==
    \A u \in Unit : SaysNoChanges(u) /\ Settled(u) =>
        \A v \in Mates(ring, u) : Settled(v) => ring[v] \cap Departed = {}

\* When the leader's own ring was rid of a departed node by a request, the
\* rings of all units get rid of it.
RemovalSpreads ==
    \A g \in Unit :
        (g \in Departed /\ request > 0 /\ g \notin ring[leader])
            ~> (\A v \in Up : g \notin ring[v])

\* While a cluster grows, however the hooks interleave, in the end every unit
\* runs a ring of all units and has said that it is a member. (Of a cluster that
\* is repaired at the same time this is not true: ha_relation_changed returns
\* after a new request, so the configuration that its event would have led to
\* is lost.)
AllFormed == \A u \in Up : ring[u] = Up /\ bag[u].member_ready
Growing == budget["repair"] = 0 /\ \E u \in Unit : status[u] = "out"
RingForms == Growing => <>[]AllFormed
=============================================================================
