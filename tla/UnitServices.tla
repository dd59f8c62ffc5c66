------------------------------ MODULE UnitServices ------------------------------
(***************************************************************************)
(* When the corosync and pacemaker of a unit run: pause and resume, and    *)
(* the series upgrade, in which a unit that is about to move to another    *)
(* release notifies its peers and the peers shut their services down and   *)
(* wait for their own turn. Flags in a unit's key-value store are stored   *)
(* at once; what a hook publishes is seen when it has ended well.          *)
(*                                                                         *)
(* A definition that stands right before another one and bears a longer    *)
(* form of its name is a defect the properties must notice.                *)
(***************************************************************************)
EXTENDS Naturals

CONSTANTS
    Unit,               \* the units of the charm
    PCMKR_MAX_RETRIES,  \* looks at the resources before a pause gives up
    Budgets             \* bounds: how often each disturbance may occur

Disturbances == {"pause", "config", "ha", "peer", "kill"}
ASSUME RetriesAssumption == PCMKR_MAX_RETRIES \in Nat
ASSUME BudgetAssumption == Budgets \subseteq [Disturbances -> Nat]

Old == 1  \* the release all units start from
New == 2  \* the one they are upgraded to
Hook == {"hanode", "config", "ha"}
Job == Hook \cup {"prepare", "complete", "none"}
Stage == {"idle", "pausing", "notifying", "configuring", "enabling", "resuming", "checking",
          "finishing"}

VARIABLES
    release,    \* the release a unit runs
    prepared,   \* Juju: between the two series-upgrade hooks a unit runs no other
    up,         \* corosync and pacemaker run
    stale,      \* the next hook that writes the configuration files changes them
    standby,    \* pacemaker: the node is in standby
    held,       \* pacemaker: the node runs resources
    paused, upgrading, waiting,  \* flags in the key-value store
    notice,     \* series_upgrade_of_<unit> in the bag, 0 where there is none
    due,        \* hooks that wait to be run
    job,        \* the series-upgrade hook under way, or the hook that failed last
    at,         \* where the unit is in the job, or in the pause action
    tries,      \* looks at the resources so far
    opened,     \* history: nodes a resume has put online, and none has ended well since
    happened,   \* history: disturbances there have been
    budget      \* what is left of the chosen one of Budgets

services == <<up, stale>>
pacemaker == <<standby, held>>
flags == <<paused, upgrading, waiting>>
juju == <<release, prepared, notice, due, job, at, tries>>
bounds == <<opened, happened, budget>>
spending == <<happened, budget>>
vars == <<services, pacemaker, flags, juju, bounds>>

Init ==
    /\ release = [u \in Unit |-> Old] /\ prepared = {}
    /\ up = [u \in Unit |-> TRUE] /\ stale = [u \in Unit |-> FALSE]
    /\ standby = {} /\ held \in SUBSET Unit
    /\ paused = {} /\ upgrading = {} /\ waiting = {}
    /\ notice = [u \in Unit |-> 0]
    /\ due = [u \in Unit |-> {}]
    /\ job = [u \in Unit |-> "none"] /\ at = [u \in Unit |-> "idle"]
    /\ tries = [u \in Unit |-> 0]
    /\ opened = {} /\ happened = {} /\ budget \in Budgets

Spend(kind) ==
    /\ budget[kind] > 0
    /\ budget' = [budget EXCEPT ![kind] = @ - 1]
    /\ happened' = happened \cup {kind}
    /\ UNCHANGED opened

Tell(u) == due' = [v \in Unit |-> IF v = u THEN due[v] ELSE due[v] \cup {"hanode"}]
Goto(u, stage) == at' = [at EXCEPT ![u] = stage]

-----------------------------------------------------------------------------
(* Hooks that look after the configuration.                                *)

\* Juju runs one hook at a time, and retries one that failed before any other.
Runs(u, hook) ==
    /\ hook \in due[u] /\ job[u] \in {"none", hook} /\ at[u] = "idle" /\ u \notin prepared

Succeeds(u, hook) ==
    /\ due' = [due EXCEPT ![u] = @ \ {hook}]
    /\ job' = [job EXCEPT ![u] = "none"]

\* Some peer is about to leave the release this unit is on, or one after it.
ShouldStopAlways(u) == \E v \in Unit \ {u} : notice[v] # 0
ShouldStop(u) == \E v \in Unit \ {u} : notice[v] # 0 /\ release[u] <= notice[v]

\* hanode_relation_changed: disable_ha_services and the flag.
StopForPeer(u) ==
    /\ Runs(u, "hanode") /\ ShouldStop(u)
    /\ up' = [up EXCEPT ![u] = FALSE]
    /\ \/ waiting' = waiting \cup {u} /\ Succeeds(u, "hanode") /\ UNCHANGED bounds
       \/ /\ Spend("kill")
          /\ job' = [job EXCEPT ![u] = "hanode"]
          /\ UNCHANGED <<waiting, due>>
    /\ UNCHANGED <<stale, pacemaker, paused, upgrading, release, prepared, notice, at, tries>>

\* hanode_relation_changed: ``Unit is waiting for upgrade''.
KeepWaiting(u) ==
    /\ Runs(u, "hanode") /\ ~ShouldStop(u) /\ u \in waiting
    /\ Succeeds(u, "hanode")
    /\ UNCHANGED <<services, pacemaker, flags, release, prepared, notice, at, tries, bounds>>

\* config_changed on a paused unit.
SkipConfig(u) ==
    /\ Runs(u, "config") /\ u \in paused
    /\ Succeeds(u, "config")
    /\ UNCHANGED <<services, pacemaker, flags, release, prepared, notice, at, tries, bounds>>

\* hanode_relation_changed goes on with ha_relation_changed; the other two do
\* not look at the waiting flag.
ConfiguresAlso(u, hook) == Runs(u, hook)
Configures(u, hook) ==
    /\ Runs(u, hook)
    /\ hook = "hanode" => ~ShouldStop(u) /\ u \notin waiting
    /\ hook = "config" => u \notin paused

\* configure_corosync: a change of the files restarts the services.
Restarts(u) == stale[u] /\ u \notin paused

\* config_changed, ha_relation_changed: configure_corosync and try_pcmk_wait.
Configure(u, hook) ==
    /\ Configures(u, hook)
    /\ up' = [up EXCEPT ![u] = @ \/ Restarts(u)]
    /\ stale' = [stale EXCEPT ![u] = FALSE]
    /\ IF up'[u] THEN Succeeds(u, hook)
       ELSE job' = [job EXCEPT ![u] = hook] /\ UNCHANGED due
    /\ UNCHANGED <<pacemaker, flags, release, prepared, notice, at, tries, bounds>>

-----------------------------------------------------------------------------
(* Pause and resume.                                                       *)

\* assess_status_helper, as far as it is about this unit.
IsActive(u) == up[u] /\ u \notin paused \cup upgrading \cup waiting

\* pause_unit: enter_standby_mode, which needs pacemaker.
EnterStandby(u) ==
    /\ up[u]
    /\ standby' = standby \cup {u}
    /\ tries' = [tries EXCEPT ![u] = 0]
    /\ Goto(u, "pausing")

PauseAction(u) ==
    /\ job[u] = "none" /\ at[u] = "idle" /\ u \notin prepared
    /\ Spend("pause")
    /\ EnterStandby(u)
    /\ UNCHANGED <<services, held, flags, release, prepared, notice, due, job>>

\* pause_unit: the loop over node_has_resources.
LookAgain(u) ==
    /\ at[u] = "pausing" /\ u \in held /\ tries[u] < PCMKR_MAX_RETRIES
    /\ tries' = [tries EXCEPT ![u] = @ + 1]
    /\ UNCHANGED <<services, pacemaker, flags, release, prepared, notice, due, job, at, bounds>>

\* pause_unit: what it says and whether it raises; an upgrading unit goes on.
PausedWell(u) == u \notin held /\ IsActive(u)
EndPauseAnyway(u) ==
    /\ at[u] = "pausing" /\ (u \notin held \/ tries[u] = PCMKR_MAX_RETRIES)
    /\ paused' = paused \cup {u}
    /\ Goto(u, IF u \in upgrading THEN "notifying" ELSE "idle")
    /\ UNCHANGED <<services, pacemaker, upgrading, waiting, release, prepared, notice, due,
                   job, tries, bounds>>
EndPause(u) ==
    /\ at[u] = "pausing" /\ (u \notin held \/ tries[u] = PCMKR_MAX_RETRIES)
    /\ paused' = IF PausedWell(u) \/ u \in upgrading THEN paused \cup {u} ELSE paused
    /\ Goto(u, IF u \in upgrading THEN "notifying" ELSE "idle")
    /\ UNCHANGED <<services, pacemaker, upgrading, waiting, release, prepared, notice, due,
                   job, tries, bounds>>

\* resume_unit: leave_standby_mode, which needs pacemaker.
LeaveStandby(u) ==
    /\ up[u]
    /\ standby' = standby \ {u} /\ opened' = opened \cup {u}
    /\ Goto(u, "checking")

\* A resume of a unit that is neither paused nor in standby is left out.
ResumeAction(u) ==
    /\ job[u] = "none" /\ at[u] = "idle" /\ u \notin prepared
    /\ u \in paused \cup standby
    /\ LeaveStandby(u)
    /\ UNCHANGED <<services, held, flags, release, prepared, notice, due, job, tries, spending>>

\* resume_unit: once is_in_standby_mode has neither failed nor said no, which
\* is one of the places where HookFails strikes.
ClearUnitPaused(u) ==
    /\ at[u] = "checking"
    /\ paused' = paused \ {u} /\ opened' = opened \ {u}
    /\ Goto(u, IF job[u] = "complete" THEN "finishing" ELSE "idle")
    /\ UNCHANGED <<services, pacemaker, upgrading, waiting, release, prepared, notice, due, job,
                   tries, spending>>

-----------------------------------------------------------------------------
(* The two hooks of a series upgrade.                                      *)

\* The operator upgrades one unit at a time.
MyTurn(u) ==
    \A v \in Unit \ {u} : v \notin prepared /\ job[v] \notin {"prepare", "complete"}

\* series_upgrade_prepare.
SeriesUpgradePrepare(u) ==
    /\ release[u] = Old /\ job[u] \in {"none", "prepare"} /\ at[u] = "idle"
    /\ u \notin prepared /\ MyTurn(u)
    /\ upgrading' = upgrading \cup {u}
    /\ job' = [job EXCEPT ![u] = "prepare"]
    /\ IF u \in paused \cup waiting
       THEN Goto(u, "notifying") /\ UNCHANGED <<standby, tries>>
       ELSE EnterStandby(u)
    /\ UNCHANGED <<services, held, paused, waiting, release, prepared, notice, due, bounds>>

\* notify_peers_of_series_upgrade, and the end of the hook.
NotifyPeersTarget(u) ==
    /\ at[u] = "notifying"
    /\ notice' = [notice EXCEPT ![u] = New]
    /\ Tell(u)
    /\ prepared' = prepared \cup {u}
    /\ job' = [job EXCEPT ![u] = "none"] /\ Goto(u, "idle")
    /\ UNCHANGED <<services, pacemaker, flags, release, tries, bounds>>
NotifyPeers(u) ==
    /\ at[u] = "notifying"
    /\ notice' = [notice EXCEPT ![u] = release[u]]
    /\ Tell(u)
    /\ prepared' = prepared \cup {u}
    /\ job' = [job EXCEPT ![u] = "none"] /\ Goto(u, "idle")
    /\ UNCHANGED <<services, pacemaker, flags, release, tries, bounds>>

\* do-release-upgrade and a reboot, once the peers report ``HA services shutdown,
\* peers are ready for series upgrade''; what runs afterwards is up to the release.
ReleaseUpgrade(u) ==
    /\ u \in prepared /\ release[u] = Old
    /\ \A v \in Unit \ {u} : v \in waiting \/ release[v] = New
    /\ release' = [release EXCEPT ![u] = New]
    /\ \E b \in BOOLEAN : up' = [up EXCEPT ![u] = b]
    /\ \E b \in BOOLEAN : stale' = [stale EXCEPT ![u] = b]
    /\ held' = held \ {u}
    /\ UNCHANGED <<standby, flags, prepared, notice, due, job, at, tries, bounds>>

\* series_upgrade_complete: clear_unit_paused, clear_unit_upgrading.
SeriesUpgradeComplete(u) ==
    /\ u \in prepared /\ release[u] = New /\ at[u] = "idle"
    /\ paused' = paused \ {u} /\ upgrading' = upgrading \ {u}
    /\ job' = [job EXCEPT ![u] = "complete"] /\ Goto(u, "configuring")
    /\ UNCHANGED <<services, pacemaker, waiting, release, prepared, notice, due, tries, bounds>>

\* series_upgrade_complete: config_changed, whose try_pcmk_wait comes before
\* enable_ha_services: a unit whose services are down fails here.
ConfigureUpgraded(u) ==
    /\ at[u] = "configuring"
    /\ up' = [up EXCEPT ![u] = @ \/ Restarts(u)]
    /\ stale' = [stale EXCEPT ![u] = FALSE]
    /\ Goto(u, IF up'[u] THEN "enabling" ELSE "idle")
    /\ UNCHANGED <<pacemaker, flags, release, prepared, notice, due, job, tries, bounds>>

\* enable_ha_services.
EnableHaServices(u) ==
    /\ at[u] = "enabling"
    /\ up' = [up EXCEPT ![u] = TRUE]
    /\ Goto(u, "resuming")
    /\ UNCHANGED <<stale, pacemaker, flags, release, prepared, notice, due, job, tries, bounds>>

ResumeUpgraded(u) ==
    /\ at[u] = "resuming"
    /\ LeaveStandby(u)
    /\ UNCHANGED <<services, held, flags, release, prepared, notice, due, job, tries, spending>>

\* clear_series_upgrade_notification, clear_waiting_unit_series_upgrade.
ClearNotificationOnly(u) ==
    /\ at[u] = "finishing"
    /\ notice' = [notice EXCEPT ![u] = 0] /\ Tell(u)
    /\ prepared' = prepared \ {u}
    /\ job' = [job EXCEPT ![u] = "none"] /\ Goto(u, "idle")
    /\ UNCHANGED <<services, pacemaker, flags, release, tries, bounds>>
ClearNotification(u) ==
    /\ at[u] = "finishing"
    /\ notice' = [notice EXCEPT ![u] = 0] /\ Tell(u)
    /\ waiting' = waiting \ {u}
    /\ prepared' = prepared \ {u}
    /\ job' = [job EXCEPT ![u] = "none"] /\ Goto(u, "idle")
    /\ UNCHANGED <<services, pacemaker, paused, upgrading, release, tries, bounds>>

\* A hook raises or dies between two steps and is retried; an action is not.
HookFails(u) ==
    /\ at[u] # "idle" /\ Spend("kill")
    /\ Goto(u, "idle")
    /\ UNCHANGED <<services, pacemaker, flags, release, prepared, notice, due, job, tries>>

-----------------------------------------------------------------------------
(* Pacemaker, the operator and the rest of the model.                      *)

ResourcesLeave(u) ==
    /\ u \in held /\ (u \in standby \/ ~up[u])
    /\ held' = held \ {u}
    /\ UNCHANGED <<services, standby, flags, juju, bounds>>

ResourcesArrive(u) ==
    /\ u \notin held \cup standby /\ up[u]
    /\ held' = held \cup {u}
    /\ UNCHANGED <<services, standby, flags, juju, bounds>>

\* ``Pacemaker is down. Please manually start it.''
OperatorStarts(u) ==
    /\ ~up[u] /\ at[u] = "idle"
    /\ job[u] = "complete" \/ \E hook \in Hook : job[u] = hook /\ Configures(u, hook)
    /\ up' = [up EXCEPT ![u] = TRUE]
    /\ UNCHANGED <<stale, pacemaker, flags, juju, bounds>>

\* An option or the principal's data changes, and the files with it or not.
DataChanges(u, hook) ==
    /\ Spend(hook)
    /\ \E b \in BOOLEAN : stale' = [stale EXCEPT ![u] = @ \/ b]
    /\ due' = [due EXCEPT ![u] = @ \cup {hook}]
    /\ UNCHANGED <<up, pacemaker, flags, release, prepared, notice, job, at, tries>>

\* The address of a peer changes, which all the files name.
PeerChanges(u) ==
    /\ Spend("peer")
    /\ stale' = [v \in Unit |-> TRUE]
    /\ Tell(u)
    /\ UNCHANGED <<up, pacemaker, flags, release, prepared, notice, job, at, tries>>

-----------------------------------------------------------------------------
HookStep(u) ==
    \/ StopForPeer(u) \/ KeepWaiting(u) \/ SkipConfig(u) \/ \E hook \in Hook : Configure(u, hook)
    \/ LookAgain(u) \/ EndPause(u) \/ NotifyPeers(u)
    \/ ConfigureUpgraded(u) \/ EnableHaServices(u) \/ ResumeUpgraded(u) \/ ClearUnitPaused(u)
    \/ ClearNotification(u)

OperatorStep(u) ==
    \/ PauseAction(u) \/ ResumeAction(u) \/ SeriesUpgradePrepare(u) \/ ReleaseUpgrade(u)
    \/ SeriesUpgradeComplete(u) \/ OperatorStarts(u)

Next ==
    \E u \in Unit :
        \/ HookStep(u) \/ OperatorStep(u) \/ HookFails(u)
        \/ ResourcesLeave(u) \/ ResourcesArrive(u)
        \/ DataChanges(u, "config") \/ DataChanges(u, "ha") \/ PeerChanges(u)

Spec == Init /\ [][Next]_vars

\* Juju runs what is due and retries what failed; the operator carries on with an
\* upgrade once it is begun and starts services if the charm asks for it again and again.
Fairness ==
    \A u \in Unit :
        /\ WF_vars(HookStep(u)) /\ WF_vars(job[u] = "prepare" /\ SeriesUpgradePrepare(u))
        /\ WF_vars(ReleaseUpgrade(u)) /\ WF_vars(SeriesUpgradeComplete(u))
        /\ SF_vars(OperatorStarts(u)) /\ WF_vars(ResourcesLeave(u))
FairSpec == Spec /\ Fairness

-----------------------------------------------------------------------------
(* What holds.                                                             *)

\* Type invariant.
TypeOK ==
    /\ release \in [Unit -> {Old, New}] /\ prepared \subseteq Unit
    /\ up \in [Unit -> BOOLEAN] /\ stale \in [Unit -> BOOLEAN]
    /\ standby \subseteq Unit /\ held \subseteq Unit
    /\ paused \subseteq Unit /\ upgrading \subseteq Unit /\ waiting \subseteq Unit
    /\ notice \in [Unit -> {0, Old}]
    /\ due \in [Unit -> SUBSET Hook]
    /\ job \in [Unit -> Job] /\ at \in [Unit -> Stage]
    /\ tries \in [Unit -> 0..PCMKR_MAX_RETRIES]
    /\ opened \subseteq Unit /\ happened \subseteq Disturbances /\ budget \in [Disturbances -> Nat]

\* Neither config-changed nor an event of the ha relation gets in between.
Undisturbed == happened \cap {"config", "ha"} = {}

\* Units of two releases never run corosync at the same time: that is what the
\* notification of the peers and the waiting flag are for. It takes that
\* hanode_relation_changed stops before ha_relation_changed on a waiting unit.
NoMixedCluster ==
    Undisturbed => \A u, v \in Unit : up[u] /\ up[v] => release[u] = release[v]

\* A notification that comes late shuts down nobody who is already on the newer
\* release (hanode_relation_changed, ``Already series ahead of peer'').
OnlyOldGoDown == [][\A u \in Unit : up[u] /\ ~up'[u] => release[u] = Old]_vars

\* A unit that is marked as paused runs no resources and will get none, unless it
\* is being upgraded (pause_unit raises otherwise) or a resume of it is under way
\* or has failed half-way: resume_unit puts the node online before it clears the
\* mark, and nothing takes that back.
PausedIsEmpty == \A u \in paused \ (upgrading \cup opened) : u \in standby \ held

\* A unit prepared for an upgrade ends up on the new release with its services
\* running, back in the cluster and listening to its peers.
Serving(u) == release[u] = New /\ up[u] /\ u \notin standby \cup paused \cup upgrading \cup waiting
UpgradeCompletes == []Undisturbed => \A u \in Unit : u \in prepared ~> Serving(u)
=============================================================================
