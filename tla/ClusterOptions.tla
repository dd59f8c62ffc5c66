---------------------------- MODULE ClusterOptions ----------------------------
(***************************************************************************)
(* How charm options reach the properties of the pacemaker cluster:        *)
(* no-quorum-policy, maintenance-mode and stonith-enabled. Every unit runs *)
(* config-changed, the leader's hooks also run the global setup, and each  *)
(* write to the CIB is a command of its own, so hooks of two units, or of  *)
(* an old and a new leader, interleave between commands.                   *)
(*                                                                         *)
(* A definition that stands right before another one and bears a longer    *)
(* form of its name is a defect the properties must notice.                *)
(***************************************************************************)
EXTENDS Naturals

CONSTANTS
    Unit,      \* the units of the cluster
    Policies,  \* values of no_quorum_policy, "stop" among them
    Budgets    \* bound: how often each disturbance may occur, in alternatives

Disturbances == {"config", "ha", "leader", "pause", "fail", "remote", "left"}

ASSUME PoliciesAssumption == "stop" \in Policies
ASSUME BudgetAssumption == Budgets \subseteq [Disturbances -> Nat]

VARIABLES
    option,   \* no_quorum_policy and maintenance-mode as the operator set them
    leader,   \* the unit Juju's lease names
    remote,   \* some pacemaker-remote unit has given its stonith hostname
    paused,   \* unit-paused in the unit's key-value store
    saved,    \* maintenance-mode in the unit's copy of the last hook's config
    due,      \* the hooks owed to the unit
    at,       \* the next command of the unit's hook
    hook,     \* which hook that is
    seen,     \* the options as that hook reads them
    raced,    \* history: units during whose hook, under way or last, the lease has moved
    cib,      \* the cluster's properties, and whether stonith resources exist
    flag,     \* STONITH_CONFIGURED in the leader's settings
    happened, \* the disturbances so far
    budget    \* what is left of them

vars == <<option, leader, remote, paused, saved, due, at, hook, seen, raced, cib,
          flag, happened, budget>>

environment == <<option, leader, remote, paused, happened, budget>>

Options == [quorum : Policies, maintenance : BOOLEAN]
Hooks == {"config", "ha"}
Steps == {"idle", "setup", "global", "flag", "disable", "maintenance", "quorum",
          "stonith", "enable", "mark"}

Spend(kind) ==
    /\ budget[kind] > 0
    /\ budget' = [budget EXCEPT ![kind] = @ - 1]
    /\ happened' = happened \cup {kind}

Init ==
    /\ leader \in Unit
    /\ option = [quorum |-> "stop", maintenance |-> FALSE]
    /\ remote = FALSE
    /\ paused = [u \in Unit |-> FALSE]
    /\ saved = [u \in Unit |-> FALSE]
    /\ due = [u \in Unit |-> {}]
    /\ at = [u \in Unit |-> "idle"]
    /\ hook = [u \in Unit |-> "config"]
    /\ seen = [u \in Unit |-> option]
    /\ raced = {}
    /\ cib = [quorum |-> "stop", maintenance |-> FALSE, stonith |-> FALSE,
              resources |-> FALSE]
    /\ flag = FALSE
    /\ happened = {}
    /\ budget \in Budgets

-----------------------------------------------------------------------------
(* The hooks, command by command.                                          *)

Goto(u, step) == at' = [at EXCEPT ![u] = step]

\* The hook succeeds: charmhelpers saves the config it has read, which is what
\* `previous' answers from then on.
End(u, options) ==
    /\ Goto(u, "idle")
    /\ saved' = [saved EXCEPT ![u] = options.maintenance]

Begin(u, h) ==
    /\ at[u] = "idle"
    /\ h \in due[u]
    /\ due' = [due EXCEPT ![u] = @ \ {h}]
    /\ hook' = [hook EXCEPT ![u] = h]
    /\ seen' = [seen EXCEPT ![u] = option]
    /\ raced' = raced \ {u}

\* config-changed: a paused unit returns at once, and that is a success.
ConfigChanged(u) ==
    /\ Begin(u, "config")
    /\ IF paused[u] THEN End(u, option)
                    ELSE Goto(u, "setup") /\ UNCHANGED saved
    /\ UNCHANGED <<cib, flag>>
    /\ UNCHANGED environment

\* ha_relation_changed and the hooks that run it.
HaRelationChanged(u) ==
    /\ Begin(u, "ha")
    /\ IF leader = u THEN Goto(u, "global") /\ UNCHANGED saved
                     ELSE End(u, option)
    /\ UNCHANGED <<cib, flag>>
    /\ UNCHANGED environment

\* Only the leader runs the global setup in config-changed.
CheckLeader(u) ==
    /\ at[u] = "setup"
    /\ Goto(u, IF leader = u THEN "global" ELSE "maintenance")
    /\ UNCHANGED <<saved, due, hook, seen, raced, cib, flag>>
    /\ UNCHANGED environment

\* run_initial_setup: configure_cluster_global sets no-quorum-policy=stop.
ConfigureClusterGlobal(u) ==
    /\ at[u] = "global"
    /\ cib' = [cib EXCEPT !.quorum = "stop"]
    /\ Goto(u, "flag")
    /\ UNCHANGED <<saved, due, hook, seen, raced, flag>>
    /\ UNCHANGED environment

AfterSetup(u) == IF hook[u] = "config" THEN "maintenance" ELSE "stonith"

\* run_initial_setup, continued: is_stonith_configured is asked ...
CheckStonithFlagNever(u) ==
    /\ at[u] = "flag"
    /\ Goto(u, "disable")
    /\ UNCHANGED <<saved, due, hook, seen, raced, cib, flag>>
    /\ UNCHANGED environment
CheckStonithFlag(u) ==
    /\ at[u] = "flag"
    /\ Goto(u, IF flag THEN AfterSetup(u) ELSE "disable")
    /\ UNCHANGED <<saved, due, hook, seen, raced, cib, flag>>
    /\ UNCHANGED environment

\* ... and stonith disabled on the answer "no".
DisableStonith(u) ==
    /\ at[u] = "disable"
    /\ cib' = [cib EXCEPT !.stonith = FALSE]
    /\ Goto(u, AfterSetup(u))
    /\ UNCHANGED <<saved, due, hook, seen, raced, flag>>
    /\ UNCHANGED environment

\* maintenance_mode: the leader applies an option that is not the one of its
\* previous hook.
MaintenanceChangedBack(u) == seen[u].maintenance /\ ~saved[u]
MaintenanceChanged(u) == saved[u] # seen[u].maintenance

SetMaintenance(u) ==
    /\ at[u] = "maintenance"
    /\ IF leader = u /\ MaintenanceChanged(u)
       THEN cib' = [cib EXCEPT !.maintenance = seen[u].maintenance]
       ELSE UNCHANGED cib
    /\ Goto(u, "quorum")
    /\ UNCHANGED <<saved, due, hook, seen, raced, flag>>
    /\ UNCHANGED environment

\* The end of config-changed, on every unit.
QuorumPolicyDefault(u) == "stop"
QuorumPolicyAsTyped(u) == "Stop"
QuorumPolicy(u) == seen[u].quorum

SetQuorumPolicyLeader(u) ==
    /\ at[u] = "quorum"
    /\ cib' = IF leader = u THEN [cib EXCEPT !.quorum = QuorumPolicy(u)] ELSE cib
    /\ End(u, seen[u])
    /\ UNCHANGED <<due, hook, seen, raced, flag>>
    /\ UNCHANGED environment
SetQuorumPolicy(u) ==
    /\ at[u] = "quorum"
    /\ cib' = [cib EXCEPT !.quorum = QuorumPolicy(u)]
    /\ End(u, seen[u])
    /\ UNCHANGED <<due, hook, seen, raced, flag>>
    /\ UNCHANGED environment

\* The end of the leader's part of ha_relation_changed: configure_stonith when
\* enough members are ready. Without a stonith resource it disables stonith.
ConfigureStonith(u) ==
    /\ at[u] = "stonith"
    /\ IF remote
       THEN /\ cib' = [cib EXCEPT !.resources = TRUE]
            /\ Goto(u, "enable")
            /\ UNCHANGED saved
       ELSE /\ cib' = [cib EXCEPT !.stonith = FALSE]
            /\ End(u, seen[u])
    /\ UNCHANGED <<due, hook, seen, raced, flag>>
    /\ UNCHANGED environment

DeferRemotes(u) ==
    /\ at[u] = "stonith"
    /\ End(u, seen[u])
    /\ UNCHANGED <<due, hook, seen, raced, cib, flag>>
    /\ UNCHANGED environment

EnableStonith(u) ==
    /\ at[u] = "enable"
    /\ cib' = [cib EXCEPT !.stonith = TRUE]
    /\ Goto(u, "mark")
    /\ UNCHANGED <<saved, due, hook, seen, raced, flag>>
    /\ UNCHANGED environment

\* set_stonith_configured: leader-set takes effect at once.
MarkStonithConfigured(u) ==
    /\ at[u] = "mark"
    /\ leader = u
    /\ flag' = TRUE
    /\ End(u, seen[u])
    /\ UNCHANGED <<due, hook, seen, raced, cib>>
    /\ UNCHANGED environment

\* A command fails, the hook is in error and will be retried.
Abort(u) ==
    /\ Goto(u, "idle")
    /\ due' = [due EXCEPT ![u] = @ \cup {hook[u]}]
    /\ UNCHANGED <<saved, hook, seen, raced, cib, flag>>

HookFails(u) ==
    /\ at[u] # "idle"
    /\ Spend("fail")
    /\ Abort(u)
    /\ UNCHANGED <<option, leader, remote, paused>>

\* leader-set is refused to a unit that is not the leader any more.
LeaderSetRefused(u) ==
    /\ at[u] = "mark"
    /\ leader # u
    /\ Abort(u)
    /\ UNCHANGED environment

-----------------------------------------------------------------------------
(* The operator and the Juju controller.                                   *)

Unscheduled == <<saved, at, hook, seen, raced, cib, flag>>

SetOption(o) ==
    /\ o # option
    /\ Spend("config")
    /\ option' = o
    /\ due' = [u \in Unit |-> due[u] \cup {"config"}]
    /\ UNCHANGED <<leader, remote, paused>>
    /\ UNCHANGED Unscheduled

HaDataChanges(u) ==
    /\ Spend("ha")
    /\ due' = [due EXCEPT ![u] = @ \cup {"ha"}]
    /\ UNCHANGED <<option, leader, remote, paused>>
    /\ UNCHANGED Unscheduled

\* A pacemaker-remote unit appears: every unit runs ha_relation_changed for it.
RemoteJoins ==
    /\ ~remote
    /\ Spend("remote")
    /\ remote' = TRUE
    /\ due' = [u \in Unit |-> due[u] \cup {"ha"}]
    /\ UNCHANGED <<option, leader, paused>>
    /\ UNCHANGED Unscheduled

\* The last of them leaves. No handler runs for that (the pacemaker-remote relation
\* has none for departures); the next ha_relation_changed finds out.
RemoteLeaves ==
    /\ remote
    /\ Spend("left")
    /\ remote' = FALSE
    /\ UNCHANGED <<option, leader, paused, due>>
    /\ UNCHANGED Unscheduled

LeaderElected(u) ==
    /\ u # leader
    /\ Spend("leader")
    /\ leader' = u
    /\ raced' = raced \cup {v \in Unit : at[v] # "idle"}
    /\ UNCHANGED <<option, remote, paused, saved, due, at, hook, seen, cib, flag>>

PauseUnit(u) ==
    /\ at[u] = "idle"
    /\ ~paused[u]
    /\ ~cib.maintenance
    /\ Spend("pause")
    /\ paused' = [paused EXCEPT ![u] = TRUE]
    /\ UNCHANGED <<option, leader, remote, due>>
    /\ UNCHANGED Unscheduled

\* resume clears the flag and runs no hook.
ResumeUnit(u) ==
    /\ at[u] = "idle"
    /\ paused[u]
    /\ paused' = [paused EXCEPT ![u] = FALSE]
    /\ UNCHANGED <<option, leader, remote, due, happened, budget>>
    /\ UNCHANGED Unscheduled

-----------------------------------------------------------------------------
HookStep(u) ==
    \/ ConfigChanged(u) \/ HaRelationChanged(u) \/ CheckLeader(u)
    \/ ConfigureClusterGlobal(u) \/ CheckStonithFlag(u) \/ DisableStonith(u)
    \/ SetMaintenance(u) \/ SetQuorumPolicy(u) \/ ConfigureStonith(u)
    \/ DeferRemotes(u) \/ EnableStonith(u) \/ MarkStonithConfigured(u)
    \/ LeaderSetRefused(u)

Next ==
    \/ \E u \in Unit :
         \/ HookStep(u) \/ HookFails(u) \/ HaDataChanges(u)
         \/ LeaderElected(u) \/ PauseUnit(u) \/ ResumeUnit(u)
    \/ \E o \in Options : SetOption(o)
    \/ RemoteJoins \/ RemoteLeaves

Spec == Init /\ [][Next]_vars

\* Juju dispatches the hooks it owes and hooks end.
FairSpec == Spec /\ \A u \in Unit : WF_vars(HookStep(u))

-----------------------------------------------------------------------------
(* What holds.                                                             *)

\* Type invariant.
TypeOK ==
    /\ option \in Options
    /\ leader \in Unit
    /\ remote \in BOOLEAN
    /\ paused \in [Unit -> BOOLEAN]
    /\ saved \in [Unit -> BOOLEAN]
    /\ due \in [Unit -> SUBSET Hooks]
    /\ at \in [Unit -> Steps]
    /\ hook \in [Unit -> Hooks]
    /\ seen \in [Unit -> Options]
    /\ raced \subseteq Unit
    /\ cib \in [quorum : Policies, maintenance : BOOLEAN, stonith : BOOLEAN,
                resources : BOOLEAN]
    /\ flag \in BOOLEAN
    /\ happened \subseteq Disturbances
    /\ budget \in [Disturbances -> Nat]

\* Every hook is through and nobody is paused.
Quiet == \A u \in Unit : at[u] = "idle" /\ due[u] = {} /\ ~paused[u]

\* The operator has set options and nothing else has happened.
Undisturbed == happened \subseteq {"config"}

\* However many times the operator changes his mind while hooks are under way,
\* the cluster is in maintenance mode exactly when he said so last
\* (config_changed, maintenance_mode). A hook that fails, a leader that moves or
\* another hook that saves the config in between can lose the change for good.
MaintenanceApplied ==
    Undisturbed /\ Quiet => cib.maintenance = option.maintenance

\* Stonith that is enabled and marked as configured is disabled only by a hook that
\* finds no remote any more (configure_stonith) or one during which the lease has
\* moved: run_initial_setup reads STONITH_CONFIGURED before it disables stonith, and
\* nobody but another leader can have set it since. A hook that was killed between
\* enabling and marking is no exception, nor is any other failure or pause.
StonithKept ==
    [][flag /\ cib.stonith /\ ~cib'.stonith =>
          \E u \in Unit :
             /\ at'[u] # at[u]
             /\ u \in raced \/ (at[u] = "stonith" /\ ~remote)]_vars

\* The quorum policy is written at the end of every config-changed, whatever was
\* there: a hook that failed or a leader that moved does not lose it, and with
\* hooks of an older option still under way the last word is the newest one's. It
\* takes that nobody is paused and no hook but config-changed resets the policy.
QuorumApplied ==
    happened \subseteq {"config", "fail", "leader"} /\ Quiet => cib.quorum = option.quorum

\* Once the operator leaves the options alone the cluster gets both of them and
\* keeps them: no hook that is still on its way undoes what another one set.
OptionsInForce ==
    []Undisturbed =>
        <>[](cib.quorum = option.quorum /\ cib.maintenance = option.maintenance)
=============================================================================
