# Formal models of charm-hacluster

The hacluster charm builds a corosync/pacemaker cluster out of the units of a
principal application. On every unit Juju runs its hooks (`hooks/hooks.py`) and
actions (`actions/actions.py`), one at a time; units run concurrently and only
see each other through relation data, leader settings and the cluster itself.
These modules model that, check it with TLC on small instances and prove the
main safety properties for instances of any size with TLAPS.

Run everything from this directory:

    tlc -workers 2 -config MCRing_form.cfg MCRing      # any run of section 3
    tlapm RingProofs.tla                               # any *Proofs module

Paths below are relative to `src/`. `PROJECT.json` has the map from definitions to
lines, the hazards at their lines, and the mutants that show that each property can
fail.

## 1. Inventory

| Component | State it keeps | Operations | Module |
| --- | --- | --- | --- |
| Ring membership (`hooks.py` install, config_changed, hanode_*, ha_relation_changed, stop; `utils.py` get_ha_nodes, configure_corosync, restart_corosync_on_change) | `corosync.conf`, the ring corosync runs with, `ready` and `member_ready` on hanode, the paused flag | hooks for joining, changing and departing peers, config-changed, upgrade-charm, stop, pause, resume | `Ring`, `Formation` |
| What the file says (`utils.py` get_corosync_conf, get_ha_nodes, get_ipv6_addr; `network/ip.py`) | `private-address` on hanode, `corosync.conf` | publish an address, write the file | `Nodelist` |
| Ring repair (`actions.py` update_ring, delete_node_from_ring; `utils.py` update_node_list, is_update_ring_requested) | `trigger-corosync-update` on the relation, `corosync-update-uuid` in each key-value store | the two actions, the reaction of the peers | `Ring` |
| Deletion of nodes (`pcmk.py` set_node_status_to_maintenance, delete_node; their callers) | the node list of the CIB | maintenance, delete with retries, called by stop and both actions | `NodeRemoval`, `Removal` |
| Cluster options (`hooks.py` config_changed, run_initial_setup; `utils.py` configure_cluster_global, maintenance_mode, configure_stonith) | properties in the CIB, the saved configuration of each unit, `STONITH_CONFIGURED` | config-changed on every unit, global setup and stonith on the leader | `ClusterOptions` |
| Resource reconciliation and pacemaker remotes (`hooks.py` 384-587; `pcmk.py` _crm_update_object, crm_opt_exists; `utils.py` 733-991) | resources, constraints and rules in the CIB, a hash per object in the unit's store | delete, create or update, constrain, remotes, location rules | `Resources` |
| Services of a unit (`hooks.py` hanode_relation_changed, series_upgrade_*; `utils.py` 1214-1391, 1461-1556) | services, standby, three flags, a notification on hanode | pause, resume, the two series-upgrade hooks, the reaction of the peers | `UnitServices` |
| DNS HA and fencing (`files/ocf/maas`) | name in MAAS, power state of machines | start and monitor of the agent, `maas_dns.py`, on, off and reset of the plugin | `Failover` |
| RBD agent, Nagios checks, reporting actions, templates | none of their own | | section 5 |
| charmhelpers, maasclient | vendored | | where used |

How they interact: all hooks of a unit share its files, services and key-value store;
`hanode` carries flags, addresses, update requests and upgrade notifications; the CIB
is written by every unit's hooks, mostly by the leader's, and by pacemaker; pacemaker
calls the agents and the fencing plugin, which talk to MAAS.

What is hard about it: hooks of different units interleave; relation data leaves
a unit only when its hook succeeds, and what a hook has read does not change
under it; hooks fail or are killed anywhere and are retried from the start; peers
join and depart in any order; leadership moves while the old leader's hook runs;
files are rewritten in one place and loaded in another; the same property is
written from several hooks; commands fail unnoticed, or after they have worked; MAAS
does things later than it says.

What makes the parts correct:

- ring: it forms only with `cluster_count` ready units, it forms in the end,
  what is written to disk is loaded, no stranger is in it, members that are
  counted are there;
- file: all units end up with the same addresses and transport, those in force;
- repair: a removal reaches every ring, each request is acted on once, and "No
  changes required" is true;
- deletion: nothing ends well that has not seen the removal it was for, no node is
  left in maintenance without a word, a departing unit gets away;
- options: the cluster has the options the operator set, stonith stays enabled
  once configured, as long as there are remotes;
- resources: the CIB converges to what the principal asked for, updates are not
  lost, constraints exist, everything may run somewhere;
- services: releases do not mix while a series upgrade is on, everybody comes
  back, a paused unit is empty;
- failover: a resource runs on one node at a time, fenced nodes come back, the
  name follows the resource.

## 2. Modules

Conventions. `due` is the set of hooks Juju owes a unit; equal events coalesce, a
failed hook is retried before others. relation-set is flushed when a hook succeeds,
reads of the relation are cached per hook, the key-value store is flushed at once,
the configuration is saved at the end of a successful hook. A killed hook strikes
between any two steps. `budget` says how often each kind of disturbance may still
occur; a behaviour starts with one member of the constant `Budgets` (`Starts` in
`Ring` and `Nodelist`), so one run covers several mixtures of disturbances without having all of
them at once. `happened`, `handled`, `blamed`, `exposed`, `missed`, `raced` and
`opened` are history variables. A
definition right before another one, with a longer form of its name (`WriteConfOnly`
before `WriteConf`), is a defect used to see that a property notices it; no
specification uses it.

### Ring

`status`, `view` (what `relation-list` shows), `bag` (what a unit has published on
hanode), `due` and `leader` are Juju's; `conf` is the nodelist on disk, `ring` the one
corosync runs with (`{}` when it is down), `nodes` the node list of the unit's CIB
copy; `kv` and `paused` are in the unit's key-value store; `at`, `event` and `counted`
describe the hook in flight. `request` numbers the update requests in place of
their uuids.

| Action | Code |
| --- | --- |
| `Install`, `UpgradeCharm` | `install`, `upgrade_charm`: write the file; the package starts corosync the first time, nothing restarts it later |
| `HanodeJoined`, `HanodeDeparted` | the hooks of the same name; a departure rewrites the file unless in maintenance mode |
| `TakeUpdateRequest`, `ReloadRing` | `trigger_corosync_update_from_leader` in two steps, since the id is stored before the reload |
| `DeferConfiguration` | the early returns of `ha_relation_changed`: publishes `ready` |
| `ConfigureCorosync`, `RestartCorosync`, `FinishHook` | `configure_corosync`, the restart the decorator decides on, `member_ready` at the end |
| `ConfigChanged` | `config_changed`, with its return when paused |
| `RestartFails`, `HookFails`, `PacemakerDown` | a hook ends in error in the middle and is retried; what it did on the unit stays, what it published does not leave |
| `PauseUnit`, `ResumeUnit`, `Stop` | the actions and the hook, when they succeed |
| `UpdateRing`, `UpdateRingFails`, `DeleteNodeFromRing` | the actions on the leader, the leader's own reload, which may fail unnoticed (`actions.py:130`), included; delete-node-from-ring takes any name, asks for the lead only, and tells the peers whether the node went or not |
| `ServicesStart`, `UnitRemoved`, `UnitLost`, `LeaderElected`, `SetConfig`, `HaDataChanges` | outside the charm |

Abstractions. An address is the unit itself (`Nodelist` has addresses). Departed hooks
come before other hooks (`Dispatchable`). `corosync-cfgtool -R` makes every node that
shares the ring reread its own file; two nodes share a ring when each has the other in
its nodelist; nodes that share a ring share the CIB's node list. Corosync may be down
after a failed restart until somebody starts it. The loops of
`validated_restart_corosync` and `wait_for_pcmk` are one step that ends well or not.
The resource section of `ha_relation_changed` changes nothing of this state and is one
of the places where `HookFails` strikes. The series-upgrade branch of
`hanode_relation_changed` is in `UnitServices`.

### Formation

The abstract specification of the exchange over `hanode`: two sets, the units that are
ready and the units that are members, which only grow; a unit becomes a member when the
ready ones and itself are enough. `Ring` instantiates it (`F`) with the flags in the
relation bags; `FormationSpec` is a property of `ring_form` and a theorem.

### Nodelist

What a unit writes: `file[u].nodes` gives every unit an address, `bag` is the
`private-address` a unit has published, `draft` the one the hook under way will publish
if it ends well. `moved` counts how often a unit has got new addresses, `held` is the
unit whose interface has the virtual IP, `prefer6`, `transport` and `local` are options,
`offered` says whose principal has settings of its own, `paused` who has `unit-paused`
set, `missed` who has skipped a config-changed and run none since.

| Action | Code |
| --- | --- |
| `PublishAddress`, `SkipConfig` | `hanode_relation_joined`, alone or as the first call of `config_changed`, which a paused unit leaves before that; `get_relation_ip` |
| `HaRelationChanged`, `ConfigureCorosync` | `get_ha_nodes` (the peers as published, the unit as it finds itself) and `get_corosync_conf` (local settings before the principal's, no file without either) |
| `EndHook`, `HookFails` | Juju publishes and tells the peers, or retries |
| `PauseUnit`, `ResumeUnit` | the actions, as far as the flag goes |
| `SetPreferIpv6`, `SetTransport`, `PrincipalOffers`, `AddressChanges`, `PlaceVip` | outside the charm |

`OnInterface` is what charmhelpers finds on an interface, in an order nobody fixes:
the unit's address and a virtual IP that is there. `CorosyncManaged`, what
`get_ipv6_addr` wants to leave out, is computed as the code computes it, from the
resources' types, and is therefore empty. Deployment and departures are `Ring`'s.

### ClusterOptions

Starts from a formed cluster, where `configure_corosync` always succeeds, and follows
each command that writes a cluster property. `option` is the operator's configuration,
`saved` the part of `.juju-persistent-config` that matters (charmhelpers writes it when
a hook succeeds and `previous` reads it), `seen` what the hook in flight reads, `cib`
the properties, `flag` the leader setting `STONITH_CONFIGURED`. Commands of
`run_initial_setup`, `maintenance_mode`, the end of `config_changed` and
`configure_stonith` are actions of their own, so hooks of several units, and of
an old and a new leader, interleave between any two of them. `leader-set` takes
effect at once and is refused to a unit that has lost the lease. Remotes come and go
(`RemoteJoins`, `RemoteLeaves`); no hook runs where the last one goes, and the next
`configure_stonith`, which finds none, disables stonith with `STONITH_CONFIGURED` still
set. `raced` has the units during whose hook the lease moved. Policies that
`config_changed` rejects are not among `Policies`. Whether all members are
registered is left open (`DeferRemotes`).

### Resources

The leader's half of `ha_relation_changed`, one `crm` command per step. `asked` is what
each principal unit shows its subordinate (they settle on `wanted` in their own time),
`read` what the hook has read, `at` the stage it is in, `todo` the objects it has not
dealt with there, `noting` the one it has updated without having stored its hash, `kv`
the hashes per unit. The CIB is `prim` (parameters by resource), `made` (groups, clones,
constraints), `hosts`, `rules`, `score` and `symmetric`. Parameters are compared as
hashes are: equal or not. `Within` says whose name occurs in whose, which is all that is
left of the strings `crm_opt_exists` searches, and `Longer` likewise whose node name is
the start of whose (`RuleExists`).

| Action | Code |
| --- | --- |
| `HaRelationChanged`, `NextStage` | reading the relation; from one loop to the next, with `list_nodes` asked again |
| `SetClusterSymmetry` | `set_cluster_symmetry`, before everything else |
| `DeleteResource`, `CreatePrimitive` | the first two loops; deletion takes what refers to the resource along |
| `SkipUpdate`, `LoadUpdate`, `NoteHash` | `_crm_update_object`: unchanged, load update, store the hash |
| `MakeDefinition` | groups, ms, orders, clones, colocations, locations; crm refuses what refers to something missing, and the charm goes on |
| `ConfigureRemote`, `AddLocalRule` | remotes and the rules an opt-in cluster needs |
| `RuleRefused`, `UpdateRefused`, `CommandLost`, `HookFails` | failures that are fatal, fatal for resources only, unnoticed; a killed hook |
| `Want`, `PrincipalPublishes`, `RemoteJoins`, `RemotesAnswer`, `NodeJoins`, `MembersReady`, `LeaderElected` | around the charm |

### UnitServices

When corosync and pacemaker of a unit run. `up` and `stale` (the next hook that writes
the files changes them), `standby` and `held` (pacemaker), the flags `paused`,
`upgrading`, `waiting`, the `notice` of an upgrade on hanode, the `release`.

| Action | Code |
| --- | --- |
| `StopForPeer`, `KeepWaiting` | `hanode_relation_changed`, where a peer is about to be upgraded, and while the unit waits |
| `Configure`, `SkipConfig` | `config_changed` and `ha_relation_changed`, as far as services are concerned |
| `PauseAction`, `LookAgain`, `EndPause` | `pause_unit` with its loop and both endings |
| `ResumeAction`, `ClearUnitPaused` | `resume_unit`: the node goes online first (`LeaveStandby`), is looked at, and is then no longer marked; `HookFails` strikes in between (`opened`) |
| `SeriesUpgradePrepare`, `NotifyPeers` | `series_upgrade_prepare` |
| `SeriesUpgradeComplete`, `ConfigureUpgraded`, `EnableHaServices`, `ResumeUpgraded`, `ClearNotification` | `series_upgrade_complete`, step by step |
| `ReleaseUpgrade`, `OperatorStarts`, `ResourcesLeave`, `ResourcesArrive`, `DataChanges`, `PeerChanges` | outside the charm |

Releases are compared by order, as `CompareHostReleases` does. The operator upgrades
one unit at a time and waits for the peers to report that they are shut down, which is
what the status messages tell him to do.

### NodeRemoval and Removal

Three callers take nodes out of the CIB: `stop` its own, `update-ring` all that have no
unit, `delete-node-from-ring` the one it is given. Each is `SetMaintenance`, then
`Delete`, `NotFound` or `DeleteFails` round the loop of `delete_node`, whose success
does not end it; `Returns` and `Raises` are the two ways back to the caller, which goes
on, fails, or (delete-node-from-ring) calls `function_fail` and goes on. `status` is
what Juju shows for the hook or action, `result` what the action has set, which for
delete-node-from-ring is `success` in any case (`actions.py:185`). `DeleteFails` has
errors the code retries on, others, and both after the node has been deleted.
`cib[n]` is `online`, `maintenance` or `gone`.

`Removal` is what whoever asks for a removal relies on: the answer is a success
only when each of the nodes was seen gone, and no node goes that nobody has asked
for. `NodeRemoval` implements it with `status` for the answer (`R`, `RemovalSpec`).

### Failover

A node is lost. `external/maas` resets its machine: `ResetBegins`, `PollAgain`,
`PollEnds`, `Reset`, or `ResetFails`; `Off` and `On` are the plugin's other commands.
MAAS keeps `jobs` it has accepted and carries them out later. Pacemaker places the
resource (`Place`) once the node is `Fenced`; the agent checks what `dig` says (`Check`),
and has `maas_dns.py` look for the record (`List`) and create or change it (`Write`,
`WriteRetried`, `WriteIgnored`, `ScriptFails`, `StartTimesOut`); its monitor (`Recover`)
notices when the name points elsewhere. `record` is MAAS's, `zone` the name servers'.
Pacemaker, MAAS and DNS are external and modelled as far as the agents rely on them.

## 3. Runs

| Run | Instance | Checks |
| --- | --- | --- |
| `ring_form` | 3 units from nothing, count 3 | `NoRingTooEarly`, `MembersRegistered`, `FormationSpec` |
| `ring_change` | count 2; a third unit joins two, or one of three machines is lost and the ring repaired while the leader moves and the charm is upgraded, or while maintenance mode changes | `NoStrangers`, `NoChangesMeansClean`, `RingForms` (fair), `RemovalSpreads` (fair) |
| `ring_once` | 3 formed, two requests; graceful removal, failure, pause once each, with deleted nodes or with maintenance mode and an upgrade; or a third unit joins two, with a failure and a pause | `TypeOK`, `RequestsHandledOnce`, `RingFollowsConf` |
| `nodelist_usual` | 2 units; an address with the family, with a pause or with a killed hook; the transport with a pause or with the principal's offer; a virtual IP with the family | `TypeOK`, `AddressesAgree`, `TransportsAgree`, `MoveSpreads` (fair) |
| `options_usual` | 2 units; three changes of options, or every disturbance once but for the last remote leaving or for changes of options | `TypeOK`, `StonithKept`, `MaintenanceApplied`, `QuorumApplied`, `OptionsInForce` (fair) |
| `resources_usual` | 2 units, 2 resources, 4 definitions, 2 nodes, 2 remotes; five mixtures | `TypeOK`, `HashesAreTrue`, `ResourcesInForce`, `DeletedAreGone`, `ConstraintsInForce`, `RunnableSomewhere`, `RemotesSpread` |
| `services_usual` | 2 units, 2 looks at the resources; three mixtures | `TypeOK`, `NoMixedCluster`, `PausedIsEmpty`, `OnlyOldGoDown`, `UpgradeCompletes` (fair) |
| `removal_usual` | 3 nodes; five mixtures | `TypeOK`, `MaintenanceIsAnnounced`, `RemovalSpec`, `DepartureCompletes` (fair) |
| `failover_usual` | 2 nodes, 2 polls, 1 retry, 2 commands a machine; six mixtures | `TypeOK`, `OneServer`, `NodesComeBack` (fair), `NameFollows` (fair) |
| `resources_stale` | 1 unit, 1 resource: deleted, asked for again, changed | `UnchangedMeansApplied`: violated |
| `removal_stop` | 2 nodes: one removed, update-ring once | `StopEnds` (fair): violated |
| `nodelist_vip` | 2 units, a virtual IP | `NoVipInFiles`: violated |

Those without a word hold. The violated ones are disagreements between the code and its
own comments, quoted in `PROJECT.json` ("findings"):

- `resources_stale`: a resource that was deleted and created again is compared with the
  hash of before; the update is skipped with "already defined and parameters haven't
  changed", although they have.
- `removal_stop`: the retries of the stop hook do not help once `update-ring` has
  deleted its node, since `set_node_status_to_maintenance` fails before `delete_node`
  can notice.
- `nodelist_vip`: `get_ipv6_addr` looks up parameters under the type of a resource, so
  no virtual IP is excluded, and one may be written as a node's address.

One more is too small for a run: the docstring at `files/ocf/maas/maas_dns.py:370-372`
has the exit codes of the script the other way round from what `main` returns.

### What the properties leave out

The passing runs are as strong as their instances and the conditions in their
properties. Who changes a budget or drops a condition will see:

- `RingFollowsConf` lists the ways in which a ring falls behind its file. Nothing makes
  up for them: a departed hook and upgrade-charm write and load nothing, a hook on a
  paused unit writes without a restart and `resume` runs none, and a hook that dies after
  it wrote the file is retried, sees no change, restarts nothing and announces
  `member_ready`.
- `NoRingTooEarly` fails when an option changes while the ring is forming:
  config-changed does not wait for `cluster_count`.
- `MembersRegistered` fails with more units than `cluster_count`: the leader
  counts flags and does not wait for whoever comes later.
- `RingForms` fails with an update request: the hook that carries it ends there
  (`TakeUpdateRequest`), and it may have been the last one owed to a new unit.
- `NoChangesMeansClean` fails with a graceful removal: stop deletes its own node, so
  update-ring has nothing to do while files still name it. It fails as well when two
  machines are lost and update-ring is called between the two departed hooks of a peer:
  the ring is then reloaded from a file that names the second machine, whose node is
  deleted already; and when a machine is lost while the cluster grows, as a ring can name
  one that never was in pacemaker's list.
- `RemovalSpreads` fails with a failure: the id of a request is stored before the
  reload, and the retry takes it for done.
- `MaintenanceApplied` fails when another hook saves the configuration before
  config-changed has run, when a hook fails after it changed the CIB, or when the
  leader moves between the config-changed hooks of two units: the change is lost.
- `RequestsHandledOnce` fails when the lead is taken from a unit that stays, while
  another one joins: the bags of the old and the new leader show different requests,
  and the new unit, which remembers only one, takes them in turn.
- `QuorumApplied` allows changes, failing hooks and moves of the leader; any other hook
  of the leader ends in the global setup, see the next.
- `OptionsInForce` fails with a later hook of the leader that runs the global setup:
  `configure_cluster_global` resets `no-quorum-policy` to `stop`.
- `StonithKept` excepts a hook during which the lease has moved: an old leader has found
  the flag unset and disables stonith after the new one has enabled it and set the flag.
  And it excepts `configure_stonith` where no remote is left (`utils.py:544-551`): the
  flag stays set then, so that no global setup will ever disable stonith, whichever way
  it is enabled next.
- `ResourcesInForce` and `ConstraintsInForce` need a leader that stays, as a unit only
  knows its own hashes, and commands that are not lost, as nobody notices.
  `ConstraintsInForce` leaves orders out: they come before the clones they refer to.
- `RunnableSomewhere` accepts the rule for a node whose name begins with that of another
  in the place of the other's, as the code does (`utils.py:811`): where `x-10` has its
  rule before `x-1` joins, `x-1` never gets one, and the resource may not run there.
- `PausedIsEmpty` excepts a unit that a resume has put online (`utils.py:1275`) without
  having cleared the mark (1281), be it under way or dead: nothing takes the unit back to
  standby.
- `RemovalSpec` is about the status of hooks and actions. The result of
  delete-node-from-ring is no evidence: it is `success` after a failure too
  (`actions.py:178,185`).
- `NoMixedCluster` needs that neither config-changed nor an event of the ha relation
  reaches a waiting unit: `config_changed` (`hooks/hooks.py:225`) does not look at the
  waiting flag, and a changed file restarts the services, while the unit goes on
  reporting that they are shut down (`hooks/utils.py:1346`).
- `DepartureCompletes` allows one error and one return of the node; `removal_stop` shows
  what else can happen.
- `OneServer` and `NodesComeBack` leave out `off`, which returns while the machine may
  be running.
- `NameFollows` needs no such condition: an error of MAAS that the client turns into an
  answer without a code is taken for a success (`maasclient/apidriver.py:138`), but the
  monitor finds out.
- `AddressesAgree` and `MoveSpreads` leave out units that have looked for an IPv6 address
  beside a virtual one (`exposed`). With `TransportsAgree` they leave out units that have
  skipped a config-changed while they were paused (`missed`). The comment at
  `hooks/hooks.py:202-203` says of it "It is forced on the resume", but `resume_unit`
  (`utils.py:1268`) runs no config-changed: the unit's new address is not published, and
  a new transport not written, until some later config-changed.

### Bounds

Three units are enough for a bystander besides the two parties of an interaction (a
peer that is already a member while another joins or leaves); where every interaction
has two parties (`ClusterOptions`, `Resources`, `UnitServices`, `Nodelist`, `Failover`)
two are enough for an old and a new leader, an upgraded unit and a waiting one, a writer
and a reader, a lost node and its successor. `cluster_count` 2 and 3 separate "one
short", "exactly enough" and "more than enough". `MaxRequest` bounds update requests: 2
lets a newer one overtake. The definitions of `resources_usual` have one of each way of
referring to something: a group of a virtual IP, a cloned haproxy, an order and a
colocation between the two, and the name of one resource occurs in the other's. Two
remotes and two nodes make the deal uneven while they join. Three attempts of
`delete_node`, the code's own number, are kept; 12 looks at pacemaker, 10 restarts,
`PCMKR_MAX_RETRIES`, polls and API retries are reduced to one or two, where "some left",
"none left" and "used up" are the cases. `nodelist_usual` starts with one setting of an
option that itself changes, or that the mixture does not read.

Hooks, retries of hooks, joins and resumes are not bounded. Disturbances happen once or
twice each, in the mixtures of the MC modules: those that can touch the same state are
in one mixture. Symmetry permutes units (and parameters) that no constant tells apart,
and is used only for invariants and action properties. Every run finishes within about
three minutes on two cores.

`CHECK_DEADLOCK FALSE`: when nothing is owed, deployed or disturbed any more, the system
really is at rest. That it does not rest too early is what the liveness properties and
the invariants with `Quiet` say.

### Fairness

Nothing is assumed about deployments, actions, elections or disturbances.

- `Ring`: `WF(HookStep)`: Juju keeps dispatching what it owes and hooks end, all their
  waits being bounded. `WF(ServicesStart)`: the message the charm shows asks the operator
  to start the services, and a reboot does.
- `ClusterOptions`, `Nodelist`: `WF(HookStep)`.
- `UnitServices`: `WF(HookStep)` and of a prepare hook that failed; the operator goes on
  with an upgrade he has begun (`WF(ReleaseUpgrade)`, `WF(SeriesUpgradeComplete)`) and
  starts services when he is asked again and again (`SF(OperatorStarts)`, strong since
  hooks that are retried come in between); resources leave a node in standby
  (`WF(ResourcesLeave)`).
- `NodeRemoval`: `WF(Works)`: a unit goes on with what it does, and Juju retries stop.
- `Failover`: MAAS carries out its commands, late updates and zone changes arrive, machines
  that are on boot, pacemaker fences, places resources, runs the agent and lets failures
  expire: each weakly fair.

## 4. Proofs

Each `*Proofs` module extends the module it is about and holds for all constants that
satisfy its assumptions, which say no more than that sets of units are finite where they
are counted, names are distinct, alphabetical order tells hosts apart and bounds are
natural numbers. Safety with unbounded disturbances follows, as budgets may have any
number.

**RingProofs.** `TypeCorrect`. `MembersCorrect` (`MembersAreEnough`, which the run
checks as part of `FormationSpec`): by itself the invariant is not inductive, as a hook
past the threshold publishes `member_ready` later, when the peers may be others.
`HooksAreEnough` says that every hook between the threshold and its end stands on enough
ready units, counting its own, whose `ready` goes out with the same hook; it needs that
`ready` is never taken back (`ReadyStays`).
`FormationCorrect` (`FormationSpec`): every step that publishes something is a step of
`Formation`, every other one leaves the bags alone. `StrangersCorrect` (`NoStrangers`):
files are computed from views, rings from files, and a unit leaves a view only once it
has departed. `RingsFollowConf` (`RingFollowsConf`) goes through the actions: each of
them leaves a unit as it was or loads its file (`StaysOrLoads`), is one of those listed,
or reloads at a unit whose ring was its file; that unit is then in its own ring, as it
is in its own file (`OwnConf`), so the reload reaches it. `RequestsOnce` (`RequestsHandledOnce`): a unit remembers one id only, so
ids must reach it in order.
`OnceInv` says that what it has noted is the largest id it has acted on
(`HandledInOrder`), that of the units that are there only the leader shows a request, and
the last one (`OnlyLeaderAsks`), and that a hook still under way for a peer which has
departed meanwhile carries nothing older than what is noted (`NothingNewerNoted`). The
theorem assumes that no start has an election that takes the lead from a unit that stays.

**RingGrowthProofs.** What holds of `Ring` without certain disturbances. Each theorem
names those it does without (`Without`); the list in section 3 has the behaviour that
breaks the property with them. All else may happen any number of times.

- `RegisteredMembers` (`MembersRegistered`), without pauses, failures, upgrades of the
  charm and departures (`Steady`) and with no more units than `cluster_count`: by
  `FollowInv` every unit is in its own file and ring, and its ring is that of its file
  unless it is about to restart. Whoever is past the threshold has everybody in its view
  and file (`EnoughInv`), members have everybody in their rings (`CompleteMembers`), and
  so members are mates of each other.
- `NoneTooEarly` (`NoRingTooEarly`), without changes of options, upgrades, departures and
  repairs (`Hasty`), while failures, pauses and elections may occur: `EarlyInv` says of
  files what the property says of rings, and that no hook is owed or under way that
  writes a file without asking for `cluster_count`.
- `NoChangesAreClean` (`NoChangesMeansClean`), for a cluster that is complete at the start
  and loses one machine, without failures, `stop` and `delete-node-from-ring` (`Calm`):
  the units that are left stay in each other's views, files and rings (`Together`), so one
  reload reaches all of them. Until update-ring is called pacemaker lists all units
  (`NothingAsked`); afterwards (`Clearing`) a unit is rid of the lost one, or about to
  reload, or owed a hook that will find a request it has not noted (`WillReload`).

**ClusterOptionsProofs.** `TypeCorrect`. `StonithStays` (`StonithKept`) for any
disturbances: a hook during which the lease has not moved is in the leader's steps only
under the leader, and about to disable stonith only while the flag is unset
(`UnderItsLease`); so it does not meet a flag that is set there.
`MaintenanceFollows` (`MaintenanceApplied`): the leader compares the
option with the one it saved, so what it has saved must be in force (`SavedInForce`) and
a change it has not seen must be owed to it or in its hook (`ChangeComes`).
`QuorumFollows` (`QuorumApplied`): a policy that is not the option, and a hook that works
with an older option, are followed by a config-changed still to come (`PolicyComes`,
`OldHooksAreFollowed`).

**NodelistProofs.** `TypeCorrect`. `AgreementCorrect` (`AddressesAgree`) and
`TransportsCorrect` (`TransportsAgree`) speak of states where nothing is pending; the
invariant `AgreeInv` says what is pending otherwise: an address that is not in force is
in a draft or about to be published (`BagFresh`), and a file that is not up to date with
what its unit has been told will be written again (`NodesFresh`, `TransportFresh`). A
failing hook loses its draft and must therefore be one that publishes again
(`DraftsBelong`); a unit that has skipped a config-changed is `missed`, and until it
runs one nothing is claimed of its own address and its file; a unit must find itself alone on its interface (`VipNoticed`,
`FindsItself`).

**ResourcesProofs.** `TypeCorrect`. `CacheIsTrue` (`HashesAreTrue`) from `CacheInv`: as
long as leadership stays, nothing is deleted and no hook dies (`Calm`), only the leader
is in the leader's section (`OneWorker`), nothing is to be deleted (`NobodyDoomed`),
and a hash is the one of what the CIB has unless it is about to be noted (`Truth`).
The others are of one pattern: what is not in force is still to come. As long as
leadership stays (`LeadInv`) the hook of the leader is owed or works with what the
relations say now (`Current`), and `ToCome(u, stage, x)` says that it has x yet to deal
with. `PendingStep` shows once that a step leaves x to come, has done x, or makes the
leader be owed a hook again; per property remains what is done and that nothing undoes it.

- `GivenUpGoes` (`DeletedAreGone`): a resource that was given up is gone or to be deleted.
- `AskedIsInForce` (`ResourcesInForce`): a resource is as asked for or to be seen to; it
  takes true hashes (`CacheInv`), or an update would be skipped.
- `ConstraintsAreMade` (`ConstraintsInForce`) for definitions that are `Orderly`: they
  refer to resources and to definitions of earlier loops, and their names occur in no
  other name. When its turn comes what it refers to is there (`ReferredIsShown`). Of a
  definition whose name is part of another one's it would be false, as
  `crm_opt_exists` takes it for there.
- `AllMayRun` (`RunnableSomewhere`): a rule that is needed is there, or one that is taken
  for it, or it is to be added; rules go only with deleted resources, and then the loop that adds them has yet to run.
- `RemotesDealt` (`RemotesSpread`): scores are as dealt or to be set (`Dealing`), with
  true hashes of scores (`ScoreTruth`). That the deal is even is arithmetic: positions in
  a sorted list are `0..n-1`, each taken once (`PositionsTaken`), and from the remotes
  at positions with one remainder those with another are reached by going back less than
  a round, which costs the first of them at most (`TurnsAreEven`). The library has no
  theorem of division with remainder; `Division` gets it from counting multiples.

**UnitServicesProofs.** `UpgradeInv` adds to the types where a unit may be in an upgrade
(`Progress`): which flags, release and notification go with which step. From it follow
`TypeCorrect`, `NewStayUp` (`OnlyOldGoDown`: a notification names the old release),
`PausedStaysEmpty` (`PausedIsEmpty`, with what a resume leaves half-done excepted), and
with `Separation` (once one unit is on the new release all old ones are waiting, and
those are down and have no hook to run that would start them) `ReleasesStayApart` (`NoMixedCluster`).

**NodeRemovalProofs.** `TypeCorrect`; `NoSilentMaintenance` (`MaintenanceIsAnnounced`) is
inductive with it. `RemovalRefined` (`RemovalSpec`) needs the books of a caller
(`BooksOf`): the node it is at is among those it has yet to see gone, and none are left
where it is through.

**FailoverProofs.** `TypeCorrect`. `ResourceRunsOnce` (`OneServer`) from `Known`: a machine
that is off runs no agent and is no member, one that is being reset is that of a lost
node, and once the reset has seen it off no agent runs there before the reset is over.

What stays with TLC. Liveness rests on fairness, which the prover does not handle:
`RingForms`, `RemovalSpreads`, `MoveSpreads`, `OptionsInForce`, `UpgradeCompletes`,
`DepartureCompletes`, `NodesComeBack`, `NameFollows`.

## 5. Not modelled

- The RBD agent (`files/ocf/ceph/rbd`): map, unmap and a look at the list of devices; no
  state of its own and no peers. The Nagios checks (`check_crm`, `check_corosync_rings`)
  parse the output of commands. Status and cleanup actions and `cluster_status` turn XML
  into JSON or issue one command.
- Key exchange with pacemaker remotes, templates, systemd overrides: formatting of files;
  whether a file has changed, which is what matters, is in `Ring` and `UnitServices`.
- `migrate_maas_dns` and the set-up of address files run once, without anybody to meet.
- Netmasks, network addresses and host names: conversions without state.
- `clone-max`, `cluster_recheck_interval`, `failure_timeout`, the ping resource and the
  parameters of stonith resources are written and never read back.
- The loops of `wait_for_pcmk` and `validated_restart_corosync` are one step each.
- charmhelpers: what the charm relies on is modelled where it is used (saved
  configuration, flags, addresses, comparison of releases). Most of the package, which
  is most of the lines of the repository (ceph, policyd, fetch, host, OpenStack upgrades),
  is not called by the logic of this charm or only passes commands on; there is nothing of
  this charm in it to model, and the map leaves it out.
- Tests, build and packaging, which were read as a reference.

## 6. Plan

Every safety property of a passing run is stated by a theorem. What would widen them:
`NoMixedCluster`, the properties of `Resources` and those of `RingGrowthProofs` hold under
conditions on what may happen, and the list in section 3 has what breaks them. Some of
these conditions are stronger than they need be: `NoChangesMeansClean` of a cluster with
more units than were there at the start, as long as all have joined before the loss, is
one.
