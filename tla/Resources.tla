------------------------------- MODULE Resources -------------------------------
(***************************************************************************)
(* How the leader brings the pacemaker configuration (the CIB) in line     *)
(* with what the principal asks for on the `ha' relation: the second half  *)
(* of ha_relation_changed. Every command to crm is a step of its own, so   *)
(* hooks of an old and a new leader interleave between commands, and a     *)
(* hook may die between any two of them. Of its own earlier updates a unit *)
(* remembers a hash per object in its key-value store.                     *)
(*                                                                         *)
(* A definition that stands right before another one and bears a longer    *)
(* form of its name is a defect the properties must notice.                *)
(***************************************************************************)
EXTENDS Naturals, FiniteSets, Sequences

CONSTANTS
    Unit,        \* the units of the charm
    Primitive,   \* names of resources
    Params,      \* their parameters, up to the equality of the hash
    Definition,  \* groups, clones and constraints, by name
    Kind,        \* which of the stages below a definition belongs to
    Refers,      \* the resources and definitions a definition refers to
    Within,      \* the objects in whose names the name of this one occurs
    Node,        \* the nodes of the cluster
    Longer,      \* the nodes whose names begin with the name of this one
    Remote,      \* the pacemaker-remote hosts
    Rank,        \* alphabetical order of Node and of Remote, as numbers
    None,        \* no value
    Budgets      \* bounds: how often each disturbance may occur, one choice per behaviour

Disturbances ==
    {"data", "doom", "leader", "kill", "lost", "refused", "remote", "answer", "node"}

\* The stages of the hook, in their order; the middle ones create definitions.
DefinitionStages == {"groups", "ms", "orders", "clones", "colocations", "locations"}
Stages ==
    {"symmetry", "delete", "primitives", "remotes", "rules", "scores", "containers"}
    \cup DefinitionStages
AfterStageClonesLast ==
    [symmetry |-> "delete", delete |-> "primitives", primitives |-> "groups",
     groups |-> "ms", ms |-> "orders", orders |-> "colocations",
     colocations |-> "locations", locations |-> "clones", clones |-> "remotes",
     remotes |-> "rules", rules |-> "scores", scores |-> "containers",
     containers |-> "idle"]
AfterStage ==
    [symmetry |-> "delete", delete |-> "primitives", primitives |-> "groups",
     groups |-> "ms", ms |-> "orders", orders |-> "clones",
     clones |-> "colocations", colocations |-> "locations",
     locations |-> "remotes", remotes |-> "rules", rules |-> "scores",
     scores |-> "containers", containers |-> "idle"]

Hashed == Primitive \cup (Remote \X Node)
Scores == {0, 200}
Top == Primitive \cup {d \in Definition : Kind[d] \in {"groups", "clones"}}

ASSUME NamesAssumption ==
    /\ None \notin Params \cup Scores \cup Hashed
    /\ Kind \in [Definition -> DefinitionStages]
    /\ Refers \in [Definition -> SUBSET (Primitive \cup Definition)]
    /\ Within \in [Primitive \cup Definition -> SUBSET (Primitive \cup Definition)]
    /\ Longer \in [Node -> SUBSET Node]
    /\ Primitive \cap (Definition \cup (Remote \X Node)) = {}
    /\ IsFiniteSet(Node) /\ IsFiniteSet(Remote)
ASSUME RankAssumption ==
    \A S \in {Node, Remote} :
        /\ \A x \in S : Rank[x] \in Nat
        /\ \A x, y \in S : Rank[x] = Rank[y] => x = y
ASSUME BudgetAssumption == Budgets \subseteq [Disturbances -> Nat]

VARIABLES
    wanted,     \* the parameters the principal application has settled on
    asked,      \* those each principal unit shows its subordinate
    leader,     \* the unit Juju's lease names
    answer,     \* what the remotes say about enable-resources: yes, no, mixed
    remotes,    \* the remotes that have given their hostname
    nodes,      \* the nodes pacemaker lists
    ready,      \* cluster_count members are ready
    due,        \* units that are owed a hook
    at,         \* the stage the unit's hook is in
    read,       \* the relation data that hook works with
    todo,       \* the objects it has not dealt with in this stage
    noting,     \* the object it has updated and not noted yet
    kv,         \* the hashes in the unit's key-value store
    prim,       \* CIB: parameters of the resources, None where there is none
    made,       \* CIB: definitions
    hosts,      \* CIB: resources for remotes
    rules,      \* CIB: location rules that let a resource run on a node
    score,      \* CIB: scored location rules of remotes
    symmetric,  \* CIB: symmetric-cluster
    happened,   \* history: disturbances there have been
    budget      \* what is left of the chosen one of Budgets

juju == <<wanted, asked, leader, answer, remotes, nodes, ready>>
cib == <<prim, made, hosts, rules, score, symmetric>>
hook == <<due, at, read, todo, noting, kv>>
bounds == <<happened, budget>>
vars == <<juju, cib, hook, bounds>>

Spend(kind) ==
    /\ budget[kind] > 0
    /\ budget' = [budget EXCEPT ![kind] = @ - 1]
    /\ happened' = happened \cup {kind}

Init ==
    /\ wanted \in [Primitive -> Params]
    /\ asked = [u \in Unit |-> wanted]
    /\ leader \in Unit
    /\ answer = "mixed" /\ remotes = {}
    /\ nodes \in {{n} : n \in Node}
    /\ ready \in BOOLEAN
    /\ due = Unit
    /\ at = [u \in Unit |-> "idle"]
    /\ read = [u \in Unit |-> [params |-> wanted, answer |-> answer, remotes |-> remotes,
                             ready |-> ready, nodes |-> nodes]]
    /\ todo = [u \in Unit |-> {}]
    /\ noting = [u \in Unit |-> None]
    /\ kv = [u \in Unit |-> [x \in Hashed |-> None]]
    /\ prim = [p \in Primitive |-> None]
    /\ made = {} /\ hosts = {} /\ rules = {}
    /\ score = [x \in Remote \X Node |-> None]
    /\ symmetric = TRUE
    /\ happened = {} /\ budget \in Budgets

-----------------------------------------------------------------------------
(* What the hook computes from what it has read and from crm's answers.    *)

Present(p) == prim[p] # None
Shown == {p \in Primitive : Present(p)} \cup made

\* `crm configure show' is searched for the name as a string.
CrmOptExists(o) == ({o} \cup Within[o]) \cap Shown # {}

Doomed(params) == {p \in Primitive : params[p] = None}
AskedPrimitives(params) == Primitive \ Doomed(params)

\* Nobody asks for a definition of something that is to be deleted.
AskedDefinitions(params) ==
    {d \in Definition : \A o \in Refers[d] :
        o \in AskedPrimitives(params) \/ (o \in Definition /\ Refers[o] \cap Doomed(params) = {})}

\* The resources that get rules of their own: not those a group or a clone
\* consists of.
NeedRulesNoContainers(params) ==
    {p \in AskedPrimitives(params) : \A d \in Definition :
        Kind[d] \in {"groups", "clones"} => Refers[d] # {p}}
NeedRulesEverything(params) == AskedPrimitives(params) \cup AskedDefinitions(params)
NeedRules(params) ==
    LET containers == {d \in AskedDefinitions(params) : Kind[d] \in {"groups", "clones"}}
    IN containers \cup
       {p \in AskedPrimitives(params) : \A d \in containers : Refers[d] # {p}}

\* Remotes are dealt out to the nodes in turn, both in alphabetical order.
Position(x, S) == Cardinality({y \in S : Rank[y] < Rank[x]})
PreferredFirst(u, r, n) == Position(n, read[u].nodes) = 0
Preferred(u, r, n) ==
    Position(n, read[u].nodes) = Position(r, read[u].remotes) % Cardinality(read[u].nodes)

Work(u, stage) ==
    LET data == read[u]
        opt_in == data.ready /\ data.answer = "no"
    IN {p \in Doomed(data.params) : stage = "delete"}
       \cup {p \in AskedPrimitives(data.params) : stage = "primitives"}
       \cup {d \in AskedDefinitions(data.params) : stage = Kind[d]}
       \cup {r \in data.remotes : stage = "remotes" /\ data.ready}
       \cup {x \in (NeedRules(data.params) \cap Primitive) \X nodes : stage = "rules" /\ opt_in}
       \cup {x \in data.remotes \X nodes : stage = "scores" /\ opt_in}
       \cup {x \in (NeedRules(data.params) \cap Definition) \X nodes :
               stage = "containers" /\ opt_in}

\* The value the hook wants an object with a hash to have, and the one it has.
Requested(u, x) ==
    IF x \in Primitive THEN read[u].params[x]
    ELSE IF Preferred(u, x[1], x[2]) THEN 200 ELSE 0
InCib(x) == IF x \in Primitive THEN prim[x] ELSE score[x]

-----------------------------------------------------------------------------
(* The hook.                                                               *)

Enter(u, stage) ==
    /\ at' = [at EXCEPT ![u] = stage]
    /\ todo' = [todo EXCEPT ![u] = Work(u, stage)]

Done(u, x) == todo' = [todo EXCEPT ![u] = @ \ {x}]

\* ha_relation_changed, where the leader goes on and the others are through.
HaRelationChanged(u) ==
    /\ u \in due /\ at[u] = "idle"
    /\ due' = due \ {u}
    /\ IF leader = u
       THEN /\ at' = [at EXCEPT ![u] = "symmetry"]
            /\ read' = [read EXCEPT ![u] =
                          [params |-> asked[u], answer |-> answer, remotes |-> remotes,
                           ready |-> ready, nodes |-> nodes]]
       ELSE UNCHANGED <<at, read>>
    /\ UNCHANGED <<todo, noting, kv, juju, cib, bounds>>

\* set_cluster_symmetry; remotes that disagree leave the property alone.
SetClusterSymmetry(u) ==
    /\ at[u] = "symmetry"
    /\ symmetric' = IF read[u].answer = "mixed" THEN symmetric ELSE read[u].answer = "yes"
    /\ Enter(u, "delete")
    /\ UNCHANGED <<due, read, noting, kv, prim, made, hosts, rules, score, juju, bounds>>

NextStage(u) ==
    /\ at[u] \notin {"idle", "symmetry"} /\ todo[u] = {} /\ noting[u] = None
    /\ Enter(u, AfterStage[at[u]])
    /\ read' = [read EXCEPT ![u].nodes = nodes]
    /\ UNCHANGED <<due, noting, kv, cib, juju, bounds>>

\* Work on x in the given stage.
Doing(u, stage, x) == at[u] = stage /\ x \in todo[u] /\ noting[u] = None

Dependents(p) ==
    {d \in made : p \in Refers[d] \/ \E e \in Refers[d] \cap Definition : p \in Refers[e]}

\* crm takes what refers to a deleted resource away with it.
DeleteResourceStopped(u, p) ==
    /\ Doing(u, "delete", p)
    /\ Done(u, p)
    /\ UNCHANGED <<due, at, read, noting, kv, cib, juju, bounds>>
DeleteResource(u, p) ==
    /\ Doing(u, "delete", p)
    /\ IF CrmOptExists(p)
       THEN /\ prim' = [prim EXCEPT ![p] = None]
            /\ made' = made \ Dependents(p)
            /\ rules' = {r \in rules : r[1] \notin {p} \cup Dependents(p)}
       ELSE UNCHANGED <<prim, made, rules>>
    /\ Done(u, p)
    /\ UNCHANGED <<due, at, read, noting, kv, hosts, score, symmetric, juju, bounds>>

CreatePrimitive(u, p) ==
    /\ Doing(u, "primitives", p)
    /\ ~CrmOptExists(p)
    /\ prim' = [prim EXCEPT ![p] = Requested(u, p)]
    /\ Done(u, p)
    /\ UNCHANGED <<due, at, read, noting, kv, made, hosts, rules, score, symmetric, juju, bounds>>

\* What goes through _crm_update_object: resources that exist, and scores.
Updating(u, x) ==
    \/ x \in Primitive /\ Doing(u, "primitives", x) /\ CrmOptExists(x)
    \/ x \in Remote \X Node /\ Doing(u, "scores", x)

\* _crm_update_object: ``already defined and parameters haven't changed''.
SkipUpdate(u, x) ==
    /\ Updating(u, x)
    /\ kv[u][x] = Requested(u, x)
    /\ Done(u, x)
    /\ UNCHANGED <<due, at, read, noting, kv, cib, juju, bounds>>

\* _crm_update_object: `crm configure load update' creates what is not there.
LoadUpdateOnly(u, x) ==
    /\ Updating(u, x)
    /\ kv[u][x] # Requested(u, x)
    /\ kv' = [kv EXCEPT ![u][x] = Requested(u, x)]
    /\ Done(u, x)
    /\ UNCHANGED <<due, at, read, noting, cib, juju, bounds>>
LoadUpdate(u, x) ==
    /\ Updating(u, x)
    /\ kv[u][x] # Requested(u, x)
    /\ IF x \in Primitive
       THEN prim' = [prim EXCEPT ![x] = Requested(u, x)] /\ UNCHANGED score
       ELSE score' = [score EXCEPT ![x] = Requested(u, x)] /\ UNCHANGED prim
    /\ noting' = [noting EXCEPT ![u] = x]
    /\ UNCHANGED <<due, at, read, todo, kv, made, hosts, rules, symmetric, juju, bounds>>

\* _crm_update_object: after a success the hash is stored and flushed.
NoteHash(u) ==
    /\ noting[u] # None
    /\ kv' = [kv EXCEPT ![u][noting[u]] = InCib(noting[u])]
    /\ noting' = [noting EXCEPT ![u] = None]
    /\ Done(u, noting[u])
    /\ UNCHANGED <<due, at, read, cib, juju, bounds>>

\* One loop each for groups, ms, orders, clones, colocations and locations: crm
\* refuses a definition that refers to what is not there, and the charm goes on.
MakeDefinition(u, d) ==
    /\ at[u] \in DefinitionStages /\ Doing(u, at[u], d)
    /\ made' = IF ~CrmOptExists(d) /\ Refers[d] \subseteq Shown
               THEN made \cup {d} ELSE made
    /\ Done(u, d)
    /\ UNCHANGED <<due, at, read, noting, kv, prim, hosts, rules, score, symmetric, juju, bounds>>

\* configure_pacemaker_remote.
ConfigureRemote(u, r) ==
    /\ Doing(u, "remotes", r)
    /\ hosts' = hosts \cup {r}
    /\ Done(u, r)
    /\ UNCHANGED <<due, at, read, noting, kv, prim, made, rules, score, symmetric, juju, bounds>>

\* Whether `crm configure show' has the name of the rule, loc-o-n: it is looked for
\* as a string too, so the rule for a node with a longer name will do.
RuleExists(o, n) == \E m \in {n} \cup Longer[n] : <<o, m>> \in rules

\* add_location_rules_for_local_nodes, for one node.
AddLocalRule(u, o, n) ==
    /\ \E s \in {"rules", "containers"} : Doing(u, s, <<o, n>>)
    /\ RuleExists(o, n) \/ o \in Shown
    /\ rules' = IF RuleExists(o, n) THEN rules ELSE rules \cup {<<o, n>>}
    /\ Done(u, <<o, n>>)
    /\ UNCHANGED <<due, at, read, noting, kv, prim, made, hosts, score, symmetric, juju, bounds>>

\* The hook ends in error and is retried.
Abort(u) ==
    /\ at' = [at EXCEPT ![u] = "idle"]
    /\ todo' = [todo EXCEPT ![u] = {}]
    /\ noting' = [noting EXCEPT ![u] = None]
    /\ due' = due \cup {u}
    /\ UNCHANGED <<read, kv, cib, juju>>

\* It is killed, or a command whose failure is fatal fails.
HookFails(u) ==
    /\ at[u] # "idle"
    /\ Spend("kill")
    /\ Abort(u)

\* The rule for a resource that could not be created is refused, which is fatal.
RuleRefused(u, o, n) ==
    /\ \E s \in {"rules", "containers"} : Doing(u, s, <<o, n>>)
    /\ ~RuleExists(o, n) /\ o \notin Shown
    /\ Abort(u)
    /\ UNCHANGED bounds

\* crm refuses an update: fatal for a resource, ignored for a score.
UpdateRefused(u, x) ==
    /\ Updating(u, x)
    /\ kv[u][x] # Requested(u, x)
    /\ Spend("refused")
    /\ IF x \in Primitive THEN Abort(u)
       ELSE Done(u, x) /\ UNCHANGED <<due, at, read, noting, kv, cib, juju>>

\* Another command fails, which nobody notices.
CommandLost(u, x) ==
    /\ \E s \in DefinitionStages \cup {"delete", "primitives"} : Doing(u, s, x)
    /\ ~(x \in Primitive /\ Updating(u, x))
    /\ Spend("lost")
    /\ Done(u, x)
    /\ UNCHANGED <<due, at, read, noting, kv, cib, juju>>

-----------------------------------------------------------------------------
(* Around the hook: the principal, the remotes, pacemaker and Juju.        *)

\* The principal application settles on other parameters, or on a deletion.
Want(p, v) ==
    /\ v # wanted[p]
    /\ Spend(IF v = None THEN "doom" ELSE "data")
    /\ wanted' = [wanted EXCEPT ![p] = v]
    /\ UNCHANGED <<asked, leader, answer, remotes, nodes, ready, cib, hook>>

\* Each of its units gets there in its own time.
PrincipalPublishes(u) ==
    /\ asked[u] # wanted
    /\ asked' = [asked EXCEPT ![u] = wanted]
    /\ due' = due \cup {u}
    /\ UNCHANGED <<wanted, leader, answer, remotes, nodes, ready, at, read, todo,
                   noting, kv, cib, bounds>>

WakeAll == due' = Unit /\ UNCHANGED <<wanted, asked, leader, at, read, todo, noting, kv, cib>>

RemoteJoins(r) ==
    /\ r \notin remotes /\ Spend("remote")
    /\ remotes' = remotes \cup {r}
    /\ UNCHANGED <<answer, nodes, ready>> /\ WakeAll

RemotesAnswer(a) ==
    /\ remotes # {} /\ a # answer /\ Spend("answer")
    /\ answer' = a
    /\ UNCHANGED <<remotes, nodes, ready>> /\ WakeAll

NodeJoins(n) ==
    /\ n \notin nodes /\ Spend("node")
    /\ nodes' = nodes \cup {n}
    /\ UNCHANGED <<answer, remotes, ready>> /\ WakeAll

MembersReady ==
    /\ ~ready /\ ready' = TRUE
    /\ UNCHANGED <<answer, remotes, nodes, bounds>> /\ WakeAll

LeaderElected(u) ==
    /\ u # leader /\ Spend("leader")
    /\ leader' = u
    /\ UNCHANGED <<wanted, asked, answer, remotes, nodes, ready, cib, hook>>

-----------------------------------------------------------------------------
HookStep(u) ==
    \/ HaRelationChanged(u) \/ SetClusterSymmetry(u) \/ NextStage(u) \/ NoteHash(u)
    \/ \E p \in Primitive : DeleteResource(u, p) \/ CreatePrimitive(u, p)
    \/ \E x \in Hashed : SkipUpdate(u, x) \/ LoadUpdate(u, x)
    \/ \E d \in Definition : MakeDefinition(u, d)
    \/ \E r \in Remote : ConfigureRemote(u, r)
    \/ \E o \in Top, n \in Node : AddLocalRule(u, o, n) \/ RuleRefused(u, o, n)

Next ==
    \/ \E u \in Unit :
         \/ HookStep(u) \/ HookFails(u) \/ PrincipalPublishes(u) \/ LeaderElected(u)
         \/ \E x \in Hashed : UpdateRefused(u, x)
         \/ \E x \in Primitive \cup Definition : CommandLost(u, x)
    \/ \E p \in Primitive, v \in Params \cup {None} : Want(p, v)
    \/ \E r \in Remote : RemoteJoins(r)
    \/ \E a \in {"yes", "no", "mixed"} : RemotesAnswer(a)
    \/ \E n \in Node : NodeJoins(n)
    \/ MembersReady

Spec == Init /\ [][Next]_vars

-----------------------------------------------------------------------------
(* What holds.                                                             *)

\* Type invariant.
TypeOK ==
    /\ wanted \in [Primitive -> Params \cup {None}]
    /\ asked \in [Unit -> [Primitive -> Params \cup {None}]]
    /\ leader \in Unit
    /\ answer \in {"yes", "no", "mixed"}
    /\ remotes \subseteq Remote /\ nodes \subseteq Node /\ ready \in BOOLEAN
    /\ due \subseteq Unit
    /\ at \in [Unit -> Stages \cup {"idle"}]
    /\ read \in [Unit -> [params : [Primitive -> Params \cup {None}],
                          answer : {"yes", "no", "mixed"}, remotes : SUBSET Remote,
                          ready : BOOLEAN, nodes : SUBSET Node]]
    /\ todo \in [Unit -> SUBSET (Primitive \cup Definition \cup Remote
                                \cup ((Top \cup Remote) \X Node))]
    /\ noting \in [Unit -> Hashed \cup {None}]
    /\ kv \in [Unit -> [Hashed -> Params \cup Scores \cup {None}]]
    /\ prim \in [Primitive -> Params \cup {None}]
    /\ made \subseteq Definition /\ hosts \subseteq Remote
    /\ rules \subseteq Top \X Node
    /\ score \in [Remote \X Node -> Scores \cup {None}]
    /\ symmetric \in BOOLEAN
    /\ happened \subseteq Disturbances /\ budget \in [Disturbances -> Nat]

Never(kinds) == kinds \cap happened = {}

\* A unit that skips an update because the parameters have not changed is right:
\* the CIB has them (_crm_update_object, ``already defined and parameters
\* haven't changed'').
UnchangedMeansApplied ==
    [][\A u \in Unit, x \in Hashed : SkipUpdate(u, x) => InCib(x) = Requested(u, x)]_vars

\* While leadership stays, nothing is deleted and no hook dies, every hash in a
\* key-value store is the one of what the CIB has: the cache of
\* _crm_update_object is true whatever commands fail.
HashesAreTrue ==
    Never({"leader", "doom", "kill"}) =>
        \A u \in Unit, x \in Hashed :
            kv[u][x] # None /\ noting[u] # x => kv[u][x] = InCib(x)

\* Principals have published what they settled on and every hook is through.
Quiet == due = {} /\ \A u \in Unit : at[u] = "idle" /\ asked[u] = wanted

\* Once all is quiet the resources are those asked for, with their parameters;
\* refused updates are retried. It takes a leader that stays.
ResourcesInForce ==
    Quiet /\ Never({"leader", "doom", "kill", "lost"}) => prim = wanted

\* A resource the principal has given up does not stay, though its name is only
\* looked for as a string, and though hooks die and updates are refused.
DeletedAreGone ==
    Quiet /\ Never({"leader", "lost"}) => \A p \in Primitive : Present(p) => wanted[p] # None

\* Colocations, locations, groups and clones that are asked for exist: they are
\* created after what they refer to (the comment before the colocations).
\* Orders come before the clones they may refer to and are left out.
ConstraintsInForce ==
    Quiet /\ Never({"leader", "doom", "kill", "lost"}) =>
        {d \in AskedDefinitions(wanted) : Kind[d] # "orders"} \subseteq made

\* In a cluster that is opt-in because of its remotes, every resource has a
\* rule for every node once the members are ready, its own or the one of a group
\* or clone it is in. A node whose name others begin with may have to do without:
\* the rule for one of them is taken for its own.
RunnableSomewhere ==
    Quiet /\ ready /\ ~symmetric /\ answer = "no" /\ Never({"leader"}) =>
        \A p \in AskedPrimitives(wanted), n \in nodes :
            \E o \in {p} \cup {d \in Definition : p \in Refers[d]} : RuleExists(o, n)

\* Each remote prefers one node, and no node is preferred by two remotes more
\* than another is.
RemotesSpread ==
    Quiet /\ ready /\ answer = "no" /\ Never({"leader", "kill", "refused"}) =>
        LET Load(n) == Cardinality({r \in remotes : score[<<r, n>>] = 200})
        IN /\ \A r \in remotes : Cardinality({n \in nodes : score[<<r, n>>] = 200}) = 1
           /\ \A m, n \in nodes : Load(m) <= Load(n) + 1
=============================================================================
