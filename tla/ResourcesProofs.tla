---------------------------- MODULE ResourcesProofs ----------------------------
(* What holds of Resources for every value of its constants. *)
EXTENDS Resources, FiniteSetTheorems, TLAPS

Wishes == [Primitive -> Params \cup {None}]
Reads == [params : Wishes, answer : {"yes", "no", "mixed"}, remotes : SUBSET Remote,
          ready : BOOLEAN, nodes : SUBSET Node]
Objects == Primitive \cup Definition \cup Remote \cup ((Top \cup Remote) \X Node)
Values == Params \cup Scores \cup {None}

-----------------------------------------------------------------------------
(* The pieces the actions are built from keep their types.                 *)

LEMMA AfterStageType == \A s \in Stages : AfterStage[s] \in Stages \cup {"idle"}
  BY DEF AfterStage, Stages, DefinitionStages

LEMMA SpendType ==
    ASSUME TypeOK, NEW kind \in Disturbances, Spend(kind)
    PROVE  happened' \subseteq Disturbances /\ budget' \in [Disturbances -> Nat]
  BY DEF TypeOK, Spend

LEMMA NeedRulesType ==
    ASSUME NEW params \in Wishes
    PROVE  NeedRules(params) \subseteq Top
  BY DEF NeedRules, AskedPrimitives, AskedDefinitions, Top

\* What a stage works on (the loops of ha_relation_changed).
LEMMA WorkType ==
    ASSUME TypeOK, NEW u \in Unit, NEW stage
    PROVE  Work(u, stage) \subseteq Objects
<1>1. read[u] \in Reads
  BY DEF TypeOK, Reads, Wishes
<1>2. NeedRules(read[u].params) \subseteq Top
  BY <1>1, NeedRulesType DEF Reads
<1>3. read[u].remotes \subseteq Remote /\ nodes \subseteq Node
  BY <1>1 DEF Reads, TypeOK
<1>4. Doomed(read[u].params) \subseteq Objects /\ AskedPrimitives(read[u].params) \subseteq Objects
  BY DEF Doomed, AskedPrimitives, Objects
<1>5. AskedDefinitions(read[u].params) \subseteq Objects
  BY DEF AskedDefinitions, Objects
<1>6. /\ read[u].remotes \subseteq Objects
      /\ (NeedRules(read[u].params) \cap Primitive) \X nodes \subseteq Objects
      /\ (NeedRules(read[u].params) \cap Definition) \X nodes \subseteq Objects
      /\ read[u].remotes \X nodes \subseteq Objects
  BY <1>2, <1>3 DEF Objects
<1> QED BY <1>4, <1>5, <1>6 DEF Work

LEMMA EnterType ==
    ASSUME TypeOK, NEW u \in Unit, NEW stage \in Stages \cup {"idle"}, Enter(u, stage)
    PROVE  /\ at' \in [Unit -> Stages \cup {"idle"}]
           /\ todo' \in [Unit -> SUBSET Objects]
  BY WorkType DEF TypeOK, Enter, Objects

LEMMA RequestedType ==
    ASSUME TypeOK, NEW u \in Unit, NEW x \in Hashed
    PROVE  /\ Requested(u, x) \in Values
           /\ x \in Primitive => Requested(u, x) \in Params \cup {None}
           /\ x \notin Primitive => Requested(u, x) \in Scores
  BY DEF TypeOK, Requested, Values, Scores

LEMMA InCibType ==
    ASSUME TypeOK, NEW x \in Hashed
    PROVE  InCib(x) \in Values
  BY DEF TypeOK, InCib, Values, Hashed

-----------------------------------------------------------------------------
(* Type correctness, one lemma per action that does something to a type.   *)

LEMMA InitType == Init => TypeOK
<1> SUFFICES ASSUME Init PROVE TypeOK
  OBVIOUS
<1>1. wanted \in Wishes /\ nodes \subseteq Node
  BY DEF Init, Wishes
<1>2. read \in [Unit -> Reads]
  BY <1>1 DEF Init, Reads
<1>3. budget \in [Disturbances -> Nat] /\ happened \subseteq Disturbances
  BY BudgetAssumption DEF Init
<1> QED BY <1>1, <1>2, <1>3 DEF Init, TypeOK, Wishes, Reads

LEMMA EnteringType ==
    ASSUME TypeOK, NEW u \in Unit,
           HaRelationChanged(u) \/ SetClusterSymmetry(u) \/ NextStage(u)
    PROVE  TypeOK'
<1>1. CASE HaRelationChanged(u)
  <2>1. read' \in [Unit -> Reads]
    BY <1>1 DEF TypeOK, HaRelationChanged, Reads, Wishes
  <2>2. at' \in [Unit -> Stages \cup {"idle"}] /\ due' \subseteq Unit
    BY <1>1 DEF TypeOK, HaRelationChanged, Stages
  <2> QED BY <1>1, <2>1, <2>2 DEF TypeOK, HaRelationChanged, Reads, Wishes, juju, cib, bounds
<1>2. CASE SetClusterSymmetry(u)
  <2>1. Enter(u, "delete")
    BY <1>2 DEF SetClusterSymmetry
  <2>2. /\ at' \in [Unit -> Stages \cup {"idle"}]
        /\ todo' \in [Unit -> SUBSET Objects]
    BY <2>1, EnterType DEF Stages
  <2>3. symmetric' \in BOOLEAN
    BY <1>2 DEF SetClusterSymmetry, TypeOK
  <2> QED BY <1>2, <2>2, <2>3 DEF TypeOK, SetClusterSymmetry, Objects, juju, bounds
<1>3. CASE NextStage(u)
  <2>1. AfterStage[at[u]] \in Stages \cup {"idle"}
    BY <1>3, AfterStageType DEF NextStage, TypeOK
  <2>2. /\ at' \in [Unit -> Stages \cup {"idle"}]
        /\ todo' \in [Unit -> SUBSET Objects]
    BY <1>3, <2>1, EnterType DEF NextStage
  <2>3. read' \in [Unit -> Reads]
    <3>1. read \in [Unit -> Reads] /\ nodes \in SUBSET Node
      BY DEF TypeOK, Reads, Wishes
    <3>2. read' = [read EXCEPT ![u] = [@ EXCEPT !.nodes = nodes]]
      BY <1>3 DEF NextStage
    <3>3. [read[u] EXCEPT !.nodes = nodes] \in Reads
      BY <3>1 DEF Reads
    <3> QED BY <3>1, <3>2, <3>3
  <2> QED BY <1>3, <2>2, <2>3 DEF TypeOK, NextStage, Objects, Reads, Wishes, juju, cib, bounds
<1> QED BY <1>1, <1>2, <1>3

LEMMA ResourceStepType ==
    ASSUME TypeOK, NEW u \in Unit, NEW p \in Primitive,
           DeleteResource(u, p) \/ CreatePrimitive(u, p)
    PROVE  TypeOK'
<1>1. CASE DeleteResource(u, p)
  BY <1>1 DEF TypeOK, DeleteResource, Done, juju, bounds
<1>2. CASE CreatePrimitive(u, p)
  <2>1. Requested(u, p) \in Params \cup {None}
    BY RequestedType DEF Hashed
  <2> QED BY <1>2, <2>1 DEF TypeOK, CreatePrimitive, Done, juju, bounds
<1> QED BY <1>1, <1>2

LEMMA UpdateStepType ==
    ASSUME TypeOK, NEW u \in Unit, NEW x \in Hashed,
           SkipUpdate(u, x) \/ LoadUpdate(u, x)
    PROVE  TypeOK'
<1>1. CASE SkipUpdate(u, x)
  BY <1>1 DEF TypeOK, SkipUpdate, Done, juju, bounds, cib
<1>2. CASE LoadUpdate(u, x) /\ x \in Primitive
  <2>1. Requested(u, x) \in Params \cup {None}
    BY <1>2, RequestedType
  <2> QED BY <1>2, <2>1 DEF TypeOK, LoadUpdate, juju, bounds
<1>3. CASE LoadUpdate(u, x) /\ x \notin Primitive
  <2>1. Requested(u, x) \in Scores
    BY <1>3, RequestedType
  <2> QED BY <1>3, <2>1 DEF TypeOK, LoadUpdate, juju, bounds
<1> QED BY <1>1, <1>2, <1>3

LEMMA NoteHashType ==
    ASSUME TypeOK, NEW u \in Unit, NoteHash(u)
    PROVE  TypeOK'
<1>1. noting[u] \in Hashed
  BY DEF TypeOK, NoteHash
<1>2. InCib(noting[u]) \in Values
  BY <1>1, InCibType
<1> QED BY <1>1, <1>2 DEF TypeOK, NoteHash, Done, juju, bounds, cib, Values

LEMMA ObjectStepType ==
    ASSUME TypeOK, NEW u \in Unit,
           \/ \E d \in Definition : MakeDefinition(u, d)
           \/ \E r \in Remote : ConfigureRemote(u, r)
           \/ \E o \in Top, n \in Node : AddLocalRule(u, o, n)
    PROVE  TypeOK'
<1>1. ASSUME NEW d \in Definition, MakeDefinition(u, d) PROVE TypeOK'
  BY <1>1 DEF TypeOK, MakeDefinition, Done, juju, bounds
<1>2. ASSUME NEW r \in Remote, ConfigureRemote(u, r) PROVE TypeOK'
  BY <1>2 DEF TypeOK, ConfigureRemote, Done, juju, bounds
<1>3. ASSUME NEW o \in Top, NEW n \in Node, AddLocalRule(u, o, n) PROVE TypeOK'
  BY <1>3 DEF TypeOK, AddLocalRule, Done, juju, bounds
<1> QED BY <1>1, <1>2, <1>3

LEMMA AbortType ==
    ASSUME TypeOK, NEW u \in Unit, Abort(u), happened' \subseteq Disturbances,
           budget' \in [Disturbances -> Nat]
    PROVE  TypeOK'
  BY DEF TypeOK, Abort, cib, juju, Stages

LEMMA FailureType ==
    ASSUME TypeOK, NEW u \in Unit,
           \/ HookFails(u)
           \/ \E o \in Top, n \in Node : RuleRefused(u, o, n)
           \/ \E x \in Hashed : UpdateRefused(u, x)
           \/ \E x \in Primitive \cup Definition : CommandLost(u, x)
    PROVE  TypeOK'
<1>1. CASE HookFails(u)
  BY <1>1, SpendType, AbortType DEF HookFails, Disturbances
<1>2. ASSUME NEW o \in Top, NEW n \in Node, RuleRefused(u, o, n) PROVE TypeOK'
  BY <1>2, AbortType DEF RuleRefused, bounds, TypeOK
<1>3. ASSUME NEW x \in Hashed, UpdateRefused(u, x) PROVE TypeOK'
  <2>1. happened' \subseteq Disturbances /\ budget' \in [Disturbances -> Nat]
    BY <1>3, SpendType DEF UpdateRefused, Disturbances
  <2>2. CASE x \in Primitive
    BY <1>3, <2>1, <2>2, AbortType DEF UpdateRefused
  <2>3. CASE x \notin Primitive
    <3>1. Done(u, x) /\ UNCHANGED <<due, at, read, noting, kv, cib, juju>>
      BY <1>3, <2>3 DEF UpdateRefused
    <3> QED BY <2>1, <3>1 DEF TypeOK, Done, cib, juju
  <2> QED BY <2>2, <2>3
<1>4. ASSUME NEW x \in Primitive \cup Definition, CommandLost(u, x) PROVE TypeOK'
  <2>1. happened' \subseteq Disturbances /\ budget' \in [Disturbances -> Nat]
    BY <1>4, SpendType DEF CommandLost, Disturbances
  <2> QED BY <1>4, <2>1 DEF CommandLost, TypeOK, Done, cib, juju
<1> QED BY <1>1, <1>2, <1>3, <1>4

LEMMA EnvironmentType ==
    ASSUME TypeOK,
           \/ \E u \in Unit : PrincipalPublishes(u) \/ LeaderElected(u)
           \/ \E p \in Primitive, v \in Params \cup {None} : Want(p, v)
           \/ \E r \in Remote : RemoteJoins(r)
           \/ \E a \in {"yes", "no", "mixed"} : RemotesAnswer(a)
           \/ \E n \in Node : NodeJoins(n)
           \/ MembersReady
    PROVE  TypeOK'
<1>1. ASSUME NEW u \in Unit, PrincipalPublishes(u) PROVE TypeOK'
  BY <1>1 DEF TypeOK, PrincipalPublishes, cib, bounds
<1>2. ASSUME NEW u \in Unit, LeaderElected(u) PROVE TypeOK'
  BY <1>2, SpendType DEF TypeOK, LeaderElected, cib, hook, Disturbances
<1>3. ASSUME NEW p \in Primitive, NEW v \in Params \cup {None}, Want(p, v) PROVE TypeOK'
  <2>1. happened' \subseteq Disturbances /\ budget' \in [Disturbances -> Nat]
    BY <1>3, SpendType DEF Want, Disturbances
  <2> QED BY <1>3, <2>1 DEF TypeOK, Want, cib, hook
<1>4. ASSUME NEW r \in Remote, RemoteJoins(r) PROVE TypeOK'
  BY <1>4, SpendType DEF TypeOK, RemoteJoins, WakeAll, cib, Disturbances
<1>5. ASSUME NEW a \in {"yes", "no", "mixed"}, RemotesAnswer(a) PROVE TypeOK'
  BY <1>5, SpendType DEF TypeOK, RemotesAnswer, WakeAll, cib, Disturbances
<1>6. ASSUME NEW n \in Node, NodeJoins(n) PROVE TypeOK'
  BY <1>6, SpendType DEF TypeOK, NodeJoins, WakeAll, cib, Disturbances
<1>7. CASE MembersReady
  BY <1>7 DEF TypeOK, MembersReady, WakeAll, cib, bounds
<1> QED BY <1>1, <1>2, <1>3, <1>4, <1>5, <1>6, <1>7

LEMMA StutterType == ASSUME TypeOK, UNCHANGED vars PROVE TypeOK'
  BY DEF TypeOK, vars, juju, cib, hook, bounds

LEMMA StepType == TypeOK /\ [Next]_vars => TypeOK'
  BY EnteringType, ResourceStepType, UpdateStepType, NoteHashType, ObjectStepType,
     FailureType, EnvironmentType, StutterType DEF Next, HookStep

\* Type correctness: the leader's hook keeps every variable in its type, for any
\* number of units, resources, nodes and remotes.
THEOREM TypeCorrect == Spec => []TypeOK
  BY InitType, StepType, PTL DEF Spec

-----------------------------------------------------------------------------
(* The cache of _crm_update_object. Its truth is not inductive by itself:  *)
(* it takes that only the leader works and has hashes, and that nobody     *)
(* asks for a deletion.                                                    *)

Calm == Never({"leader", "doom", "kill"})

\* Only the leader's hook is under way, and only the leader has hashes.
OneWorker ==
    \A u \in Unit : u # leader =>
        /\ at[u] = "idle" /\ noting[u] = None
        /\ \A x \in Hashed : kv[u][x] = None

\* Nobody asks for a deletion, and no hook is about one.
NobodyDoomed ==
    /\ \A p \in Primitive : wanted[p] # None
    /\ \A u \in Unit, p \in Primitive : asked[u][p] # None /\ read[u].params[p] # None
    /\ \A u \in Unit : at[u] = "delete" => todo[u] = {}

Truth ==
    \A u \in Unit, x \in Hashed :
        kv[u][x] # None /\ noting[u] # x => kv[u][x] = InCib(x)

CacheInv == TypeOK /\ (Calm => OneWorker /\ NobodyDoomed /\ Truth)

\* Disturbances are remembered.
LEMMA NeverBefore ==
    ASSUME TypeOK, [Next]_vars, NEW kinds
    PROVE  Never(kinds)' => Never(kinds)
<1>1. ASSUME NEW u \in Unit, HookStep(u) PROVE happened' = happened
  <2>1. ASSUME NEW p \in Primitive, DeleteResource(u, p) \/ CreatePrimitive(u, p)
        PROVE  happened' = happened
    BY <2>1 DEF DeleteResource, CreatePrimitive, bounds
  <2>2. ASSUME NEW x \in Hashed, SkipUpdate(u, x) \/ LoadUpdate(u, x)
        PROVE  happened' = happened
    BY <2>2 DEF SkipUpdate, LoadUpdate, bounds
  <2>3. ASSUME NEW o \in Top, NEW n \in Node, AddLocalRule(u, o, n) \/ RuleRefused(u, o, n)
        PROVE  happened' = happened
    BY <2>3 DEF AddLocalRule, RuleRefused, bounds
  <2> QED BY <1>1, <2>1, <2>2, <2>3 DEF HookStep, HaRelationChanged, SetClusterSymmetry,
             NextStage, NoteHash, MakeDefinition, ConfigureRemote, bounds
<1>2. ASSUME NEW u \in Unit,
             HookFails(u) \/ PrincipalPublishes(u) \/ LeaderElected(u)
             \/ (\E x \in Hashed : UpdateRefused(u, x))
             \/ (\E x \in Primitive \cup Definition : CommandLost(u, x))
      PROVE  happened \subseteq happened'
  BY <1>2 DEF HookFails, PrincipalPublishes, LeaderElected, UpdateRefused, CommandLost,
     Spend, bounds
<1>3. ASSUME \/ \E p \in Primitive, v \in Params \cup {None} : Want(p, v)
             \/ \E r \in Remote : RemoteJoins(r)
             \/ \E a \in {"yes", "no", "mixed"} : RemotesAnswer(a)
             \/ \E n \in Node : NodeJoins(n)
             \/ MembersReady
      PROVE  happened \subseteq happened'
  BY <1>3 DEF Want, RemoteJoins, RemotesAnswer, NodeJoins, MembersReady, Spend, bounds
<1>4. ASSUME UNCHANGED vars PROVE happened' = happened
  BY <1>4 DEF vars, bounds
<1>5. happened \subseteq happened'
  BY <1>1, <1>2, <1>3, <1>4 DEF Next
<1> QED BY <1>5 DEF Never

\* What has not happened does not happen now.
LEMMA NotNow ==
    ASSUME NEW kinds, Never(kinds)', NEW kind \in kinds
    PROVE  ~Spend(kind)
  BY DEF Never, Spend

LEMMA CacheInit == Init => CacheInv
<1> SUFFICES ASSUME Init PROVE CacheInv
  OBVIOUS
<1>1. TypeOK
  BY InitType
<1>2. CASE \A p \in Primitive : wanted[p] # None
  BY <1>2, <1>1 DEF CacheInv, Init, OneWorker, NobodyDoomed, Truth
<1>3. ASSUME NEW p \in Primitive PROVE wanted[p] # None
  BY NamesAssumption DEF Init
<1> QED BY <1>2, <1>3

\* A hook that does something is the leader's.
LEMMA WorkerLeads ==
    ASSUME TypeOK, OneWorker, NEW u \in Unit, at[u] # "idle" \/ noting[u] # None
    PROVE  u = leader
  BY DEF OneWorker

LEMMA NothingToDelete ==
    ASSUME TypeOK, NobodyDoomed, NEW u \in Unit
    PROVE  Work(u, "delete") = {}
<1>1. Doomed(read[u].params) = {}
  BY DEF Doomed, NobodyDoomed
<1>2. \A d \in AskedDefinitions(read[u].params) : Kind[d] # "delete"
  BY NamesAssumption DEF AskedDefinitions, DefinitionStages
<1> QED BY <1>1, <1>2 DEF Work

LEMMA NeverBackToDelete ==
    \A s \in Stages : s # "symmetry" => AfterStage[s] # "delete"
  BY DEF AfterStage, Stages, DefinitionStages

LEMMA CacheEntering ==
    ASSUME TypeOK, OneWorker, NobodyDoomed, Truth, NEW u \in Unit,
           HaRelationChanged(u) \/ SetClusterSymmetry(u) \/ NextStage(u)
    PROVE  OneWorker' /\ NobodyDoomed' /\ Truth'
<1>1. CASE HaRelationChanged(u)
  <2>1. /\ UNCHANGED <<wanted, asked, leader, todo, noting, kv, prim, score>>
        /\ at' = at \/ (leader = u /\ at' = [at EXCEPT ![u] = "symmetry"])
        /\ \A v \in Unit : read'[v] = read[v] \/ read'[v].params = asked[v]
    <3>1. CASE leader = u
      BY <1>1, <3>1 DEF HaRelationChanged, juju, cib, TypeOK
    <3>2. CASE leader # u
      BY <1>1, <3>2 DEF HaRelationChanged, juju, cib
    <3> QED BY <3>1, <3>2
  <2>2. OneWorker'
    BY <2>1 DEF OneWorker, TypeOK
  <2>3. NobodyDoomed'
    <3>1. \A v \in Unit : at'[v] = "delete" => at[v] = "delete"
      BY <2>1 DEF TypeOK
    <3>2. \A v \in Unit, p \in Primitive : read'[v].params[p] # None
      BY <2>1 DEF NobodyDoomed
    <3> QED BY <2>1, <3>1, <3>2 DEF NobodyDoomed
  <2> QED BY <2>1, <2>2, <2>3 DEF Truth, InCib
<1>2. CASE SetClusterSymmetry(u)
  <2>1. u = leader
    BY <1>2, WorkerLeads DEF SetClusterSymmetry
  <2>2. /\ UNCHANGED <<wanted, asked, leader, read, noting, kv, prim, score>>
        /\ at' = [at EXCEPT ![u] = "delete"]
        /\ todo' = [todo EXCEPT ![u] = {}]
    BY <1>2, NothingToDelete DEF SetClusterSymmetry, Enter, juju
  <2>3. OneWorker'
    BY <2>1, <2>2 DEF OneWorker, TypeOK
  <2>4. NobodyDoomed'
    BY <2>2 DEF NobodyDoomed, TypeOK
  <2> QED BY <2>2, <2>3, <2>4 DEF Truth, InCib
<1>3. CASE NextStage(u)
  <2>1. u = leader
    BY <1>3, WorkerLeads DEF NextStage
  <2>2. AfterStage[at[u]] # "delete"
    BY <1>3, NeverBackToDelete DEF NextStage, TypeOK
  <2>3. /\ UNCHANGED <<wanted, asked, leader, noting, kv, prim, score>>
        /\ \A v \in Unit : v # u => at'[v] = at[v] /\ todo'[v] = todo[v]
        /\ at'[u] # "delete"
        /\ \A v \in Unit : read'[v].params = read[v].params
    BY <1>3, <2>2 DEF NextStage, Enter, juju, cib, TypeOK
  <2> QED BY <2>1, <2>3 DEF OneWorker, NobodyDoomed, Truth, InCib
<1> QED BY <1>1, <1>2, <1>3

LEMMA CacheResource ==
    ASSUME TypeOK, OneWorker, NobodyDoomed, Truth, NEW u \in Unit, NEW p \in Primitive,
           DeleteResource(u, p) \/ CreatePrimitive(u, p)
    PROVE  OneWorker' /\ NobodyDoomed' /\ Truth'
<1>1. ~DeleteResource(u, p)
  BY DEF DeleteResource, Doing, NobodyDoomed
<1>2. CreatePrimitive(u, p)
  BY <1>1
<1>3. u = leader /\ noting[u] = None /\ at[u] = "primitives"
  BY <1>2, WorkerLeads DEF CreatePrimitive, Doing
<1>4. prim[p] = None
  BY <1>2 DEF CreatePrimitive, CrmOptExists, Shown, Present
<1>5. \A v \in Unit : kv[v][p] = None
  BY <1>3, <1>4, NamesAssumption DEF OneWorker, Truth, InCib, Hashed
<1>6. \A x \in Hashed : x # p => InCib(x)' = InCib(x)
  BY <1>2 DEF CreatePrimitive, InCib, TypeOK
<1>7. UNCHANGED <<wanted, asked, leader, at, read, noting, kv>>
  BY <1>2 DEF CreatePrimitive, juju
<1>8. Truth'
  BY <1>5, <1>6, <1>7 DEF Truth
<1>9. OneWorker' /\ NobodyDoomed'
  BY <1>2, <1>3, <1>7 DEF OneWorker, NobodyDoomed, CreatePrimitive, Done, TypeOK
<1> QED BY <1>8, <1>9

LEMMA CacheUpdate ==
    ASSUME TypeOK, OneWorker, NobodyDoomed, Truth, NEW u \in Unit, NEW x \in Hashed,
           SkipUpdate(u, x) \/ LoadUpdate(u, x)
    PROVE  OneWorker' /\ NobodyDoomed' /\ Truth'
<1>1. u = leader /\ noting[u] = None
  BY WorkerLeads DEF SkipUpdate, LoadUpdate, Updating, Doing
<1>2. CASE SkipUpdate(u, x)
  BY <1>1, <1>2 DEF SkipUpdate, Done, OneWorker, NobodyDoomed, Truth, InCib, TypeOK, juju, cib
<1>3. CASE LoadUpdate(u, x)
  <2>1. \A y \in Hashed : y # x => InCib(y)' = InCib(y)
    <3>1. CASE x \in Primitive
      BY <1>3, <3>1 DEF LoadUpdate, InCib, TypeOK
    <3>2. CASE x \notin Primitive
      BY <1>3, <3>2 DEF LoadUpdate, InCib, TypeOK, Hashed
    <3> QED BY <3>1, <3>2
  <2>2. /\ UNCHANGED <<wanted, asked, leader, at, read, todo, kv>>
        /\ noting' = [noting EXCEPT ![u] = x]
    BY <1>3 DEF LoadUpdate, juju
  <2>3. OneWorker' /\ NobodyDoomed'
    BY <1>1, <2>2 DEF OneWorker, NobodyDoomed, TypeOK
  <2>4. \A y \in Hashed : kv[u][y] # None => kv[u][y] = InCib(y)
    BY <1>1, NamesAssumption DEF Truth
  <2>5. \A v \in Unit, y \in Hashed : v # u => kv[v][y] = None
    BY <1>1 DEF OneWorker
  <2>6. noting'[u] = x
    BY <2>2 DEF TypeOK
  <2>7. Truth'
    BY <2>1, <2>2, <2>4, <2>5, <2>6 DEF Truth
  <2> QED BY <2>3, <2>7
<1> QED BY <1>2, <1>3

LEMMA CacheNote ==
    ASSUME TypeOK, OneWorker, NobodyDoomed, Truth, NEW u \in Unit, NoteHash(u)
    PROVE  OneWorker' /\ NobodyDoomed' /\ Truth'
<1>1. u = leader /\ noting[u] \in Hashed
  BY WorkerLeads DEF NoteHash, TypeOK
<1>2. \A y \in Hashed : InCib(y)' = InCib(y)
  BY DEF NoteHash, cib, InCib
<1>3. /\ UNCHANGED <<wanted, asked, leader, at, read>>
      /\ kv' = [kv EXCEPT ![u] = [@ EXCEPT ![noting[u]] = InCib(noting[u])]]
      /\ noting' = [noting EXCEPT ![u] = None]
      /\ todo' = [todo EXCEPT ![u] = @ \ {noting[u]}]
  BY DEF NoteHash, Done, juju
<1>4. OneWorker' /\ NobodyDoomed'
  BY <1>1, <1>3 DEF OneWorker, NobodyDoomed, TypeOK
<1>5. /\ kv'[u][noting[u]] = InCib(noting[u])
      /\ \A y \in Hashed : y # noting[u] => kv'[u][y] = kv[u][y]
      /\ \A v \in Unit : v # u => kv'[v] = kv[v] /\ noting'[v] = noting[v]
  BY <1>1, <1>3 DEF TypeOK
<1>6. Truth'
  BY <1>2, <1>5 DEF Truth
<1> QED BY <1>4, <1>6

LEMMA CacheObjects ==
    ASSUME TypeOK, OneWorker, NobodyDoomed, Truth, NEW u \in Unit,
           \/ \E d \in Definition : MakeDefinition(u, d)
           \/ \E r \in Remote : ConfigureRemote(u, r)
           \/ \E o \in Top, n \in Node : AddLocalRule(u, o, n)
    PROVE  OneWorker' /\ NobodyDoomed' /\ Truth'
<1>1. /\ UNCHANGED <<wanted, asked, leader, at, read, noting, kv, prim, score>>
      /\ \E x : todo' = [todo EXCEPT ![u] = @ \ {x}]
  BY DEF MakeDefinition, ConfigureRemote, AddLocalRule, Done, juju
<1> QED BY <1>1 DEF OneWorker, NobodyDoomed, Truth, InCib, TypeOK

LEMMA CacheFailure ==
    ASSUME TypeOK, OneWorker, NobodyDoomed, Truth, NEW u \in Unit, Calm',
           \/ HookFails(u)
           \/ \E o \in Top, n \in Node : RuleRefused(u, o, n)
           \/ \E x \in Hashed : UpdateRefused(u, x)
           \/ \E x \in Primitive \cup Definition : CommandLost(u, x)
    PROVE  OneWorker' /\ NobodyDoomed' /\ Truth'
<1>1. ~HookFails(u)
  BY DEF HookFails, Spend, Calm, Never
<1>2. noting[u] = None
  BY <1>1 DEF RuleRefused, UpdateRefused, Updating, CommandLost, Doing
<1>3. UNCHANGED <<wanted, asked, leader, read, kv, prim, score>>
  BY <1>1 DEF RuleRefused, UpdateRefused, CommandLost, Abort, juju, cib
<1>4. \/ Abort(u)
      \/ UNCHANGED <<at, noting>> /\ \E x : todo' = [todo EXCEPT ![u] = @ \ {x}]
  BY <1>1 DEF RuleRefused, UpdateRefused, CommandLost, Done
<1>5. CASE Abort(u)
  BY <1>2, <1>3, <1>5 DEF Abort, OneWorker, NobodyDoomed, Truth, InCib, TypeOK
<1>6. CASE UNCHANGED <<at, noting>> /\ \E x : todo' = [todo EXCEPT ![u] = @ \ {x}]
  BY <1>3, <1>6 DEF OneWorker, NobodyDoomed, Truth, InCib, TypeOK
<1> QED BY <1>4, <1>5, <1>6

LEMMA CacheEnvironment ==
    ASSUME TypeOK, OneWorker, NobodyDoomed, Truth, Calm',
           \/ \E u \in Unit : PrincipalPublishes(u) \/ LeaderElected(u)
           \/ \E p \in Primitive, v \in Params \cup {None} : Want(p, v)
           \/ \E r \in Remote : RemoteJoins(r)
           \/ \E a \in {"yes", "no", "mixed"} : RemotesAnswer(a)
           \/ \E n \in Node : NodeJoins(n)
           \/ MembersReady
    PROVE  OneWorker' /\ NobodyDoomed' /\ Truth'
<1>1. \A u \in Unit : ~LeaderElected(u)
  BY DEF LeaderElected, Spend, Calm, Never
<1>2. UNCHANGED <<leader, at, read, todo, noting, kv, prim, score>>
  BY <1>1 DEF PrincipalPublishes, Want, RemoteJoins, RemotesAnswer, NodeJoins, MembersReady,
     WakeAll, cib, hook
<1>3. \A p \in Primitive : wanted'[p] # None
  <2>1. ASSUME NEW p \in Primitive, NEW v \in Params \cup {None}, Want(p, v)
        PROVE  v # None /\ wanted' = [wanted EXCEPT ![p] = v]
    BY <2>1 DEF Want, Spend, Calm, Never
  <2> QED BY <1>1, <2>1 DEF PrincipalPublishes, RemoteJoins, RemotesAnswer, NodeJoins,
     MembersReady, WakeAll, NobodyDoomed, TypeOK
<1>4. \A u \in Unit, p \in Primitive : asked'[u][p] # None
  BY <1>1 DEF PrincipalPublishes, Want, RemoteJoins, RemotesAnswer, NodeJoins,
     MembersReady, WakeAll, NobodyDoomed, TypeOK
<1> QED BY <1>2, <1>3, <1>4 DEF OneWorker, NobodyDoomed, Truth, InCib

LEMMA CacheStep == CacheInv /\ [Next]_vars => CacheInv'
<1> SUFFICES ASSUME CacheInv, [Next]_vars PROVE CacheInv'
  OBVIOUS
<1>1. TypeOK /\ TypeOK'
  BY StepType DEF CacheInv
<1>2. SUFFICES ASSUME Calm' PROVE OneWorker' /\ NobodyDoomed' /\ Truth'
  BY <1>1 DEF CacheInv
<1>3. OneWorker /\ NobodyDoomed /\ Truth
  BY <1>1, <1>2, NeverBefore DEF CacheInv, Calm
<1>4. CASE UNCHANGED vars
  BY <1>3, <1>4 DEF OneWorker, NobodyDoomed, Truth, InCib, vars, juju, cib, hook
<1>5. CASE Next
  BY <1>1, <1>2, <1>3, <1>5, CacheEntering, CacheResource, CacheUpdate, CacheNote,
     CacheObjects, CacheFailure, CacheEnvironment DEF Next, HookStep
<1> QED BY <1>4, <1>5

\* While leadership stays, nothing is deleted and no hook dies, the hashes of
\* _crm_update_object are those of what the CIB has, whatever updates fail,
\* for any number of units, resources, nodes and remotes.
THEOREM CacheIsTrue == Spec => []HashesAreTrue
<1>1. CacheInv => HashesAreTrue
  BY DEF CacheInv, Calm, Truth, HashesAreTrue
<1> QED BY <1>1, CacheInit, CacheStep, PTL DEF Spec

-----------------------------------------------------------------------------
(* As long as leadership stays. Whatever the data, the hook of the leader  *)
(* is either still owed or works with what the relations say now; so what  *)
(* is not yet in force is what that hook has still to come to.             *)

Led == Never({"leader"})

\* Only the leader's hook goes beyond its start.
OnlyLeaderWorks ==
    \A u \in Unit : at[u] # "idle" \/ noting[u] # None => u = leader

\* What the hook of u has read is what there is to read.
Current(u) ==
    /\ read[u].params = asked[u] /\ read[u].answer = answer
    /\ read[u].remotes = remotes /\ read[u].ready = ready /\ read[u].nodes = nodes

\* An object is noted in the stage that has updated it.
NotingInPlace ==
    \A u \in Unit :
        \/ noting[u] = None
        \/ noting[u] \in Primitive /\ at[u] = "primitives"
        \/ noting[u] \in Remote \X Node /\ at[u] = "scores"

\* And what is noted is what has been asked for.
NotedAsRequested ==
    \A x \in Hashed : noting[leader] = x => InCib(x) = Requested(leader, x)

LeadInv ==
    /\ TypeOK /\ NotingInPlace
    /\ Led => /\ OnlyLeaderWorks /\ NotedAsRequested
              /\ leader \in due \/ Current(leader)

\* The stages by their order.
Pos ==
    [symmetry |-> 0, delete |-> 1, primitives |-> 2, groups |-> 3, ms |-> 4,
     orders |-> 5, clones |-> 6, colocations |-> 7, locations |-> 8, remotes |-> 9,
     rules |-> 10, scores |-> 11, containers |-> 12]

\* The hook of u has still to deal with x, in the given stage.
ToCome(u, stage, x) ==
    /\ at[u] # "idle"
    /\ Pos[at[u]] < Pos[stage] \/ (at[u] = stage /\ x \in todo[u])

LEMMA PosType ==
    /\ \A s \in Stages : Pos[s] \in Nat
    /\ \A s, t \in Stages : Pos[s] = Pos[t] => s = t
    /\ \A s \in Stages : s # "symmetry" => Pos["symmetry"] < Pos[s]
  BY DEF Pos, Stages, DefinitionStages

LEMMA AfterPos ==
    \A s \in Stages :
        \/ AfterStage[s] = "idle" /\ \A t \in Stages : Pos[t] <= Pos[s]
        \/ AfterStage[s] \in Stages /\ Pos[AfterStage[s]] = Pos[s] + 1
  BY DEF Pos, AfterStage, Stages, DefinitionStages

\* The hook of u at work, and what it leaves alone: the relations.
Working(u) ==
    \/ HookStep(u) \/ HookFails(u)
    \/ \E x \in Hashed : UpdateRefused(u, x)
    \/ \E x \in Primitive \cup Definition : CommandLost(u, x)

\* What happens around the hooks, and what it leaves alone: hooks and CIB.
Around ==
    \/ \E u \in Unit : PrincipalPublishes(u) \/ LeaderElected(u)
    \/ \E p \in Primitive, v \in Params \cup {None} : Want(p, v)
    \/ \E r \in Remote : RemoteJoins(r)
    \/ \E a \in {"yes", "no", "mixed"} : RemotesAnswer(a)
    \/ \E n \in Node : NodeJoins(n)
    \/ MembersReady

LEMMA NextIsEither ==
    ASSUME Next PROVE Around \/ \E u \in Unit : Working(u)
  BY DEF Next, Around, Working

LEMMA WorkingLeaves == ASSUME NEW u \in Unit, Working(u) PROVE UNCHANGED juju
<1>1. CASE HookStep(u)
  BY <1>1 DEF HookStep, HaRelationChanged, SetClusterSymmetry, NextStage, NoteHash,
     DeleteResource, CreatePrimitive, SkipUpdate, LoadUpdate, MakeDefinition,
     ConfigureRemote, AddLocalRule, RuleRefused, Abort
<1>2. CASE HookFails(u)
  BY <1>2 DEF HookFails, Abort
<1>3. ASSUME NEW x \in Hashed, UpdateRefused(u, x) PROVE UNCHANGED juju
  BY <1>3 DEF UpdateRefused, Abort
<1>4. ASSUME NEW x \in Primitive \cup Definition, CommandLost(u, x) PROVE UNCHANGED juju
  BY <1>4 DEF CommandLost
<1> QED BY <1>1, <1>2, <1>3, <1>4 DEF Working

LEMMA AroundLeaves ==
    ASSUME TypeOK, Around
    PROVE  /\ UNCHANGED <<cib, at, read, todo, noting, kv>> /\ due \subseteq due'
           /\ leader' = leader \/ \E u \in Unit : LeaderElected(u)
           /\ \A u \in Unit : u \notin due' =>
                asked'[u] = asked[u] /\ UNCHANGED <<answer, remotes, ready, nodes>>
<1>1. ASSUME NEW v \in Unit, PrincipalPublishes(v)
      PROVE  /\ UNCHANGED <<cib, at, read, todo, noting, kv>> /\ due \subseteq due'
             /\ UNCHANGED <<leader, answer, remotes, ready, nodes>>
             /\ \A u \in Unit : u \notin due' => asked'[u] = asked[u]
  BY <1>1 DEF PrincipalPublishes, TypeOK
<1>2. ASSUME WakeAll
      PROVE  UNCHANGED <<cib, at, read, todo, noting, kv, leader>> /\ due' = Unit
  BY <1>2 DEF WakeAll
<1>3. ASSUME NEW v \in Unit, LeaderElected(v)
      PROVE  UNCHANGED <<cib, hook, asked, answer, remotes, ready, nodes>>
  BY <1>3 DEF LeaderElected
<1>4. ASSUME NEW p \in Primitive, NEW v \in Params \cup {None}, Want(p, v)
      PROVE  UNCHANGED <<cib, hook, leader, asked, answer, remotes, ready, nodes>>
  BY <1>4 DEF Want
<1>5. \A r \in Remote : RemoteJoins(r) => WakeAll
  BY DEF RemoteJoins
<1>6. \A a : RemotesAnswer(a) => WakeAll
  BY DEF RemotesAnswer
<1>7. \A n : NodeJoins(n) => WakeAll
  BY DEF NodeJoins
<1>8. MembersReady => WakeAll
  BY DEF MembersReady
<1>9. due \subseteq Unit
  BY DEF TypeOK
<1> QED BY <1>1, <1>2, <1>3, <1>4, <1>5, <1>6, <1>7, <1>8, <1>9 DEF Around, hook

LEMMA LeaderStays == ASSUME TypeOK, [Next]_vars, Led' PROVE leader' = leader
<1>1. \A u \in Unit : ~LeaderElected(u)
  BY NotNow DEF LeaderElected, Led
<1>2. CASE Around
  BY <1>1, <1>2, AroundLeaves
<1>3. ASSUME NEW u \in Unit, Working(u) PROVE leader' = leader
  BY <1>3, WorkingLeaves DEF juju
<1> QED BY <1>2, <1>3, NextIsEither DEF vars, juju

\* A hook that is under way takes no other one, and reads again at most
\* between two stages.
LEMMA WorkingReads ==
    ASSUME NEW u \in Unit, Working(u)
    PROVE  HaRelationChanged(u) \/ (due \subseteq due' /\ (NextStage(u) \/ UNCHANGED read))
<1>1. ASSUME SetClusterSymmetry(u) \/ NoteHash(u) PROVE UNCHANGED <<due, read>>
  BY <1>1 DEF SetClusterSymmetry, NoteHash
<1>2. ASSUME NextStage(u) PROVE UNCHANGED due
  BY <1>2 DEF NextStage
<1>3. ASSUME NEW p \in Primitive, DeleteResource(u, p) \/ CreatePrimitive(u, p)
      PROVE  UNCHANGED <<due, read>>
  BY <1>3 DEF DeleteResource, CreatePrimitive
<1>4. ASSUME NEW x \in Hashed, SkipUpdate(u, x) \/ LoadUpdate(u, x)
      PROVE  UNCHANGED <<due, read>>
  BY <1>4 DEF SkipUpdate, LoadUpdate
<1>5. ASSUME NEW d \in Definition, MakeDefinition(u, d) PROVE UNCHANGED <<due, read>>
  BY <1>5 DEF MakeDefinition
<1>6. ASSUME NEW r \in Remote, ConfigureRemote(u, r) PROVE UNCHANGED <<due, read>>
  BY <1>6 DEF ConfigureRemote
<1>7. ASSUME NEW o \in Top, NEW n \in Node, AddLocalRule(u, o, n)
      PROVE  UNCHANGED <<due, read>>
  BY <1>7 DEF AddLocalRule
<1>8. ASSUME Abort(u) PROVE due \subseteq due' /\ UNCHANGED read
  BY <1>8 DEF Abort
<1>9. ASSUME NEW o \in Top, NEW n \in Node, RuleRefused(u, o, n)
      PROVE  due \subseteq due' /\ UNCHANGED read
  BY <1>8, <1>9 DEF RuleRefused
<1>10. ASSUME HookFails(u) PROVE due \subseteq due' /\ UNCHANGED read
  BY <1>8, <1>10 DEF HookFails
<1>11. ASSUME NEW x \in Hashed, UpdateRefused(u, x)
       PROVE  due \subseteq due' /\ UNCHANGED read
  BY <1>8, <1>11 DEF UpdateRefused
<1>12. ASSUME NEW x \in Primitive \cup Definition, CommandLost(u, x)
       PROVE  UNCHANGED <<due, read>>
  BY <1>12 DEF CommandLost
<1>13. CASE HookStep(u)
  BY <1>1, <1>2, <1>3, <1>4, <1>5, <1>6, <1>7, <1>9, <1>13 DEF HookStep
<1> QED BY <1>10, <1>11, <1>12, <1>13 DEF Working

\* A hook that is owed stays so until it starts.
LEMMA OwedUntilTaken ==
    ASSUME TypeOK, [Next]_vars, NEW u \in Unit, u \in due, u \notin due'
    PROVE  HaRelationChanged(u)
<1>1. CASE UNCHANGED vars
  BY <1>1 DEF vars, hook
<1>2. CASE Around
  BY <1>2, AroundLeaves
<1>3. ASSUME NEW v \in Unit, Working(v) PROVE HaRelationChanged(u)
  BY <1>3, WorkingReads DEF HaRelationChanged
<1> QED BY <1>1, <1>2, <1>3, NextIsEither

\* The relations change for a unit only when it is owed a hook for it.
LEMMA DataStays ==
    ASSUME TypeOK, [Next]_vars, NEW u \in Unit, u \notin due'
    PROVE  asked'[u] = asked[u] /\ UNCHANGED <<answer, remotes, ready, nodes>>
<1>1. UNCHANGED juju => asked'[u] = asked[u] /\ UNCHANGED <<answer, remotes, ready, nodes>>
  BY DEF juju
<1>2. CASE Around
  BY <1>2, AroundLeaves
<1> QED BY <1>1, <1>2, NextIsEither, WorkingLeaves DEF vars

\* And what a hook works with changes only as pacemaker's node list does.
LEMMA ReadStays ==
    ASSUME TypeOK, [Next]_vars, NEW u \in Unit
    PROVE  \/ read'[u] = read[u]
           \/ HaRelationChanged(u)
           \/ read'[u] = [read[u] EXCEPT !.nodes = nodes] /\ UNCHANGED nodes
<1>1. ASSUME NEW v \in Unit, HaRelationChanged(v)
      PROVE  read'[u] = read[u] \/ HaRelationChanged(u)
  BY <1>1 DEF HaRelationChanged, TypeOK
<1>2. ASSUME NEW v \in Unit, NextStage(v)
      PROVE  UNCHANGED nodes /\ (read'[u] = read[u]
                                  \/ read'[u] = [read[u] EXCEPT !.nodes = nodes])
  BY <1>2 DEF NextStage, juju, TypeOK
<1>3. ASSUME NEW v \in Unit, Working(v)
      PROVE  \/ read'[u] = read[u]
             \/ HaRelationChanged(u)
             \/ read'[u] = [read[u] EXCEPT !.nodes = nodes] /\ UNCHANGED nodes
  BY <1>1, <1>2, <1>3, WorkingReads
<1>4. CASE UNCHANGED vars \/ Around
  BY <1>4, AroundLeaves DEF vars, hook
<1> QED BY <1>3, <1>4, NextIsEither

LEMMA CurrentStays ==
    ASSUME TypeOK, [Next]_vars, NEW u \in Unit, u = leader, u \notin due',
           u \in due \/ Current(u)
    PROVE  Current(u)' /\ (u \notin due => read'[u] = read[u])
<1>1. asked'[u] = asked[u] /\ UNCHANGED <<answer, remotes, ready, nodes>>
  BY DataStays
<1>2. read[u] \in Reads
  BY DEF TypeOK, Reads, Wishes
<1>3. CASE HaRelationChanged(u) /\ leader = u
  BY <1>1, <1>3 DEF HaRelationChanged, Current, TypeOK
<1>4. CASE Current(u) /\ ~HaRelationChanged(u)
  BY <1>1, <1>2, <1>4, ReadStays DEF Current, Reads
<1> QED BY <1>3, <1>4, OwedUntilTaken DEF HaRelationChanged

\* A hook changes nothing of the hooks of other units.
LEMMA WorkingAlone ==
    ASSUME TypeOK, NEW u \in Unit, Working(u), NEW v \in Unit, v # u
    PROVE  at'[v] = at[v] /\ todo'[v] = todo[v] /\ noting'[v] = noting[v]
<1>1. CASE HaRelationChanged(u) \/ SetClusterSymmetry(u) \/ NextStage(u) \/ NoteHash(u)
  BY <1>1 DEF HaRelationChanged, SetClusterSymmetry, NextStage, NoteHash, Enter, Done, TypeOK
<1>2. ASSUME NEW x, Done(u, x), UNCHANGED <<at, noting>>
      PROVE  at'[v] = at[v] /\ todo'[v] = todo[v] /\ noting'[v] = noting[v]
  BY <1>2 DEF Done, TypeOK
<1>3. CASE Abort(u)
  BY <1>3 DEF Abort, TypeOK
<1>4. ASSUME NEW x \in Hashed, LoadUpdate(u, x)
      PROVE  at'[v] = at[v] /\ todo'[v] = todo[v] /\ noting'[v] = noting[v]
  BY <1>4 DEF LoadUpdate, TypeOK
<1> QED BY <1>1, <1>2, <1>3, <1>4 DEF Working, HookStep, HookFails, UpdateRefused, CommandLost,
     DeleteResource, CreatePrimitive, SkipUpdate, MakeDefinition, ConfigureRemote,
     AddLocalRule, RuleRefused

\* A hook that is not under way can only start.
LEMMA WorkingStarts ==
    ASSUME NEW u \in Unit, Working(u), at[u] = "idle", noting[u] = None
    PROVE  HaRelationChanged(u)
  BY DEF Working, HookStep, HookFails, UpdateRefused, CommandLost, Updating, Doing,
     SetClusterSymmetry, NextStage, NoteHash, DeleteResource, CreatePrimitive, SkipUpdate,
     LoadUpdate, MakeDefinition, ConfigureRemote, AddLocalRule, RuleRefused, DefinitionStages

LEMMA OnlyLeaderStep ==
    ASSUME TypeOK, OnlyLeaderWorks, [Next]_vars, Led'
    PROVE  OnlyLeaderWorks'
<1>1. leader' = leader
  BY LeaderStays
<1>2. CASE Around \/ UNCHANGED vars
  BY <1>1, <1>2, AroundLeaves DEF OnlyLeaderWorks, vars, hook
<1>3. ASSUME NEW u \in Unit, Working(u) PROVE OnlyLeaderWorks'
  <2>1. CASE u = leader
    BY <1>1, <1>3, <2>1, WorkingAlone DEF OnlyLeaderWorks
  <2>2. CASE u # leader
    <3>1. HaRelationChanged(u)
      BY <1>3, <2>2, WorkingStarts DEF OnlyLeaderWorks
    <3> QED BY <1>1, <2>2, <3>1 DEF HaRelationChanged, OnlyLeaderWorks
  <2> QED BY <2>1, <2>2
<1> QED BY <1>2, <1>3, NextIsEither

\* While an object is to be noted its unit does nothing else.
LEMMA WorkingNotes ==
    ASSUME TypeOK, NotingInPlace, NEW u \in Unit, Working(u), noting[u] # None
    PROVE  NoteHash(u) \/ Abort(u)
  BY DEF NotingInPlace, Working, HookStep, HookFails, UpdateRefused, CommandLost, Updating,
     Doing, HaRelationChanged, SetClusterSymmetry, NextStage, DeleteResource,
     CreatePrimitive, SkipUpdate, LoadUpdate, MakeDefinition, ConfigureRemote,
     AddLocalRule, RuleRefused, DefinitionStages

LEMMA NotingStep ==
    ASSUME TypeOK, NotingInPlace, [Next]_vars
    PROVE  NotingInPlace'
<1>1. CASE Around \/ UNCHANGED vars
  BY <1>1, AroundLeaves DEF NotingInPlace, vars, hook
<1>2. ASSUME NEW u \in Unit, Working(u)
      PROVE  \/ noting'[u] = None
             \/ noting'[u] \in Primitive /\ at'[u] = "primitives"
             \/ noting'[u] \in Remote \X Node /\ at'[u] = "scores"
  <2>1. CASE noting[u] # None
    BY <1>2, <2>1, WorkingNotes DEF NoteHash, Abort, TypeOK
  <2>2. ASSUME NEW x \in Hashed, LoadUpdate(u, x)
        PROVE  /\ noting'[u] = x /\ at'[u] = at[u]
               /\ \/ x \in Primitive /\ at[u] = "primitives"
                  \/ x \in Remote \X Node /\ at[u] = "scores"
    BY <2>2 DEF LoadUpdate, Updating, Doing, TypeOK
  <2>3. CASE noting[u] = None /\ \A x \in Hashed : ~LoadUpdate(u, x)
    <3>1. noting' = noting \/ Abort(u)
      BY <1>2, <2>3 DEF Working, HookStep, HookFails, UpdateRefused, CommandLost,
         HaRelationChanged, SetClusterSymmetry, NextStage, NoteHash, DeleteResource,
         CreatePrimitive, SkipUpdate, MakeDefinition, ConfigureRemote,
         AddLocalRule, RuleRefused
    <3> QED BY <2>3, <3>1 DEF Abort, TypeOK
  <2> QED BY <2>1, <2>2, <2>3
<1>3. ASSUME NEW u \in Unit, Working(u) PROVE NotingInPlace'
  BY <1>2, <1>3, WorkingAlone DEF NotingInPlace
<1> QED BY <1>1, <1>3, NextIsEither

\* A unit that does not lead touches neither the CIB nor the leader's hook.
LEMMA OthersOnlyTake ==
    ASSUME OnlyLeaderWorks, NEW u \in Unit, Working(u), u # leader
    PROVE  UNCHANGED <<cib, at, read, todo, noting, kv>>
<1>1. HaRelationChanged(u)
  BY WorkingStarts DEF OnlyLeaderWorks
<1> QED BY <1>1 DEF HaRelationChanged

LEMMA NotedStep ==
    ASSUME TypeOK, NotingInPlace, OnlyLeaderWorks, NotedAsRequested, [Next]_vars,
           leader' = leader
    PROVE  NotedAsRequested'
<1>0. leader \in Unit
  BY DEF TypeOK
<1>1. CASE UNCHANGED <<cib, read, noting>>
  BY <1>1 DEF NotedAsRequested, InCib, Requested, Preferred, cib
<1>2. CASE Working(leader)
  <2>1. CASE noting[leader] # None
    <3>1. noting'[leader] = None
      BY <1>0, <1>2, <2>1, WorkingNotes DEF NoteHash, Abort, TypeOK
    <3> QED BY <3>1, NamesAssumption DEF NotedAsRequested
  <2>2. ASSUME NEW x \in Hashed, LoadUpdate(leader, x) PROVE NotedAsRequested'
    <3>1. noting'[leader] = x /\ UNCHANGED read
      BY <1>0, <2>2 DEF LoadUpdate, TypeOK
    <3>2. Requested(leader, x)' = Requested(leader, x)
      BY <3>1 DEF Requested, Preferred
    <3>3. InCib(x)' = Requested(leader, x)
      BY <2>2 DEF LoadUpdate, InCib, TypeOK, Hashed
    <3> QED BY <3>1, <3>2, <3>3 DEF NotedAsRequested
  <2>3. CASE noting[leader] = None /\ \A x \in Hashed : ~LoadUpdate(leader, x)
    <3>1. noting' = noting \/ Abort(leader)
      BY <1>2, <2>3 DEF Working, HookStep, HookFails, UpdateRefused, CommandLost,
         HaRelationChanged, SetClusterSymmetry, NextStage, NoteHash, DeleteResource,
         CreatePrimitive, SkipUpdate, MakeDefinition, ConfigureRemote,
         AddLocalRule, RuleRefused
    <3>2. noting'[leader] = None
      BY <1>0, <2>3, <3>1 DEF Abort, TypeOK
    <3> QED BY <3>2, NamesAssumption DEF NotedAsRequested
  <2> QED BY <2>1, <2>2, <2>3
<1> QED BY <1>1, <1>2, AroundLeaves, OthersOnlyTake, NextIsEither DEF vars, hook

LEMMA LeadInit == Init => LeadInv
  BY InitType, NamesAssumption DEF Init, LeadInv, OnlyLeaderWorks, NotingInPlace,
     NotedAsRequested

LEMMA LeadStep == LeadInv /\ [Next]_vars => LeadInv'
<1> SUFFICES ASSUME LeadInv, [Next]_vars PROVE LeadInv'
  OBVIOUS
<1>1. TypeOK /\ TypeOK' /\ NotingInPlace /\ NotingInPlace'
  BY StepType, NotingStep DEF LeadInv
<1>2. ASSUME Led'
      PROVE  OnlyLeaderWorks' /\ NotedAsRequested' /\ (leader' \in due' \/ Current(leader)')
  <2>1. /\ OnlyLeaderWorks /\ NotedAsRequested /\ leader' = leader
        /\ leader \in due \/ Current(leader)
    BY <1>1, <1>2, NeverBefore, LeaderStays DEF LeadInv, Led
  <2>2. leader \in Unit
    BY <1>1 DEF TypeOK
  <2>3. OnlyLeaderWorks' /\ NotedAsRequested'
    BY <1>1, <1>2, <2>1, OnlyLeaderStep, NotedStep
  <2>4. leader \in due' \/ Current(leader)'
    BY <1>1, <2>1, <2>2, CurrentStays
  <2> QED BY <2>1, <2>3, <2>4
<1> QED BY <1>1, <1>2 DEF LeadInv

\* What is still to come stays so until it is its turn, unless the hook is
\* owed once more.
LEMMA ToComeStays ==
    ASSUME TypeOK, [Next]_vars, NEW u \in Unit, u \notin due, u \notin due',
           NEW stage \in Stages \ {"symmetry"}, NEW x \in Work(u, stage), ToCome(u, stage, x)
    PROVE  \/ ToCome(u, stage, x)'
           \/ Working(u) /\ at[u] = stage /\ x \in todo[u] /\ x \notin todo'[u]
<1>1. CASE Around \/ UNCHANGED vars
  BY <1>1, AroundLeaves DEF ToCome, vars, hook
<1>2. ASSUME NEW v \in Unit, Working(v), v # u PROVE ToCome(u, stage, x)'
  BY <1>2, WorkingAlone DEF ToCome
<1>3. CASE Working(u)
  <2>1. at[u] \in Stages /\ AfterStage[at[u]] \in Stages \cup {"idle"}
    BY AfterStageType DEF ToCome, TypeOK
  <2>2. CASE SetClusterSymmetry(u)
    <3>1. at[u] = "symmetry" /\ at'[u] = "delete" /\ todo'[u] = Work(u, "delete")
      BY <2>2 DEF SetClusterSymmetry, Enter, TypeOK
    <3>2. stage = "delete" \/ Pos["delete"] < Pos[stage]
      BY DEF Pos, Stages, DefinitionStages
    <3> QED BY <3>1, <3>2 DEF ToCome
  <2>3. CASE NextStage(u)
    <3>1. todo[u] = {} /\ at'[u] = AfterStage[at[u]] /\ todo'[u] = Work(u, AfterStage[at[u]])
      BY <2>3 DEF NextStage, Enter, TypeOK
    <3>2. Pos[at[u]] < Pos[stage]
      BY <3>1 DEF ToCome
    <3>3. AfterStage[at[u]] \in Stages /\ Pos[AfterStage[at[u]]] = Pos[at[u]] + 1
      BY <2>1, <3>2, AfterPos, PosType
    <3>4. AfterStage[at[u]] = stage \/ Pos[AfterStage[at[u]]] < Pos[stage]
      BY <2>1, <3>2, <3>3, PosType
    <3> QED BY <3>1, <3>3, <3>4 DEF ToCome, Stages, DefinitionStages
  <2>4. CASE ~SetClusterSymmetry(u) /\ ~NextStage(u)
    <3>1. at'[u] = at[u]
      <4>1. ~Abort(u)
        BY DEF Abort
      <4>2. ~HaRelationChanged(u)
        BY DEF HaRelationChanged
      <4> QED BY <1>3, <2>4, <4>1, <4>2 DEF Working, HookStep, HookFails, UpdateRefused,
           CommandLost, NoteHash, DeleteResource, CreatePrimitive, SkipUpdate, LoadUpdate,
           MakeDefinition, ConfigureRemote, AddLocalRule, RuleRefused
    <3> QED BY <1>3, <3>1 DEF ToCome
  <2> QED BY <2>2, <2>3, <2>4
<1> QED BY <1>1, <1>2, <1>3, NextIsEither

\* So what the leader's hook, owed or under way, has to deal with, it still has
\* to deal with after a step, or that step has done it, or it is owed again.
LEMMA PendingStep ==
    ASSUME LeadInv, Led, [Next]_vars, leader' = leader, leader \notin due',
           NEW stage \in Stages \ {"symmetry"}, NEW x,
           leader \in due \/ (x \in Work(leader, stage) /\ ToCome(leader, stage, x))
    PROVE  \/ ToCome(leader, stage, x)'
           \/ /\ leader \notin due /\ Working(leader)
              /\ at[leader] = stage /\ x \in todo[leader] /\ x \notin todo'[leader]
<1>0. TypeOK /\ leader \in Unit
  BY DEF LeadInv, TypeOK
<1>1. CASE leader \in due
  <2>1. HaRelationChanged(leader)
    BY <1>0, <1>1, OwedUntilTaken
  <2>2. at'[leader] = "symmetry"
    BY <1>0, <2>1 DEF HaRelationChanged, TypeOK
  <2> QED BY <2>2, PosType DEF ToCome
<1>2. CASE leader \notin due
  BY <1>0, <1>2, ToComeStays
<1> QED BY <1>1, <1>2

\* Who deals with an object in the stages that follow the deletions, and how.
LEMMA DealtWith ==
    ASSUME TypeOK, NotingInPlace, NEW u \in Unit, Working(u), u \notin due',
           NEW x \in todo[u], x \notin todo'[u], at[u] # "symmetry"
    PROVE  \/ x \in Primitive /\ (DeleteResource(u, x) \/ CreatePrimitive(u, x))
           \/ x \in Hashed /\ (SkipUpdate(u, x) \/ (NoteHash(u) /\ noting[u] = x)
                               \/ UpdateRefused(u, x))
           \/ x \in Definition /\ MakeDefinition(u, x)
           \/ x \in Remote /\ ConfigureRemote(u, x)
           \/ \E o \in Top, n \in Node : x = <<o, n>> /\ AddLocalRule(u, o, n)
           \/ x \in Primitive \cup Definition /\ CommandLost(u, x)
<1>1. ~Abort(u)
  BY DEF Abort
<1>2. \A y : Done(u, y) => y = x
  BY DEF Done, TypeOK
<1>3. CASE HaRelationChanged(u) \/ SetClusterSymmetry(u) \/ NextStage(u)
  BY <1>3 DEF HaRelationChanged, SetClusterSymmetry, NextStage
<1>4. CASE NoteHash(u)
  BY <1>2, <1>4 DEF NoteHash, TypeOK
<1>5. ASSUME NEW y \in Hashed, LoadUpdate(u, y) PROVE FALSE
  BY <1>5 DEF LoadUpdate
<1>6. ASSUME NEW y \in Hashed, UpdateRefused(u, y) PROVE y = x
  BY <1>1, <1>2, <1>6 DEF UpdateRefused
<1>7. \A y : /\ DeleteResource(u, y) \/ CreatePrimitive(u, y) => y = x
             /\ SkipUpdate(u, y) \/ MakeDefinition(u, y) => y = x
             /\ ConfigureRemote(u, y) \/ CommandLost(u, y) => y = x
  BY <1>2 DEF DeleteResource, CreatePrimitive, SkipUpdate, MakeDefinition, ConfigureRemote,
     CommandLost
<1>8. \A o \in Top, n \in Node : /\ AddLocalRule(u, o, n) => <<o, n>> = x
                               /\ ~RuleRefused(u, o, n)
  BY <1>1, <1>2 DEF AddLocalRule, RuleRefused
<1>9. ~HookFails(u)
  BY <1>1 DEF HookFails
<1>10. NoteHash(u) => noting[u] \in Hashed
  BY DEF NoteHash, TypeOK
<1>11. CASE HookStep(u)
  BY <1>3, <1>4, <1>5, <1>7, <1>8, <1>10, <1>11 DEF HookStep
<1> QED BY <1>6, <1>7, <1>9, <1>11 DEF Working

\* What a hook makes of a resource: what it has read, or nothing.
LEMMA PrimChanges ==
    ASSUME TypeOK, NEW u \in Unit, Working(u), NEW p \in Primitive
    PROVE  \/ prim'[p] \in {prim[p], read[u].params[p]}
           \/ prim'[p] = None /\ at[u] = "delete" /\ p \in todo[u]
<1>1. ASSUME NEW q \in Primitive, DeleteResource(u, q)
      PROVE  prim'[p] = prim[p] \/ (prim'[p] = None /\ at[u] = "delete" /\ p \in todo[u])
  BY <1>1 DEF DeleteResource, Doing, TypeOK
<1>2. ASSUME NEW q \in Primitive, CreatePrimitive(u, q)
      PROVE  prim'[p] \in {prim[p], read[u].params[p]}
  BY <1>2 DEF CreatePrimitive, Requested, TypeOK
<1>3. ASSUME NEW x \in Hashed, LoadUpdate(u, x)
      PROVE  prim'[p] \in {prim[p], read[u].params[p]}
  BY <1>3 DEF LoadUpdate, Requested, TypeOK
<1>4. prim' = prim \/ \E q \in Primitive : DeleteResource(u, q) \/ CreatePrimitive(u, q)
                 \/ \E x \in Hashed : LoadUpdate(u, x)
  BY DEF Working, HookStep, HookFails, UpdateRefused, CommandLost, Abort, cib,
     HaRelationChanged, SetClusterSymmetry, NextStage, NoteHash,
     SkipUpdate, MakeDefinition, ConfigureRemote, AddLocalRule, RuleRefused
<1> QED BY <1>1, <1>2, <1>3, <1>4

-----------------------------------------------------------------------------
(* Deletions.                                                              *)

\* What the principal has given up is gone, or the hook is still to delete it.
Deleting(p) ==
    \/ leader \in due
    \/ asked[leader][p] # None
    \/ ToCome(leader, "delete", p)
    \/ ~Present(p)

DeleteInv == LeadInv /\ (Never({"leader", "lost"}) => \A p \in Primitive : Deleting(p))

LEMMA DeletingStep ==
    ASSUME LeadInv, Led, [Next]_vars, leader' = leader, NEW p \in Primitive, Deleting(p),
           ~Spend("lost")
    PROVE  Deleting(p)'
<1>0. TypeOK /\ leader \in Unit /\ NotingInPlace /\ OnlyLeaderWorks
  BY DEF LeadInv, TypeOK
<1>1. SUFFICES ASSUME leader \notin due', asked'[leader][p] = None PROVE Deleting(p)'
  BY DEF Deleting
<1>2. asked'[leader] = asked[leader]
  BY <1>0, <1>1, DataStays
<1>3. ASSUME leader \notin due PROVE read[leader].params[p] = None /\ p \in Work(leader, "delete")
  <2>1. read[leader].params[p] = None
    BY <1>1, <1>2, <1>3 DEF LeadInv, Current
  <2> QED BY <2>1 DEF Work, Doomed
<1>4. CASE leader \in due \/ ToCome(leader, "delete", p)
  <2>1. CASE ToCome(leader, "delete", p)'
    BY <2>1 DEF Deleting
  <2>2. CASE /\ leader \notin due /\ Working(leader)
             /\ at[leader] = "delete" /\ p \in todo[leader] /\ p \notin todo'[leader]
    <3>1. DeleteResource(leader, p)
      BY <1>0, <1>1, <2>2, DealtWith DEF CreatePrimitive, SkipUpdate, UpdateRefused, Updating,
         Doing, NotingInPlace, NoteHash, MakeDefinition, DefinitionStages, ConfigureRemote,
         AddLocalRule, CommandLost, Hashed
    <3>2. prim'[p] = None
      BY <1>0, <3>1 DEF DeleteResource, CrmOptExists, Shown, Present, TypeOK
    <3> QED BY <3>2 DEF Deleting, Present
  <2> QED BY <1>1, <1>3, <1>4, <2>1, <2>2, PendingStep DEF Stages
<1>5. CASE leader \notin due /\ ~Present(p)
  <2>1. CASE Around \/ UNCHANGED vars
    BY <1>0, <1>5, <2>1, AroundLeaves DEF Deleting, Present, vars, cib
  <2>2. ASSUME NEW u \in Unit, Working(u) PROVE ~Present(p)'
    BY <1>0, <1>3, <1>5, <2>2, PrimChanges, OthersOnlyTake DEF Present, cib
  <2> QED BY <2>1, <2>2, NextIsEither DEF Deleting
<1> QED BY <1>1, <1>2, <1>4, <1>5 DEF Deleting

LEMMA DeleteStep == DeleteInv /\ [Next]_vars => DeleteInv'
<1> SUFFICES ASSUME DeleteInv, [Next]_vars PROVE DeleteInv'
  OBVIOUS
<1>1. LeadInv /\ LeadInv' /\ TypeOK
  BY LeadStep DEF DeleteInv, LeadInv
<1>2. ASSUME Never({"leader", "lost"})', NEW p \in Primitive PROVE Deleting(p)'
  <2>1. Led' /\ Led /\ Deleting(p)
    BY <1>1, <1>2, NeverBefore DEF Led, Never, DeleteInv
  <2>2. leader' = leader /\ ~Spend("lost")
    BY <1>1, <1>2, <2>1, LeaderStays, NotNow
  <2> QED BY <1>1, <2>1, <2>2, DeletingStep
<1> QED BY <1>1, <1>2 DEF DeleteInv

\* While leadership stays and no command is lost without notice, once all is
\* quiet no resource is left that the principal has given up: no hook that dies,
\* no refused update and no name that occurs in another one keeps it
\* (ha_relation_changed, the loop over delete_resources).
THEOREM GivenUpGoes == Spec => []DeletedAreGone
<1>1. Init => DeleteInv
  BY LeadInit DEF Init, DeleteInv, Deleting
<1>2. DeleteInv => DeletedAreGone
  <2> SUFFICES ASSUME DeleteInv, Quiet, Never({"leader", "lost"}), NEW p \in Primitive, Present(p)
               PROVE  wanted[p] # None
    BY DEF DeletedAreGone
  <2>1. leader \in Unit
    BY DEF DeleteInv, LeadInv, TypeOK
  <2> QED BY <2>1 DEF DeleteInv, Deleting, Quiet, ToCome
<1> QED BY <1>1, <1>2, DeleteStep, PTL DEF Spec

-----------------------------------------------------------------------------
(* Resources and definitions in force. Here the cache of _crm_update_object *)
(* has to be true as well, or an update would be skipped.                  *)

Sober == Never({"leader", "doom", "kill", "lost"})

\* A resource is as asked for, or the hook is still to see to it.
Enforcing(p) ==
    \/ leader \in due
    \/ ToCome(leader, "primitives", p)
    \/ prim[p] = asked[leader][p]

\* And so with a definition: it is made.
Making(d) ==
    \/ leader \in due
    \/ ToCome(leader, Kind[d], d)
    \/ d \in made

EnforceInv == LeadInv /\ CacheInv /\ (Sober => \A p \in Primitive : Enforcing(p))

LEMMA SoberIsCalm == Sober => Calm /\ Led
  BY DEF Sober, Calm, Led, Never

\* What the leader's hook does when nobody is doomed.
LEMMA NothingDeleted ==
    ASSUME TypeOK, NobodyDoomed, NEW u \in Unit, Working(u)
    PROVE  /\ \A p \in Primitive : ~DeleteResource(u, p)
           /\ \A p \in Primitive : prim'[p] \in {prim[p], read[u].params[p]}
           /\ made \subseteq made'
<1>1. \A p \in Primitive : ~DeleteResource(u, p)
  BY DEF DeleteResource, Doing, NobodyDoomed
<1>2. \A p \in Primitive : prim'[p] \in {prim[p], read[u].params[p]}
  BY PrimChanges DEF NobodyDoomed
<1>3. \A d \in Definition : MakeDefinition(u, d) => made \subseteq made'
  BY DEF MakeDefinition
<1>4. (\A d \in Definition : ~MakeDefinition(u, d)) => made' = made
  BY <1>1 DEF Working, HookStep, HookFails, UpdateRefused, CommandLost, Abort, cib,
     HaRelationChanged, SetClusterSymmetry, NextStage, NoteHash, CreatePrimitive,
     SkipUpdate, LoadUpdate, ConfigureRemote, AddLocalRule, RuleRefused
<1> QED BY <1>1, <1>2, <1>3, <1>4

LEMMA EnforcingStep ==
    ASSUME LeadInv, Led, OneWorker, NobodyDoomed, Truth, [Next]_vars, leader' = leader,
           NEW p \in Primitive, Enforcing(p), ~Spend("lost")
    PROVE  Enforcing(p)'
<1>0. TypeOK /\ leader \in Unit /\ NotingInPlace /\ OnlyLeaderWorks /\ NotedAsRequested
  BY DEF LeadInv, TypeOK
<1>1. SUFFICES ASSUME leader \notin due' PROVE Enforcing(p)'
  BY DEF Enforcing
<1>2. asked'[leader] = asked[leader]
  BY <1>0, <1>1, DataStays
<1>3. ASSUME leader \notin due
      PROVE  /\ read[leader].params[p] = asked[leader][p] /\ read[leader].params[p] # None
             /\ p \in Work(leader, "primitives")
  <2>1. read[leader].params[p] = asked[leader][p] /\ read[leader].params[p] # None
    BY <1>0, <1>3 DEF LeadInv, Current, NobodyDoomed
  <2> QED BY <2>1 DEF Work, AskedPrimitives, Doomed
<1>4. CASE leader \in due \/ ToCome(leader, "primitives", p)
  <2>1. CASE ToCome(leader, "primitives", p)'
    BY <2>1 DEF Enforcing
  <2>2. CASE /\ leader \notin due /\ Working(leader) /\ at[leader] = "primitives"
             /\ p \in todo[leader] /\ p \notin todo'[leader]
    <3>1. \/ CreatePrimitive(leader, p) \/ SkipUpdate(leader, p) \/ UpdateRefused(leader, p)
          \/ NoteHash(leader) /\ noting[leader] = p
      BY <1>0, <1>1, <2>2, DealtWith DEF DeleteResource, Doing, MakeDefinition,
         DefinitionStages, ConfigureRemote, AddLocalRule, CommandLost
    <3>2. Requested(leader, p) = read[leader].params[p] /\ InCib(p) = prim[p] /\ p \in Hashed
      BY DEF Requested, InCib, Hashed
    <3>3. CASE CreatePrimitive(leader, p)
      BY <1>0, <1>2, <1>3, <2>2, <3>2, <3>3 DEF CreatePrimitive, Enforcing, TypeOK
    <3>4. CASE SkipUpdate(leader, p)
      <4>1. kv[leader][p] = read[leader].params[p] /\ noting[leader] = None /\ UNCHANGED prim
        BY <3>2, <3>4 DEF SkipUpdate, Updating, Doing, cib
      <4>2. prim[p] = read[leader].params[p]
        BY <1>0, <1>3, <2>2, <3>2, <4>1, NamesAssumption DEF Truth
      <4> QED BY <1>2, <1>3, <2>2, <4>1, <4>2 DEF Enforcing
    <3>5. CASE NoteHash(leader) /\ noting[leader] = p
      BY <1>0, <1>2, <1>3, <2>2, <3>2, <3>5 DEF NoteHash, NotedAsRequested, Enforcing, cib
    <3>6. ~UpdateRefused(leader, p)
      BY <1>1 DEF UpdateRefused, Abort
    <3> QED BY <3>1, <3>3, <3>4, <3>5, <3>6
  <2> QED BY <1>1, <1>3, <1>4, <2>1, <2>2, PendingStep DEF Stages
<1>5. CASE leader \notin due /\ prim[p] = asked[leader][p]
  <2>1. CASE Around \/ UNCHANGED vars
    BY <1>0, <1>2, <1>5, <2>1, AroundLeaves DEF Enforcing, vars, cib
  <2>2. ASSUME NEW u \in Unit, Working(u) PROVE prim'[p] = asked[leader][p]
    BY <1>0, <1>3, <1>5, <2>2, NothingDeleted, OthersOnlyTake DEF cib
  <2> QED BY <1>2, <2>1, <2>2, NextIsEither DEF Enforcing
<1> QED BY <1>4, <1>5 DEF Enforcing

LEMMA EnforceStep == EnforceInv /\ [Next]_vars => EnforceInv'
<1> SUFFICES ASSUME EnforceInv, [Next]_vars PROVE EnforceInv'
  OBVIOUS
<1>1. LeadInv /\ LeadInv' /\ CacheInv /\ CacheInv' /\ TypeOK
  BY LeadStep, CacheStep DEF EnforceInv, LeadInv
<1>2. ASSUME Sober', NEW p \in Primitive PROVE Enforcing(p)'
  <2>1. Sober /\ Led' /\ Led /\ Calm
    BY <1>1, <1>2, NeverBefore DEF Led, Sober, Calm, Never
  <2>2. leader' = leader /\ ~Spend("lost")
    BY <1>1, <1>2, <2>1, LeaderStays, NotNow DEF Sober
  <2> QED BY <1>1, <2>1, <2>2, EnforcingStep DEF EnforceInv, CacheInv
<1> QED BY <1>1, <1>2 DEF EnforceInv

LEMMA EnforceInit == Init => EnforceInv
  BY LeadInit, CacheInit DEF Init, EnforceInv, Enforcing

\* While leadership stays, nothing is deleted, no hook dies and no command is
\* lost without notice, once all is quiet the resources are those asked for, with
\* their parameters: whatever updates are refused, and however data, remotes and
\* nodes change under way (ha_relation_changed with _crm_update_object).
THEOREM AskedIsInForce == Spec => []ResourcesInForce
<1>1. EnforceInv => ResourcesInForce
  <2> SUFFICES ASSUME EnforceInv, Quiet, Sober PROVE prim = wanted
    BY DEF ResourcesInForce, Sober
  <2>1. leader \in Unit /\ prim \in [Primitive -> Params \cup {None}]
        /\ wanted \in [Primitive -> Params \cup {None}]
    BY DEF EnforceInv, LeadInv, TypeOK
  <2>2. \A p \in Primitive : prim[p] = wanted[p]
    BY <2>1 DEF EnforceInv, Enforcing, Quiet, ToCome
  <2> QED BY <2>1, <2>2
<1> QED BY <1>1, EnforceInit, EnforceStep, PTL DEF Spec

\* Definitions that are not orders refer to what the hook has dealt with before
\* them, and no other name has theirs in it.
Orderly ==
    \A d \in Definition : Kind[d] # "orders" =>
        /\ Within[d] = {}
        /\ \A o \in Refers[d] \cap Definition :
              Kind[o] # "orders" /\ Pos[Kind[o]] < Pos[Kind[d]]

ConstrainInv ==
    /\ EnforceInv
    /\ Sober => \A d \in Definition : Kind[d] # "orders" => Making(d)

\* Every definition is asked for when no resource is doomed.
LEMMA AllAsked ==
    ASSUME TypeOK, NobodyDoomed, NEW u \in Unit
    PROVE  AskedDefinitions(read[u].params) = Definition
<1>1. Doomed(read[u].params) = {} /\ AskedPrimitives(read[u].params) = Primitive
  BY DEF Doomed, AskedPrimitives, NobodyDoomed
<1> QED BY <1>1, NamesAssumption DEF AskedDefinitions

\* When it is the turn of a definition, what it refers to is there.
LEMMA ReferredIsShown ==
    ASSUME Orderly, LeadInv, NobodyDoomed, NEW d \in Definition, Kind[d] # "orders",
           leader \notin due, at[leader] = Kind[d],
           \A p \in Primitive : Enforcing(p),
           \A e \in Definition : Kind[e] # "orders" => Making(e)
    PROVE  Refers[d] \subseteq Shown
<1>1. leader \in Unit /\ Kind[d] \in DefinitionStages
  BY NamesAssumption DEF LeadInv, TypeOK
<1>2. ASSUME NEW p \in Primitive PROVE p \in Shown
  <2>1. ~ToCome(leader, "primitives", p)
    BY <1>1 DEF ToCome, Pos, DefinitionStages
  <2>2. prim[p] # None
    BY <1>1, <1>2, <2>1 DEF Enforcing, NobodyDoomed
  <2> QED BY <2>2 DEF Shown, Present
<1>3. ASSUME NEW o \in Refers[d] \cap Definition PROVE o \in Shown
  <2>1. Kind[o] # "orders" /\ Pos[Kind[o]] < Pos[Kind[d]]
    BY <1>3 DEF Orderly
  <2>2. Kind[o] \in Stages /\ Kind[d] \in Stages
    BY <1>3, NamesAssumption DEF Stages
  <2>3. ~ToCome(leader, Kind[o], o)
    BY <2>1, <2>2, PosType DEF ToCome
  <2> QED BY <1>3, <2>1, <2>3 DEF Making, Shown
<1>4. Refers[d] \subseteq Primitive \cup Definition
  BY NamesAssumption
<1> QED BY <1>2, <1>3, <1>4

LEMMA MakingStep ==
    ASSUME Orderly, LeadInv, Led, NobodyDoomed, [Next]_vars, leader' = leader,
           \A p \in Primitive : Enforcing(p),
           \A e \in Definition : Kind[e] # "orders" => Making(e),
           NEW d \in Definition, Kind[d] # "orders", ~Spend("lost")
    PROVE  Making(d)'
<1>0. TypeOK /\ leader \in Unit /\ NotingInPlace /\ OnlyLeaderWorks /\ Making(d)
  BY DEF LeadInv, TypeOK
<1>1. SUFFICES ASSUME leader \notin due' PROVE Making(d)'
  BY DEF Making
<1>2. Kind[d] \in DefinitionStages /\ Kind[d] \in Stages \ {"symmetry"}
  BY NamesAssumption DEF Stages, DefinitionStages
<1>3. d \in Work(leader, Kind[d])
  BY <1>0, AllAsked DEF Work
<1>4. CASE leader \in due \/ ToCome(leader, Kind[d], d)
  <2>1. CASE ToCome(leader, Kind[d], d)'
    BY <2>1 DEF Making
  <2>2. CASE /\ leader \notin due /\ Working(leader) /\ at[leader] = Kind[d]
             /\ d \in todo[leader] /\ d \notin todo'[leader]
    <3>1. MakeDefinition(leader, d)
      BY <1>0, <1>1, <1>2, <2>2, DealtWith DEF DeleteResource, CreatePrimitive, SkipUpdate,
         UpdateRefused, Updating, Doing, NotingInPlace, NoteHash, DefinitionStages,
         ConfigureRemote, AddLocalRule, CommandLost
    <3>2. Refers[d] \subseteq Shown
      BY <2>2, ReferredIsShown
    <3>3. CrmOptExists(d) => d \in made
      BY NamesAssumption DEF CrmOptExists, Orderly, Shown
    <3>4. d \in made'
      BY <3>1, <3>2, <3>3 DEF MakeDefinition
    <3> QED BY <3>4 DEF Making
  <2> QED BY <1>1, <1>2, <1>3, <1>4, <2>1, <2>2, PendingStep
<1>5. CASE d \in made
  <2>1. CASE Around \/ UNCHANGED vars
    BY <1>0, <1>5, <2>1, AroundLeaves DEF Making, vars, cib
  <2>2. ASSUME NEW u \in Unit, Working(u) PROVE Making(d)'
    BY <1>0, <1>5, <2>2, NothingDeleted DEF Making
  <2> QED BY <2>1, <2>2, NextIsEither
<1> QED BY <1>0, <1>4, <1>5 DEF Making

LEMMA ConstrainStep == Orderly /\ ConstrainInv /\ [Next]_vars => ConstrainInv'
<1> SUFFICES ASSUME Orderly, ConstrainInv, [Next]_vars PROVE ConstrainInv'
  OBVIOUS
<1>1. EnforceInv' /\ LeadInv /\ CacheInv /\ TypeOK
  BY EnforceStep DEF ConstrainInv, EnforceInv, LeadInv
<1>2. ASSUME Sober', NEW d \in Definition, Kind[d] # "orders" PROVE Making(d)'
  <2>1. Sober /\ Led' /\ Led /\ Calm
    BY <1>1, <1>2, NeverBefore DEF Led, Sober, Calm, Never
  <2>2. leader' = leader /\ ~Spend("lost")
    BY <1>1, <1>2, <2>1, LeaderStays, NotNow DEF Sober
  <2>3. /\ NobodyDoomed /\ \A p \in Primitive : Enforcing(p)
        /\ \A e \in Definition : Kind[e] # "orders" => Making(e)
    BY <1>1, <2>1 DEF ConstrainInv, EnforceInv, CacheInv
  <2> QED BY <1>1, <1>2, <2>1, <2>2, <2>3, MakingStep
<1> QED BY <1>1, <1>2 DEF ConstrainInv

\* Of definitions that refer back, with names that occur in no other, and under
\* the same conditions: once all is quiet every group, clone, colocation and
\* location that is asked for exists, for what it refers to is there when its
\* turn comes (the order of the loops in ha_relation_changed).
THEOREM ConstraintsAreMade ==
    ASSUME Orderly
    PROVE  Spec => []ConstraintsInForce
<1>1. Init => ConstrainInv
  BY EnforceInit DEF Init, ConstrainInv, Making
<1>2. ConstrainInv => ConstraintsInForce
  <2> SUFFICES ASSUME ConstrainInv, Quiet, Sober,
                      NEW d \in AskedDefinitions(wanted), Kind[d] # "orders"
               PROVE  d \in made
    BY DEF ConstraintsInForce, Sober
  <2>1. leader \in Unit /\ d \in Definition
    BY DEF ConstrainInv, EnforceInv, LeadInv, TypeOK, AskedDefinitions
  <2> QED BY <2>1 DEF ConstrainInv, Making, Quiet, ToCome
<1> QED BY <1>1, <1>2, ConstrainStep, PTL DEF Spec

-----------------------------------------------------------------------------
(* The rules of an opt-in cluster: here leadership is all that must stay.  *)

\* The stage that adds the rules of o.
Ruled(stage, o) ==
    \/ stage = "rules" /\ o \in Primitive
    \/ stage = "containers" /\ o \in Definition

\* A rule that is needed is there, or the hook is still to add it.
Ruling(stage, o, n) ==
    \/ leader \in due
    \/ ~(ready /\ answer = "no")
    \/ ToCome(leader, stage, <<o, n>>)
    \/ RuleExists(o, n)

Rulings ==
    \A stage \in {"rules", "containers"}, n \in nodes :
        \A o \in NeedRules(asked[leader]) : Ruled(stage, o) => Ruling(stage, o, n)

RuleInv == LeadInv /\ (Led => Rulings)

\* Rules go only when resources are deleted, and then there is time to add them.
LEMMA RulesChange ==
    ASSUME NEW u \in Unit, Working(u), NEW r \in rules
    PROVE  r \in rules' \/ (at[u] = "delete" /\ at' = at)
<1>1. ASSUME NEW p \in Primitive, DeleteResource(u, p) PROVE at[u] = "delete" /\ at' = at
  BY <1>1 DEF DeleteResource, Doing
<1>2. ASSUME \A p \in Primitive : ~DeleteResource(u, p) PROVE rules \subseteq rules'
  BY <1>2 DEF Working, HookStep, HookFails, UpdateRefused, CommandLost, Abort, cib,
     HaRelationChanged, SetClusterSymmetry, NextStage, NoteHash, CreatePrimitive,
     SkipUpdate, LoadUpdate, MakeDefinition, ConfigureRemote, AddLocalRule, RuleRefused
<1> QED BY <1>1, <1>2

LEMMA RulingStep ==
    ASSUME LeadInv, Led, [Next]_vars, leader' = leader,
           NEW stage \in {"rules", "containers"}, NEW o, Ruled(stage, o),
           NEW n, leader \notin due', n \in nodes', o \in NeedRules(asked[leader])',
           leader \in due \/ Ruling(stage, o, n)
    PROVE  Ruling(stage, o, n)'
<1>0. TypeOK /\ leader \in Unit /\ NotingInPlace /\ OnlyLeaderWorks
  BY DEF LeadInv, TypeOK
<1>1. asked'[leader] = asked[leader] /\ UNCHANGED <<answer, remotes, ready, nodes>>
  BY <1>0, DataStays
<1>2. NeedRules(asked[leader])' = NeedRules(asked[leader])
  BY <1>1 DEF NeedRules, AskedPrimitives, AskedDefinitions, Doomed
<1>3. SUFFICES ASSUME ready /\ answer = "no" PROVE Ruling(stage, o, n)'
  BY <1>1 DEF Ruling
<1>4. ASSUME leader \notin due PROVE <<o, n>> \in Work(leader, stage)
  <2>1. /\ read[leader].params = asked[leader] /\ read[leader].ready
        /\ read[leader].answer = "no"
    BY <1>3, <1>4 DEF LeadInv, Current
  <2>2. o \in NeedRules(read[leader].params) /\ n \in nodes
    BY <1>1, <1>2, <2>1
  <2> QED BY <2>1, <2>2 DEF Work, Ruled
<1>5. CASE leader \in due \/ ToCome(leader, stage, <<o, n>>)
  <2>1. CASE ToCome(leader, stage, <<o, n>>)'
    BY <2>1 DEF Ruling
  <2>2. CASE /\ leader \notin due /\ Working(leader) /\ at[leader] = stage
             /\ <<o, n>> \in todo[leader] /\ <<o, n>> \notin todo'[leader]
    <3>1. \E q \in Top, m \in Node : <<o, n>> = <<q, m>> /\ AddLocalRule(leader, q, m)
      BY <1>0, <2>2, DealtWith DEF DeleteResource, CreatePrimitive, SkipUpdate,
         UpdateRefused, Updating, Doing, NotingInPlace, NoteHash, MakeDefinition,
         DefinitionStages, ConfigureRemote, CommandLost
    <3>2. RuleExists(o, n)'
      BY <3>1 DEF AddLocalRule, RuleExists
    <3> QED BY <3>2 DEF Ruling
  <2> QED BY <1>4, <1>5, <2>1, <2>2, PendingStep DEF Stages
<1>6. CASE leader \notin due /\ RuleExists(o, n)
  <2>0. PICK m \in {n} \cup Longer[n] : <<o, m>> \in rules
    BY <1>6 DEF RuleExists
  <2>1. CASE Around \/ UNCHANGED vars
    BY <1>0, <1>6, <2>1, AroundLeaves DEF Ruling, RuleExists, vars, cib
  <2>2. ASSUME NEW u \in Unit, Working(u), u # leader PROVE RuleExists(o, n)'
    BY <1>0, <1>6, <2>2, OthersOnlyTake DEF RuleExists, cib
  <2>3. CASE Working(leader)
    <3>1. CASE <<o, m>> \in rules'
      BY <2>0, <3>1 DEF Ruling, RuleExists
    <3>2. CASE at[leader] = "delete" /\ at' = at
      BY <3>2 DEF Ruling, ToCome, Pos
    <3> QED BY <1>0, <2>0, <2>3, <3>1, <3>2, RulesChange
  <2> QED BY <2>1, <2>2, <2>3, NextIsEither DEF Ruling
<1> QED BY <1>3, <1>5, <1>6 DEF Ruling

LEMMA RuleStep == RuleInv /\ [Next]_vars => RuleInv'
<1> SUFFICES ASSUME RuleInv, [Next]_vars PROVE RuleInv'
  OBVIOUS
<1>1. LeadInv /\ LeadInv' /\ TypeOK
  BY LeadStep DEF RuleInv, LeadInv
<1>2. ASSUME Led', NEW stage \in {"rules", "containers"}, NEW n \in nodes',
             NEW o \in NeedRules(asked[leader])', Ruled(stage, o)
      PROVE  Ruling(stage, o, n)'
  <2>1. Led /\ Rulings /\ leader' = leader /\ leader \in Unit
    BY <1>1, <1>2, NeverBefore, LeaderStays DEF Led, RuleInv, TypeOK
  <2>2. CASE leader \in due'
    BY <2>1, <2>2 DEF Ruling
  <2>3. CASE leader \notin due'
    <3>1. asked'[leader] = asked[leader] /\ nodes' = nodes
      BY <1>1, <2>1, <2>3, DataStays
    <3>2. NeedRules(asked[leader])' = NeedRules(asked[leader])
      BY <2>1, <3>1 DEF NeedRules, AskedPrimitives, AskedDefinitions, Doomed
    <3>3. Ruling(stage, o, n)
      BY <1>2, <2>1, <3>1, <3>2 DEF Rulings
    <3> QED BY <1>1, <1>2, <2>1, <2>3, <3>3, RulingStep
  <2> QED BY <2>2, <2>3
<1> QED BY <1>1, <1>2 DEF RuleInv, Rulings, Ruled

\* While leadership stays, once all is quiet in a cluster that is opt-in because
\* of its remotes, every resource may run on every node, by its own rule or that
\* of the group or clone it is in, unless the name of another node begins with the
\* name of this one and has the rule: whatever commands are lost, hooks die and
\* resources are deleted under way (add_location_rules_for_local_nodes and
\* add_location_rules_for_pacemaker_remotes at the end of ha_relation_changed).
THEOREM AllMayRun == Spec => []RunnableSomewhere
<1>1. Init => RuleInv
  BY LeadInit DEF Init, RuleInv, Rulings, Ruling
<1>2. RuleInv => RunnableSomewhere
  <2> SUFFICES ASSUME RuleInv, Quiet, ready, answer = "no", Led,
                      NEW p \in AskedPrimitives(wanted), NEW n \in nodes
               PROVE  \E o \in {p} \cup {d \in Definition : p \in Refers[d]} : RuleExists(o, n)
    BY DEF RunnableSomewhere, Led
  <2>1. leader \in Unit /\ asked[leader] = wanted
    BY DEF RuleInv, LeadInv, TypeOK, Quiet
  <2>2. ASSUME NEW stage \in {"rules", "containers"}, NEW o \in NeedRules(wanted), Ruled(stage, o)
        PROVE  RuleExists(o, n)
    BY <2>1, <2>2 DEF RuleInv, Rulings, Ruling, Quiet, ToCome
  <2>3. CASE p \in NeedRules(wanted)
    BY <2>2, <2>3 DEF Ruled, AskedPrimitives
  <2>4. CASE p \notin NeedRules(wanted)
    <3>1. PICK d \in AskedDefinitions(wanted) :
            Kind[d] \in {"groups", "clones"} /\ Refers[d] = {p}
      BY <2>4 DEF NeedRules
    <3>2. d \in NeedRules(wanted) /\ d \in Definition
      BY <3>1 DEF NeedRules, AskedDefinitions
    <3> QED BY <2>2, <3>1, <3>2 DEF Ruled
  <2> QED BY <2>3, <2>4
<1> QED BY <1>1, <1>2, RuleStep, PTL DEF Spec

-----------------------------------------------------------------------------
(* The deal of the remotes to the nodes: arithmetic about positions in     *)
(* sorted lists and remainders.                                            *)

LEMMA MultiplesGrow ==
    ASSUME NEW c \in Nat, NEW k \in Nat, NEW l \in Nat, k <= l
    PROVE  c * k <= c * l
<1>1. PICK d \in Nat : l = k + d
  <2>1. l - k \in Nat /\ l = k + (l - k)
    OBVIOUS
  <2> QED BY <2>1
<1>2. c * d \in Nat /\ c * l = c * k + c * d
  BY <1>1
<1> QED BY <1>2

\* Division with remainder.
LEMMA Division ==
    ASSUME NEW c \in Nat \ {0}, NEW a \in Nat
    PROVE  \E q \in Nat : \E j \in 0..(c - 1) : a = c * q + j /\ a % c = j
<1> DEFINE Low == {k \in 0..a : c * k <= a}
<1>0. PICK t : t = Cardinality(Low)
  OBVIOUS
<1>1. 0 \in Low /\ \A k \in Nat : k <= c * k
  OBVIOUS
<1>2. IsFiniteSet(Low) /\ t \in Nat
  <2>1. IsFiniteSet(0..a)
    BY FS_Interval
  <2> QED BY <1>0, <2>1, FS_Subset, FS_CardinalityType
<1>3. t > 0
  BY <1>0, <1>1, <1>2, FS_EmptySet
<1>4. c * t > a
  <2> SUFFICES ASSUME c * t <= a PROVE FALSE
    BY <1>2
  <2>1. t <= a
    BY <1>1, <1>2
  <2>2. 0..t \subseteq Low
    <3> SUFFICES ASSUME NEW k \in 0..t PROVE c * k <= a
      BY <1>2, <2>1
    <3>1. c * k <= c * t
      BY <1>2, MultiplesGrow
    <3> QED BY <1>2, <3>1
  <2> HIDE DEF Low
  <2>3. Cardinality(0..t) <= t
    BY <1>0, <1>2, <2>2, FS_Subset
  <2>4. Cardinality(0..t) = t + 1
    BY <1>2, FS_Interval
  <2> QED BY <1>2, <2>3, <2>4
<1>5. c * (t - 1) <= a
  <2> SUFFICES ASSUME c * (t - 1) > a PROVE FALSE
    BY <1>2, <1>3
  <2>1. Low \subseteq 0..(t - 2)
    <3> SUFFICES ASSUME NEW k \in Low, k >= t - 1 PROVE FALSE
      BY <1>2
    <3>1. c * (t - 1) <= c * k
      BY <1>2, <1>3, MultiplesGrow
    <3> QED BY <1>2, <3>1
  <2> HIDE DEF Low
  <2>2. PICK m \in Int : m = t - 2
    BY <1>2
  <2>3. IsFiniteSet(0..m) /\ Cardinality(0..m) <= t - 1
    <3>1. 0 \in Int /\ m \in Int
      OBVIOUS
    <3>2. IsFiniteSet(0..m) /\ (0 > m => Cardinality(0..m) = 0)
          /\ (~(0 > m) => Cardinality(0..m) = m - 0 + 1)
      BY <3>1, FS_Interval
    <3> QED BY <1>2, <1>3, <2>2, <3>2
  <2>4. Cardinality(0..m) \in Nat
    BY <2>3, FS_CardinalityType
  <2>5. t <= Cardinality(0..m)
    BY <1>0, <2>1, <2>2, <2>3, FS_Subset
  <2> QED BY <1>2, <2>3, <2>4, <2>5
<1> HIDE DEF Low
<1>6. t - 1 \in Nat /\ a - c * (t - 1) \in 0..(c - 1)
  <2>1. c * t = c * (t - 1) + c
    BY <1>2
  <2> QED BY <1>2, <1>3, <1>4, <1>5, <2>1
<1>7. ASSUME NEW k \in Nat, NEW j \in 0..(c - 1) PROVE (c * k + j) % c = j
  BY SMT
<1>8. ASSUME NEW k \in Nat, NEW j \in 0..(c - 1), a = c * k + j
      PROVE  a = c * k + j /\ a % c = j
  BY <1>7, <1>8
<1>9. a = c * (t - 1) + (a - c * (t - 1))
  BY <1>6
<1>10. a % c = a - c * (t - 1)
  BY <1>6, <1>8, <1>9
<1> USE <1>6
<1> WITNESS t - 1 \in Nat
<1> WITNESS a - c * (t - 1) \in 0..(c - 1)
<1> QED BY <1>9, <1>10

\* A finite set in alphabetical order.
Ranked(S) ==
    /\ IsFiniteSet(S)
    /\ \A x \in S : Rank[x] \in Nat
    /\ \A x, y \in S : Rank[x] = Rank[y] => x = y

\* Positions are those of a sorted list: each element has one of its own.
LEMMA PositionInRange ==
    ASSUME NEW S, Ranked(S), NEW x \in S
    PROVE  Position(x, S) \in 0..(Cardinality(S) - 1)
<1> DEFINE Before == {y \in S : Rank[y] < Rank[x]}
<1>1. IsFiniteSet(Before) /\ Cardinality(Before) \in Nat
  BY FS_Subset, FS_CardinalityType DEF Ranked
<1>2. Cardinality(Before) <= Cardinality(S) /\ Cardinality(S) \in Nat
  BY FS_Subset, FS_CardinalityType DEF Ranked
<1>3. x \notin Before
  BY DEF Ranked
<1>4. Cardinality(Before) # Cardinality(S)
  BY <1>3, FS_Subset DEF Ranked
<1> QED BY <1>1, <1>2, <1>4 DEF Position

LEMMA PositionsDiffer ==
    ASSUME NEW S, Ranked(S), NEW x \in S, NEW y \in S, Position(x, S) = Position(y, S)
    PROVE  x = y
<1>1. ASSUME NEW v \in S, NEW w \in S, Rank[v] < Rank[w]
      PROVE  Position(v, S) # Position(w, S)
  <2> DEFINE Before(z) == {r \in S : Rank[r] < Rank[z]}
  <2>1. Before(v) \subseteq Before(w) /\ v \in Before(w) /\ v \notin Before(v)
    BY <1>1 DEF Ranked
  <2>2. IsFiniteSet(Before(w))
    BY FS_Subset DEF Ranked
  <2>3. Cardinality(Before(v)) # Cardinality(Before(w))
    BY <2>1, <2>2, FS_Subset
  <2> QED BY <2>3 DEF Position
<1> QED BY <1>1 DEF Ranked

\* All positions are taken.
LEMMA PositionsTaken ==
    ASSUME NEW S, Ranked(S), NEW i \in 0..(Cardinality(S) - 1)
    PROVE  \E x \in S : Position(x, S) = i
<1> DEFINE f == [x \in S |-> Position(x, S)]
           T == 0..(Cardinality(S) - 1)
<1>1. Cardinality(S) \in Nat
  BY FS_CardinalityType DEF Ranked
<1>2. f \in Injection(S, T)
  BY PositionInRange, PositionsDiffer DEF Injection, IsInjective
<1>3. IsFiniteSet(T) /\ Cardinality(T) = Cardinality(S)
  <2>1. PICK m \in Int : m = Cardinality(S) - 1
    BY <1>1
  <2>2. 0 \in Int
    OBVIOUS
  <2>3. IsFiniteSet(0..m) /\ (0 > m => Cardinality(0..m) = 0)
        /\ (~(0 > m) => Cardinality(0..m) = m - 0 + 1)
    BY <2>2, FS_Interval
  <2> QED BY <1>1, <2>1, <2>3
<1>4. f \in Surjection(S, T)
  BY <1>2, <1>3, FS_Injection
<1> QED BY <1>4 DEF Surjection

\* One node is preferred.
LEMMA OneInTurn ==
    ASSUME NEW S, Ranked(S), S # {}, NEW a \in Nat
    PROVE  Cardinality({x \in S : Position(x, S) = a % Cardinality(S)}) = 1
<1>1. Cardinality(S) \in Nat \ {0}
  BY FS_CardinalityType, FS_EmptySet DEF Ranked
<1>2. PICK i \in 0..(Cardinality(S) - 1) : a % Cardinality(S) = i
  BY <1>1, Division
<1>3. PICK x \in S : Position(x, S) = i
  BY PositionsTaken
<1>4. {y \in S : Position(y, S) = i} = {x}
  BY <1>3, PositionsDiffer
<1> QED BY <1>2, <1>4, FS_Singleton

\* Dealt out to c in turn, nobody gets two more than another one.
LEMMA TurnsAreEven ==
    ASSUME NEW S, Ranked(S), NEW c \in Nat \ {0}, NEW i \in 0..(c - 1), NEW j \in 0..(c - 1)
    PROVE  Cardinality({x \in S : Position(x, S) % c = i})
             <= Cardinality({x \in S : Position(x, S) % c = j}) + 1
<1> DEFINE Dealt(k) == {x \in S : Position(x, S) % c = k}
           Later == {x \in Dealt(i) : Position(x, S) # i}
           Earlier(x) == Position(x, S) - c - i + j
<1>1. \A k : IsFiniteSet(Dealt(k)) /\ Cardinality(Dealt(k)) \in Nat
  <2>1. \A k : Dealt(k) \in SUBSET S
    OBVIOUS
  <2> HIDE DEF Dealt
  <2> QED BY <2>1, FS_Subset, FS_CardinalityType DEF Ranked
<1>2. IsFiniteSet(Later) /\ Cardinality(Later) \in Nat
  <2>1. Later \in SUBSET Dealt(i)
    OBVIOUS
  <2> HIDE DEF Dealt, Later
  <2> QED BY <1>1, <2>1, FS_Subset, FS_CardinalityType
<1>3. Cardinality(Dealt(i)) <= Cardinality(Later) + 1
  <2>1. CASE Later = Dealt(i)
    <3> HIDE DEF Dealt, Later
    <3> QED BY <1>1, <2>1
  <2>2. CASE Later # Dealt(i)
    <3>1. PICK x \in Dealt(i) : Position(x, S) = i
      BY <2>2
    <3>2. Dealt(i) = Later \cup {x}
      BY <3>1, PositionsDiffer
    <3> HIDE DEF Dealt, Later
    <3> QED BY <1>2, <3>2, FS_AddElement
  <2> QED BY <2>1, <2>2
<1>4. ASSUME NEW x \in Later PROVE \E y \in Dealt(j) : Position(y, S) = Earlier(x)
  <2>1. x \in S /\ Position(x, S) \in 0..(Cardinality(S) - 1) /\ Cardinality(S) \in Nat
    BY PositionInRange, FS_CardinalityType DEF Ranked
  <2>2. PICK q \in Nat : Position(x, S) = c * q + i
    <3>1. Position(x, S) \in Nat
      BY <2>1
    <3>2. PICK q \in Nat : \E k \in 0..(c - 1) :
            Position(x, S) = c * q + k /\ Position(x, S) % c = k
      BY <3>1, Division
    <3> QED BY <3>2
  <2>3. q # 0
    BY <2>2
  <2>4. PICK p \in Nat : q = p + 1
    <3>1. q - 1 \in Nat /\ q = (q - 1) + 1
      BY <2>3
    <3> QED BY <3>1
  <2>5. c * q = c * p + c /\ c * p \in Nat
    BY <2>4
  <2>6. Earlier(x) = c * p + j
    BY <2>1, <2>2, <2>5
  <2>7. Earlier(x) \in 0..(Cardinality(S) - 1)
    BY <2>1, <2>2, <2>5, <2>6
  <2>8. PICK y \in S : Position(y, S) = Earlier(x)
    BY <2>7, PositionsTaken
  <2>9. (c * p + j) % c = j
    BY SMT
  <2> QED BY <2>6, <2>8, <2>9
<1>5. Cardinality(Later) <= Cardinality(Dealt(j))
  <2> DEFINE f == [x \in Later |-> CHOOSE y \in Dealt(j) : Position(y, S) = Earlier(x)]
  <2>1. \A x \in Later : f[x] \in Dealt(j) /\ Position(f[x], S) = Earlier(x)
    BY <1>4
  <2>2. \A x, y \in Later : f[x] = f[y] => x = y
    <3> SUFFICES ASSUME NEW x \in Later, NEW y \in Later, f[x] = f[y] PROVE x = y
      OBVIOUS
    <3>1. x \in S /\ y \in S /\ Earlier(x) = Earlier(y)
      BY <2>1
    <3>2. Position(x, S) \in Int /\ Position(y, S) \in Int
      BY <3>1, PositionInRange
    <3>3. Position(x, S) = Position(y, S)
      BY <3>1, <3>2
    <3> QED BY <3>1, <3>3, PositionsDiffer
  <2>3. f \in [Later -> Dealt(j)]
    BY <2>1
  <2> HIDE DEF f
  <2>4. f \in Injection(Later, Dealt(j))
    BY <2>2, <2>3 DEF Injection, IsInjective
  <2> HIDE DEF Later, Dealt
  <2> QED BY <1>1, <2>4, FS_Injection
<1>6. Cardinality(Dealt(i)) <= Cardinality(Dealt(j)) + 1
  <2> HIDE DEF Dealt, Later
  <2> QED BY <1>1, <1>2, <1>3, <1>5
<1> QED BY <1>6

-----------------------------------------------------------------------------
(* The scores of the remotes: they are those of the deal in the end.       *)

Alert == Never({"leader", "kill"})

\* Only the leader has hashes of scores, and they are true unless about to be
\* noted; deletions do not touch scores.
ScoreTruth ==
    \A u \in Unit, x \in Remote \X Node : kv[u][x] # None =>
        u = leader /\ (noting[u] # x => kv[u][x] = score[x])

\* The score of a remote for a node is as dealt, or the hook has still to set it.
Dealing(x) ==
    \/ leader \in due
    \/ ~(ready /\ answer = "no")
    \/ ToCome(leader, "scores", x)
    \/ score[x] = Requested(leader, x)

SpreadInv ==
    /\ LeadInv /\ nodes # {}
    /\ Alert => ScoreTruth
    /\ Never({"leader", "kill", "refused"}) => \A x \in remotes \X nodes : Dealing(x)

LEMMA ScoreNames ==
    \A x \in Remote \X Node :
        /\ x \in Hashed /\ x \notin Primitive
        /\ InCib(x) = score[x]
        /\ \A u : Requested(u, x) = IF Preferred(u, x[1], x[2]) THEN 200 ELSE 0
  BY NamesAssumption DEF Hashed, InCib, Requested

LEMMA NodesRemain ==
    ASSUME TypeOK, nodes # {}, [Next]_vars
    PROVE  nodes' # {}
<1>1. UNCHANGED juju => UNCHANGED nodes
  BY DEF juju
<1>2. nodes \subseteq nodes' \/ ~Around
  BY DEF Around, PrincipalPublishes, LeaderElected, Want, RemoteJoins, RemotesAnswer,
     NodeJoins, MembersReady
<1> QED BY <1>1, <1>2, NextIsEither, WorkingLeaves DEF vars

\* What a step of a hook does to a score and to its hash.
LEMMA ScoreChanges ==
    ASSUME TypeOK, NotingInPlace, NEW u \in Unit, Working(u), NEW x \in Remote \X Node
    PROVE  \/ score'[x] = score[x]
           \/ /\ LoadUpdate(u, x) /\ noting'[u] = x
              /\ score'[x] = Requested(u, x) /\ UNCHANGED read
<1>1. ASSUME NEW y \in Hashed, LoadUpdate(u, y), y # x PROVE score'[x] = score[x]
  BY <1>1 DEF LoadUpdate, TypeOK, Hashed
<1>2. ASSUME LoadUpdate(u, x)
      PROVE  noting'[u] = x /\ score'[x] = Requested(u, x) /\ UNCHANGED read
  BY <1>2, ScoreNames DEF LoadUpdate, TypeOK
<1>3. (\A y \in Hashed : ~LoadUpdate(u, y)) => score' = score
  BY DEF Working, HookStep, HookFails, UpdateRefused, CommandLost, Abort, cib,
     HaRelationChanged, SetClusterSymmetry, NextStage, NoteHash, DeleteResource,
     CreatePrimitive, SkipUpdate, MakeDefinition, ConfigureRemote, AddLocalRule, RuleRefused
<1> QED BY <1>1, <1>2, <1>3, ScoreNames

LEMMA ScoreTruthStep ==
    ASSUME LeadInv, Led, ScoreTruth, [Next]_vars, leader' = leader,
           \A u \in Unit : ~HookFails(u)
    PROVE  ScoreTruth'
<1>0. TypeOK /\ leader \in Unit /\ NotingInPlace /\ OnlyLeaderWorks
  BY DEF LeadInv, TypeOK
<1>1. CASE Around \/ UNCHANGED vars
  BY <1>0, <1>1, AroundLeaves DEF ScoreTruth, vars, hook, cib
<1>2. ASSUME NEW u \in Unit, Working(u), u # leader PROVE ScoreTruth'
  BY <1>0, <1>2, OthersOnlyTake DEF ScoreTruth, cib
<1>3. CASE Working(leader)
  <2>1. CASE NoteHash(leader)
    <3>1. \A x \in Remote \X Node : score'[x] = score[x]
      BY <2>1 DEF NoteHash, cib
    <3>2. noting[leader] \in Hashed /\ noting'[leader] = None
      BY <1>0, <2>1 DEF NoteHash, TypeOK
    <3>3. \A v \in Unit, x \in Hashed : v # leader \/ x # noting[leader] => kv'[v][x] = kv[v][x]
      BY <1>0, <2>1, <3>2 DEF NoteHash, TypeOK
    <3>4. kv'[leader][noting[leader]] = InCib(noting[leader])
      BY <1>0, <2>1, <3>2 DEF NoteHash, TypeOK
    <3> QED BY <3>1, <3>2, <3>3, <3>4, ScoreNames DEF ScoreTruth
  <2>2. CASE ~NoteHash(leader)
    <3>1. noting[leader] = None
      <4> SUFFICES ASSUME noting[leader] # None PROVE FALSE
        OBVIOUS
      <4> QED BY <1>0, <1>3, <2>2 DEF NotingInPlace, Working, HookStep, UpdateRefused,
           CommandLost, Updating, Doing, HaRelationChanged, SetClusterSymmetry, NextStage,
           DeleteResource, CreatePrimitive, SkipUpdate, LoadUpdate, MakeDefinition,
           ConfigureRemote, AddLocalRule, RuleRefused, DefinitionStages
    <3>2. kv' = kv
      BY <1>3, <2>2 DEF Working, HookStep, HookFails, UpdateRefused, CommandLost, Abort,
         HaRelationChanged, SetClusterSymmetry, NextStage, DeleteResource, CreatePrimitive,
         SkipUpdate, LoadUpdate, MakeDefinition, ConfigureRemote, AddLocalRule, RuleRefused
    <3>3. ASSUME NEW v \in Unit, NEW x \in Remote \X Node, kv'[v][x] # None
          PROVE  v = leader /\ (noting'[v] # x => kv'[v][x] = score'[x])
      <4>1. v = leader /\ kv[v][x] = score[x]
        BY <3>1, <3>2, <3>3, NamesAssumption, ScoreNames DEF ScoreTruth
      <4> QED BY <1>0, <1>3, <3>2, <4>1, ScoreChanges
    <3> QED BY <3>3 DEF ScoreTruth
  <2> QED BY <2>1, <2>2
<1> QED BY <1>0, <1>1, <1>2, <1>3, NextIsEither

LEMMA DealingStep ==
    ASSUME LeadInv, Led, ScoreTruth, [Next]_vars, leader' = leader, ~Spend("refused"),
           leader \notin due', NEW x \in remotes' \X nodes', leader \in due \/ Dealing(x)
    PROVE  Dealing(x)'
<1>0. TypeOK /\ leader \in Unit /\ NotingInPlace /\ OnlyLeaderWorks /\ NotedAsRequested
  BY DEF LeadInv, TypeOK
<1>1. UNCHANGED <<answer, remotes, ready, nodes>>
  BY <1>0, DataStays
<1>2. x \in Remote \X Node /\ x \in remotes \X nodes
  BY <1>0, <1>1 DEF TypeOK
<1>3. SUFFICES ASSUME ready /\ answer = "no" PROVE Dealing(x)'
  BY <1>1 DEF Dealing
<1>4. ASSUME leader \notin due
      PROVE  x \in Work(leader, "scores") /\ Requested(leader, x)' = Requested(leader, x)
  <2>1. read'[leader] = read[leader] /\ Current(leader)
    BY <1>0, <1>4, CurrentStays DEF LeadInv
  <2> QED BY <1>2, <1>3, <2>1 DEF Work, Current, Requested, Preferred
<1>5. CASE leader \in due \/ ToCome(leader, "scores", x)
  <2>1. CASE ToCome(leader, "scores", x)'
    BY <2>1 DEF Dealing
  <2>2. CASE /\ leader \notin due /\ Working(leader) /\ at[leader] = "scores"
             /\ x \in todo[leader] /\ x \notin todo'[leader]
    <3>1. \/ SkipUpdate(leader, x) \/ UpdateRefused(leader, x)
          \/ NoteHash(leader) /\ noting[leader] = x
      BY <1>0, <2>2, DealtWith DEF DeleteResource, CreatePrimitive, Doing, MakeDefinition,
         DefinitionStages, ConfigureRemote, AddLocalRule, CommandLost
    <3>2. CASE SkipUpdate(leader, x)
      <4>1. kv[leader][x] = Requested(leader, x) /\ noting[leader] = None /\ UNCHANGED score
        BY <1>0, <1>2, <3>2, ScoreNames DEF SkipUpdate, Updating, Doing, cib
      <4>2. Requested(leader, x) # None
        BY <1>2, ScoreNames, NamesAssumption DEF Scores
      <4>3. score[x] = Requested(leader, x)
        BY <1>0, <1>2, <4>1, <4>2, NamesAssumption, ScoreNames DEF ScoreTruth
      <4> QED BY <1>4, <2>2, <4>1, <4>3 DEF Dealing
    <3>3. CASE NoteHash(leader) /\ noting[leader] = x
      BY <1>0, <1>2, <1>4, <2>2, <3>3, ScoreNames DEF NoteHash, NotedAsRequested, Dealing, cib
    <3>4. ~UpdateRefused(leader, x)
      BY DEF UpdateRefused
    <3> QED BY <3>1, <3>2, <3>3, <3>4
  <2> QED BY <1>4, <1>5, <2>1, <2>2, PendingStep DEF Stages
<1>6. CASE leader \notin due /\ score[x] = Requested(leader, x)
  <2>1. CASE Around \/ UNCHANGED vars
    BY <1>0, <1>4, <1>6, <2>1, AroundLeaves DEF Dealing, vars, cib
  <2>2. ASSUME NEW u \in Unit, Working(u), u # leader PROVE Dealing(x)'
    BY <1>0, <1>4, <1>6, <2>2, OthersOnlyTake DEF Dealing, cib
  <2>3. CASE Working(leader)
    BY <1>0, <1>2, <1>4, <1>6, <2>3, ScoreChanges DEF Dealing
  <2> QED BY <2>1, <2>2, <2>3, NextIsEither
<1> QED BY <1>3, <1>5, <1>6 DEF Dealing

LEMMA SpreadStep == SpreadInv /\ [Next]_vars => SpreadInv'
<1> SUFFICES ASSUME SpreadInv, [Next]_vars PROVE SpreadInv'
  OBVIOUS
<1>1. LeadInv /\ LeadInv' /\ TypeOK /\ nodes' # {}
  BY LeadStep, NodesRemain DEF SpreadInv, LeadInv
<1>2. ASSUME Alert' PROVE ScoreTruth' /\ ScoreTruth /\ Led /\ leader' = leader
  <2>1. Alert /\ Led' /\ Led
    BY <1>1, <1>2, NeverBefore DEF Led, Alert, Never
  <2>2. leader' = leader /\ \A u \in Unit : ~HookFails(u)
    BY <1>1, <1>2, <2>1, LeaderStays, NotNow DEF Alert, HookFails
  <2> QED BY <1>1, <2>1, <2>2, ScoreTruthStep DEF SpreadInv
<1>3. ASSUME Never({"leader", "kill", "refused"})', NEW x \in remotes' \X nodes'
      PROVE  Dealing(x)'
  <2>1. Alert' /\ Never({"leader", "kill", "refused"}) /\ ~Spend("refused")
    BY <1>1, <1>3, NeverBefore, NotNow DEF Alert, Never
  <2>2. CASE leader' \in due'
    BY <2>2 DEF Dealing
  <2>3. CASE leader' \notin due'
    <3>1. ScoreTruth /\ Led /\ leader' = leader /\ leader \in Unit
      BY <1>1, <1>2, <2>1 DEF TypeOK
    <3>2. UNCHANGED <<remotes, nodes>>
      BY <1>1, <2>3, <3>1, DataStays
    <3>3. Dealing(x)
      BY <1>3, <2>1, <3>2 DEF SpreadInv
    <3> QED BY <1>1, <1>3, <2>1, <2>3, <3>1, <3>3, DealingStep
  <2> QED BY <2>2, <2>3
<1> QED BY <1>1, <1>2, <1>3 DEF SpreadInv

LEMMA SpreadInit == Init => SpreadInv
<1> SUFFICES ASSUME Init PROVE SpreadInv
  OBVIOUS
<1>1. nodes # {} /\ \A x \in remotes \X nodes : FALSE
  BY DEF Init
<1>2. ScoreTruth
  BY ScoreNames DEF Init, ScoreTruth
<1> QED BY <1>1, <1>2, LeadInit DEF SpreadInv

LEMMA RankedNames ==
    ASSUME TypeOK
    PROVE  Ranked(remotes) /\ Ranked(nodes)
  BY NamesAssumption, RankAssumption, FS_Subset DEF TypeOK, Ranked

\* While leadership stays, no hook dies and no update is refused, once all is
\* quiet in an opt-in cluster each remote prefers one node, and nodes are
\* preferred by as many remotes, but for one: for any number of remotes and nodes
\* and however they join while others have been dealt out already
\* (add_location_rules_for_pacemaker_remotes).
THEOREM RemotesDealt == Spec => []RemotesSpread
<1>1. SpreadInv => RemotesSpread
  <2> SUFFICES ASSUME SpreadInv, Quiet, ready, answer = "no",
                      Never({"leader", "kill", "refused"})
               PROVE  /\ \A r \in remotes :
                            Cardinality({n \in nodes : score[<<r, n>>] = 200}) = 1
                      /\ \A m, n \in nodes :
                            Cardinality({r \in remotes : score[<<r, m>>] = 200})
                              <= Cardinality({r \in remotes : score[<<r, n>>] = 200}) + 1
    BY DEF RemotesSpread
  <2>1. TypeOK /\ LeadInv /\ leader \in Unit /\ Led /\ nodes # {}
    BY DEF SpreadInv, LeadInv, TypeOK, Led, Never
  <2>2. Ranked(remotes) /\ Ranked(nodes)
    BY <2>1, RankedNames
  <2>3. read[leader].nodes = nodes /\ read[leader].remotes = remotes
    BY <2>1 DEF LeadInv, Current, Quiet
  <2> DEFINE c == Cardinality(nodes)
             turn(r) == Position(r, remotes) % c
  <2>4. c \in Nat \ {0}
    BY <2>1, <2>2, FS_CardinalityType, FS_EmptySet DEF Ranked
  <2>5. ASSUME NEW r \in remotes, NEW n \in nodes
        PROVE  score[<<r, n>>] = 200 <=> Position(n, nodes) = turn(r)
    <3>1. score[<<r, n>>] = Requested(leader, <<r, n>>)
      BY <2>1 DEF SpreadInv, Dealing, Quiet, ToCome
    <3>2. <<r, n>> \in Remote \X Node
      BY <2>1 DEF TypeOK
    <3>3. Requested(leader, <<r, n>>) = IF Preferred(leader, r, n) THEN 200 ELSE 0
      BY <3>2, ScoreNames
    <3> QED BY <2>3, <3>1, <3>3 DEF Preferred
  <2>6. ASSUME NEW r \in remotes
        PROVE  Cardinality({n \in nodes : score[<<r, n>>] = 200}) = 1
    <3>1. {n \in nodes : score[<<r, n>>] = 200} = {n \in nodes : Position(n, nodes) = turn(r)}
      BY <2>5
    <3>2. PICK a \in Nat : a = Position(r, remotes)
      BY <2>2, PositionInRange
    <3>3. Cardinality({n \in nodes : Position(n, nodes) = a % Cardinality(nodes)}) = 1
      BY <2>1, <2>2, OneInTurn
    <3> QED BY <3>1, <3>2, <3>3
  <2>7. ASSUME NEW n \in nodes
        PROVE  /\ Position(n, nodes) \in 0..(c - 1)
               /\ {r \in remotes : score[<<r, n>>] = 200}
                    = {r \in remotes : Position(r, remotes) % c = Position(n, nodes)}
    BY <2>2, <2>5, PositionInRange
  <2>8. ASSUME NEW m \in nodes, NEW n \in nodes
        PROVE  Cardinality({r \in remotes : score[<<r, m>>] = 200})
                 <= Cardinality({r \in remotes : score[<<r, n>>] = 200}) + 1
    <3> HIDE DEF c
    <3>1. PICK i \in 0..(c - 1) : i = Position(m, nodes)
      BY <2>7
    <3>2. PICK j \in 0..(c - 1) : j = Position(n, nodes)
      BY <2>7
    <3>3. Cardinality({r \in remotes : Position(r, remotes) % c = i})
            <= Cardinality({r \in remotes : Position(r, remotes) % c = j}) + 1
      BY <2>2, <2>4, TurnsAreEven
    <3> QED BY <2>7, <3>1, <3>2, <3>3
  <2> QED BY <2>6, <2>8
<1> QED BY <1>1, SpreadInit, SpreadStep, PTL DEF Spec

=============================================================================
