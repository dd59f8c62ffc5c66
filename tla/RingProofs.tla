----------------------------- MODULE RingProofs -----------------------------
(* What holds of Ring for every value of its constants. *)
EXTENDS Ring, FiniteSetTheorems, TLAPS

Bag == [ready : BOOLEAN, member_ready : BOOLEAN, trigger : 0..MaxRequest]

-----------------------------------------------------------------------------
(* The pieces the actions are built from keep their types.                 *)

\* A hook that publishes a bag of the right type leaves bags and owed hooks in
\* their types (relation-set, flushed at the end of the hook).
LEMMA PublishType ==
    ASSUME TypeOK, NEW u \in Unit, NEW b \in Bag,
           NEW owed \in [Unit -> SUBSET Event], Publish(u, b, owed)
    PROVE  bag' \in [Unit -> Bag] /\ due' \in [Unit -> SUBSET Event]
<1>1. bag' \in [Unit -> Bag]
  BY DEF TypeOK, Publish, Bag
<1>2. Changed(u) \in Event
  BY DEF Changed, Event
<1>3. due' \in [Unit -> SUBSET Event]
  BY <1>2 DEF Publish
<1> QED BY <1>1, <1>3

\* Nodes that merge their lists, and nodes that forget some, still have lists
\* of nodes (pacemaker's node list).
LEMMA MergedType ==
    ASSUME NEW r \in [Unit -> SUBSET Unit], NEW n \in [Unit -> SUBSET Unit]
    PROVE  Merged(r, n) \in [Unit -> SUBSET Unit]
<1>1. ASSUME NEW u \in Unit
      PROVE  UNION {n[v] \cup {v} : v \in Mates(r, u)} \subseteq Unit
  BY DEF Mates
<1>2. ASSUME NEW u \in Unit
      PROVE  n[u] \cup UNION {n[v] \cup {v} : v \in Mates(r, u)} \in SUBSET Unit
  BY <1>1
<1> QED BY <1>2 DEF Merged

LEMMA WithoutNodesType ==
    ASSUME TypeOK, NEW u \in Unit, NEW gone
    PROVE  WithoutNodes(u, gone) \in [Unit -> SUBSET Unit]
  BY DEF TypeOK, WithoutNodes

\* The bags hooks and actions publish.
LEMMA BagUpdates ==
    ASSUME NEW b \in Bag
    PROVE  /\ [b EXCEPT !.ready = TRUE] \in Bag
           /\ [b EXCEPT !.ready = TRUE, !.member_ready = TRUE] \in Bag
           /\ \A n \in 0..MaxRequest : [b EXCEPT !.trigger = n] \in Bag
  BY DEF Bag

LEMMA BagTypes ==
    ASSUME TypeOK, NEW u \in Unit
    PROVE  /\ HookLeaves(u) \in Bag
           /\ [bag[u] EXCEPT !.ready = TRUE, !.member_ready = TRUE] \in Bag
           /\ \A n \in 0..MaxRequest : [bag[u] EXCEPT !.trigger = n] \in Bag
<1>1. bag[u] \in Bag
  BY DEF TypeOK, Bag
<1> QED BY <1>1, BagUpdates DEF HookLeaves

LEMMA EventTypes ==
    ASSUME NEW u \in Unit
    PROVE  Changed(u) \in Event /\ HaEvent(u) \in Event /\ ConfigEvent(u) \in Event
  BY DEF Changed, HaEvent, ConfigEvent, Event

LEMMA SpendType ==
    ASSUME TypeOK, NEW kind \in Disturbances, Spend(kind)
    PROVE  budget' \in [Disturbances -> Nat]
  BY DEF TypeOK, Spend

\* What a request leaves typed: the bags, the hooks owed, the noted ids.
LEMMA TriggerType ==
    ASSUME TypeOK, NEW u \in Unit, TriggerCorosyncUpdate(u)
    PROVE  /\ request' \in 1..MaxRequest
           /\ bag' \in [Unit -> Bag]
           /\ due' \in [Unit -> SUBSET Event]
           /\ kv' \in [Unit -> 0..MaxRequest]
           /\ handled' \in [Unit -> SUBSET (1..MaxRequest)]
           /\ conf' \in [Unit -> SUBSET Unit]
           /\ ring' \in [Unit -> SUBSET Unit]
           /\ budget' \in [Disturbances -> Nat]
<1>1. request' \in 1..MaxRequest /\ request' \in 0..MaxRequest
  BY MaxRequestAssumption DEF TypeOK, TriggerCorosyncUpdate
<1>2. [bag[u] EXCEPT !.trigger = request'] \in Bag
  BY <1>1, BagTypes
<1>3. bag' \in [Unit -> Bag] /\ due' \in [Unit -> SUBSET Event]
  BY <1>2, PublishType DEF TriggerCorosyncUpdate, TypeOK
<1>4. kv' \in [Unit -> 0..MaxRequest] /\ handled' \in [Unit -> SUBSET (1..MaxRequest)]
  BY <1>1 DEF TypeOK, TriggerCorosyncUpdate
<1>5. conf' \in [Unit -> SUBSET Unit]
  BY DEF TypeOK, TriggerCorosyncUpdate, HaNodes
<1>6. ring' \in [Unit -> SUBSET Unit]
  <2>1. CASE Reloaded(u)
    BY <1>5, <2>1 DEF TypeOK, Reloaded
  <2>2. CASE UNCHANGED ring
    BY <2>2 DEF TypeOK
  <2> QED BY <2>1, <2>2 DEF TriggerCorosyncUpdate
<1>7. budget' \in [Disturbances -> Nat]
  BY SpendType DEF TriggerCorosyncUpdate, Disturbances, TypeOK
<1> QED BY <1>1, <1>3, <1>4, <1>5, <1>6, <1>7

-----------------------------------------------------------------------------
(* Every action keeps the type invariant.                                  *)

LEMMA TypeInit == Init => TypeOK
<1> SUFFICES ASSUME NEW s \in Starts, InitFrom(s.formed), budget = s.budget
             PROVE  TypeOK
  BY DEF Init
<1> DEFINE first == IF s.formed = {} THEN {leader} ELSE s.formed
<1>1. first \subseteq Unit
  BY StartsAssumption DEF InitFrom
<1>2. bag \in [Unit -> Bag]
  BY MaxRequestAssumption DEF InitFrom, Bag
<1>3. due \in [Unit -> SUBSET Event] /\ event \in [Unit -> Event]
  BY EventTypes DEF InitFrom
<1>4. /\ view \in [Unit -> SUBSET Unit]
      /\ conf \in [Unit -> SUBSET Unit]
      /\ ring \in [Unit -> SUBSET Unit]
      /\ nodes \in [Unit -> SUBSET Unit]
  BY <1>1 DEF InitFrom
<1>5. kv \in [Unit -> 0..MaxRequest] /\ request \in 0..MaxRequest
  BY MaxRequestAssumption DEF InitFrom
<1>6. budget \in [Disturbances -> Nat]
  BY StartsAssumption
<1> QED BY <1>2, <1>3, <1>4, <1>5, <1>6 DEF InitFrom, TypeOK, Bag

\* The hook that starts or ends: all of ha_relation_changed and its failures.
LEMMA TypeHaRelationChanged ==
    ASSUME TypeOK, NEW u \in Unit, NEW e \in Event
    PROVE  /\ TakeUpdateRequest(u, e) => TypeOK'
           /\ DeferConfiguration(u, e) => TypeOK'
           /\ ConfigureCorosync(u, e) => TypeOK'
<1>1. Taken(u, e) \in [Unit -> SUBSET Event]
  BY DEF TypeOK, Taken
<1>2. ASSUME TakeUpdateRequest(u, e) PROVE TypeOK'
  <2>1. RequestId(e) \in 1..MaxRequest
    BY <1>2, MaxRequestAssumption
    DEF TakeUpdateRequest, UpdateRequested, RequestId, TypeOK, Event
  <2>2. due' \in [Unit -> SUBSET Event]
    BY <1>1, <1>2 DEF TakeUpdateRequest
  <2>3. kv' \in [Unit -> 0..MaxRequest] /\ handled' \in [Unit -> SUBSET (1..MaxRequest)]
    BY <1>2, <2>1 DEF TakeUpdateRequest, TypeOK
  <2> QED BY <1>2, <2>2, <2>3 DEF TakeUpdateRequest, TypeOK, environment
<1>3. ASSUME DeferConfiguration(u, e) PROVE TypeOK'
  <2>1. bag' \in [Unit -> Bag] /\ due' \in [Unit -> SUBSET Event]
    BY <1>1, <1>3, BagTypes, PublishType DEF DeferConfiguration
  <2>2. SeesPrincipal(u, e) \in BOOLEAN
    BY DEF TypeOK, SeesPrincipal
  <2>3. principal' \in [Unit -> BOOLEAN]
    BY <1>3, <2>2 DEF DeferConfiguration, TypeOK
  <2> QED BY <1>3, <2>1, <2>3 DEF DeferConfiguration, TypeOK, environment, Bag
<1>4. ASSUME ConfigureCorosync(u, e) PROVE TypeOK'
  <2>1. due' \in [Unit -> SUBSET Event]
    BY <1>1, <1>4 DEF ConfigureCorosync
  <2>2. conf' \in [Unit -> SUBSET Unit]
    BY <1>4 DEF ConfigureCorosync, WriteConf, HaNodes, TypeOK
  <2>3. at' \in [Unit -> {"idle", "restart", "reload", "finish", "failed"}]
    BY <1>4 DEF ConfigureCorosync, WriteConf, TypeOK
  <2>4. counted' \in [Unit -> SUBSET Unit]
    BY <1>4 DEF ConfigureCorosync, MemberReadyNodes, TypeOK
  <2> QED BY <1>4, <2>1, <2>2, <2>3, <2>4 DEF ConfigureCorosync, TypeOK, environment
<1> QED BY <1>2, <1>3, <1>4

\* The other steps of a hook.
LEMMA TypeHookStep == ASSUME TypeOK, NEW u \in Unit, HookStep(u) PROVE TypeOK'
<1>1. CASE HaRelationChanged(u)
  BY <1>1, TypeHaRelationChanged DEF HaRelationChanged
<1>2. CASE ConfigChanged(u)
  <2>1. Taken(u, ConfigEvent(u)) \in [Unit -> SUBSET Event]
    BY DEF TypeOK, Taken
  <2>2. conf' \in [Unit -> SUBSET Unit]
    <3>1. CASE paused[u]
      BY <1>2, <3>1 DEF ConfigChanged, TypeOK
    <3>2. CASE ~paused[u]
      <4>1. conf' = [conf EXCEPT ![u] = HaNodes(u)]
        BY <1>2, <3>2 DEF ConfigChanged, WriteConf
      <4> QED BY <4>1 DEF HaNodes, TypeOK
    <3> QED BY <3>1, <3>2
  <2>3. at' \in [Unit -> {"idle", "restart", "reload", "finish", "failed"}]
    BY <1>2 DEF ConfigChanged, WriteConf, TypeOK
  <2> QED BY <1>2, <2>1, <2>2, <2>3, EventTypes DEF ConfigChanged, TypeOK, environment
<1>3. CASE ReloadRing(u)
  <2>1. bag' \in [Unit -> Bag] /\ due' \in [Unit -> SUBSET Event]
    BY <1>3, BagTypes, PublishType DEF ReloadRing, TypeOK
  <2>2. conf' \in [Unit -> SUBSET Unit]
    BY <1>3 DEF ReloadRing, HaNodes, TypeOK
  <2>3. ring' \in [Unit -> SUBSET Unit]
    <3>1. CASE Reloaded(u)
      BY <2>2, <3>1 DEF Reloaded, TypeOK
    <3>2. CASE UNCHANGED ring
      BY <3>2 DEF TypeOK
    <3> QED BY <1>3, <3>1, <3>2 DEF ReloadRing
  <2>4. nodes' \in [Unit -> SUBSET Unit]
    BY <1>3, <2>3, MergedType DEF ReloadRing, TypeOK
  <2>5. budget' \in [Disturbances -> Nat]
    BY <1>3, SpendType DEF ReloadRing, Disturbances, TypeOK
  <2> QED BY <1>3, <2>1, <2>2, <2>3, <2>4, <2>5 DEF ReloadRing, TypeOK, Bag
<1>4. CASE RestartCorosync(u)
  <2>1. ring' \in [Unit -> SUBSET Unit]
    BY <1>4 DEF RestartCorosync, Started, TypeOK
  <2>2. nodes' \in [Unit -> SUBSET Unit]
    BY <1>4, <2>1, MergedType DEF RestartCorosync, Started, TypeOK
  <2> QED BY <1>4, <2>1, <2>2 DEF RestartCorosync, TypeOK, environment
<1>5. CASE PacemakerDown(u)
  BY <1>5 DEF PacemakerDown, TypeOK, environment
<1>6. CASE FinishHook(u)
  <2>1. bag' \in [Unit -> Bag] /\ due' \in [Unit -> SUBSET Event]
    BY <1>6, BagTypes, PublishType DEF FinishHook, TypeOK, Bag
  <2> QED BY <1>6, <2>1 DEF FinishHook, TypeOK, environment, Bag
<1>7. ASSUME NEW v \in Unit, HanodeJoined(u, v) PROVE TypeOK'
  <2>1. due' \in [Unit -> SUBSET Event]
    BY <1>7, EventTypes DEF HanodeJoined, TypeOK
  <2> QED BY <1>7, <2>1 DEF HanodeJoined, TypeOK
<1>8. ASSUME NEW v \in Unit, HanodeDeparted(u, v) PROVE TypeOK'
  <2>1. due' \in [Unit -> SUBSET Event]
    BY <1>8 DEF HanodeDeparted, Taken, TypeOK
  <2>2. view' \in [Unit -> SUBSET Unit]
    BY <1>8 DEF HanodeDeparted, TypeOK
  <2>3. conf' \in [Unit -> SUBSET Unit]
    BY <1>8, <2>2 DEF HanodeDeparted, TypeOK
  <2> QED BY <1>8, <2>1, <2>2, <2>3 DEF HanodeDeparted, TypeOK
<1> QED BY <1>1, <1>2, <1>3, <1>4, <1>5, <1>6, <1>7, <1>8 DEF HookStep

\* Departures of units.
LEMMA TypeLeave ==
    ASSUME TypeOK, NEW u \in Unit, NEW kind \in Disturbances,
           NEW to \in {"leaving", "gone"}, Leave(u, kind, to),
           ring' \in [Unit -> SUBSET Unit], nodes' = nodes
    PROVE  TypeOK'
<1>1. budget' \in [Disturbances -> Nat]
  BY SpendType DEF Leave
<1>2. leader' \in Unit
  BY DEF Leave, Up, TypeOK
<1> QED BY <1>1, <1>2 DEF Leave, TypeOK

LEMMA TypeFault == ASSUME TypeOK, NEW u \in Unit, Fault(u) PROVE TypeOK'
<1>0. {"fail", "lost"} \subseteq Disturbances
  BY DEF Disturbances
<1>1. CASE RestartFails(u)
  <2>1. budget' \in [Disturbances -> Nat]
    BY <1>0, <1>1, SpendType DEF RestartFails
  <2> QED BY <1>1, <2>1 DEF RestartFails, TypeOK
<1>2. CASE HookFails(u)
  <2>1. budget' \in [Disturbances -> Nat]
    BY <1>0, <1>2, SpendType DEF HookFails
  <2> QED BY <1>2, <2>1 DEF HookFails, TypeOK
<1>3. CASE UnitLost(u)
  <2>1. ring' \in [Unit -> SUBSET Unit]
    BY <1>3 DEF UnitLost, TypeOK
  <2> QED BY <1>0, <1>3, <2>1, TypeLeave DEF UnitLost
<1>4. CASE UpdateRingFails(u)
  <2>1. budget' \in [Disturbances -> Nat]
    BY <1>0, <1>4, SpendType DEF UpdateRingFails
  <2>2. nodes' \in [Unit -> SUBSET Unit]
    BY <1>4, WithoutNodesType DEF UpdateRingFails
  <2> QED BY <1>4, <2>1, <2>2 DEF UpdateRingFails, TypeOK
<1> QED BY <1>1, <1>2, <1>3, <1>4 DEF Fault

\* The deployment, the operator's actions and the leader's.
LEMMA TypeOperate == ASSUME TypeOK, NEW u \in Unit, Operate(u) PROVE TypeOK'
<1>0. {"pause", "leader", "upgrade", "ha", "stop", "delete"} \subseteq Disturbances
  BY DEF Disturbances
<1>1. CASE Install(u)
  <2>1. due' \in [Unit -> SUBSET Event]
    BY <1>1, EventTypes DEF Install, TypeOK
  <2>2. conf' \in [Unit -> SUBSET Unit]
    BY <1>1 DEF Install, HaNodes, TypeOK
  <2>3. ring' \in [Unit -> SUBSET Unit]
    BY <1>1, <2>2 DEF Install, TypeOK
  <2>4. nodes' \in [Unit -> SUBSET Unit]
    BY <1>1, <2>3, MergedType DEF Install, TypeOK
  <2> QED BY <1>1, <2>1, <2>2, <2>3, <2>4 DEF Install, TypeOK
<1>2. CASE UpgradeCharm(u)
  <2>1. budget' \in [Disturbances -> Nat]
    BY <1>0, <1>2, SpendType DEF UpgradeCharm
  <2>2. conf' \in [Unit -> SUBSET Unit]
    BY <1>2 DEF UpgradeCharm, HaNodes, TypeOK
  <2> QED BY <1>2, <2>1, <2>2 DEF UpgradeCharm, TypeOK
<1>3. CASE PauseUnit(u)
  <2>1. budget' \in [Disturbances -> Nat]
    BY <1>0, <1>3, SpendType DEF PauseUnit
  <2> QED BY <1>3, <2>1 DEF PauseUnit, TypeOK
<1>4. CASE ResumeUnit(u)
  BY <1>4 DEF ResumeUnit, TypeOK
<1>5. CASE UnitRemoved(u)
  BY <1>0, <1>5, TypeLeave DEF UnitRemoved, TypeOK
<1>6. CASE Stop(u)
  <2>1. nodes' \in [Unit -> SUBSET Unit]
    BY <1>6, WithoutNodesType DEF Stop
  <2> QED BY <1>6, <2>1 DEF Stop, TypeOK
<1>7. CASE UpdateRing(u)
  <2>1. WithoutNodes(u, UnexpectedNodes(u)) \in [Unit -> SUBSET Unit]
    BY WithoutNodesType
  <2>2. nodes' \in [Unit -> SUBSET Unit]
    BY <1>7, <2>1, MergedType, TriggerType DEF UpdateRing
  <2>3. request' \in 0..MaxRequest
    BY <1>7, TriggerType, MaxRequestAssumption DEF UpdateRing
  <2> QED BY <1>7, <2>2, <2>3, TriggerType DEF UpdateRing, TypeOK, Bag
<1>8. CASE LeaderElected(u)
  <2>1. budget' \in [Disturbances -> Nat]
    BY <1>0, <1>8, SpendType DEF LeaderElected
  <2> QED BY <1>8, <2>1 DEF LeaderElected, TypeOK
<1>9. CASE HaDataChanges(u)
  <2>1. budget' \in [Disturbances -> Nat]
    BY <1>0, <1>9, SpendType DEF HaDataChanges
  <2>2. due' \in [Unit -> SUBSET Event]
    BY <1>9, EventTypes DEF HaDataChanges, TypeOK
  <2> QED BY <1>9, <2>1, <2>2 DEF HaDataChanges, TypeOK
<1>10. ASSUME NEW n \in Unit, DeleteNodeFromRing(u, n) PROVE TypeOK'
  <2>1. WithoutNodes(u, {n}) \in [Unit -> SUBSET Unit] /\ nodes \in [Unit -> SUBSET Unit]
    BY WithoutNodesType DEF TypeOK
  <2>2. ring' \in [Unit -> SUBSET Unit]
    BY <1>10, TriggerType DEF DeleteNodeFromRing
  <2>3. nodes' \in [Unit -> SUBSET Unit]
    <3>1. Merged(ring', WithoutNodes(u, {n})) \in [Unit -> SUBSET Unit]
      BY <2>1, <2>2, MergedType
    <3>2. Merged(ring', nodes) \in [Unit -> SUBSET Unit]
      BY <2>1, <2>2, MergedType
    <3> QED BY <1>10, <3>1, <3>2 DEF DeleteNodeFromRing
  <2>4. request' \in 0..MaxRequest
    BY <1>10, TriggerType, MaxRequestAssumption DEF DeleteNodeFromRing
  <2> QED BY <1>10, <2>3, <2>4, TriggerType DEF DeleteNodeFromRing, TypeOK, Bag
<1> QED BY <1>1, <1>2, <1>3, <1>4, <1>5, <1>6, <1>7, <1>8, <1>9, <1>10 DEF Operate

LEMMA TypeStep == TypeOK /\ [Next]_vars => TypeOK'
<1> SUFFICES ASSUME TypeOK, [Next]_vars PROVE TypeOK'
  OBVIOUS
<1>1. ASSUME NEW u \in Unit, ServicesStart(u) PROVE TypeOK'
  <2>1. ring' \in [Unit -> SUBSET Unit]
    BY <1>1 DEF ServicesStart, Started, TypeOK
  <2>2. nodes' \in [Unit -> SUBSET Unit]
    BY <1>1, <2>1, MergedType DEF ServicesStart, Started, TypeOK
  <2> QED BY <1>1, <2>1, <2>2 DEF ServicesStart, TypeOK, environment
<1>2. ASSUME NEW m \in BOOLEAN, SetConfig(m) PROVE TypeOK'
  <2>1. budget' \in [Disturbances -> Nat]
    BY <1>2, SpendType DEF SetConfig, Disturbances
  <2>2. due' \in [Unit -> SUBSET Event]
    BY <1>2, EventTypes DEF SetConfig, TypeOK
  <2> QED BY <1>2, <2>1, <2>2 DEF SetConfig, TypeOK
<1>3. CASE UNCHANGED vars
  BY <1>3 DEF vars, TypeOK
<1> QED BY <1>1, <1>2, <1>3, TypeHookStep, TypeFault, TypeOperate DEF Next

\* The state keeps its types, for every number of units and every bound.
THEOREM TypeCorrect == Spec => []TypeOK
  BY TypeInit, TypeStep, PTL DEF Spec

-----------------------------------------------------------------------------
(* Members are enough.                                                     *)

\* A larger set of units is enough when a smaller one is.
LEMMA LargerIsEnough ==
    ASSUME NEW S, NEW T \in SUBSET Unit, S \subseteq T,
           Cardinality(S) >= ClusterCount
    PROVE  Cardinality(T) >= ClusterCount
<1>1. IsFiniteSet(T) /\ Cardinality(T) \in Nat
  BY UnitAssumption, FS_Subset, FS_CardinalityType
<1>2. Cardinality(S) <= Cardinality(T) /\ Cardinality(S) \in Nat
  BY <1>1, FS_Subset, FS_CardinalityType
<1> QED BY <1>1, <1>2, ClusterCountAssumption

\* How the flags of a unit can change in a step, and what hooks get going.
ReadyStays == \A v \in Unit : bag[v].ready => bag'[v].ready
NoNewMember == \A v \in Unit : bag'[v].member_ready => bag[v].member_ready
Counting(v) == at[v] \in {"restart", "finish"} /\ event[v].kind # "config"
NoNewCount == \A v \in Unit : Counting(v)' => Counting(v)

LEMMA EnoughKept ==
    ASSUME EnoughInv, ReadyStays, NoNewMember, NoNewCount
    PROVE  EnoughInv'
<1>1. ReadyUnits \subseteq ReadyUnits' /\ ReadyUnits' \in SUBSET Unit
  BY DEF ReadyUnits, ReadyStays
<1>2. MembersAreEnough'
  BY <1>1, LargerIsEnough DEF EnoughInv, MembersAreEnough, NoNewMember
<1>3. ASSUME NEW u \in Unit, Counting(u)'
      PROVE  Cardinality(ReadyUnits' \cup {u}) >= ClusterCount
  <2>1. Cardinality(ReadyUnits \cup {u}) >= ClusterCount
    BY <1>3 DEF EnoughInv, HooksAreEnough, NoNewCount, Counting
  <2>2. ReadyUnits \cup {u} \subseteq ReadyUnits' \cup {u}
    BY <1>1
  <2> QED BY <1>1, <2>1, <2>2, LargerIsEnough
<1> QED BY <1>2, <1>3 DEF EnoughInv, HooksAreEnough, Counting

LEMMA BagFlags ==
    ASSUME NEW b \in Bag
    PROVE  /\ [b EXCEPT !.ready = TRUE].ready = TRUE
           /\ [b EXCEPT !.ready = TRUE].member_ready = b.member_ready
           /\ [b EXCEPT !.ready = TRUE, !.member_ready = TRUE].ready = TRUE
           /\ \A n : /\ [b EXCEPT !.trigger = n].ready = b.ready
                    /\ [b EXCEPT !.trigger = n].member_ready = b.member_ready
  BY DEF Bag

\* Publishing readiness, or a request, takes no flag back and adds no member.
LEMMA PublishKeeps ==
    ASSUME TypeOK, NEW u \in Unit, NEW b, NEW owed, Publish(u, b, owed),
           \/ b = [bag[u] EXCEPT !.ready = TRUE]
           \/ \E n : b = [bag[u] EXCEPT !.trigger = n]
    PROVE  ReadyStays /\ NoNewMember
<1>1. bag[u] \in Bag
  BY DEF TypeOK, Bag
<1>2. (bag[u].ready => b.ready) /\ (b.member_ready => bag[u].member_ready)
  BY <1>1, BagFlags
<1>3. bag' = [bag EXCEPT ![u] = b]
  BY DEF Publish
<1> QED BY <1>2, <1>3 DEF ReadyStays, NoNewMember, TypeOK

LEMMA EnoughInit == Init => EnoughInv
<1> SUFFICES ASSUME NEW s \in Starts, InitFrom(s.formed) PROVE EnoughInv
  BY DEF Init
<1>1. ASSUME NEW u \in Unit, bag[u].member_ready
      PROVE  Cardinality(ReadyUnits) >= ClusterCount
  <2>1. u \in s.formed
    BY <1>1 DEF InitFrom
  <2>2. Cardinality(s.formed) >= ClusterCount
    BY <2>1, StartsAssumption
  <2>3. s.formed \subseteq ReadyUnits /\ ReadyUnits \in SUBSET Unit
    BY StartsAssumption DEF InitFrom, ReadyUnits
  <2> QED BY <2>2, <2>3, LargerIsEnough
<1> QED BY <1>1 DEF InitFrom, EnoughInv, MembersAreEnough, HooksAreEnough

\* The two actions that matter: one passes the threshold, one announces it.
LEMMA EnoughConfigure ==
    ASSUME TypeOK, EnoughInv, NEW u \in Unit, NEW e \in Event,
           ConfigureCorosync(u, e)
    PROVE  EnoughInv'
<1>1. ReadyUnits' = ReadyUnits /\ ReadyUnits \in SUBSET Unit
  BY DEF ConfigureCorosync, ReadyUnits
<1>2. MembersAreEnough'
  BY <1>1 DEF ConfigureCorosync, EnoughInv, MembersAreEnough
<1>3. Cardinality(ReadyUnits \cup {u}) >= ClusterCount
  <2>1. ClusterNodes(u) \subseteq ReadyUnits \cup {u}
    BY DEF ClusterNodes, ReadyUnits, TypeOK
  <2>2. Cardinality(ClusterNodes(u)) >= ClusterCount
    BY DEF ConfigureCorosync, EnoughNodes
  <2> QED BY <1>1, <2>1, <2>2, LargerIsEnough
<1>4. ASSUME NEW v \in Unit, Counting(v)'
      PROVE  Cardinality(ReadyUnits' \cup {v}) >= ClusterCount
  <2>1. CASE v = u
    BY <1>1, <1>3, <2>1
  <2>2. CASE v # u
    <3>1. Counting(v)
      BY <1>4, <2>2 DEF ConfigureCorosync, WriteConf, Counting, TypeOK
    <3> QED BY <1>1, <3>1 DEF EnoughInv, HooksAreEnough, Counting
  <2> QED BY <2>1, <2>2
<1> QED BY <1>2, <1>4 DEF EnoughInv, HooksAreEnough, Counting

LEMMA EnoughFinish ==
    ASSUME TypeOK, EnoughInv, NEW u \in Unit, FinishHook(u)
    PROVE  EnoughInv'
<1>1. NoNewCount
  BY DEF FinishHook, NoNewCount, Counting, TypeOK
<1>2. CASE event[u].kind = "config"
  BY <1>1, <1>2, EnoughKept DEF FinishHook, ReadyStays, NoNewMember
<1>3. CASE event[u].kind # "config"
  <2> DEFINE b == [bag[u] EXCEPT !.ready = TRUE, !.member_ready = TRUE]
  <2>1. bag[u] \in Bag
    BY DEF TypeOK, Bag
  <2>2. b.ready = TRUE
    BY <2>1, BagFlags
  <2>3. bag' = [bag EXCEPT ![u] = b]
    BY <1>3 DEF FinishHook, Publish
  <2> HIDE DEF b
  <2>4. ReadyUnits \cup {u} \subseteq ReadyUnits' /\ ReadyUnits' \in SUBSET Unit
    BY <2>2, <2>3 DEF ReadyUnits, TypeOK
  <2>5. Cardinality(ReadyUnits \cup {u}) >= ClusterCount
    BY <1>3 DEF FinishHook, EnoughInv, HooksAreEnough
  <2>6. Cardinality(ReadyUnits') >= ClusterCount
    BY <2>4, <2>5, LargerIsEnough
  <2>7. ASSUME NEW v \in Unit
        PROVE  Cardinality(ReadyUnits' \cup {v}) >= ClusterCount
    BY <2>4, <2>6, LargerIsEnough
  <2> QED BY <2>6, <2>7 DEF EnoughInv, MembersAreEnough, HooksAreEnough
<1> QED BY <1>2, <1>3

LEMMA EnoughHookStep ==
    ASSUME TypeOK, EnoughInv, NEW u \in Unit, HookStep(u)
    PROVE  EnoughInv'
<1>1. ASSUME NEW e \in Event, TakeUpdateRequest(u, e) PROVE EnoughInv'
  BY <1>1, EnoughKept
  DEF TakeUpdateRequest, ReadyStays, NoNewMember, NoNewCount, Counting, TypeOK
<1>2. ASSUME NEW e \in Event, DeferConfiguration(u, e) PROVE EnoughInv'
  <2>1. ReadyStays /\ NoNewMember
    BY <1>2, PublishKeeps DEF DeferConfiguration, HookLeaves
  <2>2. NoNewCount
    BY <1>2 DEF DeferConfiguration, NoNewCount, Counting, TypeOK
  <2> QED BY <2>1, <2>2, EnoughKept
<1>3. ASSUME NEW e \in Event, ConfigureCorosync(u, e) PROVE EnoughInv'
  BY <1>3, EnoughConfigure
<1>4. CASE ConfigChanged(u)
  <2>1. \A v \in Unit \ {u} : at'[v] = at[v] /\ event'[v] = event[v]
    BY <1>4 DEF ConfigChanged, WriteConf, TypeOK
  <2>2. event'[u].kind = "config"
    BY <1>4 DEF ConfigChanged, ConfigEvent, TypeOK
  <2>3. NoNewCount
    BY <2>1, <2>2 DEF NoNewCount, Counting
  <2> QED BY <1>4, <2>3, EnoughKept DEF ConfigChanged, ReadyStays, NoNewMember
<1>5. CASE ReloadRing(u)
  <2>1. ReadyStays /\ NoNewMember
    BY <1>5, PublishKeeps DEF ReloadRing, HookLeaves
  <2>2. NoNewCount
    BY <1>5 DEF ReloadRing, NoNewCount, Counting, TypeOK
  <2> QED BY <2>1, <2>2, EnoughKept
<1>6. CASE RestartCorosync(u)
  BY <1>6, EnoughKept
  DEF RestartCorosync, ReadyStays, NoNewMember, NoNewCount, Counting, TypeOK
<1>7. CASE PacemakerDown(u)
  BY <1>7, EnoughKept
  DEF PacemakerDown, ReadyStays, NoNewMember, NoNewCount, Counting, TypeOK
<1>8. CASE FinishHook(u)
  BY <1>8, EnoughFinish
<1>9. ASSUME NEW v \in Unit, HanodeJoined(u, v) \/ HanodeDeparted(u, v)
      PROVE  EnoughInv'
  BY <1>9, EnoughKept
  DEF HanodeJoined, HanodeDeparted, ReadyStays, NoNewMember, NoNewCount, Counting
<1> QED BY <1>1, <1>2, <1>3, <1>4, <1>5, <1>6, <1>7, <1>8, <1>9
        DEF HookStep, HaRelationChanged

LEMMA EnoughFault ==
    ASSUME TypeOK, EnoughInv, NEW u \in Unit, Fault(u)
    PROVE  EnoughInv'
<1>1. ReadyStays /\ NoNewMember
  BY DEF Fault, RestartFails, HookFails, UnitLost, Leave, UpdateRingFails,
         ReadyStays, NoNewMember
<1>2. NoNewCount
  BY DEF Fault, RestartFails, HookFails, UnitLost, Leave, UpdateRingFails,
         NoNewCount, Counting, TypeOK
<1> QED BY <1>1, <1>2, EnoughKept

LEMMA EnoughOperate ==
    ASSUME TypeOK, EnoughInv, NEW u \in Unit, Operate(u)
    PROVE  EnoughInv'
<1>1. CASE Install(u) \/ UpgradeCharm(u) \/ PauseUnit(u) \/ ResumeUnit(u)
  BY <1>1, EnoughKept
  DEF Install, UpgradeCharm, PauseUnit, ResumeUnit,
      ReadyStays, NoNewMember, NoNewCount, Counting
<1>2. CASE UnitRemoved(u) \/ Stop(u) \/ LeaderElected(u) \/ HaDataChanges(u)
  BY <1>2, EnoughKept
  DEF UnitRemoved, Leave, Stop, LeaderElected, HaDataChanges,
      ReadyStays, NoNewMember, NoNewCount, Counting, TypeOK
<1>3. ASSUME TriggerCorosyncUpdate(u), UNCHANGED <<at, event>> PROVE EnoughInv'
  <2>1. ReadyStays /\ NoNewMember
    BY <1>3, PublishKeeps DEF TriggerCorosyncUpdate
  <2>2. NoNewCount
    BY <1>3 DEF NoNewCount, Counting
  <2> QED BY <2>1, <2>2, EnoughKept
<1>4. CASE UpdateRing(u) \/ \E n \in Unit : DeleteNodeFromRing(u, n)
  BY <1>3, <1>4 DEF UpdateRing, DeleteNodeFromRing
<1> QED BY <1>1, <1>2, <1>4 DEF Operate

LEMMA EnoughStep == TypeOK /\ EnoughInv /\ [Next]_vars => EnoughInv'
<1> SUFFICES ASSUME TypeOK, EnoughInv, [Next]_vars PROVE EnoughInv'
  OBVIOUS
<1>1. ASSUME NEW u \in Unit, ServicesStart(u) PROVE EnoughInv'
  BY <1>1, EnoughKept
  DEF ServicesStart, ReadyStays, NoNewMember, NoNewCount, Counting
<1>2. ASSUME NEW m \in BOOLEAN, SetConfig(m) PROVE EnoughInv'
  BY <1>2, EnoughKept DEF SetConfig, ReadyStays, NoNewMember, NoNewCount, Counting
<1>3. CASE UNCHANGED vars
  BY <1>3, EnoughKept DEF vars, ReadyStays, NoNewMember, NoNewCount, Counting
<1> QED BY <1>1, <1>2, <1>3, EnoughHookStep, EnoughFault, EnoughOperate DEF Next

\* A unit calls itself a member only when cluster_count units have said they
\* are ready, whatever fails, restarts, joins or leaves in between.
THEOREM MembersCorrect == Spec => []MembersAreEnough
<1>1. Init => TypeOK /\ EnoughInv
  BY TypeInit, EnoughInit
<1>2. TypeOK /\ EnoughInv /\ [Next]_vars => TypeOK' /\ EnoughInv'
  BY TypeStep, EnoughStep
<1>3. EnoughInv => MembersAreEnough
  BY DEF EnoughInv
<1> QED BY <1>1, <1>2, <1>3, PTL DEF Spec

-----------------------------------------------------------------------------
(* Ring implements Formation.                                              *)

FormationStep == [F!Next]_<<ReadyUnits, MemberUnits>>

\* Publishing readiness or a request is a step of Formation, or none.
LEMMA FormationPublish ==
    ASSUME TypeOK, NEW u \in Unit, NEW b, NEW owed, Publish(u, b, owed),
           \/ b = [bag[u] EXCEPT !.ready = TRUE]
           \/ \E n : b = [bag[u] EXCEPT !.trigger = n]
    PROVE  FormationStep
<1>1. bag[u] \in Bag
  BY DEF TypeOK, Bag
<1>2. (b.ready = TRUE \/ b.ready = bag[u].ready) /\ b.member_ready = bag[u].member_ready
  <2>1. CASE b = [bag[u] EXCEPT !.ready = TRUE]
    BY <1>1, <2>1, BagFlags
  <2>2. ASSUME NEW n, b = [bag[u] EXCEPT !.trigger = n]
        PROVE  b.ready = bag[u].ready /\ b.member_ready = bag[u].member_ready
    BY <1>1, <2>2, BagFlags
  <2> QED BY <2>1, <2>2
<1>3. bag' = [bag EXCEPT ![u] = b]
  BY DEF Publish
<1>4. MemberUnits' = MemberUnits
  BY <1>2, <1>3 DEF MemberUnits, TypeOK
<1>5. ReadyUnits' = ReadyUnits \cup {u} \/ ReadyUnits' = ReadyUnits
  BY <1>2, <1>3 DEF TypeOK, ReadyUnits
<1> QED BY <1>4, <1>5 DEF FormationStep, F!Next, F!BecomeReady

LEMMA FormationStutter ==
    ASSUME UNCHANGED bag PROVE FormationStep
  BY DEF FormationStep, ReadyUnits, MemberUnits

\* The end of a hook behind the threshold makes its unit a member.
LEMMA FormationFinish ==
    ASSUME TypeOK, EnoughInv, NEW u \in Unit, FinishHook(u)
    PROVE  FormationStep
<1>1. CASE event[u].kind = "config"
  BY <1>1, FormationStutter DEF FinishHook
<1>2. CASE event[u].kind # "config"
  <2> DEFINE b == [bag[u] EXCEPT !.ready = TRUE, !.member_ready = TRUE]
  <2>1. b.ready = TRUE /\ b.member_ready = TRUE
    BY DEF TypeOK
  <2>2. bag' = [bag EXCEPT ![u] = b]
    BY <1>2 DEF FinishHook, Publish
  <2> HIDE DEF b
  <2>3. ReadyUnits' = ReadyUnits \cup {u}
    BY <2>1, <2>2 DEF ReadyUnits, TypeOK
  <2>4. MemberUnits' = MemberUnits \cup {u}
    BY <2>1, <2>2 DEF MemberUnits, TypeOK
  <2>5. Cardinality(ReadyUnits \cup {u}) >= ClusterCount
    BY <1>2 DEF FinishHook, EnoughInv, HooksAreEnough
  <2>6. ReadyUnits \cup {u} \subseteq Unit
    BY DEF ReadyUnits
  <2> QED BY <2>6, <2>3, <2>4, <2>5 DEF FormationStep, F!Next, F!BecomeMember
<1> QED BY <1>1, <1>2

LEMMA FormationHookStep ==
    ASSUME TypeOK, EnoughInv, NEW u \in Unit, HookStep(u)
    PROVE  FormationStep
<1>1. ASSUME NEW e \in Event, TakeUpdateRequest(u, e) \/ ConfigureCorosync(u, e)
      PROVE  FormationStep
  BY <1>1, FormationStutter DEF TakeUpdateRequest, ConfigureCorosync
<1>2. ASSUME NEW e \in Event, DeferConfiguration(u, e) PROVE FormationStep
  BY <1>2, FormationPublish DEF DeferConfiguration, HookLeaves
<1>3. CASE ReloadRing(u)
  BY <1>3, FormationPublish DEF ReloadRing, HookLeaves
<1>4. CASE ConfigChanged(u) \/ RestartCorosync(u) \/ PacemakerDown(u)
  BY <1>4, FormationStutter DEF ConfigChanged, RestartCorosync, PacemakerDown
<1>5. CASE FinishHook(u)
  BY <1>5, FormationFinish
<1>6. ASSUME NEW v \in Unit, HanodeJoined(u, v) \/ HanodeDeparted(u, v)
      PROVE  FormationStep
  BY <1>6, FormationStutter DEF HanodeJoined, HanodeDeparted
<1> QED BY <1>1, <1>2, <1>3, <1>4, <1>5, <1>6 DEF HookStep, HaRelationChanged

LEMMA FormationOperate ==
    ASSUME TypeOK, NEW u \in Unit, Operate(u)
    PROVE  FormationStep
<1>1. CASE Install(u) \/ UpgradeCharm(u) \/ PauseUnit(u) \/ ResumeUnit(u)
  BY <1>1, FormationStutter DEF Install, UpgradeCharm, PauseUnit, ResumeUnit
<1>2. CASE UnitRemoved(u) \/ Stop(u) \/ LeaderElected(u) \/ HaDataChanges(u)
  BY <1>2, FormationStutter DEF UnitRemoved, Leave, Stop, LeaderElected, HaDataChanges
<1>3. CASE UpdateRing(u) \/ \E n \in Unit : DeleteNodeFromRing(u, n)
  <2>1. TriggerCorosyncUpdate(u)
    BY <1>3 DEF UpdateRing, DeleteNodeFromRing
  <2> QED BY <2>1, FormationPublish DEF TriggerCorosyncUpdate
<1> QED BY <1>1, <1>2, <1>3 DEF Operate

LEMMA FormationNext == TypeOK /\ EnoughInv /\ [Next]_vars => FormationStep
<1> SUFFICES ASSUME TypeOK, EnoughInv, [Next]_vars PROVE FormationStep
  OBVIOUS
<1>1. ASSUME NEW u \in Unit, Fault(u) PROVE FormationStep
  BY <1>1, FormationStutter
  DEF Fault, RestartFails, HookFails, UnitLost, Leave, UpdateRingFails
<1>2. ASSUME NEW u \in Unit, ServicesStart(u) PROVE FormationStep
  BY <1>2, FormationStutter DEF ServicesStart
<1>3. ASSUME NEW m \in BOOLEAN, SetConfig(m) PROVE FormationStep
  BY <1>3, FormationStutter DEF SetConfig
<1>4. CASE UNCHANGED vars
  BY <1>4, FormationStutter DEF vars
<1> QED BY <1>1, <1>2, <1>3, <1>4, FormationHookStep, FormationOperate DEF Next

LEMMA FormationInit == Init => F!Init
<1> SUFFICES ASSUME NEW s \in Starts, InitFrom(s.formed) PROVE F!Init
  BY DEF Init
<1>1. /\ \A v \in Unit : bag[v].ready = (v \in s.formed)
      /\ \A v \in Unit : bag[v].member_ready = (v \in s.formed)
  BY DEF InitFrom
<1>2. ReadyUnits = s.formed /\ MemberUnits = s.formed
  BY <1>1, StartsAssumption DEF ReadyUnits, MemberUnits
<1> QED BY <1>2 DEF F!Init

\* The hooks implement the abstract exchange of flags: whatever fails, restarts,
\* joins, leaves or is asked of the leader in between, units announce themselves
\* as Formation lets them, and nothing else touches a flag.
THEOREM FormationCorrect == Spec => FormationSpec
<1>1. Init => TypeOK /\ EnoughInv /\ F!Init
  BY TypeInit, EnoughInit, FormationInit
<1>2. TypeOK /\ EnoughInv /\ [Next]_vars => TypeOK' /\ EnoughInv' /\ FormationStep
  BY TypeStep, EnoughStep, FormationNext
<1> QED BY <1>1, <1>2, PTL DEF Spec, FormationSpec, F!Spec, FormationStep

-----------------------------------------------------------------------------
(* No strangers.                                                           *)

\* How files, rings, views and departures change in a step: a file is kept or
\* rewritten from the new view, a ring is kept, loaded from the new file or
\* gone, and a peer leaves a view only when it has departed.
ViewsLoseDeparted ==
    \A v \in Unit : view[v] \subseteq view'[v] \cup Departed'
ConfsFromViews ==
    \A v \in Unit : conf'[v] \subseteq conf[v] \cup view'[v] \cup {v}
RingsFromConfs ==
    \A v \in Unit : ring'[v] \subseteq ring[v] \cup conf'[v]

LEMMA NoStrangersKept ==
    ASSUME NoStrangers, Departed \subseteq Departed',
           ViewsLoseDeparted, ConfsFromViews, RingsFromConfs
    PROVE  NoStrangers'
<1> SUFFICES ASSUME NEW v \in Unit
             PROVE  conf'[v] \cup ring'[v] \subseteq view'[v] \cup {v} \cup Departed'
  BY DEF NoStrangers
<1>1. conf[v] \cup ring[v] \subseteq view'[v] \cup {v} \cup Departed'
  BY DEF NoStrangers, ViewsLoseDeparted
<1>2. conf'[v] \subseteq view'[v] \cup {v} \cup Departed'
  BY <1>1 DEF ConfsFromViews
<1> QED BY <1>1, <1>2 DEF RingsFromConfs

\* A step of u that at most rewrites the file of u from its view.
LEMMA WriteKeepsStrangersOut ==
    ASSUME TypeOK, NoStrangers, NEW u \in Unit,
           UNCHANGED <<status, view>>, RingsFromConfs,
           \/ UNCHANGED conf
           \/ conf' = [conf EXCEPT ![u] = HaNodes(u)]
    PROVE  NoStrangers'
<1>1. Departed \subseteq Departed'
  BY DEF Departed
<1>2. ViewsLoseDeparted
  BY DEF ViewsLoseDeparted
<1>3. ConfsFromViews
  <2>1. CASE UNCHANGED conf
    BY <2>1 DEF ConfsFromViews
  <2>2. CASE conf' = [conf EXCEPT ![u] = HaNodes(u)]
    BY <2>2 DEF ConfsFromViews, HaNodes, TypeOK
  <2> QED BY <2>1, <2>2
<1> QED BY <1>1, <1>2, <1>3, NoStrangersKept

LEMMA StrangersHookStep ==
    ASSUME TypeOK, NoStrangers, NEW u \in Unit, HookStep(u)
    PROVE  NoStrangers'
<1>1. CASE HaRelationChanged(u)
  <2>1. PICK e \in Event : \/ TakeUpdateRequest(u, e)
                          \/ DeferConfiguration(u, e)
                          \/ ConfigureCorosync(u, e)
    BY <1>1 DEF HaRelationChanged
  <2>2. UNCHANGED <<status, view, ring>>
    BY <2>1 DEF TakeUpdateRequest, DeferConfiguration, ConfigureCorosync, environment
  <2>3. UNCHANGED conf \/ conf' = [conf EXCEPT ![u] = HaNodes(u)]
    BY <2>1 DEF TakeUpdateRequest, DeferConfiguration, ConfigureCorosync, WriteConf
  <2>4. RingsFromConfs
    BY <2>2 DEF RingsFromConfs
  <2> QED BY <2>2, <2>3, <2>4, WriteKeepsStrangersOut
<1>2. CASE ConfigChanged(u)
  <2>1. UNCHANGED <<status, view, ring>>
    BY <1>2 DEF ConfigChanged, environment
  <2>2. UNCHANGED conf \/ conf' = [conf EXCEPT ![u] = HaNodes(u)]
    BY <1>2 DEF ConfigChanged, WriteConf
  <2>3. RingsFromConfs
    BY <2>1 DEF RingsFromConfs
  <2> QED BY <2>1, <2>2, <2>3, WriteKeepsStrangersOut
<1>3. CASE ReloadRing(u)
  <2>1. UNCHANGED <<status, view>> /\ conf' = [conf EXCEPT ![u] = HaNodes(u)]
    BY <1>3 DEF ReloadRing
  <2>2. RingsFromConfs
    BY <1>3 DEF ReloadRing, Reloaded, RingsFromConfs
  <2> QED BY <2>1, <2>2, WriteKeepsStrangersOut
<1>4. CASE RestartCorosync(u) \/ PacemakerDown(u) \/ FinishHook(u)
  <2>1. UNCHANGED <<status, view, conf>>
    BY <1>4 DEF RestartCorosync, PacemakerDown, FinishHook, environment
  <2>2. UNCHANGED ring \/ ring' = [ring EXCEPT ![u] = conf[u]]
    BY <1>4 DEF RestartCorosync, PacemakerDown, FinishHook, Started
  <2>3. RingsFromConfs
    <3>1. CASE UNCHANGED ring
      BY <3>1 DEF RingsFromConfs
    <3>2. CASE ring' = [ring EXCEPT ![u] = conf[u]]
      BY <2>1, <3>2 DEF RingsFromConfs, TypeOK
    <3> QED BY <2>2, <3>1, <3>2
  <2> QED BY <2>1, <2>3, WriteKeepsStrangersOut
<1>5. ASSUME NEW v \in Unit, HanodeJoined(u, v) PROVE NoStrangers'
  BY <1>5, NoStrangersKept
  DEF HanodeJoined, TypeOK, Departed, ViewsLoseDeparted, ConfsFromViews, RingsFromConfs
<1>6. ASSUME NEW v \in Unit, HanodeDeparted(u, v) PROVE NoStrangers'
  <2>1. UNCHANGED <<status, ring>> /\ view' = [view EXCEPT ![u] = @ \ {v}]
    BY <1>6 DEF HanodeDeparted
  <2>2. v \in Departed /\ Departed' = Departed
    BY <1>6, <2>1 DEF HanodeDeparted, Departed
  <2>3. UNCHANGED conf \/ conf' = [conf EXCEPT ![u] = view'[u] \cup {u}]
    BY <1>6 DEF HanodeDeparted
  <2>4. ViewsLoseDeparted
    BY <2>1, <2>2 DEF TypeOK, ViewsLoseDeparted
  <2>5. ConfsFromViews
    <3>1. CASE UNCHANGED conf
      BY <3>1 DEF ConfsFromViews
    <3>2. CASE conf' = [conf EXCEPT ![u] = view'[u] \cup {u}]
      BY <3>2 DEF ConfsFromViews, TypeOK
    <3> QED BY <2>3, <3>1, <3>2
  <2>6. RingsFromConfs /\ Departed \subseteq Departed'
    BY <2>1, <2>2 DEF RingsFromConfs
  <2> QED BY <2>4, <2>5, <2>6, NoStrangersKept
<1> QED BY <1>1, <1>2, <1>3, <1>4, <1>5, <1>6 DEF HookStep

LEMMA StrangersFault ==
    ASSUME TypeOK, NoStrangers, NEW u \in Unit, Fault(u)
    PROVE  NoStrangers'
<1>1. UNCHANGED <<view, conf>>
  BY DEF Fault, RestartFails, HookFails, UnitLost, Leave, UpdateRingFails
<1>2. UNCHANGED ring \/ ring' = [ring EXCEPT ![u] = {}]
  BY DEF Fault, RestartFails, HookFails, UnitLost, UpdateRingFails
<1>3. UNCHANGED status \/ status' = [status EXCEPT ![u] = "gone"]
  BY DEF Fault, RestartFails, HookFails, UnitLost, Leave, UpdateRingFails
<1>4. Departed \subseteq Departed'
  BY <1>3 DEF TypeOK, Departed
<1> QED BY <1>1, <1>2, <1>4, NoStrangersKept
        DEF TypeOK, ViewsLoseDeparted, ConfsFromViews, RingsFromConfs

LEMMA StrangersOperate ==
    ASSUME TypeOK, NoStrangers, NEW u \in Unit, Operate(u)
    PROVE  NoStrangers'
<1>1. CASE Install(u)
  <2>1. Departed \subseteq Departed'
    BY <1>1 DEF Install, TypeOK, Departed
  <2>2. ConfsFromViews /\ RingsFromConfs
    BY <1>1 DEF Install, TypeOK, HaNodes, ConfsFromViews, RingsFromConfs
  <2> QED BY <1>1, <2>1, <2>2, NoStrangersKept DEF Install, ViewsLoseDeparted
<1>2. CASE UpgradeCharm(u)
  BY <1>2, NoStrangersKept
  DEF UpgradeCharm, TypeOK, HaNodes, Departed,
      ViewsLoseDeparted, ConfsFromViews, RingsFromConfs
<1>3. CASE PauseUnit(u) \/ ResumeUnit(u) \/ LeaderElected(u) \/ HaDataChanges(u)
  BY <1>3, NoStrangersKept
  DEF PauseUnit, ResumeUnit, LeaderElected, HaDataChanges, Departed,
      ViewsLoseDeparted, ConfsFromViews, RingsFromConfs
<1>4. CASE UnitRemoved(u) \/ Stop(u)
  <2>1. UNCHANGED <<view, conf>>
    BY <1>4 DEF UnitRemoved, Leave, Stop
  <2>2. UNCHANGED ring \/ ring' = [ring EXCEPT ![u] = {}]
    BY <1>4 DEF UnitRemoved, Stop
  <2>3. \E to \in {"leaving", "gone"} : status' = [status EXCEPT ![u] = to]
    BY <1>4 DEF UnitRemoved, Leave, Stop
  <2>4. Departed \subseteq Departed'
    BY <2>3 DEF TypeOK, Departed
  <2> QED BY <2>1, <2>2, <2>4, NoStrangersKept
          DEF TypeOK, ViewsLoseDeparted, ConfsFromViews, RingsFromConfs
<1>5. CASE UpdateRing(u) \/ \E n \in Unit : DeleteNodeFromRing(u, n)
  <2>1. UNCHANGED <<status, view>> /\ TriggerCorosyncUpdate(u)
    BY <1>5 DEF UpdateRing, DeleteNodeFromRing
  <2>2. ConfsFromViews
    BY <2>1 DEF TriggerCorosyncUpdate, HaNodes, TypeOK, ConfsFromViews
  <2>3. RingsFromConfs
    BY <2>1 DEF TriggerCorosyncUpdate, Reloaded, RingsFromConfs
  <2> QED BY <2>1, <2>2, <2>3, NoStrangersKept DEF Departed, ViewsLoseDeparted
<1> QED BY <1>1, <1>2, <1>3, <1>4, <1>5 DEF Operate

\* A unit's corosync never runs with a node, nor its file names one, that the
\* unit does not know and that has not departed either.
THEOREM StrangersCorrect == Spec => []NoStrangers
<1>1. Init => NoStrangers
  <2> SUFFICES ASSUME NEW s \in Starts, InitFrom(s.formed) PROVE NoStrangers
    BY DEF Init
  <2> QED BY DEF InitFrom, NoStrangers
<1>2. TypeOK /\ NoStrangers /\ [Next]_vars => NoStrangers'
  <2> SUFFICES ASSUME TypeOK, NoStrangers, [Next]_vars PROVE NoStrangers'
    OBVIOUS
  <2>1. ASSUME NEW u \in Unit, ServicesStart(u) PROVE NoStrangers'
    BY <2>1, NoStrangersKept
    DEF ServicesStart, Started, environment, TypeOK, Departed,
        ViewsLoseDeparted, ConfsFromViews, RingsFromConfs
  <2>2. ASSUME NEW m \in BOOLEAN, SetConfig(m) PROVE NoStrangers'
    BY <2>2, NoStrangersKept
    DEF SetConfig, Departed, ViewsLoseDeparted, ConfsFromViews, RingsFromConfs
  <2>3. CASE UNCHANGED vars
    BY <2>3, NoStrangersKept
    DEF vars, Departed, ViewsLoseDeparted, ConfsFromViews, RingsFromConfs
  <2> QED BY <2>1, <2>2, <2>3, StrangersHookStep, StrangersFault, StrangersOperate
          DEF Next
<1> QED BY <1>1, <1>2, TypeCorrect, PTL DEF Spec

-----------------------------------------------------------------------------
(* Update requests are handled once: as long as a leader only stops leading *)
(* by leaving, requests reach a unit in the order of their ids.             *)

LeadershipStays == \A s \in Starts : s.budget["leader"] = 0

\* The id a unit has noted is the largest it has acted on.
HandledInOrder ==
    \A u \in Unit : /\ kv[u] \in handled[u] \cup {0}
                    /\ kv[u] <= request
                    /\ \A id \in handled[u] : id <= kv[u]

\* Of the units that are there only the leader shows a request, the last one.
OnlyLeaderAsks ==
    \A v \in Unit :
        /\ bag[v].trigger <= request
        /\ bag[v].trigger # 0 => v \in Departed \/ (v = leader /\ bag[v].trigger = request)

DueFromPeers ==
    \A u \in Unit : \A e \in due[u] : e.kind = "hanode" => e.from \in view[u]

\* The peer a hook is for may have departed while the hook failed again and
\* again; what it asked for is not older than what the unit has noted.
NothingNewerNoted ==
    \A u \in Unit :
        /\ at[u] # "idle" /\ event[u].kind = "hanode"
        /\ bag[event[u].from].trigger # 0
        => kv[u] <= bag[event[u].from].trigger

OnceInv ==
    /\ TypeOK /\ budget["leader"] = 0
    /\ HandledInOrder /\ OnlyLeaderAsks /\ DueFromPeers /\ NothingNewerNoted

\* How hooks, requests, leadership and what is owed change in a step that
\* neither issues nor takes a request.
RequestsStay ==
    UNCHANGED <<kv, handled, request>> /\ \A v \in Unit : bag'[v].trigger = bag[v].trigger
LeadersDepart ==
    Departed \subseteq Departed' /\ (leader' = leader \/ leader \in Departed')
HooksForPeers ==
    \A v \in Unit :
        \/ at'[v] = "idle"
        \/ at[v] # "idle" /\ event'[v] = event[v]
        \/ event'[v].kind # "hanode"
        \/ event'[v].from \notin Departed
OwedByPeers ==
    \A v \in Unit :
        /\ view[v] \subseteq view'[v]
        /\ \A e \in due'[v] : e \in due[v] \/ e.kind # "hanode" \/ e.from \in view'[v]

LEMMA OnceKept ==
    ASSUME OnceInv, TypeOK', budget'["leader"] = 0,
           RequestsStay, LeadersDepart, HooksForPeers, DueFromPeers'
    PROVE  OnceInv'
<1>1. HandledInOrder'
  BY DEF OnceInv, HandledInOrder, RequestsStay
<1>2. OnlyLeaderAsks'
  BY DEF OnceInv, OnlyLeaderAsks, RequestsStay, LeadersDepart
<1>3. NothingNewerNoted'
  <2> SUFFICES ASSUME NEW v \in Unit, at'[v] # "idle", event'[v].kind = "hanode",
                      bag'[event'[v].from].trigger # 0
               PROVE  kv[v] <= bag'[event'[v].from].trigger
    BY DEF NothingNewerNoted, RequestsStay
  <2>1. event'[v].from \in Unit
    BY DEF TypeOK, Event
  <2>2. bag'[event'[v].from].trigger = bag[event'[v].from].trigger
    BY <2>1 DEF RequestsStay
  <2>3. CASE event'[v].from \notin Departed
    <3>1. bag[event'[v].from].trigger = request
      BY <2>1, <2>2, <2>3 DEF OnceInv, OnlyLeaderAsks
    <3> QED BY <2>2, <3>1 DEF OnceInv, HandledInOrder
  <2>4. CASE at[v] # "idle" /\ event'[v] = event[v]
    BY <2>2, <2>4 DEF OnceInv, NothingNewerNoted
  <2> QED BY <2>3, <2>4 DEF HooksForPeers
<1> QED BY <1>1, <1>2, <1>3 DEF OnceInv

LEMMA OwedKept ==
    ASSUME DueFromPeers, OwedByPeers
    PROVE  DueFromPeers'
  BY DEF DueFromPeers, OwedByPeers

LEMMA OnceSpend ==
    ASSUME TypeOK, budget["leader"] = 0,
           UNCHANGED budget \/ \E kind \in Disturbances : Spend(kind)
    PROVE  budget'["leader"] = 0
<1>1. ASSUME NEW kind \in Disturbances, Spend(kind) PROVE budget'["leader"] = 0
  BY <1>1 DEF TypeOK, Spend, Disturbances
<1> QED BY <1>1

LEMMA PublishOwes ==
    ASSUME TypeOK, NEW u \in Unit, NEW b, NEW owed, Publish(u, b, owed), UNCHANGED view,
           \A v \in Unit : owed[v] \subseteq due[v]
    PROVE  OwedByPeers
  BY DEF Publish, OwedByPeers, Changed

\* A hook that starts is for a peer that is still there, or a retry.
LEMMA DispatchedForPeer ==
    ASSUME OnceInv, NEW u \in Unit, NEW e \in Event, Dispatchable(u, e)
    PROVE  \/ e.kind # "hanode"
           \/ at[u] = "failed" /\ e = event[u]
           \/ e.from \notin Departed
  BY DEF Dispatchable, OnceInv, DueFromPeers

\* Whatever is asked for by then is not older than what the unit has noted.
LEMMA TakenIsNewest ==
    ASSUME OnceInv, NEW u \in Unit, NEW e \in Event, TakeUpdateRequest(u, e)
    PROVE  /\ \A id \in handled[u] : id < RequestId(e)
           /\ RequestId(e) <= request /\ kv[u] \in Nat /\ RequestId(e) \in Nat
<1>1. /\ e.kind = "hanode" /\ RequestId(e) # 0 /\ kv[u] # RequestId(e)
      /\ Dispatchable(u, e)
  BY DEF TakeUpdateRequest, UpdateRequested
<1>2. /\ e.from \in Unit /\ RequestId(e) = bag[e.from].trigger
      /\ RequestId(e) \in Nat /\ kv[u] \in Nat /\ request \in Nat
      /\ handled[u] \subseteq Nat
  BY MaxRequestAssumption DEF OnceInv, TypeOK, Event, RequestId
<1>3. kv[u] <= RequestId(e)
  <2>1. CASE e.from \notin Departed
    <3>1. bag[e.from].trigger = request
      BY <1>1, <1>2, <2>1 DEF OnceInv, OnlyLeaderAsks
    <3> QED BY <1>2, <3>1 DEF OnceInv, HandledInOrder
  <2>2. CASE at[u] = "failed" /\ e = event[u]
    <3>1. at[u] # "idle" /\ event[u].kind = "hanode" /\ bag[event[u].from].trigger # 0
      BY <1>1, <1>2, <2>2
    <3>2. kv[u] <= bag[event[u].from].trigger
      BY <3>1 DEF OnceInv, NothingNewerNoted
    <3> QED BY <1>2, <2>2, <3>2
  <2> QED BY <1>1, <2>1, <2>2, DispatchedForPeer
<1>4. kv[u] < RequestId(e)
  BY <1>1, <1>2, <1>3
<1>5. RequestId(e) <= request
  BY <1>2 DEF OnceInv, OnlyLeaderAsks
<1>6. \A id \in handled[u] : id < RequestId(e)
  BY <1>2, <1>4 DEF OnceInv, HandledInOrder
<1> QED BY <1>2, <1>5, <1>6

LEMMA OnceTake ==
    ASSUME OnceInv, NEW u \in Unit, NEW e \in Event, TakeUpdateRequest(u, e), TypeOK'
    PROVE  OnceInv'
<1> DEFINE id == RequestId(e)
<1>1. /\ \A h \in handled[u] : h < id
      /\ id <= request /\ kv[u] \in Nat /\ id \in Nat
  BY TakenIsNewest
<1>2. /\ kv' = [kv EXCEPT ![u] = id]
      /\ handled' = [handled EXCEPT ![u] = @ \cup {id}]
      /\ at' = [at EXCEPT ![u] = "reload"]
      /\ event' = [event EXCEPT ![u] = e]
      /\ due' = [due EXCEPT ![u] = @ \ {e}]
      /\ UNCHANGED <<bag, status, leader, view, request, budget>>
  BY DEF TakeUpdateRequest, Taken, environment
<1>3. HandledInOrder'
  <2>1. \A v \in Unit : v # u => kv'[v] = kv[v] /\ handled'[v] = handled[v]
    BY <1>2 DEF OnceInv, TypeOK
  <2>2. kv'[u] = id /\ handled'[u] = handled[u] \cup {id}
    BY <1>2 DEF OnceInv, TypeOK
  <2>3. \A h \in handled'[u] : h <= id
    BY <1>1, <2>2, MaxRequestAssumption DEF OnceInv, TypeOK
  <2> QED BY <1>1, <1>2, <2>1, <2>2, <2>3 DEF OnceInv, HandledInOrder
<1>4. OnlyLeaderAsks' /\ DueFromPeers'
  BY <1>2 DEF OnceInv, OnlyLeaderAsks, DueFromPeers, Departed, TypeOK
<1>5. NothingNewerNoted'
  <2>1. \A v \in Unit : v # u => at'[v] = at[v] /\ event'[v] = event[v] /\ kv'[v] = kv[v]
    BY <1>2 DEF OnceInv, TypeOK
  <2>2. event'[u] = e /\ kv'[u] = id
    BY <1>2 DEF OnceInv, TypeOK
  <2> QED BY <1>1, <1>2, <2>1, <2>2 DEF OnceInv, NothingNewerNoted, RequestId
<1> QED BY <1>2, <1>3, <1>4, <1>5 DEF OnceInv

LEMMA OnceTrigger ==
    ASSUME OnceInv, NEW u \in Unit, TriggerCorosyncUpdate(u), leader = u, at[u] = "idle", TypeOK',
           UNCHANGED <<status, leader, view, at, event>>, budget'["leader"] = 0
    PROVE  OnceInv'
<1>1. /\ request' = request + 1
      /\ kv' = [kv EXCEPT ![u] = request']
      /\ handled' = [handled EXCEPT ![u] = @ \cup {request'}]
      /\ bag' = [bag EXCEPT ![u] = [@ EXCEPT !.trigger = request']]
  BY DEF TriggerCorosyncUpdate, Publish
<1>2. request \in Nat /\ \A v \in Unit : kv[v] \in Nat /\ handled[v] \subseteq Nat
  BY MaxRequestAssumption DEF OnceInv, TypeOK
<1>3. bag'[u].trigger = request' /\ \A v \in Unit : v # u => bag'[v] = bag[v]
  BY <1>1 DEF OnceInv, TypeOK
<1>4. \A v \in Unit : bag[v].trigger \in Nat /\ bag[v].trigger <= request
  BY MaxRequestAssumption DEF OnceInv, OnlyLeaderAsks, TypeOK
<1>5. HandledInOrder'
  <2>1. \A v \in Unit : v # u => kv'[v] = kv[v] /\ handled'[v] = handled[v]
    BY <1>1 DEF OnceInv, TypeOK
  <2>2. kv'[u] = request' /\ handled'[u] = handled[u] \cup {request'}
    BY <1>1 DEF OnceInv, TypeOK
  <2>3. \A h \in handled[u] : h <= request
    BY <1>2 DEF OnceInv, HandledInOrder
  <2> QED BY <1>1, <1>2, <2>1, <2>2, <2>3 DEF OnceInv, HandledInOrder
<1>6. OnlyLeaderAsks'
  BY <1>1, <1>2, <1>3, <1>4 DEF OnceInv, OnlyLeaderAsks, Departed
<1>7. DueFromPeers'
  <2>1. OwedByPeers
    BY PublishOwes DEF TriggerCorosyncUpdate, OnceInv
  <2> QED BY <2>1, OwedKept DEF OnceInv
<1>8. NothingNewerNoted'
  <2> SUFFICES ASSUME NEW v \in Unit, at[v] # "idle", event[v].kind = "hanode",
                      bag'[event[v].from].trigger # 0
               PROVE  kv'[v] <= bag'[event[v].from].trigger
    BY DEF NothingNewerNoted
  <2>1. v # u /\ kv'[v] = kv[v] /\ event[v].from \in Unit
    BY <1>1 DEF OnceInv, TypeOK, TriggerCorosyncUpdate, Event
  <2>2. CASE event[v].from = u
    BY <1>1, <1>2, <1>3, <2>1, <2>2 DEF OnceInv, HandledInOrder
  <2>3. CASE event[v].from # u
    BY <1>3, <2>1, <2>3 DEF OnceInv, NothingNewerNoted
  <2> QED BY <2>2, <2>3
<1> QED BY <1>5, <1>6, <1>7, <1>8 DEF OnceInv

\* Hooks that publish readiness or membership leave the request in the bag.
LEMMA PublishLeavesRequest ==
    ASSUME TypeOK, NEW u \in Unit, NEW b, NEW owed, Publish(u, b, owed),
           \/ b = HookLeaves(u)
           \/ b = [bag[u] EXCEPT !.ready = TRUE, !.member_ready = TRUE]
    PROVE  \A v \in Unit : bag'[v].trigger = bag[v].trigger
<1>1. bag[u] \in Bag
  BY DEF TypeOK, Bag
<1>2. ASSUME NEW c \in Bag
      PROVE  /\ [c EXCEPT !.ready = TRUE].trigger = c.trigger
             /\ [c EXCEPT !.ready = TRUE, !.member_ready = TRUE].trigger = c.trigger
  BY DEF Bag
<1>3. b.trigger = bag[u].trigger
  BY <1>1, <1>2 DEF HookLeaves
<1> QED BY <1>3 DEF Publish, TypeOK

LEMMA OnceHookStep ==
    ASSUME OnceInv, NEW u \in Unit, HookStep(u), TypeOK'
    PROVE  OnceInv'
<1> USE DEF environment
<1>0. TypeOK /\ DueFromPeers /\ budget["leader"] = 0
  BY DEF OnceInv
<1>1. ASSUME NEW e \in Event, TakeUpdateRequest(u, e) PROVE OnceInv'
  BY <1>1, OnceTake
<1>2. ASSUME NEW e \in Event, DeferConfiguration(u, e) PROVE OnceInv'
  <2>1. RequestsStay
    BY <1>0, <1>2, PublishLeavesRequest DEF DeferConfiguration, RequestsStay
  <2>2. LeadersDepart
    BY <1>2 DEF DeferConfiguration, LeadersDepart, Departed
  <2>3. HooksForPeers
    BY <1>0, <1>2 DEF DeferConfiguration, HooksForPeers, TypeOK
  <2>4. OwedByPeers
    <3>1. Publish(u, HookLeaves(u), Taken(u, e)) /\ UNCHANGED view
      BY <1>2 DEF DeferConfiguration
    <3>2. \A v \in Unit : Taken(u, e)[v] \subseteq due[v]
      BY <1>0 DEF Taken, TypeOK
    <3> QED BY <1>0, <3>1, <3>2, PublishOwes
  <2> QED BY <1>0, <1>2, <2>1, <2>2, <2>3, <2>4, OwedKept, OnceKept DEF DeferConfiguration
<1>3. ASSUME NEW e \in Event, ConfigureCorosync(u, e) PROVE OnceInv'
  <2>1. RequestsStay /\ LeadersDepart
    BY <1>3 DEF ConfigureCorosync, RequestsStay, LeadersDepart, Departed
  <2>2. HooksForPeers
    <3>1. Dispatchable(u, e)
      BY <1>3 DEF ConfigureCorosync
    <3>2. \A v \in Unit : v # u => at'[v] = at[v] /\ event'[v] = event[v]
      BY <1>0, <1>3 DEF ConfigureCorosync, WriteConf, TypeOK
    <3>3. event'[u] = e
      BY <1>0, <1>3 DEF ConfigureCorosync, TypeOK
    <3> QED BY <3>1, <3>2, <3>3, DispatchedForPeer DEF HooksForPeers
  <2>3. OwedByPeers
    BY <1>0, <1>3 DEF ConfigureCorosync, Taken, OwedByPeers, TypeOK
  <2> QED BY <1>0, <1>3, <2>1, <2>2, <2>3, OwedKept, OnceKept DEF ConfigureCorosync
<1>4. CASE ConfigChanged(u)
  <2>1. RequestsStay /\ LeadersDepart
    BY <1>4 DEF ConfigChanged, RequestsStay, LeadersDepart, Departed
  <2>2. HooksForPeers
    <3>1. \A v \in Unit : v # u => at'[v] = at[v] /\ event'[v] = event[v]
      BY <1>0, <1>4 DEF ConfigChanged, WriteConf, TypeOK
    <3>2. event'[u].kind # "hanode"
      BY <1>0, <1>4 DEF ConfigChanged, ConfigEvent, TypeOK
    <3> QED BY <3>1, <3>2 DEF HooksForPeers
  <2>3. OwedByPeers
    BY <1>0, <1>4 DEF ConfigChanged, Taken, OwedByPeers, TypeOK
  <2> QED BY <1>0, <1>4, <2>1, <2>2, <2>3, OwedKept, OnceKept DEF ConfigChanged
<1>5. CASE ReloadRing(u) \/ FinishHook(u)
  <2>1. UNCHANGED bag \/ \E b : /\ Publish(u, b, due)
                               /\ \/ b = HookLeaves(u)
                                  \/ b = [bag[u] EXCEPT !.ready = TRUE, !.member_ready = TRUE]
    BY <1>5 DEF ReloadRing, FinishHook
  <2>2. \A v \in Unit : bag'[v].trigger = bag[v].trigger
    BY <1>0, <2>1, PublishLeavesRequest
  <2>3. RequestsStay /\ LeadersDepart /\ HooksForPeers
    BY <1>0, <1>5, <2>2 DEF ReloadRing, FinishHook, RequestsStay, LeadersDepart, HooksForPeers,
       Departed, TypeOK
  <2>4. OwedByPeers
    <3>1. UNCHANGED view /\ (UNCHANGED due \/ \E b : Publish(u, b, due))
      BY <1>5 DEF ReloadRing, FinishHook
    <3>2. CASE UNCHANGED due
      BY <3>1, <3>2 DEF OwedByPeers
    <3> QED BY <1>0, <3>1, <3>2, PublishOwes
  <2>5. budget'["leader"] = 0
    BY <1>0, <1>5, OnceSpend DEF ReloadRing, FinishHook, Disturbances
  <2> QED BY <1>0, <2>3, <2>4, <2>5, OwedKept, OnceKept
<1>6. CASE RestartCorosync(u) \/ PacemakerDown(u)
  <2>1. /\ UNCHANGED <<status, leader, view, bag, due, kv, handled, event, request, budget>>
        /\ \A v \in Unit : at'[v] = at[v] \/ at[v] # "idle"
    BY <1>0, <1>6 DEF RestartCorosync, PacemakerDown, TypeOK
  <2> QED BY <1>0, <2>1, OnceKept
          DEF RequestsStay, LeadersDepart, HooksForPeers, DueFromPeers, Departed
<1>7. ASSUME NEW v \in Unit, HanodeJoined(u, v) PROVE OnceInv'
  <2>1. RequestsStay /\ LeadersDepart /\ HooksForPeers
    BY <1>7 DEF HanodeJoined, RequestsStay, LeadersDepart, HooksForPeers, Departed
  <2>2. OwedByPeers
    BY <1>0, <1>7 DEF HanodeJoined, OwedByPeers, Changed, TypeOK
  <2> QED BY <1>0, <1>7, <2>1, <2>2, OwedKept, OnceKept DEF HanodeJoined
<1>8. ASSUME NEW v \in Unit, HanodeDeparted(u, v) PROVE OnceInv'
  <2>1. RequestsStay /\ LeadersDepart /\ HooksForPeers
    BY <1>8 DEF HanodeDeparted, RequestsStay, LeadersDepart, HooksForPeers, Departed
  <2>2. DueFromPeers'
    <3>1. /\ due' = [due EXCEPT ![u] = @ \ {Changed(v)}]
          /\ view' = [view EXCEPT ![u] = @ \ {v}]
      BY <1>8 DEF HanodeDeparted, Taken
    <3>2. ASSUME NEW e \in due'[u], e.kind = "hanode" PROVE e.from \in view'[u]
      <4>1. e \in Event /\ e \in due[u] /\ e # Changed(v)
        BY <1>0, <3>1, <3>2 DEF TypeOK
      <4>2. e.from # v
        BY <3>2, <4>1 DEF Event, Changed
      <4> QED BY <1>0, <3>1, <3>2, <4>1, <4>2 DEF DueFromPeers, TypeOK
    <3>3. \A w \in Unit : w # u => due'[w] = due[w] /\ view'[w] = view[w]
      BY <1>0, <3>1 DEF TypeOK
    <3> QED BY <1>0, <3>2, <3>3 DEF DueFromPeers
  <2> QED BY <1>0, <1>8, <2>1, <2>2, OnceKept DEF HanodeDeparted
<1> QED BY <1>1, <1>2, <1>3, <1>4, <1>5, <1>6, <1>7, <1>8 DEF HookStep, HaRelationChanged

LEMMA OnceLeave ==
    ASSUME OnceInv, NEW u \in Unit, NEW kind \in Disturbances, NEW to \in {"leaving", "gone"},
           Leave(u, kind, to), TypeOK'
    PROVE  OnceInv'
<1>0. TypeOK /\ DueFromPeers /\ budget["leader"] = 0
  BY DEF OnceInv
<1>1. RequestsStay
  BY DEF Leave, RequestsStay
<1>2. LeadersDepart
  BY <1>0 DEF Leave, LeadersDepart, Departed, TypeOK
<1>3. HooksForPeers
  BY <1>0 DEF Leave, HooksForPeers, TypeOK
<1>4. DueFromPeers'
  BY <1>0 DEF Leave, DueFromPeers, TypeOK
<1>5. budget'["leader"] = 0
  BY <1>0, OnceSpend DEF Leave
<1> QED BY <1>1, <1>2, <1>3, <1>4, <1>5, OnceKept

LEMMA OnceFault ==
    ASSUME OnceInv, NEW u \in Unit, Fault(u), TypeOK'
    PROVE  OnceInv'
<1>0. TypeOK /\ DueFromPeers /\ budget["leader"] = 0
  BY DEF OnceInv
<1>1. CASE UnitLost(u)
  BY <1>1, OnceLeave DEF UnitLost, Disturbances
<1>2. CASE RestartFails(u) \/ HookFails(u) \/ UpdateRingFails(u)
  <2>1. /\ UNCHANGED <<status, leader, view, bag, due, kv, handled, event, request>>
        /\ \A v \in Unit : at'[v] = at[v] \/ at[v] # "idle"
        /\ Spend("fail")
    BY <1>0, <1>2 DEF RestartFails, HookFails, UpdateRingFails, TypeOK
  <2>2. budget'["leader"] = 0
    BY <1>0, <2>1, OnceSpend DEF Disturbances
  <2> QED BY <1>0, <2>1, <2>2, OnceKept
          DEF RequestsStay, LeadersDepart, HooksForPeers, DueFromPeers, Departed
<1> QED BY <1>1, <1>2 DEF Fault

LEMMA OnceOperate ==
    ASSUME OnceInv, NEW u \in Unit, Operate(u), TypeOK'
    PROVE  OnceInv'
<1>0. TypeOK /\ DueFromPeers /\ budget["leader"] = 0
  BY DEF OnceInv
<1>1. CASE Install(u)
  <2>1. LeadersDepart
    BY <1>0, <1>1 DEF Install, LeadersDepart, Departed, TypeOK
  <2>2. OwedByPeers
    BY <1>0, <1>1 DEF Install, OwedByPeers, HaEvent, TypeOK
  <2> QED BY <1>0, <1>1, <2>1, <2>2, OwedKept, OnceKept
          DEF Install, RequestsStay, HooksForPeers
<1>2. CASE UpgradeCharm(u) \/ PauseUnit(u) \/ ResumeUnit(u)
  <2>1. /\ UNCHANGED <<status, leader, view, bag, due, kv, handled, at, event, request>>
        /\ UNCHANGED budget \/ Spend("upgrade") \/ Spend("pause")
    BY <1>2 DEF UpgradeCharm, PauseUnit, ResumeUnit
  <2>2. budget'["leader"] = 0
    BY <1>0, <2>1, OnceSpend DEF Disturbances
  <2> QED BY <1>0, <2>1, <2>2, OnceKept
          DEF RequestsStay, LeadersDepart, HooksForPeers, DueFromPeers, Departed
<1>3. CASE UnitRemoved(u)
  BY <1>3, OnceLeave DEF UnitRemoved, Disturbances
<1>4. CASE Stop(u)
  <2>1. LeadersDepart
    BY <1>0, <1>4 DEF Stop, LeadersDepart, Departed, TypeOK
  <2> QED BY <1>0, <1>4, <2>1, OnceKept DEF Stop, RequestsStay, HooksForPeers, DueFromPeers
<1>5. CASE UpdateRing(u) \/ \E n \in Unit : DeleteNodeFromRing(u, n)
  <2>1. /\ TriggerCorosyncUpdate(u) /\ leader = u /\ at[u] = "idle"
        /\ UNCHANGED <<status, leader, view, at, event>>
        /\ UNCHANGED budget \/ Spend("fail")
    BY <1>5 DEF UpdateRing, DeleteNodeFromRing, TriggerCorosyncUpdate, CanRunRingAction, Idle
  <2>2. budget'["leader"] = 0
    BY <1>0, <2>1, OnceSpend DEF Disturbances
  <2> QED BY <2>1, <2>2, OnceTrigger
<1>6. CASE LeaderElected(u)
  BY <1>0, <1>6 DEF LeaderElected, Spend
<1>7. CASE HaDataChanges(u)
  <2>1. OwedByPeers
    BY <1>0, <1>7 DEF HaDataChanges, OwedByPeers, HaEvent, TypeOK
  <2>2. budget'["leader"] = 0
    BY <1>0, <1>7, OnceSpend DEF HaDataChanges, Disturbances
  <2> QED BY <1>0, <1>7, <2>1, <2>2, OwedKept, OnceKept
          DEF HaDataChanges, RequestsStay, LeadersDepart, HooksForPeers, Departed
<1> QED BY <1>1, <1>2, <1>3, <1>4, <1>5, <1>6, <1>7 DEF Operate

LEMMA OnceStep == OnceInv /\ [Next]_vars => OnceInv'
<1> SUFFICES ASSUME OnceInv, [Next]_vars PROVE OnceInv'
  OBVIOUS
<1>0. TypeOK /\ TypeOK' /\ DueFromPeers /\ budget["leader"] = 0
  BY TypeStep DEF OnceInv
<1>1. ASSUME NEW u \in Unit, ServicesStart(u) PROVE OnceInv'
  BY <1>0, <1>1, OnceKept
  DEF ServicesStart, environment, RequestsStay, LeadersDepart, HooksForPeers, DueFromPeers,
      Departed
<1>2. ASSUME NEW m \in BOOLEAN, SetConfig(m) PROVE OnceInv'
  <2>1. OwedByPeers
    BY <1>2 DEF SetConfig, OwedByPeers, ConfigEvent
  <2>2. budget'["leader"] = 0
    BY <1>0, <1>2, OnceSpend DEF SetConfig, Disturbances
  <2> QED BY <1>0, <1>2, <2>1, <2>2, OwedKept, OnceKept
          DEF SetConfig, RequestsStay, LeadersDepart, HooksForPeers, Departed
<1>3. CASE UNCHANGED vars
  BY <1>0, <1>3, OnceKept
  DEF vars, RequestsStay, LeadersDepart, HooksForPeers, DueFromPeers, Departed
<1> QED BY <1>0, <1>1, <1>2, <1>3, OnceHookStep, OnceFault, OnceOperate DEF Next

LEMMA OnceInit == LeadershipStays /\ Init => OnceInv
<1> SUFFICES ASSUME LeadershipStays, NEW s \in Starts, InitFrom(s.formed), budget = s.budget
             PROVE  OnceInv
  BY DEF Init
<1>1. TypeOK
  BY TypeInit DEF Init
<1>2. budget["leader"] = 0
  BY DEF LeadershipStays
<1>3. HandledInOrder /\ OnlyLeaderAsks
  BY DEF InitFrom, HandledInOrder, OnlyLeaderAsks
<1>4. DueFromPeers
  BY DEF InitFrom, DueFromPeers, HaEvent
<1>5. NothingNewerNoted
  BY DEF InitFrom, NothingNewerNoted
<1> QED BY <1>1, <1>2, <1>3, <1>4, <1>5 DEF OnceInv

\* A unit acts at most once on each update request (is_update_ring_requested),
\* though it remembers only the last one, for any number of units and requests
\* and whatever fails, leaves or is repaired, as long as nobody takes the lead
\* from a unit that stays.
THEOREM RequestsOnce ==
    ASSUME LeadershipStays
    PROVE  Spec => RequestsHandledOnce
<1>1. Init => OnceInv
  BY OnceInit
<1>2. OnceInv => \A u \in Unit : (\E e \in Event : TakeUpdateRequest(u, e)) =>
                    handled'[u] # handled[u]
  <2> SUFFICES ASSUME OnceInv, NEW u \in Unit, NEW e \in Event, TakeUpdateRequest(u, e)
               PROVE  handled'[u] # handled[u]
    OBVIOUS
  <2>1. RequestId(e) \notin handled[u]
    BY TakenIsNewest
  <2>2. RequestId(e) \in handled'[u]
    BY DEF TakeUpdateRequest, OnceInv, TypeOK
  <2> QED BY <2>1, <2>2
<1> QED BY <1>1, <1>2, OnceStep, PTL DEF Spec, RequestsHandledOnce
-----------------------------------------------------------------------------
(* How a ring falls out of step with the file: every write of the file is  *)
(* followed, action by action, to the load that belongs to it.             *)

\* A unit that was ever deployed names itself in its file (get_ha_nodes adds
\* it), so that its own reload reaches it.
OwnConf == \A u \in Unit : (status[u] = "out" /\ at[u] = "idle") \/ u \in conf[u]

\* The steps that may take u out of step with its file.
MayDiverge(u) ==
    \/ \E v \in Unit : HanodeDeparted(u, v)
    \/ UpgradeCharm(u)
    \/ paused[u]
    \/ Spend("fail")
    \/ status'[u] = "gone"

KeepsStep(u) == InStep(u) => InStep(u)' \/ MayDiverge(u)

\* At u nothing happens to file, ring and hook, or the ring loads the file.
StaysOrLoads(u) ==
    \/ conf'[u] = conf[u] /\ ring'[u] = ring[u] /\ at'[u] = at[u]
    \/ ring'[u] = conf'[u]

LEMMA StayingKeeps == ASSUME NEW u, StaysOrLoads(u) PROVE KeepsStep(u)
  BY DEF StaysOrLoads, KeepsStep, InStep

\* A hook that ends or begins without touching ring and file.
LEMMA QuietKeeps ==
    ASSUME TypeOK, NEW u \in Unit, UNCHANGED <<conf, ring>>, at[u] # "restart",
           NEW to, at' = [at EXCEPT ![u] = to]
    PROVE  \A v \in Unit : KeepsStep(v)
  BY DEF TypeOK, KeepsStep, InStep

\* corosync-cfgtool -R right after emit_corosync_conf: a unit that was in step
\* is in its own ring, and everybody in that ring loads what its disk has.
LEMMA ReloadKeepsStep ==
    ASSUME TypeOK, NEW u \in Unit, u \in conf[u], at[u] # "restart",
           conf' = [conf EXCEPT ![u] = HaNodes(u)], Reloaded(u),
           \A v \in Unit \ {u} : at'[v] = at[v]
    PROVE  \A v \in Unit : KeepsStep(v)
<1>1. ASSUME NEW v \in Unit \ {u} PROVE StaysOrLoads(v)
  BY DEF TypeOK, Reloaded, StaysOrLoads
<1>2. CASE ring[u] = conf[u]
  <2>1. u \in Mates(ring, u)
    BY <1>2 DEF Mates
  <2>2. ring'[u] = conf'[u]
    BY <2>1 DEF Reloaded
  <2> QED BY <1>1, <2>2, StayingKeeps DEF StaysOrLoads
<1>3. CASE ring[u] # conf[u]
  BY <1>1, <1>3, StayingKeeps DEF KeepsStep, InStep
<1> QED BY <1>2, <1>3

\* configure_corosync: a file that changed is followed by a restart, unless the
\* unit is paused.
LEMMA WriteKeepsStep ==
    ASSUME TypeOK, NEW u \in Unit, WriteConf(u), UNCHANGED ring, at[u] # "restart"
    PROVE  \A v \in Unit : KeepsStep(v)
<1>1. ASSUME NEW v \in Unit \ {u} PROVE StaysOrLoads(v)
  BY DEF TypeOK, WriteConf, StaysOrLoads
<1>2. KeepsStep(u)
  <2>1. CASE paused[u]
    BY <2>1 DEF KeepsStep, MayDiverge
  <2>2. CASE ~paused[u] /\ conf'[u] # conf[u]
    BY <2>2 DEF TypeOK, WriteConf, KeepsStep, InStep
  <2>3. CASE conf'[u] = conf[u]
    BY <2>3 DEF KeepsStep, InStep
  <2> QED BY <2>1, <2>2, <2>3
<1> QED BY <1>1, <1>2, StayingKeeps

\* A start of the services loads the file of the unit and of nobody else.
LEMMA StartKeepsStep ==
    ASSUME TypeOK, NEW u \in Unit, Started(u), UNCHANGED conf,
           \A v \in Unit \ {u} : at'[v] = at[v]
    PROVE  \A v \in Unit : KeepsStep(v)
<1>1. ASSUME NEW v \in Unit PROVE StaysOrLoads(v)
  BY DEF TypeOK, Started, StaysOrLoads
<1> QED BY <1>1, StayingKeeps

LEMMA HookKeepsStep ==
    ASSUME TypeOK, OwnConf, NEW u \in Unit, HookStep(u)
    PROVE  \A v \in Unit : KeepsStep(v)
<1>1. ASSUME NEW e \in Event, Dispatchable(u, e) PROVE at[u] # "restart"
  BY <1>1 DEF Dispatchable
<1>2. ASSUME NEW e \in Event, TakeUpdateRequest(u, e) PROVE \A v \in Unit : KeepsStep(v)
  BY <1>1, <1>2, QuietKeeps DEF TakeUpdateRequest
<1>3. ASSUME NEW e \in Event, DeferConfiguration(u, e) PROVE \A v \in Unit : KeepsStep(v)
  BY <1>1, <1>3, QuietKeeps DEF DeferConfiguration
<1>4. ASSUME NEW e \in Event, ConfigureCorosync(u, e) PROVE \A v \in Unit : KeepsStep(v)
  BY <1>1, <1>4, WriteKeepsStep DEF ConfigureCorosync
<1>5. ASSUME ConfigChanged(u) PROVE \A v \in Unit : KeepsStep(v)
  <2>1. at[u] # "restart"
    BY <1>1, <1>5, EventTypes DEF ConfigChanged
  <2>2. CASE paused[u]
    BY <1>5, <2>1, <2>2, QuietKeeps DEF ConfigChanged
  <2>3. CASE ~paused[u]
    BY <1>5, <2>1, <2>3, WriteKeepsStep DEF ConfigChanged
  <2> QED BY <2>2, <2>3
<1>6. ASSUME ReloadRing(u) PROVE \A v \in Unit : KeepsStep(v)
  <2>1. u \in conf[u] /\ at[u] # "restart" /\ \A v \in Unit \ {u} : at'[v] = at[v]
    BY <1>6 DEF OwnConf, ReloadRing, TypeOK
  <2>2. CASE Spend("fail")
    BY <2>2 DEF KeepsStep, MayDiverge
  <2>3. CASE Reloaded(u)
    BY <1>6, <2>1, <2>3, ReloadKeepsStep DEF ReloadRing
  <2> QED BY <1>6, <2>2, <2>3 DEF ReloadRing
<1>7. ASSUME RestartCorosync(u) PROVE \A v \in Unit : KeepsStep(v)
  BY <1>7, StartKeepsStep DEF RestartCorosync, TypeOK
<1>8. ASSUME PacemakerDown(u) \/ FinishHook(u) PROVE \A v \in Unit : KeepsStep(v)
  BY <1>8, QuietKeeps DEF PacemakerDown, FinishHook
<1>9. ASSUME NEW w \in Unit, HanodeJoined(u, w) PROVE \A v \in Unit : KeepsStep(v)
  BY <1>9, StayingKeeps DEF HanodeJoined, StaysOrLoads
<1>10. ASSUME NEW w \in Unit, HanodeDeparted(u, w) PROVE \A v \in Unit : KeepsStep(v)
  <2>1. ASSUME NEW v \in Unit \ {u} PROVE StaysOrLoads(v)
    BY <1>10 DEF HanodeDeparted, StaysOrLoads, TypeOK
  <2> QED BY <1>10, <2>1, StayingKeeps DEF KeepsStep, MayDiverge
<1> QED BY <1>2, <1>3, <1>4, <1>5, <1>6, <1>7, <1>8, <1>9, <1>10
        DEF HookStep, HaRelationChanged

LEMMA FaultKeepsStep ==
    ASSUME TypeOK, NEW u \in Unit, Fault(u)
    PROVE  \A v \in Unit : KeepsStep(v)
<1>1. CASE Spend("fail")
  BY <1>1 DEF KeepsStep, MayDiverge
<1>2. ASSUME UnitLost(u) PROVE \A v \in Unit : KeepsStep(v)
  <2>1. status'[u] = "gone"
    BY <1>2 DEF UnitLost, Leave, TypeOK
  <2>2. ASSUME NEW v \in Unit \ {u} PROVE StaysOrLoads(v)
    BY <1>2 DEF UnitLost, Leave, StaysOrLoads, TypeOK
  <2> QED BY <2>1, <2>2, StayingKeeps DEF KeepsStep, MayDiverge
<1> QED BY <1>1, <1>2 DEF Fault, RestartFails, HookFails, UpdateRingFails

LEMMA OperateKeepsStep ==
    ASSUME TypeOK, OwnConf, NEW u \in Unit, Operate(u)
    PROVE  \A v \in Unit : KeepsStep(v)
<1>1. ASSUME Install(u) PROVE \A v \in Unit : KeepsStep(v)
  <2>1. ASSUME NEW v \in Unit PROVE StaysOrLoads(v)
    BY <1>1 DEF Install, StaysOrLoads, TypeOK
  <2> QED BY <2>1, StayingKeeps
<1>2. ASSUME UpgradeCharm(u) PROVE \A v \in Unit : KeepsStep(v)
  <2>1. ASSUME NEW v \in Unit \ {u} PROVE StaysOrLoads(v)
    BY <1>2 DEF UpgradeCharm, StaysOrLoads, TypeOK
  <2> QED BY <1>2, <2>1, StayingKeeps DEF KeepsStep, MayDiverge
<1>3. ASSUME UnitRemoved(u) PROVE \A v \in Unit : KeepsStep(v)
  BY <1>3, QuietKeeps DEF UnitRemoved, Leave, Idle
<1>4. ASSUME Stop(u) PROVE \A v \in Unit : KeepsStep(v)
  <2>1. status'[u] = "gone"
    BY <1>4 DEF Stop, TypeOK
  <2>2. ASSUME NEW v \in Unit \ {u} PROVE StaysOrLoads(v)
    BY <1>4 DEF Stop, StaysOrLoads, TypeOK
  <2> QED BY <2>1, <2>2, StayingKeeps DEF KeepsStep, MayDiverge
<1>5. ASSUME TriggerCorosyncUpdate(u), Idle(u), UNCHANGED at
      PROVE  \A v \in Unit : KeepsStep(v)
  <2>1. u \in conf[u] /\ at[u] # "restart"
    BY <1>5 DEF OwnConf, Idle
  <2>2. CASE Spend("fail")
    BY <2>2 DEF KeepsStep, MayDiverge
  <2>3. CASE Reloaded(u)
    BY <1>5, <2>1, <2>3, ReloadKeepsStep DEF TriggerCorosyncUpdate
  <2> QED BY <1>5, <2>2, <2>3 DEF TriggerCorosyncUpdate
<1>6. ASSUME UpdateRing(u) PROVE \A v \in Unit : KeepsStep(v)
  BY <1>5, <1>6 DEF UpdateRing, CanRunRingAction
<1>7. ASSUME NEW n \in Unit, DeleteNodeFromRing(u, n) PROVE \A v \in Unit : KeepsStep(v)
  BY <1>5, <1>7 DEF DeleteNodeFromRing
<1>8. ASSUME PauseUnit(u) \/ ResumeUnit(u) \/ LeaderElected(u) \/ HaDataChanges(u)
      PROVE  \A v \in Unit : KeepsStep(v)
  BY <1>8, StayingKeeps
  DEF PauseUnit, ResumeUnit, LeaderElected, HaDataChanges, StaysOrLoads
<1> QED BY <1>1, <1>2, <1>3, <1>4, <1>6, <1>7, <1>8 DEF Operate

LEMMA StepsKeepStep ==
    ASSUME TypeOK, OwnConf, [Next]_vars
    PROVE  \A v \in Unit : KeepsStep(v)
<1>1. ASSUME NEW u \in Unit, ServicesStart(u) PROVE \A v \in Unit : KeepsStep(v)
  BY <1>1, StartKeepsStep DEF ServicesStart
<1>2. ASSUME NEW m \in BOOLEAN, SetConfig(m) PROVE \A v \in Unit : KeepsStep(v)
  BY <1>2, StayingKeeps DEF SetConfig, StaysOrLoads
<1>3. CASE UNCHANGED vars
  BY <1>3, StayingKeeps DEF vars, StaysOrLoads
<1> QED BY <1>1, <1>2, <1>3, HookKeepsStep, FaultKeepsStep, OperateKeepsStep DEF Next

\* A unit that is dispatched names itself already, and every write of a file
\* names the unit that writes.
LEMMA OwnConfInit == Init => OwnConf
<1> SUFFICES ASSUME NEW s \in Starts, InitFrom(s.formed), NEW u \in Unit
             PROVE  (status[u] = "out" /\ at[u] = "idle") \/ u \in conf[u]
  BY DEF Init, OwnConf
<1> QED BY DEF InitFrom

\* What a step may do to the unit's deployment, hook and file.
OwnKept(v) ==
    \/ status'[v] = status[v] /\ at'[v] = at[v] /\ conf'[v] = conf[v]
    \/ v \in conf[v] /\ conf'[v] = conf[v]
    \/ v \in conf'[v]

LEMMA OwnConfWorks ==
    ASSUME TypeOK, OwnConf, NEW u \in Unit,
           HookStep(u) \/ Fault(u) \/ Operate(u) \/ ServicesStart(u)
    PROVE  \A v \in Unit : OwnKept(v)
<1>1. status[u] # "out" => u \in conf[u]
  BY DEF OwnConf
<1>2. at[u] # "idle" => u \in conf[u]
  BY DEF OwnConf
<1>3. CASE HookStep(u)
  <2>1. ASSUME NEW e \in Event,
               TakeUpdateRequest(u, e) \/ DeferConfiguration(u, e) \/ ConfigureCorosync(u, e)
        PROVE  \A v \in Unit : OwnKept(v)
    BY <1>1, <2>1 DEF TakeUpdateRequest, DeferConfiguration, ConfigureCorosync, WriteConf,
       Dispatchable, HaNodes, environment, OwnKept, TypeOK
  <2>2. ASSUME ConfigChanged(u) \/ ReloadRing(u) \/ RestartCorosync(u)
        PROVE  \A v \in Unit : OwnKept(v)
    BY <1>1, <1>2, <2>2 DEF ConfigChanged, ReloadRing, RestartCorosync, WriteConf,
       Dispatchable, HaNodes, environment, OwnKept, TypeOK
  <2>3. ASSUME PacemakerDown(u) \/ FinishHook(u)
        PROVE  \A v \in Unit : OwnKept(v)
    BY <1>2, <2>3 DEF PacemakerDown, FinishHook, environment, OwnKept, TypeOK
  <2>4. ASSUME NEW w \in Unit, HanodeJoined(u, w) \/ HanodeDeparted(u, w)
        PROVE  \A v \in Unit : OwnKept(v)
    BY <2>4 DEF HanodeJoined, HanodeDeparted, OwnKept, TypeOK
  <2> QED BY <1>3, <2>1, <2>2, <2>3, <2>4 DEF HookStep, HaRelationChanged
<1>4. CASE Fault(u)
  BY <1>1, <1>2, <1>4 DEF Fault, RestartFails, HookFails, UnitLost, UpdateRingFails, Leave,
     OwnKept, TypeOK
<1>5. CASE Operate(u)
  <2>1. ASSUME Install(u) \/ UpgradeCharm(u) PROVE \A v \in Unit : OwnKept(v)
    BY <2>1 DEF Install, UpgradeCharm, HaNodes, OwnKept, TypeOK
  <2>2. ASSUME UnitRemoved(u) \/ Stop(u) PROVE \A v \in Unit : OwnKept(v)
    BY <1>1, <2>2 DEF UnitRemoved, Leave, Idle, Stop, OwnKept, TypeOK
  <2>3. ASSUME TriggerCorosyncUpdate(u), UNCHANGED <<status, at>>
        PROVE  \A v \in Unit : OwnKept(v)
    BY <2>3 DEF TriggerCorosyncUpdate, HaNodes, OwnKept, TypeOK
  <2>4. ASSUME UpdateRing(u) PROVE \A v \in Unit : OwnKept(v)
    BY <2>3, <2>4 DEF UpdateRing
  <2>5. ASSUME NEW n \in Unit, DeleteNodeFromRing(u, n) PROVE \A v \in Unit : OwnKept(v)
    BY <2>3, <2>5 DEF DeleteNodeFromRing
  <2>6. ASSUME PauseUnit(u) \/ ResumeUnit(u) \/ LeaderElected(u) \/ HaDataChanges(u)
        PROVE  \A v \in Unit : OwnKept(v)
    BY <2>6 DEF PauseUnit, ResumeUnit, LeaderElected, HaDataChanges, OwnKept
  <2> QED BY <1>5, <2>1, <2>2, <2>4, <2>5, <2>6 DEF Operate
<1>6. CASE ServicesStart(u)
  BY <1>6 DEF ServicesStart, environment, OwnKept
<1> QED BY <1>3, <1>4, <1>5, <1>6

LEMMA OwnConfStep == TypeOK /\ OwnConf /\ [Next]_vars => OwnConf'
<1> SUFFICES ASSUME TypeOK, OwnConf, [Next]_vars PROVE OwnConf'
  OBVIOUS
<1>1. \A v \in Unit : OwnKept(v)
  <2>1. ASSUME NEW m \in BOOLEAN, SetConfig(m) PROVE \A v \in Unit : OwnKept(v)
    BY <2>1 DEF SetConfig, OwnKept
  <2>2. CASE UNCHANGED vars
    BY <2>2 DEF vars, OwnKept
  <2> QED BY <2>1, <2>2, OwnConfWorks DEF Next
<1> QED BY <1>1 DEF OwnKept, OwnConf

\* Whatever the disturbances, a unit falls out of step with its file only by
\* the steps RingFollowsConf lists (restart_corosync_on_change, the reloads of
\* an update request).
THEOREM RingsFollowConf == Spec => RingFollowsConf
<1>1. TypeOK /\ OwnConf /\ [Next]_vars =>
        [\A u \in Unit : InStep(u) /\ ~InStep(u)' =>
             \/ \E v \in Unit : HanodeDeparted(u, v)
             \/ UpgradeCharm(u)
             \/ paused[u]
             \/ Spend("fail")
             \/ status'[u] = "gone"]_vars
  BY StepsKeepStep DEF KeepsStep, MayDiverge
<1>2. Spec => []OwnConf
  <2>1. Spec => []TypeOK
    BY TypeCorrect
  <2> QED BY <2>1, OwnConfInit, OwnConfStep, PTL DEF Spec
<1> QED BY <1>1, <1>2, TypeCorrect, PTL DEF Spec, RingFollowsConf
=============================================================================
