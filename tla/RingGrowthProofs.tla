--------------------------- MODULE RingGrowthProofs ---------------------------
(***************************************************************************)
(* What holds of Ring as long as certain disturbances stay away: what the  *)
(* charm promises of a cluster that grows, and of one that is repaired.    *)
(* Which ones they are differs from one property to the next, and each     *)
(* theorem names those it needs to be without; the others may happen any   *)
(* number of times.                                                        *)
(***************************************************************************)
EXTENDS RingProofs

\* No start allows any of these disturbances.
Without(kinds) == \A s \in Starts, d \in kinds : s.budget[d] = 0

Spent(kinds) == \A d \in kinds : budget[d] = 0

LEMMA WithoutSpent ==
    ASSUME NEW kinds, Without(kinds), Init
    PROVE  Spent(kinds)
  BY DEF Without, Spent, Init

LEMMA SpendsOthers ==
    ASSUME NEW kinds \in SUBSET Disturbances, Spent(kinds), NEW kind, Spend(kind)
    PROVE  kind \notin kinds
  BY DEF Spent, Spend

LEMMA StaysSpent ==
    ASSUME TypeOK, NEW kinds \in SUBSET Disturbances, Spent(kinds), [Next]_vars
    PROVE  Spent(kinds)'
<1>1. UNCHANGED budget \/ \E kind \in Disturbances : Spend(kind)
  <2>1. ASSUME NEW u \in Unit, HookStep(u)
        PROVE  UNCHANGED budget \/ Spend("fail")
    BY <2>1 DEF HookStep, HaRelationChanged, TakeUpdateRequest, DeferConfiguration,
       ConfigureCorosync, ConfigChanged, ReloadRing, RestartCorosync, PacemakerDown,
       FinishHook, HanodeJoined, HanodeDeparted, environment
  <2>2. ASSUME NEW u \in Unit, Fault(u) PROVE Spend("fail") \/ Spend("lost")
    BY <2>2 DEF Fault, RestartFails, HookFails, UnitLost, UpdateRingFails, Leave
  <2>3. ASSUME NEW u \in Unit, Operate(u)
        PROVE  UNCHANGED budget \/ \E kind \in Disturbances : Spend(kind)
    BY <2>3 DEF Operate, Install, UpgradeCharm, PauseUnit, ResumeUnit, UnitRemoved, Leave,
       Stop, UpdateRing, LeaderElected, HaDataChanges, DeleteNodeFromRing,
       TriggerCorosyncUpdate, Disturbances
  <2>4. ASSUME NEW u \in Unit, ServicesStart(u) PROVE UNCHANGED budget
    BY <2>4 DEF ServicesStart, environment
  <2>5. ASSUME NEW m \in BOOLEAN, SetConfig(m) PROVE Spend("config")
    BY <2>5 DEF SetConfig
  <2> QED BY <2>1, <2>2, <2>3, <2>4, <2>5 DEF Next, vars, Disturbances
<1>2. ASSUME NEW kind \in Disturbances, Spend(kind) PROVE Spent(kinds)'
  BY <1>2 DEF Spent, Spend, TypeOK
<1> QED BY <1>1, <1>2 DEF Spent

-----------------------------------------------------------------------------
(* Rings and files. Without a pause, a failure, an upgrade of the charm or *)
(* a departure each file is followed by the ring it describes.             *)

Steady == {"pause", "fail", "upgrade", "stop", "lost"}

\* Nobody leaves, is paused or has failed.
NobodyMissing ==
    \A u \in Unit :
        /\ status[u] \in {"out", "up"} /\ ~paused[u] /\ at[u] # "failed"
        /\ at[u] # "idle" => status[u] = "up"

\* A unit is in its own ring, and the ring is that of the file unless it is
\* about to restart.
Follows ==
    \A u \in Up :
        /\ u \in conf[u] /\ u \in ring[u]
        /\ at[u] # "restart" => ring[u] = conf[u]

FollowInv == TypeOK /\ Spent(Steady) /\ NobodyMissing /\ Follows

LEMMA SteadyKinds == Steady \subseteq Disturbances
  BY DEF Steady, Disturbances

\* What does not happen in a steady cluster.
LEMMA NotInSteady ==
    ASSUME FollowInv, NEW u \in Unit
    PROVE  /\ ~Fault(u) /\ ~UpgradeCharm(u) /\ ~PauseUnit(u) /\ ~ResumeUnit(u)
           /\ ~UnitRemoved(u) /\ ~Stop(u) /\ ~PacemakerDown(u) /\ ~ServicesStart(u)
           /\ \A v \in Unit : ~HanodeDeparted(u, v)
<1>1. \A kind : Spend(kind) => kind \notin Steady
  BY SpendsOthers, SteadyKinds DEF FollowInv
<1>2. ~Fault(u)
  BY <1>1 DEF Fault, RestartFails, HookFails, UnitLost, UpdateRingFails, Leave, Steady
<1>3. ~UpgradeCharm(u) /\ ~PauseUnit(u) /\ ~UnitRemoved(u)
  BY <1>1 DEF UpgradeCharm, PauseUnit, UnitRemoved, Leave, Steady
<1>4. ~ResumeUnit(u) /\ ~Stop(u)
  BY DEF FollowInv, NobodyMissing, ResumeUnit, Stop
<1>5. ~PacemakerDown(u) /\ ~ServicesStart(u)
  BY DEF FollowInv, NobodyMissing, Follows, Up, PacemakerDown, ServicesStart
<1>6. \A v \in Unit : ~HanodeDeparted(u, v)
  BY DEF FollowInv, NobodyMissing, HanodeDeparted, Departed
<1> QED BY <1>2, <1>3, <1>4, <1>5, <1>6

\* The file of u is written and the ring of u's mates reloaded.
LEMMA ReloadFollows ==
    ASSUME FollowInv, NEW u \in Up, conf' = [conf EXCEPT ![u] = HaNodes(u)], Reloaded(u),
           UNCHANGED <<status, paused>>,
           at[u] # "restart" /\ (UNCHANGED at \/ at' = [at EXCEPT ![u] = "idle"])
    PROVE  NobodyMissing' /\ Follows'
<1>0. TypeOK /\ u \in Unit /\ Up' = Up
  BY DEF FollowInv, Up
<1>1. NobodyMissing'
  BY <1>0 DEF FollowInv, NobodyMissing, TypeOK
<1>2. \A v \in Up : v \in conf'[v]
  BY <1>0 DEF FollowInv, Follows, HaNodes, Up, TypeOK
<1>3. u \in Mates(ring, u)
  BY DEF FollowInv, Follows, Mates
<1>4. ASSUME NEW v \in Up
      PROVE  v \in ring'[v] /\ (at'[v] # "restart" => ring'[v] = conf'[v])
  <2>1. v \in Unit
    BY DEF Up
  <2>2. CASE v \in Mates(ring, u)
    BY <1>2, <2>1, <2>2 DEF Reloaded
  <2>3. CASE v \notin Mates(ring, u)
    <3>1. ring'[v] = ring[v] /\ v # u
      BY <1>3, <2>1, <2>3 DEF Reloaded
    <3>2. conf'[v] = conf[v] /\ at'[v] = at[v]
      BY <1>0, <2>1, <3>1 DEF TypeOK
    <3> QED BY <3>1, <3>2 DEF FollowInv, Follows
  <2> QED BY <2>2, <2>3
<1> QED BY <1>0, <1>1, <1>2, <1>4 DEF Follows

\* The file of u is written by a hook that goes on to restart if that changed it.
LEMMA WriteFollows ==
    ASSUME FollowInv, NEW u \in Unit, status[u] = "up", at[u] = "idle", WriteConf(u),
           UNCHANGED <<status, paused, ring>>
    PROVE  NobodyMissing' /\ Follows'
<1>0. TypeOK /\ Up' = Up /\ u \in Up /\ ~paused[u]
  BY DEF FollowInv, NobodyMissing, Up
<1>1. /\ conf' = [conf EXCEPT ![u] = HaNodes(u)]
      /\ at' = [at EXCEPT ![u] = IF HaNodes(u) # conf[u] THEN "restart" ELSE "finish"]
  BY <1>0 DEF WriteConf, TypeOK
<1>2. NobodyMissing'
  BY <1>0, <1>1 DEF FollowInv, NobodyMissing, TypeOK
<1>3. \A v \in Unit : v # u => conf'[v] = conf[v] /\ at'[v] = at[v]
  BY <1>0, <1>1 DEF TypeOK
<1>4. /\ u \in conf'[u] /\ u \in ring[u]
      /\ at'[u] # "restart" => ring[u] = conf'[u]
  BY <1>0, <1>1 DEF FollowInv, Follows, HaNodes, TypeOK
<1> QED BY <1>0, <1>2, <1>3, <1>4 DEF FollowInv, Follows, Up

LEMMA DispatchedIdle ==
    ASSUME FollowInv, NEW u \in Unit, NEW e, Dispatchable(u, e)
    PROVE  status[u] = "up" /\ at[u] = "idle"
  BY DEF Dispatchable, FollowInv, NobodyMissing

LEMMA FollowHookStep ==
    ASSUME FollowInv, NEW u \in Unit, HookStep(u)
    PROVE  NobodyMissing' /\ Follows'
<1> USE DEF environment
<1>0. TypeOK
  BY DEF FollowInv
<1>1. ASSUME NEW e \in Event, TakeUpdateRequest(u, e) \/ DeferConfiguration(u, e)
      PROVE  NobodyMissing' /\ Follows'
  <2>1. status[u] = "up" /\ at[u] = "idle"
    BY <1>1, DispatchedIdle DEF TakeUpdateRequest, DeferConfiguration
  <2>2. /\ UNCHANGED <<status, paused, conf, ring>>
        /\ \E step \in {"reload", "idle"} : at' = [at EXCEPT ![u] = step]
    BY <1>1 DEF TakeUpdateRequest, DeferConfiguration
  <2> QED BY <1>0, <2>1, <2>2 DEF FollowInv, NobodyMissing, Follows, Up, TypeOK
<1>2. ASSUME NEW e \in Event, ConfigureCorosync(u, e) PROVE NobodyMissing' /\ Follows'
  BY <1>2, DispatchedIdle, WriteFollows DEF ConfigureCorosync
<1>3. CASE ConfigChanged(u)
  <2>1. ~paused[u]
    BY DEF FollowInv, NobodyMissing
  <2> QED BY <1>3, <2>1, DispatchedIdle, WriteFollows DEF ConfigChanged
<1>4. CASE ReloadRing(u)
  <2>1. ~Spend("fail")
    BY SpendsOthers, SteadyKinds DEF FollowInv, Steady
  <2>2. u \in Up /\ at[u] # "restart"
    BY <1>4 DEF ReloadRing, FollowInv, NobodyMissing, Up
  <2> QED BY <1>4, <2>1, <2>2, ReloadFollows DEF ReloadRing
<1>5. CASE RestartCorosync(u)
  <2>1. /\ UNCHANGED <<status, paused, conf>> /\ at[u] = "restart"
        /\ ring' = [ring EXCEPT ![u] = conf[u]] /\ at' = [at EXCEPT ![u] = "finish"]
    BY <1>5 DEF RestartCorosync, Started
  <2> QED BY <1>0, <2>1 DEF FollowInv, NobodyMissing, Follows, Up, TypeOK
<1>6. CASE FinishHook(u)
  <2>1. /\ UNCHANGED <<status, paused, conf, ring>> /\ at[u] = "finish"
        /\ at' = [at EXCEPT ![u] = "idle"]
    BY <1>6 DEF FinishHook
  <2> QED BY <1>0, <2>1 DEF FollowInv, NobodyMissing, Follows, Up, TypeOK
<1>7. ASSUME NEW v \in Unit, HanodeJoined(u, v) PROVE NobodyMissing' /\ Follows'
  BY <1>7 DEF HanodeJoined, FollowInv, NobodyMissing, Follows, Up
<1> QED BY <1>1, <1>2, <1>3, <1>4, <1>5, <1>6, <1>7, NotInSteady DEF HookStep, HaRelationChanged

LEMMA FollowOperate ==
    ASSUME FollowInv, NEW u \in Unit, Operate(u)
    PROVE  NobodyMissing' /\ Follows'
<1>0. TypeOK
  BY DEF FollowInv
<1>1. CASE Install(u)
  <2>1. /\ status[u] = "out" /\ status' = [status EXCEPT ![u] = "up"]
        /\ conf' = [conf EXCEPT ![u] = HaNodes(u)] /\ ring' = [ring EXCEPT ![u] = HaNodes(u)]
        /\ UNCHANGED <<paused, at>>
    BY <1>0, <1>1 DEF Install, TypeOK
  <2> QED BY <1>0, <2>1 DEF FollowInv, NobodyMissing, Follows, Up, HaNodes, TypeOK
<1>2. CASE LeaderElected(u) \/ HaDataChanges(u)
  BY <1>2 DEF LeaderElected, HaDataChanges, FollowInv, NobodyMissing, Follows, Up
<1>3. CASE UpdateRing(u) \/ \E n \in Unit : DeleteNodeFromRing(u, n)
  <2>1. /\ u \in Up /\ at[u] = "idle" /\ UNCHANGED <<status, paused, at>>
        /\ TriggerCorosyncUpdate(u)
    BY <1>3 DEF UpdateRing, DeleteNodeFromRing, CanRunRingAction, Idle, Up
  <2>2. ~Spend("fail")
    BY SpendsOthers, SteadyKinds DEF FollowInv, Steady
  <2> QED BY <2>1, <2>2, ReloadFollows DEF TriggerCorosyncUpdate
<1> QED BY <1>1, <1>2, <1>3, NotInSteady DEF Operate

LEMMA FollowStep == FollowInv /\ [Next]_vars => FollowInv'
<1> SUFFICES ASSUME FollowInv, [Next]_vars PROVE FollowInv'
  OBVIOUS
<1>1. TypeOK' /\ Spent(Steady)'
  BY TypeStep, StaysSpent, SteadyKinds DEF FollowInv
<1>2. ASSUME NEW m \in BOOLEAN, SetConfig(m) PROVE NobodyMissing' /\ Follows'
  BY <1>2 DEF SetConfig, FollowInv, NobodyMissing, Follows, Up
<1>3. CASE UNCHANGED vars
  BY <1>1, <1>3 DEF vars, FollowInv, NobodyMissing, Follows, Up
<1> QED BY <1>1, <1>2, <1>3, FollowHookStep, FollowOperate, NotInSteady DEF FollowInv, Next

LEMMA FollowInit == Without(Steady) /\ Init => FollowInv
<1> SUFFICES ASSUME Without(Steady), Init PROVE FollowInv
  OBVIOUS
<1>1. TypeOK /\ Spent(Steady)
  BY TypeInit, WithoutSpent
<1>2. PICK s \in Starts : InitFrom(s.formed)
  BY DEF Init
<1>3. NobodyMissing
  BY <1>2 DEF InitFrom, NobodyMissing
<1>4. Follows
  BY <1>2 DEF InitFrom, Follows, Up
<1> QED BY <1>1, <1>3, <1>4 DEF FollowInv

-----------------------------------------------------------------------------
(* Members and the leader's count. Of an application of cluster_count units, *)
(* the threshold lets a hook through only when its unit knows them all.    *)

Complete(v) == HaNodes(v) = Unit /\ conf[v] = Unit

CompleteMembers == \A v \in MemberUnits : Complete(v) /\ ring[v] = Unit

\* A hook past the threshold has counted members, and itself.
CompleteHooks ==
    \A v \in Unit :
        Counting(v) => Complete(v) /\ counted[v] \subseteq MemberUnits \cup {v}

RegisterInv == FollowInv /\ EnoughInv /\ CompleteMembers /\ CompleteHooks

\* Views grow, files are written from them, rings loaded from files.
ViewsGrow == \A v \in Unit : HaNodes(v) \subseteq HaNodes(v)'
FilesWritten == \A v \in Unit : conf'[v] \in {conf[v], HaNodes(v)}
RingsLoaded == \A v \in Unit : ring'[v] \in {ring[v], conf[v], conf'[v]}
NothingCounted ==
    /\ NoNewCount
    /\ \A v \in Unit : Counting(v)' => counted'[v] = counted[v]

LEMMA CompleteKept ==
    ASSUME TypeOK', ViewsGrow, FilesWritten, NEW v \in Unit, Complete(v)
    PROVE  Complete(v)'
<1>1. HaNodes(v)' \subseteq Unit
  BY DEF TypeOK, HaNodes
<1> QED BY <1>1 DEF ViewsGrow, FilesWritten, Complete

LEMMA RegisterKept ==
    ASSUME RegisterInv, [Next]_vars, ViewsGrow, FilesWritten, RingsLoaded,
           NothingCounted, NoNewMember
    PROVE  RegisterInv'
<1>1. FollowInv' /\ EnoughInv' /\ TypeOK'
  BY FollowStep, EnoughStep DEF RegisterInv, FollowInv
<1>2. MemberUnits' = MemberUnits
  <2>1. MemberUnits \subseteq MemberUnits'
    BY FormationNext DEF RegisterInv, FollowInv, FormationStep, F!Next, F!BecomeReady,
       F!BecomeMember
  <2> QED BY <2>1 DEF NoNewMember, MemberUnits
<1>3. \A v \in Unit : Complete(v) => Complete(v)'
  BY <1>1, CompleteKept
<1>4. CompleteMembers'
  BY <1>2, <1>3 DEF RegisterInv, CompleteMembers, RingsLoaded, Complete, MemberUnits
<1>5. CompleteHooks'
  BY <1>2, <1>3 DEF RegisterInv, CompleteHooks, NothingCounted, NoNewCount
<1> QED BY <1>1, <1>4, <1>5 DEF RegisterInv

\* A set of cluster_count units, of no more than that, has all of them.
LEMMA EnoughIsAll ==
    ASSUME Cardinality(Unit) <= ClusterCount,
           NEW S \in SUBSET Unit, Cardinality(S) >= ClusterCount
    PROVE  S = Unit
<1>1. /\ Cardinality(S) \in Nat /\ Cardinality(Unit) \in Nat
      /\ Cardinality(S) <= Cardinality(Unit)
      /\ Cardinality(S) = Cardinality(Unit) => S = Unit
  BY UnitAssumption, FS_Subset, FS_CardinalityType
<1> QED BY <1>1, ClusterCountAssumption

LEMMA EnoughNodesIsAll ==
    ASSUME TypeOK, Cardinality(Unit) <= ClusterCount, NEW u \in Unit, EnoughNodes(u)
    PROVE  HaNodes(u) = Unit
<1>1. ClusterNodes(u) \subseteq HaNodes(u) /\ HaNodes(u) \in SUBSET Unit
  BY DEF ClusterNodes, HaNodes, TypeOK
<1>2. Cardinality(HaNodes(u)) >= ClusterCount
  BY <1>1, LargerIsEnough DEF EnoughNodes
<1> QED BY <1>1, <1>2, EnoughIsAll

LEMMA RegisterConfigure ==
    ASSUME RegisterInv, [Next]_vars, Cardinality(Unit) <= ClusterCount,
           NEW u \in Unit, NEW e \in Event, ConfigureCorosync(u, e)
    PROVE  RegisterInv'
<1>0. TypeOK /\ FollowInv' /\ EnoughInv' /\ TypeOK'
  BY FollowStep, EnoughStep DEF RegisterInv, FollowInv
<1>1. HaNodes(u) = Unit
  BY <1>0, EnoughNodesIsAll DEF ConfigureCorosync
<1>2. /\ conf' = [conf EXCEPT ![u] = HaNodes(u)]
      /\ counted' = [counted EXCEPT ![u] = MemberReadyNodes(u)]
      /\ \E step \in {"restart", "finish"} : at' = [at EXCEPT ![u] = step]
      /\ event' = [event EXCEPT ![u] = e]
      /\ UNCHANGED <<ring, bag, view>>
  BY DEF ConfigureCorosync, WriteConf, environment
<1>3. \A v \in Unit : Complete(v) => Complete(v)'
  BY <1>0, <1>1, <1>2 DEF Complete, HaNodes, TypeOK
<1>4. MemberUnits' = MemberUnits
  BY <1>2 DEF MemberUnits
<1>5. CompleteMembers'
  BY <1>2, <1>3, <1>4 DEF RegisterInv, CompleteMembers, MemberUnits
<1>6. ASSUME NEW v \in Unit, Counting(v)'
      PROVE  Complete(v)' /\ counted'[v] \subseteq MemberUnits \cup {v}
  <2>1. CASE v = u
    <3>1. Complete(u)'
      BY <1>0, <1>1, <1>2 DEF Complete, HaNodes, TypeOK
    <3>2. MemberReadyNodes(u) \subseteq MemberUnits \cup {u}
      BY <1>0 DEF MemberReadyNodes, MemberUnits, TypeOK
    <3> QED BY <1>0, <1>2, <2>1, <3>1, <3>2 DEF TypeOK
  <2>2. CASE v # u
    <3>1. Counting(v) /\ counted'[v] = counted[v]
      BY <1>0, <1>2, <1>6, <2>2 DEF Counting, TypeOK
    <3> QED BY <1>3, <3>1 DEF RegisterInv, CompleteHooks
  <2> QED BY <2>1, <2>2
<1> QED BY <1>0, <1>4, <1>5, <1>6 DEF RegisterInv, CompleteHooks

LEMMA RegisterFinish ==
    ASSUME RegisterInv, [Next]_vars, NEW u \in Unit, FinishHook(u)
    PROVE  RegisterInv'
<1>0. TypeOK /\ FollowInv' /\ EnoughInv'
  BY FollowStep, EnoughStep DEF RegisterInv, FollowInv
<1>1. /\ at[u] = "finish" /\ at' = [at EXCEPT ![u] = "idle"]
      /\ UNCHANGED <<conf, ring, view, event, counted>>
  BY DEF FinishHook, environment
<1>2. \A v \in Unit : Complete(v)' = Complete(v)
  BY <1>1 DEF Complete, HaNodes
<1>3. MemberUnits \subseteq MemberUnits'
  BY <1>0, FormationNext DEF RegisterInv, FormationStep, F!Next, F!BecomeReady,
     F!BecomeMember
<1>4. \A v \in MemberUnits' : v \in MemberUnits \/ (v = u /\ Counting(u))
  <2>1. \A v \in Unit : v # u => bag'[v] = bag[v]
    BY <1>0 DEF FinishHook, Publish, TypeOK
  <2>2. event[u].kind = "config" => bag' = bag
    BY DEF FinishHook
  <2> QED BY <1>1, <2>1, <2>2 DEF MemberUnits, Counting
<1>5. Counting(u) => Complete(u) /\ ring[u] = Unit
  BY <1>1 DEF RegisterInv, CompleteHooks, Complete, FollowInv, NobodyMissing, Follows, Up
<1>6. CompleteMembers'
  BY <1>1, <1>2, <1>4, <1>5 DEF RegisterInv, CompleteMembers, MemberUnits
<1>7. CompleteHooks'
  BY <1>0, <1>1, <1>2, <1>3 DEF RegisterInv, CompleteHooks, Counting, TypeOK
<1> QED BY <1>0, <1>6, <1>7 DEF RegisterInv

LEMMA RegisterHookStep ==
    ASSUME RegisterInv, [Next]_vars, Cardinality(Unit) <= ClusterCount,
           NEW u \in Unit, HookStep(u)
    PROVE  RegisterInv'
<1> USE DEF environment
<1>0. TypeOK
  BY DEF RegisterInv, FollowInv
<1>1. ASSUME NEW e \in Event, TakeUpdateRequest(u, e) \/ DeferConfiguration(u, e)
      PROVE  RegisterInv'
  <2>1. ViewsGrow /\ FilesWritten /\ RingsLoaded
    BY <1>1 DEF TakeUpdateRequest, DeferConfiguration, ViewsGrow, FilesWritten,
       RingsLoaded, HaNodes
  <2>2. NothingCounted
    BY <1>0, <1>1 DEF TakeUpdateRequest, DeferConfiguration, NothingCounted, NoNewCount,
       Counting, TypeOK
  <2>3. NoNewMember
    BY <1>0, <1>1, PublishKeeps DEF TakeUpdateRequest, DeferConfiguration, HookLeaves,
       NoNewMember
  <2> QED BY <2>1, <2>2, <2>3, RegisterKept
<1>2. CASE ConfigChanged(u)
  <2>1. /\ UNCHANGED <<view, ring, bag, counted>>
        /\ UNCHANGED conf \/ conf' = [conf EXCEPT ![u] = HaNodes(u)]
        /\ event' = [event EXCEPT ![u] = ConfigEvent(u)]
        /\ \E step : at' = [at EXCEPT ![u] = step]
    BY <1>2 DEF ConfigChanged, WriteConf
  <2>2. ViewsGrow /\ FilesWritten /\ RingsLoaded /\ NoNewMember
    BY <1>0, <2>1 DEF ViewsGrow, FilesWritten, RingsLoaded, NoNewMember, HaNodes, TypeOK
  <2>3. NothingCounted
    BY <1>0, <2>1 DEF NothingCounted, NoNewCount, Counting, ConfigEvent, TypeOK
  <2> QED BY <2>2, <2>3, RegisterKept
<1>3. CASE ReloadRing(u)
  <2>1. /\ conf' = [conf EXCEPT ![u] = HaNodes(u)] /\ UNCHANGED <<view, event, counted>>
        /\ UNCHANGED ring \/ Reloaded(u)
        /\ at' = [at EXCEPT ![u] = "idle"]
    BY <1>3 DEF ReloadRing
  <2>2. ViewsGrow /\ FilesWritten /\ RingsLoaded
    BY <1>0, <2>1 DEF ViewsGrow, FilesWritten, RingsLoaded, Reloaded, HaNodes, TypeOK
  <2>3. NothingCounted
    BY <1>0, <2>1 DEF NothingCounted, NoNewCount, Counting, TypeOK
  <2>4. NoNewMember
    BY <1>0, <1>3, PublishKeeps DEF ReloadRing, HookLeaves
  <2> QED BY <2>2, <2>3, <2>4, RegisterKept
<1>4. CASE RestartCorosync(u)
  <2>1. /\ at[u] = "restart" /\ at' = [at EXCEPT ![u] = "finish"]
        /\ ring' = [ring EXCEPT ![u] = conf[u]]
        /\ UNCHANGED <<view, conf, bag, event, counted>>
    BY <1>4 DEF RestartCorosync, Started
  <2>2. ViewsGrow /\ FilesWritten /\ RingsLoaded /\ NoNewMember
    BY <1>0, <2>1 DEF ViewsGrow, FilesWritten, RingsLoaded, NoNewMember, HaNodes, TypeOK
  <2>3. NothingCounted
    BY <1>0, <2>1 DEF NothingCounted, NoNewCount, Counting, TypeOK
  <2> QED BY <2>2, <2>3, RegisterKept
<1>5. ASSUME NEW v \in Unit, HanodeJoined(u, v) PROVE RegisterInv'
  <2>1. ViewsGrow
    BY <1>0, <1>5 DEF HanodeJoined, ViewsGrow, HaNodes, TypeOK
  <2>2. FilesWritten /\ RingsLoaded /\ NoNewMember /\ NothingCounted
    BY <1>5 DEF HanodeJoined, FilesWritten, RingsLoaded, NoNewMember, NothingCounted,
       NoNewCount, Counting
  <2> QED BY <2>1, <2>2, RegisterKept
<1>6. ~PacemakerDown(u) /\ \A v \in Unit : ~HanodeDeparted(u, v)
  BY NotInSteady DEF RegisterInv
<1> QED BY <1>1, <1>2, <1>3, <1>4, <1>5, <1>6, RegisterConfigure, RegisterFinish
        DEF HookStep, HaRelationChanged

LEMMA RegisterOperate ==
    ASSUME RegisterInv, [Next]_vars, NEW u \in Unit, Operate(u)
    PROVE  RegisterInv'
<1>0. TypeOK
  BY DEF RegisterInv, FollowInv
<1>1. CASE Install(u)
  <2>1. /\ conf' = [conf EXCEPT ![u] = HaNodes(u)] /\ ring' = [ring EXCEPT ![u] = conf'[u]]
        /\ UNCHANGED <<view, bag, at, event, counted>>
    BY <1>1 DEF Install
  <2> QED BY <1>0, <2>1, RegisterKept DEF ViewsGrow, FilesWritten, RingsLoaded,
          NothingCounted, NoNewCount, NoNewMember, Counting, HaNodes, TypeOK
<1>2. CASE LeaderElected(u) \/ HaDataChanges(u)
  BY <1>2, RegisterKept DEF LeaderElected, HaDataChanges, ViewsGrow, FilesWritten,
     RingsLoaded, NothingCounted, NoNewCount, NoNewMember, Counting, HaNodes
<1>3. CASE UpdateRing(u) \/ \E n \in Unit : DeleteNodeFromRing(u, n)
  <2>1. TriggerCorosyncUpdate(u) /\ UNCHANGED <<view, at, event, counted>>
    BY <1>3 DEF UpdateRing, DeleteNodeFromRing
  <2>2. NoNewMember
    BY <1>0, <2>1, PublishKeeps DEF TriggerCorosyncUpdate
  <2>3. conf' = [conf EXCEPT ![u] = HaNodes(u)] /\ (Reloaded(u) \/ UNCHANGED ring)
    BY <2>1 DEF TriggerCorosyncUpdate
  <2>4. ViewsGrow /\ FilesWritten /\ RingsLoaded
    BY <1>0, <2>1, <2>3 DEF ViewsGrow, FilesWritten, RingsLoaded, Reloaded, HaNodes, TypeOK
  <2>5. NothingCounted
    BY <2>1 DEF NothingCounted, NoNewCount, Counting
  <2> QED BY <2>2, <2>4, <2>5, RegisterKept
<1>4. /\ ~UpgradeCharm(u) /\ ~PauseUnit(u) /\ ~ResumeUnit(u) /\ ~UnitRemoved(u) /\ ~Stop(u)
  BY NotInSteady DEF RegisterInv
<1> QED BY <1>1, <1>2, <1>3, <1>4 DEF Operate

LEMMA RegisterStep ==
    Cardinality(Unit) <= ClusterCount /\ RegisterInv /\ [Next]_vars => RegisterInv'
<1> SUFFICES ASSUME Cardinality(Unit) <= ClusterCount, RegisterInv, [Next]_vars
             PROVE  RegisterInv'
  OBVIOUS
<1>1. ASSUME NEW m \in BOOLEAN, SetConfig(m) PROVE RegisterInv'
  BY <1>1, RegisterKept DEF SetConfig, ViewsGrow, FilesWritten, RingsLoaded,
     NothingCounted, NoNewCount, NoNewMember, Counting, HaNodes
<1>2. CASE UNCHANGED vars
  BY <1>2, RegisterKept DEF vars, ViewsGrow, FilesWritten, RingsLoaded,
     NothingCounted, NoNewCount, NoNewMember, Counting, HaNodes
<1>3. \A u \in Unit : ~Fault(u) /\ ~ServicesStart(u)
  BY NotInSteady DEF RegisterInv
<1> QED BY <1>1, <1>2, <1>3, RegisterHookStep, RegisterOperate DEF Next

\* A cluster that is formed at the start has all units in every ring.
LEMMA RegisterInit ==
    Without(Steady) /\ Cardinality(Unit) <= ClusterCount /\ Init => RegisterInv
<1> SUFFICES ASSUME Without(Steady), Cardinality(Unit) <= ClusterCount, Init
             PROVE  RegisterInv
  OBVIOUS
<1>1. FollowInv /\ EnoughInv
  BY FollowInit, EnoughInit
<1>2. PICK s \in Starts : InitFrom(s.formed)
  BY DEF Init
<1>3. s.formed \subseteq Unit /\ (s.formed = {} \/ Cardinality(s.formed) >= ClusterCount)
  BY StartsAssumption
<1>4. s.formed = {} \/ s.formed = Unit
  BY <1>3, EnoughIsAll
<1>5. CompleteMembers
  BY <1>2, <1>4 DEF InitFrom, CompleteMembers, Complete, MemberUnits, HaNodes
<1>6. CompleteHooks
  BY <1>2 DEF InitFrom, CompleteHooks, Counting
<1> QED BY <1>1, <1>5, <1>6 DEF RegisterInv

\* In an application of cluster_count units where no unit is paused, upgraded,
\* failing or leaving, the leader that goes on to configure the remote nodes
\* shares its ring with every member it has counted, however the hooks of the
\* units interleave and whoever leads (configure_pacemaker_remote_stonith_resource
\* behind get_member_ready_nodes). With more units than that it would not.
THEOREM RegisteredMembers ==
    ASSUME Without(Steady), Cardinality(Unit) <= ClusterCount
    PROVE  Spec => []MembersRegistered
<1>1. RegisterInv => MembersRegistered
  <2> SUFFICES ASSUME RegisterInv, NEW u \in Up, ConfiguresRemotes(u)
               PROVE  counted[u] \cap Up \subseteq Mates(ring, u)
    BY DEF MembersRegistered
  <2>1. u \in Unit /\ Counting(u)
    BY DEF Up, ConfiguresRemotes, Counting
  <2>2. counted[u] \subseteq MemberUnits \cup {u} /\ conf[u] = Unit
    BY <2>1 DEF RegisterInv, CompleteHooks, Complete
  <2>3. ring[u] = Unit
    BY <2>1, <2>2 DEF ConfiguresRemotes, RegisterInv, FollowInv, Follows
  <2>4. \A v \in MemberUnits \cup {u} : u \in ring[v]
    BY <2>1, <2>3 DEF RegisterInv, CompleteMembers
  <2> QED BY <2>2, <2>3, <2>4 DEF Mates, Up
<1>2. Init => RegisterInv
  BY RegisterInit
<1>3. RegisterInv /\ [Next]_vars => RegisterInv'
  BY RegisterStep
<1> QED BY <1>1, <1>2, <1>3, PTL DEF Spec

-----------------------------------------------------------------------------
(* No ring too early: what must stay away is whatever makes a unit write   *)
(* its file without asking how many peers are ready, and departures.       *)

Hasty == {"config", "upgrade", "stop", "lost", "repair", "delete"}

\* The nodelist names nobody else, or enough units.
Sized(u, S) == S \subseteq {u} \/ Cardinality(S) >= ClusterCount
RingsSized == \A u \in Unit : Sized(u, conf[u]) /\ Sized(u, ring[u])

\* Nobody has left, and who is not there knows nobody.
NobodyLeft ==
    \A u \in Unit : status[u] \in {"out", "up"} /\ (status[u] = "out" => view[u] = {})

\* There is no hook to write a file for and no request to reload for.
NoHaste ==
    \A u \in Unit :
        /\ at[u] # "reload" /\ event[u].kind # "config" /\ bag[u].trigger = 0
        /\ \A e \in due[u] : e.kind # "config"

EarlyInv == TypeOK /\ Spent(Hasty) /\ RingsSized /\ NobodyLeft /\ NoHaste

LEMMA HastyKinds == Hasty \subseteq Disturbances
  BY DEF Hasty, Disturbances

LEMMA NotInHaste ==
    ASSUME EarlyInv, NEW u \in Unit
    PROVE  /\ ~UpgradeCharm(u) /\ ~UnitRemoved(u) /\ ~Stop(u) /\ ~UnitLost(u)
           /\ ~UpdateRing(u) /\ \A n \in Unit : ~DeleteNodeFromRing(u, n)
           /\ ~ConfigChanged(u) /\ ~ReloadRing(u)
           /\ \A v \in Unit : ~HanodeDeparted(u, v)
           /\ \A e \in Event : ~TakeUpdateRequest(u, e)
           /\ \A m : ~SetConfig(m)
<1>1. \A kind : Spend(kind) => kind \notin Hasty
  BY SpendsOthers, HastyKinds DEF EarlyInv
<1>2. /\ ~UpgradeCharm(u) /\ ~UnitRemoved(u) /\ ~UnitLost(u)
      /\ \A m : ~SetConfig(m)
  BY <1>1 DEF UpgradeCharm, UnitRemoved, UnitLost, Leave, SetConfig, Hasty
<1>3. ~UpdateRing(u) /\ \A n \in Unit : ~DeleteNodeFromRing(u, n)
  BY DEF EarlyInv, Spent, Hasty, UpdateRing, DeleteNodeFromRing, TriggerCorosyncUpdate
<1>4. ~Stop(u) /\ \A v \in Unit : ~HanodeDeparted(u, v)
  BY DEF EarlyInv, NobodyLeft, Stop, HanodeDeparted, Departed
<1>5. ~ConfigChanged(u) /\ ~ReloadRing(u)
  BY DEF EarlyInv, NoHaste, ConfigChanged, ReloadRing, Dispatchable, ConfigEvent
<1>6. \A e \in Event : ~TakeUpdateRequest(u, e)
  BY DEF EarlyInv, NoHaste, TakeUpdateRequest, UpdateRequested, RequestId, Event
<1> QED BY <1>2, <1>3, <1>4, <1>5, <1>6

LEMMA TriggerKept ==
    ASSUME NEW b \in Bag
    PROVE  /\ [b EXCEPT !.ready = TRUE].trigger = b.trigger
           /\ [b EXCEPT !.ready = TRUE, !.member_ready = TRUE].trigger = b.trigger
  BY DEF Bag

\* What a hook publishes is no request, and the hooks it wakes are hanode's.
LEMMA PublishNoHaste ==
    ASSUME TypeOK, NoHaste, NEW u \in Unit, NEW b, NEW e,
           NEW owed \in {due, Taken(u, e)}, Publish(u, b, owed),
           \/ b = [bag[u] EXCEPT !.ready = TRUE]
           \/ b = [bag[u] EXCEPT !.ready = TRUE, !.member_ready = TRUE]
    PROVE  \A v \in Unit : bag'[v].trigger = 0 /\ \A d \in due'[v] : d.kind # "config"
<1>1. bag[u] \in Bag
  BY DEF TypeOK, Bag
<1>2. b.trigger = 0
  BY <1>1, TriggerKept DEF NoHaste
<1>3. ASSUME NEW v \in Unit PROVE bag'[v].trigger = 0
  BY <1>2 DEF Publish, NoHaste, TypeOK
<1>4. ASSUME NEW v \in Unit PROVE due'[v] \subseteq due[v] \cup {Changed(u)}
  <2>1. owed[v] \subseteq due[v]
    <3>1. Taken(u, e)[v] \subseteq due[v]
      BY DEF Taken, TypeOK
    <3> QED BY <3>1
  <2> QED BY <2>1 DEF Publish
<1>5. Changed(u).kind # "config"
  BY DEF Changed
<1> QED BY <1>3, <1>4, <1>5 DEF NoHaste

LEMMA EarlyHookStep ==
    ASSUME EarlyInv, NEW u \in Unit, HookStep(u)
    PROVE  RingsSized' /\ NobodyLeft' /\ NoHaste'
<1> USE DEF environment
<1>0. TypeOK /\ RingsSized /\ NobodyLeft /\ NoHaste
  BY DEF EarlyInv
<1>1. ASSUME NEW e \in Event, DeferConfiguration(u, e)
      PROVE  RingsSized' /\ NobodyLeft' /\ NoHaste'
  <2>1. /\ UNCHANGED <<conf, ring, status, view>>
        /\ at' = [at EXCEPT ![u] = "idle"] /\ event' = [event EXCEPT ![u] = e]
        /\ e.kind # "config"
        /\ Publish(u, [bag[u] EXCEPT !.ready = TRUE], Taken(u, e))
    BY <1>1 DEF DeferConfiguration, HookLeaves
  <2>2. NoHaste'
    BY <1>0, <2>1, PublishNoHaste DEF NoHaste, TypeOK
  <2> QED BY <1>0, <2>1, <2>2 DEF RingsSized, NobodyLeft
<1>2. ASSUME NEW e \in Event, ConfigureCorosync(u, e)
      PROVE  RingsSized' /\ NobodyLeft' /\ NoHaste'
  <2>1. /\ UNCHANGED <<ring, status, view, bag>>
        /\ conf' = [conf EXCEPT ![u] = HaNodes(u)]
        /\ \E step \in {"restart", "finish"} : at' = [at EXCEPT ![u] = step]
        /\ event' = [event EXCEPT ![u] = e] /\ e.kind # "config"
        /\ due' = Taken(u, e)
    BY <1>2 DEF ConfigureCorosync, WriteConf
  <2>2. Sized(u, HaNodes(u))
    <3>1. ClusterNodes(u) \subseteq HaNodes(u) /\ HaNodes(u) \in SUBSET Unit
      BY <1>0 DEF ClusterNodes, HaNodes, TypeOK
    <3>2. Cardinality(ClusterNodes(u)) >= ClusterCount
      BY <1>2 DEF ConfigureCorosync, EnoughNodes
    <3> QED BY <3>1, <3>2, LargerIsEnough DEF Sized
  <2>3. RingsSized'
    BY <1>0, <2>1, <2>2 DEF RingsSized, Sized, TypeOK
  <2>4. NoHaste'
    BY <1>0, <2>1 DEF NoHaste, Taken, TypeOK
  <2> QED BY <1>0, <2>1, <2>3, <2>4 DEF NobodyLeft
<1>3. CASE RestartCorosync(u) \/ PacemakerDown(u)
  <2>1. /\ UNCHANGED <<conf, status, view, bag, due, event>>
        /\ UNCHANGED ring \/ ring' = [ring EXCEPT ![u] = conf[u]]
        /\ \E step \in {"finish", "failed"} : at' = [at EXCEPT ![u] = step]
    BY <1>3 DEF RestartCorosync, Started, PacemakerDown
  <2>2. RingsSized'
    BY <1>0, <2>1 DEF RingsSized, Sized, TypeOK
  <2>3. \A v \in Unit : at'[v] # "reload"
    BY <1>0, <2>1 DEF NoHaste, TypeOK
  <2> QED BY <1>0, <2>1, <2>2, <2>3 DEF NobodyLeft, NoHaste
<1>4. CASE FinishHook(u)
  <2>1. /\ UNCHANGED <<conf, ring, status, view, event>>
        /\ at' = [at EXCEPT ![u] = "idle"]
        /\ Publish(u, [bag[u] EXCEPT !.ready = TRUE, !.member_ready = TRUE], due)
    BY <1>0, <1>4 DEF FinishHook, NoHaste
  <2>2. NoHaste'
    BY <1>0, <2>1, PublishNoHaste DEF NoHaste, TypeOK
  <2> QED BY <1>0, <2>1, <2>2 DEF RingsSized, NobodyLeft
<1>5. ASSUME NEW v \in Unit, HanodeJoined(u, v)
      PROVE  RingsSized' /\ NobodyLeft' /\ NoHaste'
  <2>1. /\ UNCHANGED <<conf, ring, status, bag, at, event>> /\ status[u] = "up"
        /\ view' = [view EXCEPT ![u] = @ \cup {v}]
        /\ due' = [due EXCEPT ![u] = @ \cup {Changed(v)}]
    BY <1>5 DEF HanodeJoined, Idle
  <2> QED BY <1>0, <2>1 DEF RingsSized, NobodyLeft, NoHaste, Changed, TypeOK
<1> QED BY <1>1, <1>2, <1>3, <1>4, <1>5, NotInHaste DEF HookStep, HaRelationChanged

LEMMA EarlyOther ==
    ASSUME EarlyInv, NEW u \in Unit, Fault(u) \/ Operate(u) \/ ServicesStart(u)
    PROVE  RingsSized' /\ NobodyLeft' /\ NoHaste'
<1> USE DEF environment
<1>0. TypeOK /\ RingsSized /\ NobodyLeft /\ NoHaste
  BY DEF EarlyInv
<1>1. CASE RestartFails(u) \/ HookFails(u) \/ ServicesStart(u)
  <2>1. /\ UNCHANGED <<conf, status, view, bag, due, event>>
        /\ \/ UNCHANGED ring
           \/ ring' = [ring EXCEPT ![u] = {}]
           \/ ring' = [ring EXCEPT ![u] = conf[u]]
        /\ UNCHANGED at \/ at' = [at EXCEPT ![u] = "failed"]
    BY <1>1 DEF RestartFails, HookFails, ServicesStart, Started
  <2>2. RingsSized'
    <3>1. Sized(u, {})
      BY DEF Sized
    <3>2. \A v \in Unit : ring'[v] = ring[v] \/ (v = u /\ ring'[v] \in {{}, conf[v]})
      BY <1>0, <2>1 DEF TypeOK
    <3> QED BY <1>0, <2>1, <3>1, <3>2 DEF RingsSized
  <2>3. \A v \in Unit : at'[v] \in {at[v], "failed"}
    BY <1>0, <2>1 DEF TypeOK
  <2> QED BY <1>0, <2>1, <2>2, <2>3 DEF NobodyLeft, NoHaste
<1>2. CASE UpdateRingFails(u) \/ PauseUnit(u) \/ ResumeUnit(u) \/ LeaderElected(u)
  BY <1>0, <1>2 DEF UpdateRingFails, PauseUnit, ResumeUnit, LeaderElected, RingsSized,
     NobodyLeft, NoHaste
<1>3. CASE HaDataChanges(u)
  BY <1>0, <1>3 DEF HaDataChanges, HaEvent, RingsSized, NobodyLeft, NoHaste, TypeOK
<1>4. CASE Install(u)
  <2>1. /\ UNCHANGED <<view, bag, at, event>> /\ view[u] = {}
        /\ status' = [status EXCEPT ![u] = "up"]
        /\ conf' = [conf EXCEPT ![u] = {u}] /\ ring' = [ring EXCEPT ![u] = {u}]
        /\ due' = [due EXCEPT ![u] = {HaEvent(u)}]
    BY <1>0, <1>4 DEF Install, HaNodes, NobodyLeft, TypeOK
  <2>2. RingsSized'
    BY <1>0, <2>1 DEF RingsSized, Sized, TypeOK
  <2> QED BY <1>0, <2>1, <2>2 DEF NobodyLeft, NoHaste, HaEvent, TypeOK
<1> QED BY <1>1, <1>2, <1>3, <1>4, NotInHaste DEF Fault, Operate

LEMMA EarlyStep == EarlyInv /\ [Next]_vars => EarlyInv'
<1> SUFFICES ASSUME EarlyInv, [Next]_vars PROVE EarlyInv'
  OBVIOUS
<1>1. TypeOK' /\ Spent(Hasty)'
  BY TypeStep, StaysSpent, HastyKinds DEF EarlyInv
<1>2. CASE UNCHANGED vars
  BY <1>2 DEF vars, EarlyInv, Spent, TypeOK, RingsSized, NobodyLeft, NoHaste
<1>3. \A m : ~SetConfig(m)
  BY NotInHaste DEF EarlyInv, TypeOK
<1>4. CASE Next
  BY <1>1, <1>3, <1>4, EarlyHookStep, EarlyOther DEF EarlyInv, Next
<1> QED BY <1>2, <1>4

LEMMA EarlyInit == Without(Hasty) /\ Init => EarlyInv
<1> SUFFICES ASSUME Without(Hasty), Init PROVE EarlyInv
  OBVIOUS
<1>1. TypeOK /\ Spent(Hasty)
  BY TypeInit, WithoutSpent
<1>2. PICK s \in Starts : InitFrom(s.formed)
  BY DEF Init
<1>3. RingsSized
  BY <1>2, StartsAssumption DEF InitFrom, RingsSized, Sized
<1>4. NobodyLeft /\ NoHaste
  BY <1>2 DEF InitFrom, NobodyLeft, NoHaste, HaEvent
<1> QED BY <1>1, <1>3, <1>4 DEF EarlyInv

\* No unit runs a ring with peers before cluster_count units are there, whatever
\* fails, is retried, paused or elected and however many units join, as long as
\* nothing but ha_relation_changed configures corosync (the threshold in
\* ha_relation_changed; config_changed, install and the ring repairs ask nothing).
THEOREM NoneTooEarly ==
    ASSUME Without(Hasty)
    PROVE  Spec => []NoRingTooEarly
<1>1. EarlyInv => NoRingTooEarly
  BY DEF EarlyInv, RingsSized, Sized, NoRingTooEarly, Up
<1> QED BY <1>1, EarlyInit, EarlyStep, PTL DEF Spec

-----------------------------------------------------------------------------
(* The repair of a ring. When nothing fails and one machine is lost of a   *)
(* cluster that was complete, update-ring reaches everybody: a ring that   *)
(* still names the lost unit belongs to a unit with something left to do.  *)

Calm == {"stop", "fail", "delete"}

OneLoss ==
    /\ budget["lost"] <= 1
    /\ \A g, h \in Departed : g = h /\ budget["lost"] = 0

\* The units that are left know, list and run with each other.
Together ==
    /\ \A u \in Unit : status[u] \in {"up", "gone"} /\ at[u] # "failed"
    /\ \A g \in Departed : ring[g] = {} /\ at[g] = "idle"
    /\ \A u \in Up : Up \subseteq HaNodes(u) \cap conf[u] \cap ring[u]

\* Before update-ring has anything to do, or until it is called: no request is
\* out, and pacemaker lists all units, a lost one too.
NothingAsked ==
    \A u \in Unit :
        /\ bag[u].trigger = 0 /\ kv[u] = 0 /\ at[u] # "reload"
        /\ u \in Up => nodes[u] = Unit

\* The unit has forgotten g; it is owed a hook that will find a request it has
\* not noted yet.
Rid(v, g) == g \notin view[v] \cup conf[v] \cup ring[v]
WillReload(v) ==
    \E l \in Up : Changed(l) \in due[v] /\ bag[l].trigger \notin {0, kv[v]}

\* After update-ring.
Clearing(g) ==
    /\ Departed = {g}
    /\ \A v \in Up :
        /\ g \notin nodes[v]
        /\ at[v] = "reload" => g \notin view[v]
        /\ Rid(v, g) \/ at[v] = "reload" \/ WillReload(v)

RepairInv ==
    /\ TypeOK /\ Spent(Calm) /\ OneLoss /\ Together
    /\ NothingAsked \/ \E g \in Unit : Clearing(g)

LEMMA CalmKinds == Calm \subseteq Disturbances
  BY DEF Calm, Disturbances

LEMMA UpOrDeparted ==
    ASSUME RepairInv, NEW u \in Unit
    PROVE  u \in Up <=> u \notin Departed
  BY DEF RepairInv, Together, Up, Departed

\* What does not happen when nothing fails and everybody knows everybody.
LEMMA NotInCalm ==
    ASSUME RepairInv, NEW u \in Unit
    PROVE  /\ ~RestartFails(u) /\ ~HookFails(u) /\ ~UpdateRingFails(u) /\ ~UnitRemoved(u)
           /\ \A n \in Unit : ~DeleteNodeFromRing(u, n)
           /\ ~Install(u) /\ ~Stop(u) /\ ~PacemakerDown(u) /\ ~ServicesStart(u)
           /\ \A v \in Unit : ~HanodeJoined(u, v)
<1>1. \A kind : Spend(kind) => kind \notin Calm
  BY SpendsOthers, CalmKinds DEF RepairInv
<1>2. /\ ~RestartFails(u) /\ ~HookFails(u) /\ ~UpdateRingFails(u) /\ ~UnitRemoved(u)
      /\ \A n \in Unit : ~DeleteNodeFromRing(u, n)
  <2>1. budget["delete"] = 0
    BY DEF RepairInv, Spent, Calm
  <2>2. \A n \in Unit : ~DeleteNodeFromRing(u, n)
    BY <2>1 DEF DeleteNodeFromRing
  <2> QED BY <1>1, <2>2 DEF RestartFails, HookFails, UpdateRingFails, UnitRemoved, Leave,
             Calm
<1>3. ~Install(u) /\ ~Stop(u)
  BY DEF RepairInv, Together, Install, Stop
<1>4. u \in Up => ring[u] # {}
  BY DEF RepairInv, Together
<1>5. ~ServicesStart(u)
  BY <1>4 DEF RepairInv, Together, ServicesStart, Up
<1>6. at[u] = "finish" => u \in Up
  BY UpOrDeparted DEF RepairInv, Together
<1>7. ~PacemakerDown(u)
  BY <1>4, <1>6 DEF PacemakerDown
<1>8. \A v \in Unit : ~HanodeJoined(u, v)
  BY DEF RepairInv, Together, HanodeJoined, Idle, Up, HaNodes
<1> QED BY <1>2, <1>3, <1>5, <1>7, <1>8

\* What a hook at u and its surroundings may do short of a loss and of
\* update-ring itself.
RestUntouched(u) ==
    /\ UNCHANGED status /\ budget'["lost"] = budget["lost"]
    /\ \A v \in Unit : bag'[v].trigger = bag[v].trigger
    /\ \A v \in Unit \ {u} :
        /\ view'[v] = view[v] /\ conf'[v] = conf[v] /\ kv'[v] = kv[v] /\ at'[v] = at[v]
        /\ due[v] \subseteq due'[v]

FilesFollow(u) ==
    /\ view[u] \ Departed \subseteq view'[u] /\ view'[u] \subseteq view[u]
    /\ conf'[u] \in {conf[u], view'[u] \cup {u}}
    /\ \A v \in Unit : ring'[v] = ring[v] \/ (v \in Up /\ ring'[v] = conf'[v])
    /\ nodes' \in {nodes, Merged(ring', nodes)}

Goes(u) == at'[u] = at[u] /\ kv'[u] = kv[u] /\ due[u] \subseteq due'[u] /\ view'[u] = view[u]
TakesUp(u) == ~NothingAsked /\ at'[u] = "reload" /\ view'[u] \cap Departed = {}
Handles(u) ==
    /\ at[u] # "reload" /\ at'[u] \notin {"reload", "failed"} /\ kv'[u] = kv[u]
    /\ \A l \in Up : Changed(l) \in due[u] \ due'[u] => bag[l].trigger \in {0, kv[u]}
Reloads(u) ==
    /\ at[u] = "reload" /\ at'[u] = "idle" /\ kv'[u] = kv[u] /\ view'[u] = view[u]
    /\ conf'[u] = view[u] \cup {u} /\ ring'[u] = conf'[u]

Routine(u) ==
    /\ RestUntouched(u) /\ FilesFollow(u)
    /\ Goes(u) \/ TakesUp(u) \/ Handles(u) \/ Reloads(u)

LEMMA RoutineTogether ==
    ASSUME RepairInv, NEW u \in Up, Routine(u)
    PROVE  OneLoss' /\ Together' /\ Up' = Up /\ Departed' = Departed
<1>1. u \in Unit /\ Up' = Up /\ Departed' = Departed
  BY DEF Routine, RestUntouched, Up, Departed
<1>2. OneLoss'
  BY <1>1 DEF RepairInv, OneLoss, Routine, RestUntouched
<1>3. \A v \in Unit : at'[v] # "failed" /\ (v # u => at'[v] = at[v])
  BY DEF RepairInv, Together, Routine, RestUntouched, Goes, TakesUp, Handles, Reloads
<1>4. \A g \in Departed : g \in Unit /\ g \notin Up /\ g # u
  BY DEF Up, Departed
<1>5. \A g \in Departed : ring'[g] = {} /\ at'[g] = "idle"
  BY <1>3, <1>4 DEF RepairInv, Together, Routine, FilesFollow
<1>6. ASSUME NEW v \in Up PROVE (Up \subseteq HaNodes(v) \cap conf[v] \cap ring[v])'
  <2>1. v \in Unit /\ Up \cap Departed = {}
    BY <1>4 DEF Up
  <2>2. Up \subseteq HaNodes(v) /\ Up \subseteq conf[v] /\ Up \subseteq ring[v]
    BY DEF RepairInv, Together
  <2>3. Up \subseteq view'[v] \cup {v}
    <3>1. CASE v = u
      BY <2>1, <2>2, <3>1 DEF Routine, FilesFollow, HaNodes
    <3>2. CASE v # u
      BY <2>1, <2>2, <3>2 DEF Routine, RestUntouched, HaNodes
    <3> QED BY <3>1, <3>2
  <2>4. Up \subseteq conf'[v]
    <3>1. CASE v = u
      BY <2>2, <2>3, <3>1 DEF Routine, FilesFollow
    <3>2. CASE v # u
      BY <2>1, <2>2, <3>2 DEF Routine, RestUntouched
    <3> QED BY <3>1, <3>2
  <2>5. Up \subseteq ring'[v]
    BY <2>1, <2>2, <2>4 DEF Routine, FilesFollow
  <2> QED BY <1>1, <2>3, <2>4, <2>5 DEF HaNodes
<1> QED BY <1>1, <1>2, <1>3, <1>5, <1>6 DEF RepairInv, Together, Routine, RestUntouched

\* Pacemaker's lists are merged among units that are up.
LEMMA MatesAreUp ==
    ASSUME RepairInv, NEW r, \A g \in Departed : r[g] = {}, NEW v \in Up
    PROVE  Mates(r, v) \cap Unit \subseteq Up
  BY UpOrDeparted DEF Mates

LEMMA MergedLists ==
    ASSUME TypeOK, TypeOK', RepairInv, NEW v \in Up, \A g \in Departed : ring'[g] = {},
           NEW n \in [Unit -> SUBSET Unit]
    PROVE  /\ n[v] \subseteq Merged(ring', n)[v]
           /\ \A g \in Departed : (\A w \in Up : g \notin n[w]) => g \notin Merged(ring', n)[v]
<1>1. v \in Unit
  BY DEF Up
<1>2. Mates(ring', v) \subseteq Up
  BY <1>1, MatesAreUp DEF Mates, TypeOK
<1>3. Merged(ring', n)[v] \in {n[v], n[v] \cup UNION {n[w] \cup {w} : w \in Mates(ring', v)}}
  BY <1>1 DEF Merged
<1>4. \A g \in Departed : g \notin Up
  BY DEF Up, Departed
<1> QED BY <1>2, <1>3, <1>4

LEMMA RoutineKeeps ==
    ASSUME RepairInv, TypeOK', Spent(Calm)', NEW u \in Up, Routine(u)
    PROVE  RepairInv'
<1>0. TypeOK /\ u \in Unit
  BY DEF RepairInv, Up
<1>1. OneLoss' /\ Together' /\ Up' = Up /\ Departed' = Departed
  BY RoutineTogether
<1>2. \A g \in Departed : ring'[g] = {}
  BY <1>1 DEF Together
<1>3. nodes \in [Unit -> SUBSET Unit] /\ nodes' \in [Unit -> SUBSET Unit]
  BY <1>0 DEF TypeOK
<1>4. CASE NothingAsked
  <2>1. Goes(u) \/ Handles(u)
    BY <1>0, <1>4 DEF Routine, TakesUp, Reloads, NothingAsked
  <2>2. \A v \in Unit : bag'[v].trigger = 0 /\ kv'[v] = 0 /\ at'[v] # "reload"
    BY <1>0, <1>4, <2>1 DEF NothingAsked, Routine, RestUntouched, Goes, Handles
  <2>3. \A v \in Up : v \in Unit /\ nodes[v] \subseteq nodes'[v]
    BY <1>0, <1>2, <1>3, MergedLists DEF Routine, FilesFollow, Up
  <2>4. \A v \in Up : nodes'[v] = Unit
    BY <1>3, <1>4, <2>3 DEF NothingAsked
  <2> QED BY <1>1, <2>2, <2>4 DEF NothingAsked, RepairInv
<1>5. ASSUME NEW g \in Unit, Clearing(g) PROVE Clearing(g)'
  <2>1. \A v \in Up : g \notin nodes'[v]
    BY <1>0, <1>2, <1>3, <1>5, MergedLists DEF Clearing, Routine, FilesFollow
  <2>2. g \notin Up /\ g # u
    BY <1>5, UpOrDeparted DEF Clearing
  <2>3. ASSUME NEW v \in Up, v # u
        PROVE  /\ at'[v] = "reload" => g \notin view'[v]
               /\ Rid(v, g)' \/ at'[v] = "reload" \/ WillReload(v)'
    <3>1. v \in Unit
      BY DEF Up
    <3>2. at'[v] = at[v] /\ view'[v] = view[v] /\ conf'[v] = conf[v]
      BY <2>3, <3>1 DEF Routine, RestUntouched
    <3>3. Rid(v, g) => Rid(v, g)'
      BY <3>1, <3>2 DEF Rid, Routine, FilesFollow
    <3>4. WillReload(v) => WillReload(v)'
      BY <1>1, <2>3, <3>1 DEF WillReload, Changed, Routine, RestUntouched, Up
    <3> QED BY <1>5, <3>2, <3>3, <3>4 DEF Clearing
  <2>4. /\ at'[u] = "reload" => g \notin view'[u]
        /\ Rid(u, g)' \/ at'[u] = "reload" \/ WillReload(u)'
    <3>1. at[u] = "reload" => g \notin view[u]
      BY <1>5 DEF Clearing
    <3>2. Rid(u, g) \/ at[u] = "reload" \/ WillReload(u)
      BY <1>5 DEF Clearing
    <3>3. Rid(u, g) => Rid(u, g)'
      BY <1>0, <2>2 DEF Rid, Routine, FilesFollow
    <3>4. \A l \in Up : bag'[l].trigger = bag[l].trigger
      BY DEF Routine, RestUntouched, Up
    <3>5. CASE Goes(u)
      <4>1. WillReload(u) => WillReload(u)'
        BY <1>1, <3>4, <3>5 DEF WillReload, Changed, Goes
      <4> QED BY <3>1, <3>2, <3>3, <3>5, <4>1 DEF Goes
    <3>6. CASE TakesUp(u)
      BY <1>5, <3>6 DEF TakesUp, Clearing
    <3>7. CASE Handles(u)
      <4>1. WillReload(u) => WillReload(u)'
        BY <1>1, <3>4, <3>7 DEF WillReload, Changed, Handles
      <4> QED BY <3>2, <3>3, <3>7, <4>1 DEF Handles
    <3>8. CASE Reloads(u)
      BY <2>2, <3>1, <3>8 DEF Reloads, Rid
    <3> QED BY <3>5, <3>6, <3>7, <3>8 DEF Routine
  <2> QED BY <1>1, <1>5, <2>1, <2>3, <2>4 DEF Clearing
<1> QED BY <1>1, <1>4, <1>5 DEF RepairInv

LEMMA OthersLoseNothing ==
    ASSUME TypeOK, UNCHANGED budget \/ \E kind : kind # "lost" /\ Spend(kind)
    PROVE  budget'["lost"] = budget["lost"]
  BY DEF TypeOK, Spend, Disturbances

\* A hook publishes no request and wakes others only.
LEMMA PublishQuietly ==
    ASSUME TypeOK, NEW u \in Unit, NEW b, NEW owed, Publish(u, b, owed),
           \A v \in Unit \ {u} : due[v] \subseteq owed[v],
           \/ b = HookLeaves(u)
           \/ b = [bag[u] EXCEPT !.ready = TRUE, !.member_ready = TRUE]
    PROVE  /\ \A v \in Unit : bag'[v].trigger = bag[v].trigger
           /\ \A v \in Unit \ {u} : due[v] \subseteq due'[v]
           /\ owed[u] \subseteq due'[u]
<1>1. \A v \in Unit : bag'[v].trigger = bag[v].trigger
  BY PublishLeavesRequest
<1>2. \A v \in Unit : owed[v] \subseteq due'[v]
  BY DEF Publish
<1> QED BY <1>1, <1>2

\* The request a unit has yet to note is never taken for an old one.
LEMMA KeepsOwedRequests ==
    ASSUME TypeOK, NEW u \in Unit, NEW e \in Event, ~UpdateRequested(u, e)
    PROVE  /\ \A l \in Up : Changed(l) \in due[u] \ Taken(u, e)[u] =>
                 bag[l].trigger \in {0, kv[u]}
           /\ \A v \in Unit \ {u} : due[v] \subseteq Taken(u, e)[v]
  BY DEF Taken, TypeOK, UpdateRequested, RequestId, Changed

LEMMA CalmDispatch ==
    ASSUME RepairInv, NEW u \in Unit, NEW e, Dispatchable(u, e)
    PROVE  u \in Up /\ at[u] = "idle" /\ view[u] \cap Departed = {}
  BY DEF RepairInv, Together, Dispatchable, Up

LEMMA RoutineHaRelationChanged ==
    ASSUME RepairInv, NEW u \in Unit, HaRelationChanged(u)
    PROVE  u \in Up /\ Routine(u)
<1> USE DEF environment
<1>0. TypeOK
  BY DEF RepairInv
<1>1. ASSUME NEW e \in Event, TakeUpdateRequest(u, e) PROVE u \in Up /\ Routine(u)
  <2>1. u \in Up /\ view[u] \cap Departed = {}
    BY <1>1, CalmDispatch DEF TakeUpdateRequest
  <2>2. /\ UNCHANGED <<status, view, bag, conf, ring, nodes, budget>>
        /\ kv' = [kv EXCEPT ![u] = RequestId(e)] /\ due' = Taken(u, e)
        /\ at' = [at EXCEPT ![u] = "reload"]
    BY <1>1 DEF TakeUpdateRequest
  <2>3. RestUntouched(u)
    BY <1>0, <2>2 DEF RestUntouched, Taken, TypeOK
  <2>4. TakesUp(u)
    <3>1. e.from \in Unit /\ bag[e.from].trigger # 0
      BY <1>1 DEF TakeUpdateRequest, UpdateRequested, RequestId, Event
    <3> QED BY <1>0, <2>1, <2>2, <3>1 DEF TakesUp, NothingAsked, TypeOK
  <2> QED BY <2>1, <2>2, <2>3, <2>4 DEF Routine, FilesFollow
<1>2. ASSUME NEW e \in Event, DeferConfiguration(u, e) PROVE u \in Up /\ Routine(u)
  <2>1. u \in Up /\ at[u] = "idle"
    BY <1>2, CalmDispatch DEF DeferConfiguration
  <2>2. /\ UNCHANGED <<status, view, kv, conf, ring, nodes, budget>>
        /\ Publish(u, HookLeaves(u), Taken(u, e)) /\ ~UpdateRequested(u, e)
        /\ at' = [at EXCEPT ![u] = "idle"]
    BY <1>2 DEF DeferConfiguration
  <2>3. /\ \A v \in Unit : bag'[v].trigger = bag[v].trigger
        /\ \A v \in Unit \ {u} : due[v] \subseteq due'[v]
        /\ Taken(u, e)[u] \subseteq due'[u]
    BY <1>0, <2>2, KeepsOwedRequests, PublishQuietly
  <2>4. RestUntouched(u)
    BY <1>0, <2>2, <2>3 DEF RestUntouched, TypeOK
  <2>5. Handles(u)
    BY <1>0, <2>1, <2>2, <2>3, KeepsOwedRequests DEF Handles, TypeOK
  <2> QED BY <2>1, <2>2, <2>4, <2>5 DEF Routine, FilesFollow
<1>3. ASSUME NEW e \in Event, ConfigureCorosync(u, e) PROVE u \in Up /\ Routine(u)
  <2>1. u \in Up /\ at[u] = "idle"
    BY <1>3, CalmDispatch DEF ConfigureCorosync
  <2>2. /\ UNCHANGED <<status, view, bag, kv, ring, nodes, budget>>
        /\ conf' = [conf EXCEPT ![u] = HaNodes(u)]
        /\ due' = Taken(u, e) /\ ~UpdateRequested(u, e)
        /\ \E step \in {"restart", "finish"} : at' = [at EXCEPT ![u] = step]
    BY <1>3 DEF ConfigureCorosync, WriteConf
  <2>3. RestUntouched(u)
    BY <1>0, <2>2, KeepsOwedRequests DEF RestUntouched, TypeOK
  <2>4. Handles(u)
    BY <1>0, <2>1, <2>2, KeepsOwedRequests DEF Handles, TypeOK
  <2>5. FilesFollow(u)
    BY <1>0, <2>2 DEF FilesFollow, HaNodes, TypeOK
  <2> QED BY <2>1, <2>3, <2>4, <2>5 DEF Routine
<1> QED BY <1>1, <1>2, <1>3 DEF HaRelationChanged

LEMMA RoutineHookStep ==
    ASSUME RepairInv, NEW u \in Unit, HookStep(u)
    PROVE  u \in Up /\ Routine(u)
<1> USE DEF environment
<1>0. TypeOK /\ (at[u] # "idle" => u \in Up)
  BY UpOrDeparted DEF RepairInv, Together
<1>1. CASE HaRelationChanged(u)
  BY <1>1, RoutineHaRelationChanged
<1>2. CASE ConfigChanged(u)
  <2>1. u \in Up /\ at[u] = "idle"
    BY <1>2, CalmDispatch DEF ConfigChanged
  <2>2. /\ UNCHANGED <<status, view, bag, kv, ring, nodes, budget>>
        /\ UNCHANGED conf \/ conf' = [conf EXCEPT ![u] = HaNodes(u)]
        /\ due' = Taken(u, ConfigEvent(u))
        /\ \E step \in {"idle", "restart", "finish"} : at' = [at EXCEPT ![u] = step]
    BY <1>2 DEF ConfigChanged, WriteConf
  <2>3. ~UpdateRequested(u, ConfigEvent(u)) /\ ConfigEvent(u) \in Event
    BY DEF UpdateRequested, ConfigEvent, Event
  <2>4. RestUntouched(u)
    BY <1>0, <2>2, <2>3, KeepsOwedRequests DEF RestUntouched, TypeOK
  <2>5. Handles(u)
    BY <1>0, <2>1, <2>2, <2>3, KeepsOwedRequests DEF Handles, TypeOK
  <2>6. FilesFollow(u)
    BY <1>0, <2>2 DEF FilesFollow, HaNodes, TypeOK
  <2> QED BY <2>1, <2>4, <2>5, <2>6 DEF Routine
<1>3. CASE ReloadRing(u)
  <2>1. ~Spend("fail")
    BY SpendsOthers, CalmKinds DEF RepairInv, Calm
  <2>2. /\ UNCHANGED <<status, view, kv, budget>> /\ at[u] = "reload"
        /\ conf' = [conf EXCEPT ![u] = HaNodes(u)] /\ at' = [at EXCEPT ![u] = "idle"]
        /\ Publish(u, HookLeaves(u), due) /\ Reloaded(u) /\ nodes' = Merged(ring', nodes)
    BY <1>3, <2>1 DEF ReloadRing
  <2>3. RestUntouched(u)
    BY <1>0, <2>2, PublishQuietly DEF RestUntouched, TypeOK
  <2>4. u \in Up /\ u \in Mates(ring, u) /\ Mates(ring, u) \subseteq Up
    <3>1. u \in Up /\ Mates(ring, u) \subseteq Unit
      BY <1>0, <2>2 DEF TypeOK, Mates
    <3>2. u \in ring[u] /\ \A g \in Departed : ring[g] = {}
      BY <3>1 DEF RepairInv, Together
    <3> QED BY <3>1, <3>2, MatesAreUp DEF Mates
  <2>5. FilesFollow(u)
    BY <1>0, <2>2, <2>4 DEF FilesFollow, Reloaded, HaNodes, TypeOK
  <2>6. Reloads(u)
    BY <1>0, <2>2, <2>4 DEF Reloads, Reloaded, HaNodes, TypeOK
  <2> QED BY <2>3, <2>4, <2>5, <2>6 DEF Routine
<1>4. CASE RestartCorosync(u)
  <2>1. /\ UNCHANGED <<status, view, bag, kv, due, conf, budget>> /\ at[u] = "restart"
        /\ ring' = [ring EXCEPT ![u] = conf[u]] /\ nodes' = Merged(ring', nodes)
        /\ at' = [at EXCEPT ![u] = "finish"]
    BY <1>4 DEF RestartCorosync, Started
  <2>2. RestUntouched(u) /\ Handles(u) /\ u \in Up
    BY <1>0, <2>1 DEF RestUntouched, Handles, TypeOK
  <2>3. FilesFollow(u)
    BY <1>0, <2>1, <2>2 DEF FilesFollow, TypeOK
  <2> QED BY <2>2, <2>3 DEF Routine
<1>5. CASE FinishHook(u)
  <2>1. /\ UNCHANGED <<status, view, kv, conf, ring, nodes, budget>> /\ at[u] = "finish"
        /\ at' = [at EXCEPT ![u] = "idle"]
        /\ \/ UNCHANGED <<bag, due>>
           \/ Publish(u, [bag[u] EXCEPT !.ready = TRUE, !.member_ready = TRUE], due)
    BY <1>5 DEF FinishHook
  <2>2. /\ \A v \in Unit : bag'[v].trigger = bag[v].trigger
        /\ \A v \in Unit : due[v] \subseteq due'[v]
    BY <1>0, <2>1, PublishQuietly
  <2>3. RestUntouched(u) /\ Handles(u) /\ u \in Up
    BY <1>0, <2>1, <2>2 DEF RestUntouched, Handles, TypeOK
  <2> QED BY <2>1, <2>3 DEF Routine, FilesFollow
<1>6. ASSUME NEW v \in Unit, HanodeDeparted(u, v) PROVE u \in Up /\ Routine(u)
  <2>1. u \in Up /\ at[u] = "idle" /\ v \in Departed /\ v \notin Up
    BY <1>6, UpOrDeparted DEF HanodeDeparted, Idle, Up
  <2>2. /\ UNCHANGED <<status, bag, kv, ring, nodes, at, budget>>
        /\ view' = [view EXCEPT ![u] = @ \ {v}] /\ due' = Taken(u, Changed(v))
        /\ UNCHANGED conf \/ conf' = [conf EXCEPT ![u] = view'[u] \cup {u}]
    BY <1>6 DEF HanodeDeparted
  <2>3. RestUntouched(u)
    BY <1>0, <2>2 DEF RestUntouched, Taken, TypeOK
  <2>4. Handles(u)
    BY <1>0, <2>1, <2>2 DEF Handles, Taken, Changed, TypeOK
  <2>5. FilesFollow(u)
    BY <1>0, <2>1, <2>2 DEF FilesFollow, TypeOK
  <2> QED BY <2>1, <2>3, <2>4, <2>5 DEF Routine
<1> QED BY <1>1, <1>2, <1>3, <1>4, <1>5, <1>6, NotInCalm DEF HookStep

\* Other hooks and the operator.
LEMMA RoutineOperate ==
    ASSUME RepairInv, NEW u \in Unit, Operate(u), ~UpdateRing(u)
    PROVE  u \in Up /\ Routine(u)
<1>0. TypeOK
  BY DEF RepairInv
<1>1. CASE UpgradeCharm(u)
  <2>1. /\ UNCHANGED <<status, view, bag, kv, due, ring, nodes, at>> /\ Spend("upgrade")
        /\ conf' = [conf EXCEPT ![u] = HaNodes(u)] /\ u \in Up
    BY <1>1 DEF UpgradeCharm, Idle, Up
  <2>2. budget'["lost"] = budget["lost"]
    BY <1>0, <2>1, OthersLoseNothing
  <2>3. RestUntouched(u) /\ Goes(u)
    BY <1>0, <2>1, <2>2 DEF RestUntouched, Goes, TypeOK
  <2>4. FilesFollow(u)
    BY <1>0, <2>1 DEF FilesFollow, HaNodes, TypeOK
  <2> QED BY <2>1, <2>3, <2>4 DEF Routine
<1>2. CASE PauseUnit(u) \/ ResumeUnit(u) \/ LeaderElected(u) \/ HaDataChanges(u)
  <2>1. /\ UNCHANGED <<status, view, bag, kv, conf, ring, nodes, at>> /\ u \in Up
        /\ UNCHANGED budget \/ Spend("pause") \/ Spend("leader") \/ Spend("ha")
        /\ UNCHANGED due \/ due' = [due EXCEPT ![u] = @ \cup {HaEvent(u)}]
    BY <1>2 DEF PauseUnit, ResumeUnit, LeaderElected, HaDataChanges, Idle, Up
  <2>2. budget'["lost"] = budget["lost"]
    BY <1>0, <2>1, OthersLoseNothing
  <2>3. ASSUME NEW v \in Unit PROVE due[v] \subseteq due'[v]
    <3>1. CASE UNCHANGED due
      BY <3>1
    <3>2. CASE due' = [due EXCEPT ![u] = @ \cup {HaEvent(u)}]
      BY <1>0, <3>2 DEF TypeOK
    <3> QED BY <2>1, <3>1, <3>2
  <2> QED BY <2>1, <2>2, <2>3 DEF Routine, RestUntouched, FilesFollow, Goes
<1> QED BY <1>1, <1>2, NotInCalm DEF Operate

\* The first call of update-ring by a leader that has heard of the loss: the
\* leader is rid of the node at once, its peers are owed a hook.
LEMMA RepairUpdateRing ==
    ASSUME RepairInv, TypeOK', Spent(Calm)', NEW u \in Unit, UpdateRing(u)
    PROVE  RepairInv'
<1>0. TypeOK /\ ~Spend("fail")
  BY SpendsOthers, CalmKinds DEF RepairInv, Calm
<1>1. /\ UNCHANGED <<status, view, at, budget>> /\ u \in Up /\ at[u] = "idle"
      /\ UnexpectedNodes(u) # {}
      /\ conf' = [conf EXCEPT ![u] = HaNodes(u)] /\ Reloaded(u)
      /\ Publish(u, [bag[u] EXCEPT !.trigger = request'], due)
      /\ request' = request + 1 /\ kv' = [kv EXCEPT ![u] = request']
      /\ nodes' = Merged(ring', WithoutNodes(u, UnexpectedNodes(u)))
  BY <1>0 DEF UpdateRing, TriggerCorosyncUpdate, CanRunRingAction, Idle, Up
<1>2. Up' = Up /\ Departed' = Departed /\ OneLoss'
  BY <1>1 DEF Up, Departed, RepairInv, OneLoss
<1>3. PICK g \in UnexpectedNodes(u) : g \in Departed
  <2>1. UnexpectedNodes(u) \subseteq Unit /\ UnexpectedNodes(u) \cap Up = {}
    BY <1>0, <1>1 DEF UnexpectedNodes, RepairInv, Together, TypeOK
  <2> QED BY <1>1, <2>1, UpOrDeparted
<1>4. g \in Unit /\ g \notin Up /\ g \in nodes[u] /\ g \notin HaNodes(u) /\ Departed = {g}
  BY <1>3 DEF Departed, Up, UnexpectedNodes, RepairInv, OneLoss
<1>5. NothingAsked
  BY <1>1, <1>4 DEF RepairInv, Clearing
<1>6. Mates(ring, u) = Up
  <2>1. \A v \in Up : v \in ring[u] /\ u \in ring[v]
    BY <1>1 DEF RepairInv, Together
  <2>2. Mates(ring, u) \subseteq Unit /\ \A d \in Departed : ring[d] = {}
    BY <1>0, <1>1 DEF Mates, RepairInv, Together, TypeOK
  <2> QED BY <1>1, <2>1, <2>2, MatesAreUp DEF Mates
<1>7. /\ \A v \in Up : ring'[v] = conf'[v]
      /\ ring'[g] = {}
  BY <1>1, <1>4, <1>6 DEF Reloaded, Up, RepairInv, Together
<1>8. \A v \in Unit : v # u => conf'[v] = conf[v] /\ kv'[v] = kv[v]
  BY <1>0, <1>1 DEF TypeOK
<1>9. conf'[u] = HaNodes(u)
  BY <1>0, <1>1 DEF TypeOK
<1>10. Together'
  <2>1. \A v \in Up : Up \subseteq conf'[v]
    BY <1>8, <1>9 DEF RepairInv, Together, Up
  <2> QED BY <1>1, <1>2, <1>4, <1>7, <2>1 DEF RepairInv, Together, HaNodes
<1>11. \A v \in Up : g \notin nodes'[v]
  <2> DEFINE n == WithoutNodes(u, UnexpectedNodes(u))
  <2>1. n \in [Unit -> SUBSET Unit]
    BY <1>0, WithoutNodesType
  <2>2. \A v \in Up : g \notin n[v]
    BY <1>3, <1>6 DEF WithoutNodes, Up
  <2>3. nodes' = Merged(ring', n)
    BY <1>1
  <2> HIDE DEF n
  <2> QED BY <1>0, <1>4, <1>7, <2>1, <2>2, <2>3, MergedLists
<1>12. request' # 0 /\ bag'[u].trigger = request'
  <2>1. bag[u] \in Bag
    BY <1>0, <1>1 DEF TypeOK, Bag
  <2>2. [bag[u] EXCEPT !.trigger = request'].trigger = request'
    BY <2>1 DEF Bag
  <2> QED BY <1>0, <1>1, <2>2 DEF Publish, TypeOK
<1>13. Rid(u, g)'
  BY <1>1, <1>4, <1>7, <1>9 DEF Rid, HaNodes
<1>14. ASSUME NEW v \in Up, v # u PROVE WillReload(v)'
  <2>1. v \in Unit /\ u \in view[v] /\ bag[u].trigger = 0 /\ kv'[v] = 0
    BY <1>1, <1>5, <1>8, <1>14 DEF Up, RepairInv, Together, HaNodes, NothingAsked
  <2>2. [bag[u] EXCEPT !.trigger = request'] # bag[u]
    <3>1. bag'[u] = [bag[u] EXCEPT !.trigger = request']
      BY <1>0, <1>1 DEF Publish, TypeOK
    <3> QED BY <1>12, <2>1, <3>1
  <2>3. Changed(u) \in due'[v]
    BY <1>1, <1>14, <2>1, <2>2 DEF Publish
  <2> QED BY <1>1, <1>2, <1>12, <2>1, <2>3 DEF WillReload, Changed
<1>15. Clearing(g)'
  <2>1. \A v \in Up : at'[v] # "reload"
    BY <1>1, <1>5 DEF NothingAsked, Up
  <2> QED BY <1>2, <1>4, <1>11, <1>13, <1>14, <2>1 DEF Clearing
<1> QED BY <1>2, <1>4, <1>10, <1>15 DEF RepairInv

LEMMA RepairLoss ==
    ASSUME RepairInv, TypeOK', Spent(Calm)', NEW u \in Unit, UnitLost(u)
    PROVE  RepairInv'
<1>0. TypeOK
  BY DEF RepairInv
<1>1. /\ UNCHANGED <<view, bag, kv, conf, nodes>> /\ status[u] = "up" /\ Spend("lost")
      /\ status' = [status EXCEPT ![u] = "gone"] /\ ring' = [ring EXCEPT ![u] = {}]
      /\ at' = [at EXCEPT ![u] = "idle"]
  BY DEF UnitLost, Leave
<1>2. budget["lost"] = 1 /\ budget'["lost"] = 0
  <2>1. budget["lost"] \in Nat /\ "lost" \in Disturbances
    BY <1>0 DEF TypeOK, Disturbances
  <2> QED BY <1>0, <1>1, <2>1 DEF Spend, RepairInv, OneLoss, TypeOK
<1>3. Departed = {}
  BY <1>2 DEF RepairInv, OneLoss
<1>4. Up' = Up \ {u} /\ Departed' = {u}
  BY <1>0, <1>1, <1>3 DEF Up, Departed, TypeOK
<1>5. NothingAsked
  BY <1>3 DEF RepairInv, Clearing
<1>6. NothingAsked'
  BY <1>0, <1>1, <1>4, <1>5 DEF NothingAsked, TypeOK
<1>7. OneLoss'
  BY <1>2, <1>4 DEF OneLoss
<1>8. \A v \in Unit : status'[v] \in {"up", "gone"} /\ at'[v] # "failed"
  BY <1>0, <1>1 DEF RepairInv, Together, TypeOK
<1>9. ring'[u] = {} /\ at'[u] = "idle"
  BY <1>0, <1>1 DEF TypeOK
<1>10. \A v \in Up' : Up' \subseteq view[v] \cup {v} /\ Up' \subseteq conf[v]
                      /\ Up' \subseteq ring'[v]
  BY <1>0, <1>1, <1>4 DEF RepairInv, Together, HaNodes, Up, TypeOK
<1>11. Together'
  BY <1>1, <1>4, <1>8, <1>9, <1>10 DEF Together, HaNodes
<1> QED BY <1>6, <1>7, <1>11 DEF RepairInv

LEMMA RepairStep == RepairInv /\ [Next]_vars => RepairInv'
<1> SUFFICES ASSUME RepairInv, [Next]_vars PROVE RepairInv'
  OBVIOUS
<1>1. TypeOK' /\ Spent(Calm)'
  BY TypeStep, StaysSpent, CalmKinds DEF RepairInv
<1>2. ASSUME NEW u \in Unit, HookStep(u) \/ Operate(u) PROVE RepairInv'
  BY <1>1, <1>2, RoutineHookStep, RoutineOperate, RoutineKeeps, RepairUpdateRing
<1>3. ASSUME NEW u \in Unit, Fault(u) PROVE RepairInv'
  BY <1>1, <1>3, NotInCalm, RepairLoss DEF Fault
<1>4. ASSUME NEW m \in BOOLEAN, SetConfig(m) PROVE RepairInv'
  <2>0. TypeOK
    BY DEF RepairInv
  <2>1. /\ UNCHANGED <<status, view, bag, kv, conf, ring, nodes, at>> /\ Spend("config")
        /\ \A v \in Unit : due[v] \subseteq due'[v]
    BY <1>4 DEF SetConfig
  <2>2. budget'["lost"] = budget["lost"]
    BY <2>0, <2>1, OthersLoseNothing
  <2>3. \A u \in Up : u \in Unit /\ Routine(u)
    BY <2>1, <2>2 DEF Routine, RestUntouched, FilesFollow, Goes, Up
  <2>4. CASE Up = {}
    <3>1. Up' = Up /\ Departed' = Departed /\ OneLoss'
      BY <2>1, <2>2 DEF Up, Departed, OneLoss, RepairInv
    <3>2. Together' /\ (NothingAsked => NothingAsked')
      BY <2>1, <2>4, <3>1 DEF RepairInv, Together, NothingAsked
    <3>3. \A g \in Unit : Clearing(g) => Clearing(g)'
      BY <2>4, <3>1 DEF Clearing
    <3> QED BY <1>1, <3>1, <3>2, <3>3 DEF RepairInv
  <2> QED BY <1>1, <2>3, <2>4, RoutineKeeps
<1>5. CASE UNCHANGED vars
  <2>1. Up' = Up /\ Departed' = Departed /\ OneLoss'
    BY <1>5 DEF vars, Up, Departed, OneLoss, RepairInv
  <2>2. Together' /\ (NothingAsked => NothingAsked')
    BY <1>5, <2>1 DEF vars, RepairInv, Together, NothingAsked, HaNodes
  <2>3. \A g \in Unit : Clearing(g) => Clearing(g)'
    BY <1>5, <2>1 DEF vars, Clearing, Rid, WillReload, Changed
  <2> QED BY <1>1, <2>1, <2>2, <2>3 DEF RepairInv
<1>6. \A u \in Unit : ~ServicesStart(u)
  BY NotInCalm
<1> QED BY <1>2, <1>3, <1>4, <1>5, <1>6 DEF Next

\* Every start is of a cluster that is complete and loses at most one machine.
CompleteLosingOne == \A s \in Starts : s.formed = Unit /\ s.budget["lost"] <= 1

LEMMA RepairInit == Without(Calm) /\ CompleteLosingOne /\ Init => RepairInv
<1> SUFFICES ASSUME Without(Calm), CompleteLosingOne, Init PROVE RepairInv
  OBVIOUS
<1>1. TypeOK /\ Spent(Calm)
  BY TypeInit, WithoutSpent
<1>2. PICK s \in Starts : InitFrom(s.formed) /\ budget = s.budget
  BY DEF Init
<1>3. s.formed = Unit /\ budget["lost"] <= 1
  BY <1>2 DEF CompleteLosingOne
<1>4. /\ \A u \in Unit : /\ status[u] = "up" /\ at[u] = "idle" /\ view[u] = Unit \ {u}
                         /\ conf[u] = Unit /\ ring[u] = Unit /\ nodes[u] = Unit
                         /\ bag[u].trigger = 0 /\ kv[u] = 0
  BY <1>2, <1>3 DEF InitFrom
<1>5. Up = Unit /\ Departed = {}
  BY <1>4 DEF Up, Departed
<1>6. Together /\ NothingAsked
  BY <1>4, <1>5 DEF Together, NothingAsked, HaNodes
<1>7. OneLoss
  BY <1>3, <1>5 DEF OneLoss
<1> QED BY <1>1, <1>6, <1>7 DEF RepairInv

\* When one machine is lost of a cluster that was complete and no hook or delete
\* fails, update-ring says "No changes required" on a leader that is through
\* with its hooks only when the rings of all units that are through as well are
\* rid of it: the request it sent before is never dropped on the way to a peer
\* (update_ring, is_update_ring_requested), whatever the order of hooks, options,
\* leaders, pauses and upgrades, and however many units there are.
THEOREM NoChangesAreClean ==
    ASSUME Without(Calm), CompleteLosingOne
    PROVE  Spec => []NoChangesMeansClean
<1>1. RepairInv => NoChangesMeansClean
  <2> SUFFICES ASSUME RepairInv, NEW u \in Unit, SaysNoChanges(u), Settled(u),
                      NEW v \in Mates(ring, u), Settled(v)
               PROVE  ring[v] \cap Departed = {}
    BY DEF NoChangesMeansClean
  <2>1. u \in Up /\ v \in Unit
    BY DEF SaysNoChanges, CanRunRingAction, Idle, Up, Mates, RepairInv, TypeOK
  <2>2. v \in Up
    BY <2>1, UpOrDeparted DEF RepairInv, Together, Mates
  <2>3. CASE NothingAsked
    <3>1. Unit \subseteq view[u] \cup {u}
      BY <2>1, <2>3 DEF NothingAsked, SaysNoChanges, UnexpectedNodes, HaNodes
    <3> QED BY <2>1, <3>1, UpOrDeparted DEF Settled, Departed
  <2>4. ASSUME NEW g \in Unit, Clearing(g) PROVE ring[v] \cap Departed = {}
    BY <2>2, <2>4 DEF Clearing, Settled, WillReload, Rid
  <2> QED BY <2>3, <2>4 DEF RepairInv
<1>2. Init => RepairInv
  BY RepairInit
<1>3. RepairInv /\ [Next]_vars => RepairInv'
  BY RepairStep
<1> QED BY <1>1, <1>2, <1>3, PTL DEF Spec

=============================================================================
