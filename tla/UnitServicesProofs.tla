-------------------------- MODULE UnitServicesProofs --------------------------
(* What holds of UnitServices for every value of its constants. *)
EXTENDS UnitServices, TLAPS

-----------------------------------------------------------------------------
(* Where a unit can be in a series upgrade: the strengthening all three    *)
(* properties need. That a notification names the old release, or that a   *)
(* unit which gets out of standby is through with its upgrade, does not    *)
(* follow from the types.                                                  *)

UpgradeStages == {"configuring", "enabling", "resuming", "finishing"}

\* A unit that prepares is on the old release, one that completes on the new one.
Progress(u) ==
    /\ job[u] = "prepare" => release[u] = Old /\ u \notin prepared
    /\ job[u] = "complete" => release[u] = New /\ u \notin upgrading
    /\ at[u] = "notifying" => job[u] = "prepare"
    /\ at[u] \in UpgradeStages => job[u] = "complete"
    /\ u \in upgrading => u \in prepared \/ job[u] = "prepare"
    /\ at[u] = "pausing" => u \in standby
    /\ at[u] \in {"pausing", "notifying"} => u \notin prepared

UpgradeInv == TypeOK /\ \A u \in Unit : Progress(u)

LEMMA SpendType ==
    ASSUME TypeOK, NEW kind \in Disturbances, Spend(kind)
    PROVE  /\ happened' \subseteq Disturbances /\ budget' \in [Disturbances -> Nat]
           /\ opened' \subseteq Unit
  BY DEF TypeOK, Spend

LEMMA InitUpgrade == Init => UpgradeInv
  BY BudgetAssumption, RetriesAssumption
     DEF Init, UpgradeInv, TypeOK, Progress, UpgradeStages, Old, New, Job, Stage, Hook

\* The hooks that look after the configuration.
LEMMA HooksUpgrade ==
    ASSUME UpgradeInv, NEW u \in Unit,
           \/ StopForPeer(u) \/ KeepWaiting(u) \/ SkipConfig(u)
           \/ \E hook \in Hook : Configure(u, hook)
    PROVE  UpgradeInv'
<1>1. /\ UNCHANGED <<pacemaker, paused, upgrading, release, prepared, notice, at, tries>>
      /\ \E hook \in Hook : job' = [job EXCEPT ![u] = hook] \/ job' = [job EXCEPT ![u] = "none"]
      /\ u \notin prepared /\ at[u] = "idle" /\ job[u] \in Hook \cup {"none"}
  BY DEF StopForPeer, KeepWaiting, SkipConfig, Configure, Configures, Runs, Succeeds, flags,
     UpgradeInv, TypeOK, Hook
<1>2. /\ up' \in [Unit -> BOOLEAN] /\ stale' \in [Unit -> BOOLEAN]
      /\ waiting' \subseteq Unit /\ due' \in [Unit -> SUBSET Hook]
  <2>1. CASE StopForPeer(u)
    BY <2>1 DEF StopForPeer, Succeeds, UpgradeInv, TypeOK
  <2>2. CASE KeepWaiting(u) \/ SkipConfig(u)
    BY <2>2 DEF KeepWaiting, SkipConfig, Succeeds, flags, services, UpgradeInv, TypeOK
  <2>3. ASSUME NEW hook \in Hook, Configure(u, hook)
        PROVE  /\ up' \in [Unit -> BOOLEAN] /\ stale' \in [Unit -> BOOLEAN]
               /\ waiting' \subseteq Unit /\ due' \in [Unit -> SUBSET Hook]
    BY <2>3 DEF Configure, Succeeds, flags, UpgradeInv, TypeOK
  <2> QED BY <2>1, <2>2, <2>3
<1>3. /\ happened' \subseteq Disturbances /\ budget' \in [Disturbances -> Nat]
      /\ opened' \subseteq Unit
  BY SpendType DEF StopForPeer, KeepWaiting, SkipConfig, Configure, bounds, UpgradeInv, TypeOK,
     Disturbances
<1>4. TypeOK'
  BY <1>1, <1>2, <1>3 DEF UpgradeInv, TypeOK, pacemaker, Job, Hook
<1>5. \A v \in Unit : Progress(v)'
  BY <1>1 DEF UpgradeInv, TypeOK, Progress, pacemaker, Hook, UpgradeStages
<1> QED BY <1>4, <1>5 DEF UpgradeInv

LEMMA PauseUpgrade ==
    ASSUME UpgradeInv, NEW u \in Unit,
           \/ PauseAction(u) \/ LookAgain(u) \/ EndPause(u)
           \/ ResumeAction(u) \/ ClearUnitPaused(u)
    PROVE  UpgradeInv'
<1>1. CASE PauseAction(u)
  <2>1. /\ happened' \subseteq Disturbances /\ budget' \in [Disturbances -> Nat]
        /\ opened' \subseteq Unit
    BY <1>1, SpendType DEF PauseAction, UpgradeInv, Disturbances
  <2>2. TypeOK'
    BY <1>1, <2>1, RetriesAssumption
       DEF UpgradeInv, TypeOK, PauseAction, EnterStandby, Goto, services, flags, Stage
  <2>3. \A v \in Unit : Progress(v)'
    BY <1>1 DEF UpgradeInv, TypeOK, Progress, PauseAction, EnterStandby, Goto, flags, UpgradeStages
  <2> QED BY <2>2, <2>3 DEF UpgradeInv
<1>2. CASE LookAgain(u)
  <2>1. tries' \in [Unit -> 0..PCMKR_MAX_RETRIES]
    BY <1>2, RetriesAssumption DEF UpgradeInv, TypeOK, LookAgain
  <2> QED BY <1>2, <2>1
       DEF UpgradeInv, TypeOK, Progress, LookAgain, services, pacemaker, flags, bounds
<1>3. CASE EndPause(u)
  <2>1. TypeOK'
    BY <1>3 DEF UpgradeInv, TypeOK, EndPause, Goto, services, pacemaker, bounds, Stage
  <2>2. \A v \in Unit : Progress(v)'
    BY <1>3 DEF UpgradeInv, TypeOK, Progress, EndPause, Goto, pacemaker, UpgradeStages
  <2> QED BY <2>1, <2>2 DEF UpgradeInv
<1>4. CASE ResumeAction(u)
  BY <1>4 DEF UpgradeInv, TypeOK, Progress, ResumeAction, LeaveStandby, Goto, services, flags,
     spending, Stage, UpgradeStages
<1>5. CASE ClearUnitPaused(u)
  <2>1. TypeOK'
    BY <1>5 DEF UpgradeInv, TypeOK, ClearUnitPaused, Goto, services, pacemaker, spending, Stage
  <2>2. \A v \in Unit : Progress(v)'
    BY <1>5 DEF UpgradeInv, TypeOK, Progress, ClearUnitPaused, Goto, pacemaker, UpgradeStages
  <2> QED BY <2>1, <2>2 DEF UpgradeInv
<1> QED BY <1>1, <1>2, <1>3, <1>4, <1>5

LEMMA PrepareUpgrade ==
    ASSUME UpgradeInv, NEW u \in Unit,
           SeriesUpgradePrepare(u) \/ NotifyPeers(u) \/ ReleaseUpgrade(u)
    PROVE  UpgradeInv'
<1>1. CASE SeriesUpgradePrepare(u)
  <2>1. /\ \/ at' = [at EXCEPT ![u] = "notifying"] /\ UNCHANGED <<standby, tries>>
           \/ /\ at' = [at EXCEPT ![u] = "pausing"] /\ standby' = standby \cup {u}
              /\ tries' = [tries EXCEPT ![u] = 0]
        /\ job' = [job EXCEPT ![u] = "prepare"] /\ upgrading' = upgrading \cup {u}
        /\ release[u] = Old /\ u \notin prepared
        /\ UNCHANGED <<services, held, paused, waiting, release, prepared, notice, due, bounds>>
    BY <1>1 DEF SeriesUpgradePrepare, EnterStandby, Goto
  <2>2. tries' \in [Unit -> 0..PCMKR_MAX_RETRIES] /\ at' \in [Unit -> Stage]
    BY <2>1, RetriesAssumption DEF UpgradeInv, TypeOK, Stage
  <2>3. TypeOK'
    BY <2>1, <2>2 DEF UpgradeInv, TypeOK, services, bounds, Job
  <2>4. \A v \in Unit : Progress(v)'
    BY <2>1 DEF UpgradeInv, TypeOK, Progress, UpgradeStages, Old, New
  <2> QED BY <2>3, <2>4 DEF UpgradeInv
<1>2. CASE NotifyPeers(u)
  <2>1. release[u] = Old
    BY <1>2 DEF NotifyPeers, UpgradeInv, Progress
  <2>2. TypeOK'
    BY <1>2, <2>1 DEF UpgradeInv, TypeOK, NotifyPeers, Tell, Goto, services, pacemaker, flags,
       bounds, Job, Stage, Hook
  <2>3. \A v \in Unit : Progress(v)'
    BY <1>2 DEF UpgradeInv, TypeOK, Progress, NotifyPeers, Goto, pacemaker, flags, UpgradeStages
  <2> QED BY <2>2, <2>3 DEF UpgradeInv
<1>3. CASE ReleaseUpgrade(u)
  <2>1. TypeOK'
    BY <1>3 DEF UpgradeInv, TypeOK, ReleaseUpgrade, flags, bounds
  <2>2. \A v \in Unit : Progress(v)'
    BY <1>3 DEF UpgradeInv, TypeOK, Progress, ReleaseUpgrade, flags, Old, New
  <2> QED BY <2>1, <2>2 DEF UpgradeInv
<1> QED BY <1>1, <1>2, <1>3

LEMMA CompleteUpgrade ==
    ASSUME UpgradeInv, NEW u \in Unit,
           \/ SeriesUpgradeComplete(u) \/ ConfigureUpgraded(u) \/ EnableHaServices(u)
           \/ ResumeUpgraded(u) \/ ClearNotification(u)
    PROVE  UpgradeInv'
<1>1. CASE SeriesUpgradeComplete(u)
  <2>1. TypeOK'
    BY <1>1 DEF UpgradeInv, TypeOK, SeriesUpgradeComplete, Goto, services, pacemaker, bounds,
       Job, Stage
  <2>2. \A v \in Unit : Progress(v)'
    BY <1>1 DEF UpgradeInv, TypeOK, Progress, SeriesUpgradeComplete, Goto, pacemaker,
       UpgradeStages, Old, New
  <2> QED BY <2>1, <2>2 DEF UpgradeInv
<1>2. CASE ConfigureUpgraded(u)
  <2>1. TypeOK'
    BY <1>2 DEF UpgradeInv, TypeOK, ConfigureUpgraded, Goto, pacemaker, flags, bounds, Stage,
       Restarts
  <2>2. \A v \in Unit : Progress(v)'
    BY <1>2 DEF UpgradeInv, TypeOK, Progress, ConfigureUpgraded, Goto, pacemaker, flags,
       UpgradeStages
  <2> QED BY <2>1, <2>2 DEF UpgradeInv
<1>3. CASE EnableHaServices(u)
  BY <1>3 DEF UpgradeInv, TypeOK, Progress, EnableHaServices, Goto, pacemaker, flags, bounds,
     Stage, UpgradeStages
<1>4. CASE ResumeUpgraded(u)
  BY <1>4 DEF UpgradeInv, TypeOK, Progress, ResumeUpgraded, LeaveStandby, Goto, services, flags,
     spending, Stage, UpgradeStages
<1>5. CASE ClearNotification(u)
  <2>1. TypeOK'
    BY <1>5 DEF UpgradeInv, TypeOK, ClearNotification, Tell, Goto, services, pacemaker, bounds,
       Job, Stage, Hook
  <2>2. at[u] = "finishing" /\ job[u] = "complete" /\ release[u] = New
    BY <1>5 DEF ClearNotification, UpgradeInv, Progress, UpgradeStages
  <2>3. u \notin upgrading
    BY <2>2 DEF UpgradeInv, Progress
  <2> QED BY <1>5, <2>1, <2>2, <2>3
      DEF UpgradeInv, TypeOK, Progress, ClearNotification, Goto, pacemaker, UpgradeStages
<1> QED BY <1>1, <1>2, <1>3, <1>4, <1>5

LEMMA AroundUpgrade ==
    ASSUME UpgradeInv, NEW u \in Unit,
           \/ HookFails(u) \/ ResourcesLeave(u) \/ ResourcesArrive(u) \/ OperatorStarts(u)
           \/ DataChanges(u, "config") \/ DataChanges(u, "ha") \/ PeerChanges(u)
    PROVE  UpgradeInv'
<1>1. CASE HookFails(u)
  <2>1. /\ happened' \subseteq Disturbances /\ budget' \in [Disturbances -> Nat]
        /\ opened' \subseteq Unit
    BY <1>1, SpendType DEF HookFails, UpgradeInv, Disturbances
  <2> QED BY <1>1, <2>1 DEF UpgradeInv, TypeOK, Progress, HookFails, Goto, services, pacemaker,
          flags, Stage, UpgradeStages
<1>2. CASE ResourcesLeave(u) \/ ResourcesArrive(u)
  BY <1>2 DEF UpgradeInv, TypeOK, Progress, ResourcesLeave, ResourcesArrive, services, flags,
     juju, bounds
<1>3. CASE OperatorStarts(u)
  BY <1>3 DEF UpgradeInv, TypeOK, Progress, OperatorStarts, pacemaker, flags, juju, bounds
<1>4. ASSUME NEW hook \in {"config", "ha"}, DataChanges(u, hook) PROVE UpgradeInv'
  <2>1. /\ happened' \subseteq Disturbances /\ budget' \in [Disturbances -> Nat]
        /\ opened' \subseteq Unit
    BY <1>4, SpendType DEF DataChanges, UpgradeInv, Disturbances
  <2>2. stale' \in [Unit -> BOOLEAN] /\ due' \in [Unit -> SUBSET Hook]
    BY <1>4 DEF DataChanges, UpgradeInv, TypeOK, Hook
  <2> QED BY <1>4, <2>1, <2>2 DEF UpgradeInv, TypeOK, Progress, DataChanges, pacemaker, flags
<1>5. CASE PeerChanges(u)
  <2>1. /\ happened' \subseteq Disturbances /\ budget' \in [Disturbances -> Nat]
        /\ opened' \subseteq Unit
    BY <1>5, SpendType DEF PeerChanges, UpgradeInv, Disturbances
  <2>2. stale' \in [Unit -> BOOLEAN] /\ due' \in [Unit -> SUBSET Hook]
    BY <1>5 DEF PeerChanges, Tell, UpgradeInv, TypeOK, Hook
  <2> QED BY <1>5, <2>1, <2>2 DEF UpgradeInv, TypeOK, Progress, PeerChanges, pacemaker, flags
<1> QED BY <1>1, <1>2, <1>3, <1>4, <1>5

LEMMA StepUpgrade == UpgradeInv /\ [Next]_vars => UpgradeInv'
<1>1. ASSUME UpgradeInv, UNCHANGED vars PROVE UpgradeInv'
  BY <1>1 DEF UpgradeInv, TypeOK, Progress, vars, services, pacemaker, flags, juju, bounds
<1> QED BY <1>1, HooksUpgrade, PauseUpgrade, PrepareUpgrade, CompleteUpgrade, AroundUpgrade
        DEF Next, HookStep, OperatorStep

LEMMA AlwaysUpgrade == Spec => []UpgradeInv
  BY InitUpgrade, StepUpgrade, PTL DEF Spec

\* Type correctness: among others, every notification names the old release.
THEOREM TypeCorrect == Spec => []TypeOK
<1>1. UpgradeInv => TypeOK
  BY DEF UpgradeInv
<1> QED BY <1>1, AlwaysUpgrade, PTL

\* However late a notification comes and however many units there are, it shuts
\* down nobody who is already on the newer release.
THEOREM NewStayUp == Spec => OnlyOldGoDown
<1>1. ASSUME UpgradeInv, [Next]_vars
      PROVE  [\A u \in Unit : up[u] /\ ~up'[u] => release[u] = Old]_vars
  <2> SUFFICES ASSUME NEW v \in Unit, up[v], ~up'[v] PROVE release[v] = Old
    OBVIOUS
  <2>1. ASSUME NEW u \in Unit, StopForPeer(u) PROVE release[v] = Old
    <3>1. u = v
      BY <1>1, <2>1 DEF StopForPeer, UpgradeInv, TypeOK
    <3>2. PICK w \in Unit : notice[w] # 0 /\ release[u] <= notice[w]
      BY <2>1 DEF StopForPeer, ShouldStop
    <3>3. notice[w] \in {0, 1} /\ release[u] \in {1, 2}
      BY <1>1 DEF UpgradeInv, TypeOK, Old, New
    <3>4. release[u] = 1
      BY <3>2, <3>3
    <3> QED BY <3>1, <3>4 DEF Old
  <2>2. ASSUME NEW u \in Unit, ReleaseUpgrade(u) PROVE release[v] = Old
    BY <1>1, <2>2 DEF ReleaseUpgrade, UpgradeInv, TypeOK
  <2>3. ASSUME NEW u \in Unit, NEW hook \in Hook, Configure(u, hook) PROVE FALSE
    <3>1. up'[v] = (up[v] \/ Restarts(v)) \/ up'[v] = up[v]
      BY <1>1, <2>3 DEF Configure, UpgradeInv, TypeOK
    <3> QED BY <3>1
  <2>4. ASSUME NEW u \in Unit,
               ConfigureUpgraded(u) \/ EnableHaServices(u) \/ OperatorStarts(u)
        PROVE  FALSE
    <3>1. up'[v] = up[v] \/ up'[v] = (up[v] \/ Restarts(v)) \/ up'[v] = TRUE
      BY <1>1, <2>4 DEF ConfigureUpgraded, EnableHaServices, OperatorStarts, UpgradeInv, TypeOK
    <3> QED BY <3>1
  <2>5. CASE UNCHANGED up
    BY <2>5
  <2> QED BY <1>1, <2>1, <2>2, <2>3, <2>4, <2>5
      DEF Next, HookStep, OperatorStep, vars, services, KeepWaiting, SkipConfig, LookAgain,
          EndPause, NotifyPeers, ResumeUpgraded, ClearUnitPaused, ClearNotification, PauseAction,
          ResumeAction, EnterStandby, SeriesUpgradePrepare, SeriesUpgradeComplete, HookFails, ResourcesLeave,
          ResourcesArrive, DataChanges, PeerChanges
<1> QED BY <1>1, AlwaysUpgrade, PTL DEF Spec, OnlyOldGoDown

-----------------------------------------------------------------------------
(* A paused unit is empty: pacemaker gives nothing to a node in standby,   *)
(* and a unit gets out of standby only by a resume.                        *)

LEMMA StepPaused == UpgradeInv /\ PausedIsEmpty /\ [Next]_vars => PausedIsEmpty'
<1> SUFFICES ASSUME UpgradeInv, PausedIsEmpty, [Next]_vars PROVE PausedIsEmpty'
  OBVIOUS
<1>1. ASSUME NEW u \in Unit, EndPause(u) PROVE PausedIsEmpty'
  BY <1>1 DEF EndPause, PausedWell, PausedIsEmpty, UpgradeInv, Progress, pacemaker, bounds
<1>2. ASSUME NEW u \in Unit, SeriesUpgradeComplete(u) PROVE PausedIsEmpty'
  BY <1>2 DEF SeriesUpgradeComplete, PausedIsEmpty, pacemaker, bounds
<1>3. ASSUME NEW u \in Unit,
             \/ ResourcesArrive(u) \/ ResourcesLeave(u) \/ ReleaseUpgrade(u)
             \/ PauseAction(u) \/ SeriesUpgradePrepare(u)
      PROVE  PausedIsEmpty'
  BY <1>3 DEF ResourcesArrive, ResourcesLeave, ReleaseUpgrade, PauseAction, SeriesUpgradePrepare,
     EnterStandby, Spend, PausedIsEmpty, flags, bounds
<1>4. ASSUME NEW u \in Unit, ResumeAction(u) \/ ResumeUpgraded(u) \/ ClearUnitPaused(u)
      PROVE  PausedIsEmpty'
  BY <1>4 DEF ResumeAction, ResumeUpgraded, LeaveStandby, ClearUnitPaused, PausedIsEmpty, flags,
     pacemaker
<1>5. CASE UNCHANGED <<paused, upgrading, standby, held, opened>>
  BY <1>5 DEF PausedIsEmpty
<1> QED BY <1>1, <1>2, <1>3, <1>4, <1>5
    DEF Next, HookStep, OperatorStep, vars, flags, pacemaker, StopForPeer, KeepWaiting,
        SkipConfig, Configure, LookAgain, NotifyPeers, ConfigureUpgraded, EnableHaServices,
        ClearNotification, OperatorStarts, HookFails, DataChanges, PeerChanges, Spend, bounds

\* A unit that is marked as paused runs no resources, unless it is being upgraded
\* or a resume has put it online and not ended well since: whatever else fails, and
\* whatever the number of units and of looks at the resources.
THEOREM PausedStaysEmpty == Spec => []PausedIsEmpty
<1>1. Init => PausedIsEmpty
  BY DEF Init, PausedIsEmpty
<1> QED BY <1>1, StepPaused, AlwaysUpgrade, PTL DEF Spec

-----------------------------------------------------------------------------
(* No mixed cluster. By itself the invariant says nothing of a unit that   *)
(* is down; what keeps it is that as soon as one unit is on the new        *)
(* release all that are not are waiting, and a waiting unit that is not    *)
(* upgraded is down and has no hook to run that would start it.            *)

Separation ==
    /\ \A u \in Unit : due[u] \subseteq {"hanode"}
    /\ \A u \in Unit : u \in waiting /\ release[u] = Old => ~up[u]
    /\ (\E u \in Unit : release[u] = New) =>
           \A v \in Unit : release[v] = Old => v \in waiting

SeparationInv == UpgradeInv /\ (Undisturbed => Separation)

LEMMA InitSeparation == Init => SeparationInv
  BY InitUpgrade DEF Init, SeparationInv, Separation, Old, New

LEMMA UndisturbedBefore == ASSUME [Next]_vars PROVE Undisturbed' => Undisturbed
<1>1. ASSUME NEW kind, Spend(kind) PROVE happened \subseteq happened'
  BY <1>1 DEF Spend
<1>2. happened \subseteq happened'
  BY <1>1 DEF Next, vars, bounds, spending, LeaveStandby, ClearUnitPaused, HookStep, OperatorStep, StopForPeer, KeepWaiting, SkipConfig,
     Configure, LookAgain, EndPause, NotifyPeers, ResumeUpgraded, ClearNotification,
     PauseAction, ResumeAction, SeriesUpgradePrepare, SeriesUpgradeComplete, HookFails,
     ResourcesLeave, ResourcesArrive, DataChanges, PeerChanges, ConfigureUpgraded,
     EnableHaServices, OperatorStarts, ReleaseUpgrade
<1> QED BY <1>2 DEF Undisturbed

\* What the hooks start and stop.
LEMMA HooksSeparate ==
    ASSUME UpgradeInv, Separation, NEW u \in Unit,
           \/ StopForPeer(u) \/ KeepWaiting(u) \/ SkipConfig(u)
           \/ \E hook \in Hook : Configure(u, hook)
           \/ OperatorStarts(u)
    PROVE  Separation'
<1>1. /\ UNCHANGED release
      /\ waiting \subseteq waiting'
      /\ \A v \in Unit : due'[v] \subseteq due[v]
  BY DEF StopForPeer, KeepWaiting, SkipConfig, Configure, OperatorStarts, Succeeds, flags, juju,
     UpgradeInv, TypeOK
<1>2. ASSUME NEW v \in Unit, v \in waiting', release[v] = Old PROVE ~up'[v]
  <2>1. CASE StopForPeer(u)
    <3>1. CASE v = u
      BY <2>1, <3>1 DEF StopForPeer, UpgradeInv, TypeOK
    <3>2. CASE v # u
      BY <1>2, <2>1, <3>2 DEF StopForPeer, Separation, UpgradeInv, TypeOK
    <3> QED BY <3>1, <3>2
  <2>2. CASE KeepWaiting(u) \/ SkipConfig(u)
    BY <1>2, <2>2 DEF KeepWaiting, SkipConfig, flags, services, Separation
  <2>3. ASSUME NEW hook \in Hook, Configure(u, hook) PROVE ~up'[v]
    <3>1. hook = "hanode" /\ u \notin waiting
      BY <2>3 DEF Configure, Configures, Runs, Separation
    <3>2. v # u /\ v \in waiting
      BY <1>2, <2>3, <3>1 DEF Configure, flags
    <3>3. up'[v] = up[v]
      BY <2>3, <3>2 DEF Configure, UpgradeInv, TypeOK
    <3> QED BY <1>2, <3>2, <3>3 DEF Separation
  <2>4. CASE OperatorStarts(u)
    <3>1. CASE job[u] = "complete"
      BY <1>2, <2>4, <3>1 DEF OperatorStarts, flags, Separation, UpgradeInv, Progress, TypeOK,
         Old, New
    <3>2. ASSUME NEW hook \in Hook, Configures(u, hook) PROVE v # u
      BY <1>2, <2>4, <3>2 DEF OperatorStarts, Configures, Runs, Separation, flags
    <3>3. CASE v # u
      BY <1>2, <2>4, <3>3 DEF OperatorStarts, flags, Separation, UpgradeInv, TypeOK
    <3> QED BY <2>4, <3>1, <3>2, <3>3 DEF OperatorStarts
  <2> QED BY <2>1, <2>2, <2>3, <2>4
<1> QED BY <1>1, <1>2 DEF Separation

LEMMA UpgradeSeparates ==
    ASSUME UpgradeInv, Separation, NEW u \in Unit,
           \/ NotifyPeers(u) \/ ReleaseUpgrade(u) \/ ConfigureUpgraded(u)
           \/ EnableHaServices(u) \/ ClearNotification(u) \/ PeerChanges(u)
    PROVE  Separation'
<1>1. CASE NotifyPeers(u) \/ PeerChanges(u)
  BY <1>1 DEF NotifyPeers, PeerChanges, Tell, Separation, services, flags
<1>2. CASE ReleaseUpgrade(u)
  BY <1>2 DEF ReleaseUpgrade, Separation, flags, UpgradeInv, TypeOK, Old, New
<1>3. CASE ConfigureUpgraded(u) \/ EnableHaServices(u)
  <2>1. release[u] = New
    BY <1>3 DEF ConfigureUpgraded, EnableHaServices, UpgradeInv, Progress, UpgradeStages
  <2>2. /\ UNCHANGED <<release, due, waiting>>
        /\ \A v \in Unit : v # u => up'[v] = up[v]
    BY <1>3 DEF ConfigureUpgraded, EnableHaServices, flags, UpgradeInv, TypeOK
  <2> QED BY <2>1, <2>2 DEF Separation, Old, New
<1>4. CASE ClearNotification(u)
  <2>1. release[u] = New
    BY <1>4 DEF ClearNotification, UpgradeInv, Progress, UpgradeStages
  <2> QED BY <1>4, <2>1 DEF ClearNotification, Tell, Separation, services, Old, New
<1> QED BY <1>1, <1>2, <1>3, <1>4

LEMMA StepSeparation == SeparationInv /\ [Next]_vars => SeparationInv'
<1> SUFFICES ASSUME SeparationInv, [Next]_vars PROVE SeparationInv'
  OBVIOUS
<1>1. UpgradeInv /\ UpgradeInv'
  BY StepUpgrade DEF SeparationInv
<1>2. SUFFICES ASSUME Undisturbed' PROVE Separation'
  BY <1>1 DEF SeparationInv
<1>3. Separation
  BY <1>2, UndisturbedBefore DEF SeparationInv
<1>4. ASSUME NEW u \in Unit PROVE ~DataChanges(u, "config") /\ ~DataChanges(u, "ha")
  BY <1>2 DEF DataChanges, Spend, Undisturbed
<1>5. CASE UNCHANGED <<release, due, waiting, up>>
  BY <1>3, <1>5 DEF Separation
<1> QED BY <1>1, <1>3, <1>4, <1>5, HooksSeparate, UpgradeSeparates
    DEF Next, HookStep, OperatorStep, vars, juju, flags, services, LookAgain, EndPause,
        ResumeUpgraded, ClearUnitPaused, PauseAction, ResumeAction, EnterStandby, LeaveStandby,
        SeriesUpgradePrepare, SeriesUpgradeComplete, HookFails, ResourcesLeave, ResourcesArrive

\* As long as neither config-changed nor an event of the ha relation reaches a
\* waiting unit, corosync never runs on units of two releases at a time, for any
\* number of units, kills and changes of the peers.
THEOREM ReleasesStayApart == Spec => []NoMixedCluster
<1>1. SeparationInv => NoMixedCluster
  BY DEF SeparationInv, Separation, NoMixedCluster, UpgradeInv, TypeOK
<1> QED BY <1>1, InitSeparation, StepSeparation, PTL DEF Spec
=============================================================================
