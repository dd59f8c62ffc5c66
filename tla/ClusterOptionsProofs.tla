------------------------- MODULE ClusterOptionsProofs -------------------------
(* What holds of ClusterOptions for every value of its constants. *)
EXTENDS ClusterOptions, TLAPS

LEMMA SpendType ==
    ASSUME TypeOK, NEW kind \in Disturbances, Spend(kind)
    PROVE  happened' \subseteq Disturbances /\ budget' \in [Disturbances -> Nat]
  BY DEF TypeOK, Spend

-----------------------------------------------------------------------------
(* The steps in three groups; what holds is shown for each of them.        *)

\* Commands of a hook, its start and its end, that succeed.
Command(u) ==
    \/ ConfigChanged(u) \/ HaRelationChanged(u) \/ CheckLeader(u)
    \/ ConfigureClusterGlobal(u) \/ CheckStonithFlag(u) \/ DisableStonith(u)
    \/ SetMaintenance(u) \/ SetQuorumPolicy(u) \/ ConfigureStonith(u)
    \/ DeferRemotes(u) \/ EnableStonith(u) \/ MarkStonithConfigured(u)

Failure(u) == HookFails(u) \/ LeaderSetRefused(u)

Around ==
    \/ \E u \in Unit :
         HaDataChanges(u) \/ LeaderElected(u) \/ PauseUnit(u) \/ ResumeUnit(u)
    \/ \E o \in Options : SetOption(o)
    \/ RemoteJoins \/ RemoteLeaves

LEMMA NextGroups ==
    Next <=> (\E u \in Unit : Command(u) \/ Failure(u)) \/ Around
  BY DEF Next, HookStep, Command, Failure, Around

\* A hook touches no unit but its own, and of the environment nothing.
LEMMA CommandFrame ==
    ASSUME TypeOK, NEW u \in Unit, Command(u)
    PROVE  /\ UNCHANGED environment
           /\ \A v \in Unit : v # u =>
                /\ at'[v] = at[v] /\ saved'[v] = saved[v] /\ due'[v] = due[v]
                /\ hook'[v] = hook[v] /\ seen'[v] = seen[v]
                /\ (v \in raced' <=> v \in raced)
  BY DEF TypeOK, Command, ConfigChanged, HaRelationChanged, Begin, End, Goto,
     CheckLeader, ConfigureClusterGlobal, CheckStonithFlag, DisableStonith,
     SetMaintenance, SetQuorumPolicy, ConfigureStonith, DeferRemotes,
     EnableStonith, MarkStonithConfigured

-----------------------------------------------------------------------------
(* Type correctness.                                                       *)

LEMMA InitType == Init => TypeOK
<1> SUFFICES ASSUME Init PROVE TypeOK
  OBVIOUS
<1>1. option \in Options
  BY PoliciesAssumption DEF Init, Options
<1>2. seen \in [Unit -> Options]
  BY <1>1 DEF Init
<1>3. budget \in [Disturbances -> Nat] /\ happened \subseteq Disturbances
  BY BudgetAssumption DEF Init
<1>4. cib \in [quorum : Policies, maintenance : BOOLEAN, stonith : BOOLEAN,
               resources : BOOLEAN]
  BY PoliciesAssumption DEF Init
<1> QED BY <1>1, <1>2, <1>3, <1>4 DEF Init, TypeOK, Hooks, Steps

LEMMA BeginType ==
    ASSUME TypeOK, NEW u \in Unit, ConfigChanged(u) \/ HaRelationChanged(u)
    PROVE  TypeOK'
<1>1. PICK h \in Hooks : Begin(u, h)
  BY DEF ConfigChanged, HaRelationChanged, Hooks
<1>2. /\ due' \in [Unit -> SUBSET Hooks]
      /\ hook' \in [Unit -> Hooks]
      /\ seen' \in [Unit -> Options]
      /\ raced' \subseteq Unit
  BY <1>1 DEF TypeOK, Begin
<1>3. /\ at' \in [Unit -> Steps]
      /\ saved' \in [Unit -> BOOLEAN]
  BY DEF TypeOK, ConfigChanged, HaRelationChanged, Goto, End, Steps, Options
<1>4. UNCHANGED <<cib, flag, option, leader, remote, paused, happened, budget>>
  BY DEF ConfigChanged, HaRelationChanged, environment
<1> QED BY <1>2, <1>3, <1>4 DEF TypeOK

LEMMA CommandType ==
    ASSUME TypeOK, NEW u \in Unit, Command(u)
    PROVE  TypeOK'
<1>1. CASE ConfigChanged(u) \/ HaRelationChanged(u)
  BY <1>1, BeginType
<1>2. CASE CheckLeader(u) \/ CheckStonithFlag(u)
  BY <1>2 DEF TypeOK, CheckLeader, CheckStonithFlag, AfterSetup, Goto, Steps, environment
<1>3. CASE ConfigureClusterGlobal(u) \/ DisableStonith(u)
  BY <1>3, PoliciesAssumption
  DEF TypeOK, ConfigureClusterGlobal, DisableStonith, AfterSetup, Goto, Steps, environment
<1>4. seen[u].quorum \in Policies /\ seen[u].maintenance \in BOOLEAN
  BY DEF TypeOK, Options
<1>5. CASE SetMaintenance(u) \/ SetQuorumPolicy(u)
  BY <1>4, <1>5 DEF TypeOK, SetMaintenance, SetQuorumPolicy, QuorumPolicy, Goto, End,
     Steps, environment
<1>6. CASE ConfigureStonith(u) \/ DeferRemotes(u)
  <2>1. cib' \in [quorum : Policies, maintenance : BOOLEAN, stonith : BOOLEAN,
                  resources : BOOLEAN]
    BY <1>6 DEF TypeOK, ConfigureStonith, DeferRemotes
  <2>2. at' \in [Unit -> Steps] /\ saved' \in [Unit -> BOOLEAN]
    BY <1>4, <1>6 DEF TypeOK, ConfigureStonith, DeferRemotes, Goto, End, Steps
  <2> QED BY <1>6, <2>1, <2>2 DEF TypeOK, ConfigureStonith, DeferRemotes, environment
<1>7. CASE EnableStonith(u) \/ MarkStonithConfigured(u)
  BY <1>4, <1>7 DEF TypeOK, EnableStonith, MarkStonithConfigured, Goto, End, Steps,
     environment
<1> QED BY <1>1, <1>2, <1>3, <1>5, <1>6, <1>7 DEF Command

LEMMA FailureType ==
    ASSUME TypeOK, NEW u \in Unit, Failure(u)
    PROVE  TypeOK'
<1>1. CASE HookFails(u)
  BY <1>1, SpendType DEF TypeOK, HookFails, Abort, Goto, Steps, Disturbances
<1>2. CASE LeaderSetRefused(u)
  BY <1>2 DEF TypeOK, LeaderSetRefused, Abort, Goto, Steps, environment
<1> QED BY <1>1, <1>2 DEF Failure

LEMMA AroundType == ASSUME TypeOK, Around PROVE TypeOK'
<1>1. ASSUME NEW u \in Unit, HaDataChanges(u) PROVE TypeOK'
  BY <1>1, SpendType DEF TypeOK, HaDataChanges, Unscheduled, Hooks, Disturbances
<1>2. ASSUME NEW u \in Unit, LeaderElected(u) PROVE TypeOK'
  BY <1>2, SpendType DEF TypeOK, LeaderElected, Unscheduled, Disturbances
<1>3. ASSUME NEW u \in Unit, PauseUnit(u) PROVE TypeOK'
  BY <1>3, SpendType DEF TypeOK, PauseUnit, Unscheduled, Disturbances
<1>4. ASSUME NEW u \in Unit, ResumeUnit(u) PROVE TypeOK'
  BY <1>4 DEF TypeOK, ResumeUnit, Unscheduled
<1>5. ASSUME NEW o \in Options, SetOption(o) PROVE TypeOK'
  BY <1>5, SpendType DEF TypeOK, SetOption, Unscheduled, Hooks, Disturbances
<1>6. CASE RemoteJoins
  BY <1>6, SpendType DEF TypeOK, RemoteJoins, Unscheduled, Hooks, Disturbances
<1>7. CASE RemoteLeaves
  BY <1>7, SpendType DEF TypeOK, RemoteLeaves, Unscheduled, Disturbances
<1>8. CASE \E u \in Unit :
              HaDataChanges(u) \/ LeaderElected(u) \/ PauseUnit(u) \/ ResumeUnit(u)
  BY <1>1, <1>2, <1>3, <1>4, <1>8
<1> QED BY <1>5, <1>6, <1>8, <1>7 DEF Around

LEMMA StepType == TypeOK /\ [Next]_vars => TypeOK'
<1>1. ASSUME TypeOK, UNCHANGED vars PROVE TypeOK'
  BY <1>1 DEF TypeOK, vars
<1> QED BY <1>1, NextGroups, CommandType, FailureType, AroundType

\* Type correctness, for any number of units and any policies.
THEOREM TypeCorrect == Spec => []TypeOK
  BY InitType, StepType, PTL DEF Spec

-----------------------------------------------------------------------------
(* What has happened stays in the books.                                   *)

LEMMA HappenedGrows ==
    ASSUME TypeOK, [Next]_vars
    PROVE  happened \subseteq happened'
<1>1. ASSUME NEW kind, Spend(kind) PROVE happened \subseteq happened'
  BY <1>1 DEF Spend
<1>2. ASSUME NEW u \in Unit, Command(u) \/ Failure(u) PROVE happened \subseteq happened'
  BY <1>1, <1>2, CommandFrame DEF environment, Failure, HookFails, LeaderSetRefused
<1>3. ASSUME Around PROVE happened \subseteq happened'
  BY <1>1, <1>3 DEF Around, HaDataChanges, LeaderElected, PauseUnit, ResumeUnit, SetOption,
     RemoteJoins, RemoteLeaves
<1> QED BY <1>2, <1>3, NextGroups DEF vars

-----------------------------------------------------------------------------
(* Who disables stonith.                                                   *)

\* Commands that only the leader's hooks reach, until they end.
LeadersSteps == {"global", "flag", "disable", "stonith", "enable", "mark"}

\* A hook during which the lease has not moved is the leader's where it must be,
\* and where it is about to disable stonith there is still no flag.
UnderItsLease(u) ==
    /\ at[u] \in LeadersSteps => leader = u
    /\ at[u] = "disable" => ~flag

LeaseInv == TypeOK /\ \A u \in Unit \ raced : UnderItsLease(u)

LEMMA LeaseInit == Init => LeaseInv
  BY InitType DEF Init, LeaseInv, UnderItsLease, LeadersSteps

\* The flag is set by the leader, at the end of its hook, and never cleared here.
LEMMA FlagStep ==
    ASSUME TypeOK, NEW u \in Unit, Command(u)
    PROVE  flag' = flag \/ (leader = u /\ at'[u] = "idle")
  BY DEF TypeOK, Command, ConfigChanged, HaRelationChanged, Begin, End, Goto,
     CheckLeader, ConfigureClusterGlobal, CheckStonithFlag, DisableStonith,
     SetMaintenance, SetQuorumPolicy, ConfigureStonith, DeferRemotes,
     EnableStonith, MarkStonithConfigured

LEMMA LeaseOwn ==
    ASSUME LeaseInv, NEW u \in Unit, Command(u), u \notin raced'
    PROVE  UnderItsLease(u)'
<1>1. TypeOK /\ leader' = leader
  BY CommandFrame DEF LeaseInv, environment
<1>2. CASE ConfigChanged(u) \/ HaRelationChanged(u)
  <2>1. at'[u] \in {"idle", "setup"} \/ (at'[u] = "global" /\ leader = u)
    BY <1>1, <1>2 DEF TypeOK, ConfigChanged, HaRelationChanged, Goto, End
  <2> QED BY <1>1, <2>1 DEF UnderItsLease, LeadersSteps
<1>3. CASE ~(ConfigChanged(u) \/ HaRelationChanged(u))
  <2>1. raced' = raced
    BY <1>3 DEF Command, CheckLeader, ConfigureClusterGlobal, CheckStonithFlag,
       DisableStonith, SetMaintenance, SetQuorumPolicy, ConfigureStonith, DeferRemotes,
       EnableStonith, MarkStonithConfigured
  <2>2. UnderItsLease(u)
    BY <2>1 DEF LeaseInv
  <2>3. CASE CheckLeader(u) \/ CheckStonithFlag(u)
    <3>1. /\ at'[u] \in LeadersSteps => leader = u
          /\ at'[u] = "disable" => ~flag /\ flag' = flag
      BY <1>1, <2>2, <2>3 DEF TypeOK, CheckLeader, CheckStonithFlag, AfterSetup, Goto,
         UnderItsLease, LeadersSteps
    <3> QED BY <1>1, <3>1 DEF UnderItsLease
  <2>4. CASE ~(CheckLeader(u) \/ CheckStonithFlag(u))
    <3>1. /\ at'[u] \in LeadersSteps => at[u] \in LeadersSteps
          /\ at'[u] # "disable"
      BY <1>1, <1>3, <2>4 DEF TypeOK, Command, ConfigureClusterGlobal, DisableStonith,
         SetMaintenance, SetQuorumPolicy, ConfigureStonith, DeferRemotes, EnableStonith,
         MarkStonithConfigured, AfterSetup, Goto, End, LeadersSteps
    <3> QED BY <1>1, <2>2, <3>1 DEF UnderItsLease
  <2> QED BY <2>3, <2>4
<1> QED BY <1>2, <1>3

LEMMA LeaseCommand ==
    ASSUME LeaseInv, NEW u \in Unit, Command(u), NEW v \in Unit \ raced'
    PROVE  UnderItsLease(v)'
<1>1. CASE v = u
  BY <1>1, LeaseOwn
<1>2. CASE v # u
  <2>1. TypeOK /\ leader' = leader /\ at'[v] = at[v] /\ UnderItsLease(v)
    BY <1>2, CommandFrame DEF LeaseInv, environment
  <2>2. at[v] = "disable" => flag' = flag
    BY <1>2, <2>1, FlagStep DEF UnderItsLease, LeadersSteps
  <2> QED BY <2>1, <2>2 DEF UnderItsLease
<1> QED BY <1>1, <1>2

LEMMA LeaseFailure ==
    ASSUME LeaseInv, NEW u \in Unit, Failure(u), NEW v \in Unit \ raced'
    PROVE  UnderItsLease(v)'
<1>1. UNCHANGED <<leader, flag, raced>> /\ at' = [at EXCEPT ![u] = "idle"]
  BY DEF Failure, HookFails, LeaderSetRefused, Abort, Goto, environment
<1> QED BY <1>1 DEF LeaseInv, TypeOK, UnderItsLease, LeadersSteps

LEMMA LeaseAround ==
    ASSUME LeaseInv, Around, NEW v \in Unit \ raced'
    PROVE  UnderItsLease(v)'
<1>1. CASE \E u \in Unit : LeaderElected(u)
  <2>1. at'[v] = "idle"
    BY <1>1 DEF LeaderElected
  <2> QED BY <2>1 DEF UnderItsLease, LeadersSteps
<1>2. CASE ~\E u \in Unit : LeaderElected(u)
  <2>1. UNCHANGED <<leader, flag, raced, at>>
    BY <1>2 DEF Around, HaDataChanges, PauseUnit, ResumeUnit, SetOption, RemoteJoins,
       RemoteLeaves, Unscheduled
  <2> QED BY <2>1 DEF LeaseInv, UnderItsLease
<1> QED BY <1>1, <1>2

LEMMA LeaseStep == LeaseInv /\ [Next]_vars => LeaseInv'
<1> SUFFICES ASSUME LeaseInv, [Next]_vars PROVE LeaseInv'
  OBVIOUS
<1>1. TypeOK'
  BY StepType DEF LeaseInv
<1>2. SUFFICES ASSUME NEW v \in Unit \ raced' PROVE UnderItsLease(v)'
  BY <1>1 DEF LeaseInv
<1>3. CASE UNCHANGED vars
  BY <1>3 DEF vars, LeaseInv, UnderItsLease
<1> QED BY <1>3, NextGroups, LeaseCommand, LeaseFailure, LeaseAround

LEMMA DisablingStep ==
    ASSUME LeaseInv, [Next]_vars, flag, cib.stonith, ~cib'.stonith
    PROVE  \E u \in Unit :
              /\ at'[u] # at[u]
              /\ u \in raced \/ (at[u] = "stonith" /\ ~remote)
<1>1. TypeOK
  BY DEF LeaseInv
<1>2. ~UNCHANGED vars /\ ~Around
  BY DEF vars, Around, HaDataChanges, LeaderElected, PauseUnit, ResumeUnit, SetOption,
     RemoteJoins, RemoteLeaves, Unscheduled
<1>3. PICK u \in Unit : Command(u) \/ Failure(u)
  BY <1>2, NextGroups
<1>4. ~Failure(u)
  BY DEF Failure, HookFails, LeaderSetRefused, Abort
<1>5. DisableStonith(u) \/ (ConfigureStonith(u) /\ ~remote)
  BY <1>1, <1>3, <1>4 DEF TypeOK, Command, ConfigChanged, HaRelationChanged, CheckLeader,
     ConfigureClusterGlobal, CheckStonithFlag, SetMaintenance, SetQuorumPolicy,
     ConfigureStonith, DeferRemotes, EnableStonith, MarkStonithConfigured
<1>6. CASE DisableStonith(u)
  <2>1. at[u] = "disable" /\ at'[u] # "disable"
    BY <1>1, <1>6 DEF DisableStonith, AfterSetup, Goto, TypeOK
  <2>2. u \in raced
    BY <2>1 DEF LeaseInv, UnderItsLease
  <2> QED BY <2>1, <2>2
<1>7. CASE ConfigureStonith(u) /\ ~remote
  <2>1. at[u] = "stonith" /\ at'[u] = "idle"
    BY <1>1, <1>7 DEF ConfigureStonith, Goto, End, TypeOK
  <2> QED BY <1>7, <2>1
<1> QED BY <1>5, <1>6, <1>7

\* Stonith that is enabled and marked as configured is disabled only by a hook that
\* finds no remote or during which the lease has moved (run_initial_setup,
\* configure_stonith), whatever else fails, is retried, paused or interleaved, for
\* any number of units, leaders and disturbances.
THEOREM StonithStays == Spec => StonithKept
<1>1. LeaseInv /\ [Next]_vars =>
        (flag /\ cib.stonith /\ ~cib'.stonith =>
            \E u \in Unit :
               /\ at'[u] # at[u]
               /\ u \in raced \/ (at[u] = "stonith" /\ ~remote))
  BY DisablingStep
<1> QED BY <1>1, LeaseInit, LeaseStep, PTL DEF Spec, StonithKept

-----------------------------------------------------------------------------
(* Maintenance mode. The leader compares the option with the one it saved, *)
(* so what it saved must be what the CIB has; and a change it has not seen *)
(* must still be owed to it.                                               *)

\* As nothing but options has changed, hooks are config-changed and complete.
OnlyConfigChanged ==
    \A u \in Unit :
        /\ ~paused[u] /\ due[u] \subseteq {"config"} /\ hook[u] = "config"
        /\ at[u] \notin {"stonith", "enable", "mark"}

\* What the leader has saved is in force; the hook that has just changed it is
\* about to save it.
SavedInForce ==
    cib.maintenance = IF at[leader] = "quorum" THEN seen[leader].maintenance
                                               ELSE saved[leader]

\* A change is owed to the leader, in its hook, or saved.
ChangeComes ==
    \/ "config" \in due[leader]
    \/ option.maintenance = IF at[leader] = "idle" THEN saved[leader]
                                                   ELSE seen[leader].maintenance

MaintenanceInv ==
    TypeOK /\ (Undisturbed => OnlyConfigChanged /\ SavedInForce /\ ChangeComes)

LEMMA MaintenanceInit == Init => MaintenanceInv
  BY InitType DEF Init, MaintenanceInv, OnlyConfigChanged, SavedInForce, ChangeComes

LEMMA MaintenanceCommand ==
    ASSUME TypeOK, OnlyConfigChanged, SavedInForce, ChangeComes, NEW u \in Unit, Command(u)
    PROVE  OnlyConfigChanged' /\ SavedInForce' /\ ChangeComes'
<1>1. ~HaRelationChanged(u) /\ ~ConfigureStonith(u) /\ ~DeferRemotes(u)
  BY DEF OnlyConfigChanged, HaRelationChanged, Begin, ConfigureStonith, DeferRemotes
<1>2. ~EnableStonith(u) /\ ~MarkStonithConfigured(u)
  BY DEF OnlyConfigChanged, EnableStonith, MarkStonithConfigured
<1>3. UNCHANGED <<option, leader, paused>> /\ leader \in Unit
  BY CommandFrame DEF environment, TypeOK
<1>4. CASE ConfigChanged(u)
  <2>1. ~paused[u]
    BY DEF OnlyConfigChanged
  <2>2. /\ at[u] = "idle" /\ at'[u] = "setup" /\ hook'[u] = "config"
        /\ due'[u] = due[u] \ {"config"} /\ seen'[u] = option
        /\ UNCHANGED <<saved, cib>>
    BY <1>4, <2>1 DEF ConfigChanged, Begin, Goto, TypeOK
  <2> QED BY <1>3, <2>2, CommandFrame DEF OnlyConfigChanged, SavedInForce, ChangeComes
<1>5. CASE \/ CheckLeader(u) \/ ConfigureClusterGlobal(u) \/ CheckStonithFlag(u)
           \/ DisableStonith(u)
  <2>1. /\ at[u] \notin {"idle", "quorum"}
        /\ at'[u] \in {"global", "flag", "disable", "maintenance"}
        /\ UNCHANGED <<saved, due, hook, seen>> /\ cib'.maintenance = cib.maintenance
    BY <1>5 DEF CheckLeader, ConfigureClusterGlobal, CheckStonithFlag, DisableStonith,
       AfterSetup, OnlyConfigChanged, Goto, TypeOK
  <2> QED BY <1>3, <2>1, CommandFrame DEF OnlyConfigChanged, SavedInForce, ChangeComes
<1>6. CASE SetMaintenance(u)
  <2>1. /\ at[u] = "maintenance" /\ at'[u] = "quorum"
        /\ UNCHANGED <<saved, due, hook, seen>>
    BY <1>6 DEF SetMaintenance, Goto, TypeOK
  <2>2. u # leader => cib' = cib
    BY <1>6 DEF SetMaintenance
  <2>3. u = leader => cib'.maintenance = seen[u].maintenance
    BY <1>6, <2>1 DEF SetMaintenance, MaintenanceChanged, SavedInForce, TypeOK
  <2> QED BY <1>3, <2>1, <2>2, <2>3, CommandFrame
          DEF OnlyConfigChanged, SavedInForce, ChangeComes
<1>7. CASE SetQuorumPolicy(u)
  <2>1. /\ at[u] = "quorum" /\ at'[u] = "idle" /\ saved'[u] = seen[u].maintenance
        /\ UNCHANGED <<due, hook, seen>> /\ cib'.maintenance = cib.maintenance
    BY <1>7 DEF SetQuorumPolicy, Goto, End, TypeOK
  <2> QED BY <1>3, <2>1, CommandFrame DEF OnlyConfigChanged, SavedInForce, ChangeComes
<1> QED BY <1>1, <1>2, <1>4, <1>5, <1>6, <1>7 DEF Command

LEMMA MaintenanceAround ==
    ASSUME TypeOK, OnlyConfigChanged, SavedInForce, ChangeComes, Undisturbed', Around
    PROVE  OnlyConfigChanged' /\ SavedInForce' /\ ChangeComes'
<1>1. ASSUME NEW kind, Spend(kind) PROVE kind = "config"
  BY <1>1 DEF Spend, Undisturbed
<1>2. PICK o \in Options : SetOption(o)
  BY <1>1 DEF Around, HaDataChanges, LeaderElected, PauseUnit, ResumeUnit, RemoteJoins,
     RemoteLeaves, OnlyConfigChanged
<1>3. /\ UNCHANGED <<leader, paused, saved, at, hook, seen, cib>>
      /\ due' = [u \in Unit |-> due[u] \cup {"config"}]
  BY <1>2 DEF SetOption, Unscheduled
<1> QED BY <1>3 DEF OnlyConfigChanged, SavedInForce, ChangeComes, TypeOK

LEMMA MaintenanceStep == MaintenanceInv /\ [Next]_vars => MaintenanceInv'
<1> SUFFICES ASSUME MaintenanceInv, [Next]_vars PROVE MaintenanceInv'
  OBVIOUS
<1>1. TypeOK /\ TypeOK'
  BY StepType DEF MaintenanceInv
<1>2. SUFFICES ASSUME Undisturbed'
               PROVE  OnlyConfigChanged' /\ SavedInForce' /\ ChangeComes'
  BY <1>1 DEF MaintenanceInv
<1>3. OnlyConfigChanged /\ SavedInForce /\ ChangeComes
  BY <1>1, <1>2, HappenedGrows DEF MaintenanceInv, Undisturbed
<1>4. ASSUME NEW u \in Unit, Failure(u) PROVE FALSE
  BY <1>2, <1>3, <1>4 DEF Failure, HookFails, LeaderSetRefused, Spend, Undisturbed,
     OnlyConfigChanged
<1>5. CASE UNCHANGED vars
  BY <1>3, <1>5 DEF vars, OnlyConfigChanged, SavedInForce, ChangeComes
<1> QED BY <1>1, <1>2, <1>3, <1>4, <1>5, NextGroups, MaintenanceCommand, MaintenanceAround

\* However often the operator changes maintenance-mode, and however the hooks of
\* any number of units interleave, the cluster ends in the mode he set last
\* (maintenance_mode).
THEOREM MaintenanceFollows == Spec => []MaintenanceApplied
<1>1. MaintenanceInv => MaintenanceApplied
  BY DEF MaintenanceInv, MaintenanceApplied, Quiet, SavedInForce, ChangeComes, TypeOK
<1> QED BY <1>1, MaintenanceInit, MaintenanceStep, PTL DEF Spec

-----------------------------------------------------------------------------
(* The quorum policy. A hook that works with an old option, and a policy   *)
(* that is not the option, are followed by a config-changed still to come. *)

OldHooksAreFollowed ==
    \A u \in Unit :
        at[u] # "idle" => seen[u].quorum = option.quorum \/ "config" \in due[u]

PolicyComes ==
    \/ cib.quorum = option.quorum
    \/ \E u \in Unit : at[u] # "idle" \/ "config" \in due[u]

QuorumInv ==
    TypeOK /\ (happened \subseteq {"config", "fail", "leader"} =>
                  OnlyConfigChanged /\ OldHooksAreFollowed /\ PolicyComes)

LEMMA QuorumCommand ==
    ASSUME TypeOK, OnlyConfigChanged, OldHooksAreFollowed, PolicyComes,
           NEW u \in Unit, Command(u)
    PROVE  OnlyConfigChanged' /\ OldHooksAreFollowed' /\ PolicyComes'
<1>1. ~HaRelationChanged(u) /\ ~ConfigureStonith(u) /\ ~DeferRemotes(u)
  BY DEF OnlyConfigChanged, HaRelationChanged, Begin, ConfigureStonith, DeferRemotes
<1>2. ~EnableStonith(u) /\ ~MarkStonithConfigured(u)
  BY DEF OnlyConfigChanged, EnableStonith, MarkStonithConfigured
<1>3. UNCHANGED <<option, paused>>
  BY CommandFrame DEF environment
<1>4. CASE ConfigChanged(u)
  <2>1. ~paused[u]
    BY DEF OnlyConfigChanged
  <2>2. /\ at'[u] = "setup" /\ hook'[u] = "config" /\ due'[u] = due[u] \ {"config"}
        /\ seen'[u] = option
    BY <1>4, <2>1 DEF ConfigChanged, Begin, Goto, TypeOK
  <2> QED BY <1>3, <2>2, CommandFrame DEF OnlyConfigChanged, OldHooksAreFollowed, PolicyComes
<1>5. CASE \/ CheckLeader(u) \/ ConfigureClusterGlobal(u) \/ CheckStonithFlag(u)
           \/ DisableStonith(u) \/ SetMaintenance(u)
  <2>1. /\ at[u] # "idle"
        /\ at'[u] \in {"global", "flag", "disable", "maintenance", "quorum"}
        /\ UNCHANGED <<due, hook, seen>>
    BY <1>5 DEF CheckLeader, ConfigureClusterGlobal, CheckStonithFlag, DisableStonith,
       SetMaintenance, AfterSetup, OnlyConfigChanged, Goto, TypeOK
  <2> QED BY <1>3, <2>1, CommandFrame DEF OnlyConfigChanged, OldHooksAreFollowed, PolicyComes
<1>6. CASE SetQuorumPolicy(u)
  <2>1. /\ at[u] = "quorum" /\ at'[u] = "idle" /\ cib'.quorum = seen[u].quorum
        /\ UNCHANGED <<due, hook, seen>>
    BY <1>6 DEF SetQuorumPolicy, QuorumPolicy, Goto, End, TypeOK
  <2> QED BY <1>3, <2>1, CommandFrame DEF OnlyConfigChanged, OldHooksAreFollowed, PolicyComes
<1> QED BY <1>1, <1>2, <1>4, <1>5, <1>6 DEF Command

LEMMA QuorumFailure ==
    ASSUME TypeOK, OnlyConfigChanged, OldHooksAreFollowed, PolicyComes,
           NEW u \in Unit, Failure(u)
    PROVE  OnlyConfigChanged' /\ OldHooksAreFollowed' /\ PolicyComes'
<1>1. Abort(u) /\ UNCHANGED <<option, paused>>
  BY DEF Failure, HookFails, LeaderSetRefused, environment
<1>2. /\ at' = [at EXCEPT ![u] = "idle"]
      /\ due' = [due EXCEPT ![u] = @ \cup {"config"}]
      /\ UNCHANGED <<hook, seen, cib>>
  BY <1>1 DEF Abort, Goto, OnlyConfigChanged
<1> QED BY <1>1, <1>2 DEF OnlyConfigChanged, OldHooksAreFollowed, PolicyComes, TypeOK

LEMMA QuorumAround ==
    ASSUME TypeOK, OnlyConfigChanged, OldHooksAreFollowed, PolicyComes,
           happened' \subseteq {"config", "fail", "leader"}, Around
    PROVE  OnlyConfigChanged' /\ OldHooksAreFollowed' /\ PolicyComes'
<1>1. ASSUME NEW kind, Spend(kind) PROVE kind \in {"config", "fail", "leader"}
  BY <1>1 DEF Spend
<1>2. CASE \E u \in Unit : LeaderElected(u)
  BY <1>2 DEF LeaderElected, Unscheduled, OnlyConfigChanged, OldHooksAreFollowed, PolicyComes
<1>3. CASE \E o \in Options : SetOption(o)
  <2>1. /\ UNCHANGED <<paused, at, hook, seen, cib>>
        /\ due' = [u \in Unit |-> due[u] \cup {"config"}]
    BY <1>3 DEF SetOption, Unscheduled
  <2>2. leader \in Unit /\ "config" \in due'[leader]
    BY <2>1 DEF TypeOK
  <2> QED BY <2>1, <2>2 DEF OnlyConfigChanged, OldHooksAreFollowed, PolicyComes
<1> QED BY <1>1, <1>2, <1>3 DEF Around, HaDataChanges, PauseUnit, ResumeUnit, RemoteJoins,
        RemoteLeaves, OnlyConfigChanged

LEMMA QuorumStep == QuorumInv /\ [Next]_vars => QuorumInv'
<1> SUFFICES ASSUME QuorumInv, [Next]_vars PROVE QuorumInv'
  OBVIOUS
<1>1. TypeOK /\ TypeOK'
  BY StepType DEF QuorumInv
<1>2. SUFFICES ASSUME happened' \subseteq {"config", "fail", "leader"}
               PROVE  OnlyConfigChanged' /\ OldHooksAreFollowed' /\ PolicyComes'
  BY <1>1 DEF QuorumInv
<1>3. OnlyConfigChanged /\ OldHooksAreFollowed /\ PolicyComes
  BY <1>1, <1>2, HappenedGrows DEF QuorumInv
<1>4. CASE UNCHANGED vars
  BY <1>3, <1>4 DEF vars, OnlyConfigChanged, OldHooksAreFollowed, PolicyComes
<1> QED BY <1>1, <1>2, <1>3, <1>4, NextGroups, QuorumCommand, QuorumFailure, QuorumAround

\* Once all hooks are through, the quorum policy is the one the operator set
\* last, though hooks fail, leaders move and hooks of older options write theirs
\* in between (config_changed), for any number of units.
THEOREM QuorumFollows == Spec => []QuorumApplied
<1>1. Init => QuorumInv
  BY InitType DEF Init, QuorumInv, OnlyConfigChanged, OldHooksAreFollowed, PolicyComes
<1>2. QuorumInv => QuorumApplied
  BY DEF QuorumInv, QuorumApplied, Quiet, PolicyComes
<1> QED BY <1>1, <1>2, QuorumStep, PTL DEF Spec
=============================================================================
