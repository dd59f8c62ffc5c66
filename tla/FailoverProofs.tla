---------------------------- MODULE FailoverProofs ----------------------------
(* Theorems about Failover, for any nodes, bounds and disturbances.        *)
EXTENDS Failover, TLAPS

LEMMA SpendType ==
    ASSUME TypeOK, NEW kind \in Disturbances, Spend(kind)
    PROVE  happened' \subseteq Disturbances /\ budget' \in [Disturbances -> Nat]
  BY DEF TypeOK, Spend

LEMMA AcceptsType ==
    ASSUME TypeOK, NEW n \in Node, NEW command \in {"on", "off"}, Accepts(n, command)
    PROVE  jobs' \in [Node -> Seq({"on", "off"})] /\ \A m \in Node : Len(jobs'[m]) <= MaxJobs
  <1>1. jobs[n] \in Seq({"on", "off"}) /\ Len(jobs[n]) < MaxJobs BY DEF TypeOK, Accepts
  <1>2. /\ Append(jobs[n], command) \in Seq({"on", "off"})
        /\ Len(Append(jobs[n], command)) = Len(jobs[n]) + 1
    BY <1>1
  <1>3. jobs' = [jobs EXCEPT ![n] = Append(jobs[n], command)] BY DEF Accepts
  <1>4. jobs' \in [Node -> Seq({"on", "off"})] BY <1>2, <1>3 DEF TypeOK
  <1>5. ASSUME NEW m \in Node PROVE Len(jobs'[m]) <= MaxJobs
    <2>1. CASE m = n
      <3>1. jobs'[m] = Append(jobs[n], command) BY <1>3, <2>1 DEF TypeOK
      <3>2. Len(jobs[n]) \in Nat BY <1>1
      <3>3. QED BY <1>1, <1>2, <3>1, <3>2, BoundsAssumption
    <2>2. CASE m # n BY <1>3, <2>2 DEF TypeOK
    <2>3. QED BY <2>1, <2>2
  <1>6. QED BY <1>4, <1>5

LEMMA CarriedOutType ==
    ASSUME TypeOK, NEW n \in Node, jobs[n] # <<>>, jobs' = [jobs EXCEPT ![n] = Tail(@)]
    PROVE  jobs' \in [Node -> Seq({"on", "off"})] /\ \A m \in Node : Len(jobs'[m]) <= MaxJobs
  <1>1. jobs[n] \in Seq({"on", "off"}) /\ Len(jobs[n]) <= MaxJobs BY DEF TypeOK
  <1>2. Tail(jobs[n]) \in Seq({"on", "off"}) /\ Len(Tail(jobs[n])) = Len(jobs[n]) - 1
    BY <1>1
  <1>3. jobs' \in [Node -> Seq({"on", "off"})] BY <1>2 DEF TypeOK
  <1>4. ASSUME NEW m \in Node PROVE Len(jobs'[m]) <= MaxJobs
    <2>1. CASE m = n
      <3>1. Len(jobs'[m]) = Len(jobs[n]) - 1 BY <1>2, <2>1 DEF TypeOK
      <3>2. Len(jobs[n]) \in Nat BY <1>1
      <3>3. \A l \in Nat : l <= MaxJobs => l - 1 <= MaxJobs BY BoundsAssumption
      <3>4. QED BY <1>1, <3>1, <3>2, <3>3
    <2>2. CASE m # n BY <2>2 DEF TypeOK
    <2>3. QED BY <2>1, <2>2
  <1>5. QED BY <1>3, <1>4

LEMMA FailsType ==
    ASSUME TypeOK, NEW n \in Node, Fails(n)
    PROVE  agent' \in [Node -> Stage] /\ banned' \subseteq Node /\ owner' \in Node \cup {None}
  <1>1. agent' \in [Node -> Stage] BY DEF TypeOK, Fails, Goto, Stage
  <1>2. QED BY <1>1 DEF TypeOK, Fails

\* The disturbances by name.
LEMMA Kinds ==
    {"lose", "off", "api", "error", "raise", "refuse", "timeout"} \subseteq Disturbances
  BY DEF Disturbances

LEMMA MachinesType ==
    ASSUME TypeOK, NEW n \in Node,
           Lose(n) \/ PowerOff(n) \/ PowerOn(n) \/ Boot(n)
    PROVE  TypeOK'
  <1> USE DEF maas, fencing, pacemaker, script, dns, bounds
  <1>1. CASE Lose(n)
    <2>1. agent' \in [Node -> Stage] BY <1>1 DEF TypeOK, Lose, Goto, Stage
    <2>2. QED BY <1>1, <2>1, Kinds, SpendType DEF TypeOK, Lose
  <1>2. CASE PowerOff(n)
    <2>1. jobs' \in [Node -> Seq({"on", "off"})] /\ \A m \in Node : Len(jobs'[m]) <= MaxJobs
      BY <1>2, CarriedOutType DEF PowerOff
    <2>2. agent' \in [Node -> Stage] BY <1>2 DEF TypeOK, PowerOff, Goto, Stage
    <2>3. power' \in [Node -> {"on", "off"}] /\ member' \in [Node -> {"yes", "lost", "out"}]
      BY <1>2 DEF TypeOK, PowerOff
    <2>4. late' \subseteq Node /\ happened' \subseteq Disturbances
          /\ budget' \in [Disturbances -> Nat]
      BY <1>2, Kinds, SpendType DEF TypeOK, PowerOff
    <2>5. QED BY <1>2, <2>1, <2>2, <2>3, <2>4 DEF TypeOK, PowerOff
  <1>3. CASE PowerOn(n)
    <2>1. jobs' \in [Node -> Seq({"on", "off"})] /\ \A m \in Node : Len(jobs'[m]) <= MaxJobs
      BY <1>3, CarriedOutType DEF PowerOn
    <2>2. QED BY <1>3, <2>1 DEF TypeOK, PowerOn
  <1>4. CASE Boot(n) BY <1>4 DEF TypeOK, Boot
  <1>5. QED BY <1>1, <1>2, <1>3, <1>4

LEMMA FencingType ==
    ASSUME TypeOK, NEW n \in Node, Fencing(n) \/ Off(n) \/ On(n)
    PROVE  TypeOK'
  <1> USE DEF maas, fencing, pacemaker, script, dns, bounds
  <1>1. CASE ResetBegins(n)
    <2>1. jobs' \in [Node -> Seq({"on", "off"})] /\ \A m \in Node : Len(jobs'[m]) <= MaxJobs
      <3>1. CASE power[n] = "off" BY <1>1, <3>1 DEF TypeOK, ResetBegins
      <3>2. CASE power[n] # "off" BY <1>1, <3>2, AcceptsType DEF ResetBegins
      <3>3. QED BY <3>1, <3>2
    <2>2. polls' \in [Node -> 0 .. MaxPolls] BY <1>1, BoundsAssumption DEF TypeOK, ResetBegins
    <2>3. QED BY <1>1, <2>1, <2>2 DEF TypeOK, ResetBegins
  <1>2. CASE PollEnds(n) BY <1>2 DEF TypeOK, PollEnds
  <1>3. CASE PollAgain(n)
    <2>1. polls[n] \in 0 .. MaxPolls /\ polls[n] < MaxPolls BY <1>3 DEF TypeOK, PollAgain
    <2>2. polls[n] + 1 \in 0 .. MaxPolls BY <2>1, BoundsAssumption
    <2>3. QED BY <1>3, <2>2 DEF TypeOK, PollAgain
  <1>4. CASE Reset(n)
    <2>1. jobs' \in [Node -> Seq({"on", "off"})] /\ \A m \in Node : Len(jobs'[m]) <= MaxJobs
      BY <1>4, AcceptsType DEF Reset, ResetEnds
    <2>2. QED BY <1>4, <2>1 DEF TypeOK, Reset, Fenced
  <1>5. CASE ResetFails(n)
    <2>1. happened' \subseteq Disturbances /\ budget' \in [Disturbances -> Nat]
      BY <1>5, Kinds, SpendType DEF TypeOK, ResetFails
    <2>2. QED BY <1>5, <2>1 DEF TypeOK, ResetFails
  <1>6. CASE Off(n)
    <2>1. jobs' \in [Node -> Seq({"on", "off"})] /\ \A m \in Node : Len(jobs'[m]) <= MaxJobs
      BY <1>6, AcceptsType DEF Off
    <2>2. happened' \subseteq Disturbances /\ budget' \in [Disturbances -> Nat]
      BY <1>6, Kinds, SpendType DEF TypeOK, Off
    <2>3. QED BY <1>6, <2>1, <2>2 DEF TypeOK, Off, Fenced
  <1>7. CASE On(n)
    <2>1. jobs' \in [Node -> Seq({"on", "off"})] /\ \A m \in Node : Len(jobs'[m]) <= MaxJobs
      BY <1>7, AcceptsType DEF On
    <2>2. QED BY <1>7, <2>1 DEF TypeOK, On
  <1>8. QED BY <1>1, <1>2, <1>3, <1>4, <1>5, <1>6, <1>7 DEF Fencing

LEMMA AgentType ==
    ASSUME TypeOK, NEW n \in Node, Agent(n)
    PROVE  TypeOK'
  <1> USE DEF maas, fencing, pacemaker, script, dns, bounds
  <1>1. CASE Check(n)
    <2>1. agent' \in [Node -> Stage] BY <1>1 DEF TypeOK, Check, Goto, Stage
    <2>2. QED BY <1>1, <2>1 DEF TypeOK, Check
  <1>2. CASE List(n)
    <2>1. agent' \in [Node -> Stage] BY <1>2 DEF TypeOK, List, Goto, Stage
    <2>2. found' \in [Node -> Node \cup {None}] BY <1>2 DEF TypeOK, List
    <2>3. retries' \in [Node -> 0 .. MaxRetries] BY <1>2, BoundsAssumption DEF TypeOK, List
    <2>4. happened' \subseteq Disturbances /\ budget' \in [Disturbances -> Nat]
      BY <1>2, Kinds, SpendType DEF TypeOK, List
    <2>5. QED BY <1>2, <2>1, <2>2, <2>3, <2>4 DEF TypeOK, List
  <1>3. CASE Write(n)
    <2>1. agent' \in [Node -> Stage] BY <1>3 DEF TypeOK, Write, Goto, Stage
    <2>2. Written(n) \in Node \cup {None} BY DEF TypeOK, Written
    <2>3. QED BY <1>3, <2>1, <2>2 DEF TypeOK, Write
  <1>4. CASE WriteRetried(n)
    <2>1. retries[n] \in 0 .. MaxRetries /\ retries[n] > 0 BY <1>4 DEF TypeOK, WriteRetried
    <2>2. retries[n] - 1 \in 0 .. MaxRetries BY <2>1, BoundsAssumption
    <2>3. retries' \in [Node -> 0 .. MaxRetries] BY <1>4, <2>2 DEF TypeOK, WriteRetried
    <2>4. happened' \subseteq Disturbances /\ budget' \in [Disturbances -> Nat]
      BY <1>4, Kinds, SpendType DEF WriteRetried
    <2>5. QED BY <1>4, <2>3, <2>4 DEF TypeOK, WriteRetried
  <1>5. CASE WriteIgnored(n)
    <2>1. agent' \in [Node -> Stage] BY <1>5 DEF TypeOK, WriteIgnored, Goto, Stage
    <2>2. happened' \subseteq Disturbances /\ budget' \in [Disturbances -> Nat]
      BY <1>5, Kinds, SpendType DEF WriteIgnored
    <2>3. QED BY <1>5, <2>1, <2>2 DEF TypeOK, WriteIgnored
  <1>6. CASE ScriptFails(n)
    <2>1. happened' \subseteq Disturbances /\ budget' \in [Disturbances -> Nat]
      BY <1>6, Kinds, SpendType DEF ScriptFails
    <2>2. QED BY <1>6, <2>1, FailsType DEF TypeOK, ScriptFails
  <1>7. CASE StartTimesOut(n)
    <2>1. happened' \subseteq Disturbances /\ budget' \in [Disturbances -> Nat]
      BY <1>7, Kinds, SpendType DEF StartTimesOut
    <2>2. late' \subseteq Node BY <1>7 DEF TypeOK, StartTimesOut
    <2>3. QED BY <1>7, <2>1, <2>2, FailsType DEF TypeOK, StartTimesOut
  <1>8. CASE Recover(n)
    <2>1. agent' \in [Node -> Stage] BY <1>8 DEF TypeOK, Recover, Goto, Stage
    <2>2. QED BY <1>8, <2>1 DEF TypeOK, Recover
  <1>9. QED BY <1>1, <1>2, <1>3, <1>4, <1>5, <1>6, <1>7, <1>8 DEF Agent

LEMMA TypeStep ==
    ASSUME TypeOK, [Next]_vars
    PROVE  TypeOK'
  <1> USE DEF maas, fencing, pacemaker, script, dns, bounds
  <1>1. ASSUME NEW n \in Node, Place(n) PROVE TypeOK'
    <2>1. agent' \in [Node -> Stage] BY <1>1 DEF TypeOK, Place, Goto, Stage
    <2>2. QED BY <1>1, <2>1 DEF TypeOK, Place
  <1>2. ASSUME NEW n \in Node, Expire(n) PROVE TypeOK'
    BY <1>2 DEF TypeOK, Expire
  <1>3. ASSUME NEW n \in Node, LateUpdate(n) PROVE TypeOK'
    BY <1>3 DEF TypeOK, LateUpdate
  <1>4. CASE Propagate BY <1>4 DEF TypeOK, Propagate
  <1>5. CASE UNCHANGED vars BY <1>5 DEF TypeOK, vars
  <1>6. QED
    BY <1>1, <1>2, <1>3, <1>4, <1>5, MachinesType, FencingType, AgentType DEF Next, Commands

\* The variables keep their types, for any bounds: the retries and the looks
\* at the power state never pass theirs.
THEOREM TypeCorrect == Spec => []TypeOK
  <1>1. Init => TypeOK
    BY BoundsAssumption, BudgetAssumption DEF Init, TypeOK, Stage
  <1>2. QED BY <1>1, TypeStep, PTL DEF Spec

-----------------------------------------------------------------------------
(* OneServer, from what a machine that is off and a reset under way tell   *)
(* of a node.                                                              *)

\* A machine that is off runs no agent and is no member; a machine that is
\* being reset is that of a lost node; once the reset has seen it off, no
\* agent runs on it before the reset is over.
Known(n) ==
    /\ power[n] = "off" => agent[n] = "stopped" /\ member[n] # "yes"
    /\ fence[n] # "idle" => member[n] = "lost"
    /\ fence[n] = "starting" => agent[n] = "stopped"
Machines == \A n \in Node : Known(n)

LEMMA OthersKnown ==
    ASSUME Machines, NEW n \in Node, Known(n)',
           \A m \in Node \ {n} : /\ power'[m] = power[m] /\ agent'[m] = agent[m]
                                 /\ member'[m] = member[m] /\ fence'[m] = fence[m]
    PROVE  Machines'
  BY DEF Machines, Known

\* An agent that goes on where it is, or ends, on a machine that is on.
LEMMA AgentKnown ==
    ASSUME TypeOK, Machines, NEW n \in Node, NEW stage, Goto(n, stage),
           agent[n] # "stopped" \/ stage = "stopped", UNCHANGED <<power, fence, member>>
    PROVE  Machines'
  <1>1. agent'[n] = stage /\ \A m \in Node \ {n} : agent'[m] = agent[m]
    BY DEF Goto, TypeOK
  <1>2. Known(n)' BY <1>1 DEF Machines, Known
  <1>3. QED BY <1>1, <1>2, OthersKnown

LEMMA AgentGoesOn ==
    ASSUME NEW n \in Node, Agent(n)
    PROVE  /\ agent[n] # "stopped" /\ UNCHANGED <<power, fence, member>>
           /\ \/ Goto(n, "stopped") /\ owner' = IF member[n] = "yes" /\ owner = n THEN None ELSE owner
              \/ UNCHANGED owner /\ (UNCHANGED agent \/ \E stage : Goto(n, stage))
           /\ happened \subseteq happened'
  BY DEF Agent, Check, List, Write, WriteRetried, WriteIgnored, ScriptFails, StartTimesOut,
         Recover, Monitor, Runs, Fails, Spend, maas, fencing, pacemaker, script, dns, bounds

LEMMA MachinesStep ==
    ASSUME TypeOK, Machines, [Next]_vars
    PROVE  Machines'
  <1> USE DEF maas, fencing, pacemaker, script, dns, bounds
  <1>1. ASSUME UNCHANGED <<power, agent, member, fence>> PROVE Machines'
    BY <1>1 DEF Machines, Known
  <1>2. ASSUME NEW n \in Node, Lose(n) PROVE Machines'
    <2>1. /\ member'[n] = "lost" /\ agent'[n] \in {agent[n], "stopped"}
          /\ \A m \in Node \ {n} : member'[m] = member[m] /\ agent'[m] = agent[m]
      BY <1>2 DEF Lose, Goto, TypeOK
    <2>2. Known(n)' BY <1>2, <2>1 DEF Lose, Machines, Known
    <2>3. QED BY <1>2, <2>1, <2>2, OthersKnown DEF Lose
  <1>3. ASSUME NEW n \in Node, PowerOff(n) PROVE Machines'
    <2>1. /\ agent'[n] = "stopped" /\ member'[n] # "yes"
          /\ member[n] = "lost" => member'[n] = "lost"
          /\ fence' = fence
          /\ \A m \in Node \ {n} : /\ member'[m] = member[m] /\ agent'[m] = agent[m]
                                   /\ power'[m] = power[m]
      BY <1>3 DEF PowerOff, Goto, TypeOK
    <2>2. Known(n)' BY <2>1 DEF Machines, Known
    <2>3. QED BY <2>1, <2>2, OthersKnown
  <1>4. ASSUME NEW n \in Node, PowerOn(n) PROVE Machines'
    <2>1. power'[n] = "on" /\ \A m \in Node \ {n} : power'[m] = power[m]
      BY <1>4 DEF PowerOn, TypeOK
    <2>2. Known(n)' BY <1>4, <2>1 DEF PowerOn, Machines, Known
    <2>3. QED BY <1>4, <2>1, <2>2, OthersKnown DEF PowerOn
  <1>5. ASSUME NEW n \in Node, Boot(n) PROVE Machines'
    <2>1. /\ power[n] = "on" /\ member[n] = "out" /\ UNCHANGED <<power, agent, fence>>
          /\ \A m \in Node \ {n} : member'[m] = member[m]
      BY <1>5 DEF Boot, TypeOK
    <2>2. Known(n)' BY <2>1 DEF Machines, Known
    <2>3. QED BY <2>1, <2>2, OthersKnown
  <1>6. ASSUME NEW n \in Node, Fences(n), UNCHANGED <<power, agent, member>>,
               NEW stage, fence' = [fence EXCEPT ![n] = stage],
               stage = "starting" => power[n] = "off"
        PROVE  Machines'
    <2>1. fence'[n] = stage /\ \A m \in Node \ {n} : fence'[m] = fence[m]
      BY <1>6 DEF TypeOK
    <2>2. Known(n)' BY <1>6, <2>1 DEF Fences, Machines, Known
    <2>3. QED BY <1>6, <2>1, <2>2, OthersKnown
  <1>7. ASSUME NEW n \in Node, ResetBegins(n) \/ ResetFails(n) PROVE Machines'
    BY <1>6, <1>7 DEF ResetBegins, ResetFails
  <1>8. ASSUME NEW n \in Node, PollEnds(n) PROVE Machines'
    BY <1>6, <1>8 DEF PollEnds, StateReached
  <1>9. ASSUME NEW n \in Node, PollAgain(n) \/ On(n) PROVE Machines'
    BY <1>1, <1>9 DEF PollAgain, On
  <1>10. ASSUME NEW n \in Node, Fenced(n), UNCHANGED <<power, agent>>, fence'[n] = "idle",
                \A m \in Node \ {n} : fence'[m] = fence[m]
         PROVE  Machines'
    <2>1. member'[n] = "out" /\ \A m \in Node \ {n} : member'[m] = member[m]
      BY <1>10 DEF Fenced, TypeOK
    <2>2. Known(n)' BY <1>10, <2>1 DEF Machines, Known
    <2>3. QED BY <1>10, <2>1, <2>2, OthersKnown
  <1>11. ASSUME NEW n \in Node, Reset(n) PROVE Machines'
    <2>1. fence'[n] = "idle" /\ \A m \in Node \ {n} : fence'[m] = fence[m]
      BY <1>11 DEF Reset, TypeOK
    <2>2. QED BY <1>10, <1>11, <2>1 DEF Reset
  <1>12. ASSUME NEW n \in Node, Off(n) PROVE Machines'
    BY <1>10, <1>12 DEF Off
  <1>13. ASSUME NEW n \in Node, Place(n) PROVE Machines'
    <2>1. /\ member[n] = "yes" /\ UNCHANGED <<power, member, fence>>
          /\ \A m \in Node \ {n} : agent'[m] = agent[m]
      BY <1>13 DEF Place, Goto, TypeOK
    <2>2. Known(n)' BY <2>1 DEF Machines, Known
    <2>3. QED BY <2>1, <2>2, OthersKnown
  <1>14. ASSUME NEW n \in Node, Expire(n) \/ LateUpdate(n) PROVE Machines'
    BY <1>1, <1>14 DEF Expire, LateUpdate
  <1>15. ASSUME NEW n \in Node, Agent(n) PROVE Machines'
    BY <1>1, <1>15, AgentGoesOn, AgentKnown
  <1>16. CASE Propagate BY <1>1, <1>16 DEF Propagate
  <1>17. CASE UNCHANGED vars BY <1>1, <1>17 DEF vars
  <1>18. QED
    BY <1>2, <1>3, <1>4, <1>5, <1>7, <1>8, <1>9, <1>11, <1>12, <1>13, <1>14, <1>15,
       <1>16, <1>17 DEF Next, Commands, Fencing

LEMMA OneServerStep ==
    ASSUME TypeOK, Machines, OneServer, [Next]_vars
    PROVE  OneServer'
  <1> USE DEF maas, fencing, pacemaker, script, dns, bounds
  <1>1. ASSUME UNCHANGED owner, happened \subseteq happened',
               \A m \in Node : agent'[m] \in {agent[m], "stopped"}
        PROVE  OneServer'
    BY <1>1 DEF OneServer
  <1>2. ASSUME NEW n \in Node, NEW stage, Goto(n, stage)
        PROVE  agent'[n] = stage /\ \A m \in Node \ {n} : agent'[m] = agent[m]
    BY <1>2 DEF Goto, TypeOK
  <1>3. ASSUME NEW n \in Node, Lose(n) PROVE OneServer'
    <2>1. \A m \in Node : agent'[m] \in {agent[m], "stopped"} BY <1>2, <1>3 DEF Lose
    <2>2. QED BY <1>1, <1>3, <2>1 DEF Lose, Spend
  <1>4. ASSUME NEW n \in Node, PowerOff(n) PROVE OneServer'
    <2>1. \A m \in Node : agent'[m] \in {agent[m], "stopped"} BY <1>2, <1>4 DEF PowerOff
    <2>2. QED BY <1>1, <1>4, <2>1 DEF PowerOff, Spend
  <1>5. ASSUME NEW n \in Node, \/ PowerOn(n) \/ Boot(n) \/ ResetBegins(n) \/ PollEnds(n)
                              \/ PollAgain(n) \/ ResetFails(n) \/ On(n) \/ Expire(n)
                              \/ LateUpdate(n)
        PROVE  OneServer'
    <2>1. UNCHANGED <<agent, owner>> /\ happened \subseteq happened'
      BY <1>5 DEF PowerOn, Boot, ResetBegins, PollEnds, PollAgain, ResetFails, On, Expire,
                  LateUpdate, Spend
    <2>2. QED BY <1>1, <2>1
  <1>6. ASSUME NEW n \in Node, Reset(n) PROVE OneServer'
    <2>1. agent[n] = "stopped" BY <1>6 DEF Reset, ResetEnds, Machines, Known
    <2>2. UNCHANGED <<agent, happened>> /\ owner' = IF owner = n THEN None ELSE owner
      BY <1>6 DEF Reset, Fenced
    <2>3. QED BY <2>1, <2>2 DEF OneServer
  <1>7. ASSUME NEW n \in Node, Off(n) PROVE OneServer'
    BY <1>7 DEF Off, Spend, OneServer
  <1>8. ASSUME NEW n \in Node, Place(n) PROVE OneServer'
    <2>1. owner = None /\ owner' = n /\ happened' = happened
          /\ \A m \in Node \ {n} : agent'[m] = agent[m]
      BY <1>2, <1>8 DEF Place
    <2>2. QED BY <2>1, NoneAssumption DEF OneServer
  <1>9. ASSUME NEW n \in Node, Agent(n) PROVE OneServer'
    <2>1. agent[n] # "stopped" /\ happened \subseteq happened' BY <1>9, AgentGoesOn
    <2>2. CASE Goto(n, "stopped") /\ owner' = IF member[n] = "yes" /\ owner = n THEN None ELSE owner
      <3>1. agent'[n] = "stopped" /\ \A m \in Node \ {n} : agent'[m] = agent[m]
        BY <1>2, <2>2
      <3>2. QED BY <2>1, <2>2, <3>1 DEF OneServer
    <2>3. CASE UNCHANGED owner /\ (UNCHANGED agent \/ \E stage : Goto(n, stage))
      <3>1. \A m \in Node \ {n} : agent'[m] = agent[m] BY <1>2, <2>3
      <3>2. QED BY <2>1, <2>3, <3>1 DEF OneServer
    <2>4. QED BY <1>9, <2>2, <2>3, AgentGoesOn
  <1>10. CASE Propagate BY <1>1, <1>10 DEF Propagate
  <1>11. CASE UNCHANGED vars BY <1>1, <1>11 DEF vars
  <1>12. QED
    BY <1>3, <1>4, <1>5, <1>6, <1>7, <1>8, <1>9, <1>10, <1>11 DEF Next, Commands, Fencing

\* As long as nodes are reset and not switched off, the resource is at work
\* on the node pacemaker placed it on and on no other, however late MAAS
\* carries out what it was told and whatever fails on the way.
THEOREM ResourceRunsOnce == Spec => []OneServer
  <1>1. Init => Machines /\ OneServer BY DEF Init, Machines, Known, OneServer
  <1>2. QED BY <1>1, TypeCorrect, MachinesStep, OneServerStep, PTL DEF Spec
=============================================================================
