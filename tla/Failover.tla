------------------------------- MODULE Failover -------------------------------
(***************************************************************************)
(* What the resource agents and the fencing plugin of the charm do when a  *)
(* node is lost: external/maas resets its machine through MAAS, pacemaker  *)
(* starts the resource elsewhere, and ocf:maas:dns has maas_dns.py move    *)
(* the name to the new node. MAAS carries out power commands later than it *)
(* accepts them, answers late or not at all, and the name servers follow   *)
(* its records with a delay. Pacemaker, MAAS and DNS are external.         *)
(*                                                                         *)
(* A definition that stands right before another one and bears a longer    *)
(* form of its name is a defect the properties must notice.                *)
(***************************************************************************)
EXTENDS Naturals, Sequences

CONSTANTS
    Node,       \* the nodes; a node also stands for its address
    None,       \* no node
    MaxPolls,   \* looks at the power state before a reset gives up
    MaxRetries, \* maas_api_retries
    MaxJobs,    \* bound: power commands MAAS keeps for a machine
    Budgets     \* bounds: how often each disturbance may occur

Disturbances == {"lose", "off", "api", "error", "raise", "refuse", "timeout"}
ASSUME NoneAssumption == None \notin Node
ASSUME BoundsAssumption == MaxPolls \in Nat /\ MaxRetries \in Nat /\ MaxJobs \in Nat
ASSUME BudgetAssumption == Budgets \subseteq [Disturbances -> Nat]

Stage == {"stopped", "checking", "listing", "writing", "started"}

VARIABLES
    power,     \* MAAS: power_state of a machine
    jobs,      \* MAAS: commands it has accepted and not yet carried out
    member,    \* pacemaker: "yes", "lost" until it is fenced, or "out"
    fence,     \* where the reset of the machine is: "idle", "waiting", "starting"
    polls,     \* looks at the power state that were in vain
    owner,     \* pacemaker: the node that runs the resource
    banned,    \* pacemaker: nodes on which it has failed, until failure-timeout
    agent,     \* where the resource agent is on a node
    found,     \* the address maas_dns.py has read
    retries,   \* what it has left of maas_api_retries
    late,      \* updates that still may reach MAAS, their senders being gone
    record,    \* MAAS: the address of the name
    zone,      \* DNS: what `dig' says
    happened,  \* history: disturbances there have been
    budget     \* what is left of the chosen one of Budgets

maas == <<power, jobs>>
fencing == <<fence, polls>>
pacemaker == <<member, owner, banned>>
script == <<found, retries>>
dns == <<late, record, zone>>
bounds == <<happened, budget>>
vars == <<maas, fencing, pacemaker, agent, script, dns, bounds>>

Init ==
    /\ power = [n \in Node |-> "on"] /\ jobs = [n \in Node |-> <<>>]
    /\ member = [n \in Node |-> "yes"]
    /\ fence = [n \in Node |-> "idle"] /\ polls = [n \in Node |-> 0]
    /\ owner = None /\ banned = {} /\ agent = [n \in Node |-> "stopped"]
    /\ found = [n \in Node |-> None] /\ retries = [n \in Node |-> 0]
    /\ late = {}
    /\ record \in Node \cup {None} /\ zone = record
    /\ happened = {} /\ budget \in Budgets

Spend(kind) ==
    /\ budget[kind] > 0
    /\ budget' = [budget EXCEPT ![kind] = @ - 1]
    /\ happened' = happened \cup {kind}

Goto(n, stage) == agent' = [agent EXCEPT ![n] = stage]

-----------------------------------------------------------------------------
(* Machines.                                                               *)

\* A node is not heard of any more; it may be dead or go on on its own.
Lose(n) ==
    /\ member[n] = "yes" /\ \E m \in Node \ {n} : member[m] = "yes"
    /\ Spend("lose")
    /\ member' = [member EXCEPT ![n] = "lost"]
    /\ Goto(n, "stopped") \/ UNCHANGED agent
    /\ UNCHANGED <<maas, fencing, owner, banned, script, dns>>

\* MAAS carries out a command.
PowerOff(n) ==
    /\ jobs[n] # <<>> /\ Head(jobs[n]) = "off"
    /\ jobs' = [jobs EXCEPT ![n] = Tail(@)]
    /\ power' = [power EXCEPT ![n] = "off"]
    /\ Goto(n, "stopped")
    /\ member' = [member EXCEPT ![n] = IF @ = "yes" THEN "lost" ELSE @]
    /\ \/ UNCHANGED <<late, bounds>>
       \/ agent[n] = "writing" /\ Spend("timeout") /\ late' = late \cup {n}
    /\ UNCHANGED <<fencing, owner, banned, script, record, zone>>

PowerOn(n) ==
    /\ jobs[n] # <<>> /\ Head(jobs[n]) = "on"
    /\ jobs' = [jobs EXCEPT ![n] = Tail(@)]
    /\ power' = [power EXCEPT ![n] = "on"]
    /\ UNCHANGED <<fencing, pacemaker, agent, script, dns, bounds>>

\* A machine that was fenced boots and its node joins again.
Boot(n) ==
    /\ power[n] = "on" /\ member[n] = "out" /\ agent[n] = "stopped"
    /\ member' = [member EXCEPT ![n] = "yes"]
    /\ UNCHANGED <<maas, fencing, owner, banned, agent, script, dns, bounds>>

-----------------------------------------------------------------------------
(* maas_stonith_plugin.py.                                                 *)

Accepts(n, command) ==
    Len(jobs[n]) < MaxJobs /\ jobs' = [jobs EXCEPT ![n] = Append(@, command)]

\* The plugin is done with n: pacemaker takes the node for dead.
Fenced(n) ==
    /\ member' = [member EXCEPT ![n] = "out"]
    /\ owner' = IF owner = n THEN None ELSE owner

Fences(n) == member[n] = "lost" /\ \E m \in Node : member[m] = "yes"

\* power_reset: look at the power state and have the machine powered off.
ResetBegins(n) ==
    /\ Fences(n) /\ fence[n] = "idle"
    /\ IF power[n] = "off" THEN UNCHANGED jobs ELSE Accepts(n, "off")
    /\ fence' = [fence EXCEPT ![n] = "waiting"]
    /\ polls' = [polls EXCEPT ![n] = 0]
    /\ UNCHANGED <<power, pacemaker, agent, script, dns, bounds>>

\* wait_for_power_state: one look that finds the state, or one that does not.
StateReachedOrNot(n) == Fences(n) /\ fence[n] = "waiting"
StateReached(n) == Fences(n) /\ fence[n] = "waiting" /\ power[n] = "off"

PollEnds(n) ==
    /\ StateReached(n)
    /\ fence' = [fence EXCEPT ![n] = "starting"]
    /\ UNCHANGED <<maas, polls, pacemaker, agent, script, dns, bounds>>

PollAgainForever(n) ==
    /\ Fences(n) /\ fence[n] = "waiting" /\ power[n] # "off"
    /\ polls' = [polls EXCEPT ![n] = @ + 1]
    /\ UNCHANGED <<maas, fence, pacemaker, agent, script, dns, bounds>>
PollAgain(n) ==
    /\ Fences(n) /\ fence[n] = "waiting" /\ power[n] # "off" /\ polls[n] < MaxPolls
    /\ polls' = [polls EXCEPT ![n] = @ + 1]
    /\ UNCHANGED <<maas, fence, pacemaker, agent, script, dns, bounds>>

ResetEndsOff(n) == Fences(n) /\ fence[n] = "starting" /\ UNCHANGED jobs
ResetEnds(n) == Fences(n) /\ fence[n] = "starting" /\ Accepts(n, "on")

\* power_reset: power on, and the plugin returns 0.
Reset(n) ==
    /\ ResetEnds(n) /\ Fenced(n)
    /\ fence' = [fence EXCEPT ![n] = "idle"]
    /\ UNCHANGED <<power, polls, banned, agent, script, dns, bounds>>

\* The machine is not found, MAAS does not answer or takes no command while
\* it is busy, or the state is not reached: pacemaker has to fence once more.
ResetFails(n) ==
    /\ Fences(n)
    /\ \/ Spend("api")
       \/ fence[n] # "waiting" /\ Len(jobs[n]) >= MaxJobs /\ UNCHANGED bounds
       \/ fence[n] = "waiting" /\ polls[n] = MaxPolls /\ UNCHANGED bounds
    /\ fence' = [fence EXCEPT ![n] = "idle"]
    /\ UNCHANGED <<maas, polls, pacemaker, agent, script, dns>>

\* `off' and, later, `on': the plugin returns 0 as soon as MAAS has accepted.
Off(n) ==
    /\ Fences(n) /\ fence[n] = "idle" /\ Spend("off")
    /\ Accepts(n, "off") /\ Fenced(n)
    /\ UNCHANGED <<power, fencing, banned, agent, script, dns>>

On(n) ==
    /\ member[n] = "out" /\ power[n] = "off" /\ jobs[n] = <<>> /\ Accepts(n, "on")
    /\ UNCHANGED <<power, fencing, pacemaker, agent, script, dns, bounds>>

-----------------------------------------------------------------------------
(* ocf:maas:dns and maas_dns.py.                                           *)

Runs(n, stage) == power[n] = "on" /\ agent[n] = stage

\* Pacemaker starts the resource on a node, and lets a failure expire.
Place(n) ==
    /\ owner = None /\ member[n] = "yes" /\ n \notin banned
    /\ owner' = n /\ Goto(n, "checking")
    /\ UNCHANGED <<maas, fencing, member, banned, script, dns, bounds>>

Expire(n) ==
    /\ n \in banned /\ banned' = banned \ {n}
    /\ UNCHANGED <<maas, fencing, member, owner, agent, script, dns, bounds>>

\* maas_dns_start: dns_served.
Check(n) ==
    /\ Runs(n, "checking")
    /\ Goto(n, IF zone = n THEN "started" ELSE "listing")
    /\ UNCHANGED <<maas, fencing, pacemaker, script, dns, bounds>>

\* dns_ha: get_dnsresource, which takes an answer that is an error for one
\* that has no record.
List(n) ==
    /\ Runs(n, "listing")
    /\ \/ found' = [found EXCEPT ![n] = record] /\ UNCHANGED bounds
       \/ found' = [found EXCEPT ![n] = None] /\ Spend("error")
    /\ Goto(n, IF found'[n] = n THEN "started" ELSE "writing")
    /\ retries' = [retries EXCEPT ![n] = MaxRetries]
    /\ UNCHANGED <<maas, fencing, pacemaker, dns>>

\* create_dnsresource makes a record where there is none, update_dnsresource
\* changes the one there is.
Written(n) == IF found[n] # None \/ record = None THEN n ELSE record

Write(n) ==
    /\ Runs(n, "writing")
    /\ record' = Written(n)
    /\ Goto(n, "started")
    /\ UNCHANGED <<maas, fencing, pacemaker, found, retries, late, zone, bounds>>

\* retry_on_request_error: an answer with a code it retries on.
WriteRetried(n) ==
    /\ Runs(n, "writing") /\ retries[n] > 0 /\ Spend("error")
    /\ retries' = [retries EXCEPT ![n] = @ - 1]
    /\ UNCHANGED <<maas, fencing, pacemaker, agent, found, dns>>

\* APIDriver._put: the client raises the error, the answer has no code; and
\* any other code is taken for a success, too.
WriteIgnored(n) ==
    /\ Runs(n, "writing")
    /\ (found[n] # None /\ Spend("raise")) \/ Spend("refuse")
    /\ Goto(n, "started")
    /\ UNCHANGED <<maas, fencing, pacemaker, found, retries, dns>>

\* The agent reports an error: pacemaker stops it here and goes elsewhere.
Fails(n) ==
    /\ Goto(n, "stopped")
    /\ banned' = banned \cup {n}
    /\ owner' = IF member[n] = "yes" /\ owner = n THEN None ELSE owner

\* main: the list or the creation raises, or the retries are used up.
ScriptFails(n) ==
    /\ \/ Runs(n, "listing") /\ Spend("api")
       \/ Runs(n, "writing") /\ found[n] = None /\ Spend("api")
       \/ Runs(n, "writing") /\ retries[n] = 0 /\ Spend("error")
    /\ Fails(n)
    /\ UNCHANGED <<maas, fencing, member, script, dns>>

\* Pacemaker's start timeout ends the script; MAAS may still get the update.
StartTimesOut(n) ==
    /\ Runs(n, "listing") \/ Runs(n, "writing")
    /\ Spend("timeout") /\ Fails(n)
    /\ \/ UNCHANGED late
       \/ agent[n] = "writing" /\ found[n] # None /\ late' = late \cup {n}
    /\ UNCHANGED <<maas, fencing, member, script, record, zone>>

\* maas_dns_monitor: ``not running'' has pacemaker stop and start it here.
MonitorBlind(n) == FALSE
Monitor(n) == Runs(n, "started") /\ zone # n

Recover(n) ==
    /\ Monitor(n) /\ Goto(n, "checking")
    /\ UNCHANGED <<maas, fencing, pacemaker, script, dns, bounds>>

LateUpdate(n) ==
    /\ n \in late /\ late' = late \ {n} /\ record' = n
    /\ UNCHANGED <<maas, fencing, pacemaker, agent, script, zone, bounds>>

Propagate ==
    /\ zone # record /\ zone' = record
    /\ UNCHANGED <<maas, fencing, pacemaker, agent, script, late, record, bounds>>

-----------------------------------------------------------------------------
Fencing(n) == ResetBegins(n) \/ PollEnds(n) \/ PollAgain(n) \/ Reset(n) \/ ResetFails(n)
Commands(n) == PowerOff(n) \/ PowerOn(n)
Agent(n) ==
    \/ Check(n) \/ List(n)
    \/ Write(n) \/ WriteRetried(n) \/ WriteIgnored(n)
    \/ ScriptFails(n) \/ StartTimesOut(n) \/ Recover(n)

Next ==
    \/ \E n \in Node :
         \/ Lose(n) \/ Commands(n) \/ Boot(n)
         \/ Fencing(n) \/ Off(n) \/ On(n)
         \/ Place(n) \/ Expire(n) \/ Agent(n) \/ LateUpdate(n)
    \/ Propagate

Spec == Init /\ [][Next]_vars

\* MAAS gets round to its commands and its records, pacemaker to fencing, to
\* placing the resource and to what its agents report; failures expire.
Fairness ==
    /\ \A n \in Node :
         /\ WF_vars(Commands(n)) /\ WF_vars(Boot(n)) /\ WF_vars(Fencing(n))
         /\ WF_vars(Expire(n)) /\ WF_vars(Agent(n)) /\ WF_vars(LateUpdate(n))
    /\ WF_vars(\E n \in Node : Place(n)) /\ WF_vars(Propagate)
FairSpec == Spec /\ Fairness

-----------------------------------------------------------------------------
(* Properties.                                                             *)

\* Variables have their types.
TypeOK ==
    /\ power \in [Node -> {"on", "off"}]
    /\ jobs \in [Node -> Seq({"on", "off"})] /\ \A n \in Node : Len(jobs[n]) <= MaxJobs
    /\ member \in [Node -> {"yes", "lost", "out"}]
    /\ fence \in [Node -> {"idle", "waiting", "starting"}] /\ polls \in [Node -> 0 .. MaxPolls]
    /\ owner \in Node \cup {None} /\ banned \subseteq Node
    /\ agent \in [Node -> Stage]
    /\ found \in [Node -> Node \cup {None}] /\ retries \in [Node -> 0 .. MaxRetries]
    /\ late \subseteq Node
    /\ record \in Node \cup {None} /\ zone \in Node \cup {None}
    /\ happened \subseteq Disturbances /\ budget \in [Disturbances -> Nat]

\* The agent is at work on one node at most, and that is the node pacemaker
\* has placed the resource on: power_reset returns after the machine was off,
\* however late MAAS is and however often the reset was tried before. It is
\* not so with `off', which returns while the machine may still be running.
OneServer ==
    "off" \notin happened => \A n \in Node : agent[n] # "stopped" => owner = n

\* A reset leaves the machine running, and fencing is tried until one does: a
\* node that was lost joins again, unless it was switched off for good.
NodesComeBack ==
    []("off" \notin happened) => \A n \in Node : member[n] = "lost" ~> member[n] = "yes"

\* In the end the name points to the node that runs the resource, though
\* updates are refused, fail, come late or are taken for done when they are
\* not: the monitor finds out.
NameFollows == <>[](owner # None /\ zone = owner /\ record = owner /\ agent[owner] = "started")
=============================================================================
