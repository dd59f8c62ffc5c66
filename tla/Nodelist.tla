-------------------------------- MODULE Nodelist --------------------------------
(***************************************************************************)
(* What a unit writes into corosync.conf: the addresses of the nodes, its  *)
(* own as it finds it, those of its peers as they publish them on hanode,  *)
(* and the transport with the multicast settings of the charm or of the    *)
(* principal. Addresses, options and virtual IPs change while hooks run    *)
(* and while units are paused.                                             *)
(* That cluster_count units are there is Ring's business and taken for     *)
(* granted here, and so are units that stay.                               *)
(*                                                                         *)
(* A definition that stands right before another one and bears a longer    *)
(* form of its name is a defect the properties must notice.                *)
(***************************************************************************)
EXTENDS Naturals

CONSTANTS
    Unit,     \* the units of the charm
    Vip,      \* an IPv6 address that pacemaker gives to one node at a time
    None,     \* no address, no unit
    Starts    \* where things start: the options prefer-ipv6 and corosync_transport, and
              \* (a bound) how often each disturbance may occur from there

Disturbances == {"address", "family", "transport", "offer", "vip", "pause", "kill"}
Hook == {"joined", "ha", "config"}  \* "ha" stands for all that run ha_relation_changed

\* An address of a unit: its family, the unit, and how often it has moved before.
Address == ({4, 6} \X Unit \X Nat) \cup {Vip}

ASSUME NamesAssumption == None \notin Unit \cup Address /\ Vip \notin {4, 6} \X Unit \X Nat
ASSUME StartsAssumption ==
    Starts \subseteq [prefer6 : BOOLEAN, transport : {"udp", "udpu"}, budget : [Disturbances -> Nat]]

VARIABLES
    prefer6,    \* option prefer-ipv6
    transport,  \* option corosync_transport: "udp" or "udpu"
    local,      \* options corosync_bindiface and corosync_mcastport are set
    offered,    \* units whose principal offers these two on the ha relation
    moved,      \* how often a unit has got new addresses
    held,       \* pacemaker: the unit whose interface has the virtual IP
    bag,        \* private-address a unit has published on hanode
    draft,      \* private-address the hook under way will publish, if it ends well
    due,        \* hooks that wait to be run
    job,        \* the hook under way
    at,         \* what it does next
    paused,     \* units with the flag unit-paused in their key-value store
    file,       \* corosync.conf
    missed,     \* history: units that have skipped config-changed and run none since
    exposed,    \* history: the virtual IP was there while prefer-ipv6 was set
    budget      \* what is left of the disturbances

options == <<prefer6, transport, local>>
network == <<moved, held>>
hook == <<draft, job, at>>
pauses == <<paused, missed>>
vars == <<options, network, hook, pauses, offered, bag, due, file, exposed, budget>>

\* The address a unit is to be reached at, as Juju has it: ingress-address.
Ingress(u) == <<4, u, moved[u]>>
Own6(u) == <<6, u, moved[u]>>

\* After install, where the peer relation is not there yet: only the unit itself,
\* its private address being all Juju has put into the relation so far.
Init ==
    /\ \E s \in Starts :
         /\ prefer6 = s.prefer6 /\ transport = s.transport /\ budget = s.budget
    /\ local = FALSE
    /\ offered = {} /\ moved = [u \in Unit |-> 0] /\ held = None
    /\ bag = [u \in Unit |-> <<4, u, 0>>]
    /\ draft = [u \in Unit |-> None]
    /\ due = [u \in Unit |-> Hook]
    /\ job = [u \in Unit |-> "none"] /\ at = [u \in Unit |-> "idle"]
    /\ file = [u \in Unit |->
                 [nodes |-> [v \in Unit |-> IF v = u THEN <<4, u, 0>> ELSE None],
                  transport |-> "udpu", multicast |-> "none"]]
    /\ paused = {} /\ missed = {} /\ exposed = FALSE

Spend(kind) ==
    /\ budget[kind] > 0
    /\ budget' = [budget EXCEPT ![kind] = @ - 1]

-----------------------------------------------------------------------------
(* Addresses.                                                              *)

\* get_iface_addr, get_ipv6_addr of charmhelpers: whatever is on the interface of
\* the unit and not excluded, in the order the kernel lists it; the first is taken.
OnInterface(u) == {Own6(u)} \cup {x \in {Vip} : held = u}
Ipv6Addr(u, excludes) == OnInterface(u) \ excludes

\* What the principal asks for: one resource, of a type, with the address as parameter.
resources == [res_vip |-> "ocf:heartbeat:IPv6addr"]
resource_params == [res_vip |-> Vip]

\* get_ipv6_addr of the charm: the parameters are looked up under the type of the
\* resource, where there are none.
CorosyncManaged ==
    {resource_params[n] : n \in {resources[r] : r \in DOMAIN resources} \cap DOMAIN resource_params}

\* get_relation_ip.
RelationIp(u) == IF prefer6 THEN Ipv6Addr(u, {}) ELSE {Ingress(u)}

\* get_ha_nodes: the peers as they are in the relation, and the unit itself.
OwnAddressPublished(u) == {bag[u]}
OwnAddress(u) == IF prefer6 THEN Ipv6Addr(u, CorosyncManaged) ELSE {Ingress(u)}
HaNodes(u) == {[bag EXCEPT ![u] = a] : a \in OwnAddress(u)}

-----------------------------------------------------------------------------
(* The file.                                                               *)

\* get_corosync_conf: the charm's own settings or else the principal's.
MulticastPrincipalFirst(u) ==
    IF transport = "udpu" THEN "none"
    ELSE IF u \in offered THEN "principal"
    ELSE IF local THEN "charm" ELSE "missing"
MulticastUnchecked(u) ==
    IF transport = "udpu" THEN "none"
    ELSE IF local THEN "charm"
    ELSE IF u \in offered THEN "principal" ELSE "none"
Multicast(u) ==
    IF transport = "udpu" THEN "none"
    ELSE IF local THEN "charm"
    ELSE IF u \in offered THEN "principal" ELSE "missing"
CorosyncConfs(u) ==
    {[nodes |-> nodes, transport |-> transport, multicast |-> Multicast(u)] :
        nodes \in {x \in HaNodes(u) : Multicast(u) # "missing"}}

-----------------------------------------------------------------------------
(* The hooks.                                                              *)

Begin(u, name, stage) ==
    /\ name \in due[u] /\ at[u] = "idle"
    /\ due' = [due EXCEPT ![u] = @ \ {name}]
    /\ job' = [job EXCEPT ![u] = name]
    /\ at' = [at EXCEPT ![u] = stage]

\* config_changed on a paused unit: nothing is published and nothing written.
\* The comment there says ``It is forced on the resume'', where nothing forces it.
SkipConfig(u) ==
    /\ Begin(u, "config", "ending") /\ u \in paused
    /\ missed' = missed \cup {u}
    /\ UNCHANGED <<options, network, draft, paused, offered, bag, file, exposed, budget>>

\* hanode_relation_joined, which config_changed calls before anything else.
PublishAddress(u) ==
    /\ \/ Begin(u, "joined", "ending") /\ UNCHANGED missed
       \/ /\ Begin(u, "config", "configuring") /\ u \notin paused
          /\ missed' = missed \ {u}
    /\ \E a \in RelationIp(u) : draft' = [draft EXCEPT ![u] = a]
    /\ UNCHANGED <<options, network, paused, offered, bag, file, exposed, budget>>

\* ha_relation_changed down to configure_corosync.
HaRelationChanged(u) ==
    /\ Begin(u, "ha", "configuring")
    /\ UNCHANGED <<options, network, draft, pauses, offered, bag, file, exposed, budget>>

\* configure_corosync: without the settings the file stays as it is.
ConfigureCorosync(u) ==
    /\ at[u] = "configuring"
    /\ at' = [at EXCEPT ![u] = "ending"]
    /\ \/ \E c \in CorosyncConfs(u) : file' = [file EXCEPT ![u] = c]
       \/ CorosyncConfs(u) = {} /\ UNCHANGED file
    /\ UNCHANGED <<options, network, draft, job, pauses, offered, bag, due, exposed, budget>>

\* The hook ends well: Juju publishes what is new and lets the peers know.
PublishedQuietly(u, a) ==
    /\ bag' = [bag EXCEPT ![u] = a]
    /\ UNCHANGED due
Published(u, a) ==
    /\ bag' = [bag EXCEPT ![u] = a]
    /\ due' = [v \in Unit |-> IF v = u \/ a = bag[u] THEN due[v] ELSE due[v] \cup {"ha"}]
EndHook(u) ==
    /\ at[u] = "ending"
    /\ at' = [at EXCEPT ![u] = "idle"] /\ job' = [job EXCEPT ![u] = "none"]
    /\ draft' = [draft EXCEPT ![u] = None]
    /\ IF draft[u] = None THEN UNCHANGED <<bag, due>> ELSE Published(u, draft[u])
    /\ UNCHANGED <<options, network, pauses, offered, file, exposed, budget>>

\* The hook fails or is killed, and is retried.
HookFails(u) ==
    /\ at[u] # "idle" /\ Spend("kill")
    /\ at' = [at EXCEPT ![u] = "idle"] /\ job' = [job EXCEPT ![u] = "none"]
    /\ draft' = [draft EXCEPT ![u] = None]
    /\ due' = [due EXCEPT ![u] = @ \cup {job[u]}]
    /\ UNCHANGED <<options, network, pauses, offered, bag, file, exposed>>

\* The actions of these names; resume runs no config-changed.
PauseUnit(u) ==
    /\ at[u] = "idle" /\ u \notin paused /\ Spend("pause")
    /\ paused' = paused \cup {u}
    /\ UNCHANGED <<options, network, hook, missed, offered, bag, due, file, exposed>>

ResumeUnit(u) ==
    /\ at[u] = "idle" /\ u \in paused
    /\ paused' = paused \ {u}
    /\ UNCHANGED <<options, network, hook, missed, offered, bag, due, file, exposed, budget>>

-----------------------------------------------------------------------------
(* The operator, the principal, pacemaker and the network.                 *)

WakeAll(name) == due' = [u \in Unit |-> due[u] \cup {name}]

SetPreferIpv6 ==
    /\ Spend("family")
    /\ prefer6' = ~prefer6 /\ WakeAll("config")
    /\ exposed' = (exposed \/ (prefer6' /\ held # None))
    /\ UNCHANGED <<transport, local, network, hook, pauses, offered, bag, file>>

SetTransport ==
    /\ Spend("transport")
    /\ \/ transport' = (IF transport = "udp" THEN "udpu" ELSE "udp") /\ UNCHANGED local
       \/ local' = ~local /\ UNCHANGED transport
    /\ WakeAll("config")
    /\ UNCHANGED <<prefer6, network, hook, pauses, offered, bag, file, exposed>>

PrincipalOffers(u) ==
    /\ u \notin offered /\ Spend("offer")
    /\ offered' = offered \cup {u}
    /\ due' = [due EXCEPT ![u] = @ \cup {"ha"}]
    /\ UNCHANGED <<options, network, hook, pauses, bag, file, exposed>>

\* Juju notices, refreshes ingress-address and runs config-changed.
AddressChanges(u) ==
    /\ Spend("address")
    /\ moved' = [moved EXCEPT ![u] = @ + 1]
    /\ due' = [due EXCEPT ![u] = @ \cup {"config"}]
    /\ UNCHANGED <<options, held, hook, pauses, offered, bag, file, exposed>>

PlaceVip(u) ==
    /\ held # u /\ Spend("vip")
    /\ held' = u
    /\ exposed' = (exposed \/ prefer6)
    /\ UNCHANGED <<options, moved, hook, pauses, offered, bag, due, file>>

-----------------------------------------------------------------------------
HookStep(u) ==
    \/ PublishAddress(u) \/ SkipConfig(u) \/ HaRelationChanged(u)
    \/ ConfigureCorosync(u) \/ EndHook(u)

Next ==
    \/ \E u \in Unit :
         \/ HookStep(u) \/ HookFails(u) \/ PauseUnit(u) \/ ResumeUnit(u)
         \/ PrincipalOffers(u) \/ AddressChanges(u) \/ PlaceVip(u)
    \/ SetPreferIpv6 \/ SetTransport

Spec == Init /\ [][Next]_vars

\* Juju runs the hooks that are due, and hooks end.
FairSpec == Spec /\ \A u \in Unit : WF_vars(HookStep(u))

-----------------------------------------------------------------------------
(* What holds.                                                             *)

Conf ==
    [nodes : [Unit -> Address \cup {None}], transport : {"udp", "udpu"},
     multicast : {"none", "charm", "principal"}]

\* Type invariant; a file with multicast always says where to.
TypeOK ==
    /\ prefer6 \in BOOLEAN /\ transport \in {"udp", "udpu"} /\ local \in BOOLEAN
    /\ offered \subseteq Unit /\ moved \in [Unit -> Nat] /\ held \in Unit \cup {None}
    /\ bag \in [Unit -> Address] /\ draft \in [Unit -> Address \cup {None}]
    /\ due \in [Unit -> SUBSET Hook]
    /\ job \in [Unit -> Hook \cup {"none"}]
    /\ at \in [Unit -> {"idle", "configuring", "ending"}]
    /\ \A u \in Unit : at[u] # "idle" => job[u] # "none"
    /\ file \in [Unit -> Conf]
    /\ \A u \in Unit : file[u].transport = "udp" => file[u].multicast # "none"
    /\ paused \subseteq Unit /\ missed \subseteq Unit
    /\ exposed \in BOOLEAN /\ budget \in [Disturbances -> Nat]

Quiet == \A u \in Unit : due[u] = {} /\ at[u] = "idle"

\* The address all files ought to give a node.
Current(u) == IF prefer6 THEN Own6(u) ELSE Ingress(u)

\* Once all hooks are through, the units that are configured agree on the nodes,
\* whichever options and addresses have changed and whatever hooks have failed:
\* the address of a node is the one it goes by, or, of a unit that has skipped a
\* config-changed while it was paused, the one it published last. Left out are
\* units without the settings they need and files of units that have skipped one,
\* and all once an IPv6 address was looked for beside a virtual one.
AddressesAgree ==
    Quiet /\ ~exposed =>
        \A u \in Unit \ missed : Multicast(u) # "missing" =>
            \A v \in Unit : file[u].nodes[v] = IF v \in missed THEN bag[v] ELSE Current(v)

\* Likewise their files have the transport the operator has set, and a charm with
\* multicast settings of its own does not use the principal's (the comment in
\* get_corosync_conf, ``use local charm configuration over any provided'').
TransportsAgree ==
    Quiet => \A u \in Unit \ missed : Multicast(u) # "missing" =>
        /\ file[u].transport = transport
        /\ transport = "udp" /\ local => file[u].multicast = "charm"

\* A change of a unit's address reaches the files of its peers, unless one of the
\* two has skipped a config-changed for good: resume makes up for none.
MoveSpreads ==
    [](~exposed /\ transport = "udpu") =>
        \A u, v \in Unit :
            <>[](u \notin missed /\ v \notin missed) => <>[](file[u].nodes[v] = Current(v))

\* A virtual IP is no node's address in any file (get_ipv6_addr, ``Exclude any ip
\* addresses configured or managed by corosync'').
NoVipInFiles == \A u, v \in Unit : file[u].nodes[v] # Vip
=============================================================================
