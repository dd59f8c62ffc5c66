---------------------------- MODULE NodelistProofs ----------------------------
(* Theorems about Nodelist, for any units, bounds and disturbances.        *)
EXTENDS Nodelist, TLAPS

\* The disturbances by name.
LEMMA Kinds ==
    {"address", "family", "transport", "offer", "vip", "pause", "kill"} \subseteq Disturbances
  BY DEF Disturbances

LEMMA SpendType ==
    ASSUME TypeOK, NEW kind \in Disturbances, Spend(kind)
    PROVE  budget' \in [Disturbances -> Nat]
  BY DEF TypeOK, Spend

LEMMA AddressType ==
    ASSUME TypeOK, NEW u \in Unit
    PROVE  /\ Ingress(u) \in Address /\ Own6(u) \in Address
           /\ \A a \in RelationIp(u) : a \in Address
           /\ \A a \in OwnAddress(u) : a \in Address
  <1>1. <<4, u, moved[u]>> \in {4, 6} \X Unit \X Nat BY DEF TypeOK
  <1>2. <<6, u, moved[u]>> \in {4, 6} \X Unit \X Nat BY DEF TypeOK
  <1>3. Ingress(u) \in Address /\ Own6(u) \in Address /\ Vip \in Address
    BY <1>1, <1>2 DEF Ingress, Own6, Address
  <1>4. QED BY <1>3 DEF RelationIp, OwnAddress, Ipv6Addr, OnInterface

LEMMA ConfType ==
    ASSUME TypeOK, NEW u \in Unit, NEW c \in CorosyncConfs(u)
    PROVE  /\ c \in Conf
           /\ c.transport = "udp" => c.multicast # "none"
           /\ c.transport = transport /\ c.multicast = Multicast(u) /\ c.multicast # "missing"
           /\ c.nodes \in HaNodes(u)
  <1>1. PICK nodes \in HaNodes(u) :
          /\ Multicast(u) # "missing"
          /\ c = [nodes |-> nodes, transport |-> transport, multicast |-> Multicast(u)]
    BY DEF CorosyncConfs
  <1>2. PICK a \in OwnAddress(u) : nodes = [bag EXCEPT ![u] = a]
    BY DEF HaNodes
  <1>3. a \in Address BY AddressType
  <1>4. nodes \in [Unit -> Address \cup {None}] BY <1>2, <1>3 DEF TypeOK
  <1>5. /\ Multicast(u) \in {"none", "charm", "principal"}
        /\ transport = "udp" => Multicast(u) # "none"
    BY <1>1 DEF Multicast, TypeOK
  <1>6. transport \in {"udp", "udpu"} BY DEF TypeOK
  <1>7. QED BY <1>1, <1>4, <1>5, <1>6 DEF Conf

-----------------------------------------------------------------------------
(* Type correctness.                                                       *)

LEMMA InitType == Init => TypeOK
  <1> SUFFICES ASSUME Init PROVE TypeOK OBVIOUS
  <1>1. \A u \in Unit : <<4, u, 0>> \in Address BY DEF Address
  <1>2. bag \in [Unit -> Address] BY <1>1 DEF Init
  <1>3. file \in [Unit -> Conf] /\ \A u \in Unit : file[u].transport = "udpu"
    <2>1. ASSUME NEW u \in Unit
          PROVE  [nodes |-> [v \in Unit |-> IF v = u THEN <<4, u, 0>> ELSE None],
                  transport |-> "udpu", multicast |-> "none"] \in Conf
      <3>1. [v \in Unit |-> IF v = u THEN <<4, u, 0>> ELSE None] \in [Unit -> Address \cup {None}]
        BY <1>1
      <3>2. QED BY <3>1 DEF Conf
    <2>2. QED BY <2>1 DEF Init
  <1>4. /\ budget \in [Disturbances -> Nat]
        /\ prefer6 \in BOOLEAN /\ transport \in {"udp", "udpu"}
    BY StartsAssumption DEF Init
  <1>5. QED BY <1>2, <1>3, <1>4 DEF Init, TypeOK

LEMMA HookType ==
    ASSUME TypeOK, NEW u \in Unit, HookStep(u) \/ HookFails(u)
    PROVE  TypeOK'
  <1> USE DEF options, network, pauses
  <1>1. CASE PublishAddress(u)
    <2>1. draft' \in [Unit -> Address \cup {None}] BY <1>1, AddressType DEF TypeOK, PublishAddress
    <2>2. PICK name \in Hook, stage \in {"configuring", "ending"} : Begin(u, name, stage)
      BY <1>1 DEF PublishAddress, Hook
    <2>3. /\ due' \in [Unit -> SUBSET Hook] /\ job' \in [Unit -> Hook \cup {"none"}]
          /\ at' \in [Unit -> {"idle", "configuring", "ending"}]
          /\ \A v \in Unit : at'[v] # "idle" => job'[v] # "none"
      BY <2>2 DEF TypeOK, Begin, Hook
    <2>4. QED BY <1>1, <2>1, <2>3 DEF TypeOK, PublishAddress
  <1>2. CASE HaRelationChanged(u)
    <2>1. /\ due' \in [Unit -> SUBSET Hook] /\ job' \in [Unit -> Hook \cup {"none"}]
          /\ at' \in [Unit -> {"idle", "configuring", "ending"}]
          /\ \A v \in Unit : at'[v] # "idle" => job'[v] # "none"
      BY <1>2 DEF TypeOK, HaRelationChanged, Begin, Hook
    <2>2. QED BY <1>2, <2>1 DEF TypeOK, HaRelationChanged
  <1>3. CASE ConfigureCorosync(u)
    <2>1. /\ file' \in [Unit -> Conf]
          /\ \A v \in Unit : file'[v].transport = "udp" => file'[v].multicast # "none"
      <3>1. CASE UNCHANGED file BY <3>1 DEF TypeOK
      <3>2. CASE \E c \in CorosyncConfs(u) : file' = [file EXCEPT ![u] = c]
        BY <3>2, ConfType DEF TypeOK
      <3>3. QED BY <1>3, <3>1, <3>2 DEF ConfigureCorosync
    <2>2. /\ at' \in [Unit -> {"idle", "configuring", "ending"}]
          /\ \A v \in Unit : at'[v] # "idle" => job'[v] # "none"
      BY <1>3 DEF TypeOK, ConfigureCorosync
    <2>3. QED BY <1>3, <2>1, <2>2 DEF TypeOK, ConfigureCorosync
  <1>4. CASE EndHook(u)
    <2>1. /\ at' \in [Unit -> {"idle", "configuring", "ending"}]
          /\ job' \in [Unit -> Hook \cup {"none"}] /\ draft' \in [Unit -> Address \cup {None}]
          /\ \A v \in Unit : at'[v] # "idle" => job'[v] # "none"
      BY <1>4 DEF TypeOK, EndHook
    <2>2. bag' \in [Unit -> Address] /\ due' \in [Unit -> SUBSET Hook]
      <3>1. CASE draft[u] = None BY <1>4, <3>1 DEF TypeOK, EndHook
      <3>2. CASE draft[u] # None BY <1>4, <3>2 DEF TypeOK, EndHook, Published, Hook
      <3>3. QED BY <3>1, <3>2
    <2>3. QED BY <1>4, <2>1, <2>2 DEF TypeOK, EndHook
  <1>5. CASE HookFails(u)
    <2>1. budget' \in [Disturbances -> Nat] BY <1>5, Kinds, SpendType DEF HookFails
    <2>2. job[u] \in Hook BY <1>5 DEF TypeOK, HookFails
    <2>3. QED BY <1>5, <2>1, <2>2 DEF TypeOK, HookFails
  <1>6. CASE SkipConfig(u)
    <2>1. /\ due' \in [Unit -> SUBSET Hook] /\ job' \in [Unit -> Hook \cup {"none"}]
          /\ at' \in [Unit -> {"idle", "configuring", "ending"}]
          /\ \A v \in Unit : at'[v] # "idle" => job'[v] # "none"
      BY <1>6 DEF TypeOK, SkipConfig, Begin, Hook
    <2>2. QED BY <1>6, <2>1 DEF TypeOK, SkipConfig
  <1>7. QED BY <1>1, <1>2, <1>3, <1>4, <1>5, <1>6 DEF HookStep

LEMMA AroundType ==
    ASSUME TypeOK, [Next]_vars, ~\E u \in Unit : HookStep(u) \/ HookFails(u)
    PROVE  TypeOK'
  <1> USE DEF options, network, hook, pauses
  <1>1. CASE SetPreferIpv6
    <2>1. due' \in [Unit -> SUBSET Hook] BY <1>1 DEF TypeOK, SetPreferIpv6, WakeAll, Hook
    <2>2. prefer6' \in BOOLEAN /\ exposed' \in BOOLEAN BY <1>1 DEF TypeOK, SetPreferIpv6
    <2>3. budget' \in [Disturbances -> Nat] BY <1>1, Kinds, SpendType DEF SetPreferIpv6
    <2>4. QED BY <1>1, <2>1, <2>2, <2>3 DEF TypeOK, SetPreferIpv6
  <1>2. CASE SetTransport
    <2>1. due' \in [Unit -> SUBSET Hook] BY <1>2 DEF TypeOK, SetTransport, WakeAll, Hook
    <2>2. transport' \in {"udp", "udpu"} /\ local' \in BOOLEAN BY <1>2 DEF TypeOK, SetTransport
    <2>3. budget' \in [Disturbances -> Nat] BY <1>2, Kinds, SpendType DEF SetTransport
    <2>4. QED BY <1>2, <2>1, <2>2, <2>3 DEF TypeOK, SetTransport
  <1>3. ASSUME NEW u \in Unit, PrincipalOffers(u) PROVE TypeOK'
    <2>1. due' \in [Unit -> SUBSET Hook] BY <1>3 DEF TypeOK, PrincipalOffers, Hook
    <2>2. budget' \in [Disturbances -> Nat] BY <1>3, Kinds, SpendType DEF PrincipalOffers
    <2>3. QED BY <1>3, <2>1, <2>2 DEF TypeOK, PrincipalOffers
  <1>4. ASSUME NEW u \in Unit, AddressChanges(u) PROVE TypeOK'
    <2>1. due' \in [Unit -> SUBSET Hook] BY <1>4 DEF TypeOK, AddressChanges, Hook
    <2>2. budget' \in [Disturbances -> Nat] BY <1>4, Kinds, SpendType DEF AddressChanges
    <2>3. moved' \in [Unit -> Nat] BY <1>4 DEF TypeOK, AddressChanges
    <2>4. QED BY <1>4, <2>1, <2>2, <2>3 DEF TypeOK, AddressChanges
  <1>5. ASSUME NEW u \in Unit, PlaceVip(u) PROVE TypeOK'
    <2>1. budget' \in [Disturbances -> Nat] BY <1>5, Kinds, SpendType DEF PlaceVip
    <2>2. held' \in Unit \cup {None} /\ exposed' \in BOOLEAN BY <1>5 DEF TypeOK, PlaceVip
    <2>3. QED BY <1>5, <2>1, <2>2 DEF TypeOK, PlaceVip
  <1>6. ASSUME NEW u \in Unit, PauseUnit(u) \/ ResumeUnit(u) PROVE TypeOK'
    <2>1. budget' \in [Disturbances -> Nat]
      BY <1>6, Kinds, SpendType DEF PauseUnit, ResumeUnit, TypeOK
    <2>2. QED BY <1>6, <2>1 DEF TypeOK, PauseUnit, ResumeUnit
  <1>7. CASE UNCHANGED vars BY <1>7 DEF TypeOK, vars
  <1>8. QED BY <1>1, <1>2, <1>3, <1>4, <1>5, <1>6, <1>7 DEF Next

\* Type correctness, for any units and disturbances: a file with multicast always
\* says where its settings come from.
THEOREM TypeCorrect == Spec => []TypeOK
  <1>1. Init => TypeOK BY InitType
  <1>2. TypeOK /\ [Next]_vars => TypeOK' BY HookType, AroundType
  <1>3. QED BY <1>1, <1>2, PTL DEF Spec

-----------------------------------------------------------------------------
(* All files agree.                                                        *)

\* A hook is due or under way that will write the file of u again.
Pending(u) == due[u] \cap {"ha", "config"} # {} \/ at[u] = "configuring"

\* A virtual IP beside IPv6 addresses that are looked for has been noticed.
VipNoticed == prefer6 /\ held # None => exposed

\* Only hooks that publish an address have one to publish, and only those that
\* configure corosync are about to.
DraftsBelong ==
    \A u \in Unit :
        /\ draft[u] # None => at[u] # "idle" /\ job[u] \in {"joined", "config"}
        /\ at[u] = "configuring" => job[u] \in {"ha", "config"}

\* The peers know the address of v, or will be told, unless v has skipped the hook
\* that tells them.
BagFresh(v) ==
    \/ v \in missed \/ "config" \in due[v]
    \/ /\ draft[v] \in {None, Current(v)}
       /\ draft[v] = Current(v) \/ bag[v] = Current(v) \/ "joined" \in due[v]

\* The file of u is up to date with what u has been told, or will be, unless u has
\* skipped the hook that brings it up to date.
NodesFresh(u) ==
    Multicast(u) # "missing" /\ ~Pending(u) /\ u \notin missed =>
        /\ file[u].nodes[u] = Current(u)
        /\ \A v \in Unit \ {u} : file[u].nodes[v] = bag[v]

TransportFresh(u) ==
    Multicast(u) # "missing" /\ ~Pending(u) /\ u \notin missed =>
        /\ file[u].transport = transport
        /\ transport = "udp" /\ local => file[u].multicast = "charm"

AgreeInv ==
    /\ TypeOK /\ VipNoticed /\ DraftsBelong
    /\ \A u \in Unit : TransportFresh(u)
    /\ ~exposed => \A u \in Unit : BagFresh(u) /\ NodesFresh(u)

\* Without a virtual IP in sight a unit finds the address it goes by.
LEMMA FindsItself ==
    ASSUME TypeOK, VipNoticed, ~exposed, NEW u \in Unit
    PROVE  RelationIp(u) = {Current(u)} /\ OwnAddress(u) = {Current(u)} /\ Current(u) # None
  <1>1. Current(u) # None
    BY AddressType, NamesAssumption DEF Current
  <1>2. CASE ~prefer6 BY <1>1, <1>2 DEF RelationIp, OwnAddress, Current
  <1>3. CASE prefer6
    <2>1. held # u BY <1>3, NamesAssumption DEF VipNoticed
    <2>2. OnInterface(u) = {Own6(u)} BY <2>1 DEF OnInterface
    <2>3. CorosyncManaged = {} BY DEF CorosyncManaged, resources, resource_params
    <2>4. QED BY <1>1, <1>3, <2>2, <2>3 DEF RelationIp, OwnAddress, Ipv6Addr, Current
  <1>4. QED BY <1>2, <1>3

LEMMA InitAgrees == Init => AgreeInv
  <1> SUFFICES ASSUME Init PROVE AgreeInv OBVIOUS
  <1>1. TypeOK BY InitType
  <1>2. \A u \in Unit : "config" \in due[u] BY DEF Init, Hook
  <1>3. \A u \in Unit : Pending(u) BY <1>2 DEF Pending
  <1>4. VipNoticed /\ DraftsBelong BY DEF Init, VipNoticed, DraftsBelong
  <1>5. QED BY <1>1, <1>2, <1>3, <1>4 DEF AgreeInv, BagFresh, NodesFresh, TransportFresh

\* What no hook step touches.
LEMMA HookFrame ==
    ASSUME TypeOK, NEW u \in Unit, HookStep(u) \/ HookFails(u)
    PROVE  /\ UNCHANGED <<prefer6, transport, local, moved, held, offered, exposed>>
           /\ \A v \in Unit : Current(v)' = Current(v) /\ Multicast(v)' = Multicast(v)
           /\ \A v \in Unit \ {u} : UNCHANGED <<draft[v], job[v], at[v], file[v], bag[v]>>
           /\ \A v \in Unit \ {u} : v \in missed' <=> v \in missed
           /\ PublishAddress(u) \/ SkipConfig(u) \/ UNCHANGED missed
  <1>1. UNCHANGED <<prefer6, transport, local, moved, held, offered, exposed>>
    BY DEF HookStep, PublishAddress, SkipConfig, HaRelationChanged, ConfigureCorosync, EndHook,
           HookFails, options, network
  <1>2. \A v \in Unit : Current(v)' = Current(v) /\ Multicast(v)' = Multicast(v)
    BY <1>1 DEF Current, Own6, Ingress, Multicast
  <1>3. ASSUME NEW v \in Unit \ {u} PROVE UNCHANGED <<draft[v], job[v], at[v], file[v], bag[v]>>
    BY <1>3 DEF TypeOK, HookStep, PublishAddress, SkipConfig, HaRelationChanged,
           ConfigureCorosync, EndHook, HookFails, Begin, Published
  <1>4. PublishAddress(u) \/ SkipConfig(u) \/ UNCHANGED missed
    BY DEF HookStep, HaRelationChanged, ConfigureCorosync, EndHook, HookFails, pauses
  <1>5. \A v \in Unit \ {u} : v \in missed' <=> v \in missed
    BY <1>4 DEF PublishAddress, SkipConfig
  <1>6. QED BY <1>1, <1>2, <1>3, <1>4, <1>5

LEMMA PublishAgrees ==
    ASSUME AgreeInv, NEW u \in Unit, PublishAddress(u)
    PROVE  AgreeInv'
  <1>1. TypeOK /\ TypeOK' BY HookType DEF AgreeInv, HookStep
  <1>2. /\ UNCHANGED <<prefer6, transport, local, moved, held, offered, exposed>>
        /\ \A v \in Unit : Current(v)' = Current(v) /\ Multicast(v)' = Multicast(v)
        /\ \A v \in Unit \ {u} : UNCHANGED <<draft[v], job[v], at[v]>>
        /\ \A v \in Unit \ {u} : v \in missed' <=> v \in missed
    BY <1>1, HookFrame DEF HookStep
  <1>3. UNCHANGED <<bag, file>> BY DEF PublishAddress
  <1>4. \A v \in Unit \ {u} : due'[v] = due[v]
    BY <1>1 DEF PublishAddress, Begin, TypeOK
  <1>5. \/ /\ job'[u] = "joined" /\ at'[u] = "ending" /\ due'[u] = due[u] \ {"joined"}
           /\ missed' = missed
        \/ job'[u] = "config" /\ at'[u] = "configuring" /\ due'[u] = due[u] \ {"config"}
    BY <1>1 DEF PublishAddress, Begin, TypeOK
  <1>6. at[u] = "idle" BY DEF PublishAddress, Begin
  <1>7. \A v \in Unit : Pending(v) \/ v \in missed => Pending(v)' \/ v \in missed'
    <2>1. Pending(u) \/ u \in missed => Pending(u)' \/ u \in missed' BY <1>5, <1>6 DEF Pending
    <2>2. QED BY <1>2, <1>4, <2>1 DEF Pending
  <1>8. VipNoticed' /\ DraftsBelong'
    BY <1>2, <1>5 DEF AgreeInv, VipNoticed, DraftsBelong
  <1>9. \A v \in Unit : TransportFresh(v)'
    BY <1>2, <1>3, <1>7 DEF AgreeInv, TransportFresh
  <1>10. ASSUME ~exposed' PROVE \A v \in Unit : BagFresh(v)' /\ NodesFresh(v)'
    <2>1. draft'[u] = Current(u)
      <3>1. RelationIp(u) = {Current(u)} BY <1>1, <1>2, <1>10, FindsItself DEF AgreeInv
      <3>2. QED BY <1>1, <3>1 DEF PublishAddress, TypeOK
    <2>2. BagFresh(u)' BY <1>2, <2>1 DEF BagFresh
    <2>3. \A v \in Unit : BagFresh(v) /\ NodesFresh(v) BY <1>2, <1>10 DEF AgreeInv
    <2>4. \A v \in Unit \ {u} : BagFresh(v)' BY <1>2, <1>3, <1>4, <2>3 DEF BagFresh
    <2>5. \A v \in Unit : NodesFresh(v)' BY <1>2, <1>3, <1>7, <2>3 DEF NodesFresh
    <2>6. QED BY <2>2, <2>4, <2>5
  <1>11. QED BY <1>1, <1>8, <1>9, <1>10 DEF AgreeInv

LEMMA SkipAgrees ==
    ASSUME AgreeInv, NEW u \in Unit, SkipConfig(u)
    PROVE  AgreeInv'
  <1>1. TypeOK /\ TypeOK' BY HookType DEF AgreeInv, HookStep
  <1>2. /\ UNCHANGED <<prefer6, transport, local, moved, held, offered, exposed>>
        /\ \A v \in Unit : Current(v)' = Current(v) /\ Multicast(v)' = Multicast(v)
        /\ \A v \in Unit \ {u} : UNCHANGED <<job[v], at[v]>>
        /\ \A v \in Unit \ {u} : v \in missed' <=> v \in missed
    BY <1>1, HookFrame DEF HookStep
  <1>3. UNCHANGED <<bag, file, draft>> /\ u \in missed' BY DEF SkipConfig
  <1>4. /\ at[u] = "idle" /\ at'[u] = "ending" /\ job'[u] = "config"
        /\ \A v \in Unit \ {u} : due'[v] = due[v]
    BY <1>1 DEF SkipConfig, Begin, TypeOK
  <1>5. \A v \in Unit \ {u} : Pending(v)' = Pending(v) BY <1>2, <1>4 DEF Pending
  <1>6. VipNoticed' /\ DraftsBelong'
    BY <1>2, <1>3, <1>4 DEF AgreeInv, VipNoticed, DraftsBelong
  <1>7. \A v \in Unit : TransportFresh(v)'
    BY <1>2, <1>3, <1>5 DEF AgreeInv, TransportFresh
  <1>8. ASSUME ~exposed' PROVE \A v \in Unit : BagFresh(v)' /\ NodesFresh(v)'
    <2>1. \A v \in Unit : BagFresh(v) /\ NodesFresh(v) BY <1>2, <1>8 DEF AgreeInv
    <2>2. \A v \in Unit : BagFresh(v)' BY <1>2, <1>3, <1>4, <2>1 DEF BagFresh
    <2>3. \A v \in Unit : NodesFresh(v)' BY <1>2, <1>3, <1>5, <2>1 DEF NodesFresh
    <2>4. QED BY <2>2, <2>3
  <1>9. QED BY <1>1, <1>6, <1>7, <1>8 DEF AgreeInv

LEMMA HaAgrees ==
    ASSUME AgreeInv, NEW u \in Unit, HaRelationChanged(u)
    PROVE  AgreeInv'
  <1>1. TypeOK /\ TypeOK' BY HookType DEF AgreeInv, HookStep
  <1>2. /\ UNCHANGED <<prefer6, transport, local, moved, held, offered, exposed>>
        /\ \A v \in Unit : Current(v)' = Current(v) /\ Multicast(v)' = Multicast(v)
        /\ \A v \in Unit \ {u} : UNCHANGED <<job[v], at[v]>>
    BY <1>1, HookFrame DEF HookStep
  <1>3. UNCHANGED <<bag, file, draft, missed>> BY DEF HaRelationChanged, pauses
  <1>4. /\ at[u] = "idle" /\ at'[u] = "configuring" /\ job'[u] = "ha"
        /\ due' = [due EXCEPT ![u] = @ \ {"ha"}]
    BY <1>1 DEF HaRelationChanged, Begin, TypeOK
  <1>5. \A v \in Unit : Pending(v) => Pending(v)'
    BY <1>1, <1>2, <1>4 DEF Pending, TypeOK
  <1>6. draft[u] = None BY <1>4 DEF AgreeInv, DraftsBelong
  <1>7. VipNoticed' /\ DraftsBelong'
    BY <1>2, <1>3, <1>4, <1>6 DEF AgreeInv, VipNoticed, DraftsBelong
  <1>8. \A v \in Unit : TransportFresh(v)'
    BY <1>2, <1>3, <1>5 DEF AgreeInv, TransportFresh
  <1>9. ASSUME ~exposed' PROVE \A v \in Unit : BagFresh(v)' /\ NodesFresh(v)'
    <2>1. \A v \in Unit : BagFresh(v) /\ NodesFresh(v) BY <1>2, <1>9 DEF AgreeInv
    <2>2. \A v \in Unit : due'[v] \cap {"config", "joined"} = due[v] \cap {"config", "joined"}
      BY <1>1, <1>4 DEF TypeOK
    <2>3. \A v \in Unit : BagFresh(v)' BY <1>2, <1>3, <2>1, <2>2 DEF BagFresh
    <2>4. \A v \in Unit : NodesFresh(v)' BY <1>2, <1>3, <1>5, <2>1 DEF NodesFresh
    <2>5. QED BY <2>3, <2>4
  <1>10. QED BY <1>1, <1>7, <1>8, <1>9 DEF AgreeInv

LEMMA ConfigureAgrees ==
    ASSUME AgreeInv, NEW u \in Unit, ConfigureCorosync(u)
    PROVE  AgreeInv'
  <1>1. TypeOK /\ TypeOK' BY HookType DEF AgreeInv, HookStep
  <1>2. /\ UNCHANGED <<prefer6, transport, local, moved, held, offered, exposed>>
        /\ \A v \in Unit : Current(v)' = Current(v) /\ Multicast(v)' = Multicast(v)
        /\ \A v \in Unit \ {u} : UNCHANGED <<at[v], file[v]>>
    BY <1>1, HookFrame DEF HookStep
  <1>3. UNCHANGED <<bag, draft, due, job, missed>> BY DEF ConfigureCorosync, pauses
  <1>4. at[u] = "configuring" /\ at'[u] = "ending"
    BY <1>1 DEF ConfigureCorosync, TypeOK
  <1>5. \A v \in Unit \ {u} : Pending(v)' = Pending(v) BY <1>2, <1>3 DEF Pending
  <1>6. VipNoticed' /\ DraftsBelong'
    BY <1>2, <1>3, <1>4 DEF AgreeInv, VipNoticed, DraftsBelong
  <1>7. ASSUME Multicast(u) # "missing"
        PROVE  /\ file'[u].transport = transport /\ file'[u].multicast = Multicast(u)
               /\ file'[u].nodes \in HaNodes(u)
    <2>1. HaNodes(u) # {}
      <3>1. OwnAddress(u) # {}
        <4>1. CorosyncManaged = {} BY DEF CorosyncManaged, resources, resource_params
        <4>2. QED BY <4>1 DEF OwnAddress, Ipv6Addr, OnInterface
      <3>2. QED BY <3>1 DEF HaNodes
    <2>2. CorosyncConfs(u) # {} BY <1>7, <2>1 DEF CorosyncConfs
    <2>3. PICK c \in CorosyncConfs(u) : file' = [file EXCEPT ![u] = c]
      BY <2>2 DEF ConfigureCorosync
    <2>4. file'[u] = c BY <1>1, <2>3 DEF TypeOK
    <2>5. QED BY <1>1, <2>4, ConfType
  <1>8. ASSUME NEW v \in Unit PROVE TransportFresh(v)'
    <2>1. CASE v = u
      <3>1. transport = "udp" /\ local => Multicast(u) = "charm"
        BY <1>1 DEF Multicast
      <3>2. QED BY <1>2, <1>7, <2>1, <3>1 DEF TransportFresh
    <2>2. CASE v # u BY <1>2, <1>3, <1>5, <2>2 DEF AgreeInv, TransportFresh
    <2>3. QED BY <2>1, <2>2
  <1>9. ASSUME ~exposed', NEW v \in Unit PROVE BagFresh(v)' /\ NodesFresh(v)'
    <2>1. BagFresh(v) /\ NodesFresh(v) BY <1>2, <1>9 DEF AgreeInv
    <2>2. BagFresh(v)' BY <1>2, <1>3, <2>1 DEF BagFresh
    <2>3. CASE v = u
      <3>1. OwnAddress(u) = {Current(u)} BY <1>1, <1>2, <1>9, FindsItself DEF AgreeInv
      <3>2. HaNodes(u) = {[bag EXCEPT ![u] = Current(u)]} BY <3>1 DEF HaNodes
      <3>3. ASSUME Multicast(u) # "missing"
            PROVE  /\ file'[u].nodes[u] = Current(u)
                   /\ \A w \in Unit \ {u} : file'[u].nodes[w] = bag[w]
        <4>1. file'[u].nodes = [bag EXCEPT ![u] = Current(u)] BY <1>7, <3>2, <3>3
        <4>2. QED BY <1>1, <4>1 DEF TypeOK
      <3>4. QED BY <1>2, <1>3, <2>2, <2>3, <3>3 DEF NodesFresh
    <2>4. CASE v # u BY <1>2, <1>3, <1>5, <2>1, <2>2, <2>4 DEF NodesFresh
    <2>5. QED BY <2>3, <2>4
  <1>10. QED BY <1>1, <1>6, <1>8, <1>9 DEF AgreeInv

LEMMA EndAgrees ==
    ASSUME AgreeInv, NEW u \in Unit, EndHook(u)
    PROVE  AgreeInv'
  <1>1. TypeOK /\ TypeOK' BY HookType DEF AgreeInv, HookStep
  <1>2. /\ UNCHANGED <<prefer6, transport, local, moved, held, offered, exposed>>
        /\ \A v \in Unit : Current(v)' = Current(v) /\ Multicast(v)' = Multicast(v)
        /\ \A v \in Unit \ {u} : UNCHANGED <<draft[v], job[v], at[v], bag[v]>>
    BY <1>1, HookFrame DEF HookStep
  <1>3. UNCHANGED <<file, missed>> BY DEF EndHook, pauses
  <1>4. at[u] = "ending" /\ at'[u] = "idle" /\ draft'[u] = None
    BY <1>1 DEF EndHook, TypeOK
  <1>5. /\ bag'[u] = IF draft[u] = None THEN bag[u] ELSE draft[u]
        /\ due'[u] = due[u]
        /\ \A v \in Unit : due[v] \subseteq due'[v]
        /\ bag'[u] # bag[u] => \A v \in Unit \ {u} : "ha" \in due'[v]
    <2>1. CASE draft[u] = None BY <2>1 DEF EndHook
    <2>2. CASE draft[u] # None BY <1>1, <2>2 DEF EndHook, Published, TypeOK
    <2>3. QED BY <2>1, <2>2
  <1>6. \A v \in Unit : Pending(v) => Pending(v)'
    BY <1>2, <1>4, <1>5 DEF Pending
  <1>7. VipNoticed' /\ DraftsBelong'
    BY <1>2, <1>4 DEF AgreeInv, VipNoticed, DraftsBelong
  <1>8. \A v \in Unit : TransportFresh(v)'
    BY <1>2, <1>3, <1>6 DEF AgreeInv, TransportFresh
  <1>9. ASSUME ~exposed', NEW v \in Unit PROVE BagFresh(v)' /\ NodesFresh(v)'
    <2>1. BagFresh(v) /\ NodesFresh(v) BY <1>2, <1>9 DEF AgreeInv
    <2>2. BagFresh(v)'
      <3>1. CASE v = u BY <1>2, <1>3, <1>4, <1>5, <2>1, <3>1 DEF BagFresh
      <3>2. CASE v # u BY <1>2, <1>3, <1>5, <2>1, <3>2 DEF BagFresh
      <3>3. QED BY <3>1, <3>2
    <2>3. NodesFresh(v)'
      <3>1. CASE bag'[u] # bag[u] /\ v # u
        BY <1>5, <3>1 DEF NodesFresh, Pending
      <3>2. CASE bag'[u] = bag[u] \/ v = u
        <4>1. \A w \in Unit \ {v} : bag'[w] = bag[w] BY <1>2, <3>2
        <4>2. QED BY <1>2, <1>3, <1>6, <2>1, <4>1 DEF NodesFresh
      <3>3. QED BY <3>1, <3>2
    <2>4. QED BY <2>2, <2>3
  <1>10. QED BY <1>1, <1>7, <1>8, <1>9 DEF AgreeInv

LEMMA FailsAgrees ==
    ASSUME AgreeInv, NEW u \in Unit, HookFails(u)
    PROVE  AgreeInv'
  <1>1. TypeOK /\ TypeOK' BY HookType DEF AgreeInv
  <1>2. /\ UNCHANGED <<prefer6, transport, local, moved, held, offered, exposed>>
        /\ \A v \in Unit : Current(v)' = Current(v) /\ Multicast(v)' = Multicast(v)
        /\ \A v \in Unit \ {u} : UNCHANGED <<draft[v], job[v], at[v]>>
    BY <1>1, HookFrame
  <1>3. UNCHANGED <<bag, file, missed>> BY DEF HookFails, pauses
  <1>4. /\ at[u] # "idle" /\ at'[u] = "idle" /\ draft'[u] = None
        /\ due'[u] = due[u] \cup {job[u]}
        /\ \A v \in Unit \ {u} : due'[v] = due[v]
    BY <1>1 DEF HookFails, TypeOK
  <1>5. \A v \in Unit : Pending(v) => Pending(v)'
    <2>1. Pending(u) => Pending(u)' BY <1>4 DEF AgreeInv, DraftsBelong, Pending
    <2>2. QED BY <1>2, <1>4, <2>1 DEF Pending
  <1>6. VipNoticed' /\ DraftsBelong'
    BY <1>2, <1>4 DEF AgreeInv, VipNoticed, DraftsBelong
  <1>7. \A v \in Unit : TransportFresh(v)'
    BY <1>2, <1>3, <1>5 DEF AgreeInv, TransportFresh
  <1>8. ASSUME ~exposed', NEW v \in Unit PROVE BagFresh(v)' /\ NodesFresh(v)'
    <2>1. BagFresh(v) /\ NodesFresh(v) BY <1>2, <1>8 DEF AgreeInv
    <2>2. BagFresh(v)'
      <3>1. CASE v = u /\ draft[u] # None
        BY <1>4, <3>1 DEF AgreeInv, DraftsBelong, BagFresh
      <3>2. CASE v = u /\ draft[u] = None
        BY <1>2, <1>3, <1>4, <2>1, <3>2 DEF BagFresh
      <3>3. CASE v # u BY <1>2, <1>3, <1>4, <2>1, <3>3 DEF BagFresh
      <3>4. QED BY <3>1, <3>2, <3>3
    <2>3. NodesFresh(v)' BY <1>2, <1>3, <1>5, <2>1 DEF NodesFresh
    <2>4. QED BY <2>2, <2>3
  <1>9. QED BY <1>1, <1>6, <1>7, <1>8 DEF AgreeInv

\* Whatever the operator, the principal, pacemaker and the network do wakes the
\* hooks that catch up with it.
LEMMA AroundAgrees ==
    ASSUME AgreeInv, [Next]_vars, ~\E u \in Unit : HookStep(u) \/ HookFails(u)
    PROVE  AgreeInv'
  <1> USE DEF options, network, hook, pauses
  <1>1. TypeOK /\ TypeOK' BY AroundType DEF AgreeInv
  <1>2. CASE SetPreferIpv6 \/ SetTransport
    <2>1. UNCHANGED hook /\ \A u \in Unit : "config" \in due'[u] /\ Pending(u)'
      BY <1>2 DEF SetPreferIpv6, SetTransport, WakeAll, Pending
    <2>2. DraftsBelong' BY <2>1 DEF AgreeInv, DraftsBelong
    <2>3. VipNoticed'
      <3>1. CASE SetPreferIpv6
        <4>1. held' = held BY <3>1 DEF SetPreferIpv6
        <4>2. prefer6' /\ held # None => exposed' BY <3>1 DEF SetPreferIpv6
        <4>3. QED BY <4>1, <4>2 DEF VipNoticed
      <3>2. CASE SetTransport
        <4>1. UNCHANGED <<prefer6, held, exposed>> BY <3>2 DEF SetTransport
        <4>2. QED BY <4>1 DEF AgreeInv, VipNoticed
      <3>3. QED BY <1>2, <3>1, <3>2
    <2>4. QED BY <1>1, <2>1, <2>2, <2>3 DEF AgreeInv, BagFresh, NodesFresh, TransportFresh
  <1>3. ASSUME NEW u \in Unit, PrincipalOffers(u) PROVE AgreeInv'
    <2>1. /\ \A v \in Unit \ {u} : due'[v] = due[v] /\ Multicast(v)' = Multicast(v)
          /\ due'[u] = due[u] \cup {"ha"}
      BY <1>1, <1>3 DEF PrincipalOffers, TypeOK, Multicast
    <2>2. UNCHANGED <<options, network, hook, pauses, bag, file, exposed>> BY <1>3 DEF PrincipalOffers
    <2>3. Pending(u)' /\ \A v \in Unit \ {u} : Pending(v)' = Pending(v)
      BY <2>1, <2>2 DEF Pending
    <2>4. \A v \in Unit : Current(v)' = Current(v) BY <2>2 DEF Current, Own6, Ingress
    <2>5. VipNoticed' /\ DraftsBelong' BY <2>2 DEF AgreeInv, VipNoticed, DraftsBelong
    <2>6. \A v \in Unit : TransportFresh(v)' BY <2>1, <2>2, <2>3 DEF AgreeInv, TransportFresh
    <2>7. ASSUME ~exposed' PROVE \A v \in Unit : BagFresh(v)' /\ NodesFresh(v)'
      <3>1. \A v \in Unit : BagFresh(v) /\ NodesFresh(v) BY <2>2, <2>7 DEF AgreeInv
      <3>2. \A v \in Unit : BagFresh(v)' BY <2>1, <2>2, <2>4, <3>1 DEF BagFresh
      <3>3. \A v \in Unit : NodesFresh(v)' BY <2>1, <2>2, <2>3, <2>4, <3>1 DEF NodesFresh
      <3>4. QED BY <3>2, <3>3
    <2>8. QED BY <1>1, <2>5, <2>6, <2>7 DEF AgreeInv
  <1>4. ASSUME NEW u \in Unit, AddressChanges(u) PROVE AgreeInv'
    <2>1. /\ \A v \in Unit \ {u} : due'[v] = due[v] /\ moved'[v] = moved[v]
          /\ due'[u] = due[u] \cup {"config"}
      BY <1>1, <1>4 DEF AddressChanges, TypeOK
    <2>2. UNCHANGED <<options, held, hook, pauses, offered, bag, file, exposed>>
      BY <1>4 DEF AddressChanges
    <2>3. Pending(u)' /\ \A v \in Unit \ {u} : Pending(v)' = Pending(v)
      BY <2>1, <2>2 DEF Pending
    <2>4. /\ \A v \in Unit \ {u} : Current(v)' = Current(v)
          /\ \A v \in Unit : Multicast(v)' = Multicast(v)
      BY <2>1, <2>2 DEF Current, Own6, Ingress, Multicast
    <2>5. VipNoticed' /\ DraftsBelong' BY <2>2 DEF AgreeInv, VipNoticed, DraftsBelong
    <2>6. \A v \in Unit : TransportFresh(v)' BY <2>2, <2>3, <2>4 DEF AgreeInv, TransportFresh
    <2>7. ASSUME ~exposed' PROVE \A v \in Unit : BagFresh(v)' /\ NodesFresh(v)'
      <3>1. \A v \in Unit : BagFresh(v) /\ NodesFresh(v) BY <2>2, <2>7 DEF AgreeInv
      <3>2. BagFresh(u)' BY <2>1 DEF BagFresh
      <3>3. \A v \in Unit \ {u} : BagFresh(v)' BY <2>1, <2>2, <2>4, <3>1 DEF BagFresh
      <3>4. \A v \in Unit : NodesFresh(v)' BY <2>2, <2>3, <2>4, <3>1 DEF NodesFresh
      <3>5. QED BY <3>2, <3>3, <3>4
    <2>8. QED BY <1>1, <2>5, <2>6, <2>7 DEF AgreeInv
  <1>5. ASSUME NEW u \in Unit, PlaceVip(u) PROVE AgreeInv'
    <2>1. /\ UNCHANGED <<options, moved, hook, pauses, offered, bag, due, file>>
          /\ exposed' = (exposed \/ prefer6)
      BY <1>5 DEF PlaceVip
    <2>2. \A v \in Unit : /\ Current(v)' = Current(v) /\ Multicast(v)' = Multicast(v)
                          /\ Pending(v)' = Pending(v)
      BY <2>1 DEF Current, Own6, Ingress, Multicast, Pending
    <2>3. VipNoticed' /\ DraftsBelong' BY <2>1 DEF AgreeInv, VipNoticed, DraftsBelong
    <2>4. \A v \in Unit : TransportFresh(v)' BY <2>1, <2>2 DEF AgreeInv, TransportFresh
    <2>5. ~exposed' => \A v \in Unit : BagFresh(v)' /\ NodesFresh(v)'
      BY <2>1, <2>2 DEF AgreeInv, BagFresh, NodesFresh
    <2>6. QED BY <1>1, <2>3, <2>4, <2>5 DEF AgreeInv
  <1>6. ASSUME NEW u \in Unit, PauseUnit(u) \/ ResumeUnit(u) PROVE AgreeInv'
    <2>1. UNCHANGED <<options, network, hook, missed, offered, bag, due, file, exposed>>
      BY <1>6 DEF PauseUnit, ResumeUnit
    <2>2. \A v \in Unit : /\ Current(v)' = Current(v) /\ Multicast(v)' = Multicast(v)
                          /\ Pending(v)' = Pending(v)
      BY <2>1 DEF Current, Own6, Ingress, Multicast, Pending
    <2>3. VipNoticed' /\ DraftsBelong' BY <2>1 DEF AgreeInv, VipNoticed, DraftsBelong
    <2>4. \A v \in Unit : TransportFresh(v)' BY <2>1, <2>2 DEF AgreeInv, TransportFresh
    <2>5. ~exposed' => \A v \in Unit : BagFresh(v)' /\ NodesFresh(v)'
      BY <2>1, <2>2 DEF AgreeInv, BagFresh, NodesFresh
    <2>6. QED BY <1>1, <2>3, <2>4, <2>5 DEF AgreeInv
  <1>7. CASE UNCHANGED vars
    BY <1>7 DEF vars, AgreeInv, TypeOK, VipNoticed, DraftsBelong, TransportFresh, BagFresh,
                NodesFresh, Pending, Current, Own6, Ingress, Multicast
  <1>8. QED BY <1>2, <1>3, <1>4, <1>5, <1>6, <1>7 DEF Next

LEMMA AgreeInvariant == Spec => []AgreeInv
  <1>1. Init => AgreeInv BY InitAgrees
  <1>2. ASSUME AgreeInv, [Next]_vars PROVE AgreeInv'
    <2>1. CASE \E u \in Unit : HookStep(u) \/ HookFails(u)
      BY <1>2, <2>1, PublishAgrees, SkipAgrees, HaAgrees, ConfigureAgrees, EndAgrees,
         FailsAgrees DEF HookStep
    <2>2. CASE ~\E u \in Unit : HookStep(u) \/ HookFails(u) BY <1>2, <2>2, AroundAgrees
    <2>3. QED BY <2>1, <2>2
  <1>3. QED BY <1>1, <1>2, PTL DEF Spec

\* Once all hooks are through, the configured units that have skipped no
\* config-changed give every node the address it goes by, or the one it published
\* last when it has skipped one: for any number of units and whatever has happened
\* to options, addresses, pauses and hooks, as long as no virtual IP was beside
\* IPv6 addresses that were looked for.
THEOREM AgreementCorrect == Spec => []AddressesAgree
  <1>1. AgreeInv => AddressesAgree
    <2> SUFFICES ASSUME AgreeInv, Quiet, ~exposed, NEW u \in Unit \ missed,
                        Multicast(u) # "missing", NEW v \in Unit
                 PROVE  file[u].nodes[v] = IF v \in missed THEN bag[v] ELSE Current(v)
      BY DEF AddressesAgree
    <2>1. ~Pending(u) BY DEF Quiet, Pending
    <2>2. CASE v \in missed BY <2>1, <2>2 DEF AgreeInv, NodesFresh
    <2>3. CASE v \notin missed
      <3>1. draft[v] = None /\ due[v] = {} BY DEF Quiet, AgreeInv, DraftsBelong
      <3>2. Current(v) # None BY FindsItself DEF AgreeInv
      <3>3. bag[v] = Current(v) BY <2>3, <3>1, <3>2 DEF AgreeInv, BagFresh
      <3>4. QED BY <2>1, <2>3, <3>3 DEF AgreeInv, NodesFresh
    <2>4. QED BY <2>2, <2>3
  <1>2. QED BY <1>1, AgreeInvariant, PTL

\* Likewise the units that have skipped no config-changed have the transport the
\* operator has set, and the charm's own multicast settings win.
THEOREM TransportsCorrect == Spec => []TransportsAgree
  <1>1. AgreeInv => TransportsAgree
    BY DEF AgreeInv, TransportsAgree, TransportFresh, Quiet, Pending
  <1>2. QED BY <1>1, AgreeInvariant, PTL
=============================================================================
