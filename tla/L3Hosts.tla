------------------------------- MODULE L3Hosts -------------------------------
(***************************************************************************)
(* L3 of the plugin: routing on interfaces (the vrf branch of bundle_set   *)
(* and ops-fpa-routing.c), next-hop hosts with their ARP indices and       *)
(* groups (add_l3_host_entry, delete_l3_host_entry, ops-fpa-route.c) and   *)
(* routes (l3_route_action).  All of it runs in the main thread, so every  *)
(* operation is one step; the calls of the FPA library it makes can fail.  *)
(* A step meets at most one failing call among those that set something    *)
(* up, and one among those that take something down.                       *)
(*                                                                         *)
(* The ASIC has an L2 interface group per (port, VLAN) and an L3 unicast   *)
(* group per ARP index, which refers to an L2 group; routes refer to L3    *)
(* groups.  Adding a group that is there is accepted, and a group that is  *)
(* referred to is not deleted: the code relies on both, since the hosts    *)
(* behind a port share an L2 group that each of them adds and deletes.     *)
(***************************************************************************)
EXTENDS Integers, FiniteSets

CONSTANTS
  Bundle,       \* L3 interfaces
  System,       \* those of netdev type "system"; the others are "internal"
  Vlan,         \* the VLANs they route on: numbers, not 0
  VlanOf,       \* the VLANs the settings of an interface may name, 0: none
  Pid,          \* ports
  PidOf,        \* the port of a system interface
  Host,         \* IPv4 addresses of next hops
  Prefix,       \* prefixes of routes
  N,            \* ARP_INDICES_SIZE
  CountMod,     \* 2^64: routes_count is an unsigned long
  Faults,       \* the kinds of FPA call that may fail
  Disciplined,  \* TRUE if the callers undo what they did, last things first
  NoGroup, NoHost

Group2 == Pid \X Vlan

(* host_table_entry; l3_group is built from arp.  "on" is history: the     *)
(* interface the host was added through, which the code does not record.   *)
HostEntry == [ip : Host, arp : 1 .. N, l2 : Group2, on : Bundle]

FaultKind == {"enable", "disable", "host_add", "host_del", "route_add",
              "route_del"}

ASSUME L3Assumption ==
  /\ System \subseteq Bundle
  /\ Vlan \subseteq Nat \ {0}
  /\ VlanOf \in [Bundle -> SUBSET (Vlan \cup {0})]
  /\ PidOf \in [Bundle -> Pid]
  /\ N \in Nat \ {0}
  /\ CountMod \in Nat \ {0}
  /\ Faults \subseteq FaultKind
  /\ Disciplined \in BOOLEAN
  /\ NoGroup \notin Group2
  /\ NoHost \notin Host

VARIABLES
  arp,       \* arp_indices: a free list threaded through the array, head at 0
  hosts,     \* host_table
  bundles,   \* the interfaces that have a bundle record
  vlan,      \* bundle->l3_intf->vlan_id, or 0 if l3_intf is NULL
  count,     \* bundle->l3_intf->routes_count
  internal,  \* internal_vlans
  ingress,   \* untagged ingress flows in the ASIC: (port, VLAN)
  flow,      \* the other flows of each VLAN in the ASIC
  l2grp,     \* L2 groups in the ASIC
  l3grp,     \* the L2 group each L3 group in the ASIC refers to, or NoGroup
  route,     \* the L3 group of each destination in the ASIC, NoRoute or Trap
  want,      \* history: the VLAN of the last settings, or 0 if disabled
  via        \* history: the next hop a prefix was last routed through

intf == <<bundles, vlan, count, internal, ingress, flow>>
vars == <<arp, hosts, intf, l2grp, l3grp, route, want, via>>

Trap == -1
NoRoute == 0

Flow == {"arp_bcast", "arp_fwd", "udp_dhcp", "termination"}
Dest == Host \cup Prefix

TypeOK ==
  /\ arp \in [0 .. N -> 0 .. N]
  /\ hosts \in SUBSET HostEntry
  /\ bundles \in SUBSET Bundle
  /\ vlan \in [Bundle -> Vlan \cup {0}]
  /\ count \in [Bundle -> 0 .. CountMod - 1]
  /\ internal \in SUBSET Vlan
  /\ ingress \in SUBSET Group2
  /\ flow \in [Vlan -> SUBSET Flow]
  /\ l2grp \in SUBSET Group2
  /\ l3grp \in [1 .. N -> Group2 \cup {NoGroup}]
  /\ route \in [Dest -> 1 .. N \cup {Trap, NoRoute}]
  /\ want \in [Bundle -> Vlan \cup {0}]
  /\ via \in [Prefix -> Host \cup {NoHost}]

(* ops_fpa_ofproto_init                                                    *)
Init ==
  /\ arp = [i \in 0 .. N |-> IF i < N THEN i + 1 ELSE 0]
  /\ hosts = {}
  /\ bundles = {}
  /\ vlan = [b \in Bundle |-> 0]
  /\ count = [b \in Bundle |-> 0]
  /\ internal = {}
  /\ ingress = {}
  /\ flow = [v \in Vlan |-> {}]
  /\ l2grp = {}
  /\ l3grp = [i \in 1 .. N |-> NoGroup]
  /\ route = [d \in Dest |-> NoRoute]
  /\ want = [b \in Bundle |-> 0]
  /\ via = [d \in Prefix |-> NoHost]

(* What a step can meet: all of its calls succeed, or one of these fails.  *)
Outcome(kind, calls) == {"ok"} \cup (IF kind \in Faults THEN calls ELSE {})

(* wrap_fpaLibGroupTableEntryDelete, on the L2 groups and on the L3 groups *)
DelL2(l2, l3, g) == IF \E i \in 1 .. N : l3[i] = g THEN l2 ELSE l2 \ {g}

DelL3(l3, rt, i) ==
  IF \E d \in Dest : rt[d] = i THEN l3 ELSE [l3 EXCEPT ![i] = NoGroup]

-----------------------------------------------------------------------------
(* Routing on an interface.                                                *)

(* The calls that switch routing on, in order.  "egress" and "bucket" add  *)
(* the L2 group.  The first three are ops_fpa_vlan_add_internal, which     *)
(* only a system interface makes.                                          *)
EnableCalls == <<"ingress", "egress", "bucket", "arp_bcast", "arp_fwd",
                 "udp_dhcp", "termination">>

InternalCalls == {"ingress", "egress", "bucket"}

Earlier(call) ==
  LET at == CHOOSE i \in 1 .. 7 : EnableCalls[i] = call
  IN {EnableCalls[i] : i \in 1 .. at - 1}

(* The flow for untagged packets has the port as its cookie.               *)
DelIngress(p) == {f \in ingress : f[1] # p}

(* ops_fpa_vlan_add_internal for a VLAN that is internal already: it fails *)
(* and leaves what it added.                                               *)
EnableInternalTwice(b, v) ==
  /\ b \in System /\ v \in internal
  /\ ingress' = ingress \cup {<<PidOf[b], v>>}
  /\ l2grp' = l2grp \cup {<<PidOf[b], v>>}
  /\ UNCHANGED <<vlan, count, internal, flow>>

EnableSucceeds(b, v) ==
  /\ b \in System => v \notin internal
  /\ vlan' = [vlan EXCEPT ![b] = v]
  /\ count' = [count EXCEPT ![b] = 0]
  /\ flow' = [flow EXCEPT ![v] = Flow]
  /\ LET own == IF b \in System THEN {<<PidOf[b], v>>} ELSE {}
     IN /\ ingress' = ingress \cup own
        /\ l2grp' = l2grp \cup own
  /\ internal' = IF b \in System THEN internal \cup {v} ELSE internal

(* Mutant: nothing is undone.                                              *)
EnableFailsHalfway(b, v, call) ==
  /\ "enable" \in Faults
  /\ call \in Flow
  /\ b \in System => v \notin internal
  /\ flow' = [flow EXCEPT ![v] = @ \cup (Flow \cap Earlier(call))]
  /\ UNCHANGED <<vlan, count, internal, ingress, l2grp>>

(* One call fails: those before it are undone and l3_intf stays NULL.      *)
EnableFails(b, v, call) ==
  /\ "enable" \in Faults
  /\ call \in InternalCalls => b \in System
  /\ b \in System /\ v \in internal => call \in InternalCalls
  /\ LET undoes(step) == b \in System /\ step \in Earlier(call)
     IN /\ ingress' = IF undoes("ingress") THEN DelIngress(PidOf[b])
                                           ELSE ingress
        /\ l2grp' = IF undoes("egress")
                    THEN DelL2(l2grp, l3grp, <<PidOf[b], v>>) ELSE l2grp
        /\ internal' = IF undoes("bucket") THEN internal \ {v} ELSE internal
  /\ flow' = [flow EXCEPT ![v] = @ \ Earlier(call)]
  /\ UNCHANGED <<vlan, count>>

(* ops_fpa_enable_routing_interface and ops_fpa_enable_routing_vlan        *)
ops_fpa_enable_routing(b, v) ==
  \/ EnableInternalTwice(b, v)
  \/ EnableSucceeds(b, v)
  \/ \E i \in 1 .. 7 : EnableFails(b, v, EnableCalls[i])

(* ops_fpa_disable_routing, where the groups are l2 and l3 by now.  The    *)
(* results of ops_fpa_vlan_del_internal are ignored; the first other call  *)
(* that fails is the last one made.  l3_intf is freed whatever happens.    *)
ops_fpa_disable_routing(b, l2, l3) ==
  LET g == <<PidOf[b], vlan[b]>>
  IN \E o \in Outcome("disable", Flow \cup {"ingress", "egress"}) :
       /\ flow' = [flow EXCEPT ![vlan[b]] = IF o \in Flow THEN @ \ Earlier(o)
                                                          ELSE {}]
       /\ ingress' = IF b \in System /\ o # "ingress" THEN DelIngress(PidOf[b])
                                                      ELSE ingress
       /\ l2grp' = IF b \in System /\ o # "egress" THEN DelL2(l2, l3, g)
                                                   ELSE l2
       /\ internal' = IF b \in System THEN internal \ {vlan[b]} ELSE internal
       /\ vlan' = [vlan EXCEPT ![b] = 0]
       /\ count' = [count EXCEPT ![b] = 0]

(* bundle_set in a vrf: routing is switched off if the settings say so and *)
(* routes_count is 0, and switched on if they say so, they name a VLAN and *)
(* it is off.                                                              *)
ops_fpa_ofproto_bundle_set(b, enable, v) ==
  /\ bundles' = bundles \cup {b}
  /\ want' = [want EXCEPT ![b] = IF enable THEN v ELSE 0]
  /\ CASE ~enable /\ vlan[b] # 0 /\ count[b] = 0 ->
            ops_fpa_disable_routing(b, l2grp, l3grp)
       [] enable /\ vlan[b] = 0 /\ v # 0 -> ops_fpa_enable_routing(b, v)
       [] OTHER -> UNCHANGED <<vlan, count, internal, ingress, flow, l2grp>>
  /\ UNCHANGED <<arp, hosts, l3grp, route, via>>

(* bundle_set(NULL): routing is switched off whatever routes_count is.     *)
ops_fpa_rm_bundle(b) ==
  /\ b \in bundles
  /\ Disciplined => \A e \in hosts : e.on # b
  /\ bundles' = bundles \ {b}
  /\ want' = [want EXCEPT ![b] = 0]
  /\ IF vlan[b] # 0
     THEN ops_fpa_disable_routing(b, l2grp, l3grp)
     ELSE UNCHANGED <<vlan, count, internal, ingress, flow, l2grp>>
  /\ UNCHANGED <<arp, hosts, l3grp, route, via>>

-----------------------------------------------------------------------------
(* Hosts.                                                                  *)

(* Mutants: the head stays on the list; the index taken is marked by -1;   *)
(* the released index loses the rest of the list.                          *)
TakeIndexKeepsHead == arp' = [arp EXCEPT ![arp[0]] = 0]
TakeIndexMarks == arp' = [arp EXCEPT ![0] = arp[arp[0]], ![arp[0]] = -1]
ReleaseIndexUnlinked(i) == arp' = [arp EXCEPT ![0] = i]

(* An index is taken off the head of the free list, and put back there.    *)
TakeIndex == arp' = [arp EXCEPT ![0] = arp[arp[0]], ![arp[0]] = 0]
ReleaseIndex(i) == arp' = [arp EXCEPT ![0] = i, ![i] = arp[0]]

(* The egress port: that of the interface on an internal VLAN, else the    *)
(* one the FDB has the next hop's MAC on, which may be any.                *)
EgressPort(b) == IF vlan[b] \in internal THEN {PidOf[b]} ELSE Pid

(* Mutant: routes_count is not incremented.                                *)
HostAddedUncounted(b, h, g) ==
  /\ arp[0] # 0
  /\ l3grp[arp[0]] = NoGroup
  /\ TakeIndex
  /\ l2grp' = l2grp \cup {g}
  /\ l3grp' = [l3grp EXCEPT ![arp[0]] = g]
  /\ route' = [route EXCEPT ![h] = arp[0]]
  /\ hosts' = hosts \cup {[ip |-> h, arp |-> arp[0], l2 |-> g, on |-> b]}
  /\ UNCHANGED count

(* Everything succeeds.                                                    *)
HostAdded(b, h, g) ==
  /\ arp[0] # 0
  /\ l3grp[arp[0]] = NoGroup
  /\ TakeIndex
  /\ l2grp' = l2grp \cup {g}
  /\ l3grp' = [l3grp EXCEPT ![arp[0]] = g]
  /\ route' = [route EXCEPT ![h] = arp[0]]
  /\ hosts' = hosts \cup {[ip |-> h, arp |-> arp[0], l2 |-> g, on |-> b]}
  /\ count' = [count EXCEPT ![b] = (@ + 1) % CountMod]

(* No index is left, or the group or its bucket cannot be added.           *)
HostWithoutIndex(g) ==
  /\ arp[0] = 0 \/ "host_add" \in Faults
  /\ l2grp' \in {DelL2(l2grp, l3grp, g)}
                \cup (IF "host_add" \in Faults THEN {l2grp} ELSE {})
  /\ UNCHANGED <<arp, l3grp>>

(* The L3 group is there already or cannot be added.                       *)
HostWithoutL3Group(g) ==
  /\ arp[0] # 0
  /\ l3grp[arp[0]] # NoGroup \/ "host_add" \in Faults
  /\ TakeIndex
  /\ l2grp' = DelL2(l2grp, l3grp, g)
  /\ UNCHANGED l3grp

(* The route cannot be added.  The L2 group is deleted first, while the L3 *)
(* group refers to it, so it stays.                                        *)
HostWithoutRoute(g) ==
  /\ arp[0] # 0
  /\ l3grp[arp[0]] = NoGroup
  /\ "host_add" \in Faults
  /\ TakeIndex
  /\ l2grp' = l2grp \cup {g}
  /\ UNCHANGED l3grp

add_l3_host_entry(b, h) ==
  /\ b \in bundles
  /\ vlan[b] # 0
  /\ Disciplined => \A e \in hosts : e.ip # h
  /\ \E p \in EgressPort(b) :
       LET g == <<p, vlan[b]>>
       IN \/ HostAdded(b, h, g)
          \/ /\ \/ HostWithoutIndex(g)
                \/ HostWithoutL3Group(g)
                \/ HostWithoutRoute(g)
             /\ UNCHANGED <<hosts, route, count>>
  /\ UNCHANGED <<bundles, vlan, internal, ingress, flow, want, via>>

(* delete_l3_host_entry: e is the entry host_table_find returns.  The      *)
(* results of the deletions are ignored.  The interface stops routing with *)
(* its last host.                                                          *)
delete_l3_host_entry(b, e) ==
  /\ b \in bundles
  /\ vlan[b] # 0
  /\ Disciplined => e.on = b /\ \A d \in Prefix : via[d] # e.ip
  /\ \E o \in Outcome("host_del", {"route", "l3", "l2"}) :
       LET left == IF o = "route" THEN route
                   ELSE [route EXCEPT ![e.ip] = NoRoute]
           l3 == IF o = "l3" THEN l3grp ELSE DelL3(l3grp, left, e.arp)
           l2 == IF o = "l2" THEN l2grp ELSE DelL2(l2grp, l3, e.l2)
       IN /\ route' = left
          /\ l3grp' = l3
          /\ IF count[b] = 1
             THEN ops_fpa_disable_routing(b, l2, l3)
             ELSE /\ l2grp' = l2
                  /\ count' = [count EXCEPT ![b] = (@ - 1) % CountMod]
                  /\ UNCHANGED <<vlan, internal, ingress, flow>>
  /\ ReleaseIndex(e.arp)
  /\ hosts' = hosts \ {e}
  /\ UNCHANGED <<bundles, want, via>>

-----------------------------------------------------------------------------
(* Routes: l3_route_action.  An old route of the prefix is deleted first,  *)
(* and one that could not be is overwritten.                               *)

(* OFPROTO_ROUTE_ADD through a resolved next hop, which is in the table    *)
RouteAdd(d, e) ==
  /\ \/ /\ route' = [route EXCEPT ![d] = e.arp]
        /\ via' = [via EXCEPT ![d] = e.ip]
     \/ /\ "route_add" \in Faults
        /\ route' = [route EXCEPT ![d] = NoRoute]
        /\ via' = [via EXCEPT ![d] = NoHost]
  /\ UNCHANGED <<arp, hosts, intf, l2grp, l3grp, want>>

(* OFPROTO_ROUTE_ADD through an unresolved next hop                        *)
RouteTrap(d) ==
  /\ \/ route' = [route EXCEPT ![d] = Trap]
     \/ /\ "route_add" \in Faults
        /\ route' = [route EXCEPT ![d] = NoRoute]
  /\ via' = [via EXCEPT ![d] = NoHost]
  /\ UNCHANGED <<arp, hosts, intf, l2grp, l3grp, want>>

(* Mutant: the route is left in the ASIC.                                  *)
RouteDeleteSkipped(d) ==
  /\ via' = [via EXCEPT ![d] = NoHost]
  /\ UNCHANGED <<arp, hosts, intf, l2grp, l3grp, route, want>>

(* OFPROTO_ROUTE_DELETE, whose result is ignored                           *)
RouteDelete(d) ==
  /\ \/ route' = [route EXCEPT ![d] = NoRoute]
     \/ "route_del" \in Faults /\ UNCHANGED route
  /\ via' = [via EXCEPT ![d] = NoHost]
  /\ UNCHANGED <<arp, hosts, intf, l2grp, l3grp, want>>

l3_route_action(d) ==
  \/ \E e \in hosts : RouteAdd(d, e)
  \/ RouteTrap(d)
  \/ RouteDelete(d)

-----------------------------------------------------------------------------
Next ==
  \/ \E b \in Bundle :
       \/ \E enable \in BOOLEAN, v \in VlanOf[b] :
            ops_fpa_ofproto_bundle_set(b, enable, v)
       \/ ops_fpa_rm_bundle(b)
       \/ \E h \in Host : add_l3_host_entry(b, h)
       \/ \E e \in hosts : delete_l3_host_entry(b, e)
  \/ \E d \in Prefix : l3_route_action(d)

Spec == Init /\ [][Next]_vars

-----------------------------------------------------------------------------
(* Properties.                                                             *)

HostsOn(b) == {e \in hosts : e.on = b}

(* The indices on the free list: those in every set that holds the head    *)
(* and is closed under arp_indices.                                        *)
Closed(F) == 0 \in F /\ \A i \in F : arp[i] \in F
FreeIndices == {i \in 1 .. N : \A F \in SUBSET (0 .. N) : Closed(F) => i \in F}

(* No two entries of host_table have the same ARP index, and the index of  *)
(* an entry is not on the free list of arp_indices: add_l3_host_entry      *)
(* never gives a new host the L3 group of another, whatever fails and in   *)
(* whatever order the callers add and delete hosts and interfaces.         *)
ArpUnique ==
  /\ \A e, f \in hosts : e.arp = f.arp => e = f
  /\ \A e \in hosts : e.arp \notin FreeIndices

(* Every index is on the free list or belongs to an entry: ARP_INDICES_SIZE*)
(* is "max number of nexthop entries supported".                           *)
NoArpLeak == \A i \in 1 .. N : i \in FreeIndices \/ \E e \in hosts : e.arp = i

(* The free list and the host table behave as a pool of indices.           *)
Pool == INSTANCE IndexPool WITH Index <- 1 .. N,
                                free <- FreeIndices,
                                held <- {e.arp : e \in hosts}

(* Every call takes one free index for a host, leaks one, or gives back    *)
(* the one of the host it deletes, and touches no other: the links that    *)
(* add_l3_host_entry and delete_l3_host_entry write never lose the rest of *)
(* the list or give an index out twice, whatever fails and in whatever     *)
(* order the callers add and delete hosts and interfaces.                  *)
ImplementsPool == Pool!Spec

(* routes_count of an interface is the number of host entries added        *)
(* through it, and an interface with hosts routes: delete_l3_host_entry    *)
(* switches routing off with the last host and not before.                 *)
CountMatchesHosts ==
  \A b \in Bundle :
    IF vlan[b] = 0 THEN HostsOn(b) = {} ELSE count[b] = Cardinality(HostsOn(b))

(* A prefix that is routed to an L3 group is routed to the group of the    *)
(* host that was its last next hop, which is still in host_table; the      *)
(* route of a host leads to its own group, its group to its own L2 group,  *)
(* and the L2 group is in the ASIC.                                        *)
RoutesLeadToHosts ==
  /\ \A d \in Prefix : route[d] \in 1 .. N =>
       \E e \in hosts : e.ip = via[d] /\ e.arp = route[d]
  /\ \A e \in hosts : /\ route[e.ip] = e.arp
                      /\ l3grp[e.arp] = e.l2
                      /\ e.l2 \in l2grp

(* The flows of a VLAN are all in the ASIC if an interface routes on it    *)
(* and none is otherwise; the same for the ingress flow and the internal   *)
(* VLAN of a system interface.  Enabling that fails half-way rolls back.   *)
RoutingAllOrNothing ==
  /\ \A v \in Vlan :
       flow[v] = IF \E b \in Bundle : vlan[b] = v THEN Flow ELSE {}
  /\ LET On == {b \in System : vlan[b] # 0}
     IN /\ ingress = {<<PidOf[b], vlan[b]>> : b \in On}
        /\ internal = {vlan[b] : b \in On}

(* Routing of an interface whose settings say "enable" goes on:            *)
(* "Disable routing only if there is no active routes. Otherwise it will   *)
(* be disabled after all routes are deleted" is about settings that do not.*)
DisabledOnRequest ==
  [][\A b \in Bundle : vlan[b] # 0 /\ vlan'[b] = 0 => want'[b] = 0]_vars

(* Once settings are applied, an interface without hosts routes on the     *)
(* VLAN they name or not at all: bundle_set looks at an existing l3_intf   *)
(* "If reserved vlan changed/removed or if port status is disabled".       *)
RoutesOnReservedVlan ==
  \A b \in bundles : HostsOn(b) = {} => vlan[b] \in {0, want[b]}

=============================================================================
