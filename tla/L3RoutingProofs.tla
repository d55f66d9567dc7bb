-------------------------- MODULE L3RoutingProofs --------------------------
(***************************************************************************)
(* What hosts, routes and interfaces have to do with each other, for any   *)
(* number of them.  Each theorem names what it needs of the callers, of    *)
(* the settings and of the FPA library.                                    *)
(***************************************************************************)
EXTENDS L3HostsProofs, FiniteSetTheorems

(* With each host its own index there are at most N hosts.                 *)
LEMMA HostsBounded ==
  ASSUME NEW S \in SUBSET HostEntry, \A e, f \in S : e.arp = f.arp => e = f
  PROVE  IsFiniteSet(S) /\ Cardinality(S) \in 0 .. N
<1> DEFINE index == [e \in S |-> e.arp]
<1>1. index \in Injection(S, 1 .. N)
  <2>1. \A e \in S : e.arp \in 1 .. N
    BY DEF HostEntry
  <2> QED
    BY <2>1 DEF Injection, IsInjective
<1>2. N \in Nat /\ IsFiniteSet(1 .. N) /\ Cardinality(1 .. N) = N
  BY L3Assumption, FS_Interval
<1>3. IsFiniteSet(S) /\ Cardinality(S) <= N
  <2> HIDE DEF index
  <2> QED
    BY <1>1, <1>2, FS_Injection
<1> QED
  BY <1>2, <1>3, FS_CardinalityType

-----------------------------------------------------------------------------
(* routes_count.                                                           *)

(* Switching routing on or off leaves the other interfaces alone.          *)
LEMMA EnableOthers ==
  ASSUME TypeOK, NEW b \in Bundle, NEW v, v # 0, ops_fpa_enable_routing(b, v)
  PROVE  /\ \A c \in Bundle \ {b} : vlan'[c] = vlan[c] /\ count'[c] = count[c]
         /\ \/ UNCHANGED <<vlan, count>>
            \/ vlan'[b] = v /\ count'[b] = 0
<1>1. CASE EnableInternalTwice(b, v)
  BY <1>1 DEF EnableInternalTwice
<1>2. CASE EnableSucceeds(b, v)
  BY <1>2 DEF EnableSucceeds, TypeOK
<1>3. ASSUME NEW i \in 1 .. 7, EnableFails(b, v, EnableCalls[i])
      PROVE  UNCHANGED <<vlan, count>>
  BY <1>3 DEF EnableFails
<1> QED
  BY <1>1, <1>2, <1>3 DEF ops_fpa_enable_routing

(* Disabling routing of an interface leaves the VLANs and counts of the    *)
(* others alone.                                                           *)
LEMMA DisableOthers ==
  ASSUME TypeOK, NEW b \in Bundle, NEW l2, NEW l3,
         ops_fpa_disable_routing(b, l2, l3)
  PROVE  /\ \A c \in Bundle \ {b} : vlan'[c] = vlan[c] /\ count'[c] = count[c]
         /\ vlan'[b] = 0
BY DEF ops_fpa_disable_routing, TypeOK

(* Every step of disciplined callers keeps routes_count equal to the       *)
(* number of hosts.                                                        *)
LEMMA CountInductive ==
  ASSUME Disciplined, N < CountMod, TypeOK, ArpInv, ArpInv', TypeOK',
         CountMatchesHosts, [Next]_vars
  PROVE  CountMatchesHosts'
<1> USE L3Assumption
<1>0. \A b \in Bundle : IsFiniteSet(HostsOn(b)) /\ Cardinality(HostsOn(b)) \in 0 .. N
  BY HostsBounded, Zenon DEF HostsOn, TypeOK, ArpInv
<1>1. \A b \in Bundle : IsFiniteSet(HostsOn(b)') /\ Cardinality(HostsOn(b)') \in 0 .. N
  BY HostsBounded, Zenon DEF HostsOn, TypeOK, ArpInv
<1>2. CASE UNCHANGED <<hosts, vlan, count>>
  BY <1>2 DEF CountMatchesHosts, HostsOn
<1>3. ASSUME NEW b \in Bundle, NEW enable \in BOOLEAN, NEW v \in VlanOf[b],
             ops_fpa_ofproto_bundle_set(b, enable, v)
      PROVE  CountMatchesHosts'
  <2>0. UNCHANGED hosts
    BY <1>3 DEF ops_fpa_ofproto_bundle_set
  <2>1. CASE ~enable /\ vlan[b] # 0 /\ count[b] = 0
    <3>1. ops_fpa_disable_routing(b, l2grp, l3grp)
      BY <1>3, <2>1 DEF ops_fpa_ofproto_bundle_set
    <3>2. HostsOn(b) = {}
      BY <1>0, <2>1, FS_EmptySet DEF CountMatchesHosts
    <3>3. \A c \in Bundle : HostsOn(c)' = HostsOn(c)
      BY <2>0 DEF HostsOn
    <3> QED
      BY <3>1, <3>2, <3>3, DisableOthers DEF CountMatchesHosts
  <2>2. CASE enable /\ vlan[b] = 0 /\ v # 0
    <3>1. ops_fpa_enable_routing(b, v)
      BY <1>3, <2>2 DEF ops_fpa_ofproto_bundle_set
    <3>2. HostsOn(b) = {} /\ Cardinality(HostsOn(b)) = 0
      BY <2>2, FS_EmptySet, SMTT(30) DEF CountMatchesHosts
    <3>3. \A c \in Bundle : HostsOn(c)' = HostsOn(c)
      BY <2>0 DEF HostsOn
    <3> QED
      BY <2>2, <3>1, <3>2, <3>3, EnableOthers DEF CountMatchesHosts
  <2>3. CASE UNCHANGED <<vlan, count>>
    BY <1>2, <2>0, <2>3
  <2> QED
    BY <1>3, <2>1, <2>2, <2>3 DEF ops_fpa_ofproto_bundle_set
<1>4. ASSUME NEW b \in Bundle, ops_fpa_rm_bundle(b)
      PROVE  CountMatchesHosts'
  <2>0. UNCHANGED hosts /\ HostsOn(b) = {}
    BY <1>4 DEF ops_fpa_rm_bundle, HostsOn
  <2>1. CASE vlan[b] # 0
    <3>1. ops_fpa_disable_routing(b, l2grp, l3grp)
      BY <1>4, <2>1 DEF ops_fpa_rm_bundle
    <3>2. \A c \in Bundle : HostsOn(c)' = HostsOn(c)
      BY <2>0 DEF HostsOn
    <3> QED
      BY <2>0, <3>1, <3>2, DisableOthers DEF CountMatchesHosts
  <2>2. CASE vlan[b] = 0
    BY <1>2, <1>4, <2>0, <2>2 DEF ops_fpa_rm_bundle
  <2> QED
    BY <2>1, <2>2
<1>5. ASSUME NEW b \in Bundle, NEW h \in Host, add_l3_host_entry(b, h)
      PROVE  CountMatchesHosts'
  <2>1. PICK p \in EgressPort(b) :
          LET g == <<p, vlan[b]>>
          IN \/ HostAdded(b, h, g)
             \/ UNCHANGED <<hosts, count>>
    BY <1>5 DEF add_l3_host_entry
  <2>2. vlan[b] # 0 /\ UNCHANGED vlan
    BY <1>5 DEF add_l3_host_entry
  <2> DEFINE g == <<p, vlan[b]>>
             e == [ip |-> h, arp |-> arp[0], l2 |-> g, on |-> b]
  <2>3. CASE HostAdded(b, h, g)
    <3>1. hosts' = hosts \cup {e} /\ count' = [count EXCEPT ![b] = (@ + 1) % CountMod]
      BY <2>3 DEF HostAdded
    <3>2. e \notin hosts /\ e.on = b
      BY <1>5 DEF add_l3_host_entry
    <3> HIDE DEF e
    <3>3. HostsOn(b)' = HostsOn(b) \cup {e} /\ e \notin HostsOn(b)
      BY <3>1, <3>2 DEF HostsOn
    <3>4. ASSUME NEW c \in Bundle \ {b}
          PROVE  HostsOn(c)' = HostsOn(c) /\ count'[c] = count[c]
      <4>1. count'[c] = count[c]
        BY <3>1 DEF TypeOK
      <4>2. HostsOn(c)' = HostsOn(c)
        BY <3>1, <3>2 DEF HostsOn
      <4> QED
        BY <4>1, <4>2
    <3>5. Cardinality(HostsOn(b)') = Cardinality(HostsOn(b)) + 1
      BY <1>0, <3>3, FS_AddElement, Zenon
    <3>6. count[b] = Cardinality(HostsOn(b))
      BY <2>2 DEF CountMatchesHosts
    <3>7. count'[b] = (count[b] + 1) % CountMod /\ count[b] + 1 \in 0 .. N
      BY <1>1, <3>1, <3>5, <3>6 DEF TypeOK
    <3>8. count'[b] = count[b] + 1
      BY <3>7
    <3> QED
      BY <2>2, <3>4, <3>5, <3>6, <3>8 DEF CountMatchesHosts
  <2> QED
    BY <1>2, <2>1, <2>2, <2>3
<1>6. ASSUME NEW b \in Bundle, NEW e \in hosts, delete_l3_host_entry(b, e)
      PROVE  CountMatchesHosts'
  <2>1. vlan[b] # 0 /\ e.on = b /\ hosts' = hosts \ {e}
    BY <1>6 DEF delete_l3_host_entry
  <2>2. HostsOn(b)' = HostsOn(b) \ {e} /\ e \in HostsOn(b)
    BY <2>1 DEF HostsOn
  <2>3. \A c \in Bundle \ {b} : HostsOn(c)' = HostsOn(c)
    BY <2>1 DEF HostsOn
  <2>4. Cardinality(HostsOn(b)') = Cardinality(HostsOn(b)) - 1
    BY <1>0, <2>2, FS_RemoveElement, Zenon
  <2>5. count[b] = Cardinality(HostsOn(b))
    BY <2>1 DEF CountMatchesHosts
  <2>6. CASE count[b] = 1
    <3>1. PICK l2, l3 : ops_fpa_disable_routing(b, l2, l3)
      BY <1>6, <2>6 DEF delete_l3_host_entry
    <3>2. HostsOn(b)' = {}
      BY <1>1, <2>4, <2>5, <2>6, FS_EmptySet
    <3> QED
      BY <2>3, <3>1, <3>2, DisableOthers DEF CountMatchesHosts
  <2>7. CASE count[b] # 1
    <3>1. UNCHANGED vlan /\ count' = [count EXCEPT ![b] = (@ - 1) % CountMod]
      BY <1>6, <2>7 DEF delete_l3_host_entry
    <3>2. count'[b] = (count[b] - 1) % CountMod /\ count[b] - 1 \in 0 .. N
      BY <1>1, <2>4, <2>5, <3>1 DEF TypeOK
    <3>3. count'[b] = count[b] - 1
      BY <3>2
    <3>4. \A c \in Bundle \ {b} : count'[c] = count[c]
      BY <3>1 DEF TypeOK
    <3> QED
      BY <2>1, <2>3, <2>4, <2>5, <3>1, <3>3, <3>4 DEF CountMatchesHosts
  <2> QED
    BY <2>6, <2>7
<1>7. ASSUME NEW d \in Prefix, l3_route_action(d)
      PROVE  CountMatchesHosts'
  BY <1>2, <1>7 DEF l3_route_action, RouteAdd, RouteTrap, RouteDelete, intf
<1>8. CASE UNCHANGED vars
  BY <1>2, <1>8 DEF vars, intf
<1> QED
  BY <1>3, <1>4, <1>5, <1>6, <1>7, <1>8 DEF Next

(* routes_count of an interface is the number of its hosts, and routing is *)
(* switched off with the last of them, if the callers delete a host        *)
(* through the interface they added it through and an interface after its  *)
(* hosts.  Any call of the FPA library may fail.                           *)
THEOREM RoutesCountExact ==
  ASSUME Disciplined, N < CountMod
  PROVE  Spec => []CountMatchesHosts
<1>1. Spec => [](TypeOK /\ ArpInv)
  BY TypeCorrect, InitArpInv, NextArpInv, PTL DEF Spec
<1>2. Init => CountMatchesHosts
  BY DEF Init, CountMatchesHosts, HostsOn
<1>3. TypeOK /\ ArpInv /\ (TypeOK /\ ArpInv)' /\ CountMatchesHosts /\ [Next]_vars
        => CountMatchesHosts'
  BY CountInductive
<1> QED
  BY <1>1, <1>2, <1>3, PTL DEF Spec

-----------------------------------------------------------------------------
(* Routes, groups and hosts.                                               *)
RoutesInv ==
  /\ RoutesLeadToHosts
  /\ \A e, f \in hosts : e.ip = f.ip => e = f

(* An L2 group that an L3 group refers to survives every call.             *)
Referred(l3, g) == \E i \in 1 .. N : l3[i] = g

(* The library refuses to delete a group that is referred to.              *)
LEMMA DelL2Keeps ==
  ASSUME NEW l2, NEW l3, NEW g, NEW k, k \in l2, Referred(l3, k)
  PROVE  k \in DelL2(l2, l3, g)
BY DEF DelL2, Referred

(* Enabling routing, rolled back or not, keeps such a group.               *)
LEMMA EnableKeeps ==
  ASSUME NEW b, NEW v, ops_fpa_enable_routing(b, v),
         NEW k \in l2grp, Referred(l3grp, k)
  PROVE  k \in l2grp'
<1>1. CASE EnableInternalTwice(b, v)
  BY <1>1 DEF EnableInternalTwice
<1>2. CASE EnableSucceeds(b, v)
  BY <1>2 DEF EnableSucceeds
<1>3. ASSUME NEW i \in 1 .. 7, EnableFails(b, v, EnableCalls[i])
      PROVE  k \in l2grp'
  <2>1. l2grp' \in {l2grp, DelL2(l2grp, l3grp, <<PidOf[b], v>>)}
    BY <1>3 DEF EnableFails
  <2> QED
    BY <2>1, DelL2Keeps
<1> QED
  BY <1>1, <1>2, <1>3 DEF ops_fpa_enable_routing

(* So does disabling it.                                                   *)
LEMMA DisableKeeps ==
  ASSUME NEW b, NEW l2, NEW l3, ops_fpa_disable_routing(b, l2, l3),
         NEW k \in l2, Referred(l3, k)
  PROVE  k \in l2grp'
<1>1. l2grp' \in {l2, DelL2(l2, l3, <<PidOf[b], vlan[b]>>)}
  BY DEF ops_fpa_disable_routing
<1> QED
  BY <1>1, DelL2Keeps

(* Every step of disciplined callers keeps the routes on groups of hosts.  *)
LEMMA RoutesInductive ==
  ASSUME Disciplined, "route_del" \notin Faults, Host \cap Prefix = {},
         TypeOK, ArpInv, RoutesInv, [Next]_vars
  PROVE  RoutesInv'
<1> USE L3Assumption
<1>0. \A e \in hosts : /\ e.ip \in Host /\ e.arp \in 1 .. N
                       /\ e.l2 \in l2grp /\ Referred(l3grp, e.l2)
  BY DEF TypeOK, HostEntry, RoutesInv, RoutesLeadToHosts, Referred
<1>1. ASSUME UNCHANGED <<hosts, route, l3grp, via>>, \A e \in hosts : e.l2 \in l2grp'
      PROVE  RoutesInv'
  BY <1>1 DEF RoutesInv, RoutesLeadToHosts
<1>2. ASSUME NEW b \in Bundle, NEW enable \in BOOLEAN, NEW v \in VlanOf[b],
             ops_fpa_ofproto_bundle_set(b, enable, v)
      PROVE  RoutesInv'
  <2>1. UNCHANGED <<hosts, route, l3grp, via>>
    BY <1>2 DEF ops_fpa_ofproto_bundle_set
  <2>2. \/ ops_fpa_disable_routing(b, l2grp, l3grp)
        \/ ops_fpa_enable_routing(b, v)
        \/ UNCHANGED l2grp
    BY <1>2 DEF ops_fpa_ofproto_bundle_set
  <2>3. \A e \in hosts : e.l2 \in l2grp'
    BY <1>0, <2>2, EnableKeeps, DisableKeeps
  <2> QED
    BY <1>1, <2>1, <2>3
<1>3. ASSUME NEW b \in Bundle, ops_fpa_rm_bundle(b)
      PROVE  RoutesInv'
  <2>1. UNCHANGED <<hosts, route, l3grp, via>>
    BY <1>3 DEF ops_fpa_rm_bundle
  <2>2. ops_fpa_disable_routing(b, l2grp, l3grp) \/ UNCHANGED l2grp
    BY <1>3 DEF ops_fpa_rm_bundle
  <2>3. \A e \in hosts : e.l2 \in l2grp'
    BY <1>0, <2>2, DisableKeeps
  <2> QED
    BY <1>1, <2>1, <2>3
<1>4. ASSUME NEW b \in Bundle, NEW h \in Host, add_l3_host_entry(b, h)
      PROVE  RoutesInv'
  <2>1. PICK p \in EgressPort(b) :
          LET g == <<p, vlan[b]>>
          IN \/ HostAdded(b, h, g)
             \/ /\ \/ HostWithoutIndex(g)
                   \/ HostWithoutL3Group(g)
                   \/ HostWithoutRoute(g)
                /\ UNCHANGED <<hosts, route, count>>
    BY <1>4 DEF add_l3_host_entry
  <2>2. UNCHANGED via /\ \A e \in hosts : e.ip # h
    BY <1>4 DEF add_l3_host_entry
  <2> DEFINE g == <<p, vlan[b]>>
             i == arp[0]
             n == [ip |-> h, arp |-> i, l2 |-> g, on |-> b]
  <2>3. CASE HostAdded(b, h, g)
    <3>1. /\ hosts' = hosts \cup {n} /\ l2grp' = l2grp \cup {g}
          /\ l3grp' = [l3grp EXCEPT ![i] = g]
          /\ route' = [route EXCEPT ![h] = i]
          /\ i # 0 /\ TakeIndex
      BY <2>3, SMTT(30) DEF HostAdded
    <3>2. i \in 1 .. N
      BY <3>1 DEF TypeOK
    <3>3. \A e \in hosts : e.arp # i
      <4>1. PICK F \in SUBSET (0 .. N) : FreeSet(F)
        BY DEF ArpInv
      <4>2. i \in 0 .. N
        BY <3>2
      <4> QED
        BY <3>1, <4>1, <4>2, TakeIndexFree, Zenon
    <3>4. n.ip = h /\ n.arp = i /\ n.l2 = g
      OBVIOUS
    <3>5. h \in Dest /\ h \notin Prefix
      BY DEF Dest
    <3> HIDE DEF n, i, g
    <3>6. \A e \in hosts' : /\ route'[e.ip] = e.arp
                            /\ l3grp'[e.arp] = e.l2
                            /\ e.l2 \in l2grp'
      <4>1. /\ route'[n.ip] = n.arp /\ l3grp'[n.arp] = n.l2 /\ n.l2 \in l2grp'
        BY <3>1, <3>2, <3>4, <3>5 DEF TypeOK
      <4>2. ASSUME NEW e \in hosts
            PROVE  /\ route'[e.ip] = e.arp
                   /\ l3grp'[e.arp] = e.l2
                   /\ e.l2 \in l2grp'
        <5>1. route[e.ip] = e.arp /\ l3grp[e.arp] = e.l2 /\ e.l2 \in l2grp
          BY DEF RoutesInv, RoutesLeadToHosts
        <5>2. e.ip \in Dest /\ e.ip # h /\ e.arp \in 1 .. N /\ e.arp # i
          BY <1>0, <2>2, <3>3 DEF Dest
        <5>3. route'[e.ip] = route[e.ip] /\ l3grp'[e.arp] = l3grp[e.arp]
          BY <3>1, <5>2 DEF TypeOK
        <5> QED
          BY <3>1, <5>1, <5>3
      <4> QED
        BY <3>1, <4>1, <4>2
    <3>7. ASSUME NEW d \in Prefix, route'[d] \in 1 .. N
          PROVE  \E e \in hosts' : e.ip = via'[d] /\ e.arp = route'[d]
      <4>1. route'[d] = route[d]
        BY <3>1, <3>5 DEF TypeOK, Dest
      <4> QED
        BY <2>2, <3>1, <3>7, <4>1 DEF RoutesInv, RoutesLeadToHosts
    <3>8. \A e, f \in hosts' : e.ip = f.ip => e = f
      BY <2>2, <3>1, <3>4, SMTT(30) DEF RoutesInv
    <3> QED
      BY <3>6, <3>7, <3>8 DEF RoutesInv, RoutesLeadToHosts
  <2>4. CASE /\ HostWithoutIndex(g) \/ HostWithoutL3Group(g) \/ HostWithoutRoute(g)
             /\ UNCHANGED <<hosts, route>>
    <3>1. UNCHANGED l3grp /\ l2grp' \in {l2grp, DelL2(l2grp, l3grp, g), l2grp \cup {g}}
      <4>1. CASE HostWithoutIndex(g)
        BY <4>1 DEF HostWithoutIndex
      <4>2. CASE HostWithoutL3Group(g)
        BY <4>2 DEF HostWithoutL3Group
      <4>3. CASE HostWithoutRoute(g)
        BY <4>3 DEF HostWithoutRoute
      <4> QED
        BY <2>4, <4>1, <4>2, <4>3
    <3>2. \A e \in hosts : e.l2 \in l2grp'
      BY <1>0, <3>1, DelL2Keeps
    <3> QED
      BY <1>1, <2>2, <2>4, <3>1, <3>2
  <2> QED
    BY <2>1, <2>3, <2>4
<1>5. ASSUME NEW n \in hosts, NEW b \in Bundle, delete_l3_host_entry(b, n)
      PROVE  RoutesInv'
  <2>1. PICK o \in Outcome("host_del", {"route", "l3", "l2"}) :
          LET left == IF o = "route" THEN route
                      ELSE [route EXCEPT ![n.ip] = NoRoute]
              l3 == IF o = "l3" THEN l3grp ELSE DelL3(l3grp, left, n.arp)
              l2 == IF o = "l2" THEN l2grp ELSE DelL2(l2grp, l3, n.l2)
          IN /\ route' = left
             /\ l3grp' = l3
             /\ ops_fpa_disable_routing(b, l2, l3) \/ l2grp' = l2
    BY <1>5 DEF delete_l3_host_entry
  <2> DEFINE l2 == IF o = "l2" THEN l2grp ELSE DelL2(l2grp, l3grp', n.l2)
  <2>2. /\ route' \in {route, [route EXCEPT ![n.ip] = NoRoute]}
        /\ l3grp' \in {l3grp, [l3grp EXCEPT ![n.arp] = NoGroup]}
        /\ ops_fpa_disable_routing(b, l2, l3grp') \/ l2grp' = l2
    BY <2>1, SMTT(30) DEF DelL3
  <2>3. /\ hosts' = hosts \ {n} /\ UNCHANGED via
        /\ \A d \in Prefix : via[d] # n.ip
    BY <1>5 DEF delete_l3_host_entry
  <2>4. ASSUME NEW e \in hosts'
        PROVE  route'[e.ip] = e.arp /\ l3grp'[e.arp] = e.l2 /\ e.l2 \in l2grp'
    <3>1. e \in hosts /\ e.ip # n.ip /\ e.arp # n.arp
      BY <2>3, SMTT(30) DEF RoutesInv, ArpInv
    <3>2. route[e.ip] = e.arp /\ l3grp[e.arp] = e.l2 /\ e.l2 \in l2grp
      BY <3>1 DEF RoutesInv, RoutesLeadToHosts
    <3>3. e.ip \in Dest /\ e.arp \in 1 .. N
      BY <1>0, <3>1 DEF Dest
    <3>4. route'[e.ip] = e.arp /\ l3grp'[e.arp] = e.l2
      <4>1. route'[e.ip] = route[e.ip]
        <5>1. route \in [Dest -> 1 .. N \cup {Trap, NoRoute}]
          BY DEF TypeOK
        <5>2. route' = route \/ route' = [route EXCEPT ![n.ip] = NoRoute]
          BY <2>2
        <5> QED
          BY <3>1, <3>3, <5>1, <5>2
      <4>2. l3grp'[e.arp] = l3grp[e.arp]
        <5>1. l3grp \in [1 .. N -> Group2 \cup {NoGroup}]
          BY DEF TypeOK
        <5>2. l3grp' = l3grp \/ l3grp' = [l3grp EXCEPT ![n.arp] = NoGroup]
          BY <2>2
        <5> QED
          BY <3>1, <3>3, <5>1, <5>2
      <4> QED
        BY <3>2, <4>1, <4>2
    <3>5. Referred(l3grp', e.l2)
      BY <3>3, <3>4 DEF Referred
    <3>6. e.l2 \in l2
      BY <3>2, <3>5, DelL2Keeps
    <3>7. e.l2 \in l2grp'
      <4> HIDE DEF l2
      <4> QED
        BY <2>2, <3>5, <3>6, DisableKeeps
    <3> QED
      BY <3>4, <3>7, SMTT(30)
  <2>5. ASSUME NEW d \in Prefix, route'[d] \in 1 .. N
        PROVE  \E e \in hosts' : e.ip = via'[d] /\ e.arp = route'[d]
    <3>1. d # n.ip /\ d \in Dest
      BY <1>0 DEF Dest
    <3>2. route'[d] = route[d]
      <4>1. route \in [Dest -> 1 .. N \cup {Trap, NoRoute}]
        BY DEF TypeOK
      <4>2. route' = route \/ route' = [route EXCEPT ![n.ip] = NoRoute]
        BY <2>2
      <4> QED
        BY <3>1, <4>1, <4>2
    <3>3. PICK e \in hosts : e.ip = via[d] /\ e.arp = route[d]
      BY <2>5, <3>2 DEF RoutesInv, RoutesLeadToHosts
    <3> QED
      BY <2>3, <3>2, <3>3
  <2> QED
    BY <2>3, <2>4, <2>5, SMTT(30) DEF RoutesInv, RoutesLeadToHosts
<1>6. ASSUME NEW d \in Prefix, l3_route_action(d)
      PROVE  RoutesInv'
  <2>1. d \in Dest /\ \A e \in hosts : e.ip # d /\ e.ip \in Dest
    BY <1>0 DEF Dest
  <2>2. /\ UNCHANGED <<hosts, l2grp, l3grp>>
        /\ \/ \E e \in hosts : /\ route' = [route EXCEPT ![d] = e.arp]
                               /\ via' = [via EXCEPT ![d] = e.ip]
           \/ \E r \in {NoRoute, Trap} : /\ route' = [route EXCEPT ![d] = r]
                                         /\ via' = [via EXCEPT ![d] = NoHost]
    BY <1>6 DEF l3_route_action, RouteAdd, RouteTrap, RouteDelete
  <2>3. ASSUME NEW e \in hosts'
        PROVE  route'[e.ip] = e.arp /\ l3grp'[e.arp] = e.l2 /\ e.l2 \in l2grp'
    BY <2>1, <2>2, SMTT(30) DEF TypeOK, RoutesInv, RoutesLeadToHosts
  <2>4. ASSUME NEW c \in Prefix, route'[c] \in 1 .. N
        PROVE  \E e \in hosts' : e.ip = via'[c] /\ e.arp = route'[c]
    <3>1. CASE c # d
      <4>1. route'[c] = route[c] /\ via'[c] = via[c]
        <5>1. /\ route \in [Dest -> 1 .. N \cup {Trap, NoRoute}]
              /\ via \in [Prefix -> Host \cup {NoHost}] /\ c \in Dest
          BY SMTT(30) DEF TypeOK, Dest
        <5> QED
          BY <2>2, <3>1, <5>1
      <4> QED
        BY <2>2, <2>4, <4>1 DEF RoutesInv, RoutesLeadToHosts
    <3>2. CASE c = d
      <4>1. \A r : route' = [route EXCEPT ![d] = r] => route'[d] = r
        BY <2>1 DEF TypeOK
      <4>2. NoRoute \notin 1 .. N /\ Trap \notin 1 .. N
        BY DEF NoRoute, Trap
      <4>3. PICK e \in hosts : /\ route' = [route EXCEPT ![d] = e.arp]
                               /\ via' = [via EXCEPT ![d] = e.ip]
        BY <2>2, <2>4, <3>2, <4>1, <4>2
      <4>4. route'[d] = e.arp
        BY <4>1, <4>3, Zenon
      <4>5. via'[d] = e.ip
        BY <4>3 DEF TypeOK
      <4> QED
        BY <2>2, <3>2, <4>4, <4>5
    <3> QED
      BY <3>1, <3>2
  <2> QED
    BY <2>2, <2>3, <2>4 DEF RoutesInv, RoutesLeadToHosts
<1>7. CASE UNCHANGED vars
  BY <1>0, <1>1, <1>7 DEF vars, intf
<1> QED
  BY <1>2, <1>3, <1>4, <1>5, <1>6, <1>7 DEF Next

(* The route of a prefix leads to the group of its next hop and on to the  *)
(* L2 group of the port behind which that host is, and no call takes any   *)
(* of it away, if the callers delete the routes of a host before the host, *)
(* no prefix is a host's address and deleting a route succeeds.            *)
THEOREM RoutesKeepTheirHosts ==
  ASSUME Disciplined, "route_del" \notin Faults, Host \cap Prefix = {}
  PROVE  Spec => []RoutesLeadToHosts
<1>1. Spec => [](TypeOK /\ ArpInv)
  BY TypeCorrect, InitArpInv, NextArpInv, PTL DEF Spec
<1>2. Init => RoutesInv
  BY L3Assumption DEF Init, RoutesInv, RoutesLeadToHosts, NoRoute, Dest
<1>3. TypeOK /\ ArpInv /\ RoutesInv /\ [Next]_vars => RoutesInv'
  BY RoutesInductive
<1>4. RoutesInv => RoutesLeadToHosts
  BY DEF RoutesInv
<1> QED
  BY <1>1, <1>2, <1>3, <1>4, PTL DEF Spec

-----------------------------------------------------------------------------
(* The flows of an interface.                                              *)

(* The settings give each interface VLANs of its own, and each system      *)
(* interface is a port of its own.                                         *)
OwnVlans ==
  /\ \A b, c \in Bundle : \A v \in VlanOf[b] \cap VlanOf[c] : v = 0 \/ b = c
  /\ \A b, c \in System : PidOf[b] = PidOf[c] => b = c

On == {b \in System : vlan[b] # 0}

FlowInv ==
  /\ RoutingAllOrNothing
  /\ \A b \in Bundle : vlan[b] # 0 => vlan[b] \in VlanOf[b]

(* RoutingAllOrNothing by tables: flows, ingress flows and internal VLANs. *)
LEMMA FlowParts ==
  RoutingAllOrNothing <=>
    /\ \A v \in Vlan : /\ (\E b \in Bundle : vlan[b] = v) => flow[v] = Flow
                       /\ (\A b \in Bundle : vlan[b] # v) => flow[v] = {}
    /\ ingress = {<<PidOf[b], vlan[b]>> : b \in On}
    /\ internal = {vlan[b] : b \in On}
BY Zenon DEF RoutingAllOrNothing, On

(* Enabling routing sets up all of an interface's state, or none.          *)
LEMMA EnableFlows ==
  ASSUME TypeOK, OwnVlans, FlowInv, NEW b \in Bundle, NEW v \in VlanOf[b], v # 0,
         vlan[b] = 0, ops_fpa_enable_routing(b, v)
  PROVE  FlowInv'
<1> USE L3Assumption
<1>0. /\ \A u \in Vlan : /\ (\E c \in Bundle : vlan[c] = u) => flow[u] = Flow
                         /\ (\A c \in Bundle : vlan[c] # u) => flow[u] = {}
      /\ ingress = {<<PidOf[c], vlan[c]>> : c \in On}
      /\ internal = {vlan[c] : c \in On}
      /\ \A c \in Bundle : vlan[c] # 0 => vlan[c] \in VlanOf[c]
  BY FlowParts DEF FlowInv
<1>1. v \in Vlan /\ \A c \in Bundle : vlan[c] # v
  BY <1>0 DEF OwnVlans
<1>2. flow[v] = {} /\ v \notin internal
  BY <1>0, <1>1, SMTT(30) DEF On
<1>3. CASE EnableSucceeds(b, v)
  <2>1. /\ vlan' = [vlan EXCEPT ![b] = v] /\ flow' = [flow EXCEPT ![v] = Flow]
        /\ ingress' = ingress \cup (IF b \in System THEN {<<PidOf[b], v>>} ELSE {})
        /\ internal' = internal \cup (IF b \in System THEN {v} ELSE {})
    BY <1>3 DEF EnableSucceeds
  <2>2. /\ vlan'[b] = v /\ \A c \in Bundle \ {b} : vlan'[c] = vlan[c]
        /\ flow'[v] = Flow /\ \A u \in Vlan \ {v} : flow'[u] = flow[u]
    <3>1. DOMAIN vlan = Bundle /\ DOMAIN flow = Vlan
      BY DEF TypeOK
    <3>2. vlan'[b] = v /\ \A c \in Bundle \ {b} : vlan'[c] = vlan[c]
      BY <2>1, <3>1
    <3>3. flow'[v] = Flow /\ \A u \in Vlan \ {v} : flow'[u] = flow[u]
      BY <1>1, <2>1, <3>1
    <3> QED
      BY <3>2, <3>3
  <2>3. On' = On \cup (IF b \in System THEN {b} ELSE {}) /\ b \notin On
    BY <2>2 DEF On
  <2>4. ingress' = {<<PidOf[c], vlan'[c]>> : c \in On'}
    <3>1. \A c \in On : vlan'[c] = vlan[c]
      BY <2>2, <2>3 DEF On
    <3> QED
      BY SMTT(30), <1>0, <2>1, <2>2, <2>3, <3>1
  <2>5. internal' = {vlan'[c] : c \in On'}
    <3>1. \A c \in On : vlan'[c] = vlan[c]
      BY <2>2, <2>3 DEF On
    <3> QED
      BY SMTT(30), <1>0, <2>1, <2>2, <2>3, <3>1
  <2>6. ASSUME NEW u \in Vlan
        PROVE  /\ (\E c \in Bundle : vlan'[c] = u) => flow'[u] = Flow
               /\ (\A c \in Bundle : vlan'[c] # u) => flow'[u] = {}
    <3>1. CASE u = v
      BY <2>2, <3>1
    <3>2. CASE u # v
      BY <1>0, <2>2, <3>2
    <3> QED
      BY <3>1, <3>2
  <2>7. \A c \in Bundle : vlan'[c] # 0 => vlan'[c] \in VlanOf[c]
    BY <1>0, <2>2, SMTT(30)
  <2> QED
    BY <2>4, <2>5, <2>6, <2>7, Zenon DEF FlowInv, RoutingAllOrNothing, On
<1>4. ASSUME NEW i \in 1 .. 7, EnableFails(b, v, EnableCalls[i])
      PROVE  FlowInv'
  <2>1. /\ UNCHANGED vlan
        /\ flow' = [flow EXCEPT ![v] = @ \ Earlier(EnableCalls[i])]
        /\ ingress' \in {ingress, DelIngress(PidOf[b])}
        /\ b \notin System => ingress' = ingress
        /\ internal' \in {internal, internal \ {v}}
    BY <1>4 DEF EnableFails
  <2>2. flow' = flow
    BY <1>1, <1>2, <2>1 DEF TypeOK
  <2>3. internal' = internal
    BY <1>2, <2>1
  <2>4. ingress' = ingress
    <3>1. b \in System => DelIngress(PidOf[b]) = ingress
      BY <1>0 DEF DelIngress, On, OwnVlans
    <3> QED
      BY <2>1, <3>1, SMTT(30)
  <2>5. UNCHANGED <<vlan, internal, ingress, flow>>
    BY <2>1, <2>2, <2>3, <2>4, SMTT(30)
  <2> QED
    BY <2>5 DEF FlowInv, RoutingAllOrNothing
<1> QED
  BY <1>2, <1>3, <1>4 DEF ops_fpa_enable_routing, EnableInternalTwice

(* Disabling it, when no call fails, removes all of it.                    *)
LEMMA DisableFlows ==
  ASSUME TypeOK, OwnVlans, "disable" \notin Faults, FlowInv, NEW b \in Bundle,
         vlan[b] # 0, NEW l2, NEW l3, ops_fpa_disable_routing(b, l2, l3)
  PROVE  FlowInv'
<1> USE L3Assumption
<1>0. /\ \A u \in Vlan : /\ (\E c \in Bundle : vlan[c] = u) => flow[u] = Flow
                         /\ (\A c \in Bundle : vlan[c] # u) => flow[u] = {}
      /\ ingress = {<<PidOf[c], vlan[c]>> : c \in On}
      /\ internal = {vlan[c] : c \in On}
      /\ \A c \in Bundle : vlan[c] # 0 => vlan[c] \in VlanOf[c]
  BY FlowParts, Zenon DEF FlowInv
<1>1. vlan[b] \in Vlan /\ \A c \in Bundle \ {b} : vlan[c] # vlan[b]
  BY <1>0, Zenon DEF OwnVlans, TypeOK
<1>2. /\ vlan' = [vlan EXCEPT ![b] = 0] /\ flow' = [flow EXCEPT ![vlan[b]] = {}]
      /\ ingress' = IF b \in System THEN DelIngress(PidOf[b]) ELSE ingress
      /\ internal' = IF b \in System THEN internal \ {vlan[b]} ELSE internal
  BY DEF ops_fpa_disable_routing, Outcome, Flow
<1>3. /\ vlan'[b] = 0 /\ \A c \in Bundle \ {b} : vlan'[c] = vlan[c]
      /\ flow'[vlan[b]] = {} /\ \A u \in Vlan \ {vlan[b]} : flow'[u] = flow[u]
  BY <1>1, <1>2, SMTT(30) DEF TypeOK
<1>4. On' = On \ {b} /\ \A c \in On' : vlan'[c] = vlan[c] /\ (b \in System => b \in On)
  BY <1>3 DEF On
<1>5. ingress' = {<<PidOf[c], vlan'[c]>> : c \in On'}
  <2>1. CASE b \in System
    <3>1. \A c \in On' : PidOf[c] # PidOf[b]
      BY <1>4, <2>1, SMTT(30) DEF On, OwnVlans
    <3> QED
      BY <1>0, <1>2, <1>4, <2>1, <3>1, SMTT(30) DEF DelIngress
  <2>2. CASE b \notin System
    <3>1. On' = On
      BY <1>4, <2>2 DEF On
    <3> QED
      BY <1>0, <1>2, <1>4, <2>2, <3>1, SMTT(30)
  <2> QED
    BY <2>1, <2>2, SMTT(30)
<1>6. internal' = {vlan'[c] : c \in On'}
  <2>1. CASE b \in System
    <3>1. \A c \in On' : vlan[c] # vlan[b]
      BY <1>1, <1>4, SMTT(30) DEF On
    <3> QED
      BY <1>0, <1>2, <1>4, <2>1, <3>1, SMTT(30)
  <2>2. CASE b \notin System
    <3>1. On' = On
      BY <1>4, <2>2 DEF On
    <3> QED
      BY <1>0, <1>2, <1>4, <2>2, <3>1, SMTT(30)
  <2> QED
    BY <2>1, <2>2, SMTT(30)
<1>7. ASSUME NEW u \in Vlan
      PROVE  /\ (\E c \in Bundle : vlan'[c] = u) => flow'[u] = Flow
             /\ (\A c \in Bundle : vlan'[c] # u) => flow'[u] = {}
  <2>1. CASE u = vlan[b]
    BY <1>1, <1>3, <2>1, SMTT(30)
  <2>2. CASE u # vlan[b]
    BY <1>0, <1>3, <2>2, SMTT(30)
  <2> QED
    BY <2>1, <2>2
<1>8. \A c \in Bundle : vlan'[c] # 0 => vlan'[c] \in VlanOf[c]
  BY <1>0, <1>3
<1> QED
  BY <1>5, <1>6, <1>7, <1>8, Zenon DEF FlowInv, RoutingAllOrNothing, On

(* The flows, the ingress flow and the internal VLAN of an interface are   *)
(* all in place while it routes and none is otherwise, whatever call fails *)
(* while it is being switched on, if the calls that switch it off succeed  *)
(* and interfaces share neither VLAN nor port.                             *)
THEOREM RoutingIsAllOrNothing ==
  ASSUME OwnVlans, "disable" \notin Faults
  PROVE  Spec => []RoutingAllOrNothing
<1>1. Init => FlowInv
  BY L3Assumption, SMTT(30) DEF Init, FlowInv, RoutingAllOrNothing
<1>2. TypeOK /\ FlowInv /\ [Next]_vars => FlowInv'
  <2> SUFFICES ASSUME TypeOK, FlowInv, [Next]_vars
               PROVE  FlowInv'
    BY SMTT(30)
  <2>1. CASE UNCHANGED <<vlan, internal, ingress, flow>>
    BY <2>1 DEF FlowInv, RoutingAllOrNothing
  <2>2. ASSUME NEW b \in Bundle, NEW enable \in BOOLEAN, NEW v \in VlanOf[b],
               ops_fpa_ofproto_bundle_set(b, enable, v)
        PROVE  FlowInv'
    <3>1. \/ vlan[b] # 0 /\ ops_fpa_disable_routing(b, l2grp, l3grp)
          \/ vlan[b] = 0 /\ v # 0 /\ ops_fpa_enable_routing(b, v)
          \/ UNCHANGED <<vlan, internal, ingress, flow>>
      BY <2>2 DEF ops_fpa_ofproto_bundle_set
    <3> QED
      BY <2>1, <3>1, EnableFlows, DisableFlows
  <2>3. ASSUME NEW b \in Bundle, ops_fpa_rm_bundle(b)
        PROVE  FlowInv'
    <3>1. \/ vlan[b] # 0 /\ ops_fpa_disable_routing(b, l2grp, l3grp)
          \/ UNCHANGED <<vlan, internal, ingress, flow>>
      BY <2>3 DEF ops_fpa_rm_bundle
    <3> QED
      BY <2>1, <3>1, DisableFlows, SMTT(30)
  <2>4. ASSUME NEW b \in Bundle, NEW h \in Host, add_l3_host_entry(b, h)
        PROVE  FlowInv'
    BY <2>1, <2>4 DEF add_l3_host_entry
  <2>5. ASSUME NEW b \in Bundle, NEW e \in hosts, delete_l3_host_entry(b, e)
        PROVE  FlowInv'
    <3>1. \/ vlan[b] # 0 /\ \E l2, l3 : ops_fpa_disable_routing(b, l2, l3)
          \/ UNCHANGED <<vlan, internal, ingress, flow>>
      BY <2>5 DEF delete_l3_host_entry
    <3> QED
      BY SMTT(30), <2>1, <3>1, DisableFlows
  <2>6. ASSUME NEW d \in Prefix, l3_route_action(d)
        PROVE  FlowInv'
    BY <2>1, <2>6 DEF l3_route_action, RouteAdd, RouteTrap, RouteDelete, intf
  <2>7. CASE UNCHANGED vars
    BY <2>1, <2>7 DEF vars, intf
  <2> QED
    BY <2>2, <2>3, <2>4, <2>5, <2>6, <2>7, Zenon DEF Next
<1>3. FlowInv => RoutingAllOrNothing
  BY DEF FlowInv
<1> QED
  BY <1>1, <1>2, <1>3, TypeCorrect, PTL DEF Spec

=============================================================================
