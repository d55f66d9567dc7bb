---------------------------- MODULE L3HostsProofs ----------------------------
(***************************************************************************)
(* Proofs about L3Hosts, for any interfaces, ports, hosts, prefixes, size  *)
(* of the ARP table, failures of the FPA library and order of calls.       *)
(***************************************************************************)
EXTENDS L3Hosts, WellFoundedInduction, TLAPS

(* The remainder that unsigned routes_count wraps to is in its range.      *)
LEMMA ModRange == ASSUME NEW x \in Int, NEW m \in Nat \ {0}
                  PROVE  x % m \in 0 .. m - 1
  BY SMT

(* Deleting a group yields sets and functions of the same type.            *)
LEMMA DelL2Type ==
  ASSUME NEW l2 \in SUBSET Group2, NEW l3, NEW g
  PROVE  DelL2(l2, l3, g) \in SUBSET Group2
  BY DEF DelL2

(* Deleting an L3 group keeps the types.                                   *)
LEMMA DelL3Type ==
  ASSUME NEW l3 \in [1 .. N -> Group2 \cup {NoGroup}], NEW rt, NEW i
  PROVE  DelL3(l3, rt, i) \in [1 .. N -> Group2 \cup {NoGroup}]
  BY Zenon DEF DelL3

(* Switching routing on keeps the types of the interface's state.          *)
IntfType ==
  /\ vlan \in [Bundle -> Vlan \cup {0}]
  /\ count \in [Bundle -> 0 .. CountMod - 1]
  /\ internal \in SUBSET Vlan
  /\ ingress \in SUBSET Group2
  /\ flow \in [Vlan -> SUBSET Flow]
  /\ l2grp \in SUBSET Group2

(* Enabling routing, with or without a failure, keeps the types.           *)
LEMMA EnableType ==
  ASSUME IntfType, NEW b \in Bundle, NEW v \in Vlan,
         ops_fpa_enable_routing(b, v)
  PROVE  IntfType'
<1> USE L3Assumption
<1>0. <<PidOf[b], v>> \in Group2
  BY DEF Group2
<1>1. CASE EnableInternalTwice(b, v)
  BY <1>0, <1>1 DEF EnableInternalTwice, IntfType
<1>2. CASE EnableSucceeds(b, v)
  <2>1. 0 \in 0 .. CountMod - 1
    OBVIOUS
  <2> QED
    BY <1>0, <1>2, <2>1 DEF EnableSucceeds, IntfType
<1>3. ASSUME NEW i \in 1 .. 7, EnableFails(b, v, EnableCalls[i])
      PROVE  IntfType'
  <2>1. DelIngress(PidOf[b]) \in SUBSET Group2
    BY DEF DelIngress, IntfType
  <2>2. DelL2(l2grp, l3grp, <<PidOf[b], v>>) \in SUBSET Group2
    BY DelL2Type DEF IntfType
  <2>3. flow' \in [Vlan -> SUBSET Flow]
    BY <1>3 DEF EnableFails, IntfType
  <2> QED
    BY <1>3, <2>1, <2>2, <2>3 DEF EnableFails, IntfType
<1> QED
  BY <1>1, <1>2, <1>3 DEF ops_fpa_enable_routing

(* Disabling routing, with or without a failure, keeps the types.          *)
LEMMA DisableType ==
  ASSUME IntfType, NEW b \in Bundle, vlan[b] # 0,
         NEW l2 \in SUBSET Group2, NEW l3, ops_fpa_disable_routing(b, l2, l3)
  PROVE  IntfType'
<1> USE L3Assumption
<1> DEFINE g == <<PidOf[b], vlan[b]>>
<1>1. vlan[b] \in Vlan
  BY DEF IntfType
<1>2. DelIngress(PidOf[b]) \in SUBSET Group2
  BY DEF DelIngress, IntfType
<1>3. DelL2(l2, l3, g) \in SUBSET Group2
  BY DelL2Type
<1>4. 0 \in 0 .. CountMod - 1
  OBVIOUS
<1>5. PICK o \in Outcome("disable", Flow \cup {"ingress", "egress"}) :
        flow' = [flow EXCEPT ![vlan[b]] = IF o \in Flow THEN @ \ Earlier(o)
                                          ELSE {}]
  BY Zenon DEF ops_fpa_disable_routing
<1>6. flow' \in [Vlan -> SUBSET Flow]
  BY <1>1, <1>5, Zenon DEF IntfType
<1>7. ingress' \in SUBSET Group2 /\ l2grp' \in SUBSET Group2
  BY <1>2, <1>3 DEF ops_fpa_disable_routing, IntfType
<1>8. internal' \in SUBSET Vlan
  BY Zenon DEF ops_fpa_disable_routing, IntfType
<1>9. vlan' = [vlan EXCEPT ![b] = 0] /\ count' = [count EXCEPT ![b] = 0]
  BY DEF ops_fpa_disable_routing
<1> QED
  BY <1>4, <1>6, <1>7, <1>8, <1>9 DEF IntfType

-----------------------------------------------------------------------------
(* Type correctness.                                                       *)

(* The rest of the state: hosts, groups and routes.                        *)
HostType ==
  /\ arp \in [0 .. N -> 0 .. N]
  /\ hosts \in SUBSET HostEntry
  /\ l3grp \in [1 .. N -> Group2 \cup {NoGroup}]
  /\ route \in [Dest -> 1 .. N \cup {Trap, NoRoute}]
  /\ via \in [Prefix -> Host \cup {NoHost}]

(* The parts of TypeOK about arp and the hosts.                            *)
LEMMA TypeParts ==
  TypeOK <=> /\ IntfType /\ HostType
             /\ bundles \in SUBSET Bundle
             /\ want \in [Bundle -> Vlan \cup {0}]
  BY DEF TypeOK, IntfType, HostType

(* Taking the head of the free list leaves a list of indices.              *)
LEMMA TakeIndexType ==
  ASSUME arp \in [0 .. N -> 0 .. N], TakeIndex
  PROVE  arp' \in [0 .. N -> 0 .. N]
  BY L3Assumption DEF TakeIndex

(* Putting an index back leaves a list of indices.                         *)
LEMMA ReleaseIndexType ==
  ASSUME arp \in [0 .. N -> 0 .. N], NEW i \in 1 .. N, ReleaseIndex(i)
  PROVE  arp' \in [0 .. N -> 0 .. N]
<1>1. arp[0] \in 0 .. N
  BY L3Assumption
<1> QED
  BY <1>1 DEF ReleaseIndex

(* Adding a host, with or without a failure, keeps the types.              *)
LEMMA AddHostType ==
  ASSUME TypeOK, NEW b \in Bundle, NEW h \in Host, add_l3_host_entry(b, h)
  PROVE  TypeOK'
<1> USE L3Assumption
<1>1. vlan[b] \in Vlan
  BY DEF TypeOK, add_l3_host_entry
<1>2. PICK p \in EgressPort(b) :
        LET g == <<p, vlan[b]>>
        IN \/ HostAdded(b, h, g)
           \/ /\ \/ HostWithoutIndex(g)
                 \/ HostWithoutL3Group(g)
                 \/ HostWithoutRoute(g)
              /\ UNCHANGED <<hosts, route, count>>
  BY DEF add_l3_host_entry
<1> DEFINE g == <<p, vlan[b]>>
<1>3. p \in Pid /\ g \in Group2
  BY <1>1 DEF EgressPort, Group2
<1>4. DelL2(l2grp, l3grp, g) \in SUBSET Group2
  BY DelL2Type DEF TypeOK
<1>5. UNCHANGED <<bundles, vlan, internal, ingress, flow, want, via>>
  BY DEF add_l3_host_entry
<1> HIDE DEF g
<1>6. CASE HostAdded(b, h, g)
  <2>1. arp[0] \in 1 .. N
    BY <1>6 DEF HostAdded, TypeOK
  <2>2. arp' \in [0 .. N -> 0 .. N]
    BY <1>6, TakeIndexType, Zenon DEF HostAdded, TypeOK
  <2>3. hosts' \in SUBSET HostEntry
    <3> DEFINE new == [ip |-> h, arp |-> arp[0], l2 |-> g, on |-> b]
    <3>1. new \in HostEntry
      BY <1>3, <2>1 DEF HostEntry
    <3>2. hosts' = hosts \cup {new}
      BY <1>6 DEF HostAdded
    <3>3. hosts \in SUBSET HostEntry
      BY DEF TypeOK
    <3> HIDE DEF new
    <3> QED
      BY <3>1, <3>2, <3>3
  <2>4. count[b] + 1 \in Int
    BY DEF TypeOK
  <2>5. (count[b] + 1) % CountMod \in 0 .. CountMod - 1
    BY <2>4, ModRange, Zenon
  <2>6. count' \in [Bundle -> 0 .. CountMod - 1]
    BY <1>6, <2>5 DEF HostAdded, TypeOK
  <2>7. l2grp' \in SUBSET Group2 /\ l3grp' \in [1 .. N -> Group2 \cup {NoGroup}]
    BY <1>3, <1>6, SMTT(30) DEF HostAdded, TypeOK
  <2>8. route' \in [Dest -> 1 .. N \cup {Trap, NoRoute}]
    BY <1>6, <2>1, SMTT(30) DEF HostAdded, TypeOK, Dest
  <2> QED
    BY <1>5, <2>2, <2>3, <2>6, <2>7, <2>8, Zenon DEF TypeOK
<1>7. CASE HostWithoutIndex(g) /\ UNCHANGED <<hosts, route, count>>
  BY <1>4, <1>5, <1>7, Zenon DEF HostWithoutIndex, TypeOK
<1>8. CASE HostWithoutL3Group(g) /\ UNCHANGED <<hosts, route, count>>
  BY <1>4, <1>5, <1>8, TakeIndexType, Zenon DEF HostWithoutL3Group, TypeOK
<1>9. CASE HostWithoutRoute(g) /\ UNCHANGED <<hosts, route, count>>
  BY <1>3, <1>5, <1>9, TakeIndexType, Zenon DEF HostWithoutRoute, TypeOK
<1> QED
  BY <1>2, <1>6, <1>7, <1>8, <1>9 DEF g

(* Deleting a host, with or without a failure, keeps the types.            *)
LEMMA DeleteHostType ==
  ASSUME TypeOK, NEW b \in Bundle, NEW e \in hosts, delete_l3_host_entry(b, e)
  PROVE  TypeOK'
<1> USE L3Assumption
<1>1. e \in HostEntry /\ e.arp \in 1 .. N /\ e.ip \in Host
  BY Zenon DEF TypeOK, HostEntry
<1> DEFINE left(o) == IF o = "route" THEN route
                      ELSE [route EXCEPT ![e.ip] = NoRoute]
           l3(o) == IF o = "l3" THEN l3grp ELSE DelL3(l3grp, left(o), e.arp)
           l2(o) == IF o = "l2" THEN l2grp ELSE DelL2(l2grp, l3(o), e.l2)
<1>2. PICK o \in Outcome("host_del", {"route", "l3", "l2"}) :
        /\ route' = left(o)
        /\ l3grp' = l3(o)
        /\ IF count[b] = 1
           THEN ops_fpa_disable_routing(b, l2(o), l3(o))
           ELSE /\ l2grp' = l2(o)
                /\ count' = [count EXCEPT ![b] = (@ - 1) % CountMod]
                /\ UNCHANGED <<vlan, internal, ingress, flow>>
  BY DEF delete_l3_host_entry
<1>3. route' \in [Dest -> 1 .. N \cup {Trap, NoRoute}]
  BY <1>2, Zenon DEF TypeOK
<1>4. l3grp' \in [1 .. N -> Group2 \cup {NoGroup}]
  BY <1>2, DelL3Type, Zenon DEF TypeOK
<1>5. l2(o) \in SUBSET Group2
  BY DelL2Type, SMTT(30) DEF TypeOK
<1>6. IntfType'
  <2> HIDE DEF l2, l3
  <2>1. CASE count[b] = 1
    BY <1>2, <1>5, <2>1, TypeParts, DisableType DEF delete_l3_host_entry
  <2>2. CASE count[b] # 1
    <3>1. count[b] - 1 \in Int
      BY DEF TypeOK
    <3> DEFINE n == (count[b] - 1) % CountMod
    <3>2. n \in 0 .. CountMod - 1
      BY <3>1, ModRange, Zenon
    <3>3. count' \in [Bundle -> 0 .. CountMod - 1]
      <4>1. count' = [count EXCEPT ![b] = n]
        BY <1>2, <2>2
      <4> HIDE DEF n
      <4> QED
        BY <3>2, <4>1 DEF TypeOK
    <3>4. l2grp' \in SUBSET Group2 /\ UNCHANGED <<vlan, internal, ingress, flow>>
      BY <1>2, <1>5, <2>2
    <3> QED
      BY <3>3, <3>4, Zenon DEF TypeOK, IntfType
  <2> QED
    BY <2>1, <2>2
<1>7. arp' \in [0 .. N -> 0 .. N]
  BY <1>1, ReleaseIndexType DEF delete_l3_host_entry, TypeOK
<1>8. /\ hosts' \in SUBSET HostEntry
      /\ UNCHANGED <<bundles, want, via>>
  BY DEF delete_l3_host_entry, TypeOK
<1> QED
  BY <1>3, <1>4, <1>6, <1>7, <1>8, Zenon DEF TypeOK, IntfType

(* Every handler keeps every variable in its range: in particular the free *)
(* list of arp_indices stays inside the array, and routes_count wraps.     *)
THEOREM TypeCorrect == Spec => []TypeOK
<1> USE L3Assumption
<1>1. Init => TypeOK
  BY DEF Init, TypeOK, Flow
<1>2. TypeOK /\ [Next]_vars => TypeOK'
  <2> SUFFICES ASSUME TypeOK, [Next]_vars
               PROVE  TypeOK'
    OBVIOUS
  <2>1. ASSUME NEW b \in Bundle, NEW enable \in BOOLEAN, NEW v \in VlanOf[b],
               ops_fpa_ofproto_bundle_set(b, enable, v)
        PROVE  TypeOK'
    <3>1. v \in Vlan \cup {0}
      OBVIOUS
    <3>2. IntfType'
      <4>1. CASE ~enable /\ vlan[b] # 0 /\ count[b] = 0
        <5>1. ops_fpa_disable_routing(b, l2grp, l3grp)
          BY <2>1, <4>1 DEF ops_fpa_ofproto_bundle_set
        <5> QED
          BY <4>1, <5>1, TypeParts, DisableType, Zenon DEF TypeOK
      <4>2. CASE enable /\ vlan[b] = 0 /\ v # 0
        <5>1. ops_fpa_enable_routing(b, v)
          BY <2>1, <4>2 DEF ops_fpa_ofproto_bundle_set
        <5> QED
          BY <3>1, <4>2, <5>1, TypeParts, EnableType
      <4>3. CASE /\ ~(~enable /\ vlan[b] # 0 /\ count[b] = 0)
                 /\ ~(enable /\ vlan[b] = 0 /\ v # 0)
        <5>1. UNCHANGED <<vlan, count, internal, ingress, flow, l2grp>>
          BY <2>1, <4>3 DEF ops_fpa_ofproto_bundle_set
        <5> QED
          BY <5>1, Zenon DEF TypeOK, IntfType
      <4> QED
        BY <4>1, <4>2, <4>3
    <3> QED
      BY <2>1, <3>1, <3>2, Zenon DEF ops_fpa_ofproto_bundle_set, TypeOK, IntfType
  <2>2. ASSUME NEW b \in Bundle, ops_fpa_rm_bundle(b)
        PROVE  TypeOK'
    <3>1. CASE vlan[b] # 0
      <4>1. IntfType'
        BY <2>2, <3>1, TypeParts, DisableType, Zenon DEF ops_fpa_rm_bundle, TypeOK
      <4> QED
        BY <2>2, <4>1, Zenon DEF ops_fpa_rm_bundle, TypeOK, IntfType
    <3>2. CASE vlan[b] = 0
      BY <2>2, <3>2, Zenon DEF ops_fpa_rm_bundle, TypeOK
    <3> QED
      BY <3>1, <3>2
  <2>3. ASSUME NEW d \in Prefix, l3_route_action(d)
        PROVE  TypeOK'
    <3>1. ASSUME NEW e \in hosts, RouteAdd(d, e)
          PROVE  TypeOK'
      <4>1. e.arp \in 1 .. N /\ e.ip \in Host
        BY SMTT(30) DEF TypeOK, HostEntry
      <4> QED
        BY <3>1, <4>1, Zenon DEF RouteAdd, intf, TypeOK
    <3>2. CASE RouteTrap(d)
      BY <3>2, Zenon DEF RouteTrap, intf, TypeOK
    <3>3. CASE RouteDelete(d)
      BY <3>3, Zenon DEF RouteDelete, intf, TypeOK
    <3> QED
      BY <2>3, <3>1, <3>2, <3>3 DEF l3_route_action
  <2>4. CASE UNCHANGED vars
    BY <2>4, Zenon DEF vars, intf, TypeOK
  <2> QED
    BY <2>1, <2>2, <2>3, <2>4, AddHostType, DeleteHostType DEF Next
<1> QED
  BY <1>1, <1>2, PTL DEF Spec

-----------------------------------------------------------------------------
(* ArpUnique.  ArpUnique is not inductive: it says nothing of how the free *)
(* list is linked.  The strengthening is a set F of indices, the end mark  *)
(* 0 included, on which arp_indices is a permutation and which no host's   *)
(* index is in.  Taking the head out of F, or putting the index of a       *)
(* deleted host in, leaves a permutation; an index that leaks is in no F.  *)
FreeSet(F) ==
  /\ Closed(F)
  /\ \A i, j \in F : arp[i] = arp[j] => i = j
  /\ \A e \in hosts : e.arp \notin F

ArpInv ==
  /\ \A e, f \in hosts : e.arp = f.arp => e = f
  /\ \E F \in SUBSET (0 .. N) : FreeSet(F)

(* An index taken off the free list is in no host entry, and the rest of   *)
(* the list is a free list still.                                          *)
LEMMA TakeIndexFree ==
  ASSUME TypeOK, NEW F \in SUBSET (0 .. N), FreeSet(F),
         NEW h \in 0 .. N, h = arp[0], h # 0, TakeIndex
  PROVE  /\ \A e \in hosts : e.arp # h
         /\ Closed(F \ {h})'
         /\ \A i, j \in F \ {h} : arp'[i] = arp'[j] => i = j
<1> USE L3Assumption
<1>1. h \in F /\ 0 \in F /\ arp[h] \in F /\ 0 \in 0 .. N
  BY DEF FreeSet, Closed
<1>2. arp[h] # h
  BY <1>1 DEF FreeSet
<1>3. \A i \in F \ {0} : arp[i] # h
  BY <1>1 DEF FreeSet
<1>4. /\ arp'[0] = arp[h]
      /\ \A i \in F \ {0, h} : arp'[i] = arp[i]
  BY <1>1 DEF TakeIndex, TypeOK
<1>5. Closed(F \ {h})'
  BY <1>1, <1>2, <1>3, <1>4 DEF FreeSet, Closed
<1>6. \A i, j \in F \ {h} : arp'[i] = arp'[j] => i = j
  BY <1>1, <1>4 DEF FreeSet
<1> QED
  BY <1>1, <1>5, <1>6 DEF FreeSet

(* Taking an index without giving it to a host, as add_l3_host_entry does  *)
(* when a later call fails, keeps the invariant: the index is leaked.      *)
LEMMA TakeIndexInv ==
  ASSUME TypeOK, ArpInv, arp[0] # 0, TakeIndex, UNCHANGED hosts
  PROVE  ArpInv'
<1>1. PICK F \in SUBSET (0 .. N) : FreeSet(F)
  BY DEF ArpInv
<1>2. PICK h \in 0 .. N : h = arp[0]
  BY L3Assumption DEF TypeOK
<1>3. FreeSet(F \ {h})'
  BY <1>1, <1>2, TakeIndexFree, ZenonT(40) DEF FreeSet
<1> QED
  BY <1>3 DEF ArpInv

(* Adding a host, with or without a failure, preserves ArpInv.             *)
LEMMA AddHostInv ==
  ASSUME TypeOK, ArpInv, NEW b \in Bundle, NEW h \in Host,
         add_l3_host_entry(b, h)
  PROVE  ArpInv'
<1>1. PICK p \in EgressPort(b) :
        LET g == <<p, vlan[b]>>
        IN \/ HostAdded(b, h, g)
           \/ /\ \/ HostWithoutIndex(g)
                 \/ HostWithoutL3Group(g)
                 \/ HostWithoutRoute(g)
              /\ UNCHANGED <<hosts, route, count>>
  BY DEF add_l3_host_entry
<1> DEFINE g == <<p, vlan[b]>>
<1> HIDE DEF g
<1>2. CASE HostAdded(b, h, g)
  <2>1. PICK i \in 0 .. N : i = arp[0]
    BY L3Assumption DEF TypeOK
  <2> DEFINE new == [ip |-> h, arp |-> i, l2 |-> g, on |-> b]
  <2>2. i # 0 /\ TakeIndex /\ hosts' = hosts \cup {new}
    BY <1>2, <2>1 DEF HostAdded
  <2>3. PICK F \in SUBSET (0 .. N) : FreeSet(F)
    BY DEF ArpInv
  <2>4. /\ \A e \in hosts : e.arp # i
        /\ Closed(F \ {i})'
        /\ \A j, k \in F \ {i} : arp'[j] = arp'[k] => j = k
    BY <2>1, <2>2, <2>3, TakeIndexFree
  <2>5. \A e \in hosts' : e \in hosts \/ (e = new /\ e.arp = i)
    BY <2>2
  <2> HIDE DEF new
  <2>6. FreeSet(F \ {i})'
    BY <2>3, <2>4, <2>5 DEF FreeSet
  <2>7. \A e, f \in hosts' : e.arp = f.arp => e = f
    BY <2>4, <2>5 DEF ArpInv
  <2> QED
    BY <2>6, <2>7 DEF ArpInv
<1>3. CASE HostWithoutIndex(g) /\ UNCHANGED hosts
  BY <1>3 DEF HostWithoutIndex, ArpInv, FreeSet, Closed
<1>4. CASE HostWithoutL3Group(g) /\ UNCHANGED hosts
  BY <1>4, TakeIndexInv DEF HostWithoutL3Group
<1>5. CASE HostWithoutRoute(g) /\ UNCHANGED hosts
  BY <1>5, TakeIndexInv DEF HostWithoutRoute
<1> QED
  BY <1>1, <1>2, <1>3, <1>4, <1>5 DEF g

(* Deleting a host preserves ArpInv.                                       *)
LEMMA DeleteHostInv ==
  ASSUME TypeOK, ArpInv, NEW b \in Bundle, NEW e \in hosts,
         delete_l3_host_entry(b, e)
  PROVE  ArpInv'
<1> USE L3Assumption
<1> DEFINE k == e.arp
<1>1. k \in 0 .. N /\ k # 0 /\ 0 \in 0 .. N
  <2>1. e \in HostEntry
    BY DEF TypeOK
  <2> QED
    BY <2>1 DEF HostEntry
<1>2. hosts' = hosts \ {e} /\ arp' = [arp EXCEPT ![0] = k, ![k] = arp[0]]
  BY DEF delete_l3_host_entry, ReleaseIndex
<1>3. PICK F \in SUBSET (0 .. N) : FreeSet(F)
  BY DEF ArpInv
<1>4. k \notin F /\ 0 \in F /\ arp[0] \in F
  BY <1>3 DEF FreeSet, Closed
<1>5. \A f \in hosts' : f.arp # k
  BY <1>2 DEF ArpInv
<1> HIDE DEF k
<1>6. /\ arp'[0] = k /\ arp'[k] = arp[0]
      /\ \A i \in F \ {0} : arp'[i] = arp[i]
  BY <1>1, <1>2, <1>3, <1>4 DEF TypeOK
<1>7. Closed(F \cup {k})'
  BY <1>3, <1>4, <1>6 DEF FreeSet, Closed
<1>8. \A i, j \in F \cup {k} : arp'[i] = arp'[j] => i = j
  BY <1>3, <1>4, <1>6 DEF FreeSet, Closed
<1>9. FreeSet(F \cup {k})'
  BY <1>2, <1>3, <1>5, <1>7, <1>8, Zenon DEF FreeSet
<1> QED
  BY <1>1, <1>2, <1>9 DEF ArpInv

(* The indices ops_fpa_ofproto_init links are all free.                    *)
LEMMA InitArpInv == Init => ArpInv
<1> USE L3Assumption
<1> SUFFICES ASSUME Init PROVE ArpInv
  OBVIOUS
<1>1. FreeSet(0 .. N)
  BY DEF Init, FreeSet, Closed
<1>2. (0 .. N) \in SUBSET (0 .. N)
  OBVIOUS
<1> QED
  BY <1>1, <1>2 DEF Init, ArpInv

(* Every step preserves ArpInv.                                            *)
LEMMA NextArpInv == TypeOK /\ ArpInv /\ [Next]_vars => ArpInv'
<1> SUFFICES ASSUME TypeOK, ArpInv, [Next]_vars
             PROVE  ArpInv'
  OBVIOUS
<1>1. CASE UNCHANGED <<arp, hosts>>
  BY <1>1 DEF ArpInv, FreeSet, Closed
<1>2. ASSUME NEW b \in Bundle, NEW enable \in BOOLEAN, NEW v \in VlanOf[b],
             ops_fpa_ofproto_bundle_set(b, enable, v)
      PROVE  UNCHANGED <<arp, hosts>>
  BY <1>2 DEF ops_fpa_ofproto_bundle_set
<1>3. ASSUME NEW b \in Bundle, ops_fpa_rm_bundle(b)
      PROVE  UNCHANGED <<arp, hosts>>
  BY <1>3 DEF ops_fpa_rm_bundle
<1>4. ASSUME NEW d \in Prefix, l3_route_action(d)
      PROVE  UNCHANGED <<arp, hosts>>
  BY <1>4 DEF l3_route_action, RouteAdd, RouteTrap, RouteDelete
<1>5. CASE UNCHANGED vars
  BY <1>1, <1>5 DEF vars
<1> QED
  BY <1>1, <1>2, <1>3, <1>4, <1>5, AddHostInv, DeleteHostInv DEF Next

(* A free index is in every closed set, so in F, where no host's index is. *)
LEMMA ArpInvUnique == ArpInv => ArpUnique
  BY DEF ArpInv, ArpUnique, FreeIndices, FreeSet

(* add_l3_host_entry never gives out an ARP index, and with it an L3       *)
(* group, that a host in host_table has: for any number of indices, any    *)
(* failing calls of the FPA library, and callers that add a host twice,    *)
(* delete it through another interface or remove the interface first.      *)
THEOREM ArpIndicesUnique == Spec => []ArpUnique
<1>1. Spec => []TypeOK
  BY TypeCorrect
<1> QED
  BY <1>1, InitArpInv, NextArpInv, ArpInvUnique, PTL DEF Spec

-----------------------------------------------------------------------------
(* The free list implements the pool.  FreeIndices with the end mark is    *)
(* the least closed set, so it is a FreeSet itself; the two list           *)
(* operations change it by exactly the index they move.                    *)
Reach == FreeIndices \cup {0}

(* The least closed set is closed.                                         *)
LEMMA ReachLeast ==
  ASSUME TypeOK
  PROVE  /\ Reach \in SUBSET (0 .. N)
         /\ Closed(Reach)
         /\ \A F \in SUBSET (0 .. N) : Closed(F) => Reach \subseteq F
<1> USE L3Assumption
<1>1. \A F \in SUBSET (0 .. N) : Closed(F) => Reach \subseteq F
  BY DEF Reach, FreeIndices, Closed
<1>2. ASSUME NEW i \in Reach
      PROVE  arp[i] \in Reach
  <2>1. i \in 0 .. N /\ arp[i] \in 0 .. N
    BY DEF Reach, FreeIndices, TypeOK
  <2>2. ASSUME NEW F \in SUBSET (0 .. N), Closed(F)
        PROVE  arp[i] \in F
    BY <1>1, <2>2, Zenon DEF Closed
  <2> QED
    BY <2>1, <2>2 DEF Reach, FreeIndices
<1>3. Reach \in SUBSET (0 .. N)
  BY DEF Reach, FreeIndices
<1> QED
  BY <1>1, <1>2, <1>3 DEF Reach, Closed

(* It is a free set, being within one.                                     *)
LEMMA ReachFree == TypeOK /\ ArpInv => FreeSet(Reach)
<1> SUFFICES ASSUME TypeOK, ArpInv
             PROVE  FreeSet(Reach)
  OBVIOUS
<1>1. PICK F \in SUBSET (0 .. N) : FreeSet(F)
  BY DEF ArpInv
<1>2. Reach \subseteq F /\ Closed(Reach)
  BY <1>1, ReachLeast DEF FreeSet
<1> QED
  BY <1>1, <1>2, Zenon DEF FreeSet

(* Taking an index removes it, and no other, from the free ones.           *)
LEMMA TakeIndexPool ==
  ASSUME TypeOK, ArpInv, NEW h \in 1 .. N, h = arp[0], TakeIndex
  PROVE  h \in FreeIndices /\ FreeIndices' = FreeIndices \ {h}
<1> USE L3Assumption
<1>1. /\ FreeSet(Reach) /\ Closed(Reach) /\ Reach \in SUBSET (0 .. N)
      /\ \A F \in SUBSET (0 .. N) : Closed(F) => Reach \subseteq F
  BY ReachLeast, ReachFree
<1>2. PICK M \in SUBSET (0 .. N) : M = Reach
  BY <1>1
<1>3. h \in 0 .. N /\ h # 0 /\ 0 \in M /\ h \in M /\ 0 \in 0 .. N
  BY <1>1, <1>2 DEF Closed
<1>4. Closed(M \ {h})'
  BY <1>1, <1>2, <1>3, TakeIndexFree
<1>5. arp' = [arp EXCEPT ![0] = arp[h], ![h] = 0]
  BY DEF TakeIndex
<1>6. ASSUME NEW G \in SUBSET (0 .. N), Closed(G)'
      PROVE  M \ {h} \subseteq G
  <2>1. 0 \in G /\ \A i \in G : arp'[i] \in G
    BY <1>6 DEF Closed
  <2>2. \A i \in G \ {0, h} : arp'[i] = arp[i]
    BY <1>3, <1>5 DEF TypeOK
  <2>3. arp'[0] = arp[h]
    BY <1>3, <1>5 DEF TypeOK
  <2>4. Closed(G \cup {h})
    BY <2>1, <2>2, <2>3 DEF Closed
  <2> QED
    BY <1>1, <1>2, <1>3, <2>4, Zenon
<1>7. FreeIndices' = (M \ {h}) \ {0}
  <2>1. ASSUME NEW i \in FreeIndices'
        PROVE  i \in M \ {h}
    BY <1>4 DEF FreeIndices
  <2>2. \A i \in M \ {0} : i \in 1 .. N
    OBVIOUS
  <2>3. ASSUME NEW i \in (M \ {h}) \ {0}
        PROVE  i \in FreeIndices'
    BY <1>6, <2>2 DEF FreeIndices
  <2>4. 0 \notin FreeIndices'
    BY DEF FreeIndices
  <2> QED
    BY <2>1, <2>3, <2>4, Zenon
<1>8. FreeIndices = M \ {0}
  BY <1>2 DEF Reach, FreeIndices
<1> QED
  BY <1>3, <1>7, <1>8

(* Putting back an index that is on no free set adds it, and no other.     *)
LEMMA ReleaseIndexPool ==
  ASSUME TypeOK, ArpInv, NEW k \in 1 .. N, k \notin FreeIndices,
         ReleaseIndex(k)
  PROVE  FreeIndices' = FreeIndices \cup {k}
<1> USE L3Assumption
<1>1. PICK M \in SUBSET (0 .. N) : M = Reach
  BY ReachLeast
<1>2. /\ 0 \in M /\ \A i \in M : arp[i] \in M
      /\ \A F \in SUBSET (0 .. N) : Closed(F) => M \subseteq F
  BY <1>1, ReachLeast DEF Closed
<1>3. k \in 0 .. N /\ k # 0 /\ k \notin M /\ 0 \in 0 .. N
  BY <1>1 DEF Reach
<1>4. arp' = [arp EXCEPT ![0] = k, ![k] = arp[0]]
  BY DEF ReleaseIndex
<1>5. arp'[0] = k /\ arp'[k] = arp[0] /\ \A i \in M \ {0} : arp'[i] = arp[i]
  BY <1>3, <1>4 DEF TypeOK
<1>6. Closed(M \cup {k})'
  BY <1>2, <1>5 DEF Closed
<1>7. ASSUME NEW G \in SUBSET (0 .. N), Closed(G)'
      PROVE  M \cup {k} \subseteq G
  <2>1. 0 \in G /\ k \in G /\ arp[0] \in G /\ \A i \in G : arp'[i] \in G
    BY <1>5, <1>7 DEF Closed
  <2>2. Closed(G \cap M)
    BY <1>2, <1>5, <2>1 DEF Closed
  <2> QED
    BY <1>2, <2>1, <2>2
<1>8. FreeIndices' = (M \cup {k}) \ {0}
  <2>1. ASSUME NEW i \in FreeIndices'
        PROVE  i \in M \cup {k}
    BY <1>3, <1>6 DEF FreeIndices
  <2>2. \A i \in (M \cup {k}) \ {0} : i \in 1 .. N
    BY <1>3
  <2>3. ASSUME NEW i \in (M \cup {k}) \ {0}
        PROVE  i \in FreeIndices'
    BY <1>7, <2>2 DEF FreeIndices
  <2>4. 0 \notin FreeIndices'
    BY DEF FreeIndices
  <2> QED
    BY <2>1, <2>3, <2>4, Zenon
<1>9. FreeIndices = M \ {0}
  BY <1>1 DEF Reach, FreeIndices
<1> QED
  BY <1>3, <1>8, <1>9

(* A set of numbers that is not empty has a least element.                 *)
LEMMA LeastElement ==
  ASSUME NEW G \in SUBSET Nat, G # {}
  PROVE  \E m \in G : \A k \in G : m <= k
<1>1. PICK m \in G : \A k \in G : ~(<<k, m>> \in OpToRel(<, Nat))
  BY NatLessThanWellFounded, WFMin, Zenon
<1>2. \A k \in G : ~(k < m)
  BY <1>1, Zenon DEF OpToRel
<1> QED
  BY <1>2

(* A set that holds 0 and, with a number below n, the next one, holds all  *)
(* numbers up to n.                                                        *)
LEMMA IntervalInduction ==
  ASSUME NEW n \in Nat, NEW F, 0 \in F,
         \A i \in 0 .. n - 1 : i \in F => i + 1 \in F
  PROVE  0 .. n \subseteq F
<1> DEFINE G == (0 .. n) \ F
<1> SUFFICES ASSUME G # {}
             PROVE  FALSE
  OBVIOUS
<1>0. G \in SUBSET Nat
  OBVIOUS
<1>1. PICK m \in G : \A k \in G : m <= k
  BY <1>0, LeastElement, Zenon
<1>2. m # 0 /\ m - 1 \in 0 .. n - 1 /\ m - 1 \notin G
  BY <1>1
<1> QED
  BY <1>1, <1>2

(* The list that ops_fpa_ofproto_init links holds every index.             *)
LEMMA InitPool == Init => Pool!Init
<1> USE L3Assumption
<1> SUFFICES ASSUME Init
             PROVE  FreeIndices = 1 .. N /\ {e.arp : e \in hosts} = {}
  BY DEF Pool!Init
<1>1. ASSUME NEW F \in SUBSET (0 .. N), Closed(F)
      PROVE  0 .. N \subseteq F
  <2>1. 0 \in F
    BY <1>1 DEF Closed
  <2>2. \A i \in 0 .. N - 1 : arp[i] = i + 1
    BY DEF Init
  <2>3. \A i \in 0 .. N - 1 : i \in F => i + 1 \in F
    BY <1>1, <2>2 DEF Closed
  <2> QED
    BY <2>1, <2>3, IntervalInduction
<1>2. {e.arp : e \in hosts} = {}
  BY DEF Init
<1> QED
  BY <1>1, <1>2 DEF FreeIndices

(* Every step is a step of the pool, or leaves it as it is.                *)
LEMMA NextPool ==
  ASSUME TypeOK, ArpInv, [Next]_vars
  PROVE  [Pool!Next]_<<FreeIndices, {e.arp : e \in hosts}>>
<1> USE L3Assumption
<1> DEFINE Held == {e.arp : e \in hosts}
<1>1. CASE UNCHANGED <<arp, hosts>>
  BY <1>1 DEF FreeIndices, Closed
<1>2. ASSUME NEW i \in 1 .. N, i = arp[0], TakeIndex, UNCHANGED hosts
      PROVE  Pool!Next
  <2>1. i \in FreeIndices /\ FreeIndices' = FreeIndices \ {i} /\ Held' = Held
    BY <1>2, TakeIndexPool
  <2> QED
    BY <2>1 DEF Pool!Next, Pool!Leak
<1>3. ASSUME NEW b \in Bundle, NEW h \in Host, add_l3_host_entry(b, h)
      PROVE  Pool!Next \/ UNCHANGED <<FreeIndices, Held>>
  <2>1. PICK p \in EgressPort(b) :
          LET g == <<p, vlan[b]>>
          IN \/ HostAdded(b, h, g)
             \/ /\ \/ HostWithoutIndex(g)
                   \/ HostWithoutL3Group(g)
                   \/ HostWithoutRoute(g)
                /\ UNCHANGED <<hosts, route, count>>
    BY <1>3, SMTT(30) DEF add_l3_host_entry
  <2> DEFINE g == <<p, vlan[b]>>
  <2>2. \/ HostAdded(b, h, g)
        \/ HostWithoutIndex(g) /\ UNCHANGED hosts
        \/ (HostWithoutL3Group(g) \/ HostWithoutRoute(g)) /\ UNCHANGED hosts
    BY <2>1, Zenon
  <2> HIDE DEF g
  <2>3. CASE HostAdded(b, h, g)
    <3>1. PICK i \in 1 .. N : i = arp[0]
      BY <2>3, SMTT(30) DEF HostAdded, TypeOK
    <3> DEFINE new == [ip |-> h, arp |-> i, l2 |-> g, on |-> b]
    <3>2. TakeIndex /\ hosts' = hosts \cup {new} /\ new.arp = i
      BY <2>3, <3>1, Zenon DEF HostAdded
    <3>3. i \in FreeIndices /\ FreeIndices' = FreeIndices \ {i}
      BY <3>1, <3>2, TakeIndexPool
    <3> HIDE DEF new
    <3>4. Held' = Held \cup {i}
      BY <3>2, SMTT(30)
    <3> QED
      BY <3>3, <3>4 DEF Pool!Next, Pool!Take
  <2>4. CASE HostWithoutIndex(g) /\ UNCHANGED hosts
    BY <1>1, <2>4, ZenonT(40) DEF HostWithoutIndex
  <2>5. CASE (HostWithoutL3Group(g) \/ HostWithoutRoute(g)) /\ UNCHANGED hosts
    <3>1. PICK i \in 1 .. N : i = arp[0]
      BY <2>5 DEF HostWithoutL3Group, HostWithoutRoute, TypeOK
    <3> QED
      BY <1>2, <2>5, <3>1 DEF HostWithoutL3Group, HostWithoutRoute
  <2> QED
    BY <2>2, <2>3, <2>4, <2>5, Zenon
<1>4. ASSUME NEW b \in Bundle, NEW e \in hosts, delete_l3_host_entry(b, e)
      PROVE  Pool!Next
  <2>1. PICK k \in 1 .. N : k = e.arp
    BY SMTT(30) DEF TypeOK, HostEntry
  <2>2. ReleaseIndex(k) /\ hosts' = hosts \ {e}
    BY <1>4, <2>1 DEF delete_l3_host_entry
  <2>3. \A f \in hosts : f.arp = k => f = e
    BY <2>1 DEF ArpInv
  <2>4. k \notin FreeIndices
    BY <2>1, ArpInvUnique DEF ArpUnique
  <2>5. FreeIndices' = FreeIndices \cup {k}
    BY <2>2, <2>4, ReleaseIndexPool
  <2>6. k \in Held /\ Held' = Held \ {k}
    BY <2>1, <2>2, <2>3
  <2> QED
    BY <2>5, <2>6, Zenon DEF Pool!Next, Pool!Return
<1>5. CASE \E b \in Bundle : \E enable \in BOOLEAN, v \in VlanOf[b] :
             ops_fpa_ofproto_bundle_set(b, enable, v)
  BY <1>1, <1>5, SMTT(30) DEF ops_fpa_ofproto_bundle_set
<1>6. CASE \E b \in Bundle : ops_fpa_rm_bundle(b)
  BY <1>1, <1>6 DEF ops_fpa_rm_bundle
<1>7. CASE \E d \in Prefix : l3_route_action(d)
  BY <1>1, <1>7, SMTT(30)
  DEF l3_route_action, RouteAdd, RouteTrap, RouteDelete
<1>8. CASE UNCHANGED vars
  BY <1>1, <1>8 DEF vars
<1> HIDE DEF Held
<1> QED
  BY <1>3, <1>4, <1>5, <1>6, <1>7, <1>8, Zenon DEF Next, Held

(* The array arp_indices and host_table implement a pool of indices, each  *)
(* free, held by one host or leaked, for any size of the array, any        *)
(* failing calls and any order of calls.                                   *)
THEOREM ArpIndicesImplementPool == Spec => ImplementsPool
<1>1. Spec => []TypeOK
  BY TypeCorrect
<1>2. Spec => []ArpInv
  BY <1>1, InitArpInv, NextArpInv, PTL DEF Spec
<1>3. TypeOK /\ ArpInv /\ [Next]_vars
        => [Pool!Next]_<<FreeIndices, {e.arp : e \in hosts}>>
  BY NextPool
<1> QED
  BY <1>1, <1>2, <1>3, InitPool, PTL DEF Spec, ImplementsPool, Pool!Spec

=============================================================================
