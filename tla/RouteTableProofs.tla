-------------------------- MODULE RouteTableProofs --------------------------
(***************************************************************************)
(* For addresses of any size, any routes and any failures to add one, the  *)
(* ASIC forwards by the longest prefix among the routes asked for while    *)
(* these are of whole octets, provided that deletions succeed.  That each  *)
(* route is shown as configured needs no such proviso.                     *)
(***************************************************************************)
EXTENDS RouteTable, TLAPS

(* Bit j of byte k is among the bits of the first n bytes iff k < n.       *)
LEMMA ByteBelow ==
  ASSUME NEW w \in Nat \ {0}, NEW k \in Nat, NEW n \in Nat, NEW j \in 0 .. w - 1
  PROVE  (w * k + j < w * n) <=> k < n
<1>1. ASSUME k < n PROVE w * k + j < w * n
  <2>1. PICK d \in Nat : n = k + 1 + d
    <3>1. n - k - 1 \in Nat /\ n = k + 1 + (n - k - 1)
      BY <1>1
    <3> QED
      BY <3>1
  <2>2. w * n = w * k + w + w * d
    BY <2>1
  <2>3. w * d >= 0
    BY <2>1
  <2> QED
    BY <2>2, <2>3
<1>2. ASSUME ~(k < n) PROVE ~(w * k + j < w * n)
  <2>1. PICK d \in Nat : k = n + d
    <3>1. k - n \in Nat /\ k = n + (k - n)
      BY <1>2
    <3> QED
      BY <3>1
  <2>2. w * k = w * n + w * d
    BY <2>1
  <2>3. w * d >= 0
    BY <2>1
  <2> QED
    BY <2>2, <2>3
<1> QED
  BY <1>1, <1>2

(* For whole octets the low bits of the value are the bits of the prefix.  *)
LEMMA AlignedMask ==
  ASSUME NEW n \in 1 .. Octets
  PROVE  /\ Masks(n * W) = {NetworkBits(n * W)}
         /\ NetworkBits(n * W) = {b \in Bit : b[1] < n}
<1>1. W \in Nat \ {0} /\ Octets \in Nat /\ n \in Nat /\ n * W = W * n
  BY RouteAssumption
<1>2. n * W # 0
  BY <1>1
<1>3. ASSUME NEW b \in Bit
      PROVE  /\ (W * b[1] + b[2] < n * W) <=> b[1] < n
             /\ (W * b[1] + (W - 1 - b[2]) < n * W) <=> b[1] < n
  <2>1. b[1] \in Nat /\ b[2] \in 0 .. W - 1 /\ W - 1 - b[2] \in 0 .. W - 1
    BY <1>1 DEF Bit
  <2> QED
    BY <1>1, <2>1, ByteBelow
<1>4. NetworkBits(n * W) = {b \in Bit : b[1] < n}
  BY <1>3 DEF NetworkBits
<1>5. {b \in Bit : W * b[1] + b[2] < n * W} = {b \in Bit : b[1] < n}
  BY <1>3
<1> QED
  BY <1>2, <1>4, <1>5 DEF Masks

(* Every number below Bits is the place of a bit.                          *)
LEMMA BitAt ==
  ASSUME NEW i \in 0 .. Bits - 1
  PROVE  \E b \in Bit : W * b[1] + b[2] = i
<1>1. W \in Nat \ {0} /\ Octets \in Nat \ {0} /\ Bits = W * Octets
  BY RouteAssumption DEF Bits
<1> DEFINE k == i \div W
           j == i % W
<1>2. i \in Nat /\ i < W * Octets
  BY <1>1
<1>3. k \in Nat /\ j \in 0 .. W - 1 /\ W * k + j = i
  BY <1>1, <1>2
<1> HIDE DEF k, j
<1>4. k < Octets
  BY <1>1, <1>2, <1>3, ByteBelow
<1>5. <<k, j>> \in Bit
  BY <1>1, <1>3, <1>4 DEF Bit
<1> QED
  BY <1>3, <1>5

(* Lengths are numbers, and there is a bit.                                *)
LEMMA LengthType == Bits \in Nat \ {0} /\ Length \subseteq Nat /\ <<0, 0>> \in Bit
<1>1. W \in Nat \ {0} /\ Octets \in Nat \ {0}
  BY RouteAssumption
<1>2. Octets * W \in Nat \ {0}
  BY <1>1
<1> QED
  BY <1>1, <1>2 DEF Bits, Length, Bit

(* Masks tell lengths apart, except that of length 0, when the shift leaves*)
(* all bits, and the full one.                                             *)
LEMMA MaskTellsLength ==
  ASSUME NEW l \in Length, NEW m \in Length, NEW mask,
         mask \in Masks(l), mask \in Masks(m), l < m
  PROVE  l = 0 /\ m = Bits
<1> USE LengthType
<1>1. l \in Nat /\ m \in Nat /\ m # 0 /\ m <= Bits
  BY DEF Length
<1>2. mask = {b \in Bit : W * b[1] + b[2] < m}
  BY <1>1 DEF Masks
<1>3. CASE l # 0
  <2>1. mask = {b \in Bit : W * b[1] + b[2] < l}
    BY <1>3 DEF Masks
  <2>2. PICK b \in Bit : W * b[1] + b[2] = l
    BY <1>1, BitAt
  <2>3. b \in mask /\ b \notin mask
    BY <1>1, <1>2, <2>1, <2>2
  <2> QED
    BY <2>3
<1>4. CASE l = 0
  <2>1. mask \in {{}, Bit}
    BY <1>4 DEF Masks
  <2>2. <<0, 0>> \in mask
    BY <1>1, <1>2, RouteAssumption
  <2>3. mask = Bit
    BY <2>1, <2>2
  <2>4. CASE m < Bits
    <3>1. PICK b \in Bit : W * b[1] + b[2] = m
      BY <1>1, <2>4, BitAt
    <3> QED
      BY <1>1, <1>2, <2>3, <3>1
  <2> QED
    BY <1>1, <1>4, <2>4
<1> QED
  BY <1>3, <1>4

-----------------------------------------------------------------------------
(* A flow carries a route, and a table mirrors a set of routes if its flows*)
(* carry them and nothing else.                                            *)
Carries(e, r) ==
  /\ e.cookie = OPS_FPA_ROUTE_IPV4_COOKIE(r.addr, r.len)
  /\ e.dst = r.addr /\ e.to = r.to
  /\ e.mask \in Masks(r.len)

Proper(addr, len) ==
  addr \in SUBSET NetworkBits(len) /\ (addr = {} => len # Bits)

Mirrors(tbl, routes) ==
  /\ tbl \in SUBSET FlowEntry /\ routes \in SUBSET Route
  /\ \A r \in routes : Proper(r.addr, r.len)
  /\ \A r \in routes : \E e \in tbl : Carries(e, r)
  /\ \A e \in tbl : \E r \in routes : Carries(e, r)
  /\ \A r, s \in routes : r.addr = s.addr /\ r.len = s.len => r = s

(* OPS_FPA_ROUTE_IPV4_COOKIE tells routes apart, and fits its field.       *)
LEMMA CookieTellsRoute ==
  ASSUME NEW a, NEW b, NEW l \in Length, NEW m \in Length
  PROVE  /\ (OPS_FPA_ROUTE_IPV4_COOKIE(a, l) = OPS_FPA_ROUTE_IPV4_COOKIE(b, m))
            <=> (a = b /\ l = m)
         /\ a \in Address =>
              OPS_FPA_ROUTE_IPV4_COOKIE(a, l) \in Address \X (0 .. LenMod - 1)
<1>1. \A x \in Length : x % LenMod = x /\ x \in 0 .. LenMod - 1
  BY RouteAssumption, LengthType DEF Length
<1> QED
  BY <1>1 DEF OPS_FPA_ROUTE_IPV4_COOKIE

(* Deletion by cookie takes the flow of one route.                         *)
LEMMA DropMirrors ==
  ASSUME NEW tbl, NEW routes, Mirrors(tbl, routes),
         NEW addr \in Address, NEW len \in Length
  PROVE  Mirrors({f \in tbl : f.cookie # OPS_FPA_ROUTE_IPV4_COOKIE(addr, len)},
                 {r \in routes : <<r.addr, r.len>> # <<addr, len>>})
<1> DEFINE left == {f \in tbl : f.cookie # OPS_FPA_ROUTE_IPV4_COOKIE(addr, len)}
           kept == {r \in routes : <<r.addr, r.len>> # <<addr, len>>}
<1>1. ASSUME NEW e \in tbl, NEW r \in routes, Carries(e, r)
      PROVE  e \in left <=> r \in kept
  <2>1. r.len \in Length
    BY DEF Mirrors, Route
  <2> QED
    BY <1>1, <2>1, CookieTellsRoute DEF Carries
<1>2. left \subseteq tbl /\ kept \subseteq routes
  OBVIOUS
<1> HIDE DEF left, kept
<1>3. Mirrors(left, kept)
  BY <1>1, <1>2 DEF Mirrors
<1> QED
  BY <1>3 DEF left, kept

(* Two prefixes with the same address have different matches if their      *)
(* lengths differ.                                                         *)
LEMMA MatchTellsRoute ==
  ASSUME NEW addr \in Address, NEW l \in Length, NEW m \in Length,
         Proper(addr, l), Proper(addr, m), NEW mask, mask \in Masks(l), mask \in Masks(m)
  PROVE  l = m
<1>1. l = m \/ (l = 0 /\ m = Bits) \/ (m = 0 /\ l = Bits)
  <2>1. l \in Nat /\ m \in Nat
    BY LengthType
  <2> QED
    BY <2>1, MaskTellsLength
<1>2. NetworkBits(0) = {}
  <2>1. ASSUME NEW b \in Bit PROVE ~(W * b[1] + (W - 1 - b[2]) < 0)
    <3>1. W \in Nat /\ b[1] \in Nat /\ W - 1 - b[2] \in Nat
      BY RouteAssumption DEF Bit
    <3>2. W * b[1] \in Nat
      BY <3>1
    <3> QED
      BY <3>1, <3>2
  <2> QED
    BY <2>1 DEF NetworkBits
<1> QED
  BY <1>1, <1>2 DEF Proper

(* A flow that is added replaces the one of the same prefix.               *)
LEMMA AddMirrors ==
  ASSUME NEW tbl, NEW routes, Mirrors(tbl, routes),
         NEW addr \in Address, NEW len \in Length, Proper(addr, len),
         NEW to \in Target, NEW mask \in Masks(len),
         \A f \in tbl : f.cookie = OPS_FPA_ROUTE_IPV4_COOKIE(addr, len) => f.mask = mask
  PROVE  Mirrors(FlowEntryAdd(tbl, Entry(addr, len, to, mask)),
                 {r \in routes : <<r.addr, r.len>> # <<addr, len>>}
                 \cup {[addr |-> addr, len |-> len, to |-> to]})
<1> DEFINE e0 == Entry(addr, len, to, mask)
           r0 == [addr |-> addr, len |-> len, to |-> to]
           left == {f \in tbl : <<f.dst, f.mask>> # <<addr, mask>>}
           kept == {r \in routes : <<r.addr, r.len>> # <<addr, len>>}
<1>1. /\ r0 \in Route /\ r0.addr = addr /\ r0.len = len /\ r0.to = to
  BY DEF Route
<1>2. mask \in Address
  BY DEF Masks, Address
<1>3. /\ e0 \in FlowEntry /\ e0.dst = addr /\ e0.mask = mask
      /\ e0.cookie = OPS_FPA_ROUTE_IPV4_COOKIE(addr, len) /\ e0.to = to
  BY <1>2, CookieTellsRoute DEF Entry, FlowEntry
<1>4. Carries(e0, r0)
  BY <1>1, <1>3 DEF Carries
<1>5. ASSUME NEW e \in tbl, NEW r \in routes, Carries(e, r)
      PROVE  e \in left <=> r \in kept
  <2>1. r.len \in Length /\ Proper(r.addr, r.len)
    BY DEF Mirrors, Route
  <2>2. ASSUME r \notin kept PROVE e \notin left
    BY <1>5, <2>2 DEF Carries
  <2>3. ASSUME e \notin left PROVE r \notin kept
    <3>1. r.addr = addr /\ mask \in Masks(r.len)
      BY <1>5, <2>3 DEF Carries
    <3>2. r.len = len
      BY <2>1, <3>1, MatchTellsRoute
    <3> QED
      BY <3>1, <3>2
  <2> QED
    BY <2>2, <2>3
<1>6. /\ left \subseteq tbl /\ kept \subseteq routes
      /\ \A r \in kept : ~(r.addr = addr /\ r.len = len)
  OBVIOUS
<1>7. FlowEntryAdd(tbl, e0) = left \cup {e0}
  BY <1>3 DEF FlowEntryAdd
<1> HIDE DEF left, kept, e0, r0
<1>8. Mirrors(left \cup {e0}, kept \cup {r0})
  <2>1. /\ left \cup {e0} \in SUBSET FlowEntry /\ kept \cup {r0} \in SUBSET Route
        /\ \A r \in kept \cup {r0} : Proper(r.addr, r.len)
    BY <1>1, <1>3, <1>6 DEF Mirrors
  <2>2. \A r \in kept \cup {r0} : \E e \in left \cup {e0} : Carries(e, r)
    BY <1>4, <1>5, <1>6 DEF Mirrors
  <2>3. \A e \in left \cup {e0} : \E r \in kept \cup {r0} : Carries(e, r)
    BY <1>4, <1>5, <1>6 DEF Mirrors
  <2>4. \A r, s \in kept \cup {r0} : r.addr = s.addr /\ r.len = s.len => r = s
    BY <1>1, <1>6 DEF Mirrors
  <2> QED
    BY <2>1, <2>2, <2>3, <2>4 DEF Mirrors
<1> QED
  BY <1>7, <1>8 DEF kept, r0, e0

-----------------------------------------------------------------------------
(* The inductive invariant.                                                *)
RouteInv == TypeOK /\ Mirrors(table, meant)

(* What ops_fpa_str2ip accepts.                                            *)
LEMMA Parsed ==
  ASSUME NEW t \in Text, ops_fpa_str2ip(t)
  PROVE  t.addr \in Address /\ LenOf(t) \in Length /\ Proper(t.addr, LenOf(t))
<1>1. t \in [addr : Address, slash : BOOLEAN, len : Nat]
  BY RouteAssumption
<1>2. LenOf(t) \in Length
  BY <1>1, LengthType DEF LenOf, ops_fpa_str2ip, Length
<1>3. CASE t.slash
  BY <1>1, <1>2, <1>3, RouteAssumption DEF LenOf, Proper, ops_fpa_str2ip
<1>4. CASE ~t.slash
  <2>1. NetworkBits(Bits) = Bit
    <3>1. Octets \in 1 .. Octets
      BY RouteAssumption
    <3>2. {b \in Bit : b[1] < Octets} = Bit
      BY RouteAssumption DEF Bit
    <3> QED
      BY <3>1, <3>2, AlignedMask, SMTT(30) DEF Bits
  <2>2. LenOf(t) = Bits /\ t.addr # {}
    BY <1>4, RouteAssumption DEF LenOf
  <2>3. t.addr \in SUBSET Bit
    BY <1>1 DEF Address
  <2> QED
    BY <1>1, <1>2, <2>1, <2>2, <2>3 DEF Proper
<1> QED
  BY <1>1, <1>2, <1>3, <1>4

(* Nothing is configured and the table is empty.                           *)
LEMMA InitRouteInv == Init => RouteInv
BY DEF Init, RouteInv, TypeOK, Mirrors

(* Replacing a route by deleting and adding keeps flows and routes in      *)
(* accord, when deleting does not fail.                                    *)
LEMMA ReplaceMirrors ==
  ASSUME "del" \notin Faults, RouteInv,
         NEW addr \in Address, NEW len \in Length, Proper(addr, len),
         NEW to \in Target, Replace(addr, len, to)
  PROVE  Mirrors(table', meant')
<1> DEFINE left == {f \in table : f.cookie # OPS_FPA_ROUTE_IPV4_COOKIE(addr, len)}
<1>1. Mirrors(left, Without(addr, len))
  BY DropMirrors DEF RouteInv, Without
<1>2. ops_fpa_route_del_route(addr, len) = {left}
  BY DEF ops_fpa_route_del_route
<1>3. \A f \in left : f.cookie # OPS_FPA_ROUTE_IPV4_COOKIE(addr, len)
  OBVIOUS
<1> HIDE DEF left
<1>4. CASE table' = left /\ meant' = Without(addr, len)
  BY <1>1, <1>4
<1>5. ASSUME NEW mask \in Masks(len),
             table' = FlowEntryAdd(left, Entry(addr, len, to, mask)),
             meant' = With(addr, len, to)
      PROVE  Mirrors(table', meant')
  <2>1. {r \in Without(addr, len) : <<r.addr, r.len>> # <<addr, len>>} = Without(addr, len)
    BY DEF Without
  <2> QED
    BY <1>1, <1>3, <1>5, <2>1, AddMirrors DEF With
<1> QED
  BY <1>2, <1>4, <1>5 DEF Replace

(* So does every step.                                                     *)
LEMMA NextRouteInv ==
  ASSUME "del" \notin Faults, RouteInv, [Next]_vars
  PROVE  RouteInv'
<1>1. ASSUME NEW t \in Text, NEW g \in Group, add_l3_host_entry(t, g)
      PROVE  RouteInv'
  <2>1. /\ t.addr \in Address /\ Bits \in Length /\ Proper(t.addr, Bits)
        /\ g \in Target
    BY <1>1, Parsed DEF add_l3_host_entry, Target
  <2>2. PICK mask \in Masks(Bits) :
          table' = FlowEntryAdd(table, Entry(t.addr, Bits, g, mask))
    BY <1>1 DEF add_l3_host_entry
  <2>3. Masks(Bits) = {mask}
    BY <2>2, LengthType, SMTT(30) DEF Masks
  <2>4. ASSUME NEW f \in table, f.cookie = OPS_FPA_ROUTE_IPV4_COOKIE(t.addr, Bits)
        PROVE  f.mask = mask
    <3>1. PICK r \in meant : Carries(f, r)
      BY DEF RouteInv, Mirrors
    <3>2. r.len \in Length
      BY DEF RouteInv, Mirrors, Route
    <3>3. OPS_FPA_ROUTE_IPV4_COOKIE(r.addr, r.len)
            = OPS_FPA_ROUTE_IPV4_COOKIE(t.addr, Bits)
      BY <2>4, <3>1 DEF Carries
    <3>4. r.len = Bits
      BY <2>1, <3>2, <3>3, CookieTellsRoute
    <3> QED
      BY <2>3, <3>1, <3>4 DEF Carries
  <2>5. Mirrors(table', meant')
    BY <1>1, <2>1, <2>2, <2>4, AddMirrors DEF RouteInv, add_l3_host_entry, With, Without
  <2>6. hosts' \in SUBSET [ip : Address, group : Group]
    BY <1>1, <2>1 DEF add_l3_host_entry, RouteInv, TypeOK
  <2> QED
    BY <2>5, <2>6 DEF RouteInv, TypeOK, Mirrors
<1>2. ASSUME NEW t \in Text, delete_l3_host_entry(t)
      PROVE  RouteInv'
  <2>1. t.addr \in Address /\ Bits \in Length
    BY <1>2, Parsed DEF delete_l3_host_entry
  <2>2. Mirrors(table', meant')
    BY <1>2, <2>1, DropMirrors
       DEF RouteInv, delete_l3_host_entry, ops_fpa_route_del_route, Without
  <2>3. hosts' \in SUBSET [ip : Address, group : Group]
    BY <1>2 DEF delete_l3_host_entry, RouteInv, TypeOK
  <2> QED
    BY <2>2, <2>3 DEF RouteInv, TypeOK, Mirrors
<1>3. ASSUME NEW t \in Text, NEW hop \in Text, RouteAdd(t, hop)
      PROVE  RouteInv'
  <2>1. PICK h \in hosts : Replace(t.addr, LenOf(t), h.group)
    BY <1>3 DEF RouteAdd
  <2>2. h.group \in Target
    BY DEF RouteInv, TypeOK, Target
  <2>3. Mirrors(table', meant') /\ hosts' = hosts
    BY <1>3, <2>1, <2>2, Parsed, ReplaceMirrors DEF RouteAdd
  <2> QED
    BY <2>3 DEF RouteInv, TypeOK, Mirrors
<1>4. ASSUME NEW t \in Text, RouteTrap(t)
      PROVE  RouteInv'
  <2>1. Mirrors(table', meant') /\ hosts' = hosts
    BY <1>4, Parsed, ReplaceMirrors DEF RouteTrap, Target
  <2> QED
    BY <2>1 DEF RouteInv, TypeOK, Mirrors
<1>5. ASSUME NEW t \in Text, RouteDelete(t)
      PROVE  RouteInv'
  <2>1. Mirrors(table', meant') /\ hosts' = hosts
    BY <1>5, Parsed, DropMirrors
       DEF RouteInv, RouteDelete, ops_fpa_route_del_route, Without
  <2> QED
    BY <2>1 DEF RouteInv, TypeOK, Mirrors
<1>6. CASE UNCHANGED vars
  BY <1>6 DEF vars, RouteInv, TypeOK
<1> QED
  BY <1>1, <1>2, <1>3, <1>4, <1>5, <1>6 DEF Next

-----------------------------------------------------------------------------
(* What is left when deletions fail: flows of old routes stay, and every   *)
(* route asked for still has a flow of its own.                            *)
Held(tbl, routes) ==
  /\ tbl \in SUBSET FlowEntry /\ routes \in SUBSET Route
  /\ \A r \in routes : Proper(r.addr, r.len) /\ \E e \in tbl : Carries(e, r)

HeldInv == hosts \in SUBSET [ip : Address, group : Group] /\ Held(table, meant)

(* Deleting a route, even if it fails, keeps the flows of all others.      *)
LEMMA DropHeld ==
  ASSUME NEW addr \in Address, NEW len \in Length, Held(table, meant),
         NEW left \in ops_fpa_route_del_route(addr, len)
  PROVE  Held(left, Without(addr, len))
<1>1. left \subseteq table /\ Without(addr, len) \subseteq meant
  BY DEF ops_fpa_route_del_route, Without
<1>2. ASSUME NEW r \in Without(addr, len), NEW e \in table, Carries(e, r)
      PROVE  e \in left
  <2>1. r.len \in Length /\ ~(r.addr = addr /\ r.len = len)
    BY DEF Held, Route, Without
  <2>2. e.cookie # OPS_FPA_ROUTE_IPV4_COOKIE(addr, len)
    BY <1>2, <2>1, CookieTellsRoute DEF Carries
  <2> QED
    BY <2>2 DEF ops_fpa_route_del_route
<1> QED
  BY <1>1, <1>2 DEF Held

(* Adding a route where there is none keeps the flows of all others.       *)
LEMMA AddHeld ==
  ASSUME NEW tbl, NEW routes, NEW addr \in Address, NEW len \in Length,
         Proper(addr, len), NEW to \in Target, NEW mask \in Masks(len),
         Held(tbl, routes), \A r \in routes : ~(r.addr = addr /\ r.len = len)
  PROVE  Held(FlowEntryAdd(tbl, Entry(addr, len, to, mask)),
              routes \cup {[addr |-> addr, len |-> len, to |-> to]})
<1> DEFINE e0 == Entry(addr, len, to, mask)
           r0 == [addr |-> addr, len |-> len, to |-> to]
           left == {f \in tbl : <<f.dst, f.mask>> # <<addr, mask>>}
<1>1. /\ r0 \in Route /\ r0.addr = addr /\ r0.len = len /\ r0.to = to
  BY DEF Route
<1>2. mask \in Address
  BY DEF Masks, Address
<1>3. /\ e0 \in FlowEntry /\ e0.dst = addr /\ e0.mask = mask
      /\ e0.cookie = OPS_FPA_ROUTE_IPV4_COOKIE(addr, len) /\ e0.to = to
  BY <1>2, CookieTellsRoute DEF Entry, FlowEntry
<1>4. Carries(e0, r0)
  BY <1>1, <1>3 DEF Carries
<1>5. FlowEntryAdd(tbl, e0) = left \cup {e0} /\ left \subseteq tbl
  BY <1>3 DEF FlowEntryAdd
<1>6. ASSUME NEW r \in routes, NEW e \in tbl, Carries(e, r)
      PROVE  e \in left
  <2>1. r.len \in Length /\ Proper(r.addr, r.len)
    BY DEF Held, Route
  <2>2. SUFFICES ASSUME e.dst = addr, e.mask = mask
                 PROVE  FALSE
    OBVIOUS
  <2>3. r.addr = addr /\ mask \in Masks(r.len)
    BY <1>6, <2>2 DEF Carries
  <2>4. r.len = len
    BY <2>1, <2>3, MatchTellsRoute
  <2> QED
    BY <2>3, <2>4
<1> HIDE DEF left, e0, r0
<1>7. Held(left \cup {e0}, routes \cup {r0})
  BY <1>1, <1>3, <1>4, <1>5, <1>6 DEF Held
<1> QED
  BY <1>5, <1>7 DEF e0, r0

(* Every step keeps a flow for every route, whichever calls fail.          *)
LEMMA HeldInductive ==
  ASSUME HeldInv, [Next]_vars
  PROVE  HeldInv'
<1>0. Held(table, meant) /\ hosts \in SUBSET [ip : Address, group : Group]
  BY DEF HeldInv
<1>1. ASSUME NEW addr \in Address, NEW len \in Length
      PROVE  \A r \in Without(addr, len) : ~(r.addr = addr /\ r.len = len)
  BY DEF Without
<1>2. ASSUME NEW addr \in Address, NEW len \in Length, Proper(addr, len),
             NEW to \in Target, Replace(addr, len, to)
      PROVE  Held(table', meant')
  <2>1. PICK left \in ops_fpa_route_del_route(addr, len) :
          \/ /\ \E mask \in Masks(len) :
                  table' = FlowEntryAdd(left, Entry(addr, len, to, mask))
             /\ meant' = With(addr, len, to)
          \/ table' = left /\ meant' = Without(addr, len)
    BY <1>2 DEF Replace
  <2>2. Held(left, Without(addr, len))
    BY <1>0, DropHeld
  <2> QED
    BY <1>1, <1>2, <2>1, <2>2, AddHeld DEF With
<1>3. ASSUME NEW t \in Text, NEW g \in Group, add_l3_host_entry(t, g)
      PROVE  HeldInv'
  <2>1. /\ t.addr \in Address /\ Bits \in Length /\ Proper(t.addr, Bits)
        /\ g \in Target
    BY <1>3, Parsed DEF add_l3_host_entry, Target
  <2>2. PICK mask \in Masks(Bits) :
          table' = FlowEntryAdd(table, Entry(t.addr, Bits, g, mask))
    BY <1>3 DEF add_l3_host_entry
  <2>3. Held(table, Without(t.addr, Bits))
    BY <1>0 DEF Held, Without
  <2>4. Held(table', meant')
    BY <1>1, <1>3, <2>1, <2>2, <2>3, AddHeld DEF add_l3_host_entry, With
  <2>5. hosts' \in SUBSET [ip : Address, group : Group]
    BY <1>0, <1>3, <2>1 DEF add_l3_host_entry
  <2> QED
    BY <2>4, <2>5 DEF HeldInv
<1>4. ASSUME NEW t \in Text, delete_l3_host_entry(t)
      PROVE  HeldInv'
  BY <1>0, <1>4, Parsed, DropHeld DEF HeldInv, delete_l3_host_entry
<1>5. ASSUME NEW t \in Text, NEW hop \in Text, RouteAdd(t, hop)
      PROVE  HeldInv'
  <2>1. PICK h \in hosts : Replace(t.addr, LenOf(t), h.group)
    BY <1>5 DEF RouteAdd
  <2>2. h.group \in Target
    BY <1>0 DEF Target
  <2> QED
    BY <1>0, <1>2, <1>5, <2>1, <2>2, Parsed DEF HeldInv, RouteAdd
<1>6. ASSUME NEW t \in Text, RouteTrap(t)
      PROVE  HeldInv'
  BY <1>0, <1>2, <1>6, Parsed DEF HeldInv, RouteTrap, Target
<1>7. ASSUME NEW t \in Text, RouteDelete(t)
      PROVE  HeldInv'
  BY <1>0, <1>7, Parsed, DropHeld DEF HeldInv, RouteDelete
<1>8. CASE UNCHANGED vars
  BY <1>0, <1>8 DEF vars, HeldInv
<1> QED
  BY <1>3, <1>4, <1>5, <1>6, <1>7, <1>8 DEF Next

(* There is a flow for every route at all times.                           *)
LEMMA HeldInvariant == Spec => []HeldInv
<1>1. Init => HeldInv
  BY DEF Init, HeldInv, Held
<1>2. HeldInv /\ [Next]_vars => HeldInv'
  BY HeldInductive
<1> QED
  BY <1>1, <1>2, PTL DEF Spec

-----------------------------------------------------------------------------
(* For whole octets a flow matches the addresses that its route covers,    *)
(* and the flow of a longer route is the more specific one.                *)
LEMMA CarriesAligned ==
  ASSUME NEW e, NEW r \in Route, Carries(e, r), NEW f, NEW s \in Route, Carries(f, s),
         Aligned(r.len), Aligned(s.len)
  PROVE  /\ \A a : Matches(e, a) <=> Covers(r, a)
         /\ f.mask \subseteq e.mask <=> s.len <= r.len
<1>1. PICK n \in 1 .. Octets : r.len = n * W
  BY DEF Aligned
<1>2. PICK m \in 1 .. Octets : s.len = m * W
  BY DEF Aligned
<1>3. /\ e.mask = NetworkBits(r.len) /\ e.mask = {b \in Bit : b[1] < n}
      /\ f.mask = {b \in Bit : b[1] < m}
  BY <1>1, <1>2, AlignedMask DEF Carries
<1>4. \A a : Matches(e, a) <=> Covers(r, a)
  BY <1>3 DEF Carries, Matches, Covers
<1>5. W \in Nat \ {0} /\ Octets \in Nat /\ n \in Nat /\ m \in Nat
  BY RouteAssumption
<1>6. f.mask \subseteq e.mask <=> m <= n
  <2>1. ASSUME m <= n PROVE f.mask \subseteq e.mask
    BY <1>3, <1>5, <2>1 DEF Bit
  <2>2. ASSUME ~(m <= n) PROVE ~(f.mask \subseteq e.mask)
    <3>1. <<n, 0>> \in Bit
      BY <1>1, <1>2, <1>5, <2>2 DEF Bit
    <3> QED
      BY <1>3, <1>5, <2>2, <3>1
  <2> QED
    BY <2>1, <2>2
<1>7. s.len <= r.len <=> m <= n
  <2>1. (W * n + 0 < W * m) <=> n < m
    BY <1>5, ByteBelow
  <2>2. W * n = n * W /\ W * m = m * W /\ W * n \in Nat /\ W * m \in Nat
    BY <1>5
  <2> QED
    BY <1>1, <1>2, <1>5, <2>1, <2>2
<1> QED
  BY <1>4, <1>6, <1>7

(* Flows in accord with the routes forward by longest prefix.              *)
LEMMA InvForwards == RouteInv => ForwardsByLongestPrefix
<1> SUFFICES ASSUME RouteInv, \A r \in meant : Aligned(r.len), NEW a \in Address
             PROVE  {e.to : e \in Applies(a)} = {r.to : r \in Longest(a)}
  BY DEF ForwardsByLongestPrefix
<1>1. ASSUME NEW e \in table, NEW r \in meant, Carries(e, r),
             NEW f \in table, NEW s \in meant, Carries(f, s)
      PROVE  /\ Matches(e, a) <=> Covers(r, a)
             /\ f.mask \subseteq e.mask <=> s.len <= r.len
  <2>1. r \in Route /\ s \in Route
    BY DEF RouteInv, Mirrors
  <2> QED
    BY <1>1, <2>1, CarriesAligned
<1>2. ASSUME NEW e \in Applies(a) PROVE \E r \in Longest(a) : e.to = r.to
  <2>1. e \in table
    BY DEF Applies
  <2>2. PICK r \in meant : Carries(e, r)
    BY <2>1 DEF RouteInv, Mirrors
  <2>3. Covers(r, a)
    BY <1>1, <2>1, <2>2 DEF Applies
  <2>4. ASSUME NEW s \in meant, Covers(s, a) PROVE s.len <= r.len
    <3>1. PICK f \in table : Carries(f, s)
      BY DEF RouteInv, Mirrors
    <3>2. Matches(f, a)
      BY <1>1, <2>4, <3>1
    <3>3. f.mask \subseteq e.mask
      BY <3>2 DEF Applies
    <3> QED
      BY <1>1, <2>1, <2>2, <3>1, <3>3
  <2> QED
    BY <2>2, <2>3, <2>4 DEF Longest, Carries
<1>3. ASSUME NEW r \in Longest(a) PROVE \E e \in Applies(a) : e.to = r.to
  <2>1. r \in meant
    BY DEF Longest
  <2>2. PICK e \in table : Carries(e, r)
    BY <2>1 DEF RouteInv, Mirrors
  <2>3. Matches(e, a)
    BY <1>1, <2>1, <2>2 DEF Longest
  <2>4. ASSUME NEW f \in table, Matches(f, a) PROVE f.mask \subseteq e.mask
    <3>1. PICK s \in meant : Carries(f, s)
      BY DEF RouteInv, Mirrors
    <3>2. Covers(s, a)
      BY <1>1, <2>4, <3>1
    <3>3. s.len <= r.len
      BY <3>2 DEF Longest
    <3> QED
      BY <1>1, <2>1, <2>2, <3>1, <3>3
  <2> QED
    BY <2>2, <2>3, <2>4 DEF Applies, Carries
<1> QED
  BY <1>2, <1>3

(* A flow of a route of whole octets is shown as that route.               *)
LEMMA InvShown == HeldInv => ShownAsConfigured
<1> SUFFICES ASSUME HeldInv, NEW r \in meant, Aligned(r.len)
             PROVE  \E e \in table : /\ e.dst = r.addr /\ e.to = r.to
                                     /\ ops_fpa_ip4mask_to_prefix_len(e.mask) = r.len
  BY DEF ShownAsConfigured
<1>1. PICK e \in table : Carries(e, r)
  BY DEF HeldInv, Held
<1>2. PICK n \in 1 .. Octets : r.len = n * W
  BY DEF Aligned
<1>3. e.mask = {b \in Bit : b[1] < n}
  BY <1>1, <1>2, AlignedMask DEF Carries
<1>4. W \in Nat \ {0} /\ Octets \in Nat /\ n \in Nat /\ n >= 1 /\ n <= Octets
  BY RouteAssumption
<1> DEFINE place(b) == W * (Octets - 1 - b[1]) + b[2]
           at == {place(b) : b \in e.mask}
           least == W * (Octets - n)
<1>5. <<n - 1, 0>> \in e.mask /\ place(<<n - 1, 0>>) = least
  BY <1>3, <1>4 DEF Bit
<1>6. ASSUME NEW b \in e.mask PROVE least <= place(b) /\ place(b) \in Int
  <2>1. b[1] \in Nat /\ b[1] < n /\ b[2] \in 0 .. W - 1
    BY <1>3, <1>4 DEF Bit
  <2>2. PICK d \in Nat : b[1] + 1 + d = n
    <3>1. n - 1 - b[1] \in Nat /\ b[1] + 1 + (n - 1 - b[1]) = n
      BY <1>4, <2>1
    <3> QED
      BY <3>1
  <2>3. Octets - 1 - b[1] = (Octets - n) + d
    BY <1>4, <2>1, <2>2
  <2>4. W * ((Octets - n) + d) = W * (Octets - n) + W * d
    BY <1>4, <2>2
  <2>5. W * d \in Nat /\ W * (Octets - n) \in Nat
    BY <1>4, <2>2
  <2> QED
    BY <1>4, <2>1, <2>3, <2>4, <2>5
<1>7. least \in at /\ least \in Int /\ at \subseteq Int
  BY <1>4, <1>5, <1>6
<1>8. \A k \in at : least <= k
  BY <1>6
<1>9. (CHOOSE i \in at : \A k \in at : i <= k) = least
  <2> HIDE DEF at, least
  <2> DEFINE min == CHOOSE i \in at : \A k \in at : i <= k
  <2>1. min \in at /\ \A k \in at : min <= k
    BY <1>7, <1>8, Zenon
  <2> HIDE DEF min
  <2>2. min = least
    BY <1>7, <1>8, <2>1
  <2> QED
    BY <2>2 DEF min
<1>10. Bits - least = n * W
  BY <1>4 DEF Bits
<1>11. ops_fpa_ip4mask_to_prefix_len(e.mask) = n * W
  <2>1. e.mask # {}
    BY <1>5
  <2>2. ops_fpa_ip4mask_to_prefix_len(e.mask)
          = Bits - (CHOOSE i \in at : \A k \in at : i <= k)
    BY <2>1 DEF ops_fpa_ip4mask_to_prefix_len
  <2> QED
    BY <1>9, <1>10, <2>2, Zenon
<1> QED
  BY <1>1, <1>2, <1>11 DEF Carries

(* Flows and routes are in accord at all times.                            *)
LEMMA RouteInvariant == ASSUME "del" \notin Faults PROVE Spec => []RouteInv
<1>1. RouteInv /\ [Next]_vars => RouteInv'
  BY NextRouteInv
<1> QED
  BY <1>1, InitRouteInv, PTL DEF Spec

(* The ASIC forwards by the longest prefix of whole octets                 *)
(* (l3_route_action, ops_fpa_route_add_route, ops_fpa_route_del_route).    *)
THEOREM LongestPrefixForwards ==
  ASSUME "del" \notin Faults PROVE Spec => []ForwardsByLongestPrefix
BY RouteInvariant, InvForwards, PTL

(* A route of whole octets is shown with its own length, and where it      *)
(* leads, whichever calls fail: a deletion that fails leaves the flow of an*)
(* old route, and never hides that of a new one                            *)
(* (ops_fpa_ip4mask_to_prefix_len).                                        *)
THEOREM RoutesAreShown == Spec => []ShownAsConfigured
BY HeldInvariant, InvShown, PTL

(* What l3_route_action and the host entries write are well-formed flows,  *)
(* with a length that fits its part of the cookie, whichever calls fail.   *)
THEOREM RouteTypes == Spec => []TypeOK
<1>1. HeldInv => TypeOK
  BY DEF HeldInv, Held, TypeOK
<1> QED
  BY <1>1, HeldInvariant, PTL

=============================================================================
