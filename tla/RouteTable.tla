----------------------------- MODULE RouteTable -----------------------------
(***************************************************************************)
(* The routes in the ASIC's L3 unicast table: how prefixes are parsed,     *)
(* turned into a match and a cookie, added, replaced, deleted and shown    *)
(* (l3_route_action, ops-fpa-route.c, the conversions of ops-fpa.c).       *)
(* Hosts have routes of full length in the same table.  What a route leads *)
(* to, and how long that lives, is the subject of L3Hosts.                 *)
(*                                                                         *)
(* A 32-bit value is the set of its bits that are set, so that "&" is      *)
(* intersection.  A bit is <<k, j>>: bit j, counted from the least         *)
(* significant one, of byte k of the value.  inet_addr returns the address *)
(* in network order, so on the little-endian hosts the plugin is built for *)
(* its first octet is byte 0, the least significant one.                   *)
(***************************************************************************)
EXTENDS Integers

CONSTANTS
  Octets, W,  \* 4 and 8: an address is Octets bytes of W bits
  LenMod,     \* 2^8: the part of a cookie that holds the length
  Text,       \* prefixes as OVS gives them: what inet_addr makes of the part
              \* before the slash, if there is a slash, and the number after it
  Group,      \* L3 groups
  Faults      \* the calls that may fail: "add", "del"

Bits == Octets * W
Bit == (0 .. Octets - 1) \X (0 .. W - 1)
Address == SUBSET Bit
Length == 0 .. Bits

(* The bits that a prefix length stands for: octets in order, and the most *)
(* significant bits of an octet first.                                     *)
NetworkBits(len) == {b \in Bit : W * b[1] + (W - 1 - b[2]) < len}

(* A prefix has no bits beyond its length, and 0.0.0.0 is no destination.  *)
ASSUME RouteAssumption ==
  /\ Octets \in Nat \ {0} /\ W \in Nat \ {0}
  /\ LenMod \in Nat /\ LenMod > Bits
  /\ Text \subseteq [addr : Address, slash : BOOLEAN, len : Nat]
  /\ \A t \in Text :
       /\ t.slash /\ t.addr # Bit => t.addr \subseteq NetworkBits(t.len)
       /\ t.addr = {} => t.slash /\ t.len # Bits
  /\ "controller" \notin Group

VARIABLES
  hosts,  \* host_table: addresses and the L3 groups that lead to them
  table,  \* L3 unicast flows in the ASIC
  meant   \* history: the routes that the calls so far ask for

vars == <<hosts, table, meant>>

Target == Group \cup {"controller"}
Route == [addr : Address, len : Length, to : Target]
FlowEntry == [cookie : Address \X (0 .. LenMod - 1), dst : Address,
              mask : Address, to : Target]

TypeOK ==
  /\ hosts \in SUBSET [ip : Address, group : Group]
  /\ table \in SUBSET FlowEntry
  /\ meant \in SUBSET Route

Init == hosts = {} /\ table = {} /\ meant = {}

-----------------------------------------------------------------------------
(* Conversions.                                                            *)

LenOf(t) == IF t.slash THEN t.len ELSE Bits

(* Mutant: the length is not checked.                                      *)
AnyLength(t) == t.addr # Bit

(* ops_fpa_str2ip: a length that is missing is the full one, and one that  *)
(* is too long is refused, as is what is no number.  inet_addr returns -1, *)
(* all bits, for what is no address, and for 255.255.255.255.              *)
ops_fpa_str2ip(t) == LenOf(t) <= Bits /\ t.addr # Bit

(* Mutant: the length is not part of the cookie.                           *)
CookieOfAddress(addr, len) == <<addr, 0>>

OPS_FPA_ROUTE_IPV4_COOKIE(addr, len) == <<addr, len % LenMod>>

(* 0xffffffff >> (32 - mask_len), the low bits of the value.  A shift by   *)
(* 32 bits is undefined: machines shift by 0 bits or shift all bits out.   *)
Masks(len) ==
  IF len = 0 THEN {{}, Bit} ELSE {{b \in Bit : W * b[1] + b[2] < len}}

(* The length shown for a mask: 33 - ffs(htonl(mask)), 0 if no bit is set. *)
ops_fpa_ip4mask_to_prefix_len(mask) ==
  LET at == {W * (Octets - 1 - b[1]) + b[2] : b \in mask}
  IN  IF mask = {} THEN 0 ELSE Bits - (CHOOSE i \in at : \A k \in at : i <= k)

-----------------------------------------------------------------------------
(* The ASIC.  A flow replaces one with the same match; of the flows that   *)
(* match an address the most specific one applies.                         *)
FlowEntryAdd(tbl, e) == {f \in tbl : <<f.dst, f.mask>> # <<e.dst, e.mask>>} \cup {e}

Matches(e, a) == a \cap e.mask = e.dst \cap e.mask
Applies(a) ==
  {e \in table : /\ Matches(e, a)
                 /\ \A f \in table : Matches(f, a) => f.mask \subseteq e.mask}

-----------------------------------------------------------------------------
Entry(addr, len, to, mask) ==
  [cookie |-> OPS_FPA_ROUTE_IPV4_COOKIE(addr, len), dst |-> addr,
   mask |-> mask, to |-> to]

(* Mutant: the cookie is built without the length.                         *)
DelWithoutLength(addr, len) ==
  {{f \in table : f.cookie # OPS_FPA_ROUTE_IPV4_COOKIE(addr, 0)}}

(* ops_fpa_route_del_route, of which every caller ignores the result       *)
ops_fpa_route_del_route(addr, len) ==
  {{f \in table : f.cookie # OPS_FPA_ROUTE_IPV4_COOKIE(addr, len)}}
  \cup (IF "del" \in Faults THEN {table} ELSE {})

Without(addr, len) == {r \in meant : <<r.addr, r.len>> # <<addr, len>>}
With(addr, len, to) ==
  Without(addr, len) \cup {[addr |-> addr, len |-> len, to |-> to]}

(* A host is added with the L3 group g.  When its route cannot be added    *)
(* neither is the host.                                                    *)
add_l3_host_entry(t, g) ==
  /\ ops_fpa_str2ip(t) /\ LenOf(t) = Bits
  /\ \A h \in hosts : h.group # g
  /\ hosts' = hosts \cup {[ip |-> t.addr, group |-> g]}
  /\ \E mask \in Masks(Bits) :
       table' = FlowEntryAdd(table, Entry(t.addr, Bits, g, mask))
  /\ meant' = With(t.addr, Bits, g)

delete_l3_host_entry(t) ==
  /\ ops_fpa_str2ip(t) /\ LenOf(t) = Bits
  /\ \E h \in hosts : h.ip = t.addr /\ hosts' = hosts \ {h}
  /\ table' \in ops_fpa_route_del_route(t.addr, Bits)
  /\ meant' = Without(t.addr, Bits)

(* OFPROTO_ROUTE_ADD: the old route goes, and when the new one cannot be   *)
(* added there is none.                                                    *)
Replace(addr, len, to) ==
  \E left \in ops_fpa_route_del_route(addr, len) :
    \/ /\ \E mask \in Masks(len) :
            table' = FlowEntryAdd(left, Entry(addr, len, to, mask))
       /\ meant' = With(addr, len, to)
    \/ /\ "add" \in Faults
       /\ table' = left
       /\ meant' = Without(addr, len)

(* Through a next hop, of which the length is parsed and not looked at, or *)
(* to the CPU while that is not resolved.                                  *)
RouteAdd(t, hop) ==
  /\ ops_fpa_str2ip(t) /\ ops_fpa_str2ip(hop)
  /\ \E h \in hosts : h.ip = hop.addr /\ Replace(t.addr, LenOf(t), h.group)
  /\ UNCHANGED hosts

RouteTrap(t) ==
  /\ ops_fpa_str2ip(t)
  /\ Replace(t.addr, LenOf(t), "controller")
  /\ UNCHANGED hosts

RouteDelete(t) ==
  /\ ops_fpa_str2ip(t)
  /\ table' \in ops_fpa_route_del_route(t.addr, LenOf(t))
  /\ meant' = Without(t.addr, LenOf(t))
  /\ UNCHANGED hosts

Next ==
  \E t \in Text :
    \/ \E g \in Group : add_l3_host_entry(t, g)
    \/ delete_l3_host_entry(t)
    \/ \E hop \in Text : RouteAdd(t, hop)
    \/ RouteTrap(t)
    \/ RouteDelete(t)

Spec == Init /\ [][Next]_vars

-----------------------------------------------------------------------------
(* Properties.                                                             *)

Aligned(len) == \E n \in 1 .. Octets : len = n * W

(* The routes that longest-prefix match picks for an address.              *)
Covers(r, a) == a \cap NetworkBits(r.len) = r.addr \cap NetworkBits(r.len)
Longest(a) == {r \in meant : /\ Covers(r, a)
                             /\ \A s \in meant : Covers(s, a) => s.len <= r.len}

(* While the routes have whole octets as their prefixes, the ASIC sends    *)
(* every address where the longest prefix among the routes asked for       *)
(* sends it, whatever was added, replaced, refused and deleted before, and *)
(* whatever routes of other lengths came and went: the cookies of          *)
(* ops-fpa-route.c find the flow of a prefix and no other, and             *)
(* l3_route_action leaves no old flow behind.                              *)
ForwardsByLongestPrefix ==
  (\A r \in meant : Aligned(r.len)) =>
    \A a \in Address : {e.to : e \in Applies(a)} = {r.to : r \in Longest(a)}

(* Such a route is shown by fpa/dev/ft-show with its own length and where  *)
(* it leads: ops_fpa_ip4mask_to_prefix_len undoes ops_fpa_route_add_route. *)
ShownAsConfigured ==
  \A r \in meant : Aligned(r.len) =>
    \E e \in table : /\ e.dst = r.addr /\ e.to = r.to
                     /\ ops_fpa_ip4mask_to_prefix_len(e.mask) = r.len

=============================================================================
