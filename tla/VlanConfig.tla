------------------------------ MODULE VlanConfig ------------------------------
(***************************************************************************)
(* VLAN membership of L2 ports: the L2 branch of ops_fpa_ofproto_bundle_set*)
(* and ops_fpa_ofproto_set_vlan (ops-fpa-ofproto.c) over the ASIC tables   *)
(* that ops-fpa-vlan.c writes.                                             *)
(*                                                                         *)
(* A port's membership is a set of extended VLAN ids (VIDX, ops-fpa-vlan.h)*)
(* with NVid for the 2^12 of the code: an ingress VIDX is a flow of the    *)
(* VLAN table, an egress VIDX is an L2 interface group.  A port configured *)
(* in a VLAN that is shut down keeps the VIDX in port->vmap (pending).     *)
(* A bundle names a port id, and both handlers act on whichever port the   *)
(* map ports_by_pid gives for that id (PortChains).                        *)
(* All of this runs in the main thread.                                    *)
(***************************************************************************)
EXTENDS PortChains, Functions

CONSTANTS
  Port,      \* port ids (netdev_get_ifindex)
  OfpPort,   \* port->up.ofp_port of each port
  NVid,      \* number of VLAN ids: VIDs are 0 .. NVid - 1
  Vid,       \* the VIDs the configuration uses
  Setting,   \* ofproto_bundle_settings: vlan_mode, vlan and trunks
  Routed,    \* the VIDs with a VLAN interface that routes to hosts
  MaxFail,   \* bound: FPA calls that may fail in one operation
  MaxNodes,  \* bound: nodes that ports_by_pid counts
  Replaces   \* FPA: adding a group that exists replaces its bucket

ASSUME VlanAssumption ==
  /\ Port \subseteq Nat /\ IsFiniteSet(Port)
  /\ OfpPort \in [Port -> Nat]
  /\ MaxFail \in Nat /\ MaxNodes \in Nat
  /\ NVid \in Nat \ {0} /\ Routed \subseteq Vid /\ Vid \subseteq 0 .. NVid - 1
  /\ Setting \subseteq
       [mode : {"access", "trunk", "native_tagged", "native_untagged"},
        vlan : Vid, trunks : SUBSET Vid]

(* As many nodes as BucketCount allows for.                                *)
ASSUME NodesAssumption == MaxNodes < 131072

(* Mutant: the TAGGED bit is shifted too far.                              *)
IngressShifted(vid, tagged) == (IF tagged THEN 4 * NVid ELSE 0) + vid

(* OPS_FPA_VIDX_INGRESS, OPS_FPA_VIDX_EGRESS and their parts.              *)
INGRESS(vid, tagged) == (IF tagged THEN NVid ELSE 0) + vid
EGRESS(vid, poptag) == 2 * NVid + (IF poptag THEN NVid ELSE 0) + vid
VID(vidx) == vidx % NVid
IS_EGRESS(vidx) == vidx \div (2 * NVid) = 1
ARG(vidx) == (vidx \div NVid) % 2 = 1

Vidx == 0 .. 4 * NVid - 1

VARIABLES
  map,      \* ports_by_pid
  known,    \* history: the ports inserted in it
  again,    \* history: a port was inserted that was in it already
  crashed,  \* bundle_set used the NULL of a look-up
  vlans,    \* this->vlans: the VLANs in 'no shutdown' state
  bundles,  \* ports that have a bundle
  vmap,     \* port->vmap: VIDXs not applied to the ASIC
  hw,       \* the flows and groups of each port in the ASIC
  want,     \* history: the VIDXs of the last settings of a clean port
  clean,    \* history: ports that some bundle finds and whose last settings
            \*   met no failed FPA call and no remains of a VLAN that is down
  plain     \* history: those of them whose last settings did not clash with
            \*   the ones before

maps == <<map, known, again, crashed>>
history == <<want, clean, plain>>
vars == <<maps, vlans, bundles, vmap, hw, history>>

(* ops_fpa_get_ofport_by_pid, and the ports that set_vlan gets to.         *)
Lookup(pid) == hmap_first_in_bucket(map, pid)

Visited(m, pids) == {hmap_first_in_bucket(m, p) : p \in pids} \ {NULL}

TypeOK ==
  /\ map.mask \in Nat /\ map \in Maps(Port, map.mask)
  /\ vlans \in SUBSET Vid
  /\ bundles \in SUBSET known /\ known \in SUBSET Port
  /\ clean \in SUBSET Visited(map, bundles) /\ plain \in SUBSET clean
  /\ again \in BOOLEAN /\ crashed \in BOOLEAN
  /\ vmap \in [Port -> SUBSET Vidx]
  /\ hw \in [Port -> SUBSET Vidx]
  /\ want \in [Port -> SUBSET Vidx]

Init ==
  /\ map = EmptyMap(Port) /\ known = {} /\ again = FALSE /\ crashed = FALSE
  /\ vlans = {} /\ bundles = {} /\ clean = {} /\ plain = {}
  /\ vmap = [p \in Port |-> {}]
  /\ hw = [p \in Port |-> {}]
  /\ want = [p \in Port |-> {}]

(* A port's history ends when its settings are disturbed, or when no bundle*)
(* finds it any more.                                                      *)
KeepHistory(kept, keptPlain, wanted) ==
  /\ clean' = kept \cap Visited(map', bundles')
  /\ plain' = keptPlain \cap clean'
  /\ want' = [p \in Port |-> IF p \in clean' THEN wanted[p] ELSE {}]

-----------------------------------------------------------------------------
(* FPA calls fail.  A flow or group that cannot be added or deleted stays  *)
(* as it is, and no result is looked at.                                   *)

(* The sets of at most n of the calls.                                     *)
Failures(calls, n) ==
  UNION {{Range(f) : f \in [1 .. k -> calls]} : k \in 0 .. n}

Groups(S) == {x \in S : IS_EGRESS(x)}

(* ops-fpa-vlan.c on the tables of the ASIC and the number pid, without the*)
(* groups in missed, whose buckets could not be read.                      *)
ops_fpa_vlan_fetch(asic, pid, missed) ==
  (IF pid \in Port THEN asic[pid] ELSE {}) \ missed

(* Now on the set S of one port's VIDXs in the ASIC.                       *)

(* A group is identified by port and VID, so a port has one egress VIDX    *)
(* per VID: a second one meets the group that exists.                      *)
SameGroup(S, vidx) == {x \in S : IS_EGRESS(x) /\ VID(x) = VID(vidx)}

ops_fpa_vlan_add(S, vidx) ==
  IF ~IS_EGRESS(vidx) \/ SameGroup(S, vidx) = {} THEN S \cup {vidx}
  ELSE IF Replaces THEN (S \ SameGroup(S, vidx)) \cup {vidx}
  ELSE S

(* Mutant: a tagged ingress flow is deleted with the cookie of an untagged *)
(* one.                                                                    *)
DelUntaggedCookie(S, vidx) ==
  IF IS_EGRESS(vidx) THEN S \ SameGroup(S, vidx)
  ELSE {x \in S : IS_EGRESS(x) \/ ARG(x)}

(* A group is deleted by its identifier, whatever it does with the tag; an *)
(* ingress flow by its cookie, which for an untagged one is the port only. *)
ops_fpa_vlan_del(S, vidx) ==
  IF IS_EGRESS(vidx) THEN S \ SameGroup(S, vidx)
  ELSE IF ARG(vidx) THEN S \ {vidx}
  ELSE {x \in S : IS_EGRESS(x) \/ ARG(x)}

(* BITMAP_FOR_EACH_1: VIDXs are added and deleted in ascending order.       *)
BitTurns(add, del) ==
  [i \in 1 .. 4 * NVid |-> [S \in SUBSET Vidx |->
     IF i - 1 \in add THEN ops_fpa_vlan_add(S, i - 1)
     ELSE IF i - 1 \in del THEN ops_fpa_vlan_del(S, i - 1)
     ELSE S]]

ForEachBit(S, add, del) == After(BitTurns(add, del), S, 4 * NVid)

-----------------------------------------------------------------------------
(* bundle_set: the VIDXs that settings ask for.                            *)
VNew(s) ==
  {INGRESS(v, TRUE) : v \in s.trunks} \cup {EGRESS(v, FALSE) : v \in s.trunks}
  \cup (IF s.mode = "trunk" THEN {}
        ELSE {INGRESS(s.vlan, FALSE),
              EGRESS(s.vlan, s.mode # "native_tagged")})

(* The difference vdiff between what was fetched and vnew is applied to S, *)
(* the state of the ASIC, in ascending order of VIDX and for VLANs that are*)
(* up.  The calls in failed have no effect, except that a group whose      *)
(* bucket cannot be added is deleted, one that was there before included:  *)
(* these are undone.                                                       *)
Diff(S, vnew) == (S \ vnew) \cup (vnew \ S)

ApplyDiff(S, vdiff, vnew, failed, undone) ==
  LET calls == {x \in vdiff : VID(x) \in vlans} \ failed
  IN  ForEachBit(S, calls \cap vnew, (calls \ vnew) \cup undone)

Pending(vnew) == {x \in vnew : VID(x) \notin vlans}

(* VIDXs that clash in the ASIC: both go by the identifier of one group, or*)
(* both by the cookie of the port's untagged flow.                         *)
Clash(S) ==
  \E x, y \in S :
    x # y /\ IF IS_EGRESS(x) THEN y \in SameGroup(S, x)
             ELSE ~IS_EGRESS(y) /\ ~ARG(x) /\ ~ARG(y)

(* Mutant: port->vmap is not cleared first.                                *)
SetPortKeepsPending(q, s) ==
  LET vnew == VNew(s)
      vdiff == Diff(ops_fpa_vlan_fetch(hw, q, {}), vnew)
      sound == \A x \in hw[q] : VID(x) \in vlans
  IN  /\ hw' = [hw EXCEPT ![q] = ApplyDiff(@, vdiff, vnew, {}, {})]
      /\ vmap' = [vmap EXCEPT ![q] = @ \cup Pending(vdiff \cap vnew)]
      /\ KeepHistory(IF sound THEN clean \cup {q} ELSE clean \ {q}, plain \ {q},
                     [want EXCEPT ![q] = vnew])

(* The L2 branch of bundle_set on the port q that the look-up gave.        *)
SetPort(q, s) ==
  \E vnew \in {VNew(s)}, missed \in Failures(Groups(hw[q]), MaxFail) :
  \E vdiff \in {Diff(ops_fpa_vlan_fetch(hw, q, missed), vnew)} :
  \E failed \in Failures({x \in vdiff : VID(x) \in vlans},
                         MaxFail - Cardinality(missed)) :
  \E undone \in SUBSET Groups(failed \cap vnew) :
    LET sound == /\ missed = {} /\ failed = {}
                 /\ \A x \in hw[q] : VID(x) \in vlans
        exact == sound /\ ~Clash(hw[q] \cup vnew)
    IN  /\ hw' = [hw EXCEPT ![q] = ApplyDiff(@, vdiff, vnew, failed, undone)]
        /\ vmap' = [vmap EXCEPT ![q] = Pending(vdiff \cap vnew)]
        /\ KeepHistory(IF sound THEN clean \cup {q} ELSE clean \ {q},
                       IF exact THEN plain \cup {q} ELSE plain \ {q},
                       [want EXCEPT ![q] = vnew])

(* Mutant: the port is entered in the map before every settings.           *)
InsertAlways(p) == hmap_insert(map, p)

(* A new bundle enters its port in the map, where it may be already.       *)
MapWith(p) == IF p \in bundles THEN map ELSE hmap_insert(map, p)

(* Settings for the bundle of port p, creating the bundle if needed.       *)
ops_fpa_ofproto_bundle_set(p, s) ==
  /\ ~crashed
  /\ p \in bundles \/ map.n < MaxNodes
  /\ map' = MapWith(p)
  /\ known' = known \cup {p}
  /\ again' = (again \/ (p \in known /\ p \notin bundles))
  /\ bundles' = bundles \cup {p}
  /\ UNCHANGED vlans
  /\ \E q \in {hmap_first_in_bucket(map', p)} :
       \/ /\ q = NULL
          /\ crashed' = TRUE
          /\ UNCHANGED <<vmap, hw>>
          /\ KeepHistory(clean, plain, want)
       \/ /\ q # NULL
          /\ SetPort(q, s)
          /\ UNCHANGED crashed

(* bundle_set(NULL): the ASIC, the port and the map keep what they have.   *)
ops_fpa_rm_bundle(p) ==
  /\ ~crashed
  /\ p \in bundles
  /\ bundles' = bundles \ {p}
  /\ UNCHANGED <<maps, vlans, vmap, hw>>
  /\ KeepHistory(clean, plain, want)

(* Mutant: what is brought up stays pending.                               *)
SetVlanUpKeepsPending(vid) ==
  LET of(p) == {x \in vmap[p] : VID(x) = vid}
      seen == Visited(map, bundles)
  IN  /\ hw' = [p \in Port |-> IF p \in seen THEN ForEachBit(hw[p], of(p), {})
                               ELSE hw[p]]
      /\ vlans' = vlans \cup {vid}
      /\ UNCHANGED <<maps, bundles, vmap, history>>

(* VLAN vid is brought up: pending VIDXs go to the ASIC, and are forgotten *)
(* even if that fails.  A port that several bundles find has none left when*)
(* it is visited again.                                                    *)
SetVlanUp(vid) ==
  LET of(p) == {x \in vmap[p] : VID(x) = vid}
      seen == Visited(map, bundles)
      calls == UNION {{p} \X of(p) : p \in seen}
  IN  \E failed \in Failures(calls, MaxFail) :
      \E undone \in SUBSET {c \in failed : IS_EGRESS(c[2])} :
        LET done(p) == {x \in of(p) : <<p, x>> \notin failed}
            gone(p) == {x \in of(p) : <<p, x>> \in undone}
            kept == {p \in clean : done(p) = of(p)}
        IN  /\ hw' = [p \in Port |->
                        IF p \in seen
                        THEN ForEachBit(hw[p], done(p), gone(p))
                        ELSE hw[p]]
            /\ vmap' = [p \in Port |-> IF p \in seen THEN vmap[p] \ of(p)
                                       ELSE vmap[p]]
            /\ vlans' = vlans \cup {vid}
            /\ UNCHANGED <<maps, bundles>>
            /\ KeepHistory(kept, plain, want)

(* VLAN vid is shut down: its VIDXs leave the ASIC and become pending.  The*)
(* bundles are visited in the order of their map; for each, the code       *)
(* fetches under port->up.ofp_port, not under the port id, and deletes     *)
(* under the port id.                                                      *)
Tables == [hw : [Port -> SUBSET Vidx], vmap : [Port -> SUBSET Vidx]]

Visit(t, q, vid, missed, failed) ==
  LET l2asic == {x \in ops_fpa_vlan_fetch(t.hw, OfpPort[q], missed) :
                   VID(x) = vid}
  IN  [hw |-> [t.hw EXCEPT ![q] = ForEachBit(@, {}, l2asic \ failed)],
       vmap |-> [t.vmap EXCEPT ![q] = @ \cup l2asic]]

VisitTurns(vid, order, missed, failed) ==
  [i \in DOMAIN order |-> [t \in Tables |->
     IF Lookup(order[i]) = NULL THEN t
     ELSE Visit(t, Lookup(order[i]), vid,
                {x \in Vidx : <<order[i], x>> \in missed},
                {x \in Vidx : <<order[i], x>> \in failed})]]

SetVlanDown(vid) ==
  LET n == Cardinality(bundles)
      found == {b \in bundles : Lookup(b) # NULL}
      of(b) == {x \in ops_fpa_vlan_fetch(hw, OfpPort[Lookup(b)], {}) :
                  VID(x) = vid}
      calls == UNION {{b} \X of(b) : b \in found}
      reads == {c \in calls : IS_EGRESS(c[2])}
  IN  \E order \in Bijection(1 .. n, bundles) :
      \E missed \in Failures(reads, MaxFail) :
      \E failed \in Failures(calls, MaxFail - Cardinality(missed)) :
      \E t \in {After(VisitTurns(vid, order, missed, failed),
                      [hw |-> hw, vmap |-> vmap], n)} :
        LET hit == {Lookup(c[1]) : c \in missed \cup failed}
        IN  /\ hw' = t.hw /\ vmap' = t.vmap
            /\ vlans' = vlans \ {vid}
            /\ UNCHANGED <<maps, bundles>>
            /\ KeepHistory(clean \ hit, plain, want)

ops_fpa_ofproto_set_vlan(vid, add) ==
  /\ ~crashed
  /\ IF add THEN SetVlanUp(vid) ELSE SetVlanDown(vid)

(* A host of a VLAN interface uses the group of port p and the VLAN, which *)
(* is the one of the membership: add_l3_host_entry adds it, and deletes it *)
(* again when a later call fails; delete_l3_host_entry deletes it.         *)
ops_fpa_l3_host_group(p, vid, kept) ==
  LET vidx == EGRESS(vid, FALSE)
  IN  /\ ~crashed
      /\ hw' = [hw EXCEPT ![p] = IF kept THEN ops_fpa_vlan_add(@, vidx)
                                 ELSE ops_fpa_vlan_del(@, vidx)]
      /\ UNCHANGED <<maps, vlans, bundles, vmap>>
      /\ KeepHistory(clean \ {p}, plain, want)

Next ==
  \/ \E p \in Port, s \in Setting : ops_fpa_ofproto_bundle_set(p, s)
  \/ \E p \in Port : ops_fpa_rm_bundle(p)
  \/ \E vid \in Vid, add \in BOOLEAN : ops_fpa_ofproto_set_vlan(vid, add)
  \/ \E p \in Port, vid \in Routed, kept \in BOOLEAN :
       ops_fpa_l3_host_group(p, vid, kept)

Spec == Init /\ [][Next]_vars

-----------------------------------------------------------------------------
(* Properties.                                                             *)

(* As long as no bundle is set up again for a port whose bundle was        *)
(* removed, the look-up of a port id is as the set of the known ports says:*)
(* some port of the bucket if there is one, so that bundle_set always has a*)
(* port to work on, and NULL otherwise.  hmap_insert links the port's node *)
(* into a list and every resize walks the lists it replaces.               *)
LookupAgrees ==
  ~again =>
    /\ ~crashed
    /\ \A pid \in Port \cup {p + 1 : p \in Port} :
         IF KnownPort(known, pid)
         THEN Lookup(pid) \in ops_fpa_get_ofport_by_pid(known, pid)
         ELSE Lookup(pid) = NULL

(* The look-up for a bundle's port id gives the bundle's port, the one that*)
(* bundle_set entered under that id ("If the first port in the bundle has a*)
(* pid, add it to ports_by_pid").                                          *)
OwnPort == \A p \in bundles : Lookup(p) = p

Exact(p) ==
  /\ hw[p] = {x \in want[p] : VID(x) \in vlans}
  /\ vmap[p] = {x \in want[p] : VID(x) \notin vlans}

(* The ASIC holds exactly the configured VIDXs of the VLANs that are up and*)
(* port->vmap exactly those of the VLANs that are down, for every clean    *)
(* port whose settings do not clash with what was in the ASIC, whatever    *)
(* calls failed before: bundle_set works from the tables it fetches from   *)
(* the ASIC, so it repairs what earlier failures or an earlier bundle left *)
(* behind in VLANs that are up.                                            *)
PlainExact == \A p \in plain : Exact(p)

(* The same for every clean port: "VIDX bitmap (VMAP) allows us to process *)
(* any vlan mode changes in a uniform, bitwise manner".                    *)
HwExact == \A p \in clean : Exact(p)

(* A port never takes part, in the ASIC, in a VLAN that is shut down or    *)
(* that its settings do not name; bundle_set and set_vlan may lose a       *)
(* membership but do not leave one behind.                                 *)
NoForeignVlan ==
  \A p \in clean :
    hw[p] \subseteq {x \in want[p] : VID(x) \in vlans}

(* No port takes part, in the ASIC, in a VLAN that is not in the 'no       *)
(* shutdown' state: set_vlan takes the VLAN off every port.                *)
NoShutdownVlan == \A p \in Port : \A x \in hw[p] : VID(x) \in vlans

(* What is pending is configured and shut down, so that set_vlan, which    *)
(* adds it to the ASIC unseen, cannot revive old settings.                 *)
PendingIsConfigured ==
  \A p \in clean :
    vmap[p] \subseteq {x \in want[p] : VID(x) \notin vlans}

=============================================================================
