----------------------------- MODULE PortChains -----------------------------
(***************************************************************************)
(* The map ports_by_pid once more, as the OVS hmap it is: an array of      *)
(* buckets, each the head of a list that runs through the ports' own hmap  *)
(* nodes.  PortMap says whether a look-up finds a port; which one it finds *)
(* depends on the order of the lists, and what becomes of a node that is   *)
(* inserted again while it is in a list depends on the links.              *)
(***************************************************************************)
EXTENDS PortMap, Loop

(* No port: port ids (netdev_get_ifindex) are natural numbers.             *)
NULL == -1

(* The maps of some ports with mask + 1 buckets.                           *)
Maps(ports, mask) ==
  [head : [0 .. mask -> ports \cup {NULL}], next : [ports -> ports \cup {NULL}],
   mask : {mask}, n : Nat]

Buckets(mask) == [b \in 0 .. mask |-> NULL]

(* The link of a node is written before it is read.                        *)
EmptyMap(ports) ==
  [head |-> Buckets(0), next |-> [p \in ports |-> NULL], mask |-> 0, n |-> 0]

(* The new node becomes the first of its bucket.                           *)
hmap_insert_fast(m, p) ==
  LET b == p % (m.mask + 1)
  IN  [head |-> [m.head EXCEPT ![b] = p], next |-> [m.next EXCEPT ![p] = m.head[b]],
       mask |-> m.mask, n |-> m.n + 1]

(* hmap_resize walks an old list, reading the link of a node before it     *)
(* inserts the node in the new buckets.  In a list that has become a cycle *)
(* it meets links it has just written, which lead it back to the start of  *)
(* the new list: no node is moved more than twice.                         *)
Walks(ports, mask) == [at : ports \cup {NULL}, map : Maps(ports, mask)]

MoveNode(w) ==
  IF w.at = NULL THEN w
  ELSE [at |-> w.map.next[w.at], map |-> hmap_insert_fast(w.map, w.at)]

MoveTurns(ports, mask, n) ==
  [i \in 1 .. n |-> [w \in Walks(ports, mask) |-> MoveNode(w)]]

MoveList(m, first, nodes) ==
  After(MoveTurns(DOMAIN m.next, m.mask, 2 * nodes), [at |-> first, map |-> m],
        2 * nodes).map

(* hmap_resize moves the lists of the old map one after the other.         *)
ListTurns(old, mask) ==
  [i \in 1 .. old.mask + 1 |->
     [m \in Maps(DOMAIN old.next, mask) |-> MoveList(m, old.head[i - 1], old.n)]]

hmap_expand(m) ==
  LET mask == BucketCount(m.n) - 1
      empty == [head |-> Buckets(mask), next |-> m.next, mask |-> mask, n |-> 0]
  IN  After(ListTurns(m, mask), empty, m.mask + 1)

hmap_insert(m, p) ==
  LET one == hmap_insert_fast(m, p)
  IN  IF one.n \div 2 > one.mask THEN hmap_expand(one) ELSE one

(* ops_fpa_get_ofport_by_pid: the first node of the bucket, whichever.     *)
hmap_first_in_bucket(m, pid) == m.head[pid % (m.mask + 1)]

=============================================================================
