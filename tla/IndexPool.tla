------------------------------ MODULE IndexPool ------------------------------
(***************************************************************************)
(* What the ARP indices of ops-fpa-ofproto.c promise their users, with no  *)
(* word on the list that keeps them: an index is free, or held by one      *)
(* host, or leaked.  L3Hosts implements this pool with the array           *)
(* arp_indices.                                                            *)
(***************************************************************************)
CONSTANT Index

VARIABLES
  free,   \* the indices a host may get
  held    \* the indices of the hosts in host_table

Init == free = Index /\ held = {}

(* A host gets any free index.                                             *)
Take(i) ==
  /\ i \in free
  /\ free' = free \ {i}
  /\ held' = held \cup {i}

(* Adding the host failed after its index was taken.                       *)
Leak(i) ==
  /\ i \in free
  /\ free' = free \ {i}
  /\ UNCHANGED held

(* The host is deleted and its index is free again.                        *)
Return(i) ==
  /\ i \in held
  /\ held' = held \ {i}
  /\ free' = free \cup {i}

Next == \E i \in Index : Take(i) \/ Leak(i) \/ Return(i)

Spec == Init /\ [][Next]_<<free, held>>

=============================================================================
