---------------------------- MODULE MCMacLearning ----------------------------
(* MacLearning on small instances.                                         *)
EXTENDS MacLearning, TLC

CONSTANTS k1, k2, k3, a1, a2, a3

(* k1 has a slot of its own; k2 and k3, where the instance has both,       *)
(* collide.                                                                *)
SlotOf == [k \in Key |-> IF k = k1 THEN 1 ELSE 2]

(* The keys that collide are interchangeable, and so are the addresses.    *)
KeyAddrSymmetry == Permutations(Addr) \cup Permutations({k2, k3})

=============================================================================
