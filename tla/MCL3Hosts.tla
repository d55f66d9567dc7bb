------------------------------ MODULE MCL3Hosts ------------------------------
(***************************************************************************)
(* Instances of L3Hosts for TLC.                                           *)
(***************************************************************************)
EXTENDS L3Hosts, TLC

CONSTANTS b1, b2, h1, h2, h3, p1, p2, d1

(* Each interface has a VLAN of its own, and may be set without one.       *)
OwnVlan == b1 :> {0, 10} @@ b2 :> {20}

(* The settings of an interface change its VLAN.                           *)
ChangingVlan == b1 :> {10, 20}

(* Two interfaces are given the same VLAN.                                 *)
SharedVlan == b1 :> {10} @@ b2 :> {10}

Port1 == b1 :> p1
Port12 == b1 :> p1 @@ b2 :> p2

HostSymmetry == Permutations(Host)
=============================================================================
