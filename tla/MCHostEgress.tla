---------------------------- MODULE MCHostEgress ----------------------------
(* HostEgress on a small instance.                                         *)
EXTENDS HostEgress

CONSTANTS k1, k2, a1, a2

DistinctHash == [k \in Key |-> k]

=============================================================================
