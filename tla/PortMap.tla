------------------------------- MODULE PortMap -------------------------------
(***************************************************************************)
(* The map ports_by_pid of ops-fpa-ofproto.c: an OVS hmap from port ids to *)
(* ports, whose hash of a port id is the id itself.  The map is written    *)
(* down as the set of the ids inserted in it; what a lookup returns        *)
(* depends on the number of buckets, which grows with that set.            *)
(***************************************************************************)
EXTENDS Integers, FiniteSets

(* OVS lib/hmap.c: one bucket until the second insertion, then four; the   *)
(* table doubles whenever n / 2 exceeds the bucket mask.  There are less   *)
(* than 2^17 ports.                                                        *)
BucketCount(n) ==
  IF n < 2 THEN 1
  ELSE IF n < 8 THEN 4
  ELSE CHOOSE b \in {8, 16, 32, 64, 128, 256, 512, 1024, 2048, 4096, 8192,
                     16384, 32768, 65536} : b <= n /\ n < 2 * b

(* The ids that share the bucket of pid.                                   *)
Bucket(ports, pid) ==
  LET b == BucketCount(Cardinality(ports))
  IN  {q \in ports : q % b = pid % b}

(* ops_fpa_get_ofport_by_pid returns the head of the bucket: which member  *)
(* that is depends on the order of insertions and resizes.  The result is  *)
(* NULL exactly when this set is empty.                                    *)
ops_fpa_get_ofport_by_pid(ports, pid) == Bucket(ports, pid)

KnownPort(ports, pid) == ops_fpa_get_ofport_by_pid(ports, pid) # {}

=============================================================================
