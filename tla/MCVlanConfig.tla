---------------------------- MODULE MCVlanConfig ----------------------------
(* VlanConfig on small instances.                                          *)
EXTENDS VlanConfig, SequencesExt

Modes == {"access", "trunk", "native_tagged", "native_untagged"}

(* An access port has no trunks, and a trunk port no VLAN of its own: any  *)
(* one stands for it.  The native modes have one of the VLANs as their own,*)
(* and one trunk, which is that VLAN or another.                           *)
EveryMode ==
  {s \in [mode : Modes, vlan : Vid, trunks : SUBSET Vid] :
     CASE s.mode = "access" -> s.trunks = {}
       [] s.mode = "trunk" -> s.vlan = CHOOSE v \in Vid : TRUE
       [] OTHER -> /\ s.vlan = CHOOSE v \in Vid : TRUE
                   /\ Cardinality(s.trunks) = 1}

(* Enough to tell ports apart: an access port, and a trunk port with or    *)
(* without VLANs.                                                          *)
AccessOrTrunk == {s \in EveryMode : s.mode \in {"access", "trunk"}}

(* Eight ports, four of which share a bucket of four until the eighth      *)
(* insertion splits it: whatever the order, every look-up stays within the *)
(* bucket that PortMap gives, before and after the resize.                 *)
Inserted(ports, order) ==
  FoldLeft(hmap_insert, EmptyMap(ports), order)

ASSUME ResizeKeepsBuckets ==
  \A order \in SetToSeqs({1, 5, 9, 13}), n \in 1 .. 8 :
    LET first == SubSeq(order \o <<2, 3, 6, 7>>, 1, n)
        ports == {first[i] : i \in 1 .. n}
    IN  \A pid \in 0 .. 16 :
          LET found == hmap_first_in_bucket(Inserted(ports, first), pid)
          IN  IF KnownPort(ports, pid) THEN found \in Bucket(ports, pid)
              ELSE found = NULL

OfpPortIsPid == [p \in Port |-> p]

(* OpenFlow port numbers that are not port ids of the switch.              *)
OfpPortDiffers == [p \in Port |-> p + 100]

(* OpenFlow port numbers that are the port ids of other ports.             *)
OfpPortSwapped == [p \in Port |-> CHOOSE q \in Port : q # p]

=============================================================================
