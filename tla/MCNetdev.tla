------------------------------ MODULE MCNetdev ------------------------------
(* Netdev on a small instance.                                             *)
EXTENDS Netdev

CONSTANTS b1, b2, p1, s1

Bridges == {b1, b2}
Ports == {p1, s1}
SystemPorts == {p1}

(* 1G with full duplex, which a speed of 0 that nobody knows stands for,   *)
(* and 2.5G are supported; 1G with half duplex is not.                     *)
Speeds == {0, 2500}
Supports == {"1GB_FD", "2_5GB_FD", "PAUSE"}
Advertises == {{}, {"OTHER"}}

AllFaults == DeviceFault \cup NetdevFault

=============================================================================
