------------------------------- MODULE Device -------------------------------
(***************************************************************************)
(* The one FPA device (ops-fpa-dev.c) and the bridges that open and close  *)
(* it when OVS constructs and destructs them (ops-fpa-ofproto.c).  The     *)
(* device comes with the two TAP listeners and the MAC learning; the       *)
(* latter has a thread of its own.  Only the main thread is modelled here, *)
(* and fpa_dev_mutex, which nobody else locks: the main thread that finds  *)
(* it locked waits for ever.                                               *)
(***************************************************************************)
EXTENDS Integers, FiniteSets

CONSTANTS
  Bridge,      \* ofprotos of type "system" and "vrf"
  Default,     \* the system bridge DEFAULT_BRIDGE_NAME
  Faults,      \* what may fail
  NoDev

DeviceFault == {"nonblocking", "aging", "learning"}

ASSUME DeviceAssumption ==
  /\ IsFiniteSet(Bridge) /\ Default \in Bridge
  /\ NoDev \notin [ref : Nat, ml : BOOLEAN, tap : BOOLEAN]

VARIABLES
  protos,   \* the bridges that are constructed
  dangling, \* the map protos holds an ofproto whose construction failed
  dev,      \* the device: ref_cnt, and whether ml and tap_if_info are there
  threads,  \* FDB event threads that were started
  mutex,    \* fpa_dev_mutex
  main      \* what has become of the main thread

deviceVars == <<protos, dangling, dev, threads, mutex, main>>

DeviceTypeOK ==
  /\ protos \in SUBSET Bridge
  /\ dangling \in BOOLEAN
  /\ dev \in [ref : Nat, ml : BOOLEAN, tap : BOOLEAN] \cup {NoDev}
  /\ threads \in Nat
  /\ mutex \in BOOLEAN
  /\ main \in {"running", "locked_out", "joining", "aborted"}

DeviceInit ==
  /\ protos = {}
  /\ dangling = FALSE
  /\ dev = NoDev
  /\ threads = 0
  /\ mutex = FALSE
  /\ main = "running"

(* ovs_mutex_lock of a mutex that was never given back.                    *)
LockedOut ==
  /\ mutex
  /\ main' = "locked_out"

-----------------------------------------------------------------------------
(* Mutant: the reference is not counted.                                   *)
OpenUncounted(b) ==
  /\ ~mutex /\ dev # NoDev
  /\ protos' = protos \cup {b}
  /\ UNCHANGED <<dangling, dev, threads, mutex, main>>

(* The device exists: one more reference.                                  *)
OpenDevice(b) ==
  /\ ~mutex /\ dev # NoDev
  /\ dev' = [dev EXCEPT !.ref = @ + 1]
  /\ protos' = protos \cup {b}
  /\ UNCHANGED <<dangling, threads, mutex, main>>

(* Mutant: a device whose MAC learning cannot be created is not kept.      *)
CreateDeviceOrNone(b) ==
  /\ ~mutex /\ dev = NoDev
  /\ \E out \in {"ok"} \cup (Faults \cap {"aging", "learning"}) :
       /\ dev' = IF out = "ok" THEN [ref |-> 1, ml |-> TRUE, tap |-> TRUE] ELSE NoDev
       /\ threads' = IF out = "aging" THEN threads ELSE threads + 1
       /\ protos' = IF out = "ok" THEN protos \cup {b} ELSE protos
       /\ dangling' = (dangling \/ out # "ok")
  /\ UNCHANGED <<mutex, main>>

(* ops_fpa_dev_init of a new device.  ops_fpa_tap_init gives NULL if a pipe*)
(* cannot be made non-blocking, which is not an error.  If the MAC learning*)
(* cannot be created, before or after its thread is started, the bridge is *)
(* not constructed; the device stays, with its reference and without ml.   *)
CreateDevice(b) ==
  /\ ~mutex /\ dev = NoDev
  /\ \E out \in {"ok"} \cup (Faults \cap {"aging", "learning"}),
        tap \in {TRUE} \cup (IF "nonblocking" \in Faults THEN {FALSE} ELSE {}) :
       /\ dev' = [ref |-> 1, ml |-> out = "ok", tap |-> tap]
       /\ threads' = IF out = "aging" THEN threads ELSE threads + 1
       /\ protos' = IF out = "ok" THEN protos \cup {b} ELSE protos
       /\ dangling' = (dangling \/ out # "ok")
  /\ UNCHANGED <<mutex, main>>

ops_fpa_ofproto_construct(b) ==
  /\ main = "running" /\ b \notin protos
  /\ \/ LockedOut /\ UNCHANGED <<protos, dangling, dev, threads, mutex>>
     \/ OpenDevice(b)
     \/ CreateDevice(b)

(* The last reference: the MAC learning is told to exit and its thread     *)
(* joined, with the mutex held; that thread's loop has no exit.            *)
Joins(d) == d.ref = 1 /\ d.ml

(* Mutant: the reference count is not looked at.                           *)
CloseAlways(d) == NoDev

(* What ops_fpa_dev_deinit leaves of the device when it returns.           *)
Closed(d) == IF d.ref = 1 THEN NoDev ELSE [d EXCEPT !.ref = @ - 1]

ops_fpa_ofproto_destruct(b) ==
  /\ main = "running" /\ b \in protos
  /\ protos' = protos \ {b}
  /\ \/ LockedOut /\ UNCHANGED <<dev, mutex>>
     \/ /\ ~mutex /\ Joins(dev)
        /\ dev' = [dev EXCEPT !.ref = 0]
        /\ mutex' = TRUE /\ main' = "joining"
     \/ /\ ~mutex /\ ~Joins(dev)
        /\ dev' = Closed(dev)
        /\ UNCHANGED <<mutex, main>>
  /\ UNCHANGED <<dangling, threads>>

(* The default bridge's run looks at the timer of the MAC learning.        *)
ops_fpa_ofproto_run(b) ==
  /\ main = "running" /\ b \in protos /\ b = Default
  /\ ~dev.ml
  /\ main' = "aborted"
  /\ UNCHANGED <<protos, dangling, dev, threads, mutex>>

DeviceNext ==
  \E b \in Bridge : \/ ops_fpa_ofproto_construct(b)
                    \/ ops_fpa_ofproto_destruct(b)
                    \/ ops_fpa_ofproto_run(b)

-----------------------------------------------------------------------------
(* Properties.                                                             *)

(* The reference count is the number of bridges, and one more when the     *)
(* device was left without MAC learning by a construction that failed; only*)
(* a destruction that waits for the mutex for ever has yet to count.       *)
RefCounts ==
  dev # NoDev /\ main # "locked_out" =>
    dev.ref = Cardinality(protos) + (IF dev.ml THEN 0 ELSE 1)

(* A device that was opened is never freed, in spite of                    *)
(* ops_fpa_dev_deinit: its last reference ends in the join, and a device   *)
(* without MAC learning keeps the reference of the construction that       *)
(* failed.  So the pointers to it that every bridge, netdev and listener   *)
(* thread keeps stay good.                                                 *)
DeviceKept == [][dev # NoDev => dev' # NoDev]_deviceVars

(* At most one thread ever takes FDB events from the ASIC, even when the   *)
(* creation of the MAC learning fails after its thread was started and a   *)
(* bridge is constructed again.                                            *)
OneEventThread == threads <= 1

===========================================================================
