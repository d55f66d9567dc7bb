---------------------------- MODULE NetdevProofs ----------------------------
(***************************************************************************)
(* Proofs about the device and the netdevs: the device, once opened, is    *)
(* never freed; one thread takes FDB events; ready ports have what they    *)
(* need; the bridge's view of carriers and features is right.              *)
(***************************************************************************)
EXTENDS Netdev, FiniteSetTheorems, TLAPS

(* The inductive invariant of the device.  RefCounts alone is not          *)
(* inductive: that no bridge is open and no thread runs before the device  *)
(* is created is needed when it is.                                        *)
DeviceInv ==
  /\ DeviceTypeOK
  /\ RefCounts
  /\ dev = NoDev => protos = {} /\ threads = 0
  /\ OneEventThread

(* A netdev step changes nothing of the device but the mutex and the state *)
(* of the main thread, from which it does not come back.                   *)
NetdevStep ==
  /\ UNCHANGED <<protos, dangling, dev, threads>>
  /\ mutex' \in BOOLEAN
  /\ main' \in {"running", "locked_out", "joining", "aborted"}
  /\ main = "locked_out" => main' = "locked_out"

(* Sets of bridges are finite: adding one to a set or taking one away      *)
(* changes the cardinality by one (ref_cnt counts bridges).                *)
LEMMA BridgeCount ==
  ASSUME NEW B \in SUBSET Bridge, NEW b \in Bridge
  PROVE  /\ Cardinality(B) \in Nat
         /\ b \notin B => Cardinality(B \cup {b}) = Cardinality(B) + 1
         /\ b \in B => Cardinality(B \ {b}) = Cardinality(B) - 1
         /\ Cardinality(B) = 0 => B = {}
<1>1. IsFiniteSet(B)
  BY FS_Subset, DeviceAssumption
<1>2. Cardinality(B) \in Nat
  BY <1>1, FS_CardinalityType
<1>3. b \notin B => Cardinality(B \cup {b}) = Cardinality(B) + 1
  BY <1>1, FS_AddElement
<1>4. b \in B => Cardinality(B \ {b}) = Cardinality(B) - 1
  BY <1>1, FS_RemoveElement
<1>5. Cardinality(B) = 0 => B = {}
  BY <1>1, FS_EmptySet
<1> QED
  BY <1>2, <1>3, <1>4, <1>5

(* Before the first bridge there is no device.                             *)
LEMMA InitDeviceInv == Init => DeviceInv
<1> SUFFICES ASSUME DeviceInit PROVE DeviceInv
  BY DEF Init
<1>1. DeviceTypeOK
  <2>1. threads \in Nat /\ protos \in SUBSET Bridge
    BY DEF DeviceInit
  <2> QED
    BY <2>1, Zenon DEF DeviceInit, DeviceTypeOK
<1>2. OneEventThread
  BY DEF DeviceInit, OneEventThread
<1> QED
  BY <1>1, <1>2, Zenon DEF DeviceInit, DeviceInv, RefCounts

(* Constructing a bridge keeps the count, whether the device is there, is  *)
(* created, or is left without MAC learning.                               *)
LEMMA ConstructDeviceInv ==
  ASSUME DeviceInv, NEW b \in Bridge, ops_fpa_ofproto_construct(b)
  PROVE  DeviceInv' /\ (dev # NoDev => dev' # NoDev)
<1> USE DEF DeviceInv, DeviceTypeOK, RefCounts, OneEventThread
<1>1. CASE LockedOut /\ UNCHANGED <<protos, dangling, dev, threads, mutex>>
  BY <1>1 DEF LockedOut
<1>2. CASE OpenDevice(b)
  <2>1. Cardinality(protos') = Cardinality(protos) + 1 /\ Cardinality(protos) \in Nat
    BY <1>2, BridgeCount DEF OpenDevice, ops_fpa_ofproto_construct
  <2>2. dev' \in [ref : Nat, ml : BOOLEAN, tap : BOOLEAN]
    BY <1>2 DEF OpenDevice
  <2>3. dev' # NoDev
    BY <2>2, DeviceAssumption
  <2>4. dev'.ref = dev.ref + 1 /\ dev'.ml = dev.ml
    BY <1>2 DEF OpenDevice
  <2>5. RefCounts'
    BY <1>2, <2>1, <2>4 DEF OpenDevice, ops_fpa_ofproto_construct
  <2> QED
    BY <1>2, <2>2, <2>3, <2>5 DEF OpenDevice
<1>3. CASE CreateDevice(b)
  <2>1. PICK out \in {"ok"} \cup (Faults \cap {"aging", "learning"}),
             tap \in {TRUE} \cup (IF "nonblocking" \in Faults THEN {FALSE} ELSE {}) :
          /\ dev' = [ref |-> 1, ml |-> out = "ok", tap |-> tap]
          /\ threads' = IF out = "aging" THEN threads ELSE threads + 1
          /\ protos' = IF out = "ok" THEN protos \cup {b} ELSE protos
          /\ dangling' = (dangling \/ out # "ok")
    BY <1>3, Zenon DEF CreateDevice
  <2>2. protos = {} /\ threads = 0 /\ dev = NoDev
    BY <1>3 DEF CreateDevice
  <2>3. Cardinality({}) = 0 /\ Cardinality({b}) = 1
    BY FS_EmptySet, FS_Singleton, Zenon
  <2>4. dev' \in [ref : Nat, ml : BOOLEAN, tap : BOOLEAN]
    <3>1. tap \in BOOLEAN /\ (out = "ok") \in BOOLEAN
      BY Zenon
    <3> QED
      BY <2>1, <3>1
  <2>5. dev' # NoDev
    BY <2>4, DeviceAssumption
  <2>6. RefCounts'
    <3>1. CASE out = "ok"
      <4>1. dev'.ml /\ dev'.ref = 1
        BY <2>1, <3>1, Zenon
      <4>2. protos' = {b}
        BY <2>1, <2>2, <3>1
      <4> QED
        BY <2>3, <4>1, <4>2
    <3>2. CASE out # "ok"
      <4>1. ~dev'.ml /\ dev'.ref = 1
        BY <2>1, <3>2, Zenon
      <4>2. protos' = {}
        BY <2>1, <2>2, <3>2
      <4> QED
        BY <2>3, <4>1, <4>2
    <3> QED
      BY <3>1, <3>2
  <2>7. threads' \in Nat /\ threads' <= 1
    BY <2>1, <2>2
  <2>8. protos' \in SUBSET Bridge /\ dangling' \in BOOLEAN
    BY <2>1, <2>2
  <2>9. mutex' \in BOOLEAN /\ main' \in {"running", "locked_out", "joining", "aborted"}
    BY <1>3 DEF CreateDevice
  <2> QED
    BY <2>2, <2>4, <2>5, <2>6, <2>7, <2>8, <2>9
<1> QED
  BY <1>1, <1>2, <1>3 DEF ops_fpa_ofproto_construct

(* Destructing a bridge takes its reference back, and never the last one   *)
(* of a device without MAC learning: nothing is freed.                     *)
LEMMA DestructDeviceInv ==
  ASSUME DeviceInv, NEW b \in Bridge, ops_fpa_ofproto_destruct(b)
  PROVE  DeviceInv' /\ (dev # NoDev => dev' # NoDev)
<1> USE DEF DeviceInv, DeviceTypeOK, RefCounts, OneEventThread
<1>1. dev # NoDev /\ dev \in [ref : Nat, ml : BOOLEAN, tap : BOOLEAN]
  BY DEF ops_fpa_ofproto_destruct
<1>2. Cardinality(protos') = Cardinality(protos) - 1 /\ Cardinality(protos) \in Nat
  BY BridgeCount DEF ops_fpa_ofproto_destruct
<1>3. Cardinality(protos) # 0
  BY BridgeCount DEF ops_fpa_ofproto_destruct
<1>4. CASE LockedOut /\ UNCHANGED <<dev, mutex>>
  BY <1>1, <1>4 DEF LockedOut, ops_fpa_ofproto_destruct
<1>5. dev.ref = Cardinality(protos) + (IF dev.ml THEN 0 ELSE 1)
  BY <1>1 DEF ops_fpa_ofproto_destruct
<1>6. CASE ~mutex /\ Joins(dev) /\ dev' = [dev EXCEPT !.ref = 0]
           /\ mutex' = TRUE /\ main' = "joining"
  <2>1. dev' \in [ref : Nat, ml : BOOLEAN, tap : BOOLEAN]
    BY <1>1, <1>6
  <2>2. dev' # NoDev
    BY <2>1, DeviceAssumption
  <2>3. dev'.ref = 0 /\ dev'.ml
    BY <1>1, <1>6 DEF Joins
  <2>4. Cardinality(protos') = 0
    BY <1>2, <1>5, <1>6 DEF Joins
  <2> QED
    BY <1>6, <2>1, <2>2, <2>3, <2>4 DEF ops_fpa_ofproto_destruct
<1>7. CASE ~mutex /\ ~Joins(dev) /\ dev' = Closed(dev) /\ UNCHANGED <<mutex, main>>
  <2>1. dev.ref # 1
    BY <1>2, <1>3, <1>5, <1>7 DEF Joins
  <2>2. dev' = [dev EXCEPT !.ref = @ - 1]
    BY <1>7, <2>1 DEF Closed
  <2>3. dev.ref \in Nat \ {0}
    BY <1>1, <1>2, <1>3, <1>5
  <2>4. dev' \in [ref : Nat, ml : BOOLEAN, tap : BOOLEAN]
    BY <1>1, <2>2, <2>3
  <2>5. dev' # NoDev
    BY <2>4, DeviceAssumption
  <2>6. dev'.ref = dev.ref - 1 /\ dev'.ml = dev.ml
    BY <1>1, <2>2
  <2>7. RefCounts'
    BY <1>2, <1>5, <2>6
  <2> QED
    BY <1>7, <2>4, <2>5, <2>7 DEF ops_fpa_ofproto_destruct
<1> QED
  BY <1>4, <1>6, <1>7, Zenon DEF ops_fpa_ofproto_destruct

(* Every step of a netdev is a NetdevStep.                                 *)
LEMMA NetdevStepLemma ==
  ASSUME DeviceInv, NetdevNext \/ \E failed : ops_fpa_netdev_run(failed)
  PROVE  NetdevStep
<1> USE DEF DeviceInv, DeviceTypeOK, NetdevStep
<1>1. ASSUME NEW p \in Port, ops_fpa_netdev_construct(p) PROVE NetdevStep
  BY <1>1 DEF ops_fpa_netdev_construct, deviceVars
<1>2. ASSUME NEW p \in Port, ops_fpa_netdev_destruct(p) PROVE NetdevStep
  BY <1>2 DEF ops_fpa_netdev_destruct, LockedOut
<1>3. ASSUME NEW p \in Port, BridgeRefresh(p) PROVE NetdevStep
  BY <1>3 DEF BridgeRefresh, deviceVars
<1>4. ASSUME NEW p \in Port, NEW info \in Info,
             ops_fpa_netdev_set_hw_intf_info(p, info)
      PROVE  NetdevStep
  BY <1>4, Zenon DEF ops_fpa_netdev_set_hw_intf_info, TapCreate, LockedOut
<1>5. ASSUME NEW p \in Port, NEW config \in Config,
             ops_fpa_netdev_set_hw_intf_config(p, config)
      PROVE  NetdevStep
  BY <1>5 DEF ops_fpa_netdev_set_hw_intf_config, deviceVars
<1>6. ASSUME NEW p \in Port, NEW up \in BOOLEAN, ops_fpa_netdev_update_flags(p, up)
      PROVE  NetdevStep
  BY <1>6 DEF ops_fpa_netdev_update_flags, deviceVars
<1>7. ASSUME NEW p \in Port, NEW fs \in Advertise,
             ops_fpa_netdev_set_advertisements(p, fs)
      PROVE  NetdevStep
  BY <1>7 DEF ops_fpa_netdev_set_advertisements, deviceVars
<1>8. ASSUME NEW failed, ops_fpa_netdev_run(failed) PROVE NetdevStep
  BY <1>8 DEF ops_fpa_netdev_run, deviceVars
<1> QED
  BY <1>1, <1>2, <1>3, <1>4, <1>5, <1>6, <1>7, <1>8 DEF NetdevNext

(* Every step keeps the device's invariant and the device.                 *)
LEMMA NextDeviceInv ==
  ASSUME DeviceInv, [Next]_vars
  PROVE  DeviceInv' /\ (dev # NoDev => dev' # NoDev)
<1> USE DEF DeviceInv, DeviceTypeOK, RefCounts, OneEventThread
<1>1. CASE DeviceNext /\ UNCHANGED netdevVars
  <2>1. ASSUME NEW b \in Bridge, ops_fpa_ofproto_run(b)
        PROVE  DeviceInv' /\ (dev # NoDev => dev' # NoDev)
    BY <2>1 DEF ops_fpa_ofproto_run
  <2> QED
    BY <1>1, <2>1, ConstructDeviceInv, DestructDeviceInv DEF DeviceNext
<1>2. CASE NetdevNext \/ \E failed : ops_fpa_netdev_run(failed)
  BY <1>2, NetdevStepLemma DEF NetdevStep
<1>3. CASE UNCHANGED vars
  BY <1>3 DEF vars, deviceVars
<1> QED
  BY <1>1, <1>2, <1>3 DEF Next

(* In every behaviour the reference count is that of the bridges           *)
(* (ops_fpa_dev_init, ops_fpa_dev_deinit).                                 *)
THEOREM ReferencesCounted == Spec => []RefCounts
<1>1. Spec => []DeviceInv
  BY InitDeviceInv, NextDeviceInv, PTL DEF Spec
<1>2. DeviceInv => RefCounts
  BY DEF DeviceInv
<1> QED
  BY <1>1, <1>2, PTL

(* At most one FDB event thread is ever started                            *)
(* (ops_fpa_mac_learning_create).                                          *)
THEOREM AtMostOneEventThread == Spec => []OneEventThread
<1>1. Spec => []DeviceInv
  BY InitDeviceInv, NextDeviceInv, PTL DEF Spec
<1>2. DeviceInv => OneEventThread
  BY DEF DeviceInv
<1> QED
  BY <1>1, <1>2, PTL

(* No step frees the device (ops_fpa_dev_deinit).                          *)
THEOREM DeviceNeverFreed == Spec => DeviceKept
<1>1. Spec => []DeviceInv
  BY InitDeviceInv, NextDeviceInv, PTL DEF Spec
<1>2. DeviceInv /\ [Next]_vars => [dev # NoDev => dev' # NoDev]_deviceVars
  BY NextDeviceInv
<1> QED
  BY <1>1, <1>2, PTL DEF Spec, DeviceKept

-----------------------------------------------------------------------------
(* The netdevs.  Together with the device's invariant, the properties that *)
(* the bridge and the ASIC rely on are inductive.                          *)
NetdevInv ==
  /\ DeviceInv
  /\ TypeOK
  /\ CarrierSeen
  /\ ReadyPort
  /\ FeaturesSeen

(* Each conversion gives features of the other kind                        *)
(* (fpa_to_netdev_features, netdev_to_fpa_features).                       *)
LEMMA ConversionTypes ==
  /\ \A fs \in SUBSET Feature : fpa_to_netdev_features(fs) \subseteq NetdevFeature
  /\ \A ns \in SUBSET NetdevFeature : netdev_to_fpa_features(ns) \subseteq Feature
BY DEF NetdevFeature, Feature, fpa_to_netdev_features, netdev_to_fpa_features

(* What the bridge reads of a netdev is no features or those of its port   *)
(* (ops_fpa_netdev_get_features).                                          *)
LEMMA FeaturesRead ==
  ASSUME TypeOK, NEW p \in Port, NEW n,
         NEW current \in ops_fpa_netdev_get_features(n, asic[p])
  PROVE  /\ current \in {{}, fpa_to_netdev_features(asic[p].features)}
         /\ current \in SUBSET NetdevFeature
<1>1. current \in {{}, fpa_to_netdev_features(asic[p].features)}
  BY DEF ops_fpa_netdev_get_features
<1> QED
  BY <1>1, ConversionTypes DEF TypeOK

(* A configuration writes features that exist.                             *)
LEMMA ConfiguredType ==
  ASSUME NEW props \in [down : BOOLEAN, features : SUBSET Feature,
                        advert : SUBSET Feature],
         NEW config \in Config
  PROVE  Configured(props, config) \in
           [down : BOOLEAN, features : SUBSET Feature, advert : SUBSET Feature]
<1> DEFINE fs == (get_interface_speed_features(config.speed, config.full)
                  \cup get_interface_pause_features(config.pause)) \cap Supported
<1>1. fs \subseteq Feature
  BY NetdevAssumption
<1>2. Configured(props, config) =
        IF ~config.enable THEN [props EXCEPT !.down = TRUE]
        ELSE [props EXCEPT !.down = FALSE,
                           !.features = IF fs = {} THEN @ ELSE fs]
  BY DEF Configured
<1> HIDE DEF fs
<1>3. CASE config.enable
  BY <1>1, <1>2, <1>3, Zenon
<1>4. CASE ~config.enable
  BY <1>1, <1>2, <1>4, Zenon
<1> QED
  BY <1>3, <1>4

(* Nothing is open at first, and no features are set.                      *)
LEMMA InitNetdevInv == Init => NetdevInv
<1> SUFFICES ASSUME Init PROVE NetdevInv
  OBVIOUS
<1>1. DeviceInv
  BY InitDeviceInv
<1>2. TypeOK
  <2>1. Fresh \in [sid : BOOLEAN, pid : BOOLEAN, inited : BOOLEAN,
                   tap : BOOLEAN, link : BOOLEAN]
    BY DEF Fresh
  <2> QED
    BY <1>1, <2>1 DEF Init, TypeOK, DeviceInv
<1>3. CarrierSeen /\ ReadyPort /\ FeaturesSeen
  BY NetdevAssumption DEF Init, CarrierSeen, ReadyPort, FeaturesSeen, Fresh
<1> QED
  BY <1>1, <1>2, <1>3 DEF NetdevInv

(* The steps of OVS and of the class's run.                                *)
LEMMA PollNetdevInv ==
  ASSUME NetdevInv, DeviceInv', NEW p,
         \/ p \in Port /\ ops_fpa_netdev_construct(p)
         \/ p \in Port /\ ops_fpa_netdev_destruct(p)
         \/ p \in Port /\ BridgeRefresh(p)
         \/ \E failed : ops_fpa_netdev_run(failed)
  PROVE  NetdevInv'
<1> USE DEF NetdevInv
<1>0. Fresh \in [sid : BOOLEAN, pid : BOOLEAN, inited : BOOLEAN,
                 tap : BOOLEAN, link : BOOLEAN]
      /\ Fresh.inited = FALSE /\ Fresh.tap = FALSE
  BY DEF Fresh
<1>d. DeviceTypeOK'
  BY DEF DeviceInv
<1>a. asic' = asic
  BY DEF ops_fpa_netdev_construct, ops_fpa_netdev_destruct, BridgeRefresh,
         ops_fpa_netdev_run
<1>1. CASE p \in Port /\ ops_fpa_netdev_construct(p)
  <2>0. nd' \in [Port -> [sid : BOOLEAN, pid : BOOLEAN, inited : BOOLEAN,
                          tap : BOOLEAN, link : BOOLEAN]]
        /\ \A q \in Port \ {p} : nd'[q] = nd[q]
    BY <1>0, <1>1 DEF TypeOK, ops_fpa_netdev_construct
  <2>7. PICK current \in ops_fpa_netdev_get_features(nd'[p], asic[p]) :
          view' = [view EXCEPT ![p] = [link |-> nd'[p].link, current |-> current]]
    BY <1>1, Zenon DEF ops_fpa_netdev_construct, Refreshed
  <2>4. /\ view' = [view EXCEPT ![p] = [link |-> nd'[p].link, current |-> current]]
        /\ current \in {{}, fpa_to_netdev_features(asic[p].features)}
        /\ current \in SUBSET NetdevFeature
    BY <1>1, <2>7, FeaturesRead
  <2>5. /\ nd'[p].link \in BOOLEAN
        /\ view'[p].link = nd'[p].link /\ view'[p].current = current
        /\ \A q \in Port \ {p} : view'[q] = view[q]
        /\ opened' \subseteq opened \cup {p} /\ stale' \in {stale, stale \ {p}}
    BY <1>1, <2>0, <2>4 DEF TypeOK, ops_fpa_netdev_construct
  <2>1. TypeOK'
    BY <1>1, <1>d, <1>a, <2>0, <2>4, <2>5 DEF TypeOK, ops_fpa_netdev_construct
  <2>2. CarrierSeen'
    BY <2>0, <2>5 DEF TypeOK, CarrierSeen
  <2>6. FeaturesSeen'
    BY <1>a, <2>4, <2>5 DEF TypeOK, FeaturesSeen
  <2>3. ReadyPort'
    BY <1>0, <1>1 DEF TypeOK, ReadyPort, Readable, ops_fpa_netdev_construct, deviceVars
  <2> QED
    BY <2>1, <2>2, <2>3, <2>6
<1>2. CASE p \in Port /\ ops_fpa_netdev_destruct(p)
  <2>1. TypeOK'
    BY <1>0, <1>2, <1>d, <1>a DEF TypeOK, ops_fpa_netdev_destruct
  <2>2. CarrierSeen' /\ FeaturesSeen'
    BY <1>2, <1>a DEF TypeOK, CarrierSeen, FeaturesSeen, ops_fpa_netdev_destruct
  <2>3. ReadyPort'
    BY <1>0, <1>2 DEF TypeOK, ReadyPort, Readable, ops_fpa_netdev_destruct
  <2> QED
    BY <2>1, <2>2, <2>3
<1>3. CASE p \in Port /\ BridgeRefresh(p)
  <2>0. /\ nd[p].link \in BOOLEAN
        /\ UNCHANGED <<deviceVars, nd, exists, opened, leaked, asic>>
        /\ stale' = stale \ {p} /\ Refreshed(p, nd[p])
    BY <1>3 DEF TypeOK, BridgeRefresh
  <2>6. PICK current \in ops_fpa_netdev_get_features(nd[p], asic[p]) :
          view' = [view EXCEPT ![p] = [link |-> nd[p].link, current |-> current]]
    BY <2>0, Zenon DEF Refreshed
  <2>4. /\ view' = [view EXCEPT ![p] = [link |-> nd[p].link, current |-> current]]
        /\ current \in {{}, fpa_to_netdev_features(asic[p].features)}
        /\ current \in SUBSET NetdevFeature
    BY <1>3, <2>6, FeaturesRead
  <2>5. /\ view'[p].link = nd[p].link /\ view'[p].current = current
        /\ \A q \in Port \ {p} : view'[q] = view[q]
    BY <1>3, <2>4 DEF TypeOK
  <2>1. TypeOK'
    BY <1>3, <1>d, <2>0, <2>4 DEF TypeOK
  <2>2. CarrierSeen' /\ FeaturesSeen'
    BY <2>0, <2>4, <2>5 DEF TypeOK, CarrierSeen, FeaturesSeen
  <2>3. ReadyPort'
    BY <2>0 DEF ReadyPort, Readable, deviceVars
  <2> QED
    BY <2>1, <2>2, <2>3
<1>4. ASSUME NEW failed, ops_fpa_netdev_run(failed) PROVE NetdevInv'
  <2> DEFINE changed == {q \in {r \in exists \cap System : Readable(r)} \ failed :
                           nd[q].link = asic[q].down}
  <2>1. /\ nd' = [q \in Port |-> IF q \in changed
                                 THEN [nd[q] EXCEPT !.link = ~asic[q].down]
                                 ELSE nd[q]]
        /\ stale' = stale \cup changed
        /\ leaked' = leaked \cup (exists \cap System)
        /\ UNCHANGED <<deviceVars, exists, opened, view>>
    BY <1>4 DEF ops_fpa_netdev_run
  <2>2. changed \subseteq Port
    BY DEF TypeOK
  <2> HIDE DEF changed
  <2>3. \A q \in Port : (~asic[q].down) \in BOOLEAN
    BY Zenon
  <2>4. TypeOK'
    BY <1>d, <1>a, <2>1, <2>2, <2>3, ZenonT(40) DEF TypeOK
  <2>5. CarrierSeen' /\ FeaturesSeen'
    BY <1>a, <2>1 DEF TypeOK, CarrierSeen, FeaturesSeen
  <2>6. \A q \in Port : /\ nd'[q].inited = nd[q].inited /\ nd'[q].tap = nd[q].tap
                        /\ nd'[q].sid = nd[q].sid /\ nd'[q].pid = nd[q].pid
    BY <2>1 DEF TypeOK
  <2>7. ReadyPort'
    BY <2>1, <2>6, NetdevAssumption DEF ReadyPort, Readable, deviceVars
  <2> QED
    BY <2>4, <2>5, <2>7
<1> QED
  BY <1>1, <1>2, <1>3, <1>4

(* Initialisation: the ids are stored as they are read, and the netdev is  *)
(* initialised in the step that gives it its TAP interface.                *)
LEMMA InfoNetdevInv ==
  ASSUME NetdevInv, DeviceInv', NEW p \in Port, NEW info \in Info,
         ops_fpa_netdev_set_hw_intf_info(p, info)
  PROVE  NetdevInv'
<1> USE DEF NetdevInv
<1> DEFINE sid == nd[p].sid \/ info.sid
           pid == nd[p].pid \/ (info.sid /\ info.pid)
<1>1. /\ UNCHANGED <<dev, exists, opened, leaked, asic, view, stale>>
      /\ ~nd[p].inited
  BY DEF ops_fpa_netdev_set_hw_intf_info
<1>2. sid \in BOOLEAN /\ pid \in BOOLEAN
  BY Zenon
<1> DEFINE Rec == [sid : BOOLEAN, pid : BOOLEAN, inited : BOOLEAN,
                   tap : BOOLEAN, link : BOOLEAN]
<1>3. PICK new \in Rec :
        /\ nd' = [nd EXCEPT ![p] = new]
        /\ new.link = nd[p].link
        /\ p \in System => IF new.inited
                           THEN new.sid /\ new.pid /\ new.tap /\ dev # NoDev
                           ELSE ~new.tap
  <2>1. nd[p] \in Rec /\ nd \in [Port -> Rec]
    BY DEF TypeOK
  <2>2. p \in System => ~nd[p].tap
    BY <1>1 DEF ReadyPort
  <2>3. CASE p \notin System
    <3>1. nd' = [nd EXCEPT ![p] = [nd[p] EXCEPT !.inited = TRUE]]
      BY <2>3 DEF ops_fpa_netdev_set_hw_intf_info
    <3>2. [nd[p] EXCEPT !.inited = TRUE] \in Rec
      BY <2>1, Zenon
    <3> QED
      BY <2>1, <2>3, <3>1, <3>2, Zenon
  <2>4. CASE p \in System /\ nd' = nd
    <3>1. nd' = [nd EXCEPT ![p] = nd[p]]
      BY <2>1, <2>4
    <3> QED
      BY <1>1, <2>1, <2>2, <2>4, <3>1
  <2>5. CASE p \in System /\ nd' = [nd EXCEPT ![p].sid = sid, ![p].pid = pid]
    <3> HIDE DEF sid, pid
    <3> DEFINE new == [nd[p] EXCEPT !.sid = sid, !.pid = pid]
    <3>1. /\ new \in Rec /\ new.link = nd[p].link /\ new.tap = nd[p].tap
          /\ new.inited = nd[p].inited
      BY <1>2, <2>1, Zenon
    <3>2. nd' = [nd EXCEPT ![p] = new]
      BY <2>1, <2>5, Zenon
    <3> HIDE DEF new
    <3> QED
      BY <1>1, <2>2, <3>1, <3>2, Zenon
  <2>6. CASE /\ p \in System /\ sid /\ pid /\ dev # NoDev
             /\ nd' = [nd EXCEPT ![p] = [@ EXCEPT !.sid = sid, !.pid = pid,
                                                  !.tap = TRUE, !.inited = TRUE]]
    <3> DEFINE new == [nd[p] EXCEPT !.sid = TRUE, !.pid = TRUE,
                                    !.tap = TRUE, !.inited = TRUE]
    <3>0. sid = TRUE /\ pid = TRUE
      BY <1>2, <2>6
    <3> HIDE DEF sid, pid
    <3>1. /\ new \in Rec /\ new.link = nd[p].link /\ new.tap
          /\ new.sid /\ new.pid /\ new.inited
      BY <2>1, Zenon
    <3>2. nd' = [nd EXCEPT ![p] = new]
      BY <2>1, <2>6, <3>0
    <3> HIDE DEF new
    <3> QED
      BY <2>6, <3>1, <3>2, Zenon
  <2> QED
    BY <2>3, <2>4, <2>5, <2>6 DEF ops_fpa_netdev_set_hw_intf_info, TapCreate
<1> HIDE DEF sid, pid
<1>5. TypeOK'
  BY <1>1, <1>3 DEF TypeOK, DeviceInv
<1>6. \A q \in Port : nd'[q] = IF q = p THEN new ELSE nd[q]
  BY <1>3 DEF TypeOK
<1>7. CarrierSeen'
  BY <1>1, <1>3, <1>6 DEF TypeOK, CarrierSeen
<1>8. ReadyPort'
  BY <1>1, <1>3, <1>6, NetdevAssumption DEF ReadyPort, Readable
<1>9. FeaturesSeen'
  BY <1>1 DEF FeaturesSeen
<1> QED
  BY <1>5, <1>7, <1>8, <1>9

(* Configuration touches the port's properties in the ASIC only.           *)
LEMMA ConfigNetdevInv ==
  ASSUME NetdevInv, DeviceInv', NEW p \in Port,
         \/ \E config \in Config : ops_fpa_netdev_set_hw_intf_config(p, config)
         \/ \E up \in BOOLEAN : ops_fpa_netdev_update_flags(p, up)
         \/ \E fs \in Advertise : ops_fpa_netdev_set_advertisements(p, fs)
  PROVE  NetdevInv'
<1> USE DEF NetdevInv
<1>1. UNCHANGED <<dev, nd, exists, opened, leaked, view>>
      /\ (stale' = stale \/ stale' = stale \cup {p})
  BY DEF ops_fpa_netdev_set_hw_intf_config, ops_fpa_netdev_update_flags,
         ops_fpa_netdev_set_advertisements, deviceVars
<1>2. CarrierSeen' /\ ReadyPort'
  BY <1>1 DEF CarrierSeen, ReadyPort, Readable
<1>3. ASSUME NEW config \in Config, ops_fpa_netdev_set_hw_intf_config(p, config)
      PROVE  TypeOK' /\ FeaturesSeen'
  <2> DEFINE new == Configured(asic[p], config)
  <2>1. asic' = [asic EXCEPT ![p] = new] /\ stale' = stale \cup {p}
    BY <1>3 DEF ops_fpa_netdev_set_hw_intf_config
  <2>2. new \in [down : BOOLEAN, features : SUBSET Feature, advert : SUBSET Feature]
    BY ConfiguredType DEF TypeOK
  <2> HIDE DEF new
  <2>3. TypeOK'
    BY <1>1, <2>1, <2>2 DEF TypeOK, DeviceInv
  <2>4. FeaturesSeen'
    BY <1>1, <2>1 DEF TypeOK, FeaturesSeen
  <2> QED
    BY <2>3, <2>4
<1>4. ASSUME NEW up \in BOOLEAN, ops_fpa_netdev_update_flags(p, up)
      PROVE  TypeOK' /\ FeaturesSeen'
  <2> DEFINE down == ~up
  <2>1. asic' = [asic EXCEPT ![p].down = down]
    BY <1>4 DEF ops_fpa_netdev_update_flags
  <2>2. down \in BOOLEAN
    BY Zenon
  <2> HIDE DEF down
  <2>3. TypeOK'
    BY <1>1, <2>1, <2>2, SMTT(30) DEF TypeOK, DeviceInv
  <2>4. \A q \in Port : asic'[q].features = asic[q].features
    BY <2>1 DEF TypeOK
  <2>5. FeaturesSeen'
    BY <1>1, <2>4 DEF TypeOK, FeaturesSeen
  <2> QED
    BY <2>3, <2>5
<1>5. ASSUME NEW fs \in Advertise, ops_fpa_netdev_set_advertisements(p, fs)
      PROVE  TypeOK' /\ FeaturesSeen'
  <2> DEFINE new == netdev_to_fpa_features(fs)
  <2>1. asic' = [asic EXCEPT ![p].advert = new]
    BY <1>5 DEF ops_fpa_netdev_set_advertisements
  <2>2. new \subseteq Feature
    BY ConversionTypes, NetdevAssumption
  <2> HIDE DEF new
  <2>3. TypeOK'
    BY <1>1, <2>1, <2>2, ZenonT(40) DEF TypeOK, DeviceInv
  <2>4. \A q \in Port : asic'[q].features = asic[q].features
    BY <2>1 DEF TypeOK
  <2>5. FeaturesSeen'
    BY <1>1, <2>4 DEF TypeOK, FeaturesSeen
  <2> QED
    BY <2>3, <2>5
<1> QED
  BY <1>2, <1>3, <1>4, <1>5

(* The inductive invariant holds throughout.                               *)
LEMMA NetdevInvariant == Spec => []NetdevInv
<1>1. ASSUME NetdevInv, [Next]_vars PROVE NetdevInv'
  <2>1. DeviceInv'
    BY <1>1, NextDeviceInv DEF NetdevInv
  <2>2. CASE UNCHANGED netdevVars
    <3>1. dev # NoDev => dev' # NoDev
      BY <1>1, NextDeviceInv DEF NetdevInv
    <3>2. TypeOK'
      BY <1>1, <2>1, <2>2 DEF NetdevInv, TypeOK, DeviceInv, netdevVars
    <3>3. CarrierSeen' /\ FeaturesSeen'
      BY <1>1, <2>2 DEF NetdevInv, CarrierSeen, FeaturesSeen, netdevVars
    <3>4. ReadyPort'
      BY <1>1, <2>2, <3>1 DEF NetdevInv, ReadyPort, Readable, netdevVars
    <3> QED
      BY <2>1, <3>2, <3>3, <3>4 DEF NetdevInv
  <2>3. CASE NetdevNext
    BY <1>1, <2>1, <2>3, PollNetdevInv, InfoNetdevInv, ConfigNetdevInv DEF NetdevNext
  <2>4. ASSUME NEW failed, ops_fpa_netdev_run(failed) PROVE NetdevInv'
    BY <1>1, <2>1, <2>4, PollNetdevInv
  <2> QED
    BY <1>1, <2>2, <2>3, <2>4 DEF Next, vars
<1> QED
  BY <1>1, InitNetdevInv, PTL DEF Spec

(* Every variable keeps its type.                                          *)
THEOREM NetdevTypes == Spec => []TypeOK
BY NetdevInvariant, PTL DEF NetdevInv

(* The bridge's carrier is the netdev's unless it has been told to look    *)
(* again (ops_fpa_netdev_run, netdev_change_seq_changed).                  *)
THEOREM CarrierIsSeen == Spec => []CarrierSeen
BY NetdevInvariant, PTL DEF NetdevInv

(* An initialised physical port has its ids, its TAP interface and the     *)
(* device (ops_fpa_netdev_set_hw_intf_info).                               *)
THEOREM ReadyPortsAreComplete == Spec => []ReadyPort
BY NetdevInvariant, PTL DEF NetdevInv

(* The features the bridge shows are those in the ASIC or none, unless it  *)
(* has been told to look again (ops_fpa_netdev_set_hw_intf_config,         *)
(* ops_fpa_netdev_get_features).                                           *)
THEOREM FeaturesAreSeen == Spec => []FeaturesSeen
BY NetdevInvariant, PTL DEF NetdevInv

=============================================================================
