------------------------------- MODULE Netdev -------------------------------
(***************************************************************************)
(* The netdevs of the switch's ports (ops-fpa-netdev.c) on the device they *)
(* depend on: their initialisation with a TAP interface, their             *)
(* configuration in the ASIC, and what the bridge learns of them.  OVS     *)
(* keeps a netdev until its last reference is closed, and looks at its     *)
(* carrier again when the netdev's change sequence number has changed.     *)
(* The netdevs are of the class "system", those of physical ports, or      *)
(* "vlansubint", which shares most of its functions.                       *)
(***************************************************************************)
EXTENDS Device

CONSTANTS
  Port,       \* netdevs, by name
  System,     \* those of class "system"
  Speed,      \* the speeds a configuration asks for, 0 if none can be read
  Supported,  \* supportedBmp of the ports
  Advertise   \* the sets of features OVS asks to advertise

NetdevFault == {"tap", "get"}

(* Port features in the ASIC, and their counterparts of OVS: 1G stands for *)
(* the speeds that have one, and PAUSE for the bits that go with any speed *)
(* (autonegotiation and both kinds of pause).                              *)
Feature == {"1GB_HD", "1GB_FD", "2_5GB_FD", "20GB_FD", "OTHER", "PAUSE"}
NetdevFeature == {"1GB_HD", "1GB_FD", "OTHER", "PAUSE"}

ASSUME NetdevAssumption ==
  /\ System \subseteq Port
  /\ Supported \subseteq Feature
  /\ Advertise \subseteq SUBSET NetdevFeature
  /\ Faults \subseteq DeviceFault \cup NetdevFault

VARIABLES
  nd,      \* struct fpa_netdev of each port
  exists,  \* the netdevs OVS knows, by name
  opened,  \* those that the bridge has open
  leaked,  \* those on which ops_fpa_netdev_run left a reference
  asic,    \* the port properties in the ASIC
  view,    \* OVS: the carrier and the current features the bridge has read
  stale    \* OVS: the change sequence number is not the one it read with

netdevVars == <<nd, exists, opened, leaked, asic, view, stale>>
vars == <<deviceVars, netdevVars>>

Fresh == [sid |-> FALSE, pid |-> FALSE, inited |-> FALSE, tap |-> FALSE,
          link |-> FALSE]

TypeOK ==
  /\ DeviceTypeOK
  /\ nd \in [Port -> [sid : BOOLEAN, pid : BOOLEAN, inited : BOOLEAN,
                      tap : BOOLEAN, link : BOOLEAN]]
  /\ opened \subseteq exists /\ leaked \subseteq exists /\ exists \subseteq Port
  /\ asic \in [Port -> [down : BOOLEAN, features : SUBSET Feature,
                        advert : SUBSET Feature]]
  /\ view \in [Port -> [link : BOOLEAN, current : SUBSET NetdevFeature]]
  /\ stale \in SUBSET Port

Init ==
  /\ DeviceInit
  /\ nd = [p \in Port |-> Fresh]
  /\ exists = {} /\ opened = {} /\ leaked = {}
  /\ asic = [p \in Port |-> [down |-> TRUE, features |-> {}, advert |-> {}]]
  /\ view = [p \in Port |-> [link |-> FALSE, current |-> {}]]
  /\ stale = {}

-----------------------------------------------------------------------------
(* Features.                                                               *)

(* Each conversion has a list of its own.  2.5G and 20G have no counterpart*)
(* in OVS, which calls them OTHER.                                         *)
fpa_to_netdev_features(fs) ==
  (fs \cap {"1GB_HD", "1GB_FD", "PAUSE"})
  \cup (IF fs \cap {"2_5GB_FD", "20GB_FD", "OTHER"} = {} THEN {} ELSE {"OTHER"})

netdev_to_fpa_features(ns) ==
  (ns \cap {"1GB_HD", "1GB_FD", "PAUSE"})
  \cup (IF "OTHER" \in ns THEN {"2_5GB_FD", "20GB_FD", "OTHER"} ELSE {})

(* A speed that cannot be read, or is not one of those known, is 1G.       *)
get_interface_speed_features(speed, full) ==
  CASE speed = 2500 -> {"2_5GB_FD"}
    [] speed = 20000 -> {"20GB_FD"}
    [] OTHER -> IF full THEN {"1GB_FD"} ELSE {"1GB_HD"}

get_interface_pause_features(pause) == IF pause THEN {"PAUSE"} ELSE {}

-----------------------------------------------------------------------------
(* The features get_features may report as current for a netdev n whose    *)
(* port has the properties props.  They are reported if a bit is set in    *)
(* props.flags, which nothing initialises.  When the call fails, and it    *)
(* does without ids, OVS takes the port to have none.                      *)
ops_fpa_netdev_get_features(n, props) ==
  {{}} \cup (IF n.sid /\ n.pid THEN {fpa_to_netdev_features(props.features)}
             ELSE {})

(* OVS: the bridge reads the carrier and the features of a netdev.         *)
Refreshed(p, n) ==
  \E current \in ops_fpa_netdev_get_features(n, asic[p]) :
    view' = [view EXCEPT ![p] = [link |-> n.link, current |-> current]]

(* OVS opens a netdev, constructing it unless it exists, and reads its     *)
(* status.                                                                 *)
ops_fpa_netdev_construct(p) ==
  /\ main = "running" /\ p \notin opened
  /\ opened' = opened \cup {p} /\ exists' = exists \cup {p}
  /\ nd' = [nd EXCEPT ![p] = IF p \in exists THEN @ ELSE Fresh]
  /\ Refreshed(p, nd'[p])
  /\ stale' = stale \ {p}
  /\ UNCHANGED <<deviceVars, leaked, asic>>

(* Mutant: the netdev goes although references remain.                     *)
DestructRegardless(p) ==
  /\ main = "running" /\ p \in opened /\ ~mutex
  /\ opened' = opened \ {p} /\ exists' = exists \ {p}
  /\ nd' = [nd EXCEPT ![p] = Fresh]
  /\ UNCHANGED <<deviceVars, leaked, asic, view, stale>>

(* The bridge closes a netdev.  It is destructed, and its TAP interface    *)
(* deleted, unless references remain.                                      *)
ops_fpa_netdev_destruct(p) ==
  /\ main = "running" /\ p \in opened
  /\ opened' = opened \ {p}
  /\ exists' = (exists \ {p}) \cup (leaked \cap {p})
  /\ \/ LockedOut /\ p \notin leaked /\ nd[p].tap
     \/ /\ p \in leaked \/ ~nd[p].tap \/ ~mutex
        /\ UNCHANGED main
  /\ UNCHANGED <<protos, dangling, dev, threads, mutex>>
  /\ nd' = [nd EXCEPT ![p] = IF p \in leaked THEN @ ELSE Fresh]
  /\ UNCHANGED <<leaked, asic, view, stale>>

(* The class's run: netdev_get_devices takes a reference on every netdev   *)
(* of the class, and none is closed.  A netdev whose properties cannot be  *)
(* read, for one that it has no ids yet, is passed over.                   *)
Readable(p) == nd[p].sid /\ nd[p].pid

(* Mutant: only a link that comes up is noticed.                           *)
RunUpOnly(failed) ==
  LET devices == exists \cap System
      up == {p \in devices : Readable(p) /\ ~nd[p].link /\ ~asic[p].down} \ failed
  IN  /\ main = "running"
      /\ leaked' = leaked \cup devices
      /\ nd' = [p \in Port |-> IF p \in up THEN [nd[p] EXCEPT !.link = TRUE]
                               ELSE nd[p]]
      /\ stale' = stale \cup up
      /\ UNCHANGED <<deviceVars, exists, opened, asic, view>>

(* Mutant: the change is not announced.                                    *)
RunSilently(failed) ==
  LET devices == exists \cap System
      read == {p \in devices : Readable(p)} \ failed
  IN  /\ main = "running"
      /\ leaked' = leaked \cup devices
      /\ nd' = [p \in Port |-> IF p \in read
                               THEN [nd[p] EXCEPT !.link = ~asic[p].down]
                               ELSE nd[p]]
      /\ UNCHANGED <<deviceVars, exists, opened, asic, view, stale>>

ops_fpa_netdev_run(failed) ==
  LET devices == exists \cap System
      read == {p \in devices : Readable(p)} \ failed
      changed == {p \in read : nd[p].link = asic[p].down}
  IN  /\ main = "running"
      /\ leaked' = leaked \cup devices
      /\ nd' = [p \in Port |-> IF p \in changed
                               THEN [nd[p] EXCEPT !.link = ~asic[p].down]
                               ELSE nd[p]]
      /\ stale' = stale \cup changed
      /\ UNCHANGED <<deviceVars, exists, opened, asic, view>>

(* OVS: the bridge refreshes the status of an interface.                   *)
BridgeRefresh(p) ==
  /\ main = "running" /\ p \in opened \cap stale
  /\ Refreshed(p, nd[p])
  /\ stale' = stale \ {p}
  /\ UNCHANGED <<deviceVars, nd, exists, opened, leaked, asic>>

-----------------------------------------------------------------------------
(* ops_fpa_netdev_set_hw_intf_info, of which "info" says which values can  *)
(* be read.                                                                *)
Info == [sid : BOOLEAN, pid : BOOLEAN, mac : {"absent", "bad", "good"}]

(* Mutant: the netdev counts as initialised although this failed.          *)
TapCreateUnchecked(p, sid, pid) ==
  /\ ~mutex /\ dev # NoDev
  /\ \E tap \in {dev.tap, "tap" \notin Faults} :
       /\ nd' = [nd EXCEPT ![p] = [@ EXCEPT !.sid = sid, !.pid = pid,
                                            !.tap = tap, !.inited = TRUE]]
       /\ mutex' = ~tap
  /\ UNCHANGED main

(* ops_fpa_tap_if_create: it fails with the mutex locked, and aborts if    *)
(* there is no device.                                                     *)
TapCreate(p, sid, pid) ==
  \/ /\ LockedOut
     /\ nd' = [nd EXCEPT ![p].sid = sid, ![p].pid = pid]
     /\ UNCHANGED mutex
  \/ /\ ~mutex /\ dev = NoDev
     /\ main' = "aborted"
     /\ UNCHANGED <<mutex, nd>>
  \/ /\ ~mutex /\ dev # NoDev
     /\ ~dev.tap \/ "tap" \in Faults
     /\ mutex' = TRUE
     /\ nd' = [nd EXCEPT ![p].sid = sid, ![p].pid = pid]
     /\ UNCHANGED main
  \/ /\ ~mutex /\ dev # NoDev /\ dev.tap
     /\ nd' = [nd EXCEPT ![p] = [@ EXCEPT !.sid = sid, !.pid = pid,
                                          !.tap = TRUE, !.inited = TRUE]]
     /\ UNCHANGED <<mutex, main>>

(* A value that cannot be read ends the function, with those before it     *)
(* stored; without a MAC address ether_aton(NULL) crashes.  A netdev of    *)
(* another class needs nothing.                                            *)
ops_fpa_netdev_set_hw_intf_info(p, info) ==
  LET sid == nd[p].sid \/ info.sid
      pid == nd[p].pid \/ (info.sid /\ info.pid)
      readable == info.sid /\ info.pid /\ info.mac # "bad"
  IN  /\ main = "running" /\ p \in opened /\ ~nd[p].inited
      /\ \/ /\ p \notin System
            /\ nd' = [nd EXCEPT ![p].inited = TRUE]
            /\ UNCHANGED <<mutex, main>>
         \/ /\ p \in System /\ ~readable
            /\ nd' = [nd EXCEPT ![p].sid = sid, ![p].pid = pid]
            /\ UNCHANGED <<mutex, main>>
         \/ /\ p \in System /\ readable /\ info.mac = "absent"
            /\ main' = "aborted"
            /\ UNCHANGED <<mutex, nd>>
         \/ /\ p \in System /\ readable /\ info.mac = "good"
            /\ TapCreate(p, sid, pid)
      /\ UNCHANGED <<protos, dangling, dev, threads>>
      /\ UNCHANGED <<exists, opened, leaked, asic, view, stale>>

-----------------------------------------------------------------------------
(* Configuration.  The calls that get or set properties fail for a port    *)
(* without ids, and may fail for others; the function then gives up, and   *)
(* what it changed, dev->flags, is not looked at for these classes.        *)

Config == [enable : BOOLEAN, speed : Speed, full : BOOLEAN, pause : BOOLEAN]

(* The properties a configuration sets: features the port supports, and    *)
(* none if all were dropped or when the port is shut down.                 *)
Configured(props, config) ==
  LET features == (get_interface_speed_features(config.speed, config.full)
                   \cup get_interface_pause_features(config.pause))
                  \cap Supported
  IN  IF ~config.enable THEN [props EXCEPT !.down = TRUE]
      ELSE [props EXCEPT !.down = FALSE,
                         !.features = IF features = {} THEN @ ELSE features]

(* Mutant: only a change of the link is announced.                         *)
ConfigSilently(p, config) ==
  /\ main = "running" /\ p \in opened /\ nd[p].inited /\ Readable(p)
  /\ asic' = [asic EXCEPT ![p] = Configured(@, config)]
  /\ stale' = IF asic'[p].down = asic[p].down THEN stale ELSE stale \cup {p}
  /\ UNCHANGED <<deviceVars, nd, exists, opened, leaked, view>>

ops_fpa_netdev_set_hw_intf_config(p, config) ==
  /\ main = "running" /\ p \in opened /\ nd[p].inited /\ Readable(p)
  /\ asic' = [asic EXCEPT ![p] = Configured(@, config)]
  /\ stale' = stale \cup {p}
  /\ UNCHANGED <<deviceVars, nd, exists, opened, leaked, view>>

(* Bring the port up or down through OVS; nothing is announced.            *)
ops_fpa_netdev_update_flags(p, up) ==
  /\ main = "running" /\ p \in opened /\ Readable(p)
  /\ asic' = [asic EXCEPT ![p].down = ~up]
  /\ UNCHANGED <<deviceVars, nd, exists, opened, leaked, view, stale>>

ops_fpa_netdev_set_advertisements(p, features) ==
  /\ main = "running" /\ p \in opened \cap System /\ Readable(p)
  /\ asic' = [asic EXCEPT ![p].advert = netdev_to_fpa_features(features)]
  /\ UNCHANGED <<deviceVars, nd, exists, opened, leaked, view, stale>>

NetdevNext ==
  \E p \in Port :
    \/ ops_fpa_netdev_construct(p)
    \/ ops_fpa_netdev_destruct(p)
    \/ BridgeRefresh(p)
    \/ \E info \in Info : ops_fpa_netdev_set_hw_intf_info(p, info)
    \/ \E config \in Config : ops_fpa_netdev_set_hw_intf_config(p, config)
    \/ \E up \in BOOLEAN : ops_fpa_netdev_update_flags(p, up)
    \/ \E features \in Advertise :
         ops_fpa_netdev_set_advertisements(p, features)

Next ==
  \/ DeviceNext /\ UNCHANGED netdevVars
  \/ NetdevNext
  \/ \E failed \in IF "get" \in Faults THEN SUBSET Port ELSE {{}} :
       ops_fpa_netdev_run(failed)

(* The main loop runs the netdevs of the class and refreshes the bridge's  *)
(* interfaces in every round.                                              *)
Fairness ==
  /\ WF_vars(ops_fpa_netdev_run({}))
  /\ \A p \in Port : WF_vars(BridgeRefresh(p))

Spec == Init /\ [][Next]_vars /\ Fairness

-----------------------------------------------------------------------------
(* Properties.                                                             *)

(* The carrier the bridge knows of an open netdev is the netdev's, unless  *)
(* its change sequence number tells the bridge to look again: every        *)
(* function that changes link_status announces it, and a netdev that is    *)
(* opened again keeps its own.                                             *)
CarrierSeen == \A p \in opened \ stale : view[p].link = nd[p].link

(* A physical port that is initialised has its ids, its TAP interface and  *)
(* the device whose tap_info the interface is in; one that is not has no   *)
(* TAP interface, so that a set_hw_intf_info that is repeated after it     *)
(* failed half-way does not make a second one.                             *)
ReadyPort ==
  \A p \in System :
    IF nd[p].inited THEN Readable(p) /\ nd[p].tap /\ dev # NoDev
    ELSE ~nd[p].tap

(* The speed and pause that the bridge shows of an open netdev are those   *)
(* the port has in the ASIC, or none, unless it is about to look again:    *)
(* set_hw_intf_config announces what it changes, a netdev closed and opened*)
(* again is read again, and get_features, with flags that nothing          *)
(* initialises, leaves features out but does not report old ones.          *)
FeaturesSeen ==
  \A p \in opened \ stale :
    view[p].current \in {{}, fpa_to_netdev_features(asic[p].features)}

(* When the configuration of a ready port stays as it is, the bridge in the*)
(* end knows the carrier that goes with it, also when it was changed by    *)
(* update_flags, which announces nothing: ops_fpa_netdev_run finds out.    *)
CarrierFollows ==
  \A p \in System, up \in BOOLEAN :
    <>[](main = "running" /\ p \in opened /\ nd[p].inited /\ asic[p].down = ~up)
    => <>[](view[p].link = up)

=============================================================================
