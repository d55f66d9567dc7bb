# TLA+ models of the OpenSwitch FPA plugin

TLA+ models, TLC runs and TLAPS proofs for `switchd-fpa-plugin`, the plugin that
lets the OpenSwitch daemon (`ops-switchd`) drive a Marvell Prestera switch
through the FPA library. Paths below are relative to `src/`.

## 1. The system

The daemon calls the plugin from its **main thread**: bridges, ports, VLANs, L3
interfaces, next hops and routes are configured by calls of the ofproto and
netdev providers. The plugin runs three threads of its own: the **ASIC thread**
of MAC learning, the **TAP listener** and the **ASIC listener**. The switch (the
ASIC) is reached only through FPA calls, each of which can fail.

| Part | Code | State | Operations | What makes it hard |
|---|---|---|---|---|
| MAC learning | `src/ops-fpa-mac-learning.c` | FDB, two event buffers, timer | learn, age, flush, timer, hand-over to `bridge.c` | three parties, one lock; the reader works after releasing it |
| Port map | `src/ops-fpa-ofproto.c` | `ports_by_pid` | insert, look up | the look-up compares buckets, and buckets split |
| Next-hop egress | `src/ops-fpa-ofproto.c` | a borrowed FDB entry | look up, use | entry used after the unlock |
| VLAN membership | `src/ops-fpa-ofproto.c`, `src/ops-fpa-vlan.c` | VLANs that are up, pending map per port, ASIC tables | `bundle_set`, removal, `set_vlan` | differences against the ASIC; identifiers shared by VIDXs and by next hops; failing calls; the port is whichever the port map gives |
| L3 | `src/ops-fpa-ofproto.c`, `src/ops-fpa-routing.c` | interfaces, host table, ARP free list, groups | enable, disable, add and delete hosts | roll-back of sequences of calls; a free list in an array; shared groups |
| Routes | `src/ops-fpa-ofproto.c`, `src/ops-fpa-route.c`, `src/ops-fpa.c` | L3 unicast table | parse, add, replace, delete, show | byte order of masks, cookies, lengths 0 and 32 |
| TAP interfaces | `src/ops-fpa-tap.c` | interface map, descriptors, pipes, one map per listener | create, delete, carry packets | three threads, reuse of descriptors, a mutex and early returns |
| Netdevs | `src/ops-fpa-netdev.c` | ids, TAP interface, link state; port properties in the ASIC | open, initialise, configure, run, close | leaked references, half-done initialisation, changes that nobody announces |
| Device registry | `src/ops-fpa-dev.c` | the device, its reference count, a mutex | init, release | creation that fails half-way; a release that joins a thread that does not end |
| Stubs and wrappers | `stg`, `qos`, `copp`, `bufmon`, `wrap`, `util`, `init`, `plugins` | none | log, forward, register | nothing |

## 2. The modules

Definitions keep the names of the functions they model. Operators called
"Mutant" in their comment are altered copies of the definition below them; they
are used nowhere in the specifications, and show that a property notices such
an error. Variables marked "history" are not in the code: properties are about
them and no guard reads them, with one exception in `L3Hosts` (below).

**`PortMap`**: `ports_by_pid` as the set of inserted ids. An OVS hmap look-up by
bucket finds a port exactly when some inserted id falls in the bucket, and the
number of buckets follows the number of ids.

**`PortChains`** (extends `PortMap` and `Loop`): the same map as an array of lists through
the ports' own nodes, with insertion at the head and the resize of OVS. It says
which port of a bucket is found, and what a second insertion of a node does to
the lists.

**`MacLearning`** (extends `PortMap`): what runs under the write lock is one
step. The flush takes one step per entry and keeps the lock. The bridge reads
its buffer one event per step, without the lock, as `ops_fpa_ml_hmap_get`
returns a pointer. A failed `ovs_assert` sets `aborted`, and nothing happens
after it. A slot is a hash value: two keys with one hash share a slot, as in
`hmap_first_with_hash`, and an event overwrites that of the other key. The
histories `hidden` (keys whose latest event was overwritten or had no room) and
`overrun` (a published buffer was cleared unread) say what the bridge may have
missed. The port name in an event is that of the port the map finds for the id.

**`HostEgress`** (extends `MacLearning`): adds the look-up that
`add_l3_host_entry` makes on a VLAN interface. While the main thread holds the
entry only the ASIC thread moves.

**`VlanConfig`** (extends `PortChains`): a port's membership is a set of VIDXs,
the numbers of `include/ops-fpa-vlan.h` with `NVid` in place of 2^12. `hw` is the
ASIC: a set per port in which a group is identified by port and VID, and an
untagged flow by port alone, as the cookies are. Differences are applied in
ascending order. A failing call has no effect, and the code does not look at its
result, with two exceptions that are the code's: `ops_fpa_vlan_fetch` skips a
group whose bucket cannot be read (`missed`), and a group whose bucket cannot be
added is deleted, one that was there before included (`undone`,
`src/ops-fpa-route.c:67`). `bundle_set` and `set_vlan` work on the port that the map gives for the
bundle's id, which may be another bundle's, and `bundle_set` crashes on NULL. A
shutdown goes over the bundles in any order, as a hash map gives them, and reads
the ASIC under `OfpPort`, the OpenFlow number of the port: any number, that of
another port included.
`ops_fpa_l3_host_group` is what next hops on a VLAN interface do to the same
groups: it composes the part of `L3Hosts` that meets the VLAN tables.
`ops_fpa_vlan_fetch` also walks the L3 groups of the ASIC, whose identifiers
decode to VLAN 0, which is never configured.

**`L3Hosts`**: every operation is one step of the main thread, with the FPA call
that fails chosen from `Faults`. The roll-backs are those of the code, call by
call. `arp` is the array `arp_indices` with the free list threaded through it.
`Disciplined` says whether callers delete hosts and routes before what they
depend on; it reads the history fields `on` and `via` to do so.

**`IndexPool`**: the abstract specification of the ARP indices: two sets, free
and held, and three actions: take, leak (adding the host failed later), return.
`L3Hosts!ImplementsPool` is the refinement: the free indices are those reached
from the head of the list, the held ones those of the host table.

**`RouteTable`**: prefixes as OVS gives them, their parsing, the cookie, the mask
and the table of flows. A 32-bit value is the set of its bits, so that byte order
is explicit and widths are constants. `meant` is the history of what the calls
ask for; the reference definition is longest-prefix match over it.

**`TapInterfaces`**: the main thread's create and delete are cut at each command
sent; the two listeners at each system call that another thread can interfere
with. The kernel is `open`, `queue` and `pipe`: descriptors are given out lowest
first, `select` fails on a closed descriptor, `read` on an empty queue would
block. A failed create leaves the mutex locked, and the next call stops.

**`Device`**: the device, opened by the first bridge and closed by the last, with
creation that can fail before or after the event thread of MAC learning is
started. The last close joins that thread, which never ends, with the mutex held.

**`Netdev`** (extends `Device`): netdevs on that device. `ops_fpa_netdev_run`
leaks a reference per netdev, so a netdev that was seen by it once survives its
close. `set_hw_intf_info` stores ids one by one and may stop between them.
`asic` holds the port properties, `view` and `stale` are the carrier and the
features the bridge read and whether the change sequence number has moved since.
`get_features` tests bits of a structure that nothing initialises, so it reports
the features in use or none. The two conversions of features are two lists, as in
the code. The creation of a TAP
interface is one step here and is cut into steps in `TapInterfaces`.

**`Loop`**: the state after the turns of a loop that runs a known number of times.
The loops whose outcome a property is about are written with it: over the bits of
a VIDX map, the nodes and lists of a hash map that is resized, the commands of a
pipe.

The `MC*` modules only define values for constants.

External behaviour, deduced from use: OVS hmaps; the OVS netdev layer (a netdev
lives until its last reference is closed); the FPA library accepts a group that
already exists and refuses to delete one that is referred to (`L3Hosts`, where
hosts behind one port share a group that each adds and deletes); adding a group
that exists replaces its bucket (`Replaces` in `VlanConfig`); a flow replaces one
with the same match, and of the flows that match the one with the largest mask
applies (`RouteTable`).

## 3. The runs

`tlc -config <run>.cfg <module>`. Sizes are distinct states.

### Properties that hold

| Run | Properties | Size |
|---|---|---|
| `mac_safety` (`MCMacLearning`) | `TypeOK`, `BridgeViewInFdb`, `NoStrandedBatch`, `RoomForNextEvent` | 1,538,000 |
| `mac_liveness` (`MCMacLearning`) | `EventsReachBridge` | 58,000 |
| `vlan_config` (`MCVlanConfig`) | `TypeOK`, `PlainExact`, `NoForeignVlan`, `PendingIsConfigured` | 76,000 |
| `vlan_ports` (`MCVlanConfig`) | `LookupAgrees`, `PlainExact`, `NoForeignVlan` | 212,000 |
| `l3_routing` (`MCL3Hosts`) | `TypeOK`, `CountMatchesHosts`, `RoutesLeadToHosts`, `RoutingAllOrNothing` | 582,000 |
| `l3_any_caller` (`MCL3Hosts`) | `ArpUnique`, `ImplementsPool` | 149,000 |
| `routes` (`MCRouteTable`) | `TypeOK`, `ForwardsByLongestPrefix`, `ShownAsConfigured` | 57,000 |
| `tap_interfaces` (`MCTapInterfaces`) | `TypeOK`, `ListenersMirror`, `StaleEntryAnnounced`, `StopsOnlyAfterFailure`, `NewInterfaceServed` | 354,000 |
| `netdev` (`MCNetdev`) | `TypeOK`, `RefCounts`, `OneEventThread`, `CarrierSeen`, `ReadyPort`, `FeaturesSeen`, `DeviceKept`, `CarrierFollows` | 207,000 |

- `mac_safety`: the bridge's table plus the pending events never names a MAC the
  FDB does not hold on that port, except for a key whose latest event was
  overwritten, and as long as no buffer was cleared unread. A published batch has
  a callback pending or a reader on it. The "Not able to insert" branch is dead
  while the plugin is present. Three keys, of which two share a slot, two FDB
  entries, two ports and buffers of two events are enough for a moved MAC (two
  entries with one key), a reused address, a full buffer, an overwritten event,
  and a hand-over during a read. Both ports are there from the start;
  `mac_liveness` and `mac_assert` create them.
- `mac_liveness`: fairness below. Ports are created on the way. One entry is
  enough for every path of an event.
- `vlan_config`: one port, two VLANs, every mode, and next hops that add and delete
  groups in one of the VLANs. An access port is in either VLAN, a trunk port in any
  of them. The native modes have the VLAN of the next hops as their own and one
  trunk VLAN, the own one or the other: with both they ask for the union of two
  settings that are there. One call per operation may fail, a read of
  a bucket or a change (`MaxFail = 1`): a port that met a failure is no longer
  clean, whatever else failed. The OpenFlow number is taken to be the port id: see
  section 4.
- `vlan_ports`: ports meet only in the map. Two ports whose ids share a bucket,
  one VLAN, and up to eight insertions, so that the map is resized twice, with
  lists that second insertions have made cyclic. Deadlock is not checked: a
  look-up that gives NULL ends the process. That the look-up stays within the
  bucket through the resize with eight different ports, in any order of insertion,
  is `ResizeKeepsBuckets`, which TLC evaluates with both runs.
- `l3_routing`: a system and a VLAN interface with their own VLANs, three hosts
  and three indices, so that the list runs out, and callers that undo things last
  first. Calls that enable, add, or delete the groups of a host may fail.
- `l3_any_caller`: any order of calls, one shared VLAN, and failures of disabling
  routing, adding hosts and deleting routes: those that lose an index or leave
  something behind. The proofs are for all kinds of failure.
  `CountMod = 3` stands for 2^64, so that the counter wraps. `ImplementsPool` is
  the refinement of `IndexPool`.
- `routes`: addresses of two octets with two bits each: the smallest in which
  byte order, a length within an octet and a prefix of a prefix differ. Prefixes
  of whole octets and others, the default route, texts that are refused, two
  groups, additions that may fail. A shift by the full width gives either of the
  two results machines give. `ExactForWholeOctets` and `ShownForNetworkMasks`
  check the conversions against the reference for all lengths.
- `tap_interfaces`: two ports and two descriptors, so that a descriptor is reused
  for another port while commands are in the pipes. `MaxPending = 2` lets a delete
  and an add of one descriptor wait together. Failed creations and interrupted
  `select` calls are included.
- `netdev`: two bridges, a physical port and a sub-interface; every step of the
  creation of the device, TAP creation and reads of port properties may fail.
  Ports share only the device, the mutex and the main thread, so one of each class
  is enough. One speed that OVS knows and one that it calls OTHER, and a set of
  supported features that lacks some of those asked for, give the features that the
  bridge has to keep up with. Deadlock is not checked: the main thread can wait for
  ever or abort.

Deadlock is checked in all the others.

### Statements of the repository that the code does not keep

| Run | Property | Statement | What happens |
|---|---|---|---|
| `mac_reader` | `ReadBufferStable` | `include/ops-fpa-mac-learning.h:39` | the hand-over after the one that published a buffer clears it, and it may come while the bridge reads |
| `mac_assert` | `NoAbort` | `src/ops-fpa-mac-learning.c:550` | a MAC on an id that only shares a bucket is learned; the bucket splits; ageing asserts |
| `host_egress` | `EntryHeldIsLive` | `include/ops-fpa-mac-learning.h:50` | ageing frees the entry between unlock and use |

`mac_assert` and `host_egress` do not check deadlock: in both the process can end
(a failed assertion, a missing entry).

## 4. Disagreements stated but without a run

These properties are defined in the modules and fail with the constants given;
TLC finds each in seconds.

| Property | Constants | Code |
|---|---|---|
| `HwExact` | those of `vlan_config.cfg` | `src/ops-fpa-ofproto.c:809`: from untagged to tagged egress the group is added, then deleted under the same identifier (`include/ops-fpa-vlan.h:36`: "allows us to process any vlan mode changes in a uniform, bitwise manner") |
| `NoShutdownVlan` | those of `vlan_config.cfg` | `src/ops-fpa-ofproto.c:469` leaves a removed bundle's membership in the ASIC |
| `NoForeignVlan` | those of `vlan_config.cfg`, `OfpPort <- OfpPortDiffers` | `src/ops-fpa-ofproto.c:871` fetches by OpenFlow number and deletes by port id |
| `PendingIsConfigured` | those of `vlan_ports.cfg`, `OfpPort <- OfpPortSwapped` | the same line, where the number is another port's id: the VIDXs of that port become pending at this one |
| `OwnPort` | those of `vlan_ports.cfg` | `src/ops-fpa-ofproto.c:61` gives the first port of the bucket (`:659`: "If the first port in the bundle has a pid, add it to ports_by_pid.") |
| `NoArpLeak` | those of `l3_any_caller.cfg` | `src/ops-fpa-ofproto.c:1037`: a failing L3 group or route loses the ARP index (`:43`: "max number of nexthop entries supported") |
| `DisabledOnRequest` (a PROPERTY) | those of `l3_any_caller.cfg`, `Faults = {}` | `src/ops-fpa-ofproto.c:1107` disables routing of an enabled interface with its last host |
| `RoutesOnReservedVlan` | as above, `Bundle = {b1}`, `System = {b1}`, `Vlan = {10, 20}`, `VlanOf <- ChangingVlan`, `PidOf <- Port1` | `src/ops-fpa-ofproto.c:729` looks at `enable` only |
| `WrittenToOwnTap` | those of `tap_interfaces.cfg`, `SPECIFICATION Spec`, `Faults = {}` | `src/ops-fpa-tap.c:898` writes to a descriptor that was closed and reused for another port (`:769`) |
| `SentWasRead` | as above | `src/ops-fpa-tap.c:662` lets a read that would block through |

Met while modelling, and not stated as properties:
- `src/ops-fpa-netdev.c:588` says "It must be a real interface" and only looks
  whether the switch id is there: a netdev whose initialisation stopped after that
  is let through, and the call to the library fails.
- `src/ops-fpa-dev.c:50` says that `ops_fpa_dev_by_id` increments the reference
  counter. It does not, and no caller gives a reference back.
- What follows the join in `ops_fpa_dev_deinit`, the `free` of the device
  included, is never reached (`DeviceKept`).
- The mask of a route whose length is no whole number of octets keeps the wrong
  bits of the last octet. `fpa/dev/ft-show` may then show another length (/24 for
  /20). A default route matches 0.0.0.0 only where a shift by 32 shifts by 0.
- The length of a next hop's address is parsed and ignored.
- `src/ops-fpa-netdev.c:541` leaves `props.flags` as it is on the stack, hands the
  structure to the library and then tests bits of it (`FeaturesSeen` is what holds
  all the same).

## 5. Fairness

- `MacLearning!FairSpec`: a flush and a read that began go on (weak fairness: the
  main thread runs). The timer and the callback are polled in every iteration of
  the daemon's loop, whatever else it serves, so neither is passed over for ever
  (strong fairness, as commands disable them for a while again and again).
  Nothing is assumed of the switch, the operator or the configuration.
- `TapInterfaces!FairSpec`: each listener is a thread of its own and an operation
  of the main thread that began goes on (weak fairness). The ASIC listener
  receives with a timeout. Nothing is assumed of traffic, of signals, or of new
  operations.
- `Netdev!Spec`: every iteration of the daemon's loop runs the netdev classes and
  refreshes the bridge's interfaces (weak fairness of a run in which all reads
  succeed, and of the refresh). That reads do not fail for ever is an assumption
  about the switch. Nothing is assumed of bridges and configuration.

## 6. Proofs

`tlapm <module>.tla` for each `*Proofs` module. The theorems hold for every value
of the constants that satisfies the assumption of the module
(`ConstantAssumption`, `VlanAssumption`, `L3Assumption`, `RouteAssumption`,
`TapAssumption`, `DeviceAssumption` and `NetdevAssumption`): types of the
constants, positive sizes, and null values that are not elements of the sets they
extend. `VlanConfig` has `NodesAssumption` as well: less than 2^17 nodes in the
port map, the range for which `BucketCount` is written down. Further assumptions
are in the statement of a theorem and given below.

**`LibProofs`**: lemmas that the others share, without constants.
- Loops. The library's induction theorems take a predicate as a parameter, which
  the provers cannot instantiate. `IntervalInduction` takes a set of numbers
  instead, and follows from the least element of a set of numbers
  (well-foundedness of `<`). From it follow that the states of a loop exist and are
  unique (`AfterTrace`), that a loop keeps an invariant given as a set of states
  per turn (`LoopInvariant`), and what a loop over a list does with one more
  element at the end or one less at the front (`AfterAllAppend`, `AfterAllHead`).
- The port map. `Holds(Port, m, D)` says that the map `m` consists of the ports
  `D`: the number of nodes is the number of elements of `D`, and there is a
  position for every port of `D` such that the head of a bucket is the port of the
  highest position in that bucket and the link of a port leads to the port one
  position lower, or to NULL (`Chained`). `Walking` is the invariant of the loop
  that moves a list in `hmap_resize`. `InsertHolds`: inserting a port that is not
  in `D` yields a map of `D` and that port, resize included, with the number of
  buckets that `PortMap` states. `Finds`: a look-up in such a map gives a port of
  the bucket if there is one, and NULL otherwise. This is `ResizeKeepsBuckets` for
  any ports and order.

**`VlanConfigProofs`**: any ports, port ids, VLANs, settings, numbers of failing
calls and next hops.
- `VlanTypes`: `[]TypeOK`, for any numbering, second insertions and cyclic lists
  included.
- `PendingConfigured`: `[]PendingIsConfigured`, where the OpenFlow number of a port
  is its id or no port's id (`OwnNumbers`; without it the property fails, see
  section 4). `WantInv` adds that the ASIC has nothing that the last settings of a clean port
  do not ask for, so that what a shutdown makes pending is configured.
- `NoForeignVlans`: `[]NoForeignVlan`, where OpenFlow numbers are port ids
  (`SameNumbers`; without it the property fails, see section 4). `NativeInv` is
  the property, inductive with `WantInv`.
- `PlainPortsExact`: `[]PlainExact`, under `SameNumbers`. `ExactInv` adds that the
  settings of a plain port do not clash among themselves, so that bringing a VLAN
  up or down keeps to exactly its VIDXs. All three use what a loop over VIDXs
  yields: whatever clashes, nothing but what was there and not deleted, and what
  was added (`LoopBounds`), and without clashes all of that (`LoopExact`). What a
  step does to one clean port is one of four things (`PortSteps`). For a shutdown
  this is an invariant of the loop over the bundles: a port has its VIDXs until
  its first visit and lacks those of the VLAN from then on (`VlanDownStep`), as a
  second visit finds none of them (`VisitShuts`).
- `LookupsAgree`: `[]LookupAgrees`, for any numbering. `MapInv` says that until a port is inserted
  twice the map holds exactly the known ports, in the sense of `LibProofs`.

**`MacLearningProofs`**
- `TypeCorrect`: `[]TypeOK`.
- `BatchNotStranded`: `[]NoStrandedBatch`. Not inductive alone: it does not say
  which buffer is read. `HandOver` adds that unread events are in the buffer not
  in use and, without a callback pending, that a reader is on that very buffer
  and has all of them before it.
- `RoomForEvents`: `[]RoomForNextEvent`. Adding an event makes at most one slot
  used (a lemma on cardinality), and a full buffer is switched for an empty one in
  the same step.
- `BridgeFollowsFdb`: `[]BridgeViewInFdb`, for any hash, collisions included. The
  invariant `ViewInv` adds `HandOver`, that an event is in the slot of its key
  (`InPlace`), and how the reader and the unread events keep step while nothing
  is lost (`InStep`). Each step then changes the view of at most one key that is
  not hidden, and that in accord with the FDB.

**`L3HostsProofs`**
- `TypeCorrect`: `[]TypeOK`, with a lemma per roll-back.
- `ArpIndicesUnique`: `[]ArpUnique`, for any failures and order of calls. The free
  indices are a least fixed point, which is awkward in induction. `ArpInv` asks
  instead for some set that holds the head, is closed under `arp`, contains no
  index of a host, and on which `arp` is injective. Taking an index removes it
  from the set and releasing one adds it; the free indices are always inside.
- `ArpIndicesImplementPool`: `Spec => ImplementsPool`, the refinement of
  `IndexPool`. The free indices with the end mark are themselves such a set, the
  least one; two lemmas say what taking the head and linking an index at the head
  do to it, and every step of `L3Hosts` is then one of the pool or a stutter.

**`L3RoutingProofs`**
- `RoutesCountExact`: `[]CountMatchesHosts`, for `Disciplined` callers and
  `N < CountMod`, whatever fails. That the counter does not wrap follows from the
  number of hosts, which have different indices.
- `RoutesKeepTheirHosts`: `[]RoutesLeadToHosts`, for `Disciplined` callers, when
  deleting a route does not fail and no prefix is the address of a host (both
  would have the same cookie). `RoutesInv` adds that no two hosts have one address.
- `RoutingIsAllOrNothing`: `[]RoutingAllOrNothing`, when interfaces share neither
  VLAN nor port (`OwnVlans`) and disabling does not fail. `FlowInv` adds that an
  interface routes on a VLAN of its own settings.

**`RouteTableProofs`**: addresses of any number and width of octets. For whole
octets the low bits of the value are the bits of the prefix (`AlignedMask`), so
that masks are nested as prefixes are.
- `LongestPrefixForwards`: `[]ForwardsByLongestPrefix`, when deletions do not fail
  (a flow that stays would still forward). `Mirrors` says that each flow is the
  entry of a route asked for and the other way round, with one of the masks of its
  length.
- `RoutesAreShown` and `RouteTypes`: `[]ShownAsConfigured` and `[]TypeOK`, whatever
  fails. `HeldInv` is the half of `Mirrors` that failing deletions keep.

**`NetdevProofs`**: seven theorems, on the two invariants `DeviceInv` (the
reference count with what is true before the device is created) and `NetdevInv`
(with it, the properties of the netdevs are inductive together). `DeviceNeverFreed`
is an action property: the last reference of a device with MAC learning is held
by the join, and one without it has a reference that nobody gives back.

**`TapInterfacesProofs`**: any ports, descriptors and numbers of commands.
`TapTypesHold`, `DescriptorsAnnounced` (`[]StaleEntryAnnounced`),
`OnlyFailureStops` (`[]StopsOnlyAfterFailure`) and `ListenersMirrorMain`
(`[]ListenersMirror`). The invariant `TapInv` adds what the main thread is sending and that it is about an
open descriptor (`MainInv`), who holds the mutex (`LockInv`), and `PipeInv`: an
entry of a listener, or an "add" in its pipe, whose descriptor is not open on that
port is followed by a "del". Closing a descriptor is the critical step: both
commands have been sent by then.

`ListenersMirrorMain` needs more, as it is about what all commands of a pipe leave:
`MirrorInv` states the equality at every step of the main thread, against the map
it had before or will have after the command it is sending, and `OwnInv` that
descriptors and ports are one to one, so that a "del" takes out one entry. A
command sent is applied last (`AfterAllAppend`); one taken is applied at once,
which does not change what all of them leave (`AfterAllHead`).

Only model-checked:
- liveness (`EventsReachBridge`, `NewInterfaceServed`, `CarrierFollows`): liveness
  under fairness and `ENABLED` are out of the prover's reach;
- `ExactForWholeOctets`, `ShownForNetworkMasks` and `ResizeKeepsBuckets`, which TLC
  evaluates as assumptions; the proofs contain more general facts.

Every other property of a passing run has a theorem. The three violated ones have
none, and neither have those of section 4.

## 7. Not modelled

- Stubs, wrappers, formatting, statistics, dumps and registration: no state that
  decides anything.
- `ops_fpa_tap_deinit` and the rest of the device's release: never reached, since
  the release first joins the endless MAC learning thread.
- `bundle_ip_reconfigure`: its host entries carry no MAC and are refused.
- A full control pipe, to which `send_ctrl_cmd` would write in vain: thousands of
  commands would have to wait, and `MaxPending` bounds the pipe below that. A
  listener that runs takes all of them in one turn. A TAP listener that a signal
  ended (`SelectInterrupted`) takes none any more, so that its pipe does fill up in
  the end; no packet leaves through it by then, and what is lost are commands to
  nobody.
- A `GetNext` call that fails half-way through a table, which
  `ops_fpa_vlan_fetch` takes for the end of the table; and a group whose bucket can
  neither be added nor the group be deleted again, which is taken to be absent.
- A port freed while it is in `ports_by_pid`: what is read then is undefined.
- Prefix lengths below zero, which `ops_fpa_str2ip` does not refuse and OVS does
  not give.
- Packet contents, MAC addresses of netdevs, the ageing time, the internal and
  loopback netdev classes: values handed on, or fields only their owner reads.

## 8. What could follow

1. The event buffers as a refinement of a lossy channel from the FDB to the
   bridge, with the losses that `hidden` and `overrun` record.
2. A control pipe with its real capacity, and what a lost command leaves behind.
3. `L3Hosts` and `RouteTable` over one table, so that a host and a route of full
   length to its address meet.
