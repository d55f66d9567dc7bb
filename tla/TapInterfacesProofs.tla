------------------------ MODULE TapInterfacesProofs ------------------------
(***************************************************************************)
(* For any number of ports and descriptors, pipes of any length, any       *)
(* interleaving of the three threads and any failure: the types, that a    *)
(* descriptor is announced before it is closed, that only a failed         *)
(* ops_fpa_tap_if_create can leave fpa_dev_mutex locked, and that the      *)
(* listeners' maps follow the main thread's.                               *)
(***************************************************************************)
EXTENDS TapInterfaces, LibProofs

Add(f, p) == [type |-> "add", fd |-> f, port |-> p]
Del(f, p) == [type |-> "del", fd |-> f, port |-> p]

(* The listener t has, or will be told to have, port p at descriptor f     *)
(* only until a "del" that is in its pipe.                                 *)
HasEntry(t, f, p) == IF t = "tap" THEN <<f, p>> \in tmap ELSE <<p, f>> \in amap

Withdrawn(t, f, p) ==
  /\ HasEntry(t, f, p) => \E j \in 1 .. Len(pipe[t]) : pipe[t][j] = Del(f, p)
  /\ \A i \in 1 .. Len(pipe[t]) : pipe[t][i] = Add(f, p) =>
       \E j \in i + 1 .. Len(pipe[t]) : pipe[t][j] = Del(f, p)

Sending == main.pc \in {"tap", "asic", "close"}

(* The main thread: what it is sending is about an open descriptor, and    *)
(* its own map never has a closed one.                                     *)
MainInv ==
  /\ Sending => main.cmd \in Cmd /\ open[main.cmd.fd] = main.cmd.port
  /\ main.pc = "close" => /\ main.cmd.type = "del"
                          /\ info[main.cmd.fd] = NoPort
  /\ \A f \in Fd : info[f] # NoPort => open[f] = info[f]

(* The netdevs and the mutex.                                              *)
LockInv ==
  /\ \A p \in Port : tap_fd[p] # 0 =>
       \/ info[tap_fd[p]] = p
       \/ main.pc = "close" /\ p = main.cmd.port
  /\ mutex => failed \/ main.pc \in {"tap", "asic"}
  /\ StopsOnlyAfterFailure

(* The listeners.                                                          *)
PipeInv ==
  /\ \A t \in Thread, f \in Fd, p \in Port : open[f] = p \/ Withdrawn(t, f, p)
  /\ main.pc = "asic" /\ main.cmd.type = "del" =>
       Withdrawn("tap", main.cmd.fd, main.cmd.port)
  /\ main.pc = "close" =>
       \A t \in Thread : Withdrawn(t, main.cmd.fd, main.cmd.port)

TapInv == TypeOK /\ MainInv /\ LockInv /\ PipeInv

-----------------------------------------------------------------------------
MainState == [pc : {"idle", "tap", "asic", "close", "stopped"},
              cmd : Cmd \cup {NoCmd}]
TapState == [pc : {"select", "commands", "read", "send", "exited"},
             rd : SUBSET Fd, from : Port \cup {NoPort}, to : Port \cup {NoPort}]
AsicState == [pc : {"receive", "commands", "write"},
              pkt : Port \cup {NoPort}, fd : Fd \cup {0}]

(* The states in which the threads wait for something to do.               *)
LEMMA StartStates ==
  /\ Idle \in MainState /\ Idle.pc = "idle"
  /\ Selecting \in TapState /\ Selecting.pc = "select"
  /\ Receiving \in AsicState /\ Receiving.pc = "receive"
BY DEF Idle, MainState, Selecting, TapState, Receiving, AsicState

(* open() returns a descriptor that is free, if there is one.              *)
LEMMA LowestFreeIsFree ==
  ASSUME FreeFds # {}
  PROVE  LowestFree \in Fd /\ open[LowestFree] = NoPort
<1>1. MaxFd \in Nat /\ FreeFds \in SUBSET (0 .. MaxFd)
  BY TapAssumption DEF FreeFds, Fd
<1>2. \E f \in FreeFds : \A g \in FreeFds : f <= g
  BY <1>1, LeastElement
<1>3. LowestFree \in FreeFds
  BY <1>2, SMTT(30) DEF LowestFree
<1> QED
  BY <1>3 DEF FreeFds

(* The steps of the listeners and the host are invisible to the main       *)
(* thread.                                                                 *)
Others ==
  \/ \E p \in Port : PacketFromHost(p)
  \/ tap_listener
  \/ SelectInterrupted
  \/ asic_listener

(* Only the main thread writes what is its own.                            *)
LEMMA OthersLeaveMain ==
  ASSUME Others
  PROVE  UNCHANGED <<mainVars, open>>
BY Zenon DEF Others, PacketFromHost, tap_listener, TapSelect, TapCommand, TapRead,
       TapSend, TapNextTurn, SelectInterrupted, asic_listener, AsicReceive,
       AsicCommand, AsicLookup, AsicWrite

(* No interface, no descriptor and no command: the invariant holds.        *)
LEMMA InitInv == Init => TapInv
<1> SUFFICES ASSUME Init PROVE TapInv
  OBVIOUS
<1>1. TypeOK
  <2>1. pipe \in [Thread -> Seq(Cmd)] /\ tbuf \in [filled : BOOLEAN, timed : BOOLEAN]
    BY DEF Init
  <2>2. main \in MainState /\ tl \in TapState /\ al \in AsicState
    BY StartStates DEF Init
  <2> QED
    BY <2>1, <2>2, Zenon DEF Init, TypeOK, MainState, TapState, AsicState
<1>2. MainInv
  BY DEF Init, MainInv, Sending, Idle
<1>3. LockInv
  BY DEF Init, LockInv, StopsOnlyAfterFailure, Idle
<1>4. PipeInv
  BY DEF Init, PipeInv, Withdrawn, HasEntry, Idle, Thread
<1> QED
  BY <1>1, <1>2, <1>3, <1>4 DEF TapInv

-----------------------------------------------------------------------------
(* The types.                                                              *)
MainType ==
  /\ mutex \in BOOLEAN /\ failed \in BOOLEAN
  /\ tap_fd \in [Port -> Fd \cup {0}]
  /\ info \in [Fd -> Port \cup {NoPort}]
  /\ open \in [Fd -> Port \cup {NoPort}]
  /\ main \in MainState

TapType ==
  /\ tmap \subseteq Fd \X Port
  /\ tl \in TapState
  /\ tbuf \in [filled : BOOLEAN, timed : BOOLEAN]

AsicType ==
  /\ amap \subseteq Port \X Fd
  /\ al \in AsicState

PipeType == queue \subseteq Port /\ pipe \in [Thread -> Seq(Cmd)]

(* TypeOK by threads.                                                      *)
LEMMA TypeParts == TypeOK <=> MainType /\ TapType /\ AsicType /\ PipeType
BY DEF TypeOK, MainType, TapType, AsicType, PipeType, MainState, TapState,
       AsicState

(* Creating opens a free descriptor, and deleting finds the netdev's own   *)
(* entry.                                                                  *)
LEMMA CreateStep ==
  ASSUME TapInv, NEW p \in Port, CreateSucceeds(p)
  PROVE  \E f \in Fd :
           /\ open[f] = NoPort /\ Add(f, p) \in Cmd
           /\ open' = [open EXCEPT ![f] = p]
           /\ info' = [info EXCEPT ![f] = p]
           /\ tap_fd' = [tap_fd EXCEPT ![p] = f]
           /\ main' = [pc |-> "tap", cmd |-> Add(f, p)]
<1>1. LowestFree \in Fd /\ open[LowestFree] = NoPort
  BY LowestFreeIsFree DEF CreateSucceeds
<1>2. Add(LowestFree, p) \in Cmd
  BY <1>1 DEF Add, Cmd
<1> QED
  BY <1>1, <1>2, Zenon DEF CreateSucceeds, Add

(* Destroying a netdev stops at the mutex or begins the "del" of the       *)
(* descriptor that its TAP interface has.                                  *)
LEMMA DeleteStep ==
  ASSUME TapInv, NEW p \in Port, ops_fpa_netdev_destruct(p)
  PROVE  /\ UNCHANGED <<tap_fd, info, open, failed, queue, pipe, tapVars, asicVars>>
         /\ \/ LockStops
            \/ /\ tap_fd[p] \in Fd /\ info[tap_fd[p]] = p
               /\ Del(tap_fd[p], p) \in Cmd
               /\ mutex' = TRUE
               /\ main' = [pc |-> "tap", cmd |-> Del(tap_fd[p], p)]
<1>1. tap_fd[p] # 0 /\ main.pc = "idle"
  BY DEF ops_fpa_netdev_destruct, ops_fpa_tap_if_delete
<1>2. tap_fd[p] \in Fd /\ info[tap_fd[p]] = p /\ info[tap_fd[p]] # NoPort
  BY <1>1, TapAssumption DEF TapInv, TypeOK, LockInv
<1>3. Del(tap_fd[p], p) \in Cmd
  BY <1>2 DEF Del, Cmd
<1>4. UNCHANGED <<tap_fd, info, open, failed, queue, pipe, tapVars, asicVars>>
  <2>1. CASE LockStops
    BY <2>1 DEF ops_fpa_netdev_destruct, ops_fpa_tap_if_delete, LockStops,
                tapVars, asicVars
  <2>2. CASE ~LockStops
    BY <2>2 DEF ops_fpa_netdev_destruct, ops_fpa_tap_if_delete, tapVars, asicVars
  <2> QED
    BY <2>1, <2>2
<1>5. \/ LockStops
      \/ /\ mutex' = TRUE
         /\ main' = [pc |-> "tap", cmd |-> Del(tap_fd[p], p)]
  BY <1>2 DEF ops_fpa_netdev_destruct, ops_fpa_tap_if_delete, Del
<1> QED
  BY <1>2, <1>3, <1>4, <1>5

(* Every step keeps the types of the main thread's state.                  *)
LEMMA MainTypes ==
  ASSUME TapInv, [Next]_vars
  PROVE  MainType'
<1>0. MainType /\ MainInv
  BY TypeParts DEF TapInv
<1>00. [Idle EXCEPT !.pc = "stopped"] \in MainState
  BY StartStates DEF MainState
<1> USE <1>0 DEF MainType
<1>1. ASSUME NEW p \in Port, ops_fpa_netdev_set_hw_intf_info(p)
      PROVE  MainType'
  <2>1. CASE LockStops
    BY <1>1, <2>1, <1>00 DEF LockStops
  <2>2. CASE CreateFails
    BY <1>1, <2>2 DEF CreateFails
  <2>3. CASE CreateSucceeds(p)
    <3>1. PICK f \in Fd : /\ Add(f, p) \in Cmd
                          /\ open' = [open EXCEPT ![f] = p]
                          /\ info' = [info EXCEPT ![f] = p]
                          /\ tap_fd' = [tap_fd EXCEPT ![p] = f]
                          /\ main' = [pc |-> "tap", cmd |-> Add(f, p)]
      BY <2>3, CreateStep
    <3>2. main' \in MainState
      BY <3>1 DEF MainState
    <3>3. mutex' \in BOOLEAN /\ failed' \in BOOLEAN
      BY <2>3 DEF CreateSucceeds
    <3> QED
      BY <3>1, <3>2, <3>3
  <2> QED
    BY <1>1, <2>1, <2>2, <2>3 DEF ops_fpa_netdev_set_hw_intf_info,
                                  ops_fpa_tap_if_create
<1>2. ASSUME NEW p \in Port, ops_fpa_netdev_destruct(p)
      PROVE  MainType'
  <2>1. CASE LockStops
    BY <2>1, <1>00 DEF LockStops
  <2>2. CASE ~LockStops
    <3>1. /\ Del(tap_fd[p], p) \in Cmd /\ mutex' = TRUE
          /\ main' = [pc |-> "tap", cmd |-> Del(tap_fd[p], p)]
          /\ UNCHANGED <<tap_fd, info, open, failed>>
      BY <1>2, <2>2, DeleteStep, Zenon
    <3>2. main' \in MainState
      BY <3>1 DEF MainState
    <3> QED
      BY <3>1, <3>2
  <2> QED
    BY <2>1, <2>2
<1>3. CASE SendTap
  BY <1>3 DEF SendTap, MainState
<1>4. CASE SendAsic
  BY <1>4, StartStates, Zenon DEF SendAsic, MainInv, Sending, Cmd, MainState
<1>5. CASE CloseFd
  BY <1>5, StartStates DEF CloseFd, MainInv, Sending, Cmd
<1>6. CASE Others \/ UNCHANGED vars
  BY <1>6, OthersLeaveMain DEF vars, mainVars
<1> QED
  BY <1>1, <1>2, <1>3, <1>4, <1>5, <1>6 DEF Next, Others


(* Every step keeps the types of the TAP listener's state.                 *)
LEMMA TapTypes ==
  ASSUME TapInv, [Next]_vars
  PROVE  TapType' /\ queue' \subseteq Port
<1>0. TapType /\ PipeType /\ MainType
  BY TypeParts DEF TapInv
<1>1. CASE TapSelect
  <2>1. ReadFds \in SUBSET Fd
    BY <1>0 DEF ReadFds, TapType
  <2>2. [Selecting EXCEPT !.pc = "commands", !.rd = ReadFds] \in TapState
    BY <2>1, StartStates, Zenon DEF TapState
  <2>3. ASSUME NEW pc \in {"read", "commands"}, NEW rd \in SUBSET Fd
        PROVE  [Selecting EXCEPT !.pc = pc, !.rd = rd] \in TapState
    BY StartStates, Zenon DEF TapState
  <2>4. tl' \in TapState
    <3>1. CASE SelectFails
      BY <2>2, <3>1, SMTT(30) DEF SelectFails
    <3>2. CASE SelectReturns
      <4> DEFINE ready == {f \in ReadFds : open[f] \in queue}
                 pc == IF pipe["tap"] = <<>> THEN "read" ELSE "commands"
      <4>1. ready \in SUBSET Fd /\ pc \in {"read", "commands"}
        BY <2>1
      <4>2. tl' = [Selecting EXCEPT !.pc = pc, !.rd = ready]
        BY <3>2 DEF SelectReturns
      <4> HIDE DEF ready, pc
      <4> QED
        BY <2>3, <4>1, <4>2, Zenon
    <3> QED
      BY <1>1, <3>1, <3>2 DEF TapSelect
  <2> QED
    BY <1>0, <1>1, <2>4 DEF TapSelect, TapType, PipeType
<1>2. CASE TapCommand
  <2>1. pipe["tap"] \in Seq(Cmd)
    BY <1>0 DEF PipeType, Thread
  <2>2. CASE pipe["tap"] # <<>>
    <3>1. Head(pipe["tap"]) \in Cmd
      BY <2>1, <2>2
    <3>2. ApplyTap(tmap, Head(pipe["tap"])) \subseteq Fd \X Port
      BY <1>0, <3>1 DEF ApplyTap, Entries, TapType, Cmd
    <3> QED
      BY <1>0, <1>2, <2>2, <3>2 DEF TapCommand, TapType, PipeType
  <2>3. CASE pipe["tap"] = <<>>
    BY <1>0, <1>2, <2>3, SMTT(30) DEF TapCommand, TapType, PipeType, TapState
  <2> QED
    BY <2>2, <2>3
<1>3. CASE TapRead
  <2>1. ASSUME NEW f \in Fd, NEW from \in Port \cup {NoPort}, Forward(f, from)
        PROVE  tl' \in TapState /\ tbuf' \in [filled : BOOLEAN, timed : BOOLEAN]
    <3>1. tbuf' \in [filled : BOOLEAN, timed : BOOLEAN]
      BY <1>0, <2>1, Zenon DEF Forward, TapType
    <3>2. \A e \in Entries(tmap, f) : e[2] \in Port
      BY <1>0, SMTT(30) DEF Entries, TapType
    <3>3. tl' \in TapState
      <4>1. [tl EXCEPT !.rd = @ \ {f}] \in TapState
        BY <1>0 DEF TapType, TapState
      <4>2. ASSUME NEW to \in Port
            PROVE  [tl EXCEPT !.pc = "send", !.rd = @ \ {f},
                              !.from = from, !.to = to] \in TapState
        BY <1>0, Zenon DEF TapType, TapState
      <4> QED
        BY <2>1, <3>2, <4>1, <4>2, ZenonT(40) DEF Forward
    <3> QED
      BY SMTT(30), <3>1, <3>3
  <2>2. tl.rd # {} /\ tl.rd \in SUBSET Fd
    BY <1>0, <1>3 DEF TapRead, TapType, TapState
  <2> DEFINE f == CHOOSE f \in tl.rd : \A g \in tl.rd : f <= g
  <2>3. f \in Fd
    <3>1. MaxFd \in Nat /\ tl.rd \in SUBSET (0 .. MaxFd)
      BY <2>2, TapAssumption DEF Fd
    <3>2. \E g \in tl.rd : \A h \in tl.rd : g <= h
      BY <2>2, <3>1, LeastElement
    <3> QED
      BY <2>2, <3>2
  <2>4. \/ /\ tl' = [tl EXCEPT !.rd = @ \ {f}]
           /\ UNCHANGED <<queue, tbuf>>
        \/ /\ open[f] \in queue
           /\ queue' = queue \ {open[f]}
           /\ Forward(f, open[f])
        \/ Forward(f, NoPort) /\ UNCHANGED queue
    BY <1>3 DEF TapRead
  <2>5. UNCHANGED tmap
    BY <1>3 DEF TapRead
  <2> HIDE DEF f
  <2>6. CASE tl' = [tl EXCEPT !.rd = @ \ {f}] /\ UNCHANGED <<queue, tbuf>>
    BY <1>0, <2>5, <2>6 DEF TapType, TapState, PipeType
  <2>7. CASE open[f] \in queue /\ queue' = queue \ {open[f]} /\ Forward(f, open[f])
    BY <1>0, <2>1, <2>3, <2>5, <2>7 DEF TapType, PipeType
  <2>8. CASE Forward(f, NoPort) /\ UNCHANGED queue
    BY <1>0, <2>1, <2>3, <2>5, <2>8 DEF TapType, PipeType
  <2> QED
    BY <2>4, <2>6, <2>7, <2>8
<1>4. CASE TapSend \/ TapNextTurn \/ SelectInterrupted
  BY <1>0, <1>4, StartStates, Zenon DEF TapSend, TapNextTurn,
     SelectInterrupted, TapType,
    PipeType, TapState
<1>5. CASE CloseFd
  BY <1>0, <1>5 DEF CloseFd, TapType, PipeType, tapVars
<1>6. ASSUME NEW p \in Port, PacketFromHost(p)
      PROVE  TapType' /\ queue' \subseteq Port
  BY <1>0, <1>6 DEF PacketFromHost, TapType, PipeType, tapVars
<1>7. CASE asic_listener \/ SendTap \/ SendAsic \/ UNCHANGED vars
  BY <1>0, <1>7, Zenon DEF asic_listener, AsicReceive, AsicCommand, AsicLookup,
     AsicWrite,
    SendTap, SendAsic, vars, TapType, PipeType, tapVars
<1>8. ASSUME NEW p \in Port,
             ops_fpa_netdev_set_hw_intf_info(p) \/ ops_fpa_netdev_destruct(p)
      PROVE  TapType' /\ queue' \subseteq Port
  BY <1>0, <1>8 DEF ops_fpa_netdev_set_hw_intf_info, ops_fpa_tap_if_create,
    ops_fpa_netdev_destruct, ops_fpa_tap_if_delete, TapType, PipeType, tapVars
<1> QED
  BY <1>1, <1>2, <1>3, <1>4, <1>5, <1>6, <1>7, <1>8 DEF Next, tap_listener

(* Every step keeps the types of the ASIC listener's state.                *)
LEMMA AsicTypes ==
  ASSUME TapInv, [Next]_vars
  PROVE  AsicType'
<1>0. AsicType /\ PipeType
  BY TypeParts DEF TapInv
<1>1. ASSUME NEW p \in Port \cup {NoPort}, AsicReceive(p)
      PROVE  AsicType'
  BY <1>0, <1>1, ZenonT(40) DEF AsicReceive, AsicType, AsicState
<1>2. CASE AsicCommand
  <2>1. pipe["asic"] \in Seq(Cmd) /\ pipe["asic"] # <<>>
    BY <1>0, <1>2 DEF PipeType, Thread, AsicCommand
  <2>2. Head(pipe["asic"]) \in Cmd
    BY <2>1
  <2>3. ApplyAsic(amap, Head(pipe["asic"])) \subseteq Port \X Fd
    BY <1>0, <2>2, SMTT(30) DEF ApplyAsic, Entries, AsicType, Cmd
  <2> QED
    BY <1>0, <1>2, <2>3 DEF AsicCommand, AsicType
<1>3. CASE AsicLookup
  <2>1. \A e \in Entries(amap, al.pkt) : e[2] \in Fd
    BY <1>0 DEF Entries, AsicType
  <2>2. ASSUME NEW fd \in Fd
        PROVE  [al EXCEPT !.pc = "write", !.fd = fd] \in AsicState
    BY <1>0, Zenon DEF AsicType, AsicState
  <2> QED
    BY <1>0, <1>3, <2>1, <2>2, StartStates, Zenon DEF AsicLookup, AsicType
<1>4. CASE AsicWrite
  BY <1>0, <1>4, StartStates DEF AsicWrite, AsicType
<1>5. ASSUME NEW p \in Port,
             \/ ops_fpa_netdev_set_hw_intf_info(p)
             \/ ops_fpa_netdev_destruct(p)
             \/ PacketFromHost(p)
      PROVE  AsicType'
  BY <1>0, <1>5 DEF ops_fpa_netdev_set_hw_intf_info, ops_fpa_tap_if_create,
    ops_fpa_netdev_destruct, ops_fpa_tap_if_delete, PacketFromHost, AsicType,
    asicVars
<1>6. CASE SendTap \/ SendAsic \/ CloseFd \/ SelectInterrupted \/ UNCHANGED vars
  BY <1>0, <1>6 DEF SendTap, SendAsic, CloseFd, SelectInterrupted, vars, AsicType,
    asicVars
<1>7. CASE tap_listener
  BY <1>0, <1>7 DEF tap_listener, TapSelect, TapCommand, TapRead, TapSend,
    TapNextTurn, AsicType, asicVars
<1> QED
  BY <1>1, <1>2, <1>3, <1>4, <1>5, <1>6, <1>7 DEF Next, asic_listener

(* What happens to a pipe: a command is added at the end, or the first one *)
(* is taken and applied, or neither.                                       *)
Sends(t) ==
  /\ main.cmd \in Cmd
  /\ pipe' = [pipe EXCEPT ![t] = Append(@, main.cmd)]
  /\ UNCHANGED <<tmap, amap>>

Receives(t) ==
  /\ pipe[t] # <<>>
  /\ pipe' = [pipe EXCEPT ![t] = Tail(@)]
  /\ IF t = "tap" THEN /\ tmap' = ApplyTap(tmap, Head(pipe["tap"]))
                       /\ UNCHANGED amap
                  ELSE /\ amap' = ApplyAsic(amap, Head(pipe["asic"]))
                       /\ UNCHANGED tmap

Quiet == UNCHANGED <<pipe, tmap, amap>>

(* A step sends one command, takes one, or touches neither pipes nor maps. *)
LEMMA PipeSteps ==
  ASSUME TapInv, [Next]_vars
  PROVE  \/ SendTap /\ Sends("tap")
         \/ SendAsic /\ Sends("asic")
         \/ Others /\ \E t \in Thread : Receives(t)
         \/ ~SendTap /\ ~SendAsic /\ Quiet
<1>1. CASE SendTap
  BY <1>1 DEF SendTap, Sends, TapInv, MainInv, Sending, tapVars, asicVars
<1>2. CASE SendAsic
  BY <1>2 DEF SendAsic, Sends, TapInv, MainInv, Sending, tapVars, asicVars
<1>3. CASE ~SendTap /\ ~SendAsic
  <2>1. CASE TapCommand /\ pipe["tap"] # <<>>
    <3>1. Receives("tap")
      BY <2>1 DEF TapCommand, Receives, asicVars
    <3> QED
      BY <2>1, <3>1 DEF Others, tap_listener, Thread
  <2>2. CASE AsicCommand
    <3>1. Receives("asic")
      BY <2>2 DEF AsicCommand, Receives, tapVars
    <3> QED
      BY <2>2, <3>1 DEF Others, asic_listener, Thread
  <2>3. CASE TapCommand /\ pipe["tap"] = <<>>
    BY <1>3, <2>3 DEF TapCommand, Quiet, asicVars
  <2>4. CASE tap_listener /\ ~TapCommand
    BY <1>3, <2>4, SMTT(30) DEF tap_listener, TapSelect, TapRead, TapSend,
      TapNextTurn, Quiet, asicVars
  <2>5. CASE asic_listener /\ ~AsicCommand
    BY <1>3, <2>5, Zenon DEF asic_listener, AsicReceive, AsicLookup, AsicWrite,
       Quiet,
      tapVars
  <2>6. CASE CloseFd \/ SelectInterrupted \/ UNCHANGED vars
    BY <1>3, <2>6 DEF CloseFd, SelectInterrupted, vars, Quiet, tapVars, asicVars
  <2>7. ASSUME NEW p \in Port,
               \/ ops_fpa_netdev_set_hw_intf_info(p)
               \/ ops_fpa_netdev_destruct(p)
               \/ PacketFromHost(p)
        PROVE  Quiet
    BY <2>7 DEF ops_fpa_netdev_set_hw_intf_info, ops_fpa_tap_if_create,
      ops_fpa_netdev_destruct, ops_fpa_tap_if_delete, PacketFromHost, Quiet,
      tapVars, asicVars
  <2> QED
    BY <1>3, <2>1, <2>2, <2>3, <2>4, <2>5, <2>6, <2>7, SMTT(30) DEF Next
<1> QED
  BY <1>1, <1>2, <1>3

(* Pipes hold commands.                                                    *)
LEMMA PipeTypes ==
  ASSUME TapInv, [Next]_vars
  PROVE  pipe' \in [Thread -> Seq(Cmd)]
<1>0. pipe \in [Thread -> Seq(Cmd)] /\ "tap" \in Thread /\ "asic" \in Thread
  BY DEF TapInv, TypeOK, Thread
<1>1. ASSUME NEW t \in Thread, Sends(t)
      PROVE  pipe' \in [Thread -> Seq(Cmd)]
  BY <1>0, <1>1 DEF Sends
<1>2. ASSUME NEW t \in Thread, Receives(t)
      PROVE  pipe' \in [Thread -> Seq(Cmd)]
  <2>1. pipe[t] \in Seq(Cmd) /\ Tail(pipe[t]) \in Seq(Cmd)
    BY <1>0, <1>2 DEF Receives
  <2> QED
    BY <1>0, <1>2, <2>1 DEF Receives
<1> QED
  BY <1>0, <1>1, <1>2, PipeSteps DEF Quiet

-----------------------------------------------------------------------------
(* The main thread.                                                        *)
LEMMA MainInductive ==
  ASSUME TapInv, [Next]_vars
  PROVE  MainInv'
<1>0. MainInv /\ MainType
  BY TypeParts DEF TapInv
<1>1. ASSUME NEW p \in Port, ops_fpa_netdev_set_hw_intf_info(p)
      PROVE  MainInv'
  <2>1. CASE LockStops
    <3>1. main'.pc = "stopped"
      BY <2>1, StartStates DEF LockStops, MainState
    <3> QED
      BY <1>0, <2>1, <3>1 DEF LockStops, MainInv, Sending
  <2>2. CASE CreateFails
    BY <1>0, <2>2 DEF CreateFails, MainInv, Sending
  <2>3. CASE CreateSucceeds(p)
    <3>1. PICK f \in Fd : /\ open[f] = NoPort /\ Add(f, p) \in Cmd
                          /\ open' = [open EXCEPT ![f] = p]
                          /\ info' = [info EXCEPT ![f] = p]
                          /\ main' = [pc |-> "tap", cmd |-> Add(f, p)]
      BY <2>3, CreateStep
    <3>2. Add(f, p).fd = f /\ Add(f, p).port = p
      BY DEF Add
    <3> QED
      BY <1>0, <3>1, <3>2 DEF MainInv, MainType, Sending
  <2> QED
    BY <1>1, <2>1, <2>2, <2>3 DEF ops_fpa_netdev_set_hw_intf_info,
                                  ops_fpa_tap_if_create
<1>2. ASSUME NEW p \in Port, ops_fpa_netdev_destruct(p)
      PROVE  MainInv'
  <2>1. CASE LockStops
    <3>1. main'.pc = "stopped"
      BY <2>1, StartStates DEF LockStops, MainState
    <3> QED
      BY <1>0, <2>1, <3>1 DEF LockStops, MainInv, Sending
  <2>2. CASE ~LockStops
    <3>1. /\ Del(tap_fd[p], p) \in Cmd
          /\ tap_fd[p] \in Fd /\ info[tap_fd[p]] = p
          /\ main' = [pc |-> "tap", cmd |-> Del(tap_fd[p], p)]
          /\ UNCHANGED <<info, open>>
      BY <1>2, <2>2, DeleteStep, Zenon
    <3>2. Del(tap_fd[p], p).fd = tap_fd[p] /\ Del(tap_fd[p], p).port = p
      BY DEF Del
    <3>3. p # NoPort
      BY TapAssumption
    <3> QED
      BY <1>0, <3>1, <3>2, <3>3 DEF MainInv, Sending
  <2> QED
    BY SMTT(30), <2>1, <2>2
<1>3. CASE SendTap
  BY <1>0, <1>3 DEF SendTap, MainInv, MainType, MainState, Sending
<1>4. CASE SendAsic
  BY <1>0, <1>4, StartStates DEF SendAsic, MainInv, MainType, MainState,
     Sending, Cmd
<1>5. CASE CloseFd
  BY <1>0, <1>5, StartStates DEF CloseFd, MainInv, MainType, Sending, Cmd
<1>6. CASE Others \/ UNCHANGED vars
  BY <1>0, <1>6, OthersLeaveMain, SMTT(30) DEF vars, mainVars, MainInv, Sending
<1> QED
  BY <1>1, <1>2, <1>3, <1>4, <1>5, <1>6 DEF Next, Others

(* Every step keeps the account of who holds fpa_dev_mutex.                *)
LEMMA LockInductive ==
  ASSUME TapInv, [Next]_vars
  PROVE  LockInv'
<1>0. LockInv /\ MainInv /\ MainType
  BY TypeParts DEF TapInv
<1>1. ASSUME LockStops
      PROVE  main'.pc = "stopped" /\ UNCHANGED <<mutex, tap_fd, info, failed>>
  BY <1>1, StartStates DEF LockStops, MainState
<1>2. ASSUME NEW p \in Port, ops_fpa_netdev_set_hw_intf_info(p)
      PROVE  LockInv'
  <2>0. main.pc = "idle"
    BY <1>2 DEF ops_fpa_netdev_set_hw_intf_info, ops_fpa_tap_if_create
  <2>1. CASE LockStops
    BY <1>0, <1>1, <2>0, <2>1 DEF LockStops, LockInv, StopsOnlyAfterFailure
  <2>2. CASE CreateFails
    BY <1>0, <2>0, <2>2 DEF CreateFails, LockInv, StopsOnlyAfterFailure
  <2>3. CASE CreateSucceeds(p)
    <3>1. PICK f \in Fd : /\ open[f] = NoPort
                          /\ info' = [info EXCEPT ![f] = p]
                          /\ tap_fd' = [tap_fd EXCEPT ![p] = f]
                          /\ main' = [pc |-> "tap", cmd |-> Add(f, p)]
      BY <2>3, CreateStep
    <3>2. info[f] = NoPort
      BY <1>0, <3>1 DEF MainInv
    <3>3. ASSUME NEW q \in Port, tap_fd'[q] # 0
          PROVE  info'[tap_fd'[q]] = q
      <4>1. CASE q = p
        BY <1>0, <3>1, <4>1 DEF MainType
      <4>2. CASE q # p
        <5>1. tap_fd'[q] = tap_fd[q] /\ tap_fd[q] \in Fd /\ info[tap_fd[q]] = q
          BY <1>0, <2>0, <3>1, <3>3, <4>2 DEF MainType, LockInv
        <5>2. tap_fd[q] # f
          BY <3>2, <5>1, TapAssumption
        <5> QED
          BY <1>0, <3>1, <5>1, <5>2 DEF MainType
      <4> QED
        BY <4>1, <4>2
    <3> QED
      BY <3>1, <3>3 DEF LockInv, StopsOnlyAfterFailure
  <2> QED
    BY <1>2, <2>1, <2>2, <2>3 DEF ops_fpa_netdev_set_hw_intf_info,
                                  ops_fpa_tap_if_create
<1>3. ASSUME NEW p \in Port, ops_fpa_netdev_destruct(p)
      PROVE  LockInv'
  <2>0. main.pc = "idle"
    BY <1>3 DEF ops_fpa_netdev_destruct, ops_fpa_tap_if_delete
  <2>1. CASE LockStops
    BY <1>0, <1>1, <2>0, <2>1 DEF LockStops, LockInv, StopsOnlyAfterFailure
  <2>2. CASE ~LockStops
    <3>1. /\ main' = [pc |-> "tap", cmd |-> Del(tap_fd[p], p)]
          /\ UNCHANGED <<tap_fd, info>>
      BY <1>3, <2>2, DeleteStep, Zenon
    <3> QED
      BY <1>0, <2>0, <3>1 DEF LockInv, StopsOnlyAfterFailure
  <2> QED
    BY <2>1, <2>2
<1>4. CASE SendTap
  BY <1>0, <1>4 DEF SendTap, LockInv, MainType, MainState, StopsOnlyAfterFailure
<1>5. CASE SendAsic
  <2>0. main.cmd \in Cmd /\ open[main.cmd.fd] = main.cmd.port /\ main.pc = "asic"
    BY <1>0, <1>5 DEF SendAsic, MainInv, Sending
  <2>1. CASE main.cmd.type = "add"
    BY <1>0, <1>5, <2>0, <2>1, StartStates DEF SendAsic, LockInv,
      StopsOnlyAfterFailure
  <2>2. CASE main.cmd.type = "del"
    <3>1. /\ main'.pc = "close" /\ main'.cmd = main.cmd
          /\ info' = [info EXCEPT ![main.cmd.fd] = NoPort]
          /\ mutex' = FALSE /\ UNCHANGED tap_fd
      BY <1>0, <1>5, <2>2 DEF SendAsic, MainType, MainState
    <3>2. ASSUME NEW q \in Port, tap_fd[q] # 0, q # main.cmd.port
          PROVE  info'[tap_fd[q]] = q
      <4>1. tap_fd[q] \in Fd /\ info[tap_fd[q]] = q
        BY <1>0, <2>0, <3>2 DEF LockInv, MainType
      <4>2. open[tap_fd[q]] = q
        BY <1>0, <4>1, TapAssumption DEF MainInv
      <4> QED
        BY <1>0, <2>0, <3>1, <3>2, <4>1, <4>2, SMTT(30) DEF MainType
    <3> QED
      BY <3>1, <3>2 DEF LockInv, StopsOnlyAfterFailure
  <2> QED
    BY <1>5, <2>1, <2>2 DEF SendAsic
<1>6. CASE CloseFd
  <2>1. /\ main.pc = "close" /\ main.cmd \in Cmd /\ main.cmd.port \in Port
        /\ tap_fd' = [tap_fd EXCEPT ![main.cmd.port] = 0]
        /\ main' = Idle
        /\ UNCHANGED <<mutex, info, failed>>
    BY <1>0, <1>6 DEF CloseFd, MainInv, Sending, Cmd
  <2> QED
    BY <1>0, <2>1, StartStates DEF LockInv, MainType, StopsOnlyAfterFailure
<1>7. CASE Others \/ UNCHANGED vars
  BY <1>0, <1>7, OthersLeaveMain DEF vars, mainVars, LockInv, StopsOnlyAfterFailure
<1> QED
  BY <1>2, <1>3, <1>4, <1>5, <1>6, <1>7 DEF Next, Others

-----------------------------------------------------------------------------
(* The pipes.  A "del" in a pipe withdraws an entry until the listener has *)
(* taken the entry out.                                                    *)
LEMMA QuietWithdrawn ==
  ASSUME Quiet, NEW t, NEW f, NEW p, Withdrawn(t, f, p)
  PROVE  Withdrawn(t, f, p)'
BY DEF Quiet, Withdrawn, HasEntry

(* A withdrawn entry stays withdrawn unless it is announced again, and     *)
(* sending its "del" withdraws it.                                         *)
LEMMA SendWithdrawn ==
  ASSUME TapInv, NEW s \in Thread, Sends(s), NEW t \in Thread, NEW f, NEW p,
         \/ Withdrawn(t, f, p) /\ (s = t => main.cmd # Add(f, p))
         \/ s = t /\ main.cmd = Del(f, p)
  PROVE  Withdrawn(t, f, p)'
<1>1. pipe \in [Thread -> Seq(Cmd)] /\ main.cmd \in Cmd
  BY DEF TapInv, TypeOK, Sends
<1>2. HasEntry(t, f, p)' <=> HasEntry(t, f, p)
  BY SMTT(30) DEF Sends, HasEntry
<1>3. CASE s # t
  <2>1. pipe'[t] = pipe[t] /\ Withdrawn(t, f, p)
    BY <1>1, <1>3 DEF Sends
  <2> QED
    BY <1>2, <2>1 DEF Withdrawn
<1>4. CASE s = t
  <2> DEFINE n == Len(pipe[t])
  <2>1. /\ n \in Nat /\ Len(pipe'[t]) = n + 1
        /\ pipe'[t][n + 1] = main.cmd
        /\ \A i \in 1 .. n : pipe'[t][i] = pipe[t][i]
    BY <1>1, <1>4 DEF Sends
  <2>2. Add(f, p) # Del(f, p)
    BY DEF Add, Del
  <2> HIDE DEF n
  <2>3. CASE main.cmd = Del(f, p)
    BY <1>2, <2>1, <2>2, <2>3, SMTT(30) DEF Withdrawn
  <2>4. CASE Withdrawn(t, f, p) /\ main.cmd # Add(f, p)
    <3>1. /\ HasEntry(t, f, p) => \E j \in 1 .. n : pipe[t][j] = Del(f, p)
          /\ \A i \in 1 .. n : pipe[t][i] = Add(f, p) =>
               \E j \in i + 1 .. n : pipe[t][j] = Del(f, p)
      BY <2>4 DEF Withdrawn, n
    <3> QED
      BY <1>2, <2>1, <2>4, <3>1, SMTT(30) DEF Withdrawn
  <2> QED
    BY <1>4, <2>3, <2>4, SMTT(30)
<1> QED
  BY <1>3, <1>4

(* It stays withdrawn when a listener takes a command.                     *)
LEMMA ReceiveWithdrawn ==
  ASSUME TapInv, NEW s \in Thread, Receives(s), NEW t \in Thread,
         NEW f \in Fd, NEW p \in Port, Withdrawn(t, f, p)
  PROVE  Withdrawn(t, f, p)'
<1>1. pipe \in [Thread -> Seq(Cmd)]
  BY SMTT(30) DEF TapInv, TypeOK
<1>2. CASE s # t
  <2>1. pipe'[t] = pipe[t]
    BY <1>1, <1>2 DEF Receives
  <2>2. HasEntry(t, f, p)' <=> HasEntry(t, f, p)
    BY <1>2 DEF Receives, HasEntry, Thread
  <2> QED
    BY <2>1, <2>2 DEF Withdrawn
<1>3. CASE s = t
  <2> DEFINE n == Len(pipe[t])
             c == pipe[t][1]
  <2>1. /\ n \in Nat /\ n >= 1 /\ Len(pipe'[t]) = n - 1
        /\ c \in Cmd /\ c = Head(pipe[t])
        /\ \A i \in 1 .. n - 1 : pipe'[t][i] = pipe[t][i + 1]
    <3>1. pipe[t] \in Seq(Cmd) /\ pipe[t] # <<>> /\ pipe'[t] = Tail(pipe[t])
      BY <1>1, <1>3 DEF Receives
    <3> QED
      BY <3>1
  <2>2. /\ HasEntry(t, f, p) => \E j \in 1 .. n : pipe[t][j] = Del(f, p)
        /\ \A i \in 1 .. n : pipe[t][i] = Add(f, p) =>
             \E j \in i + 1 .. n : pipe[t][j] = Del(f, p)
    BY DEF Withdrawn
  <2>3. HasEntry(t, f, p)' =>
          \/ HasEntry(t, f, p) /\ c # Del(f, p)
          \/ c = Add(f, p)
    <3>1. CASE t = "tap"
      BY <1>3, <2>1, <3>1 DEF Receives, HasEntry, ApplyTap, Entries, Add, Del, Cmd
    <3>2. CASE t = "asic"
      BY <1>3, <2>1, <3>2 DEF Receives, HasEntry, ApplyAsic, Entries, Add, Del, Cmd
    <3> QED
      BY <3>1, <3>2 DEF Thread
  <2> HIDE DEF n, c
  <2>4. HasEntry(t, f, p)' => \E j \in 1 .. n - 1 : pipe'[t][j] = Del(f, p)
    <3> SUFFICES ASSUME HasEntry(t, f, p)'
                 PROVE  \E j \in 1 .. n - 1 : pipe'[t][j] = Del(f, p)
      OBVIOUS
    <3>1. \E j \in 2 .. n : pipe[t][j] = Del(f, p)
      <4>1. CASE c = Add(f, p)
        <5>1. 1 \in 1 .. n /\ pipe[t][1] = Add(f, p)
          BY <2>1, <4>1 DEF c
        <5>2. \E j \in 1 + 1 .. n : pipe[t][j] = Del(f, p)
          BY <2>2, <5>1
        <5> QED
          BY <5>2
      <4>2. CASE HasEntry(t, f, p) /\ c # Del(f, p)
        <5>1. PICK j \in 1 .. n : pipe[t][j] = Del(f, p)
          BY <2>2, <4>2
        <5>2. j # 1
          BY <4>2, <5>1 DEF c
        <5> QED
          BY <2>1, <5>1, <5>2
      <4> QED
        BY <2>3, <4>1, <4>2
    <3>2. PICK j \in 2 .. n : pipe[t][j] = Del(f, p)
      BY <3>1
    <3>3. j - 1 \in 1 .. n - 1 /\ pipe'[t][j - 1] = Del(f, p)
      BY <2>1, <3>2
    <3> QED
      BY <3>3
  <2>5. ASSUME NEW i \in 1 .. n - 1, pipe'[t][i] = Add(f, p)
        PROVE  \E j \in i + 1 .. n - 1 : pipe'[t][j] = Del(f, p)
    <3>1. i + 1 \in 1 .. n /\ pipe[t][i + 1] = Add(f, p)
      BY <2>1, <2>5, SMTT(30)
    <3>2. PICK j \in i + 2 .. n : pipe[t][j] = Del(f, p)
      BY SMTT(30), <2>1, <2>2, <3>1
    <3>3. j - 1 \in i + 1 .. n - 1 /\ pipe'[t][j - 1] = Del(f, p)
      BY <2>1, <3>2, SMTT(30)
    <3> QED
      BY <3>3
  <2> QED
    BY <2>1, <2>4, <2>5 DEF Withdrawn
<1> QED
  BY <1>2, <1>3

(* Every step keeps stale entries withdrawn.                               *)
LEMMA PipeInductive ==
  ASSUME TapInv, [Next]_vars
  PROVE  PipeInv'
<1>0. PipeInv /\ MainInv /\ MainType /\ "tap" \in Thread /\ "asic" \in Thread
  BY TypeParts DEF TapInv, Thread
<1>1. CASE SendTap /\ Sends("tap")
  <2>1. /\ main.pc = "tap" /\ main'.pc = "asic" /\ main'.cmd = main.cmd
        /\ main.cmd \in Cmd /\ open[main.cmd.fd] = main.cmd.port
        /\ UNCHANGED open
    BY <1>0, <1>1 DEF SendTap, MainInv, Sending, MainType, MainState
  <2>2. ASSUME NEW t \in Thread, NEW f \in Fd, NEW p \in Port, open[f] # p
        PROVE  Withdrawn(t, f, p)'
    <3>1. main.cmd # Add(f, p) /\ Withdrawn(t, f, p)
      BY <1>0, <2>1, <2>2 DEF PipeInv, Add
    <3> QED
      BY <1>0, <1>1, <3>1, SendWithdrawn
  <2>3. ASSUME main.cmd.type = "del"
        PROVE  Withdrawn("tap", main.cmd.fd, main.cmd.port)'
    <3>1. main.cmd = Del(main.cmd.fd, main.cmd.port)
      BY <2>1, <2>3 DEF Cmd, Del
    <3>2. PICK f, p : f = main.cmd.fd /\ p = main.cmd.port
      OBVIOUS
    <3>3. Withdrawn("tap", f, p)'
      BY <1>0, <1>1, <3>1, <3>2, SendWithdrawn
    <3>4. f = main'.cmd.fd /\ p = main'.cmd.port
      BY <2>1, <3>2
    <3> QED
      BY <2>1, <3>3, <3>4
  <2> QED
    BY <2>1, <2>2, <2>3 DEF PipeInv
<1>2. CASE SendAsic /\ Sends("asic")
  <2>1. /\ main.pc = "asic" /\ main.cmd \in Cmd
        /\ open[main.cmd.fd] = main.cmd.port
        /\ UNCHANGED open
    BY <1>0, <1>2 DEF SendAsic, MainInv, Sending
  <2>2. ASSUME NEW t \in Thread, NEW f \in Fd, NEW p \in Port, open[f] # p
        PROVE  Withdrawn(t, f, p)'
    <3>1. main.cmd # Add(f, p) /\ Withdrawn(t, f, p)
      BY <1>0, <2>1, <2>2 DEF PipeInv, Add
    <3> QED
      BY <1>0, <1>2, <3>1, SendWithdrawn
  <2>3. CASE main.cmd.type = "add"
    <3>1. main'.pc = "idle"
      BY <1>2, <2>3, StartStates DEF SendAsic
    <3> QED
      BY <2>1, <2>2, <3>1 DEF PipeInv
  <2>4. CASE main.cmd.type = "del"
    <3>1. main'.pc = "close" /\ main'.cmd = main.cmd
      BY <1>0, <1>2, <2>4 DEF SendAsic, MainType, MainState
    <3>2. main.cmd = Del(main.cmd.fd, main.cmd.port)
      BY <2>1, <2>4 DEF Cmd, Del
    <3>3. PICK f, p : f = main.cmd.fd /\ p = main.cmd.port
      OBVIOUS
    <3>4. Withdrawn("asic", f, p)'
      BY SMTT(30), <1>0, <1>2, <3>2, <3>3, SendWithdrawn
    <3>5. Withdrawn("tap", f, p)
      BY <1>0, <2>1, <2>4, <3>3 DEF PipeInv
    <3>6. Withdrawn("tap", f, p)'
      BY <1>0, <1>2, <3>5, SendWithdrawn
    <3>7. f = main'.cmd.fd /\ p = main'.cmd.port
      BY <3>1, <3>3
    <3>8. ASSUME NEW t \in Thread
          PROVE  Withdrawn(t, main.cmd.fd, main.cmd.port)'
      BY <3>4, <3>6, <3>7 DEF Thread
    <3> QED
      BY <2>1, <2>2, <3>1, <3>8 DEF PipeInv
  <2> QED
    BY <1>2, <2>3, <2>4 DEF SendAsic
<1>3. ASSUME NEW s \in Thread, Others, Receives(s)
      PROVE  PipeInv'
  <2>1. UNCHANGED <<main, open>>
    BY <1>3, OthersLeaveMain DEF mainVars
  <2>2. \A t \in Thread, f \in Fd, p \in Port :
          Withdrawn(t, f, p) => Withdrawn(t, f, p)'
    BY <1>3, ReceiveWithdrawn
  <2>3. Sending => main.cmd.fd \in Fd /\ main.cmd.port \in Port
    BY <1>0 DEF MainInv, Cmd
  <2> QED
    BY <1>0, <2>1, <2>2, <2>3 DEF PipeInv, Sending
<1>4. CASE ~SendTap /\ ~SendAsic /\ Quiet
  <2>1. \A t, f, p : Withdrawn(t, f, p) => Withdrawn(t, f, p)'
    BY <1>4, QuietWithdrawn
  <2>2. ASSUME NEW p \in Port, ops_fpa_netdev_set_hw_intf_info(p)
        PROVE  PipeInv'
    <3>1. main'.pc \notin {"asic", "close"}
          /\ \A f \in Fd : open[f] # NoPort => open'[f] = open[f]
      <4>0. main.pc = "idle"
        BY <2>2 DEF ops_fpa_netdev_set_hw_intf_info, ops_fpa_tap_if_create
      <4>1. CASE LockStops
        BY <4>1, StartStates DEF LockStops, MainState
      <4>2. CASE CreateFails
        BY <4>0, <4>2 DEF CreateFails
      <4>3. CASE CreateSucceeds(p)
        BY <1>0, <4>3, CreateStep DEF MainType
      <4> QED
        BY <2>2, <4>1, <4>2, <4>3 DEF ops_fpa_netdev_set_hw_intf_info,
                                      ops_fpa_tap_if_create
    <3> QED
      BY <1>0, <2>1, <3>1, TapAssumption DEF PipeInv
  <2>3. ASSUME NEW p \in Port, ops_fpa_netdev_destruct(p)
        PROVE  PipeInv'
    <3>1. UNCHANGED open
      BY <2>3, DeleteStep, Zenon
    <3>2. main'.pc \notin {"asic", "close"}
      <4>1. CASE LockStops
        BY <4>1, StartStates DEF LockStops, MainState
      <4>2. CASE ~LockStops
        <5>1. main' = [pc |-> "tap", cmd |-> Del(tap_fd[p], p)]
          BY <2>3, <4>2, DeleteStep, Zenon
        <5> QED
          BY <5>1
      <4> QED
        BY <4>1, <4>2
    <3> QED
      BY <1>0, <2>1, <3>1, <3>2 DEF PipeInv
  <2>4. CASE CloseFd
    <3>1. /\ main.pc = "close" /\ main.cmd \in Cmd
          /\ open[main.cmd.fd] = main.cmd.port
          /\ open' = [open EXCEPT ![main.cmd.fd] = NoPort]
          /\ main'.pc = "idle"
      BY <1>0, <2>4, StartStates DEF CloseFd, MainInv, Sending
    <3>2. ASSUME NEW t \in Thread, NEW f \in Fd, NEW p \in Port, open'[f] # p
          PROVE  Withdrawn(t, f, p)
      <4>1. CASE open[f] = p
        BY <1>0, <3>1, <3>2, <4>1 DEF PipeInv, MainType
      <4>2. CASE open[f] # p
        BY <1>0, <4>2 DEF PipeInv
      <4> QED
        BY <4>1, <4>2
    <3> QED
      BY <2>1, <3>1, <3>2 DEF PipeInv
  <2>5. CASE Others \/ UNCHANGED vars
    <3>1. UNCHANGED <<main, open>>
      BY <2>5, OthersLeaveMain DEF mainVars, vars
    <3> QED
      BY <1>0, <2>1, <3>1 DEF PipeInv
  <2> QED
    BY <1>4, <2>2, <2>3, <2>4, <2>5 DEF Next, Others
<1> QED
  BY <1>1, <1>2, <1>3, <1>4, PipeSteps

-----------------------------------------------------------------------------
(* The invariant holds at all times.                                       *)
LEMMA TapInvariant == Spec => []TapInv
<1>1. Init => TapInv
  BY InitInv
<1>2. TapInv /\ [Next]_vars => TapInv'
  <2> SUFFICES ASSUME TapInv, [Next]_vars
               PROVE  TapInv'
    OBVIOUS
  <2>1. MainType' /\ TapType' /\ AsicType' /\ PipeType'
    BY MainTypes, TapTypes, AsicTypes, PipeTypes, SMTT(30) DEF PipeType
  <2>2. TypeOK'
    BY <2>1 DEF TypeOK, MainType, TapType, AsicType, PipeType, MainState, TapState,
      AsicState
  <2> QED
    BY <2>2, MainInductive, LockInductive, PipeInductive DEF TapInv
<1> QED
  BY <1>1, <1>2, PTL DEF Spec

(* TypeOK, whatever fails: in particular the main thread never announces a *)
(* descriptor or a port that is not one.                                   *)
THEOREM TapTypesHold == Spec => []TypeOK
BY TapInvariant, PTL DEF TapInv

(* A descriptor in a listener's map is open on the TAP interface the map   *)
(* says, or the "del" that takes it out is in the listener's pipe.         *)
THEOREM DescriptorsAnnounced == Spec => []StaleEntryAnnounced
<1>1. TapInv => StaleEntryAnnounced
  <2> SUFFICES ASSUME TapInv
               PROVE  StaleEntryAnnounced
    OBVIOUS
  <2>1. tmap \subseteq Fd \X Port /\ amap \subseteq Port \X Fd
    BY DEF TapInv, TypeOK
  <2>2. \A t \in Thread, f \in Fd, p \in Port : open[f] = p \/ Withdrawn(t, f, p)
    BY DEF TapInv, PipeInv
  <2>3. ASSUME NEW e \in tmap
        PROVE  \/ open[e[1]] = e[2]
               \/ \E i \in 1 .. Len(pipe["tap"]) :
                    pipe["tap"][i] = [type |-> "del", fd |-> e[1], port |-> e[2]]
    <3>1. e[1] \in Fd /\ e[2] \in Port /\ HasEntry("tap", e[1], e[2])
      BY <2>1, SMTT(30) DEF HasEntry
    <3> QED
      BY <2>2, <3>1 DEF Withdrawn, Del, Thread
  <2>4. ASSUME NEW e \in amap
        PROVE  \/ open[e[2]] = e[1]
               \/ \E i \in 1 .. Len(pipe["asic"]) :
                    pipe["asic"][i] = [type |-> "del", fd |-> e[2], port |-> e[1]]
    <3>1. e[2] \in Fd /\ e[1] \in Port /\ HasEntry("asic", e[2], e[1])
      BY <2>1 DEF HasEntry
    <3> QED
      BY <2>2, <3>1 DEF Withdrawn, Del, Thread
  <2> QED
    BY <2>3, <2>4 DEF StaleEntryAnnounced
<1> QED
  BY <1>1, TapInvariant, PTL

(* The main thread stops at fpa_dev_mutex only after a failed              *)
(* ops_fpa_tap_if_create: the early return of ops_fpa_tap_if_delete that   *)
(* leaves the mutex locked is never taken.                                 *)
THEOREM OnlyFailureStops == Spec => []StopsOnlyAfterFailure
BY TapInvariant, PTL DEF TapInv, LockInv

-----------------------------------------------------------------------------
(* The maps of the listeners *)

(* What a listener's loop leaves: a command sent is the last one it        *)
(* applies, and one that it has read was the first.                        *)
LEMMA TapTurnType ==
  /\ TapTurn \in [Cmd -> [SUBSET (Fd \X Port) -> SUBSET (Fd \X Port)]]
  /\ \A cmd \in Cmd, map \in SUBSET (Fd \X Port) : TapTurn[cmd][map] = ApplyTap(map, cmd)
<1>1. ASSUME NEW cmd \in Cmd, NEW map \in SUBSET (Fd \X Port)
      PROVE  ApplyTap(map, cmd) \in SUBSET (Fd \X Port)
  BY DEF ApplyTap, Entries, Cmd
<1> QED
  BY <1>1 DEF TapTurn

(* A command that is sent is the last to be applied.                       *)
LEMMA AfterTapAppend ==
  ASSUME NEW cmds \in Seq(Cmd), NEW c \in Cmd, NEW map \in SUBSET (Fd \X Port)
  PROVE  AfterTap(map, Append(cmds, c)) = ApplyTap(AfterTap(map, cmds), c)
<1> DEFINE S == SUBSET (Fd \X Port)
<1>1. TapTurn \in [Cmd -> [S -> S]] /\ \A m \in S : TapTurn[c][m] = ApplyTap(m, c)
  BY TapTurnType, Zenon
<1>2. map \in S
  OBVIOUS
<1> HIDE DEF S
<1>3. AfterAll(TapTurn, map, cmds) \in S
  BY <1>1, <1>2, AfterAllType
<1>4. AfterAll(TapTurn, map, Append(cmds, c)) = TapTurn[c][AfterAll(TapTurn, map, cmds)]
  BY <1>1, <1>2, AfterAllAppend
<1> QED
  BY <1>1, <1>3, <1>4 DEF AfterTap

(* Taking the first command does not change what all of them leave.        *)
LEMMA AfterTapHead ==
  ASSUME NEW cmds \in Seq(Cmd), cmds # <<>>, NEW map \in SUBSET (Fd \X Port)
  PROVE  AfterTap(ApplyTap(map, Head(cmds)), Tail(cmds)) = AfterTap(map, cmds)
<1> DEFINE S == SUBSET (Fd \X Port)
<1>1. Head(cmds) \in Cmd
  OBVIOUS
<1>2. TapTurn \in [Cmd -> [S -> S]] /\ TapTurn[Head(cmds)][map] = ApplyTap(map, Head(cmds))
  BY <1>1, TapTurnType, Zenon
<1>3. map \in S
  OBVIOUS
<1> HIDE DEF S
<1>4. AfterAll(TapTurn, TapTurn[Head(cmds)][map], Tail(cmds)) = AfterAll(TapTurn, map, cmds)
  BY <1>2, <1>3, AfterAllHead
<1> QED
  BY <1>2, <1>4 DEF AfterTap

(* The same for the ASIC listener.                                         *)
LEMMA AsicTurnType ==
  /\ AsicTurn \in [Cmd -> [SUBSET (Port \X Fd) -> SUBSET (Port \X Fd)]]
  /\ \A cmd \in Cmd, map \in SUBSET (Port \X Fd) : AsicTurn[cmd][map] = ApplyAsic(map, cmd)
<1>1. ASSUME NEW cmd \in Cmd, NEW map \in SUBSET (Port \X Fd)
      PROVE  ApplyAsic(map, cmd) \in SUBSET (Port \X Fd)
  BY DEF ApplyAsic, Entries, Cmd
<1> QED
  BY <1>1 DEF AsicTurn

(* A command that is sent is the last to be applied.                       *)
LEMMA AfterAsicAppend ==
  ASSUME NEW cmds \in Seq(Cmd), NEW c \in Cmd, NEW map \in SUBSET (Port \X Fd)
  PROVE  AfterAsic(map, Append(cmds, c)) = ApplyAsic(AfterAsic(map, cmds), c)
<1> DEFINE S == SUBSET (Port \X Fd)
<1>1. AsicTurn \in [Cmd -> [S -> S]] /\ \A m \in S : AsicTurn[c][m] = ApplyAsic(m, c)
  BY AsicTurnType, Zenon
<1>2. map \in S
  OBVIOUS
<1> HIDE DEF S
<1>3. AfterAll(AsicTurn, map, cmds) \in S
  BY <1>1, <1>2, AfterAllType
<1>4. AfterAll(AsicTurn, map, Append(cmds, c)) = AsicTurn[c][AfterAll(AsicTurn, map, cmds)]
  BY <1>1, <1>2, AfterAllAppend
<1> QED
  BY <1>1, <1>3, <1>4 DEF AfterAsic

(* Taking the first command does not change what all of them leave.        *)
LEMMA AfterAsicHead ==
  ASSUME NEW cmds \in Seq(Cmd), cmds # <<>>, NEW map \in SUBSET (Port \X Fd)
  PROVE  AfterAsic(ApplyAsic(map, Head(cmds)), Tail(cmds)) = AfterAsic(map, cmds)
<1> DEFINE S == SUBSET (Port \X Fd)
<1>1. Head(cmds) \in Cmd
  OBVIOUS
<1>2. AsicTurn \in [Cmd -> [S -> S]] /\ AsicTurn[Head(cmds)][map] = ApplyAsic(map, Head(cmds))
  BY <1>1, AsicTurnType, Zenon
<1>3. map \in S
  OBVIOUS
<1> HIDE DEF S
<1>4. AfterAll(AsicTurn, AsicTurn[Head(cmds)][map], Tail(cmds)) = AfterAll(AsicTurn, map, cmds)
  BY <1>2, <1>3, AfterAllHead
<1> QED
  BY <1>2, <1>4 DEF AfterAsic

TapMirror == {e \in Fd \X Port : info[e[1]] = e[2]}
AsicMirror == {e \in Port \X Fd : info[e[2]] = e[1]}

(* The main thread enters a new interface in its map before it announces   *)
(* it, and takes one out after it has announced that to both listeners.    *)
TapLacks == \/ main.pc = "tap" /\ main.cmd.type = "add"
            \/ main.pc = "asic" /\ main.cmd.type = "del"

AsicLacks == main.pc \in {"tap", "asic"} /\ main.cmd.type = "add"

TapSet ==
  TapMirror \ (IF TapLacks THEN {<<main.cmd.fd, main.cmd.port>>} ELSE {})
AsicSet ==
  AsicMirror \ (IF AsicLacks THEN {<<main.cmd.port, main.cmd.fd>>} ELSE {})

(* The entries of the main thread's map are the netdevs' own, and the      *)
(* command being sent is about one of them.                                *)
OwnInv ==
  /\ \A f \in Fd : info[f] # NoPort => tap_fd[info[f]] = f
  /\ main.pc \in {"tap", "asic"} => info[main.cmd.fd] = main.cmd.port
  /\ main.pc = "close" => \A f \in Fd : info[f] # main.cmd.port

MirrorInv ==
  /\ OwnInv
  /\ AfterTap(tmap, pipe["tap"]) = TapSet
  /\ AfterAsic(amap, pipe["asic"]) = AsicSet

(* Every step keeps descriptors and ports one to one.                      *)
LEMMA OwnInductive ==
  ASSUME TapInv, OwnInv, [Next]_vars
  PROVE  OwnInv'
<1>0. MainInv /\ MainType /\ LockInv
  BY TypeParts DEF TapInv
<1>1. ASSUME NEW p \in Port, ops_fpa_netdev_set_hw_intf_info(p)
      PROVE  OwnInv'
  <2>0. main.pc = "idle" /\ tap_fd[p] = 0
    BY <1>1 DEF ops_fpa_netdev_set_hw_intf_info, ops_fpa_tap_if_create
  <2>1. CASE LockStops
    <3>1. main'.pc = "stopped"
      BY <2>1, StartStates, SMTT(30) DEF LockStops, MainState
    <3> QED
      BY <2>1, <3>1 DEF LockStops, OwnInv
  <2>2. CASE CreateFails
    BY <2>2 DEF CreateFails, OwnInv
  <2>3. CASE CreateSucceeds(p)
    <3>1. PICK f \in Fd : /\ open[f] = NoPort /\ Add(f, p) \in Cmd
                          /\ info' = [info EXCEPT ![f] = p]
                          /\ tap_fd' = [tap_fd EXCEPT ![p] = f]
                          /\ main' = [pc |-> "tap", cmd |-> Add(f, p)]
      BY <2>3, CreateStep
    <3>2. main'.pc = "tap" /\ main'.cmd.fd = f /\ main'.cmd.port = p
      BY <3>1 DEF Add
    <3>3. \A g \in Fd : info[g] # p
      BY <2>0, TapAssumption DEF OwnInv, Fd
    <3>4. ASSUME NEW g \in Fd, info'[g] # NoPort
          PROVE  tap_fd'[info'[g]] = g
      <4>1. CASE g = f
        BY <1>0, <3>1, <4>1, SMTT(30) DEF MainType
      <4>2. CASE g # f
        <5>1. info'[g] = info[g] /\ info[g] \in Port /\ info[g] # p
          BY <1>0, <3>1, <3>3, <3>4, <4>2 DEF MainType
        <5> QED
          BY <1>0, <3>1, <3>4, <5>1 DEF MainType, OwnInv
      <4> QED
        BY <4>1, <4>2
    <3>5. info'[f] = p
      BY <1>0, <3>1 DEF MainType
    <3> QED
      BY <3>2, <3>4, <3>5 DEF OwnInv
  <2> QED
    BY <1>1, <2>1, <2>2, <2>3 DEF ops_fpa_netdev_set_hw_intf_info,
                                  ops_fpa_tap_if_create
<1>2. ASSUME NEW p \in Port, ops_fpa_netdev_destruct(p)
      PROVE  OwnInv'
  <2>1. CASE LockStops
    <3>1. main'.pc = "stopped"
      BY <2>1, StartStates DEF LockStops, MainState
    <3> QED
      BY <2>1, <3>1 DEF LockStops, OwnInv
  <2>2. CASE ~LockStops
    <3>1. /\ info[tap_fd[p]] = p
          /\ main' = [pc |-> "tap", cmd |-> Del(tap_fd[p], p)]
          /\ UNCHANGED <<info, tap_fd>>
      BY <1>2, <2>2, DeleteStep, Zenon
    <3>2. main'.pc = "tap" /\ main'.cmd.fd = tap_fd[p] /\ main'.cmd.port = p
      BY <3>1 DEF Del
    <3> QED
      BY <3>1, <3>2 DEF OwnInv
  <2> QED
    BY <2>1, <2>2, SMTT(30)
<1>3. CASE SendTap
  BY <1>0, <1>3 DEF SendTap, OwnInv, MainType, MainState
<1>4. CASE SendAsic
  <2>1. /\ main.pc = "asic" /\ main.cmd \in Cmd /\ UNCHANGED tap_fd
        /\ main.cmd.fd \in Fd /\ main.cmd.port \in Port
    BY <1>0, <1>4 DEF SendAsic, MainInv, Sending, Cmd
  <2>2. CASE main.cmd.type = "add"
    <3>1. main'.pc = "idle" /\ UNCHANGED info
      BY <1>4, <2>2, StartStates DEF SendAsic
    <3> QED
      BY <2>1, <3>1 DEF OwnInv
  <2>3. CASE main.cmd.type = "del"
    <3>1. /\ main'.pc = "close" /\ main'.cmd = main.cmd
          /\ info' = [info EXCEPT ![main.cmd.fd] = NoPort]
      BY <1>0, <1>4, <2>3 DEF SendAsic, MainType, MainState
    <3>2. \A f \in Fd : info'[f] = IF f = main.cmd.fd THEN NoPort ELSE info[f]
      BY <1>0, <2>1, <3>1 DEF MainType
    <3>3. \A f \in Fd : info'[f] # main.cmd.port
      BY <2>1, <3>2, TapAssumption DEF OwnInv
    <3> QED
      BY <2>1, <3>1, <3>2, <3>3 DEF OwnInv
  <2> QED
    BY <2>1, <2>2, <2>3 DEF Cmd
<1>5. CASE CloseFd
  <2>1. /\ main.pc = "close" /\ main.cmd.port \in Port /\ main'.pc = "idle"
        /\ tap_fd' = [tap_fd EXCEPT ![main.cmd.port] = 0] /\ UNCHANGED info
    BY <1>0, <1>5, StartStates DEF CloseFd, MainInv, Sending, Cmd
  <2> QED
    BY <1>0, <2>1 DEF OwnInv, MainType
<1>6. CASE Others \/ UNCHANGED vars
  <2>1. UNCHANGED <<main, info, tap_fd>>
    BY <1>6, OthersLeaveMain DEF vars, mainVars
  <2> QED
    BY <2>1 DEF OwnInv
<1> QED
  BY <1>1, <1>2, <1>3, <1>4, <1>5, <1>6 DEF Next, Others

(* A step changes what a listener is to end up with only if it sends the   *)
(* command that says so.                                                   *)
LEMMA MirrorTargets ==
  ASSUME TapInv, OwnInv, [Next]_vars
  PROVE  /\ SendTap => /\ TapSet' = ApplyTap(TapSet, main.cmd)
                       /\ AsicSet' = AsicSet
         /\ SendAsic => /\ AsicSet' = ApplyAsic(AsicSet, main.cmd)
                        /\ TapSet' = TapSet
         /\ ~SendTap /\ ~SendAsic => UNCHANGED <<TapSet, AsicSet>>
         /\ Others => UNCHANGED <<TapSet, AsicSet>>
<1>0. MainInv /\ MainType
  BY TypeParts, Zenon DEF TapInv
<1> USE DEF TapSet, AsicSet, TapMirror, AsicMirror, TapLacks, AsicLacks
<1>1. CASE SendTap
  <2>1. /\ main.pc = "tap" /\ main'.pc = "asic" /\ main'.cmd = main.cmd
        /\ UNCHANGED info
    BY <1>0, <1>1, SMTT(30) DEF SendTap, MainType, MainState
  <2>2. /\ main.cmd.type \in {"add", "del"} /\ main.cmd.fd \in Fd
        /\ main.cmd.port \in Port /\ info[main.cmd.fd] = main.cmd.port
    BY <1>0, <2>1 DEF MainInv, Sending, Cmd, OwnInv
  <2>3. AsicSet' = AsicSet
    BY <2>1, SMTT(30)
  <2>4. TapSet' = ApplyTap(TapSet, main.cmd)
    <3>1. CASE main.cmd.type = "add"
      <4>1. TapSet' = TapMirror /\ TapSet = TapMirror \ {<<main.cmd.fd, main.cmd.port>>}
        BY <2>1, <3>1
      <4>2. <<main.cmd.fd, main.cmd.port>> \in TapMirror
        BY <2>2, SMTT(30)
      <4> QED
        BY <3>1, <4>1, <4>2 DEF ApplyTap
    <3>2. CASE main.cmd.type = "del"
      <4>1. TapSet = TapMirror /\ TapSet' = TapMirror \ {<<main.cmd.fd, main.cmd.port>>}
        BY <2>1, <3>2
      <4>2. Entries(TapMirror, main.cmd.fd) = {<<main.cmd.fd, main.cmd.port>>}
        BY <2>2, SMTT(30) DEF Entries
      <4>3. ApplyTap(TapSet, main.cmd) = TapSet \ Entries(TapSet, main.cmd.fd)
        BY <3>2 DEF ApplyTap
      <4> QED
        BY <4>1, <4>2, <4>3
    <3> QED
      BY <2>2, <3>1, <3>2, SMTT(30)
  <2>5. ~SendAsic /\ ~Others
    <3>1. ~SendAsic
      BY <2>1 DEF SendAsic
    <3>2. Others => UNCHANGED main
      BY OthersLeaveMain DEF mainVars
    <3> QED
      BY <2>1, <3>1, <3>2
  <2> QED
    BY <1>1, <2>3, <2>4, <2>5
<1>2. CASE SendAsic
  <2>1. main.pc = "asic"
    BY <1>2, SMTT(30) DEF SendAsic
  <2>2. /\ main.cmd.type \in {"add", "del"} /\ main.cmd.fd \in Fd
        /\ main.cmd.port \in Port /\ info[main.cmd.fd] = main.cmd.port
    BY <1>0, <2>1, SMTT(30) DEF MainInv, Sending, Cmd, OwnInv
  <2>3. ASSUME main.cmd.type = "add"
        PROVE  /\ AsicSet' = ApplyAsic(AsicSet, main.cmd)
               /\ TapSet' = TapSet
    <3>1. main'.pc = "idle" /\ UNCHANGED info
      BY <1>2, <2>3, StartStates DEF SendAsic
    <3>2. TapSet' = TapSet
      BY <2>1, <2>3, <3>1
    <3>3. AsicSet' = AsicMirror /\ AsicSet = AsicMirror \ {<<main.cmd.port, main.cmd.fd>>}
      BY <2>1, <2>3, <3>1
    <3>4. <<main.cmd.port, main.cmd.fd>> \in AsicMirror
      BY <2>2
    <3> HIDE DEF TapSet, AsicSet, AsicMirror
    <3> QED
      BY <2>3, <3>2, <3>3, <3>4, SMTT(30) DEF ApplyAsic
  <2>4. ASSUME main.cmd.type = "del"
        PROVE  /\ AsicSet' = ApplyAsic(AsicSet, main.cmd)
               /\ TapSet' = TapSet
    <3>1. /\ main'.pc = "close" /\ main'.cmd = main.cmd
          /\ info' = [info EXCEPT ![main.cmd.fd] = NoPort]
      BY <1>0, <1>2, <2>4 DEF SendAsic, MainType, MainState
    <3>2. \A f \in Fd : info'[f] = IF f = main.cmd.fd THEN NoPort ELSE info[f]
      BY <1>0, <2>2, <3>1 DEF MainType
    <3>3. \A f \in Fd : info[f] = main.cmd.port => f = main.cmd.fd
      BY <2>2, TapAssumption DEF OwnInv
    <3>4. TapSet' = TapMirror' /\ TapSet = TapMirror \ {<<main.cmd.fd, main.cmd.port>>}
      BY <2>1, <2>4, <3>1
    <3>5. TapMirror' = TapMirror \ {<<main.cmd.fd, main.cmd.port>>}
      BY <2>2, <3>2, TapAssumption
    <3>6. AsicSet' = AsicMirror' /\ AsicSet = AsicMirror
      BY <2>1, <2>4, <3>1
    <3>7. AsicMirror' = AsicMirror \ Entries(AsicMirror, main.cmd.port)
      BY <2>2, <3>2, <3>3, TapAssumption, SMTT(30) DEF Entries
    <3>8. ApplyAsic(AsicSet, main.cmd) = AsicSet \ Entries(AsicSet, main.cmd.port)
      BY <2>4 DEF ApplyAsic
    <3> HIDE DEF TapSet, AsicSet, TapMirror, AsicMirror
    <3> QED
      BY <3>4, <3>5, <3>6, <3>7, <3>8
  <2>5. ~SendTap /\ ~Others
    <3>1. ~SendTap
      BY <2>1 DEF SendTap
    <3>2. Others => UNCHANGED main
      BY OthersLeaveMain DEF mainVars
    <3>3. main' # main
      <4>1. main'.pc \in {"idle", "close"}
        BY <1>0, <1>2, <2>2, StartStates, SMTT(30) DEF SendAsic, MainType, MainState
      <4> QED
        BY <2>1, <4>1
    <3> QED
      BY <3>1, <3>2, <3>3
  <2> HIDE DEF TapSet, AsicSet
  <2> QED
    BY <1>2, <2>2, <2>3, <2>4, <2>5
<1>3. ASSUME NEW p \in Port, ops_fpa_netdev_set_hw_intf_info(p)
      PROVE  UNCHANGED <<TapSet, AsicSet>>
  <2>0. main.pc = "idle" /\ tap_fd[p] = 0
    BY <1>3 DEF ops_fpa_netdev_set_hw_intf_info, ops_fpa_tap_if_create
  <2>1. CASE LockStops
    <3>1. main'.pc = "stopped" /\ UNCHANGED info
      BY <2>1, StartStates DEF LockStops, MainState
    <3> QED
      BY <2>0, <3>1, Zenon
  <2>2. CASE CreateFails
    BY <2>2, SMTT(30) DEF CreateFails
  <2>3. CASE CreateSucceeds(p)
    <3>1. PICK f \in Fd : /\ open[f] = NoPort
                          /\ info' = [info EXCEPT ![f] = p]
                          /\ main' = [pc |-> "tap", cmd |-> Add(f, p)]
      BY <2>3, CreateStep
    <3>2. /\ main'.pc = "tap" /\ main'.cmd.fd = f /\ main'.cmd.port = p
          /\ main'.cmd.type = "add"
      BY <3>1, SMTT(30) DEF Add
    <3>3. info[f] = NoPort
      BY <1>0, <3>1 DEF MainInv
    <3>4. \A g \in Fd : info'[g] = IF g = f THEN p ELSE info[g]
      BY <1>0, <3>1 DEF MainType
    <3>5. TapSet = TapMirror /\ TapSet' = TapMirror' \ {<<f, p>>}
      BY <2>0, <3>2
    <3>6. TapMirror = TapMirror' \ {<<f, p>>}
      BY <3>3, <3>4, TapAssumption
    <3>7. AsicSet = AsicMirror /\ AsicSet' = AsicMirror' \ {<<p, f>>}
      BY <2>0, <3>2
    <3>8. AsicMirror = AsicMirror' \ {<<p, f>>}
      BY <3>3, <3>4, TapAssumption, SMTT(30)
    <3> QED
      BY <3>5, <3>6, <3>7, <3>8
  <2> QED
    BY <1>3, <2>1, <2>2, <2>3, ZenonT(40) DEF ops_fpa_netdev_set_hw_intf_info,
                                  ops_fpa_tap_if_create
<1>4. ASSUME NEW p \in Port, ops_fpa_netdev_destruct(p)
      PROVE  UNCHANGED <<TapSet, AsicSet>>
  <2>0. main.pc = "idle" /\ UNCHANGED info
    <3>1. main.pc = "idle"
      BY <1>4 DEF ops_fpa_netdev_destruct, ops_fpa_tap_if_delete
    <3> QED
      BY <1>4, <3>1, DeleteStep, Zenon
  <2>1. CASE LockStops
    <3>1. main'.pc = "stopped"
      BY <2>1, StartStates DEF LockStops, MainState
    <3> QED
      BY <2>0, <3>1
  <2>2. CASE ~LockStops
    <3>1. main' = [pc |-> "tap", cmd |-> Del(tap_fd[p], p)]
      BY <1>4, <2>2, DeleteStep, Zenon
    <3>2. main'.pc = "tap" /\ main'.cmd.type = "del"
      BY <3>1 DEF Del
    <3> QED
      BY <2>0, <3>2
  <2> QED
    BY <2>1, <2>2
<1>5. ASSUME CloseFd
      PROVE  UNCHANGED <<TapSet, AsicSet>>
  <2>1. main.pc = "close" /\ main'.pc = "idle" /\ UNCHANGED info
    BY <1>5, StartStates DEF CloseFd
  <2> QED
    BY <2>1
<1>6. ASSUME Others \/ UNCHANGED vars
      PROVE  UNCHANGED <<TapSet, AsicSet>>
  <2>1. UNCHANGED <<main, info>>
    BY <1>6, OthersLeaveMain DEF vars, mainVars
  <2> QED
    BY <2>1
<1>7. ~SendTap /\ ~SendAsic => UNCHANGED <<TapSet, AsicSet>>
  <2> HIDE DEF TapSet, AsicSet
  <2> QED
    BY <1>3, <1>4, <1>5, <1>6 DEF Next, Others
<1> HIDE DEF TapSet, AsicSet
<1> QED
  BY <1>1, <1>2, <1>6, <1>7

(* Every step keeps the listeners' maps, with what is on its way, equal to *)
(* the main thread's.                                                      *)
LEMMA MirrorInductive ==
  ASSUME TapInv, MirrorInv, [Next]_vars
  PROVE  MirrorInv'
<1>0. /\ pipe \in [Thread -> Seq(Cmd)] /\ DOMAIN pipe = Thread
      /\ pipe["tap"] \in Seq(Cmd) /\ pipe["asic"] \in Seq(Cmd)
      /\ tmap \in SUBSET (Fd \X Port) /\ amap \in SUBSET (Port \X Fd)
  BY DEF TapInv, TypeOK, Thread
<1>1. OwnInv /\ OwnInv'
  BY OwnInductive DEF MirrorInv
<1>2. /\ AfterTap(tmap, pipe["tap"]) = TapSet
      /\ AfterAsic(amap, pipe["asic"]) = AsicSet
  BY SMTT(30) DEF MirrorInv
<1>3. CASE SendTap /\ Sends("tap")
  <2>1. /\ main.cmd \in Cmd /\ UNCHANGED <<tmap, amap>>
        /\ pipe'["tap"] = Append(pipe["tap"], main.cmd) /\ pipe'["asic"] = pipe["asic"]
    BY <1>0, <1>3 DEF Sends, Thread
  <2>2. AfterTap(tmap, pipe'["tap"]) = ApplyTap(AfterTap(tmap, pipe["tap"]), main.cmd)
    BY <1>0, <2>1, AfterTapAppend, SMTT(30)
  <2> QED
    BY <1>1, <1>2, <1>3, <2>1, <2>2, MirrorTargets DEF MirrorInv
<1>4. CASE SendAsic /\ Sends("asic")
  <2>1. /\ main.cmd \in Cmd /\ UNCHANGED <<tmap, amap>>
        /\ pipe'["asic"] = Append(pipe["asic"], main.cmd) /\ pipe'["tap"] = pipe["tap"]
    BY <1>0, <1>4 DEF Sends, Thread
  <2>2. AfterAsic(amap, pipe'["asic"])
          = ApplyAsic(AfterAsic(amap, pipe["asic"]), main.cmd)
    BY <1>0, <2>1, AfterAsicAppend, SMTT(30)
  <2> QED
    BY <1>1, <1>2, <1>4, <2>1, <2>2, MirrorTargets, SMTT(30) DEF MirrorInv
<1>5. CASE Others /\ Receives("tap")
  <2>1. /\ pipe["tap"] # <<>> /\ pipe'["tap"] = Tail(pipe["tap"])
        /\ pipe'["asic"] = pipe["asic"] /\ UNCHANGED amap
        /\ tmap' = ApplyTap(tmap, Head(pipe["tap"]))
    BY <1>0, <1>5 DEF Receives, Thread
  <2>2. AfterTap(tmap', pipe'["tap"]) = AfterTap(tmap, pipe["tap"])
    BY <1>0, <2>1, AfterTapHead, SMTT(30)
  <2> QED
    BY <1>1, <1>2, <1>5, <2>1, <2>2, MirrorTargets, SMTT(30) DEF MirrorInv
<1>6. CASE Others /\ Receives("asic")
  <2>1. /\ pipe["asic"] # <<>> /\ pipe'["asic"] = Tail(pipe["asic"])
        /\ pipe'["tap"] = pipe["tap"] /\ UNCHANGED tmap
        /\ amap' = ApplyAsic(amap, Head(pipe["asic"]))
    BY <1>0, <1>6 DEF Receives, Thread
  <2>2. AfterAsic(amap', pipe'["asic"]) = AfterAsic(amap, pipe["asic"])
    BY <1>0, <2>1, AfterAsicHead
  <2> QED
    BY <1>1, <1>2, <1>6, <2>1, <2>2, MirrorTargets DEF MirrorInv
<1>7. CASE ~SendTap /\ ~SendAsic /\ Quiet
  BY <1>1, <1>2, <1>7, MirrorTargets DEF MirrorInv, Quiet
<1> QED
  BY <1>3, <1>4, <1>5, <1>6, <1>7, PipeSteps, SMTT(30) DEF Thread

(* Between two operations of the main thread each listener's map, once the *)
(* commands still in its pipe are applied, is exactly the main thread's:   *)
(* for any number of interfaces and commands, any interleaving of the three*)
(* threads, and descriptors that are closed and opened again.              *)
THEOREM ListenersMirrorMain == Spec => []ListenersMirror
<1>1. Init => MirrorInv
  <2> SUFFICES ASSUME Init
               PROVE  MirrorInv
    OBVIOUS
  <2>1. /\ info = [f \in Fd |-> NoPort] /\ pipe["tap"] = <<>> /\ pipe["asic"] = <<>>
        /\ tmap = {} /\ amap = {} /\ main.pc = "idle"
    BY StartStates DEF Init, Thread
  <2>2. OwnInv
    BY <2>1 DEF OwnInv
  <2>3. TapSet = {} /\ AsicSet = {}
    BY <2>1, TapAssumption DEF TapSet, AsicSet, TapMirror, AsicMirror, TapLacks,
      AsicLacks
  <2> QED
    BY <2>1, <2>2, <2>3, AfterAllNone, SMTT(30) DEF MirrorInv, AfterTap, AfterAsic
<1>2. TapInv /\ MirrorInv /\ [Next]_vars => MirrorInv'
  BY MirrorInductive, SMTT(30)
<1>3. TapInv /\ MirrorInv => ListenersMirror
  <2> SUFFICES ASSUME TapInv, MirrorInv, main.pc \in {"idle", "close", "stopped"}
               PROVE  LET known == {f \in Fd : info[f] # NoPort}
                      IN  /\ AfterTap(tmap, pipe["tap"])
                               = {<<f, info[f]>> : f \in known}
                          /\ AfterAsic(amap, pipe["asic"])
                               = {<<info[f], f>> : f \in known}
    BY DEF ListenersMirror
  <2> DEFINE known == {f \in Fd : info[f] # NoPort}
  <2>1. info \in [Fd -> Port \cup {NoPort}]
    BY DEF TapInv, TypeOK
  <2>2. TapSet = TapMirror /\ AsicSet = AsicMirror
    BY DEF TapSet, AsicSet, TapLacks, AsicLacks
  <2>3. TapMirror = {<<f, info[f]>> : f \in known}
    BY <2>1, TapAssumption DEF TapMirror
  <2>4. AsicMirror = {<<info[f], f>> : f \in known}
    BY <2>1, TapAssumption DEF AsicMirror
  <2> QED
    BY <2>2, <2>3, <2>4, SMTT(30) DEF MirrorInv
<1> QED
  BY <1>1, <1>2, <1>3, TapInvariant, PTL DEF Spec

=============================================================================
