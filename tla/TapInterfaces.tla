--------------------------- MODULE TapInterfaces ---------------------------
(***************************************************************************)
(* The TAP interfaces (ops-fpa-tap.c) and the netdevs that create and      *)
(* delete them (ops-fpa-netdev.c).                                         *)
(*                                                                         *)
(* The main thread opens a TAP interface per netdev and announces it, over *)
(* one control pipe each, to the TAP listener, which carries packets from  *)
(* the TAP interfaces to the ASIC, and to the ASIC listener, which carries *)
(* them the other way.  Each listener keeps a map of its own, by file      *)
(* descriptor and by port number; file descriptors are reused.             *)
(***************************************************************************)
EXTENDS Integers, Sequences, FiniteSets, Loop

CONSTANTS
  Port,        \* port numbers; a TAP interface is named by its port
  MaxFd,       \* bound: descriptors 1..MaxFd are left for TAP interfaces
  MaxPending,  \* bound: commands in a pipe when an operation starts
  Faults,      \* may include "create" and "eintr"
  NoPort, NoCmd

ASSUME TapAssumption ==
  /\ NoPort \notin Port
  /\ MaxFd \in Nat \ {0}
  /\ MaxPending \in Nat \ {0}
  /\ Faults \subseteq {"create", "eintr"}

Fd == 1..MaxFd
Thread == {"tap", "asic"}

Cmd == [type : {"add", "del"}, fd : Fd, port : Port]

ASSUME NoCmdAssumption == NoCmd \notin Cmd

VARIABLES
  mutex,    \* fpa_dev_mutex is locked; only the main thread ever locks it
  tap_fd,   \* tap_fd of each port's netdev, 0 without a TAP interface
  info,     \* info->fd_to_tap_if_map: the port of each descriptor
  open,     \* the kernel: which TAP interface a descriptor is open on
  queue,    \* the kernel: the TAP interfaces with a packet to read
  pipe,     \* the control pipes
  main,     \* where the main thread is, and the command it is sending
  tmap,     \* the TAP listener's fd_to_tap_if_map, and its read_fd_set
  tl,       \* where the TAP listener is, the rest of its rd, its packet
  tbuf,     \* its buffer was ever filled, and its drain time has begun
  amap,     \* the ASIC listener's port_num_to_tap_if_map
  al,       \* where the ASIC listener is, its packet and the entry's fd
  failed    \* history: some ops_fpa_tap_if_create failed

mainVars == <<mutex, tap_fd, info, main, failed>>
tapVars == <<tmap, tl, tbuf>>
asicVars == <<amap, al>>
vars == <<mainVars, open, queue, pipe, tapVars, asicVars>>

Idle == [pc |-> "idle", cmd |-> NoCmd]
Selecting == [pc |-> "select", rd |-> {}, from |-> NoPort, to |-> NoPort]
Receiving == [pc |-> "receive", pkt |-> NoPort, fd |-> 0]

TypeOK ==
  /\ mutex \in BOOLEAN /\ failed \in BOOLEAN
  /\ tap_fd \in [Port -> Fd \cup {0}]
  /\ info \in [Fd -> Port \cup {NoPort}]
  /\ open \in [Fd -> Port \cup {NoPort}]
  /\ queue \subseteq Port
  /\ pipe \in [Thread -> Seq(Cmd)]
  /\ main \in [pc : {"idle", "tap", "asic", "close", "stopped"},
               cmd : Cmd \cup {NoCmd}]
  /\ tmap \subseteq Fd \X Port
  /\ tl \in [pc : {"select", "commands", "read", "send", "exited"},
             rd : SUBSET Fd, from : Port \cup {NoPort}, to : Port \cup {NoPort}]
  /\ tbuf \in [filled : BOOLEAN, timed : BOOLEAN]
  /\ amap \subseteq Port \X Fd
  /\ al \in [pc : {"receive", "commands", "write"},
             pkt : Port \cup {NoPort}, fd : Fd \cup {0}]

(* ops_fpa_tap_init                                                        *)
Init ==
  /\ mutex = FALSE /\ failed = FALSE
  /\ tap_fd = [p \in Port |-> 0]
  /\ info = [f \in Fd |-> NoPort]
  /\ open = [f \in Fd |-> NoPort]
  /\ queue = {}
  /\ pipe = [t \in Thread |-> <<>>]
  /\ main = Idle
  /\ tmap = {} /\ tl = Selecting
  /\ tbuf = [filled |-> FALSE, timed |-> FALSE]
  /\ amap = {} /\ al = Receiving

-----------------------------------------------------------------------------
(* The main thread *)

(* Locking a mutex that was left locked ends the main thread's progress.   *)
LockStops == mutex /\ main' = [Idle EXCEPT !.pc = "stopped"]
             /\ UNCHANGED <<mutex, tap_fd, info, open, failed>>

RoomInPipes == \A t \in Thread : Len(pipe[t]) < MaxPending

FreeFds == {f \in Fd : open[f] = NoPort}

(* The descriptor open() returns.                                          *)
LowestFree == CHOOSE f \in FreeFds : \A g \in FreeFds : f <= g

(* Any of the failures after the lock was taken: no TAP device, or it      *)
(* cannot be set up.  The mutex stays locked.                              *)
CreateFails ==
  /\ ~mutex /\ ("create" \in Faults \/ FreeFds = {})
  /\ mutex' = TRUE /\ failed' = TRUE
  /\ UNCHANGED <<main, tap_fd, info, open>>

CreateSucceeds(p) ==
  /\ ~mutex /\ FreeFds # {}
  /\ mutex' = TRUE
  /\ open' = [open EXCEPT ![LowestFree] = p]
  /\ info' = [info EXCEPT ![LowestFree] = p]
  /\ tap_fd' = [tap_fd EXCEPT ![p] = LowestFree]
  /\ main' = [pc |-> "tap",
              cmd |-> [type |-> "add", fd |-> LowestFree, port |-> p]]
  /\ UNCHANGED failed

(* Up to the first command sent.                                           *)
ops_fpa_tap_if_create(p) ==
  /\ main.pc = "idle" /\ RoomInPipes
  /\ LockStops \/ CreateFails \/ CreateSucceeds(p)
  /\ UNCHANGED <<queue, pipe, tapVars, asicVars>>

(* Mutant: the descriptor is closed before the commands are sent.          *)
DeleteClosesFirst(p) ==
  /\ main.pc = "idle" /\ RoomInPipes
  /\ ~mutex
  /\ mutex' = TRUE
  /\ main' = [pc |-> "tap", cmd |-> [type |-> "del", fd |-> tap_fd[p],
                                    port |-> info[tap_fd[p]]]]
  /\ open' = [open EXCEPT ![tap_fd[p]] = NoPort]
  /\ UNCHANGED <<tap_fd, info, failed, queue, pipe, tapVars, asicVars>>

(* Up to the first command sent.                                           *)
ops_fpa_tap_if_delete(p) ==
  /\ main.pc = "idle" /\ RoomInPipes
  /\ \/ LockStops
     \/ /\ ~mutex
        /\ mutex' = TRUE
        /\ IF info[tap_fd[p]] = NoPort
             THEN UNCHANGED main
             ELSE main' = [pc |-> "tap",
                           cmd |-> [type |-> "del", fd |-> tap_fd[p],
                                    port |-> info[tap_fd[p]]]]
        /\ UNCHANGED <<tap_fd, info, open, failed>>
  /\ UNCHANGED <<queue, pipe, tapVars, asicVars>>

(* send_ctrl_cmd to the TAP listener, the first of the two.                *)
SendTap ==
  /\ main.pc = "tap"
  /\ pipe' = [pipe EXCEPT !["tap"] = Append(@, main.cmd)]
  /\ main' = [main EXCEPT !.pc = "asic"]
  /\ UNCHANGED <<mutex, tap_fd, info, open, failed, queue, tapVars, asicVars>>

(* Mutant: the entry stays in info->fd_to_tap_if_map.                      *)
SendAsicKeepsEntry ==
  /\ main.pc = "asic"
  /\ pipe' = [pipe EXCEPT !["asic"] = Append(@, main.cmd)]
  /\ mutex' = FALSE
  /\ main' = IF main.cmd.type = "add" THEN Idle
             ELSE [main EXCEPT !.pc = "close"]
  /\ UNCHANGED <<tap_fd, info, open, failed, queue, tapVars, asicVars>>

(* Mutant: fpa_dev_mutex is not unlocked.                                  *)
SendAsicKeepsLock ==
  /\ main.pc = "asic"
  /\ pipe' = [pipe EXCEPT !["asic"] = Append(@, main.cmd)]
  /\ main' = IF main.cmd.type = "add" THEN Idle
             ELSE [main EXCEPT !.pc = "close"]
  /\ info' = IF main.cmd.type = "add" THEN info
             ELSE [info EXCEPT ![main.cmd.fd] = NoPort]
  /\ UNCHANGED <<mutex, tap_fd, open, failed, queue, tapVars, asicVars>>

(* send_ctrl_cmd to the ASIC listener, and the rest up to the unlock.      *)
SendAsic ==
  /\ main.pc = "asic"
  /\ pipe' = [pipe EXCEPT !["asic"] = Append(@, main.cmd)]
  /\ mutex' = FALSE
  /\ \/ main.cmd.type = "add" /\ main' = Idle /\ UNCHANGED info
     \/ /\ main.cmd.type = "del"
        /\ main' = [main EXCEPT !.pc = "close"]
        /\ info' = [info EXCEPT ![main.cmd.fd] = NoPort]
  /\ UNCHANGED <<tap_fd, open, failed, queue, tapVars, asicVars>>

(* Mutant: the descriptor of a netdev without a TAP interface is -1.       *)
CloseFdToMinusOne ==
  /\ main.pc = "close"
  /\ open' = [open EXCEPT ![main.cmd.fd] = NoPort]
  /\ tap_fd' = [tap_fd EXCEPT ![main.cmd.port] = -1]
  /\ queue' = queue \ {main.cmd.port}
  /\ main' = Idle
  /\ UNCHANGED <<mutex, info, failed, pipe, tapVars, asicVars>>

(* What ops_fpa_tap_if_delete does after the unlock: the interface goes    *)
(* with its descriptor, and the netdev is freed.                           *)
CloseFd ==
  /\ main.pc = "close"
  /\ open' = [open EXCEPT ![main.cmd.fd] = NoPort]
  /\ tap_fd' = [tap_fd EXCEPT ![main.cmd.port] = 0]
  /\ queue' = queue \ {main.cmd.port}
  /\ main' = Idle
  /\ UNCHANGED <<mutex, info, failed, pipe, tapVars, asicVars>>

(* The netdev of a port: set_hw_intf_info until it succeeds once, and the  *)
(* destruct, after which the port may get a new netdev.                    *)
ops_fpa_netdev_set_hw_intf_info(p) == tap_fd[p] = 0 /\ ops_fpa_tap_if_create(p)

ops_fpa_netdev_destruct(p) == tap_fd[p] # 0 /\ ops_fpa_tap_if_delete(p)

-----------------------------------------------------------------------------
(* The TAP listener *)

(* The host sends a packet over the TAP interface of p.                    *)
PacketFromHost(p) ==
  /\ \E f \in Fd : open[f] = p
  /\ queue' = queue \cup {p}
  /\ UNCHANGED <<mainVars, open, pipe, tapVars, asicVars>>

ReadFds == {e[1] : e \in tmap}

(* select() fails on a closed descriptor and leaves rd as it was: the      *)
(* whole read_fd_set, the control pipe included.                           *)
SelectFails ==
  /\ \E f \in ReadFds : open[f] = NoPort
  /\ tl' = [Selecting EXCEPT !.pc = "commands", !.rd = ReadFds]

(* Mutant: the control pipe is not in read_fd_set.                         *)
SelectTrafficOnly ==
  LET ready == {f \in ReadFds : open[f] \in queue}
  IN  /\ \A f \in ReadFds : open[f] # NoPort
      /\ ready # {}
      /\ tl' = [Selecting EXCEPT !.pc = "read", !.rd = ready]

SelectReturns ==
  LET ready == {f \in ReadFds : open[f] \in queue}
  IN  /\ \A f \in ReadFds : open[f] # NoPort
      /\ ready # {} \/ pipe["tap"] # <<>>
      /\ tl' = [Selecting EXCEPT
                !.pc = IF pipe["tap"] = <<>> THEN "read" ELSE "commands",
                !.rd = ready]

TapSelect ==
  /\ tl.pc = "select"
  /\ SelectFails \/ SelectReturns
  /\ UNCHANGED <<mainVars, open, queue, pipe, tmap, tbuf, asicVars>>

(* A signal during select() ends the thread.                               *)
SelectInterrupted ==
  /\ tl.pc = "select" /\ "eintr" \in Faults
  /\ tl' = [Selecting EXCEPT !.pc = "exited"]
  /\ UNCHANGED <<mainVars, open, queue, pipe, tmap, tbuf, asicVars>>

(* get_if_entry: an entry of the map under this key, if there is one.      *)
Entries(map, key) == {e \in map : e[1] = key}

(* The map after a command; a "del" without an entry is ignored.  The code *)
(* removes the first entry of the key: ListenersMirror says it is alone.   *)
ApplyTap(map, cmd) ==
  IF cmd.type = "add" THEN map \cup {<<cmd.fd, cmd.port>>}
  ELSE map \ Entries(map, cmd.fd)

ApplyAsic(map, cmd) ==
  IF cmd.type = "add" THEN map \cup {<<cmd.port, cmd.fd>>}
  ELSE map \ Entries(map, cmd.port)

(* The turns of the listeners' loops over their commands, and the map that *)
(* cmds leaves when nobody adds a command.                                 *)
TapTurn ==
  [cmd \in Cmd |-> [map \in SUBSET (Fd \X Port) |-> ApplyTap(map, cmd)]]
AsicTurn ==
  [cmd \in Cmd |-> [map \in SUBSET (Port \X Fd) |-> ApplyAsic(map, cmd)]]

AfterTap(map, cmds) == AfterAll(TapTurn, map, cmds)
AfterAsic(map, cmds) == AfterAll(AsicTurn, map, cmds)

(* One turn of the loop over the control commands.                         *)
TapCommand ==
  /\ tl.pc = "commands"
  /\ \/ /\ pipe["tap"] # <<>>
        /\ tmap' = ApplyTap(tmap, Head(pipe["tap"]))
        /\ pipe' = [pipe EXCEPT !["tap"] = Tail(@)]
        /\ UNCHANGED tl
     \/ /\ pipe["tap"] = <<>>
        /\ tl' = [tl EXCEPT !.pc = "read"]
        /\ UNCHANGED <<tmap, pipe>>
  /\ UNCHANGED <<mainVars, open, queue, tbuf, asicVars>>

(* What follows read(): a packet of the TAP interface 'from' (NoPort: none *)
(* was there to read, and the buffer keeps its last packet) is dropped or  *)
(* on its way to the port the map has for the descriptor.  Dropped: no     *)
(* entry, within the drain time, which the first packet begins, no egress  *)
(* group for its VLAN, a foreign MAC; a buffer never filled is all zero.   *)
Forward(f, from) ==
  LET filled == tbuf.filled \/ from # NoPort
      found == Entries(tmap, f)
  IN  /\ tbuf' = [filled |-> filled, timed |-> tbuf.timed \/ found # {}]
      /\ \/ tl' = [tl EXCEPT !.rd = @ \ {f}]
         \/ \E e \in found :
              /\ tbuf.timed /\ filled
              /\ tl' = [tl EXCEPT !.pc = "send", !.rd = @ \ {f},
                                 !.from = from, !.to = e[2]]

(* The turn of the loop over rd for its lowest descriptor.                 *)
TapRead ==
  /\ tl.pc = "read" /\ tl.rd # {}
  /\ LET f == CHOOSE f \in tl.rd : \A g \in tl.rd : f <= g
     IN  \/ /\ open[f] = NoPort
            /\ tl' = [tl EXCEPT !.rd = @ \ {f}]
            /\ UNCHANGED <<queue, tbuf>>
         \/ /\ open[f] \in queue
            /\ queue' = queue \ {open[f]}
            /\ Forward(f, open[f])
         \/ /\ open[f] \in Port \ queue
            /\ Forward(f, NoPort)
            /\ UNCHANGED queue
  /\ UNCHANGED <<mainVars, open, pipe, tmap, asicVars>>

(* fpaLibPortPktSend, whose failure is logged.                             *)
TapSend ==
  /\ tl.pc = "send"
  /\ tl' = [tl EXCEPT !.pc = "read", !.from = NoPort, !.to = NoPort]
  /\ UNCHANGED <<mainVars, open, queue, pipe, tmap, tbuf, asicVars>>

TapNextTurn ==
  /\ tl.pc = "read" /\ tl.rd = {}
  /\ tl' = Selecting
  /\ UNCHANGED <<mainVars, open, queue, pipe, tmap, tbuf, asicVars>>

tap_listener == TapSelect \/ TapCommand \/ TapRead \/ TapSend \/ TapNextTurn

-----------------------------------------------------------------------------
(* The ASIC listener *)

(* fpaLibPktReceive: a packet of port p, or none (NoPort) after the        *)
(* timeout or an error.                                                    *)
AsicReceive(p) ==
  /\ al.pc = "receive"
  /\ al' = [al EXCEPT !.pc = "commands", !.pkt = p]
  /\ UNCHANGED <<mainVars, open, queue, pipe, tapVars, amap>>

AsicCommand ==
  /\ al.pc = "commands" /\ pipe["asic"] # <<>>
  /\ amap' = ApplyAsic(amap, Head(pipe["asic"]))
  /\ pipe' = [pipe EXCEPT !["asic"] = Tail(@)]
  /\ UNCHANGED <<mainVars, open, queue, tapVars, al>>

(* The look-up of the TAP interface, when the pipe is empty.               *)
AsicLookup ==
  /\ al.pc = "commands" /\ pipe["asic"] = <<>>
  /\ \/ Entries(amap, al.pkt) = {} /\ al' = Receiving
     \/ \E e \in Entries(amap, al.pkt) :
          al' = [al EXCEPT !.pc = "write", !.fd = e[2]]
  /\ UNCHANGED <<mainVars, open, queue, pipe, tapVars, amap>>

(* write() to the descriptor, whose failure is logged.                     *)
AsicWrite ==
  /\ al.pc = "write"
  /\ al' = Receiving
  /\ UNCHANGED <<mainVars, open, queue, pipe, tapVars, amap>>

asic_listener ==
  \/ \E p \in Port \cup {NoPort} : AsicReceive(p)
  \/ AsicCommand
  \/ AsicLookup
  \/ AsicWrite

-----------------------------------------------------------------------------
Next ==
  \/ \E p \in Port : ops_fpa_netdev_set_hw_intf_info(p)
  \/ \E p \in Port : ops_fpa_netdev_destruct(p)
  \/ SendTap
  \/ SendAsic
  \/ CloseFd
  \/ \E p \in Port : PacketFromHost(p)
  \/ tap_listener
  \/ SelectInterrupted
  \/ asic_listener

Spec == Init /\ [][Next]_vars

(* Both listeners run on threads of their own, wait on nothing but a pipe, *)
(* a packet or a timeout, and an operation that has begun runs to its end. *)
(* A signal may come or not.                                               *)
FairSpec ==
  /\ Spec
  /\ WF_vars(SendTap \/ SendAsic \/ CloseFd)
  /\ WF_vars(tap_listener)
  /\ WF_vars(asic_listener)

-----------------------------------------------------------------------------
(* Between two operations of the main thread each listener's map, once the *)
(* commands still in its pipe are applied, is exactly the main thread's    *)
(* fd_to_tap_if_map: "Notifies all listener threads about new TAP          *)
(* interface".                                                             *)
ListenersMirror ==
  main.pc \in {"idle", "close", "stopped"} =>
    LET known == {f \in Fd : info[f] # NoPort}
    IN  /\ AfterTap(tmap, pipe["tap"]) = {<<f, info[f]>> : f \in known}
        /\ AfterAsic(amap, pipe["asic"]) = {<<info[f], f>> : f \in known}

(* A descriptor in a listener's map is open on the TAP interface the map   *)
(* says, or the command that takes it out is already in the pipe:          *)
(* ops_fpa_tap_if_delete announces before it closes.                       *)
StaleEntryAnnounced ==
  LET Announced(t, f, p) ==
        open[f] = p
        \/ \E i \in 1 .. Len(pipe[t]) :
             pipe[t][i] = [type |-> "del", fd |-> f, port |-> p]
  IN  /\ \A e \in tmap : Announced("tap", e[1], e[2])
      /\ \A e \in amap : Announced("asic", e[2], e[1])

(* The main thread stops at fpa_dev_mutex only if an earlier               *)
(* ops_fpa_tap_if_create failed and left it locked: every other call of    *)
(* ops_fpa_tap_if_create or _delete, in any order, gives it back.          *)
StopsOnlyAfterFailure == main.pc = "stopped" => failed

(* A TAP interface that is created is, unless it is deleted again or a     *)
(* signal ends the TAP listener, in both listeners' maps in the end,       *)
(* whatever traffic keeps them busy and even if the main thread stops.     *)
NewInterfaceServed ==
  \A p \in Port :
    tap_fd[p] # 0 ~> \/ <<tap_fd[p], p>> \in tmap /\ <<p, tap_fd[p]>> \in amap
                     \/ tap_fd[p] = 0
                     \/ tl.pc = "exited"

(* What the TAP listener sends to the ASIC it has read from a TAP          *)
(* interface: "Handles packets received from TAP interfaces".              *)
SentWasRead == tl.pc = "send" => tl.from # NoPort

(* The ASIC listener writes a packet of a port to the TAP interface of     *)
(* that port: "Handles packets received from ASIC to corresponding TAP     *)
(* interfaces".                                                            *)
WrittenToOwnTap ==
  al.pc = "write" => open[al.fd] \in {al.pkt, NoPort}

=============================================================================
