----------------------------- MODULE MacLearning -----------------------------
(***************************************************************************)
(* ops-fpa-mac-learning.c: the software forwarding database (FDB), the two *)
(* event buffers through which it tells bridge.c what was learnt and aged, *)
(* and the threads that share them:                                        *)
(*                                                                         *)
(*   - the ASIC thread (mac_learning_asic_events_handler) learns and ages  *)
(*     entries, one message of the switch at a time, under the write lock; *)
(*   - the main thread runs the mlearn timer, the "fdb flush" command, the *)
(*     creation of ports, and the bridge code that reads a published       *)
(*     buffer through ops_fpa_ml_hmap_get and applies it to its MAC table. *)
(*                                                                         *)
(* What happens under the write lock is one step, except the flush, which  *)
(* is one step per entry.  Reading a buffer is one step per event, since   *)
(* the reader has released the lock by then.                               *)
(***************************************************************************)
EXTENDS PortMap

CONSTANTS
  Key,         \* the (VLAN, MAC) pairs
  Pid,         \* port numbers of the switch
  Slot,        \* values of the hash of a key
  Hash,        \* fpa_hash_fdb_entry: a function from Key to Slot
  Addr,        \* memory for FDB entries
  MaxEntries,  \* ml->max_entries
  BufferSize,  \* BUFFER_SIZE: events a buffer can hold
  HasPlugin,   \* ml->plugin_interface was found when ml was created
  InitPorts,   \* ports created before the ASIC thread's start-up delay ends
  NoEntry, NoEvent, NoPort

Entry == [key : Key, pid : Pid]
Event == [oper : {"ADD", "DEL"}, key : Key, pid : Pid]

ASSUME ConstantAssumption ==
  /\ Hash \in [Key -> Slot]
  /\ Pid \subseteq Nat
  /\ IsFiniteSet(Addr) /\ IsFiniteSet(Slot)
  /\ MaxEntries \in Nat /\ BufferSize \in Nat \ {0}
  /\ HasPlugin \in BOOLEAN
  /\ InitPorts \subseteq Pid
  /\ NoEntry \notin Entry /\ NoEvent \notin Event /\ NoPort \notin Pid

VARIABLES
  ports,     \* ids in ports_by_pid
  table,     \* ml->table: the entry at each address, or NoEntry
  buf,       \* ml->mlearn_event_tables: at most one event per hash value
  curr,      \* ml->curr_mlearn_table_in_use
  notified,  \* the bridge was called back and has not looked yet
  main,      \* what the main thread is doing: "idle", "flush" or "read"
  reading,   \* the buffer the bridge got from ops_fpa_ml_hmap_get
  todo,      \* slots of that buffer the bridge has not iterated over yet
  db,        \* the bridge's MAC table: the port of each key, or NoPort
  unread,    \* history: slots of the published buffer not applied to db
  hidden,    \* history: keys whose latest event never got into a buffer or
             \* was overwritten there by an event of another key
  overrun,   \* history: a published buffer was cleared before it was read
  aborted    \* an ovs_assert has failed

vars == <<ports, table, buf, curr, notified, main, reading, todo, db, unread,
          hidden, overrun, aborted>>

TypeOK ==
  /\ ports \in SUBSET Pid
  /\ table \in [Addr -> Entry \cup {NoEntry}]
  /\ buf \in [{0, 1} -> [Slot -> Event \cup {NoEvent}]]
  /\ curr \in {0, 1}
  /\ notified \in BOOLEAN
  /\ main \in {"idle", "flush", "read"}
  /\ reading \in {0, 1}
  /\ todo \in SUBSET Slot
  /\ db \in [Key -> Pid \cup {NoPort}]
  /\ unread \in SUBSET Slot
  /\ hidden \in SUBSET Key
  /\ overrun \in BOOLEAN
  /\ aborted \in BOOLEAN

Empty == [s \in Slot |-> NoEvent]
Used(b) == {s \in Slot : b[s] # NoEvent}
InTable == {a \in Addr : table[a] # NoEntry}

Init ==
  /\ ports = InitPorts
  /\ table = [a \in Addr |-> NoEntry]
  /\ buf = [b \in {0, 1} |-> Empty]
  /\ curr = 0
  /\ notified = FALSE
  /\ main = "idle"
  /\ reading = 0
  /\ todo = {}
  /\ db = [k \in Key |-> NoPort]
  /\ unread = {}
  /\ hidden = {}
  /\ overrun = FALSE
  /\ aborted = FALSE

-----------------------------------------------------------------------------
(* Event buffers.                                                          *)

(* Mutants: the bridge is not called back; the index of the buffer in use  *)
(* runs on.                                                                *)
ProcessSilent(cur) ==
  IF HasPlugin /\ Used(cur) # {}
  THEN /\ curr' = 1 - curr
       /\ buf' = [b \in {0, 1} |-> IF b = curr THEN cur ELSE Empty]
       /\ unread' = Used(cur)
       /\ overrun' = (overrun \/ unread # {})
       /\ UNCHANGED notified
  ELSE /\ buf' = [buf EXCEPT ![curr] = cur]
       /\ UNCHANGED <<notified, curr, unread, overrun>>

ProcessRunsOn(cur) ==
  /\ notified' = TRUE
  /\ curr' = curr + 1
  /\ UNCHANGED <<buf, unread, overrun>>

(* Publish cur, the contents of the buffer in use: call the bridge back,   *)
(* switch buffers and clear the one now in use.  Without the plugin, or    *)
(* with nothing to tell, the buffers stay as they are.                     *)
ops_fpa_mac_learning_process_mlearn(cur) ==
  IF HasPlugin /\ Used(cur) # {}
  THEN /\ notified' = TRUE
       /\ curr' = 1 - curr
       /\ buf' = [b \in {0, 1} |-> IF b = curr THEN cur ELSE Empty]
       /\ unread' = Used(cur)
       /\ overrun' = (overrun \/ unread # {})
  ELSE /\ buf' = [buf EXCEPT ![curr] = cur]
       /\ UNCHANGED <<notified, curr, unread, overrun>>

(* Mutant: whether the buffer is full is asked before the event is in it.  *)
ActionAddChecksFirst(e, event) ==
  LET cur == buf[curr]
      next == [cur EXCEPT ![Hash[e.key]] =
                 [oper |-> event, key |-> e.key, pid |-> e.pid]]
  IN  /\ IF Cardinality(Used(cur)) = BufferSize
         THEN ops_fpa_mac_learning_process_mlearn(next)
         ELSE /\ buf' = [buf EXCEPT ![curr] = next]
              /\ UNCHANGED <<notified, curr, unread, overrun>>
      /\ UNCHANGED hidden

(* Put an event in the buffer in use.  The slot of its hash is overwritten *)
(* whichever key it holds; a new slot is taken while there is room, and    *)
(* otherwise the event is dropped.  A full buffer is published at once.    *)
ops_fpa_mac_learning_mlearn_action_add(e, event) ==
  LET cur == buf[curr]
      s == Hash[e.key]
      room == cur[s] # NoEvent \/ Cardinality(Used(cur)) < BufferSize
      new == [oper |-> event, key |-> e.key, pid |-> e.pid]
      next == IF room THEN [cur EXCEPT ![s] = new] ELSE cur
      overwritten == IF cur[s] = NoEvent THEN {} ELSE {cur[s].key}
  IN  /\ IF Cardinality(Used(next)) = BufferSize
         THEN ops_fpa_mac_learning_process_mlearn(next)
         ELSE /\ buf' = [buf EXCEPT ![curr] = next]
              /\ UNCHANGED <<notified, curr, unread, overrun>>
      /\ hidden' = IF room THEN (hidden \cup overwritten) \ {e.key}
                   ELSE hidden \cup {e.key}

(* ovs_assert(port) in mlearn_entry_fill_data: the process aborts.         *)
AddEvent(e, event) ==
  IF KnownPort(ports, e.pid)
  THEN /\ ops_fpa_mac_learning_mlearn_action_add(e, event)
       /\ UNCHANGED aborted
  ELSE /\ aborted' = TRUE
       /\ UNCHANGED <<buf, curr, notified, unread, hidden, overrun>>

-----------------------------------------------------------------------------
(* The ASIC thread.  It takes the write lock, which a flush holds.         *)

(* FPA_EVENT_ADDRESS_UPDATE_NEW_E.  There is no check for an entry with    *)
(* the same key: a MAC that moved has two entries.                         *)
ops_fpa_mac_learning_learn(e) ==
  /\ ~aborted /\ main # "flush"
  /\ KnownPort(ports, e.pid)
  /\ Cardinality(InTable) < MaxEntries
  /\ \E a \in Addr \ InTable : table' = [table EXCEPT ![a] = e]
  /\ AddEvent(e, "ADD")
  /\ UNCHANGED <<ports, main, reading, todo, db>>

(* Mutant: the bridge is not told.                                         *)
ExpireSilent(a) ==
  /\ table' = [table EXCEPT ![a] = NoEntry]
  /\ UNCHANGED <<buf, curr, notified, unread, hidden, overrun, aborted>>
  /\ UNCHANGED <<ports, reading, todo, db>>

ops_fpa_mac_learning_expire(a) ==
  /\ table' = [table EXCEPT ![a] = NoEntry]
  /\ AddEvent(table[a], "DEL")
  /\ UNCHANGED <<ports, reading, todo, db>>

(* FPA_EVENT_ADDRESS_UPDATE_AGED_E.  The lookup compares the key alone.    *)
ops_fpa_mac_learning_age_by_entry(k) ==
  /\ ~aborted /\ main # "flush"
  /\ \E a \in InTable : table[a].key = k /\ ops_fpa_mac_learning_expire(a)
  /\ UNCHANGED main

-----------------------------------------------------------------------------
(* The main thread.                                                        *)

(* ops_fpa_ofproto_bundle_set of a new bundle puts its port in the map.    *)
CreatePort(p) ==
  /\ ~aborted /\ main = "idle" /\ p \notin ports
  /\ ports' = ports \cup {p}
  /\ UNCHANGED <<table, buf, curr, notified, main, reading, todo, db, unread,
                 hidden, overrun, aborted>>

(* Mutant: the timer publishes full buffers only.                          *)
TimerWaitsForFull ==
  /\ ~aborted /\ main = "idle"
  /\ Cardinality(Used(buf[curr])) = BufferSize
  /\ ops_fpa_mac_learning_process_mlearn(buf[curr])
  /\ UNCHANGED <<ports, table, main, reading, todo, db, hidden, aborted>>

ops_fpa_mac_learning_on_mlearn_timer_expired ==
  /\ ~aborted /\ main = "idle"
  /\ ops_fpa_mac_learning_process_mlearn(buf[curr])
  /\ UNCHANGED <<ports, table, main, reading, todo, db, hidden, aborted>>

FlushBegin ==
  /\ ~aborted /\ main = "idle"
  /\ main' = "flush"
  /\ UNCHANGED <<ports, table, buf, curr, notified, reading, todo, db, unread,
                 hidden, overrun, aborted>>

FlushStep ==
  /\ ~aborted /\ main = "flush"
  /\ \E a \in InTable : ops_fpa_mac_learning_expire(a)
  /\ UNCHANGED main

FlushEnd ==
  /\ ~aborted /\ main = "flush" /\ InTable = {}
  /\ main' = "idle"
  /\ UNCHANGED <<ports, table, buf, curr, notified, reading, todo, db, unread,
                 hidden, overrun, aborted>>

(* The bridge answers the callback: it gets the buffer not in use, or NULL *)
(* if that one is empty, and releases the lock.                            *)
ops_fpa_ml_hmap_get ==
  /\ ~aborted /\ main = "idle" /\ notified
  /\ notified' = FALSE
  /\ reading' = 1 - curr
  /\ todo' = Used(buf[1 - curr])
  /\ main' = IF todo' = {} THEN "idle" ELSE "read"
  /\ UNCHANGED <<ports, table, buf, curr, db, unread, hidden, overrun,
                 aborted>>

(* The bridge applies the event in slot s as it finds it.                  *)
ReadEvent(s) ==
  /\ ~aborted /\ main = "read" /\ s \in todo
  /\ todo' = todo \ {s}
  /\ main' = IF todo' = {} THEN "idle" ELSE "read"
  /\ LET e == buf[reading][s]
     IN  db' = IF e = NoEvent THEN db
               ELSE [db EXCEPT ![e.key] = IF e.oper = "ADD" THEN e.pid
                                          ELSE NoPort]
  /\ unread' = IF reading = curr THEN unread ELSE unread \ {s}
  /\ UNCHANGED <<ports, table, buf, curr, notified, reading, hidden, overrun,
                 aborted>>

-----------------------------------------------------------------------------
AsicThread ==
  \/ \E e \in Entry : ops_fpa_mac_learning_learn(e)
  \/ \E k \in Key : ops_fpa_mac_learning_age_by_entry(k)

Bridge == ops_fpa_ml_hmap_get \/ \E s \in Slot : ReadEvent(s)

Next ==
  \/ AsicThread
  \/ \E p \in Pid : CreatePort(p)
  \/ ops_fpa_mac_learning_on_mlearn_timer_expired
  \/ FlushBegin \/ FlushStep \/ FlushEnd
  \/ Bridge

Spec == Init /\ [][Next]_vars

(* The main loop of the daemon keeps running.  A flush and a read go on to *)
(* their end (weak fairness).  Every iteration of the loop polls the timer *)
(* and the callback, whatever commands are served in between, so neither   *)
(* is passed over for ever (strong fairness).  Nothing is assumed of the   *)
(* switch, of the operator or of the configuration.                        *)
Fairness ==
  /\ SF_vars(ops_fpa_mac_learning_on_mlearn_timer_expired)
  /\ SF_vars(ops_fpa_ml_hmap_get)
  /\ WF_vars(FlushStep \/ FlushEnd)
  /\ WF_vars(\E s \in Slot : ReadEvent(s))

FairSpec == Spec /\ Fairness

-----------------------------------------------------------------------------
(* Properties.                                                             *)

(* What the bridge will hold for key k once it has applied the published   *)
(* batch and then the events still in the buffer in use.                   *)
PortAfter(e) == IF e.oper = "ADD" THEN e.pid ELSE NoPort

View(k) ==
  LET s == Hash[k]
      c == buf[curr][s]
      p == buf[1 - curr][s]
  IN  IF c # NoEvent /\ c.key = k THEN PortAfter(c)
      ELSE IF s \in unread /\ p # NoEvent /\ p.key = k THEN PortAfter(p)
      ELSE db[k]

(* As long as no buffer was cleared unread and the process lives, the      *)
(* bridge's MAC table, brought up to date with the pending events, names   *)
(* only MACs that the FDB holds on that very port: insert and expire post  *)
(* their event in the step that changes the table, and switching buffers   *)
(* neither repeats nor reorders events.  Two keys with one hash share a    *)
(* slot of mlearn_action_add; the key whose event is overwritten is        *)
(* excepted until its next event, and no other key suffers.                *)
BridgeViewInFdb ==
  ~overrun /\ ~aborted =>
    \A k \in Key \ hidden : View(k) # NoPort =>
      \E a \in Addr : table[a] = [key |-> k, pid |-> View(k)]

(* A published batch the bridge has not finished applying always has a     *)
(* callback pending or a read in progress: process_mlearn calls back in    *)
(* the same critical section in which it switches buffers.                 *)
NoStrandedBatch ==
  unread # {} => notified \/ (main = "read" /\ unread \subseteq todo)

(* With the plugin present the buffer in use always has room for one more  *)
(* event when the lock is free, so mlearn_action_add never reaches its     *)
(* "Not able to insert elements in hmap" branch.                           *)
RoomForNextEvent == HasPlugin => Cardinality(Used(buf[curr])) < BufferSize

(* ovs_assert(port) in mlearn_entry_fill_data never fails.                 *)
NoAbort == ~aborted

(* An event in the buffer in use is handed to the bridge and the bridge    *)
(* applies the whole batch, unless a buffer is cleared unread: the timer   *)
(* publishes what no full buffer did.                                      *)
EventsReachBridge ==
  \A b \in {0, 1} :
    (curr = b /\ Used(buf[b]) # {}) ~> (overrun \/ (curr # b /\ unread = {}))

(* The buffer that bridge.c is iterating over is not written: the point of *)
(* having two buffers.                                                     *)
ReadBufferStable == [][main = "read" => buf'[reading] = buf[reading]]_vars

=============================================================================
