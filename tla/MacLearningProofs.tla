-------------------------- MODULE MacLearningProofs --------------------------
(***************************************************************************)
(* Proofs about MacLearning, for any keys, hash, ports, sizes of the FDB   *)
(* and of the buffers, and any interleaving of the two threads.            *)
(***************************************************************************)
EXTENDS MacLearning, FiniteSetTheorems, TLAPS

-----------------------------------------------------------------------------
(* Type correctness.                                                       *)

Buffer == [Slot -> Event \cup {NoEvent}]

(* The state that posting an event writes.                                 *)
BufType ==
  /\ buf \in [{0, 1} -> Buffer]
  /\ curr \in {0, 1}
  /\ notified \in BOOLEAN
  /\ unread \in SUBSET Slot
  /\ overrun \in BOOLEAN

(* A cleared event buffer is a buffer, and no slot of it is used.          *)
LEMMA EmptyType == Empty \in Buffer /\ Used(Empty) = {}
  BY DEF Empty, Buffer, Used

(* The event made of an FDB entry is an event.                             *)
LEMMA EventType ==
  ASSUME NEW e \in Entry, NEW event \in {"ADD", "DEL"}
  PROVE  [oper |-> event, key |-> e.key, pid |-> e.pid] \in Event
  BY DEF Entry, Event

(* Publishing the current buffer keeps the types.                          *)
LEMMA ProcessType ==
  ASSUME TypeOK, NEW cur \in Buffer,
         ops_fpa_mac_learning_process_mlearn(cur)
  PROVE  BufType'
<1>1. Used(cur) \in SUBSET Slot
  BY DEF Used
<1>2. buf \in [{0, 1} -> Buffer] /\ curr \in {0, 1}
  BY DEF TypeOK, Buffer
<1>3. buf' \in [{0, 1} -> Buffer]
  BY <1>2, EmptyType DEF ops_fpa_mac_learning_process_mlearn
<1>4. curr' \in {0, 1}
  BY <1>2 DEF ops_fpa_mac_learning_process_mlearn
<1> QED
  BY <1>1, <1>3, <1>4, Zenon DEF ops_fpa_mac_learning_process_mlearn, BufType, TypeOK

(* Adding an event to the current buffer, published or not, keeps the      *)
(* types.                                                                  *)
LEMMA ActionAddType ==
  ASSUME TypeOK, NEW e \in Entry, NEW event \in {"ADD", "DEL"},
         ops_fpa_mac_learning_mlearn_action_add(e, event)
  PROVE  BufType' /\ hidden' \in SUBSET Key
<1> DEFINE cur == buf[curr]
           s == Hash[e.key]
           room == cur[s] # NoEvent \/ Cardinality(Used(cur)) < BufferSize
           new == [oper |-> event, key |-> e.key, pid |-> e.pid]
           next == IF room THEN [cur EXCEPT ![s] = new] ELSE cur
<1>1. cur \in Buffer /\ buf \in [{0, 1} -> Buffer]
  BY DEF TypeOK, Buffer
<1>2. new \in Event
  BY EventType, Zenon
<1>3. next \in Buffer
  BY <1>1, <1>2, Zenon DEF Buffer
<1>4. IF Cardinality(Used(next)) = BufferSize
      THEN ops_fpa_mac_learning_process_mlearn(next)
      ELSE /\ buf' = [buf EXCEPT ![curr] = next]
           /\ UNCHANGED <<notified, curr, unread, overrun>>
  BY DEF ops_fpa_mac_learning_mlearn_action_add
<1>5. hidden' \in SUBSET Key
  <2>1. e.key \in Key /\ s \in Slot /\ hidden \in SUBSET Key
    BY ConstantAssumption DEF Entry, TypeOK
  <2>2. cur[s] # NoEvent => cur[s].key \in Key
    BY <1>1, <2>1 DEF Buffer, Event
  <2> QED
    BY <2>1, <2>2 DEF ops_fpa_mac_learning_mlearn_action_add
<1> HIDE DEF next
<1>6. CASE Cardinality(Used(next)) = BufferSize
  BY <1>3, <1>4, <1>6, <1>5, ProcessType
<1>7. CASE Cardinality(Used(next)) # BufferSize
  BY <1>1, <1>3, <1>4, <1>7, <1>5 DEF BufType, TypeOK
<1> QED
  BY <1>6, <1>7

(* So does an event that finds no port and ends the process.               *)
LEMMA AddEventType ==
  ASSUME TypeOK, NEW e \in Entry, NEW event \in {"ADD", "DEL"},
         AddEvent(e, event)
  PROVE  BufType' /\ hidden' \in SUBSET Key /\ aborted' \in BOOLEAN
<1>1. CASE KnownPort(ports, e.pid)
  BY <1>1, ActionAddType DEF AddEvent, TypeOK
<1>2. CASE ~KnownPort(ports, e.pid)
  BY <1>2 DEF AddEvent, BufType, TypeOK, Buffer
<1> QED
  BY <1>1, <1>2

(* Removing an entry from the FDB keeps the types.                         *)
LEMMA ExpireType ==
  ASSUME TypeOK, NEW a \in InTable, ops_fpa_mac_learning_expire(a),
         UNCHANGED main
  PROVE  TypeOK'
<1>1. a \in Addr /\ table[a] \in Entry
  BY DEF InTable, TypeOK
<1>2. BufType' /\ hidden' \in SUBSET Key /\ aborted' \in BOOLEAN
  BY <1>1, AddEventType DEF ops_fpa_mac_learning_expire
<1>3. table' \in [Addr -> Entry \cup {NoEntry}]
  BY <1>1 DEF ops_fpa_mac_learning_expire, TypeOK
<1> QED
  BY <1>2, <1>3 DEF ops_fpa_mac_learning_expire, TypeOK, BufType, Buffer

(* Learning an address keeps the types.                                    *)
LEMMA LearnType ==
  ASSUME TypeOK, NEW e \in Entry, ops_fpa_mac_learning_learn(e)
  PROVE  TypeOK'
<1>1. BufType' /\ hidden' \in SUBSET Key /\ aborted' \in BOOLEAN
  BY AddEventType DEF ops_fpa_mac_learning_learn
<1>2. table' \in [Addr -> Entry \cup {NoEntry}]
  BY DEF ops_fpa_mac_learning_learn, TypeOK
<1> QED
  BY <1>1, <1>2 DEF ops_fpa_mac_learning_learn, TypeOK, BufType, Buffer

(* The bridge's reading of one event keeps the types.                      *)
LEMMA ReadEventType ==
  ASSUME TypeOK, NEW s \in Slot, ReadEvent(s)
  PROVE  TypeOK'
<1> DEFINE e == buf[reading][s]
<1>1. e \in Event \cup {NoEvent}
  BY DEF TypeOK
<1>2. e # NoEvent => e.key \in Key /\ e.pid \in Pid
  BY <1>1 DEF Event
<1> HIDE DEF e
<1>3. db' = IF e = NoEvent THEN db
            ELSE [db EXCEPT ![e.key] = IF e.oper = "ADD" THEN e.pid
                                       ELSE NoPort]
  BY DEF ReadEvent, e
<1>4. db' \in [Key -> Pid \cup {NoPort}]
  BY <1>2, <1>3 DEF TypeOK
<1> QED
  BY <1>4 DEF ReadEvent, TypeOK

(* Each thread's handlers keep every variable in its range.                *)
LEMMA NextType == TypeOK /\ [Next]_vars => TypeOK'
<1> SUFFICES ASSUME TypeOK, [Next]_vars
             PROVE  TypeOK'
  OBVIOUS
<1>1. CASE AsicThread
  BY <1>1, LearnType, ExpireType
     DEF AsicThread, ops_fpa_mac_learning_age_by_entry
<1>2. ASSUME NEW p \in Pid, CreatePort(p)
      PROVE  TypeOK'
  BY <1>2 DEF CreatePort, TypeOK
<1>3. CASE ops_fpa_mac_learning_on_mlearn_timer_expired
  <2>1. buf[curr] \in Buffer
    BY DEF TypeOK, Buffer
  <2>2. BufType'
    BY <1>3, <2>1, ProcessType DEF ops_fpa_mac_learning_on_mlearn_timer_expired
  <2> QED
    BY <1>3, <2>2 DEF ops_fpa_mac_learning_on_mlearn_timer_expired, TypeOK,
                      BufType, Buffer
<1>4. CASE FlushBegin \/ FlushEnd
  BY <1>4 DEF FlushBegin, FlushEnd, TypeOK
<1>5. CASE FlushStep
  BY <1>5, ExpireType DEF FlushStep
<1>6. CASE ops_fpa_ml_hmap_get
  <2>1. reading' \in {0, 1} /\ todo' \in SUBSET Slot
    BY <1>6 DEF ops_fpa_ml_hmap_get, TypeOK, Used
  <2>2. main' \in {"idle", "flush", "read"} /\ notified' \in BOOLEAN
    BY <1>6, Zenon DEF ops_fpa_ml_hmap_get
  <2> QED
    BY <1>6, <2>1, <2>2 DEF ops_fpa_ml_hmap_get, TypeOK
<1>7. CASE UNCHANGED vars
  BY <1>7 DEF vars, TypeOK
<1> QED
  BY <1>1, <1>2, <1>3, <1>4, <1>5, <1>6, <1>7, ReadEventType DEF Next, Bridge

(* Every state of the MAC learning threads and the bridge is of its type,  *)
(* whatever the keys, ports and sizes (ops-fpa-mac-learning.c).            *)
THEOREM TypeCorrect == Spec => []TypeOK
<1>1. Init => TypeOK
  <2> SUFFICES ASSUME Init PROVE TypeOK
    OBVIOUS
  <2>1. buf \in [{0, 1} -> Buffer]
    BY EmptyType DEF Init
  <2>2. ports \in SUBSET Pid /\ db \in [Key -> Pid \cup {NoPort}]
    BY ConstantAssumption DEF Init
  <2> QED
    BY <2>1, <2>2, Zenon DEF Init, TypeOK, Buffer
<1> QED
  BY <1>1, NextType, PTL DEF Spec

-----------------------------------------------------------------------------
(* NoStrandedBatch.  The strengthening says what the two sides of the      *)
(* hand-over know of each other: what is unread is in the buffer not in    *)
(* use; a reader whom no further callback awaits reads that buffer and has *)
(* all of it still to do; and without callback or reader all is read.      *)
HandOver ==
  /\ unread \subseteq Used(buf[1 - curr])
  /\ main = "read" /\ ~notified => reading = 1 - curr /\ unread \subseteq todo
  /\ main # "read" /\ ~notified => unread = {}

(* ops_fpa_mac_learning_process_mlearn leaves the buffer it hands over,    *)
(* and no other, to the reader.                                            *)
LEMMA ProcessHandOver ==
  ASSUME TypeOK, HandOver, NEW cur,
         ops_fpa_mac_learning_process_mlearn(cur),
         UNCHANGED <<main, reading, todo>>
  PROVE  HandOver'
<1>1. CASE HasPlugin /\ Used(cur) # {}
  <2>1. notified' /\ curr' = 1 - curr /\ unread' = Used(cur)
    BY <1>1 DEF ops_fpa_mac_learning_process_mlearn
  <2>2. buf'[1 - curr'] = cur
    BY <1>1, <2>1 DEF ops_fpa_mac_learning_process_mlearn, TypeOK
  <2> QED
    BY <2>1, <2>2 DEF HandOver
<1>2. CASE ~(HasPlugin /\ Used(cur) # {})
  <2>1. UNCHANGED <<notified, curr, unread>> /\ buf'[1 - curr] = buf[1 - curr]
    BY <1>2 DEF ops_fpa_mac_learning_process_mlearn, TypeOK
  <2> QED
    BY <2>1 DEF HandOver
<1> QED
  BY <1>1, <1>2

(* An event added to the current buffer leaves the hand-over as it is, or  *)
(* makes a new one.                                                        *)
LEMMA AddEventHandOver ==
  ASSUME TypeOK, HandOver, NEW e, NEW event, AddEvent(e, event),
         UNCHANGED <<main, reading, todo>>
  PROVE  HandOver'
<1>1. CASE /\ UNCHANGED <<notified, curr, unread>>
           /\ buf'[1 - curr] = buf[1 - curr]
  BY <1>1 DEF HandOver
<1>2. \/ \E cur : ops_fpa_mac_learning_process_mlearn(cur)
      \/ UNCHANGED <<notified, curr, unread>> /\ buf'[1 - curr] = buf[1 - curr]
  <2>1. CASE KnownPort(ports, e.pid)
    BY <2>1 DEF AddEvent, ops_fpa_mac_learning_mlearn_action_add, TypeOK
  <2>2. CASE ~KnownPort(ports, e.pid)
    BY <2>2 DEF AddEvent
  <2> QED
    BY <2>1, <2>2
<1> QED
  BY <1>1, <1>2, ProcessHandOver

(* Every step preserves the hand-over.                                     *)
LEMMA NextHandOver == TypeOK /\ HandOver /\ [Next]_vars => HandOver'
<1> SUFFICES ASSUME TypeOK, HandOver, [Next]_vars
             PROVE  HandOver'
  OBVIOUS
<1>1. CASE UNCHANGED <<buf, curr, notified, main, reading, todo, unread>>
  BY <1>1 DEF HandOver
<1>2. CASE AsicThread
  BY <1>2, AddEventHandOver
     DEF AsicThread, ops_fpa_mac_learning_learn,
         ops_fpa_mac_learning_age_by_entry, ops_fpa_mac_learning_expire
<1>3. ASSUME NEW p \in Pid, CreatePort(p)
      PROVE  HandOver'
  BY <1>1, <1>3 DEF CreatePort
<1>4. CASE ops_fpa_mac_learning_on_mlearn_timer_expired
  BY <1>4, ProcessHandOver DEF ops_fpa_mac_learning_on_mlearn_timer_expired
<1>5. CASE FlushBegin \/ FlushEnd
  BY <1>5 DEF FlushBegin, FlushEnd, HandOver
<1>6. CASE FlushStep
  BY <1>6, AddEventHandOver DEF FlushStep, ops_fpa_mac_learning_expire
<1>7. CASE ops_fpa_ml_hmap_get
  BY <1>7 DEF ops_fpa_ml_hmap_get, HandOver
<1>8. ASSUME NEW s \in Slot, ReadEvent(s)
      PROVE  HandOver'
  <2>1. curr # 1 - curr
    BY DEF TypeOK
  <2> QED
    BY <1>8, <2>1 DEF ReadEvent, HandOver
<1>9. CASE UNCHANGED vars
  BY <1>1, <1>9 DEF vars
<1> QED
  BY <1>2, <1>3, <1>4, <1>5, <1>6, <1>7, <1>8, <1>9 DEF Next, Bridge

(* No batch of events that process_mlearn published is forgotten: until    *)
(* the bridge has applied it, a callback is pending or a read of all that  *)
(* is left of it is going on.                                              *)
THEOREM BatchNotStranded == Spec => []NoStrandedBatch
<1>1. Init => HandOver
  BY DEF Init, HandOver
<1>2. HandOver => NoStrandedBatch
  BY DEF HandOver, NoStrandedBatch
<1>3. Spec => []TypeOK
  BY TypeCorrect
<1> QED
  BY <1>1, <1>2, <1>3, NextHandOver, PTL DEF Spec

-----------------------------------------------------------------------------
(* RoomForNextEvent, which is inductive as it stands.                      *)

(* A cleared buffer has room for an event.                                 *)
LEMMA UsedEmptyRoom == Cardinality(Used(Empty)) < BufferSize
<1>1. Cardinality({}) = 0
  BY FS_EmptySet
<1> QED
  BY <1>1, EmptyType, ConstantAssumption

(* After an event was added and a full buffer published, the buffer in use *)
(* has room for another.                                                   *)
LEMMA ActionAddRoom ==
  ASSUME TypeOK, RoomForNextEvent, HasPlugin, NEW e \in Entry,
         NEW event \in {"ADD", "DEL"},
         ops_fpa_mac_learning_mlearn_action_add(e, event)
  PROVE  RoomForNextEvent'
<1> DEFINE cur == buf[curr]
           s == Hash[e.key]
           new == [oper |-> event, key |-> e.key, pid |-> e.pid]
           next == [cur EXCEPT ![s] = new]
<1>1. Cardinality(Used(cur)) < BufferSize
  BY DEF RoomForNextEvent
<1>2. cur \in Buffer /\ new \in Event /\ s \in Slot /\ curr \in {0, 1}
  BY EventType, ConstantAssumption, Zenon DEF TypeOK, Buffer, Entry
<1>3. IF Cardinality(Used(next)) = BufferSize
      THEN ops_fpa_mac_learning_process_mlearn(next)
      ELSE buf' = [buf EXCEPT ![curr] = next] /\ UNCHANGED curr
  BY <1>1 DEF ops_fpa_mac_learning_mlearn_action_add
<1> HIDE DEF cur, s, new
<1>4. Used(next) = Used(cur) \cup {s}
  BY <1>2, ConstantAssumption DEF Used, Buffer
<1>5. IsFiniteSet(Used(cur))
  BY FS_Subset, ConstantAssumption DEF Used
<1> HIDE DEF next
<1>6. Cardinality(Used(next)) <= Cardinality(Used(cur)) + 1
  <2>1. Cardinality(Used(cur)) \in Nat
    BY <1>5, FS_CardinalityType
  <2>2. Cardinality(Used(cur) \cup {s})
          = IF s \in Used(cur) THEN Cardinality(Used(cur))
            ELSE Cardinality(Used(cur)) + 1
    BY <1>5, FS_AddElement
  <2> QED
    BY <1>4, <2>1, <2>2
<1>7. Cardinality(Used(cur)) \in Nat /\ Cardinality(Used(next)) \in Nat
  <2>1. IsFiniteSet(Used(next))
    BY FS_Subset, ConstantAssumption DEF Used
  <2> QED
    BY <1>5, <2>1, FS_CardinalityType
<1>8. CASE Cardinality(Used(next)) = BufferSize
  <2>1. Used(next) # {}
    BY <1>4
  <2>2. buf'[curr'] = Empty
    BY <1>2, <1>3, <1>8, <2>1 DEF ops_fpa_mac_learning_process_mlearn
  <2> QED
    BY <2>2, UsedEmptyRoom DEF RoomForNextEvent
<1>9. CASE Cardinality(Used(next)) # BufferSize
  <2>1. buf'[curr'] = next
    BY <1>2, <1>3, <1>9 DEF TypeOK
  <2> QED
    BY <1>1, <1>6, <1>7, <1>9, <2>1, ConstantAssumption DEF RoomForNextEvent
<1> QED
  BY <1>8, <1>9

(* So it has when the event may have ended the process.                    *)
LEMMA AddEventRoom ==
  ASSUME TypeOK, RoomForNextEvent, NEW e \in Entry,
         NEW event \in {"ADD", "DEL"}, AddEvent(e, event)
  PROVE  RoomForNextEvent'
<1>1. CASE HasPlugin /\ KnownPort(ports, e.pid)
  BY <1>1, ActionAddRoom DEF AddEvent
<1>2. CASE HasPlugin /\ ~KnownPort(ports, e.pid)
  BY <1>2 DEF AddEvent, RoomForNextEvent
<1>3. CASE ~HasPlugin
  BY <1>3 DEF RoomForNextEvent
<1> QED
  BY <1>1, <1>2, <1>3

(* Every step preserves the room for one event.                            *)
LEMMA NextRoom ==
  TypeOK /\ RoomForNextEvent /\ [Next]_vars => RoomForNextEvent'
<1> SUFFICES ASSUME TypeOK, RoomForNextEvent, [Next]_vars
             PROVE  RoomForNextEvent'
  OBVIOUS
<1>1. CASE UNCHANGED <<buf, curr>>
  BY <1>1 DEF RoomForNextEvent
<1>2. ASSUME NEW a \in InTable, ops_fpa_mac_learning_expire(a)
      PROVE  RoomForNextEvent'
  <2>1. table[a] \in Entry
    BY DEF InTable, TypeOK
  <2> QED
    BY <1>2, <2>1, AddEventRoom DEF ops_fpa_mac_learning_expire
<1>3. CASE AsicThread
  BY <1>2, <1>3, AddEventRoom
     DEF AsicThread, ops_fpa_mac_learning_learn,
         ops_fpa_mac_learning_age_by_entry
<1>4. ASSUME NEW p \in Pid, CreatePort(p)
      PROVE  UNCHANGED <<buf, curr>>
  BY <1>4 DEF CreatePort
<1>5. CASE ops_fpa_mac_learning_on_mlearn_timer_expired
  <2>1. ops_fpa_mac_learning_process_mlearn(buf[curr])
    BY <1>5 DEF ops_fpa_mac_learning_on_mlearn_timer_expired
  <2>2. buf'[curr'] \in {buf[curr], Empty}
    BY <2>1 DEF ops_fpa_mac_learning_process_mlearn, TypeOK
  <2> QED
    BY <2>2, UsedEmptyRoom DEF RoomForNextEvent
<1>6. CASE FlushStep
  BY <1>2, <1>6 DEF FlushStep
<1>7. CASE FlushBegin \/ FlushEnd \/ Bridge \/ UNCHANGED vars
  BY <1>1, <1>7 DEF FlushBegin, FlushEnd, Bridge, ops_fpa_ml_hmap_get,
                    ReadEvent, vars
<1> QED
  BY <1>1, <1>3, <1>4, <1>5, <1>6, <1>7 DEF Next

(* With the plugin present, mlearn_action_add always finds room for its    *)
(* event: a buffer that fills up is published in the same step.            *)
THEOREM RoomForEvents == Spec => []RoomForNextEvent
<1>1. Init => RoomForNextEvent
  BY UsedEmptyRoom DEF Init, RoomForNextEvent
<1>2. Spec => []TypeOK
  BY TypeCorrect
<1> QED
  BY <1>1, <1>2, NextRoom, PTL DEF Spec

-----------------------------------------------------------------------------
(* BridgeViewInFdb.  What the bridge will hold of a key depends on both    *)
(* buffers and on what it has read of the published one, so the invariant  *)
(* is strengthened by HandOver, by the place events have in a buffer, and, *)
(* while no buffer was cleared unread, by what the reader and the          *)
(* published buffer have in common.                                        *)
InPlace(b) == \A s \in Slot : b[s] # NoEvent => Hash[b[s].key] = s

InStep ==
  /\ main = "read" => ~notified /\ todo = unread /\ todo # {}
  /\ notified => unread = Used(buf[1 - curr])

ViewInv ==
  /\ HandOver
  /\ \A b \in {0, 1} : InPlace(buf[b])
  /\ ~overrun /\ ~aborted => InStep
  /\ BridgeViewInFdb

(* View, if the buffer in use held c.                                      *)
ViewWith(c, k) ==
  LET s == Hash[k]
      p == buf[1 - curr][s]
  IN  IF c[s] # NoEvent /\ c[s].key = k THEN PortAfter(c[s])
      ELSE IF s \in unread /\ p # NoEvent /\ p.key = k THEN PortAfter(p)
      ELSE db[k]

(* The bridge's view is the view with the buffer in use.                   *)
LEMMA ViewIsWith == \A k : View(k) = ViewWith(buf[curr], k)
  BY DEF View, ViewWith

(* The bridge's view of a key is a port or none.                           *)
LEMMA ViewType ==
  ASSUME TypeOK, NEW k \in Key
  PROVE  View(k) \in Pid \cup {NoPort}
<1>1. Hash[k] \in Slot /\ curr \in {0, 1} /\ 1 - curr \in {0, 1}
  BY ConstantAssumption DEF TypeOK
<1>2. \A b \in {0, 1} : buf[b][Hash[k]] \in Event \cup {NoEvent}
  BY <1>1 DEF TypeOK
<1>3. \A e \in Event : PortAfter(e) \in Pid \cup {NoPort}
  BY DEF Event, PortAfter
<1>4. db[k] \in Pid \cup {NoPort}
  BY DEF TypeOK
<1> QED
  BY <1>1, <1>2, <1>3, <1>4 DEF View

(* Publishing a buffer changes nothing of what the bridge will hold.       *)
LEMMA ProcessView ==
  ASSUME TypeOK, ViewInv, ~aborted, NEW cur \in Buffer, InPlace(cur),
         ops_fpa_mac_learning_process_mlearn(cur),
         UNCHANGED <<main, reading, todo, db>>
  PROVE  /\ \A b \in {0, 1} : InPlace(buf'[b])
         /\ ~overrun' => /\ ~overrun
                         /\ InStep'
                         /\ \A k \in Key : View(k)' = ViewWith(cur, k)
<1> USE ConstantAssumption
<1>0. curr \in {0, 1} /\ buf \in [{0, 1} -> Buffer] /\ overrun \in BOOLEAN
  BY DEF TypeOK, Buffer
<1>1. CASE HasPlugin /\ Used(cur) # {}
  <2>1. /\ notified' /\ curr' = 1 - curr /\ unread' = Used(cur)
        /\ overrun' = (overrun \/ unread # {})
        /\ buf'[curr] = cur /\ buf'[1 - curr] = Empty
    BY <1>0, <1>1 DEF ops_fpa_mac_learning_process_mlearn
  <2>2. \A b \in {0, 1} : InPlace(buf'[b])
    <3>1. InPlace(Empty)
      BY DEF InPlace, Empty
    <3>2. \A b \in {0, 1} : b = curr \/ b = 1 - curr
      BY <1>0
    <3> QED
      BY <2>1, <3>1, <3>2
  <2>3. ASSUME ~overrun'
        PROVE  /\ ~overrun
               /\ InStep'
               /\ \A k \in Key : View(k)' = ViewWith(cur, k)
    <3>1. ~overrun /\ unread = {}
      BY <1>0, <2>1, <2>3, Zenon
    <3>2. main # "read"
      BY <3>1 DEF ViewInv, InStep
    <3>3. 1 - curr' = curr
      BY <1>0, <2>1
    <3>4. InStep'
      BY <2>1, <3>2, <3>3 DEF InStep
    <3>5. ASSUME NEW k \in Key
          PROVE  View(k)' = ViewWith(cur, k)
      <4>1. Hash[k] \in Slot
        OBVIOUS
      <4>2. Empty[Hash[k]] = NoEvent
        BY <4>1 DEF Empty
      <4>3. Hash[k] \in unread' <=> cur[Hash[k]] # NoEvent
        BY <2>1, <4>1 DEF Used
      <4> QED
        BY <2>1, <3>1, <3>3, <4>2, <4>3 DEF View, ViewWith, PortAfter
    <3> QED
      BY <3>1, <3>4, <3>5
  <2> QED
    BY <2>2, <2>3
<1>2. CASE ~(HasPlugin /\ Used(cur) # {})
  <2>1. /\ UNCHANGED <<notified, curr, unread, overrun>>
        /\ buf'[curr] = cur /\ buf'[1 - curr] = buf[1 - curr]
    BY <1>0, <1>2 DEF ops_fpa_mac_learning_process_mlearn
  <2>2. \A b \in {0, 1} : b = curr \/ b = 1 - curr
    BY <1>0
  <2>3. \A b \in {0, 1} : InPlace(buf'[b])
    BY <1>0, <2>1, <2>2 DEF ViewInv
  <2>4. ~overrun' => InStep'
    BY <2>1, SMTT(30) DEF ViewInv, InStep
  <2>5. \A k \in Key : View(k)' = ViewWith(cur, k)
    BY <2>1, SMTT(30) DEF View, ViewWith, PortAfter
  <2> QED
    BY <2>1, <2>3, <2>4, <2>5
<1> QED
  BY <1>1, <1>2

(* Posting an event sets what the bridge will hold of its key, or hides    *)
(* the key, and leaves alone every key that is not hidden by it.           *)
LEMMA ActionAddView ==
  ASSUME TypeOK, ViewInv, ~aborted, NEW e \in Entry,
         NEW event \in {"ADD", "DEL"},
         ops_fpa_mac_learning_mlearn_action_add(e, event),
         UNCHANGED <<main, reading, todo, db>>
  PROVE  /\ \A b \in {0, 1} : InPlace(buf'[b])
         /\ ~overrun' =>
              /\ ~overrun
              /\ InStep'
              /\ e.key \notin hidden' =>
                   View(e.key)' = IF event = "ADD" THEN e.pid ELSE NoPort
              /\ \A k \in Key \ (hidden' \cup {e.key}) :
                   k \notin hidden /\ View(k)' = View(k)
<1> USE ConstantAssumption
<1> DEFINE cur == buf[curr]
           s == Hash[e.key]
           room == cur[s] # NoEvent \/ Cardinality(Used(cur)) < BufferSize
           new == [oper |-> event, key |-> e.key, pid |-> e.pid]
           next == IF room THEN [cur EXCEPT ![s] = new] ELSE cur
<1>1. /\ cur \in Buffer /\ buf \in [{0, 1} -> Buffer] /\ curr \in {0, 1}
      /\ overrun \in BOOLEAN
  BY DEF TypeOK, Buffer
<1>2. /\ new \in Event /\ new # NoEvent /\ new.key = e.key
      /\ PortAfter(new) = IF event = "ADD" THEN e.pid ELSE NoPort
  BY EventType, Zenon DEF PortAfter
<1>3. e.key \in Key /\ s \in Slot
  BY DEF Entry
<1>4. next \in Buffer
  BY <1>1, <1>2, ZenonT(40) DEF Buffer
<1>5. IF Cardinality(Used(next)) = BufferSize
      THEN ops_fpa_mac_learning_process_mlearn(next)
      ELSE /\ buf' = [buf EXCEPT ![curr] = next]
           /\ UNCHANGED <<notified, curr, unread, overrun>>
  BY DEF ops_fpa_mac_learning_mlearn_action_add
<1>6. /\ next = IF room THEN [cur EXCEPT ![s] = new] ELSE cur
      /\ e.key \notin hidden' => room
      /\ \A k : k # e.key /\ k \notin hidden' =>
                  k \notin hidden /\ (cur[s] = NoEvent \/ cur[s].key # k)
  BY Zenon DEF ops_fpa_mac_learning_mlearn_action_add
<1>7. InPlace(cur)
  BY <1>1, SMTT(30) DEF ViewInv
<1> HIDE DEF next, room, new, cur
<1>8. InPlace(next)
  BY <1>1, <1>2, <1>3, <1>6, <1>7, SMTT(30) DEF InPlace, Buffer
<1>9. e.key \notin hidden' => ViewWith(next, e.key) = PortAfter(new)
  BY <1>1, <1>2, <1>3, <1>6 DEF ViewWith, Buffer
<1>10. ASSUME NEW k \in Key, k # e.key, k \notin hidden'
       PROVE  ViewWith(next, k) = View(k)
  <2>1. View(k) = ViewWith(cur, k)
    BY ViewIsWith DEF cur
  <2>2. CASE ~room \/ Hash[k] # s
    <3>1. next[Hash[k]] = cur[Hash[k]]
      BY <1>1, <1>6, <2>2, SMTT(30) DEF Buffer
    <3> QED
      BY <2>1, <3>1, SMTT(30) DEF ViewWith
  <2>3. CASE room /\ Hash[k] = s
    <3>1. next[Hash[k]] = new
      BY <1>1, <1>3, <1>6, <2>3 DEF Buffer
    <3>2. cur[s] = NoEvent \/ cur[s].key # k
      BY <1>6, <1>10
    <3> QED
      BY <1>2, <1>10, <2>1, <2>3, <3>1, <3>2 DEF ViewWith
  <2> QED
    BY <2>2, <2>3
<1>11. /\ \A b \in {0, 1} : InPlace(buf'[b])
       /\ ~overrun' => /\ ~overrun
                       /\ InStep'
                       /\ \A k \in Key : View(k)' = ViewWith(next, k)
  <2>1. CASE Cardinality(Used(next)) = BufferSize
    BY <1>4, <1>5, <1>8, <2>1, ProcessView, SMTT(30)
  <2>2. CASE Cardinality(Used(next)) # BufferSize
    <3>1. /\ UNCHANGED <<notified, curr, unread, overrun>>
          /\ buf'[curr] = next /\ buf'[1 - curr] = buf[1 - curr]
      BY <1>1, <1>5, <2>2
    <3>2. \A b \in {0, 1} : b = curr \/ b = 1 - curr
      BY <1>1
    <3>3. \A b \in {0, 1} : InPlace(buf'[b])
      BY <1>1, <1>8, <3>1, <3>2 DEF ViewInv
    <3>4. ~overrun' => InStep'
      BY <3>1 DEF ViewInv, InStep
    <3>5. \A k \in Key : View(k)' = ViewWith(next, k)
      BY <3>1 DEF View, ViewWith, PortAfter
    <3> QED
      BY <3>1, <3>3, <3>4, <3>5
  <2> QED
    BY <2>1, <2>2
<1>12. \A k \in Key \ (hidden' \cup {e.key}) :
         k \notin hidden /\ ViewWith(next, k) = View(k)
  BY <1>6, <1>10, ZenonT(40)
<1> QED
  BY <1>2, <1>3, <1>9, <1>11, <1>12

(* The step of a handler that posts an event for e, given that the FDB     *)
(* suits the event and keeps the entries of the other keys.                *)
LEMMA AddEventView ==
  ASSUME TypeOK, ViewInv, ~aborted, NEW e \in Entry,
         NEW event \in {"ADD", "DEL"}, AddEvent(e, event),
         UNCHANGED <<main, reading, todo, db>>,
         event = "ADD" => \E a \in Addr : table'[a] = e,
         \A a \in Addr : table[a] # NoEntry /\ table[a].key # e.key =>
                           table'[a] = table[a]
  PROVE  ViewInv'
<1>1. HandOver'
  BY AddEventHandOver DEF ViewInv
<1>2. CASE ~KnownPort(ports, e.pid)
  BY <1>1, <1>2 DEF AddEvent, ViewInv, InPlace, BridgeViewInFdb
<1>3. CASE KnownPort(ports, e.pid)
  <2>1. ops_fpa_mac_learning_mlearn_action_add(e, event) /\ UNCHANGED aborted
    BY <1>3, SMTT(30) DEF AddEvent
  <2>2. /\ \A b \in {0, 1} : InPlace(buf'[b])
        /\ ~overrun' =>
             /\ ~overrun
             /\ InStep'
             /\ e.key \notin hidden' =>
                  View(e.key)' = IF event = "ADD" THEN e.pid ELSE NoPort
             /\ \A k \in Key \ (hidden' \cup {e.key}) :
                  k \notin hidden /\ View(k)' = View(k)
    BY <2>1, ActionAddView
  <2>3. ASSUME ~overrun', NEW k \in Key \ hidden', View(k)' # NoPort
        PROVE  \E a \in Addr : table'[a] = [key |-> k, pid |-> View(k)']
    <3>1. CASE k = e.key
      <4>1. event = "ADD" /\ View(k)' = e.pid
        BY <2>2, <2>3, <3>1
      <4>2. e = [key |-> k, pid |-> e.pid]
        BY <3>1 DEF Entry
      <4> QED
        BY <4>1, <4>2
    <3>2. CASE k # e.key
      <4>1. /\ View(k)' = View(k) /\ View(k) # NoPort
            /\ ~overrun /\ k \notin hidden
        BY <2>2, <2>3, <3>2
      <4>2. PICK a \in Addr : table[a] = [key |-> k, pid |-> View(k)]
        BY <4>1 DEF ViewInv, BridgeViewInFdb
      <4>3. View(k) \in Pid
        BY <4>1, ViewType
      <4>4. table[a] # NoEntry /\ table[a].key = k
        BY <4>2, <4>3, ConstantAssumption, SMTT(30) DEF Entry
      <4> QED
        BY <3>2, <4>1, <4>2, <4>4
    <3> QED
      BY <3>1, <3>2
  <2>4. BridgeViewInFdb'
    BY <2>3, Zenon DEF BridgeViewInFdb
  <2> QED
    BY <1>1, <2>2, <2>4 DEF ViewInv
<1> QED
  BY <1>2, <1>3

(* Removing an FDB entry, with its event, keeps the bridge's view in step. *)
LEMMA ExpireView ==
  ASSUME TypeOK, ViewInv, ~aborted, NEW a \in InTable,
         ops_fpa_mac_learning_expire(a), UNCHANGED main
  PROVE  ViewInv'
<1>1. a \in Addr /\ table[a] \in Entry
  BY DEF InTable, TypeOK
<1>2. \A c \in Addr : table[c] # NoEntry /\ table[c].key # table[a].key =>
                        table'[c] = table[c]
  BY <1>1 DEF ops_fpa_mac_learning_expire, TypeOK
<1> QED
  BY <1>1, <1>2, AddEventView DEF ops_fpa_mac_learning_expire

(* Learning an address, with its event, keeps the bridge's view in step.   *)
LEMMA LearnView ==
  ASSUME TypeOK, ViewInv, NEW e \in Entry, ops_fpa_mac_learning_learn(e)
  PROVE  ViewInv'
<1>1. PICK a \in Addr \ InTable : table' = [table EXCEPT ![a] = e]
  BY Zenon DEF ops_fpa_mac_learning_learn
<1>2. table'[a] = e
  BY <1>1 DEF TypeOK
<1>3. \A c \in Addr : table[c] # NoEntry /\ table[c].key # e.key =>
                        table'[c] = table[c]
  BY <1>1 DEF InTable, TypeOK
<1> QED
  BY <1>2, <1>3, AddEventView DEF ops_fpa_mac_learning_learn

(* The bridge applies an event: its MAC table takes over what the event    *)
(* said of its key.                                                        *)
LEMMA ReadEventView ==
  ASSUME TypeOK, ViewInv, HandOver', NEW s \in Slot, ReadEvent(s)
  PROVE  ViewInv'
<1> USE ConstantAssumption
<1>1. UNCHANGED <<ports, table, buf, curr, notified, reading, hidden, overrun,
                aborted>>
  BY DEF ReadEvent
<1>2. \A b \in {0, 1} : InPlace(buf'[b])
  BY <1>1, SMTT(30) DEF ViewInv
<1>3. CASE overrun \/ aborted
  BY <1>1, <1>2, <1>3, ZenonT(40) DEF ViewInv, BridgeViewInFdb
<1>4. CASE ~overrun /\ ~aborted
  <2>1. /\ main = "read" /\ ~notified /\ todo = unread /\ s \in todo
        /\ reading = 1 - curr /\ unread \subseteq Used(buf[1 - curr])
    BY <1>4 DEF ReadEvent, ViewInv, InStep, HandOver
  <2> DEFINE e == buf[1 - curr][s]
  <2>2. /\ e # NoEvent /\ e \in Event /\ Hash[e.key] = s
        /\ curr \in {0, 1} /\ curr # 1 - curr
    BY <2>1, SMTT(30) DEF Used, TypeOK, ViewInv, InPlace
  <2>3. /\ todo' = todo \ {s} /\ unread' = unread \ {s}
        /\ main' = IF todo' = {} THEN "idle" ELSE "read"
        /\ db' = [db EXCEPT ![e.key] = PortAfter(e)]
    BY <2>1, <2>2 DEF ReadEvent, PortAfter
  <2>4. InStep'
    BY <1>1, <2>1, <2>3, SMTT(30) DEF InStep
  <2>5. e.key \in Key
    BY <2>2 DEF Event
  <2>6. ASSUME NEW k \in Key
        PROVE  View(k)' = View(k)
    <3> HIDE DEF e
    <3>1. CASE k = e.key
      <4>1. db'[k] = PortAfter(e)
        BY <2>3, <3>1 DEF TypeOK
      <4>2. Hash[k] = s /\ s \in unread /\ s \notin unread'
        BY <2>1, <2>2, <2>3, <3>1
      <4> QED
        BY <1>1, <2>2, <3>1, <4>1, <4>2, Zenon DEF View, e, PortAfter
    <3>2. CASE k # e.key
      <4>1. db'[k] = db[k]
        BY <2>3, <3>2, SMTT(30) DEF TypeOK
      <4>2. CASE Hash[k] = s
        BY <1>1, <3>2, <4>1, <4>2, SMTT(30) DEF View, e, PortAfter
      <4>3. CASE Hash[k] # s
        <5>1. Hash[k] \in unread' <=> Hash[k] \in unread
          BY <2>3, <4>3, SMTT(30)
        <5> QED
          BY <1>1, <4>1, <5>1 DEF View, PortAfter
      <4> QED
        BY <4>2, <4>3
    <3> QED
      BY <3>1, <3>2, SMTT(30)
  <2>7. BridgeViewInFdb'
    BY <1>1, <1>4, <2>6 DEF ViewInv, BridgeViewInFdb
  <2> QED
    BY <1>2, <2>4, <2>7, ZenonT(40) DEF ViewInv
<1> QED
  BY <1>3, <1>4 DEF TypeOK

(* The timer's publishing keeps the bridge's view in step.                 *)
LEMMA TimerView ==
  ASSUME TypeOK, ViewInv, HandOver',
         ops_fpa_mac_learning_on_mlearn_timer_expired
  PROVE  ViewInv'
<1>1. buf[curr] \in Buffer /\ InPlace(buf[curr])
  BY DEF TypeOK, Buffer, ViewInv
<1>2. /\ ~aborted /\ UNCHANGED <<table, main, reading, todo, db, hidden,
                                 aborted>>
      /\ ops_fpa_mac_learning_process_mlearn(buf[curr])
  BY SMTT(30) DEF ops_fpa_mac_learning_on_mlearn_timer_expired
<1>3. /\ \A b \in {0, 1} : InPlace(buf'[b])
      /\ ~overrun' => /\ ~overrun
                      /\ InStep'
                      /\ \A k \in Key : View(k)' = ViewWith(buf[curr], k)
  BY <1>1, <1>2, ProcessView
<1>4. ~overrun' => \A k \in Key : View(k)' = View(k)
  BY <1>3, ViewIsWith, SMTT(30)
<1>5. BridgeViewInFdb'
  BY <1>2, <1>3, <1>4 DEF ViewInv, BridgeViewInFdb
<1> QED
  BY <1>3, <1>5 DEF ViewInv

(* Every step preserves ViewInv.                                           *)
LEMMA NextView == TypeOK /\ ViewInv /\ [Next]_vars => ViewInv'
<1> SUFFICES ASSUME TypeOK, ViewInv, [Next]_vars
             PROVE  ViewInv'
  OBVIOUS
<1>1. HandOver'
  BY NextHandOver DEF ViewInv
<1>2. CASE AsicThread
  BY <1>2, LearnView, ExpireView, SMTT(30)
     DEF AsicThread, ops_fpa_mac_learning_age_by_entry
<1>3. ASSUME UNCHANGED <<table, buf, curr, unread, db, hidden, overrun,
                         aborted>>,
             InStep'
      PROVE  ViewInv'
  BY <1>1, <1>3, ZenonT(40)
  DEF ViewInv, InPlace, BridgeViewInFdb, View, PortAfter
<1>4. ASSUME UNCHANGED <<table, buf, curr, unread, db, hidden, overrun,
                         aborted>>,
             overrun \/ aborted
      PROVE  ViewInv'
  BY <1>1, <1>4 DEF ViewInv, InPlace, BridgeViewInFdb
<1>5. CASE UNCHANGED <<table, buf, curr, unread, db, hidden, overrun, aborted,
                       notified, todo>> /\ (main' = main \/ main' # "read")
  <2>1. InStep => InStep'
    BY <1>5 DEF InStep
  <2> QED
    BY <1>3, <1>4, <1>5, <2>1 DEF ViewInv
<1>6. ASSUME NEW p \in Pid, CreatePort(p)
      PROVE  ViewInv'
  BY <1>5, <1>6 DEF CreatePort
<1>7. CASE FlushBegin \/ FlushEnd
  BY <1>5, <1>7 DEF FlushBegin, FlushEnd
<1>8. CASE FlushStep
  BY <1>8, ExpireView DEF FlushStep
<1>9. CASE ops_fpa_ml_hmap_get
  <2>1. UNCHANGED <<table, buf, curr, unread, db, hidden, overrun, aborted>>
    BY <1>9 DEF ops_fpa_ml_hmap_get
  <2>2. InStep => InStep'
    BY <1>9 DEF ops_fpa_ml_hmap_get, InStep
  <2> QED
    BY <1>3, <1>4, <2>1, <2>2 DEF ViewInv
<1>10. CASE UNCHANGED vars
  BY <1>5, <1>10 DEF vars
<1> QED
  BY <1>1, <1>2, <1>6, <1>7, <1>8, <1>9, <1>10, TimerView, ReadEventView
     DEF Next, Bridge

(* The bridge never ends up with a MAC that the FDB does not hold on the   *)
(* port the bridge has it on, as long as no buffer was cleared unread:     *)
(* whatever the ASIC thread learns and ages while the main thread          *)
(* publishes, flushes and reads, and whichever keys collide, except a key  *)
(* whose latest event was overwritten.                                     *)
THEOREM BridgeFollowsFdb == Spec => []BridgeViewInFdb
<1>1. Init => ViewInv
  <2> SUFFICES ASSUME Init PROVE ViewInv
    OBVIOUS
  <2>1. \A b \in {0, 1} : buf[b] = Empty
    BY DEF Init
  <2>2. /\ HandOver /\ InStep
        /\ \A b \in {0, 1} : InPlace(buf[b])
    BY <2>1 DEF Init, HandOver, InStep, InPlace, Empty
  <2>3. \A k \in Key : View(k) = NoPort
    BY <2>1, ConstantAssumption DEF Init, View, Empty
  <2> QED
    BY <2>2, <2>3 DEF ViewInv, BridgeViewInFdb
<1>2. ViewInv => BridgeViewInFdb
  BY DEF ViewInv
<1>3. Spec => []TypeOK
  BY TypeCorrect
<1> QED
  BY <1>1, <1>2, <1>3, NextView, PTL DEF Spec

=============================================================================
