----------------------------- MODULE HostEgress -----------------------------
(***************************************************************************)
(* add_l3_host_entry on a VLAN interface (ops-fpa-ofproto.c) beside the    *)
(* threads of MacLearning: the main thread looks the next hop's MAC up in  *)
(* the FDB under the read lock and uses the entry it got after the lock is *)
(* released, while the ASIC thread learns and ages.                        *)
(***************************************************************************)
EXTENDS MacLearning

CONSTANT NoAddr   \* not an element of Addr

VARIABLES
  held,    \* mac_entry, while add_l3_host_entry has it; else NoAddr
  wanted   \* the key it was looked up with

egressVars == <<vars, held, wanted>>

EgressInit == Init /\ held = NoAddr /\ wanted \in Key

(* The lookup.  Without an entry mac_entry is NULL, and using it ends the  *)
(* process.                                                                *)
LookupEgress(k) ==
  /\ ~aborted /\ main = "idle" /\ held = NoAddr
  /\ wanted' = k
  /\ \/ \E a \in InTable : table[a].key = k /\ held' = a /\ UNCHANGED aborted
     \/ /\ \A a \in InTable : table[a].key # k
        /\ aborted' = TRUE
        /\ UNCHANGED held
  /\ UNCHANGED <<ports, table, buf, curr, notified, main, reading, todo, db,
                 unread, hidden, overrun>>

(* *l3_egress_id = mac_entry->fdb_entry.portNum                            *)
UseEgress ==
  /\ ~aborted /\ held # NoAddr
  /\ held' = NoAddr
  /\ UNCHANGED <<vars, wanted>>

EgressNext ==
  \/ (held = NoAddr /\ Next /\ UNCHANGED <<held, wanted>>)
  \/ (AsicThread /\ UNCHANGED <<held, wanted>>)
  \/ \E k \in Key : LookupEgress(k)
  \/ UseEgress

EgressSpec == EgressInit /\ [][EgressNext]_egressVars

(* The entry add_l3_host_entry is about to read is still in the FDB and is *)
(* the one it looked up; users are not to be "accessing a fpa_mac_entry    *)
(* without holding the parent fpa_mac_learning rwlock".                    *)
EntryHeldIsLive ==
  held # NoAddr => table[held] # NoEntry /\ table[held].key = wanted

=============================================================================
