-------------------------- MODULE VlanConfigProofs --------------------------
(***************************************************************************)
(* For any ports, settings, VLANs, failing calls and sequences of          *)
(* operations: the tables and port->vmap of the ports hold what the        *)
(* settings ask for, and the port map finds a port of the right bucket.    *)
(***************************************************************************)
EXTENDS VlanConfig, LibProofs, FiniteSetTheorems

(* The lemmas about the port map hold of the ids of the ports.             *)
LEMMA VlanPorts == PortIds(Port) /\ Port \subseteq Nat /\ NULL \notin Port
BY VlanAssumption, NullNoPort, Zenon DEF PortIds

-----------------------------------------------------------------------------
(* The loops over the bits of a VIDX bitmap *)

(* What ops_fpa_vlan_add adds and what ops_fpa_vlan_del deletes at least.  *)
LEMMA CallBounds ==
  ASSUME NEW S, NEW x
  PROVE  /\ ops_fpa_vlan_add(S, x) \subseteq S \cup {x}
         /\ ops_fpa_vlan_del(S, x) \subseteq S \ {x}
BY DEF ops_fpa_vlan_add, ops_fpa_vlan_del, SameGroup

(* Without clashes they do that and no more.                               *)
LEMMA CallsExact ==
  ASSUME NEW U, ~Clash(U), NEW S \in SUBSET U, NEW x \in U
  PROVE  /\ ops_fpa_vlan_add(S, x) = S \cup {x}
         /\ ops_fpa_vlan_del(S, x) = S \ {x}
<1>1. ASSUME NEW y \in S, y # x
      PROVE  /\ IS_EGRESS(x) => y \notin SameGroup(S, x)
             /\ ~IS_EGRESS(x) /\ ~ARG(x) => IS_EGRESS(y) \/ ARG(y)
  BY <1>1 DEF Clash, SameGroup
<1>2. SameGroup(S, x) \subseteq S
  BY DEF SameGroup
<1>3. ops_fpa_vlan_add(S, x) = S \cup {x}
  BY <1>1, <1>2 DEF ops_fpa_vlan_add
<1>4. ops_fpa_vlan_del(S, x) = S \ {x}
  <2>1. S \ {x} \subseteq ops_fpa_vlan_del(S, x)
    BY <1>1 DEF ops_fpa_vlan_del
  <2> QED
    BY <2>1, CallBounds
<1> QED
  BY <1>3, <1>4

(* A turn of the loop adds the VIDX, deletes it or skips it.               *)
LEMMA BitTurn ==
  ASSUME NEW add, NEW del, NEW i \in 0 .. 4 * NVid - 1, NEW S \in SUBSET Vidx
  PROVE  BitTurns(add, del)[i + 1][S] = IF i \in add THEN ops_fpa_vlan_add(S, i)
                                        ELSE IF i \in del THEN ops_fpa_vlan_del(S, i)
                                        ELSE S
<1>1. NVid \in Nat /\ i + 1 \in 1 .. 4 * NVid /\ i + 1 - 1 = i
  BY VlanAssumption
<1> QED
  BY <1>1 DEF BitTurns

(* What a loop leaves is of the set it starts from, without what it        *)
(* deletes, and of what it adds.                                           *)
LEMMA LoopBounds ==
  ASSUME NEW S \in SUBSET Vidx, NEW add \in SUBSET Vidx, NEW del
  PROVE  ForEachBit(S, add, del) \in SUBSET ((S \ del) \cup add)
<1> DEFINE body == BitTurns(add, del)
           n == 4 * NVid
           Inv(i, T) == /\ T \subseteq S \cup add
                        /\ \A y \in T : y < i => y \in (S \ del) \cup add
           G == {g \in (0 .. n) \X SUBSET Vidx : Inv(g[1], g[2])}
<1>0. n \in Nat /\ Vidx = 0 .. n - 1
  BY VlanAssumption DEF Vidx
<1>A. \A i, T : <<i, T>> \in G <=> i \in 0 .. n /\ T \in SUBSET Vidx /\ Inv(i, T)
  <2> HIDE DEF Inv, n
  <2> QED
    OBVIOUS
<1> HIDE DEF G
<1>1. <<0, S>> \in G
  <2>1. \A y \in S : ~(y < 0)
    BY <1>0
  <2>2. Inv(0, S) /\ 0 \in 0 .. n
    BY <1>0, <2>1
  <2> HIDE DEF Inv
  <2> QED
    BY <1>A, <2>2
<1>2. ASSUME NEW i \in 0 .. n - 1, NEW T, <<i, T>> \in G
      PROVE  <<i + 1, body[i + 1][T]>> \in G
  <2> DEFINE R == body[i + 1][T]
  <2>1. T \subseteq S \cup add /\ T \in SUBSET Vidx /\ i \in Vidx
    BY <1>0, <1>2, <1>A
  <2>2. R = IF i \in add THEN ops_fpa_vlan_add(T, i)
            ELSE IF i \in del THEN ops_fpa_vlan_del(T, i)
            ELSE T
    BY <2>1, BitTurn
  <2> HIDE DEF R, body
  <2>3. R \subseteq S \cup add
    <3>1. R \subseteq T \/ (i \in add /\ R \subseteq T \cup {i})
      BY <2>2, CallBounds
    <3> QED
      BY <2>1, <3>1, Zenon
  <2>4. ASSUME NEW y \in R, y < i + 1
        PROVE  y \in (S \ del) \cup add
    <3>1. y \in Nat
      BY <1>0, <2>1, <2>3
    <3>2. CASE y = i
      BY <2>1, <2>2, <2>4, <3>2, CallBounds
    <3>3. CASE y # i
      <4>1. y < i /\ y \in T
        BY <2>2, <2>4, <3>1, <3>3, CallBounds
      <4> QED
        BY <1>2, <1>A, <4>1
    <3> QED
      BY <3>2, <3>3
  <2>5. <<i + 1, R>> \in G
    <3>1. i + 1 \in 0 .. n /\ R \in SUBSET Vidx
      BY <1>0, <2>1, <2>3
    <3> QED
      BY <1>A, <2>3, <2>4, <3>1
  <2> QED
    BY <2>5 DEF R
<1>3. <<n, After(body, S, n)>> \in G
  <2> HIDE DEF body, n
  <2> QED
    BY <1>0, <1>1, <1>2, LoopInvariant
<1>4. ForEachBit(S, add, del) = After(body, S, n)
  BY DEF ForEachBit
<1> HIDE DEF body
<1>5. \A y \in After(body, S, n) : y < n /\ y \in (S \ del) \cup add
  BY <1>0, <1>3, <1>A
<1> QED
  BY <1>4, <1>5

(* Without clashes it is all of that.                                      *)
LEMMA LoopExact ==
  ASSUME NEW S \in SUBSET Vidx, NEW add \in SUBSET Vidx, NEW del \in SUBSET Vidx,
         ~Clash(S \cup add \cup del)
  PROVE  ForEachBit(S, add, del) = (S \ del) \cup add
<1> DEFINE body == BitTurns(add, del)
           n == 4 * NVid
           U == S \cup add \cup del
           D == (S \ del) \cup add
           Mix(i) == {y \in D : y < i} \cup {y \in S : i <= y}
           G == {<<i, Mix(i)>> : i \in 0 .. n}
<1>0. n \in Nat /\ Vidx = 0 .. n - 1
  BY VlanAssumption DEF Vidx
<1>1. <<0, S>> \in G
  <2>1. \A y \in S \cup D : y \in Nat /\ ~(y < 0) /\ 0 <= y
    BY <1>0
  <2>2. Mix(0) = S
    BY <2>1
  <2> QED
    BY <1>0, <2>2
<1>2. ASSUME NEW i \in 0 .. n - 1, NEW T, <<i, T>> \in G
      PROVE  <<i + 1, body[i + 1][T]>> \in G
  <2>1. T = Mix(i)
    BY <1>2
  <2>2. i \in Vidx /\ i \in Nat /\ T \in SUBSET U /\ T \in SUBSET Vidx
        /\ \A y \in S \cup D : y \in Nat
    <3>1. T \subseteq S \cup D /\ D \subseteq S \cup add
      BY <2>1
    <3> QED
      BY <1>0, <3>1
  <2>3. body[i + 1][T] = IF i \in add THEN ops_fpa_vlan_add(T, i)
                         ELSE IF i \in del THEN ops_fpa_vlan_del(T, i)
                         ELSE T
    BY <2>2, BitTurn
  <2>4. /\ i \in add => ops_fpa_vlan_add(T, i) = T \cup {i}
        /\ i \in del => ops_fpa_vlan_del(T, i) = T \ {i}
    <3>1. i \in add \/ i \in del => i \in U
      OBVIOUS
    <3>2. ~Clash(U)
      OBVIOUS
    <3>3. T \in SUBSET U
      BY <2>2
    <3> HIDE DEF U
    <3>4. ASSUME i \in U
          PROVE  /\ ops_fpa_vlan_add(T, i) = T \cup {i}
                 /\ ops_fpa_vlan_del(T, i) = T \ {i}
      BY <3>2, <3>3, <3>4, CallsExact, Zenon
    <3> QED
      BY <3>1, <3>4
  <2>5. body[i + 1][T] = IF i \in add THEN T \cup {i}
                         ELSE IF i \in del THEN T \ {i} ELSE T
    BY <2>3, <2>4, Zenon
  <2>6. ASSUME NEW y
        PROVE  y \in Mix(i + 1) <=> IF y = i THEN i \in D ELSE y \in Mix(i)
    <3>1. y \in S \cup D => ((y < i + 1 <=> y < i \/ y = i)
                             /\ (i + 1 <= y <=> i <= y /\ y # i))
      BY <2>2
    <3>2. i \in Mix(i + 1) <=> i \in D
      BY <2>2
    <3> QED
      BY <3>1, <3>2
  <2>7. i \in Mix(i) <=> i \in S
    BY <2>2
  <2>8. i \in D <=> (i \in add \/ (i \in S /\ i \notin del))
    OBVIOUS
  <2>9. body[i + 1][T] = Mix(i + 1)
    <3> HIDE DEF Mix, body, D
    <3> QED
      BY <2>1, <2>5, <2>6, <2>7, <2>8, Zenon
  <2> QED
    BY <1>0, <2>9
<1>3. <<n, After(body, S, n)>> \in G
  <2> HIDE DEF body, n, G
  <2> QED
    BY <1>0, <1>1, <1>2, LoopInvariant, Zenon
<1>4. ForEachBit(S, add, del) = After(body, S, n)
  BY DEF ForEachBit
<1>5. Mix(n) = D
  <2>1. \A y \in S \cup D : y < n /\ ~(n <= y)
    BY <1>0
  <2> QED
    BY <2>1
<1> QED
  <2> HIDE DEF body, Mix, D
  <2>1. After(body, S, n) = Mix(n)
    BY <1>0, <1>3
  <2>2. ForEachBit(S, add, del) = D
    BY <1>4, <1>5, <2>1
  <2> QED
    BY <2>2 DEF D

(* A loop without calls changes nothing.                                   *)
LEMMA LoopIdle ==
  ASSUME NEW S \in SUBSET Vidx
  PROVE  ForEachBit(S, {}, {}) = S
<1> DEFINE body == BitTurns({}, {})
           n == 4 * NVid
           G == (0 .. n) \X {S}
<1>0. n \in Nat
  BY VlanAssumption
<1>1. <<0, S>> \in G
  BY <1>0
<1>2. ASSUME NEW i \in 0 .. n - 1, NEW T, <<i, T>> \in G
      PROVE  <<i + 1, body[i + 1][T]>> \in G
  <2>1. T = S
    BY <1>2
  <2>2. ASSUME NEW none, none = {}
        PROVE  BitTurns(none, none)[i + 1][S] = S
    <3>1. i + 1 \in 1 .. 4 * NVid /\ i + 1 - 1 = i /\ i \notin none
      BY <1>0, <2>2
    <3> QED
      BY <3>1, SMTT(30) DEF BitTurns
  <2>3. body[i + 1][T] = S
    BY <2>1, <2>2, Zenon
  <2> HIDE DEF body
  <2> QED
    BY <1>0, <2>3
<1>3. <<n, After(body, S, n)>> \in G
  <2> HIDE DEF body, n, G
  <2> QED
    BY <1>0, <1>1, <1>2, LoopInvariant, Zenon
<1> HIDE DEF body
<1>4. After(body, S, n) = S
  BY <1>3
<1> QED
  BY <1>4 DEF ForEachBit, body

-----------------------------------------------------------------------------
(* Types *)

(* There is room in the number of nodes for one more.                      *)
LEMMA FewNodes ==
  ASSUME NEW n \in Nat, n < MaxNodes
  PROVE  Few(n + 1)
BY VlanAssumption, NodesAssumption, SMT DEF Few

(* The ports that set_vlan goes over are ports.                            *)
LEMMA VisitedType ==
  ASSUME NEW m, IsMap(Port, m), NEW pids \in SUBSET Port
  PROVE  Visited(m, pids) \in SUBSET Port
BY FoundType, VlanPorts DEF Visited

(* Settings ask for VIDXs.                                                 *)
LEMMA VNewType ==
  ASSUME NEW s \in Setting
  PROVE  VNew(s) \in SUBSET Vidx
<1>1. s.vlan \in Vid /\ s.trunks \in SUBSET Vid
  BY VlanAssumption
<1>2. ASSUME NEW v \in Vid, NEW b \in BOOLEAN
      PROVE  INGRESS(v, b) \in Vidx /\ EGRESS(v, b) \in Vidx
  <2>1. NVid \in Nat /\ v \in 0 .. NVid - 1
    BY VlanAssumption
  <2> QED
    BY <2>1 DEF INGRESS, EGRESS, Vidx
<1>3. /\ {INGRESS(v, TRUE) : v \in s.trunks} \subseteq Vidx
      /\ {EGRESS(v, FALSE) : v \in s.trunks} \subseteq Vidx
  BY <1>1, <1>2, Zenon
<1>4. {INGRESS(s.vlan, FALSE), EGRESS(s.vlan, s.mode # "native_tagged")} \subseteq Vidx
  <2>1. (s.mode # "native_tagged") \in BOOLEAN
    OBVIOUS
  <2> QED
    BY <1>1, <1>2, <2>1, ZenonT(40)
<1> QED
  BY <1>3, <1>4, Zenon DEF VNew

(* The history that an operation leaves.                                   *)
LEMMA HistoryStep ==
  ASSUME NEW kept, NEW keptPlain, NEW wanted, KeepHistory(kept, keptPlain, wanted),
         \A p \in Port : wanted[p] \in SUBSET Vidx,
         Visited(map', bundles') \in SUBSET Port
  PROVE  /\ clean' \in SUBSET Visited(map', bundles') /\ clean' \in SUBSET Port
         /\ plain' \in SUBSET clean'
         /\ want' \in [Port -> SUBSET Vidx]
         /\ \A p \in clean' : p \in kept /\ want'[p] = wanted[p]
         /\ \A p \in plain' : p \in keptPlain
<1>1. /\ clean' = kept \cap Visited(map', bundles') /\ plain' = keptPlain \cap clean'
      /\ want' = [p \in Port |-> IF p \in clean' THEN wanted[p] ELSE {}]
  BY DEF KeepHistory
<1>2. want' \in [Port -> SUBSET Vidx]
  BY <1>1
<1> QED
  BY <1>1, <1>2

(* What is in the ASIC, and what is pending, is of the settings.           *)
Native(p) == hw[p] \subseteq {x \in want[p] : VID(x) \in vlans}
Pended(p) == vmap[p] \subseteq {x \in want[p] : VID(x) \notin vlans}

(* What settings leave on the port q, and that they leave others alone.    *)
LEMMA SetPortStep ==
  ASSUME TypeOK, IsMap(Port, map'), bundles' \in SUBSET Port, UNCHANGED vlans,
         NEW q \in Port, NEW s \in Setting, SetPort(q, s)
  PROVE  /\ hw' \in [Port -> SUBSET Vidx] /\ vmap' \in [Port -> SUBSET Vidx]
         /\ want' \in [Port -> SUBSET Vidx]
         /\ clean' \in SUBSET Visited(map', bundles') /\ plain' \in SUBSET clean'
         /\ \A p \in Port \ {q} :
              /\ hw'[p] = hw[p] /\ vmap'[p] = vmap[p]
              /\ p \in clean' => p \in clean /\ want'[p] = want[p]
              /\ p \in plain' => p \in plain
         /\ q \in clean' => Native(q)' /\ Pended(q)'
         /\ q \in plain' => Exact(q)' /\ ~Clash(want'[q])
<1> DEFINE vnew == VNew(s)
<1>1. /\ hw \in [Port -> SUBSET Vidx] /\ vmap \in [Port -> SUBSET Vidx]
      /\ want \in [Port -> SUBSET Vidx]
  BY DEF TypeOK
<1>2. vnew \in SUBSET Vidx /\ hw[q] \in SUBSET Vidx
  BY <1>1, VNewType
<1>3. PICK missed, failed, undone :
        LET diff == Diff(hw[q] \ missed, vnew)
            sound == /\ missed = {} /\ failed = {}
                     /\ \A x \in hw[q] : VID(x) \in vlans
            exact == sound /\ ~Clash(hw[q] \cup vnew)
        IN  /\ undone \in SUBSET Groups(failed \cap vnew)
            /\ hw' = [hw EXCEPT ![q] = ApplyDiff(@, diff, vnew, failed, undone)]
            /\ vmap' = [vmap EXCEPT ![q] = Pending(diff \cap vnew)]
            /\ KeepHistory(IF sound THEN clean \cup {q} ELSE clean \ {q},
                           IF exact THEN plain \cup {q} ELSE plain \ {q},
                           [want EXCEPT ![q] = vnew])
  BY ZenonT(40) DEF SetPort, ops_fpa_vlan_fetch
<1> DEFINE diff == Diff(hw[q] \ missed, vnew)
           sound == /\ missed = {} /\ failed = {}
                    /\ \A x \in hw[q] : VID(x) \in vlans
           exact == sound /\ ~Clash(hw[q] \cup vnew)
           calls == {x \in diff : VID(x) \in vlans} \ failed
           T == ForEachBit(hw[q], calls \cap vnew, (calls \ vnew) \cup undone)
<1>4. /\ hw' = [hw EXCEPT ![q] = T] /\ vmap' = [vmap EXCEPT ![q] = Pending(diff \cap vnew)]
      /\ KeepHistory(IF sound THEN clean \cup {q} ELSE clean \ {q},
                     IF exact THEN plain \cup {q} ELSE plain \ {q},
                     [want EXCEPT ![q] = vnew])
  BY <1>3, Zenon DEF ApplyDiff
<1>u. /\ diff \in SUBSET Vidx /\ calls \in SUBSET diff
      /\ undone \in SUBSET (failed \cap vnew)
      /\ sound => diff = Diff(hw[q], vnew) /\ undone = {}
  BY <1>2, <1>3 DEF Diff, Groups
<1>5. T \in SUBSET ((hw[q] \ (calls \ vnew)) \cup (calls \cap vnew))
  <2> DEFINE add == calls \cap vnew
             del == (calls \ vnew) \cup undone
  <2>1. add \in SUBSET Vidx /\ hw[q] \in SUBSET Vidx
    BY <1>2
  <2> HIDE DEF add, del
  <2>2. ForEachBit(hw[q], add, del) \in SUBSET ((hw[q] \ del) \cup add)
    BY <2>1, LoopBounds
  <2> HIDE DEF calls, diff
  <2> QED
    BY <2>2, Zenon DEF add, del
<1>6. ASSUME exact
      PROVE  T = (hw[q] \ (calls \ vnew)) \cup (calls \cap vnew)
  <2>0. undone = {} /\ diff = Diff(hw[q], vnew)
    BY <1>6, <1>u
  <2>1. hw[q] \cup (calls \cap vnew) \cup (calls \ vnew) \subseteq hw[q] \cup vnew
    BY <2>0 DEF Diff
  <2>2. ~Clash(hw[q] \cup (calls \cap vnew) \cup (calls \ vnew))
    <3> DEFINE A == hw[q] \cup (calls \cap vnew) \cup (calls \ vnew)
               B == hw[q] \cup vnew
    <3>1. A \subseteq B /\ ~Clash(B)
      BY <1>6, <2>1
    <3> HIDE DEF A, B
    <3>2. ~Clash(A)
      BY <3>1 DEF Clash, SameGroup
    <3> QED
      BY <3>2, SMTT(30) DEF A
  <2>3. calls \in SUBSET Vidx
    BY <1>u
  <2> HIDE DEF calls, exact, diff, vnew
  <2>4. ForEachBit(hw[q], calls \cap vnew, calls \ vnew)
          = (hw[q] \ (calls \ vnew)) \cup (calls \cap vnew)
    BY <1>2, <2>2, <2>3, LoopExact, SMTT(30)
  <2>5. (calls \ vnew) \cup undone = calls \ vnew
    BY <2>0
  <2> QED
    BY <2>4, <2>5, Zenon
<1> DEFINE wanted == [want EXCEPT ![q] = vnew]
           kept == IF sound THEN clean \cup {q} ELSE clean \ {q}
           keptPlain == IF exact THEN plain \cup {q} ELSE plain \ {q}
<1>7. /\ wanted[q] = vnew /\ \A p \in Port : wanted[p] \in SUBSET Vidx
      /\ \A p \in Port \ {q} : wanted[p] = want[p]
  BY <1>1, <1>2
<1>8. Visited(map', bundles') \in SUBSET Port
  BY VisitedType, SMTT(30)
<1> HIDE DEF T, calls, sound, exact, wanted, kept, keptPlain, vnew, diff
<1>9. /\ clean' \in SUBSET Visited(map', bundles') /\ clean' \in SUBSET Port
      /\ plain' \in SUBSET clean' /\ want' \in [Port -> SUBSET Vidx]
      /\ \A p \in clean' : p \in kept /\ want'[p] = wanted[p]
      /\ \A p \in plain' : p \in keptPlain
  <2>1. KeepHistory(kept, keptPlain, wanted)
    BY <1>4, SMTT(30) DEF wanted, kept, keptPlain
  <2> QED
    BY <1>7, <1>8, <2>1, HistoryStep
<1>10. T \in SUBSET Vidx /\ Pending(diff \cap vnew) \in SUBSET Vidx
  BY <1>2, <1>5, <1>u DEF Pending
<1>11. /\ hw' \in [Port -> SUBSET Vidx] /\ vmap' \in [Port -> SUBSET Vidx]
       /\ hw'[q] = T /\ vmap'[q] = Pending(diff \cap vnew)
       /\ \A p \in Port \ {q} : hw'[p] = hw[p] /\ vmap'[p] = vmap[p]
  BY <1>1, <1>4, <1>10, ZenonT(40)
<1>12. \A p \in Port \ {q} :
         /\ hw'[p] = hw[p] /\ vmap'[p] = vmap[p]
         /\ p \in clean' => p \in clean /\ want'[p] = want[p]
         /\ p \in plain' => p \in plain
  BY <1>7, <1>9, <1>11 DEF kept, keptPlain
<1>13. Pending(diff \cap vnew) \subseteq {x \in vnew : VID(x) \notin vlans}
  BY DEF Pending
<1>14. ASSUME q \in clean'
       PROVE  want'[q] = vnew /\ Native(q)' /\ Pended(q)'
  <2>1. want'[q] = vnew /\ sound
    BY <1>7, <1>9, <1>14, Zenon DEF kept
  <2>2. hw[q] \ vnew \subseteq calls /\ \A x \in hw[q] \cup calls : VID(x) \in vlans
    BY <1>u, <2>1 DEF calls, sound, Diff
  <2>3. T \subseteq {x \in vnew : VID(x) \in vlans}
    BY <1>5, <2>2
  <2>4. /\ hw'[q] = T /\ vmap'[q] = Pending(diff \cap vnew)
        /\ want'[q] = vnew /\ vlans' = vlans
    BY <1>11, <2>1
  <2>5. Native(q)'
    BY <2>3, <2>4 DEF Native
  <2>6. Pended(q)'
    BY <1>13, <2>4 DEF Pended
  <2> QED
    BY <2>4, <2>5, <2>6
<1>15. ASSUME q \in plain'
       PROVE  Exact(q)' /\ ~Clash(want'[q])
  <2>1. exact /\ q \in clean'
    BY <1>9, <1>15 DEF keptPlain
  <2>2. want'[q] = vnew
    BY <1>14, <2>1
  <2>3. ~Clash(vnew)
    <3> DEFINE B == hw[q] \cup vnew
    <3>1. vnew \subseteq B /\ ~Clash(B)
      BY <2>1 DEF exact
    <3> HIDE DEF B
    <3> QED
      BY <3>1 DEF Clash, SameGroup
  <2>4. T = (hw[q] \ (calls \ vnew)) \cup (calls \cap vnew)
    BY <1>6, <2>1
  <2>5. sound
    BY <2>1 DEF exact
  <2>6. T = {x \in vnew : VID(x) \in vlans}
    BY <1>u, <2>4, <2>5 DEF calls, sound, Diff
  <2>7. Pending(diff \cap vnew) = {x \in vnew : VID(x) \notin vlans}
    BY <1>u, <2>5 DEF sound, Diff, Pending
  <2> QED
    BY <1>11, <2>2, <2>3, <2>6, <2>7, Zenon DEF Exact
<1>16. /\ q \in clean' => Native(q)' /\ Pended(q)'
       /\ q \in plain' => Exact(q)' /\ ~Clash(want'[q])
  BY <1>14, <1>15
<1> QED
  BY <1>9, <1>11, <1>12, <1>16

(* The ports that set_vlan gets to, and what it fetches for them.          *)
Seen == Visited(map, bundles)
Waiting(p, vid) == {x \in vmap[p] : VID(x) = vid}
Fetched(p, vid) == {x \in ops_fpa_vlan_fetch(hw, OfpPort[p], {}) : VID(x) = vid}

(* So are those it goes over in a state of the model.                      *)
LEMMA SeenType == TypeOK => IsMap(Port, map) /\ bundles \in SUBSET Port /\ Seen \in SUBSET Port
<1> SUFFICES ASSUME TypeOK
             PROVE  IsMap(Port, map) /\ bundles \in SUBSET Port /\ Seen \in SUBSET Port
  OBVIOUS
<1>1. IsMap(Port, map) /\ bundles \in SUBSET Port
  BY DEF TypeOK, IsMap
<1> QED
  BY <1>1, VisitedType DEF Seen

(* The number under which set_vlan fetches is the port id, or at least no  *)
(* other port's id.                                                        *)
SameNumbers == \A p \in Port : OfpPort[p] = p
OwnNumbers == \A p \in Port : OfpPort[p] = p \/ OfpPort[p] \notin Port

(* What set_vlan fetches under such a number is in the ASIC for the port   *)
(* and, where it is the port id, is all of its VIDXs of the VLAN.          *)
LEMMA FetchedType ==
  ASSUME TypeOK, OwnNumbers, NEW p \in Port, NEW vid
  PROVE  /\ Fetched(p, vid) \in SUBSET Vidx /\ Fetched(p, vid) \subseteq hw[p]
         /\ OfpPort[p] = p => Fetched(p, vid) = {x \in hw[p] : VID(x) = vid}
BY SMTT(30) DEF TypeOK, OwnNumbers, Fetched, ops_fpa_vlan_fetch

(* What bringing a VLAN up, or shutting it down, leaves.                   *)
VlanStep(p, add, del) ==
  /\ p \in clean /\ want'[p] = want[p]
  /\ hw'[p] = ForEachBit(hw[p], add, del)
  /\ vmap'[p] = (vmap[p] \ add) \cup del

(* Bringing a VLAN up adds what is pending at every clean port.            *)
LEMMA VlanUpStep ==
  ASSUME TypeOK, NEW vid \in Vid, SetVlanUp(vid)
  PROVE  /\ hw' \in [Port -> SUBSET Vidx] /\ vmap' \in [Port -> SUBSET Vidx]
         /\ want' \in [Port -> SUBSET Vidx]
         /\ clean' \in SUBSET Visited(map', bundles') /\ plain' \in SUBSET clean'
         /\ UNCHANGED <<maps, bundles>> /\ vlans' = vlans \cup {vid}
         /\ \A p \in clean' : VlanStep(p, Waiting(p, vid), {})
         /\ \A p \in plain' : p \in plain
<1>1. /\ hw \in [Port -> SUBSET Vidx] /\ vmap \in [Port -> SUBSET Vidx]
      /\ want \in [Port -> SUBSET Vidx]
  BY SMTT(30) DEF TypeOK
<1>2. PICK failed, undone :
        LET done(p) == {x \in Waiting(p, vid) : <<p, x>> \notin failed}
            gone(p) == {x \in Waiting(p, vid) : <<p, x>> \in undone}
            kept == {p \in clean : done(p) = Waiting(p, vid)}
        IN  /\ undone \in SUBSET failed
            /\ hw' = [p \in Port |-> IF p \in Seen
                                     THEN ForEachBit(hw[p], done(p), gone(p))
                                     ELSE hw[p]]
            /\ vmap' = [p \in Port |-> IF p \in Seen THEN vmap[p] \ Waiting(p, vid)
                                       ELSE vmap[p]]
            /\ vlans' = vlans \cup {vid}
            /\ UNCHANGED <<maps, bundles>>
            /\ KeepHistory(kept, plain, want)
  BY ZenonT(40) DEF SetVlanUp, Seen, Waiting
<1> DEFINE done(p) == {x \in Waiting(p, vid) : <<p, x>> \notin failed}
           gone(p) == {x \in Waiting(p, vid) : <<p, x>> \in undone}
           kept == {p \in clean : done(p) = Waiting(p, vid)}
<1>3. /\ hw' = [p \in Port |-> IF p \in Seen THEN ForEachBit(hw[p], done(p), gone(p))
                               ELSE hw[p]]
      /\ vmap' = [p \in Port |-> IF p \in Seen THEN vmap[p] \ Waiting(p, vid)
                                 ELSE vmap[p]]
      /\ vlans' = vlans \cup {vid} /\ UNCHANGED <<maps, bundles>>
      /\ KeepHistory(kept, plain, want)
  BY <1>2, Zenon
<1>4. Visited(map', bundles') = Seen /\ Seen \in SUBSET Port
  BY <1>3, SeenType DEF Seen, maps
<1>5. \A p \in Port : /\ done(p) \in SUBSET Vidx /\ Waiting(p, vid) \subseteq vmap[p]
                      /\ ForEachBit(hw[p], done(p), gone(p)) \in SUBSET Vidx
  <2> TAKE p \in Port
  <2>1. done(p) \in SUBSET Vidx /\ Waiting(p, vid) \subseteq vmap[p]
    BY <1>1 DEF Waiting
  <2> HIDE DEF done, gone
  <2>2. ForEachBit(hw[p], done(p), gone(p)) \in SUBSET ((hw[p] \ gone(p)) \cup done(p))
    <3>1. hw[p] \in SUBSET Vidx
      BY <1>1
    <3> QED
      BY <2>1, <3>1, LoopBounds
  <2>3. ForEachBit(hw[p], done(p), gone(p)) \in SUBSET Vidx
    BY <1>1, <2>1, <2>2
  <2> QED
    BY <2>1, <2>3
<1>6. \A p \in kept : p \in clean /\ done(p) = Waiting(p, vid) /\ gone(p) = {}
  <2> TAKE p \in kept
  <2>1. p \in clean /\ done(p) = Waiting(p, vid)
    OBVIOUS
  <2>2. gone(p) = {}
    <3>1. undone \in SUBSET failed
      BY <1>2, Zenon
    <3>2. \A x \in Waiting(p, vid) : <<p, x>> \notin failed
      BY <2>1
    <3> QED
      BY <3>1, <3>2, Zenon
  <2> QED
    BY <2>1, <2>2
<1> HIDE DEF done, gone, kept
<1>7. hw' \in [Port -> SUBSET Vidx] /\ vmap' \in [Port -> SUBSET Vidx]
  BY <1>1, <1>3, <1>5
<1>8. /\ clean' \in SUBSET Visited(map', bundles') /\ clean' \in SUBSET Port
      /\ plain' \in SUBSET clean' /\ want' \in [Port -> SUBSET Vidx]
      /\ \A p \in clean' : p \in kept /\ want'[p] = want[p]
      /\ \A p \in plain' : p \in plain
  BY <1>1, <1>3, <1>4, HistoryStep, SMTT(30)
<1>9. ASSUME NEW p \in clean'
      PROVE  VlanStep(p, Waiting(p, vid), {})
  <2>1. p \in Port /\ p \in Seen
    BY <1>4, <1>8, Zenon
  <2>2. /\ hw'[p] = ForEachBit(hw[p], done(p), gone(p))
        /\ vmap'[p] = vmap[p] \ Waiting(p, vid)
    BY <1>3, <2>1, Zenon
  <2> QED
    BY <1>6, <1>8, <2>2, ZenonT(40) DEF VlanStep
<1> QED
  BY <1>3, <1>7, <1>8, <1>9, Zenon

(* What a visit does to the tables of the ports.                           *)
LEMMA VisitType ==
  ASSUME NEW t \in Tables, NEW q \in Port, NEW vid, NEW missed, NEW failed
  PROVE  /\ Visit(t, q, vid, missed, failed) \in Tables
         /\ \A p \in Port \ {q} :
              /\ Visit(t, q, vid, missed, failed).hw[p] = t.hw[p]
              /\ Visit(t, q, vid, missed, failed).vmap[p] = t.vmap[p]
<1> DEFINE F == {x \in ops_fpa_vlan_fetch(t.hw, OfpPort[q], missed) : VID(x) = vid}
           S == ForEachBit(t.hw[q], {}, F \ failed)
<1>1. t.hw \in [Port -> SUBSET Vidx] /\ t.vmap \in [Port -> SUBSET Vidx]
  BY DEF Tables
<1>2. F \in SUBSET Vidx
  BY <1>1 DEF ops_fpa_vlan_fetch
<1>3. S \in SUBSET Vidx
  <2>1. S \in SUBSET ((t.hw[q] \ (F \ failed)) \cup {})
    <3> DEFINE T == t.hw[q]
               D == F \ failed
    <3>1. T \in SUBSET Vidx /\ {} \in SUBSET Vidx
      BY <1>1
    <3> HIDE DEF T, D
    <3>2. ForEachBit(T, {}, D) \in SUBSET ((T \ D) \cup {})
      BY <3>1, LoopBounds
    <3> QED
      BY <3>2, Zenon DEF T, D
  <2> HIDE DEF S, F
  <2> QED
    BY <1>1, <2>1
<1>4. Visit(t, q, vid, missed, failed) =
        [hw |-> [t.hw EXCEPT ![q] = S], vmap |-> [t.vmap EXCEPT ![q] = t.vmap[q] \cup F]]
  BY <1>1 DEF Visit
<1> HIDE DEF S, F
<1> QED
  BY <1>1, <1>2, <1>3, <1>4 DEF Tables

(* The tables of the port p before and after set_vlan gets to it.          *)
Before(t, p) == t.hw[p] = hw[p] /\ t.vmap[p] = vmap[p]
ShutOff(t, p, vid) ==
  /\ t.hw[p] = ForEachBit(hw[p], {}, Fetched(p, vid))
  /\ t.vmap[p] = vmap[p] \cup Fetched(p, vid)

(* A visit without failures takes the VLAN off the port, and a second visit*)
(* finds nothing of it.                                                    *)
LEMMA VisitShuts ==
  ASSUME TypeOK, OwnNumbers, NEW p \in Port, NEW vid,
         NEW t \in Tables, Before(t, p) \/ ShutOff(t, p, vid)
  PROVE  ShutOff(Visit(t, p, vid, {}, {}), p, vid)
<1> DEFINE F == {x \in ops_fpa_vlan_fetch(t.hw, OfpPort[p], {}) : VID(x) = vid}
           F0 == Fetched(p, vid)
<1>1. /\ t.hw \in [Port -> SUBSET Vidx] /\ t.vmap \in [Port -> SUBSET Vidx]
      /\ hw[p] \in SUBSET Vidx /\ vmap[p] \in SUBSET Vidx
  BY DEF Tables, TypeOK
<1>2. F0 \in SUBSET Vidx /\ F0 \subseteq hw[p]
  BY FetchedType
<1>3. /\ Visit(t, p, vid, {}, {}).hw[p] = ForEachBit(t.hw[p], {}, F)
      /\ Visit(t, p, vid, {}, {}).vmap[p] = t.vmap[p] \cup F
  <2>1. Visit(t, p, vid, {}, {}) =
          [hw |-> [t.hw EXCEPT ![p] = ForEachBit(t.hw[p], {}, F \ {})],
           vmap |-> [t.vmap EXCEPT ![p] = t.vmap[p] \cup F]]
    BY <1>1 DEF Visit
  <2>2. F \ {} = F
    OBVIOUS
  <2> HIDE DEF F
  <2> QED
    BY <1>1, <2>1, <2>2
<1>4. F = IF OfpPort[p] = p THEN {x \in t.hw[p] : VID(x) = vid} ELSE {}
  BY DEF ops_fpa_vlan_fetch, OwnNumbers
<1>5. F0 = IF OfpPort[p] = p THEN {x \in hw[p] : VID(x) = vid} ELSE {}
  BY DEF Fetched, ops_fpa_vlan_fetch, OwnNumbers
<1> HIDE DEF F, F0
<1>6. CASE Before(t, p)
  <2>1. F = F0
    BY <1>4, <1>5, <1>6, Zenon DEF Before
  <2> QED
    BY <1>3, <1>6, <2>1, Zenon DEF Before, ShutOff, F0
<1>7. CASE ShutOff(t, p, vid)
  <2>1. t.hw[p] = ForEachBit(hw[p], {}, F0) /\ t.vmap[p] = vmap[p] \cup F0
    BY <1>7, Zenon DEF ShutOff, F0
  <2>2. ForEachBit(hw[p], {}, F0) \in SUBSET ((hw[p] \ F0) \cup {})
    BY <1>1, <1>2, LoopBounds, SMTT(30)
  <2>3. F = {}
    BY <1>4, <1>5, <2>1, <2>2, Zenon
  <2>4. ForEachBit(t.hw[p], {}, F) = t.hw[p]
    <3>1. t.hw[p] \in SUBSET Vidx
      BY <1>1
    <3> QED
      BY <2>3, <3>1, LoopIdle, Zenon
  <2>5. t.vmap[p] \cup F = t.vmap[p]
    BY <2>3, Zenon
  <2> QED
    BY <1>3, <2>1, <2>4, <2>5, Zenon DEF ShutOff, F0
<1> QED
  BY <1>6, <1>7

(* Shutting a VLAN down goes over the bundles, however they are ordered. If*)
(* no number is another port's id, it deletes at every clean port what it  *)
(* fetched for it, and makes that pending.                                 *)
LEMMA VlanDownStep ==
  ASSUME TypeOK, NEW vid \in Vid, SetVlanDown(vid)
  PROVE  /\ hw' \in [Port -> SUBSET Vidx] /\ vmap' \in [Port -> SUBSET Vidx]
         /\ want' \in [Port -> SUBSET Vidx]
         /\ clean' \in SUBSET Visited(map', bundles') /\ plain' \in SUBSET clean'
         /\ UNCHANGED <<maps, bundles>> /\ vlans' = vlans \ {vid}
         /\ OwnNumbers => \A p \in clean' : VlanStep(p, {}, Fetched(p, vid))
         /\ \A p \in plain' : p \in plain
<1> DEFINE n == Cardinality(bundles)
           start == [hw |-> hw, vmap |-> vmap]
<1>1. /\ hw \in [Port -> SUBSET Vidx] /\ vmap \in [Port -> SUBSET Vidx]
      /\ want \in [Port -> SUBSET Vidx]
  BY DEF TypeOK
<1>2. PICK order, missed, failed :
        LET t == After(VisitTurns(vid, order, missed, failed), start, n)
            hit == {Lookup(c[1]) : c \in missed \cup failed}
        IN  /\ order \in Bijection(1 .. n, bundles)
            /\ hw' = t.hw /\ vmap' = t.vmap
            /\ vlans' = vlans \ {vid}
            /\ UNCHANGED <<maps, bundles>>
            /\ KeepHistory(clean \ hit, plain, want)
  BY ZenonT(40) DEF SetVlanDown
<1> DEFINE body == VisitTurns(vid, order, missed, failed)
           t == After(body, start, n)
           hit == {Lookup(c[1]) : c \in missed \cup failed}
           Of(b, calls) == {x \in Vidx : <<b, x>> \in calls}
<1>3. /\ order \in Bijection(1 .. n, bundles)
      /\ hw' = t.hw /\ vmap' = t.vmap
      /\ vlans' = vlans \ {vid} /\ UNCHANGED <<maps, bundles>>
      /\ KeepHistory(clean \ hit, plain, want)
  BY <1>2, Zenon
<1>4. /\ n \in Nat /\ order \in [1 .. n -> bundles]
      /\ \A b \in bundles : \E i \in 1 .. n : order[i] = b
  <2>1. IsFiniteSet(bundles)
    BY SeenType, VlanAssumption, FS_Subset, Zenon
  <2>2. n \in Nat
    BY <2>1, FS_CardinalityType
  <2> QED
    BY <1>3, <2>2 DEF Bijection, Injection, Surjection
<1>5. \A i \in 1 .. n : Lookup(order[i]) \in Port \cup {NULL}
  <2>1. IsMap(Port, map) /\ bundles \in SUBSET Port
    BY SeenType, Zenon
  <2>2. \A b \in bundles : Lookup(b) \in Port \cup {NULL}
    BY <2>1, FoundType, VlanPorts DEF Lookup
  <2> QED
    BY <1>4, <2>2
<1>6. ASSUME NEW i \in 0 .. n - 1, NEW u \in Tables
      PROVE  body[i + 1][u] = IF Lookup(order[i + 1]) = NULL THEN u
                              ELSE Visit(u, Lookup(order[i + 1]), vid,
                                         Of(order[i + 1], missed), Of(order[i + 1], failed))
  <2>1. i + 1 \in DOMAIN order
    BY <1>4
  <2> HIDE DEF n
  <2> QED
    BY <2>1, Zenon DEF VisitTurns
<1> HIDE DEF body, n
<1>7. ASSUME NEW i \in 0 .. n - 1, NEW u \in Tables
      PROVE  body[i + 1][u] \in Tables
  <2>1. Lookup(order[i + 1]) \in Port \cup {NULL}
    BY <1>4, <1>5
  <2> DEFINE b == order[i + 1]
             q == Lookup(b)
  <2>2. body[i + 1][u] = IF q = NULL THEN u
                         ELSE Visit(u, q, vid, Of(b, missed), Of(b, failed))
    BY <1>6, Zenon
  <2> HIDE DEF q, b, Of
  <2>3. CASE q = NULL
    BY <2>2, <2>3, Zenon
  <2>4. CASE q # NULL
    <3>1. q \in Port
      BY <2>1, <2>4 DEF q, b
    <3>2. Visit(u, q, vid, Of(b, missed), Of(b, failed)) \in Tables
      BY <3>1, VisitType, Zenon
    <3> QED
      BY <2>2, <2>4, <3>2, Zenon
  <2> QED
    BY <2>3, <2>4
<1>8. start \in Tables
  BY <1>1 DEF Tables
<1>9. t \in Tables
  <2> DEFINE G == (0 .. n) \X Tables
  <2>1. <<0, start>> \in G
    BY <1>4, <1>8
  <2>2. \A i \in 0 .. n - 1 : \A u : <<i, u>> \in G => <<i + 1, body[i + 1][u]>> \in G
    BY <1>4, <1>7
  <2>3. <<n, After(body, start, n)>> \in G
    <3> HIDE DEF G
    <3> QED
      BY <1>4, <2>1, <2>2, LoopInvariant, Zenon
  <2> QED
    BY <2>3
<1>10. hw' \in [Port -> SUBSET Vidx] /\ vmap' \in [Port -> SUBSET Vidx]
  <2> HIDE DEF t
  <2> QED
    BY <1>3, <1>9 DEF Tables
<1>11. Visited(map', bundles') = Seen /\ Seen \in SUBSET Port
  BY <1>3, SeenType DEF Seen, maps
<1> HIDE DEF hit, start
<1>12. /\ clean' \in SUBSET Visited(map', bundles') /\ clean' \in SUBSET Port
       /\ plain' \in SUBSET clean' /\ want' \in [Port -> SUBSET Vidx]
       /\ \A p \in clean' : p \in clean \ hit /\ want'[p] = want[p]
       /\ \A p \in plain' : p \in plain
  <2> DEFINE kept == clean \ hit
  <2>1. KeepHistory(kept, plain, want)
    BY <1>3
  <2>2. Visited(map', bundles') \in SUBSET Port /\ \A p \in Port : want[p] \in SUBSET Vidx
    BY <1>1, <1>11
  <2>3. /\ clean' \in SUBSET Visited(map', bundles') /\ clean' \in SUBSET Port
        /\ plain' \in SUBSET clean' /\ want' \in [Port -> SUBSET Vidx]
        /\ \A p \in clean' : p \in kept /\ want'[p] = want[p]
        /\ \A p \in plain' : p \in plain
    <3> HIDE DEF kept
    <3> QED
      BY <2>1, <2>2, HistoryStep, SMTT(30)
  <2> QED
    BY <2>3, Zenon
<1>13. ASSUME OwnNumbers, NEW p \in clean'
       PROVE  VlanStep(p, {}, Fetched(p, vid))
  <2>1. p \in Port /\ p \in Seen /\ p \in clean /\ p \notin hit /\ want'[p] = want[p]
    BY <1>11, <1>12
  <2> DEFINE Done(i) == \E j \in 1 .. i : Lookup(order[j]) = p
             Inv(i, u) == /\ Before(u, p) \/ ShutOff(u, p, vid)
                          /\ Done(i) => ShutOff(u, p, vid)
             G == {g \in (0 .. n) \X Tables : Inv(g[1], g[2])}
  <2>A. \A i, u : <<i, u>> \in G <=> i \in 0 .. n /\ u \in Tables /\ Inv(i, u)
    <3> HIDE DEF Inv
    <3> QED
      OBVIOUS
  <2> HIDE DEF G
  <2>2. <<0, start>> \in G
    <3>1. Before(start, p)
      BY <1>1 DEF Before, start
    <3>2. ~Done(0)
      OBVIOUS
    <3> HIDE DEF Done
    <3> QED
      BY <1>4, <1>8, <2>A, <3>1, <3>2
  <2>3. ASSUME NEW i \in 0 .. n - 1, NEW u, <<i, u>> \in G
        PROVE  <<i + 1, body[i + 1][u]>> \in G
    <3>1. u \in Tables /\ Inv(i, u) /\ i + 1 \in 0 .. n /\ i + 1 \in 1 .. n
      BY <1>4, <2>3, <2>A
    <3> DEFINE b == order[i + 1]
               v == body[i + 1][u]
    <3>2. v \in Tables
      BY <1>7, <3>1
    <3>3. Done(i + 1) => Done(i) \/ Lookup(b) = p
      BY <1>4
    <3>4. v = IF Lookup(b) = NULL THEN u
              ELSE Visit(u, Lookup(b), vid, Of(b, missed), Of(b, failed))
      BY <1>6, <3>1, Zenon
    <3>5. Lookup(b) \in Port \cup {NULL} /\ p # NULL
      BY <1>5, <2>1, <3>1, VlanPorts
    <3> HIDE DEF v, Done
    <3>6. CASE Lookup(b) = p
      <4>1. Of(b, missed) = {} /\ Of(b, failed) = {}
        <5>1. ASSUME NEW x, <<b, x>> \in missed \cup failed
              PROVE  FALSE
          <6>1. <<b, x>>[1] = b
            OBVIOUS
          <6>2. Lookup(<<b, x>>[1]) \in hit
            BY <5>1, Zenon DEF hit
          <6> QED
            BY <2>1, <3>6, <6>1, <6>2
        <5> QED
          BY <5>1, Zenon
      <4>2. v = Visit(u, p, vid, {}, {})
        BY <3>4, <3>5, <3>6, <4>1, Zenon
      <4>3. ShutOff(v, p, vid)
        BY <1>13, <2>1, <3>1, <4>2, VisitShuts, Zenon
      <4> QED
        BY <2>A, <3>1, <3>2, <4>3, Zenon DEF v
    <3>7. CASE Lookup(b) # p
      <4>1. v.hw[p] = u.hw[p] /\ v.vmap[p] = u.vmap[p]
        <5>1. CASE Lookup(b) = NULL
          BY <3>4, <5>1, Zenon
        <5>2. CASE Lookup(b) # NULL
          <6> DEFINE q == Lookup(b)
                     m == Of(b, missed)
                     f == Of(b, failed)
          <6>1. q \in Port /\ p \in Port \ {q} /\ u \in Tables
            BY <2>1, <3>1, <3>5, <3>7, <5>2
          <6>2. v = Visit(u, q, vid, m, f)
            BY <3>4, <5>2, Zenon
          <6> HIDE DEF q, m, f
          <6>3. /\ Visit(u, q, vid, m, f).hw[p] = u.hw[p]
                /\ Visit(u, q, vid, m, f).vmap[p] = u.vmap[p]
            BY <6>1, VisitType, SMTT(30)
          <6> QED
            BY <6>2, <6>3, Zenon
        <5> QED
          BY <5>1, <5>2
      <4>2. Inv(i + 1, v)
        BY <3>1, <3>3, <3>7, <4>1, Zenon DEF Before, ShutOff
      <4> QED
        BY <2>A, <3>1, <3>2, <4>2, Zenon DEF v
    <3> QED
      BY <3>6, <3>7
  <2>4. <<n, t>> \in G
    <3> HIDE DEF Inv
    <3> QED
      BY <1>4, <2>2, <2>3, LoopInvariant, Zenon
  <2>5. Done(n)
    <3>1. PICK b \in bundles : Lookup(b) = p
      BY <2>1, Zenon DEF Seen, Visited, Lookup
    <3> QED
      BY <1>4, <3>1
  <2>6. ShutOff(t, p, vid)
    <3> HIDE DEF Done, t
    <3> QED
      BY <2>4, <2>5, <2>A, Zenon
  <2>7. hw'[p] = t.hw[p] /\ vmap'[p] = t.vmap[p]
    BY <1>3, Zenon
  <2>8. vmap[p] \ {} = vmap[p]
    OBVIOUS
  <2> HIDE DEF t
  <2> QED
    BY <2>1, <2>6, <2>7, <2>8, Zenon DEF VlanStep, ShutOff
<1> QED
  BY <1>3, <1>10, <1>12, <1>13, Zenon

(* The types hold.                                                         *)
LEMMA BundleSetStep ==
  ASSUME TypeOK, NEW p \in Port, NEW s \in Setting, ops_fpa_ofproto_bundle_set(p, s)
  PROVE  /\ IsMap(Port, map') /\ bundles' \in SUBSET known' /\ known' \in SUBSET Port
         /\ again' \in BOOLEAN /\ crashed' \in BOOLEAN /\ UNCHANGED vlans
         /\ \/ UNCHANGED <<vmap, hw>> /\ KeepHistory(clean, plain, want)
            \/ \E q \in Port : SetPort(q, s)
<1>1. /\ IsMap(Port, map) /\ bundles \in SUBSET known /\ known \in SUBSET Port
      /\ again \in BOOLEAN /\ crashed \in BOOLEAN
  BY DEF TypeOK, IsMap
<1>2. IsMap(Port, map')
  <2>1. p \notin bundles => Few(map.n + 1)
    <3>1. map.n \in Nat
      BY <1>1 DEF IsMap, Maps
    <3> QED
      BY <3>1, FewNodes DEF ops_fpa_ofproto_bundle_set
  <2>2. p \notin bundles => IsMap(Port, hmap_insert(map, p))
    BY <1>1, <2>1, InsertType, VlanPorts
  <2> QED
    BY <1>1, <2>2 DEF ops_fpa_ofproto_bundle_set, MapWith
<1>3. bundles' \in SUBSET known' /\ known' \in SUBSET Port /\ UNCHANGED vlans
  BY <1>1 DEF ops_fpa_ofproto_bundle_set
<1>4. again' \in BOOLEAN /\ crashed' \in BOOLEAN
  BY <1>1, Zenon DEF ops_fpa_ofproto_bundle_set
<1>5. hmap_first_in_bucket(map', p) \in Port \cup {NULL}
  BY <1>2, FoundType, VlanPorts
<1> QED
  BY <1>2, <1>3, <1>4, <1>5 DEF ops_fpa_ofproto_bundle_set

(* A next hop touches the groups of its port, which is not clean after it. *)
LEMMA HostGroupStep ==
  ASSUME TypeOK, NEW p \in Port, NEW vid \in Routed, NEW kept \in BOOLEAN,
         ops_fpa_l3_host_group(p, vid, kept)
  PROVE  /\ hw' \in [Port -> SUBSET Vidx]
         /\ \A q \in Port \ {p} : hw'[q] = hw[q]
         /\ UNCHANGED <<maps, vlans, bundles, vmap>>
         /\ KeepHistory(clean \ {p}, plain, want)
<1> DEFINE vidx == EGRESS(vid, FALSE)
<1>1. vidx \in Vidx
  <2>1. NVid \in Nat /\ vid \in 0 .. NVid - 1
    BY VlanAssumption
  <2> QED
    BY <2>1 DEF EGRESS, Vidx
<1>2. hw \in [Port -> SUBSET Vidx] /\ hw[p] \in SUBSET Vidx
  BY DEF TypeOK
<1>3. /\ hw' = [hw EXCEPT ![p] = IF kept THEN ops_fpa_vlan_add(hw[p], vidx)
                                 ELSE ops_fpa_vlan_del(hw[p], vidx)]
      /\ UNCHANGED <<maps, vlans, bundles, vmap>>
      /\ KeepHistory(clean \ {p}, plain, want)
  BY <1>2 DEF ops_fpa_l3_host_group
<1> HIDE DEF vidx
<1>4. /\ ops_fpa_vlan_add(hw[p], vidx) \in SUBSET Vidx
      /\ ops_fpa_vlan_del(hw[p], vidx) \in SUBSET Vidx
  BY <1>1, <1>2, CallBounds
<1> QED
  BY <1>2, <1>3, <1>4

(* Every step keeps the types.                                             *)
LEMMA TypeInductive ==
  ASSUME TypeOK, [Next]_vars
  PROVE  TypeOK'
<1>1. /\ IsMap(Port, map) /\ vlans \in SUBSET Vid
      /\ bundles \in SUBSET known /\ known \in SUBSET Port /\ bundles \in SUBSET Port
      /\ again \in BOOLEAN /\ crashed \in BOOLEAN
      /\ vmap \in [Port -> SUBSET Vidx] /\ hw \in [Port -> SUBSET Vidx]
      /\ want \in [Port -> SUBSET Vidx]
  BY DEF TypeOK, IsMap
<1> DEFINE Parts == /\ IsMap(Port, map) /\ vlans \in SUBSET Vid
                    /\ bundles \in SUBSET known /\ known \in SUBSET Port
                    /\ again \in BOOLEAN /\ crashed \in BOOLEAN
                    /\ vmap \in [Port -> SUBSET Vidx] /\ hw \in [Port -> SUBSET Vidx]
<1>2. ASSUME Parts', NEW kept, NEW keptPlain, KeepHistory(kept, keptPlain, want)
      PROVE  TypeOK'
  <2>1. Visited(map', bundles') \in SUBSET Port
    BY <1>2, VisitedType
  <2>2. /\ clean' \in SUBSET Visited(map', bundles') /\ plain' \in SUBSET clean'
        /\ want' \in [Port -> SUBSET Vidx]
    BY <1>1, <1>2, <2>1, HistoryStep
  <2> QED
    BY <1>2, <2>2 DEF TypeOK, IsMap
<1>3. ASSUME NEW p \in Port, NEW s \in Setting, ops_fpa_ofproto_bundle_set(p, s)
      PROVE  TypeOK'
  <2>1. /\ IsMap(Port, map') /\ bundles' \in SUBSET known' /\ known' \in SUBSET Port
        /\ again' \in BOOLEAN /\ crashed' \in BOOLEAN /\ UNCHANGED vlans
        /\ \/ UNCHANGED <<vmap, hw>> /\ KeepHistory(clean, plain, want)
           \/ \E q \in Port : SetPort(q, s)
    BY <1>3, BundleSetStep
  <2>2. CASE UNCHANGED <<vmap, hw>> /\ KeepHistory(clean, plain, want)
    BY <1>1, <1>2, <2>1, <2>2, Zenon
  <2>3. ASSUME NEW q \in Port, SetPort(q, s)
        PROVE  TypeOK'
    <3>1. /\ hw' \in [Port -> SUBSET Vidx] /\ vmap' \in [Port -> SUBSET Vidx]
          /\ want' \in [Port -> SUBSET Vidx]
          /\ clean' \in SUBSET Visited(map', bundles') /\ plain' \in SUBSET clean'
      <4>1. bundles' \in SUBSET Port
        BY <2>1
      <4> QED
        BY <2>1, <2>3, <4>1, SetPortStep, Zenon
    <3> QED
      BY <1>1, <2>1, <3>1, Zenon DEF TypeOK, IsMap
  <2> QED
    BY <2>1, <2>2, <2>3
<1>4. ASSUME NEW p \in Port, ops_fpa_rm_bundle(p)
      PROVE  TypeOK'
  BY <1>1, <1>2, <1>4, Zenon DEF ops_fpa_rm_bundle, maps
<1>5. ASSUME NEW vid \in Vid, SetVlanUp(vid)
      PROVE  TypeOK'
  <2>1. /\ hw' \in [Port -> SUBSET Vidx] /\ vmap' \in [Port -> SUBSET Vidx]
        /\ want' \in [Port -> SUBSET Vidx]
        /\ clean' \in SUBSET Visited(map', bundles') /\ plain' \in SUBSET clean'
        /\ UNCHANGED <<maps, bundles>> /\ vlans' = vlans \cup {vid}
    BY <1>5, VlanUpStep, Zenon
  <2> QED
    BY <1>1, <2>1 DEF TypeOK, IsMap, maps
<1>6. ASSUME NEW vid \in Vid, SetVlanDown(vid)
      PROVE  TypeOK'
  <2>1. /\ hw' \in [Port -> SUBSET Vidx] /\ vmap' \in [Port -> SUBSET Vidx]
        /\ want' \in [Port -> SUBSET Vidx]
        /\ clean' \in SUBSET Visited(map', bundles') /\ plain' \in SUBSET clean'
        /\ UNCHANGED <<maps, bundles>> /\ vlans' = vlans \ {vid}
    BY <1>6, VlanDownStep
  <2> QED
    BY <1>1, <2>1 DEF TypeOK, IsMap, maps
<1>7. ASSUME NEW p \in Port, NEW vid \in Routed, NEW kept \in BOOLEAN,
             ops_fpa_l3_host_group(p, vid, kept)
      PROVE  TypeOK'
  <2>1. /\ hw' \in [Port -> SUBSET Vidx]
        /\ UNCHANGED <<maps, vlans, bundles, vmap>>
        /\ KeepHistory(clean \ {p}, plain, want)
    BY <1>7, HostGroupStep, Zenon
  <2> QED
    BY <1>1, <1>2, <2>1, Zenon DEF maps
<1>8. CASE UNCHANGED vars
  BY <1>8 DEF vars, maps, history, TypeOK, Visited
<1> QED
  BY <1>3, <1>4, <1>5, <1>6, <1>7, <1>8, Zenon DEF Next, ops_fpa_ofproto_set_vlan

-----------------------------------------------------------------------------
(* The settings, the ASIC and port->vmap.  That what is in the ASIC is of  *)
(* the settings is what makes it right for set_vlan to keep it as pending; *)
(* that the settings do not clash is what makes its calls exact.           *)
WantInv == \A p \in clean : hw[p] \subseteq want[p] /\ Pended(p)
NativeInv == \A p \in clean : Native(p)
ExactInv == \A p \in plain : Exact(p) /\ ~Clash(want[p])

(* What the operations do to the port p if it stays clean.                 *)
Undisturbed(p) ==
  /\ p \in clean /\ want'[p] = want[p] /\ hw'[p] = hw[p] /\ vmap'[p] = vmap[p]
  /\ p \in plain' => p \in plain
  /\ UNCHANGED vlans

Configured(p) ==
  /\ Native(p)' /\ Pended(p)'
  /\ p \in plain' => Exact(p)' /\ ~Clash(want'[p])

BroughtUp(p, vid) ==
  /\ VlanStep(p, Waiting(p, vid), {}) /\ vlans' = vlans \cup {vid}
  /\ p \in plain' => p \in plain

ShutDown(p, vid) ==
  /\ VlanStep(p, {}, Fetched(p, vid)) /\ vlans' = vlans \ {vid}
  /\ p \in plain' => p \in plain

(* A port that is clean after a step was left alone, was given settings,   *)
(* or had a VLAN brought up or shut down.                                  *)
LEMMA PortSteps ==
  ASSUME OwnNumbers, TypeOK, [Next]_vars, NEW p \in clean'
  PROVE  \/ Undisturbed(p)
         \/ Configured(p)
         \/ \E vid \in Vid : BroughtUp(p, vid)
         \/ \E vid \in Vid : ShutDown(p, vid)
<1>0. TypeOK' /\ p \in Port
  <2>1. TypeOK'
    BY TypeInductive
  <2>2. IsMap(Port, map') /\ bundles' \in SUBSET Port /\ clean' \in SUBSET Visited(map', bundles')
    BY <2>1, Zenon DEF TypeOK, IsMap
  <2> QED
    BY <2>1, <2>2, VisitedType
<1>1. ASSUME NEW kept, KeepHistory(kept, plain, want)
      PROVE  p \in kept /\ want'[p] = want[p] /\ (p \in plain' => p \in plain)
  <2>1. \A r \in Port : want[r] \in SUBSET Vidx
    BY DEF TypeOK
  <2>2. Visited(map', bundles') \in SUBSET Port
    BY <1>0, VisitedType DEF TypeOK, IsMap
  <2> QED
    BY <1>1, <2>1, <2>2, HistoryStep
<1>2. ASSUME NEW r \in Port, NEW s \in Setting, ops_fpa_ofproto_bundle_set(r, s)
      PROVE  Undisturbed(p) \/ Configured(p)
  <2>1. /\ IsMap(Port, map') /\ bundles' \in SUBSET Port /\ UNCHANGED vlans
        /\ \/ UNCHANGED <<vmap, hw>> /\ KeepHistory(clean, plain, want)
           \/ \E q \in Port : SetPort(q, s)
    BY <1>2, BundleSetStep
  <2>2. CASE UNCHANGED <<vmap, hw>> /\ KeepHistory(clean, plain, want)
    BY <1>1, <2>1, <2>2 DEF Undisturbed
  <2>3. ASSUME NEW q \in Port, SetPort(q, s)
        PROVE  Undisturbed(p) \/ Configured(p)
    <3>1. /\ \A x \in Port \ {q} :
               /\ hw'[x] = hw[x] /\ vmap'[x] = vmap[x]
               /\ x \in clean' => x \in clean /\ want'[x] = want[x]
               /\ x \in plain' => x \in plain
          /\ q \in clean' => Native(q)' /\ Pended(q)'
          /\ q \in plain' => Exact(q)' /\ ~Clash(want'[q])
      BY <2>1, <2>3, SetPortStep, ZenonT(40)
    <3>2. CASE p = q
      BY <3>1, <3>2, ZenonT(40) DEF Configured
    <3>3. CASE p # q
      BY <1>0, <2>1, <3>1, <3>3, Zenon DEF Undisturbed
    <3> QED
      BY <3>2, <3>3, SMTT(30)
  <2> QED
    BY <2>1, <2>2, <2>3
<1>3. ASSUME NEW r \in Port, ops_fpa_rm_bundle(r)
      PROVE  Undisturbed(p)
  BY <1>1, <1>3 DEF ops_fpa_rm_bundle, Undisturbed
<1>4. ASSUME NEW vid \in Vid, SetVlanUp(vid)
      PROVE  BroughtUp(p, vid)
  BY <1>4, VlanUpStep DEF BroughtUp
<1>5. ASSUME NEW vid \in Vid, SetVlanDown(vid)
      PROVE  ShutDown(p, vid)
  BY <1>5, VlanDownStep, Zenon DEF ShutDown
<1>6. ASSUME NEW r \in Port, NEW vid \in Routed, NEW kept \in BOOLEAN,
             ops_fpa_l3_host_group(r, vid, kept)
      PROVE  Undisturbed(p)
  <2>1. /\ \A q \in Port \ {r} : hw'[q] = hw[q]
        /\ UNCHANGED <<maps, vlans, bundles, vmap>>
        /\ KeepHistory(clean \ {r}, plain, want)
    BY <1>6, HostGroupStep
  <2>2. p \in clean \ {r} /\ want'[p] = want[p] /\ (p \in plain' => p \in plain)
    BY <1>1, <2>1, Zenon
  <2> QED
    BY <1>0, <2>1, <2>2, Zenon DEF Undisturbed
<1>7. CASE UNCHANGED vars
  BY <1>7, Zenon DEF vars, history, Undisturbed
<1> QED
  BY <1>2, <1>3, <1>4, <1>5, <1>6, <1>7, Zenon DEF Next, ops_fpa_ofproto_set_vlan

(* Every step keeps clean ports within their settings.                     *)
LEMMA WantInductive ==
  ASSUME OwnNumbers, TypeOK, WantInv, [Next]_vars
  PROVE  WantInv'
<1> SUFFICES ASSUME NEW p \in clean'
             PROVE  hw'[p] \subseteq want'[p] /\ Pended(p)'
  BY DEF WantInv
<1>0. \A r \in clean : /\ r \in Port /\ hw[r] \in SUBSET Vidx /\ vmap[r] \in SUBSET Vidx
                       /\ hw[r] \subseteq want[r] /\ Pended(r)
  <2>1. clean \in SUBSET Port
    BY SeenType, Zenon DEF TypeOK, Seen
  <2> QED
    BY <2>1 DEF TypeOK, WantInv
<1>1. CASE Undisturbed(p)
  BY <1>0, <1>1, SMTT(30) DEF Undisturbed, Pended
<1>2. CASE Configured(p)
  BY <1>2, ZenonT(40) DEF Configured, Native
<1>3. ASSUME NEW vid \in Vid, BroughtUp(p, vid)
      PROVE  hw'[p] \subseteq want'[p] /\ Pended(p)'
  <2>1. /\ p \in clean /\ want'[p] = want[p] /\ vlans' = vlans \cup {vid}
        /\ hw'[p] = ForEachBit(hw[p], Waiting(p, vid), {})
        /\ vmap'[p] = vmap[p] \ Waiting(p, vid)
    BY <1>3, Zenon DEF BroughtUp, VlanStep
  <2>2. Waiting(p, vid) \in SUBSET Vidx /\ Waiting(p, vid) \subseteq want[p]
    BY <1>0, <2>1, Zenon DEF Waiting, Pended
  <2>3. hw'[p] \subseteq hw[p] \cup Waiting(p, vid)
    <3>1. hw[p] \in SUBSET Vidx
      BY <1>0, <2>1, Zenon
    <3>2. ForEachBit(hw[p], Waiting(p, vid), {})
            \in SUBSET ((hw[p] \ {}) \cup Waiting(p, vid))
      BY <2>2, <3>1, LoopBounds, Zenon
    <3> QED
      BY <2>1, <3>2, Zenon
  <2>4. Pended(p)'
    BY <1>0, <2>1, Zenon DEF Pended, Waiting
  <2> QED
    BY <1>0, <2>1, <2>2, <2>3, <2>4, Zenon
<1>4. ASSUME NEW vid \in Vid, ShutDown(p, vid)
      PROVE  hw'[p] \subseteq want'[p] /\ Pended(p)'
  <2>1. /\ p \in clean /\ want'[p] = want[p] /\ vlans' = vlans \ {vid}
        /\ hw'[p] = ForEachBit(hw[p], {}, Fetched(p, vid))
        /\ vmap'[p] = vmap[p] \cup Fetched(p, vid)
    BY <1>4, Zenon DEF ShutDown, VlanStep
  <2>2. Fetched(p, vid) \subseteq hw[p] /\ \A x \in Fetched(p, vid) : VID(x) = vid
    BY <1>0, <2>1, FetchedType, Zenon DEF Fetched
  <2>3. hw'[p] \subseteq hw[p]
    <3>1. hw[p] \in SUBSET Vidx /\ {} \in SUBSET Vidx
      BY <1>0, <2>1, Zenon
    <3>2. ForEachBit(hw[p], {}, Fetched(p, vid))
            \in SUBSET ((hw[p] \ Fetched(p, vid)) \cup {})
      BY <3>1, LoopBounds, SMTT(30)
    <3> QED
      BY <2>1, <3>2, Zenon
  <2>4. Pended(p)'
    BY <1>0, <2>1, <2>2 DEF Pended
  <2> QED
    BY <1>0, <2>1, <2>3, <2>4, Zenon
<1> QED
  BY <1>1, <1>2, <1>3, <1>4, PortSteps, Zenon

(* A port id is a number of the port's own.                                *)
LEMMA SameIsOwn == SameNumbers => OwnNumbers
BY DEF SameNumbers, OwnNumbers

(* Every step keeps clean ports within the VLANs that are up.              *)
LEMMA NativeInductive ==
  ASSUME SameNumbers, TypeOK, WantInv, NativeInv, [Next]_vars
  PROVE  NativeInv'
<1> SUFFICES ASSUME NEW p \in clean'
             PROVE  Native(p)'
  BY DEF NativeInv
<1>0. \A r \in clean : /\ r \in Port /\ hw[r] \in SUBSET Vidx /\ vmap[r] \in SUBSET Vidx
                       /\ Native(r) /\ Pended(r)
  <2>1. clean \in SUBSET Port
    BY SeenType, Zenon DEF TypeOK, Seen
  <2> QED
    BY <2>1 DEF TypeOK, WantInv, NativeInv
<1>1. CASE Undisturbed(p)
  BY <1>0, <1>1 DEF Undisturbed, Native
<1>2. CASE Configured(p)
  BY <1>2, Zenon DEF Configured
<1>3. ASSUME NEW vid \in Vid, BroughtUp(p, vid)
      PROVE  Native(p)'
  <2>1. /\ p \in clean /\ want'[p] = want[p] /\ vlans' = vlans \cup {vid}
        /\ hw'[p] = ForEachBit(hw[p], Waiting(p, vid), {})
    BY <1>3, Zenon DEF BroughtUp, VlanStep
  <2>2. /\ Waiting(p, vid) \in SUBSET Vidx /\ Waiting(p, vid) \subseteq want[p]
        /\ \A x \in Waiting(p, vid) : VID(x) = vid
    BY <1>0, <2>1, Zenon DEF Waiting, Pended
  <2>3. hw'[p] \subseteq hw[p] \cup Waiting(p, vid)
    <3>1. hw[p] \in SUBSET Vidx
      BY <1>0, <2>1, Zenon
    <3>2. ForEachBit(hw[p], Waiting(p, vid), {})
            \in SUBSET ((hw[p] \ {}) \cup Waiting(p, vid))
      BY <2>2, <3>1, LoopBounds, Zenon
    <3> QED
      BY <2>1, <3>2, Zenon
  <2> QED
    BY <1>0, <2>1, <2>2, <2>3, Zenon DEF Native
<1>4. ASSUME NEW vid \in Vid, ShutDown(p, vid)
      PROVE  Native(p)'
  <2>1. /\ p \in clean /\ want'[p] = want[p] /\ vlans' = vlans \ {vid}
        /\ hw'[p] = ForEachBit(hw[p], {}, Fetched(p, vid))
    BY <1>4, Zenon DEF ShutDown, VlanStep
  <2>2. Fetched(p, vid) = {x \in hw[p] : VID(x) = vid}
    BY <1>0, <2>1, FetchedType, SameIsOwn, Zenon DEF SameNumbers
  <2>3. hw'[p] \subseteq hw[p] \ Fetched(p, vid)
    <3>1. hw[p] \in SUBSET Vidx /\ {} \in SUBSET Vidx
      BY <1>0, <2>1, Zenon
    <3>2. ForEachBit(hw[p], {}, Fetched(p, vid))
            \in SUBSET ((hw[p] \ Fetched(p, vid)) \cup {})
      BY <3>1, LoopBounds, SMTT(30)
    <3> QED
      BY <2>1, <3>2, Zenon
  <2> QED
    BY <1>0, <2>1, <2>2, <2>3, Zenon DEF Native
<1> QED
  BY <1>1, <1>2, <1>3, <1>4, PortSteps, SameIsOwn

(* Every step keeps plain ports exact.                                     *)
LEMMA ExactInductive ==
  ASSUME SameNumbers, TypeOK, ExactInv, [Next]_vars
  PROVE  ExactInv'
<1> SUFFICES ASSUME NEW p \in plain'
             PROVE  Exact(p)' /\ ~Clash(want'[p])
  BY DEF ExactInv
<1>0. \A r \in plain : /\ r \in Port /\ hw[r] \in SUBSET Vidx /\ vmap[r] \in SUBSET Vidx
                       /\ Exact(r) /\ ~Clash(want[r])
  <2>1. plain \in SUBSET Port
    BY SeenType DEF TypeOK, Seen
  <2> QED
    BY <2>1 DEF TypeOK, ExactInv
<1>A. p \in clean'
  BY TypeInductive, SMTT(30) DEF TypeOK
<1>1. CASE Undisturbed(p)
  BY <1>0, <1>1, Zenon DEF Undisturbed, Exact
<1>2. CASE Configured(p)
  BY <1>2 DEF Configured
<1>3. ASSUME NEW vid \in Vid, BroughtUp(p, vid)
      PROVE  Exact(p)' /\ ~Clash(want'[p])
  <2>1. /\ p \in plain /\ want'[p] = want[p] /\ vlans' = vlans \cup {vid}
        /\ hw'[p] = ForEachBit(hw[p], Waiting(p, vid), {})
        /\ vmap'[p] = vmap[p] \ Waiting(p, vid)
    BY <1>3, Zenon DEF BroughtUp, VlanStep
  <2>2. /\ Waiting(p, vid) \in SUBSET Vidx
        /\ hw[p] \cup Waiting(p, vid) \subseteq want[p]
    BY <1>0, <2>1 DEF Waiting, Exact
  <2>3. ~Clash(hw[p] \cup Waiting(p, vid) \cup {})
    <3> DEFINE A == hw[p] \cup Waiting(p, vid) \cup {}
    <3>1. A \subseteq want[p] /\ ~Clash(want[p])
      BY <1>0, <2>1, <2>2, Zenon
    <3> HIDE DEF A
    <3>2. ~Clash(A)
      BY <3>1, SMTT(30) DEF Clash, SameGroup
    <3> QED
      BY <3>2, Zenon DEF A
  <2>4. hw'[p] = (hw[p] \ {}) \cup Waiting(p, vid)
    <3>1. hw[p] \in SUBSET Vidx /\ {} \in SUBSET Vidx
      BY <1>0, <2>1, Zenon
    <3>2. ForEachBit(hw[p], Waiting(p, vid), {}) = (hw[p] \ {}) \cup Waiting(p, vid)
      BY <2>2, <2>3, <3>1, LoopExact, Zenon
    <3> QED
      BY <2>1, <3>2, Zenon
  <2>5. Exact(p)'
    BY <1>0, <2>1, <2>4, ZenonT(40) DEF Exact, Waiting
  <2> QED
    BY <1>0, <2>1, <2>5, Zenon
<1>4. ASSUME NEW vid \in Vid, ShutDown(p, vid)
      PROVE  Exact(p)' /\ ~Clash(want'[p])
  <2>1. /\ p \in plain /\ want'[p] = want[p] /\ vlans' = vlans \ {vid}
        /\ hw'[p] = ForEachBit(hw[p], {}, Fetched(p, vid))
        /\ vmap'[p] = vmap[p] \cup Fetched(p, vid)
    BY <1>4, Zenon DEF ShutDown, VlanStep
  <2>2. Fetched(p, vid) = {x \in hw[p] : VID(x) = vid}
    BY <1>0, <2>1, FetchedType, SameIsOwn, Zenon DEF SameNumbers
  <2>3. ~Clash(hw[p] \cup {} \cup Fetched(p, vid))
    <3> DEFINE A == hw[p] \cup {} \cup Fetched(p, vid)
    <3>1. A \subseteq want[p] /\ ~Clash(want[p])
      BY <1>0, <2>1, <2>2, ZenonT(40) DEF Exact
    <3> HIDE DEF A
    <3>2. ~Clash(A)
      BY <3>1 DEF Clash, SameGroup
    <3> QED
      BY <3>2, SMTT(30) DEF A
  <2>4. hw'[p] = (hw[p] \ Fetched(p, vid)) \cup {}
    <3>1. hw[p] \in SUBSET Vidx /\ {} \in SUBSET Vidx
      BY <1>0, <2>1, Zenon
    <3>2. Fetched(p, vid) \in SUBSET Vidx
      BY <2>2, <3>1, Zenon
    <3>3. ForEachBit(hw[p], {}, Fetched(p, vid)) = (hw[p] \ Fetched(p, vid)) \cup {}
      BY <2>3, <3>1, <3>2, LoopExact, Zenon
    <3> QED
      BY <2>1, <3>3, Zenon
  <2>5. Exact(p)'
    BY <1>0, <2>1, <2>2, <2>4, Zenon DEF Exact
  <2> QED
    BY <1>0, <2>1, <2>5, Zenon
<1> QED
  BY <1>A, <1>1, <1>2, <1>3, <1>4, PortSteps, SameIsOwn, Zenon

(* The map is empty and no port has a VLAN.                                *)
LEMMA InitTypes == Init => TypeOK
<1> SUFFICES ASSUME Init
             PROVE  TypeOK
  OBVIOUS
<1>1. map = [head |-> [b \in 0 .. 0 |-> NULL], next |-> [p \in Port |-> NULL],
             mask |-> 0, n |-> 0]
  BY DEF Init, EmptyMap, Buckets
<1>2. map.mask \in Nat /\ map \in Maps(Port, map.mask)
  BY <1>1 DEF Maps
<1> QED
  BY <1>2, Zenon DEF Init, TypeOK, Visited

(* The port map, port->vmap, the tables of the ASIC and the bundles are    *)
(* well formed after any operations, whatever calls fail: bitmaps hold     *)
(* VIDXs, and bundle_set, set_vlan and the resizes of the map stay within  *)
(* the bits and the buckets there are.                                     *)
THEOREM VlanTypes == Spec => []TypeOK
<1>1. TypeOK /\ [Next]_vars => TypeOK'
  BY TypeInductive
<1> QED
  BY <1>1, InitTypes, PTL DEF Spec

(* Clean ports are within their settings at all times.                     *)
LEMMA VlanInvariant == ASSUME OwnNumbers PROVE Spec => [](TypeOK /\ WantInv)
<1>1. Init => WantInv
  BY DEF Init, WantInv
<1>2. TypeOK /\ WantInv /\ [Next]_vars => WantInv'
  BY WantInductive
<1> QED
  BY <1>1, <1>2, VlanTypes, PTL DEF Spec

(* What is pending in port->vmap is configured and shut down, also where   *)
(* the OpenFlow number is not the port id, as long as it is not the id of  *)
(* another port, whose VIDXs set_vlan would fetch and keep as pending here:*)
(* set_vlan never revives old settings.                                    *)
THEOREM PendingConfigured ==
  ASSUME OwnNumbers PROVE Spec => []PendingIsConfigured
<1>1. WantInv => PendingIsConfigured
  BY DEF WantInv, Pended, PendingIsConfigured
<1> QED
  BY <1>1, VlanInvariant, PTL

(* Where the OpenFlow numbers are the port ids, no port is in a VLAN of the*)
(* ASIC that is shut down or that its settings do not name (bundle_set and *)
(* set_vlan).                                                              *)
THEOREM NoForeignVlans ==
  ASSUME SameNumbers PROVE Spec => []NoForeignVlan
<1>1. Init => NativeInv
  BY DEF Init, NativeInv
<1>2. TypeOK /\ WantInv /\ NativeInv /\ [Next]_vars => NativeInv'
  BY NativeInductive
<1>3. NativeInv => NoForeignVlan
  BY DEF NativeInv, Native, NoForeignVlan
<1> QED
  BY <1>1, <1>2, <1>3, VlanInvariant, SameIsOwn, PTL DEF Spec

(* There the ASIC and port->vmap hold exactly what the settings ask for, if*)
(* these do not clash with what was in the ASIC: bundle_set repairs what   *)
(* earlier failures left, and set_vlan moves all of a VLAN and no more.    *)
THEOREM PlainPortsExact ==
  ASSUME SameNumbers PROVE Spec => []PlainExact
<1>1. Init => ExactInv
  BY DEF Init, ExactInv
<1>2. TypeOK /\ ExactInv /\ [Next]_vars => ExactInv'
  BY ExactInductive
<1>3. ExactInv => PlainExact
  BY DEF ExactInv, PlainExact
<1> QED
  BY <1>1, <1>2, <1>3, VlanTypes, PTL DEF Spec

-----------------------------------------------------------------------------
(* Look-ups in the port map *)

(* The lists of ports_by_pid run through the known ports, each of them once*)
(* and in its own bucket, and there are as many buckets as PortMap says.   *)
MapInv == ~again => ~crashed /\ Holds(Port, map, known) /\ Sized(map)

(* Every step keeps the lists in order, until a port is inserted twice.    *)
LEMMA MapInductive ==
  ASSUME TypeOK, MapInv, [Next]_vars
  PROVE  MapInv'
<1>0. known \in SUBSET Port /\ bundles \in SUBSET known
  BY DEF TypeOK
<1>1. CASE UNCHANGED maps
  BY <1>1 DEF MapInv, maps
<1>2. ASSUME NEW p \in Port, NEW s \in Setting, ops_fpa_ofproto_bundle_set(p, s), ~again'
      PROVE  ~crashed' /\ Holds(Port, map', known') /\ Sized(map')
  <2>1. /\ p \in bundles \/ map.n < MaxNodes
        /\ map' = MapWith(p) /\ known' = known \cup {p}
        /\ ~again /\ (p \in known => p \in bundles) /\ ~crashed
    BY <1>2, Zenon DEF ops_fpa_ofproto_bundle_set
  <2>2. Holds(Port, map, known) /\ Sized(map)
    BY <2>1 DEF MapInv
  <2>3. Holds(Port, map', known') /\ Sized(map')
    <3>1. CASE p \in bundles
      <4>1. map' = map /\ known' = known
        BY <1>0, <2>1, <3>1 DEF MapWith
      <4> QED
        BY <2>2, <4>1
    <3>2. CASE p \notin bundles
      <4>0. map.n \in Nat
        BY <2>2 DEF Holds, IsMap, Maps
      <4>1. map' = hmap_insert(map, p) /\ p \notin known /\ Few(map.n + 1)
        BY <2>1, <3>2, <4>0, FewNodes, Zenon DEF MapWith
      <4>2. Holds(Port, hmap_insert(map, p), known \cup {p}) /\ Sized(hmap_insert(map, p))
        BY <2>2, <4>1, InsertHolds, VlanPorts, Zenon
      <4> QED
        BY <2>1, <4>1, <4>2
    <3> QED
      BY <3>1, <3>2
  <2>4. hmap_first_in_bucket(map', p) # NULL
    BY <2>1, <2>3, VlanPorts, Finds
  <2> QED
    BY <1>2, <2>1, <2>3, <2>4 DEF ops_fpa_ofproto_bundle_set
<1>3. ASSUME NEW p \in Port, NEW s \in Setting, ops_fpa_ofproto_bundle_set(p, s)
      PROVE  MapInv'
  BY <1>2, <1>3 DEF MapInv
<1>4. ASSUME NEW p \in Port, ops_fpa_rm_bundle(p)
      PROVE  UNCHANGED maps
  BY <1>4, SMTT(30) DEF ops_fpa_rm_bundle
<1>5. ASSUME NEW vid \in Vid, SetVlanUp(vid)
      PROVE  UNCHANGED maps
  BY <1>5, ZenonT(40) DEF SetVlanUp
<1>6. ASSUME NEW vid \in Vid, SetVlanDown(vid)
      PROVE  UNCHANGED maps
  BY <1>6, Zenon DEF SetVlanDown
<1>7. ASSUME NEW p \in Port, NEW vid \in Routed, NEW kept \in BOOLEAN,
             ops_fpa_l3_host_group(p, vid, kept)
      PROVE  UNCHANGED maps
  BY <1>7 DEF ops_fpa_l3_host_group
<1>8. UNCHANGED vars => UNCHANGED maps
  BY DEF vars
<1> QED
  BY <1>1, <1>3, <1>4, <1>5, <1>6, <1>7, <1>8, Zenon DEF Next,
     ops_fpa_ofproto_set_vlan

(* Where the lists are in order, look-ups agree with the set of ports.     *)
LEMMA MapFinds == MapInv => LookupAgrees
<1> SUFFICES ASSUME MapInv, ~again,
                    NEW pid \in Port \cup {p + 1 : p \in Port}
             PROVE  /\ ~crashed
                    /\ IF KnownPort(known, pid)
                       THEN Lookup(pid) \in ops_fpa_get_ofport_by_pid(known, pid)
                       ELSE Lookup(pid) = NULL
  BY DEF LookupAgrees, MapInv
<1>1. ~crashed /\ Holds(Port, map, known) /\ Sized(map)
  BY DEF MapInv
<1>2. pid \in Nat
  BY VlanPorts, SMTT(30)
<1>3. map.mask + 1 = BucketCount(Cardinality(known))
  <2>1. map.n \in Nat /\ \E f : Lists(f, known, map.n)
    BY <1>1 DEF Holds, Count
  <2>2. ExistsBijection(1 .. map.n, known)
    <3>1. PICK f : Lists(f, known, map.n)
      BY <2>1
    <3>2. f \in Injection(1 .. map.n, known) /\ f \in Surjection(1 .. map.n, known)
      BY <3>1 DEF Lists, Injection, IsInjective, Surjection
    <3> QED
      BY <3>2 DEF ExistsBijection, Bijection
  <2>3. Cardinality(known) = map.n
    BY <2>1, <2>2, FS_CountingElements
  <2> QED
    BY <1>1, <2>3, Zenon DEF Sized
<1>4. ops_fpa_get_ofport_by_pid(known, pid) = {q \in known : Home(map, q) = Home(map, pid)}
  BY <1>3, Zenon DEF ops_fpa_get_ofport_by_pid, Bucket, Home
<1>5. /\ Lookup(pid) # NULL => /\ Lookup(pid) \in known
                               /\ Home(map, Lookup(pid)) = Home(map, pid)
      /\ Lookup(pid) = NULL => \A q \in known : Home(map, q) # Home(map, pid)
  BY <1>1, <1>2, VlanPorts, Finds, Zenon DEF Lookup
<1>6. known \in SUBSET Port
  BY <1>1 DEF Holds
<1> QED
  BY <1>1, <1>4, <1>5, <1>6, VlanPorts, Zenon DEF KnownPort

(* The lists are in order at all times until a port is inserted twice.     *)
LEMMA MapInvariant == Spec => []MapInv
<1>1. Init => MapInv
  <2> SUFFICES ASSUME Init
               PROVE  ~crashed /\ Holds(Port, map, known) /\ Sized(map)
    BY DEF MapInv
  <2>1. ~crashed /\ known = {}
    BY DEF Init
  <2>2. IsMap(Port, map)
    BY InitTypes DEF TypeOK, IsMap
  <2>3. map.n = 0 /\ map.mask = 0 /\ map.head = Buckets(0)
    BY DEF Init, EmptyMap
  <2>4. Holds(Port, map, {})
    BY <2>2, <2>3, EmptyHolds, VlanPorts, Zenon
  <2>5. Sized(map)
    <3>1. BucketCount(0) = 1
      BY SMT DEF BucketCount
    <3> QED
      BY <2>3, <3>1 DEF Sized
  <2> QED
    BY <2>1, <2>4, <2>5
<1>2. TypeOK /\ MapInv /\ [Next]_vars => MapInv'
  BY MapInductive
<1> QED
  BY <1>1, <1>2, VlanTypes, PTL DEF Spec

(* As long as no bundle is set up again for a port whose bundle was        *)
(* removed, ops_fpa_get_ofport_by_pid gives a port of the bucket whenever  *)
(* the map has one, for any port ids, order of insertions and number of    *)
(* resizes; bundle_set then never works on NULL.                           *)
THEOREM LookupsAgree == Spec => []LookupAgrees
BY MapInvariant, MapFinds, PTL

=============================================================================
