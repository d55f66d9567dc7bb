------------------------------ MODULE LibProofs ------------------------------
(***************************************************************************)
(* Lemmas about what the modules share: loops that run for a known number  *)
(* of turns (Loop), and the hash map of ports, whose resize is made of     *)
(* such loops (PortChains).                                                *)
(*                                                                         *)
(* Induction is by a set of numbers in place of a predicate, which is a    *)
(* form that proofs can cite.                                              *)
(***************************************************************************)
EXTENDS PortChains, WellFoundedInduction, TLAPS

-----------------------------------------------------------------------------
(* Induction over an interval *)

(* A set of numbers that is not empty has a least element.                 *)
LEMMA LeastElement ==
  ASSUME NEW G \in SUBSET Nat, G # {}
  PROVE  \E m \in G : \A k \in G : m <= k
<1>1. PICK m \in G : \A k \in G : ~(<<k, m>> \in OpToRel(<, Nat))
  BY NatLessThanWellFounded, WFMin, Zenon
<1>2. \A k \in G : ~(k < m)
  BY <1>1, Zenon DEF OpToRel
<1> QED
  BY <1>2

(* A set that holds 0 and, with a number below n, the next one, holds all  *)
(* numbers up to n.                                                        *)
LEMMA IntervalInduction ==
  ASSUME NEW n \in Nat, NEW F, 0 \in F,
         \A i \in 0 .. n - 1 : i \in F => i + 1 \in F
  PROVE  0 .. n \subseteq F
<1> DEFINE G == (0 .. n) \ F
<1> SUFFICES ASSUME G # {}
             PROVE  FALSE
  OBVIOUS
<1>0. G \in SUBSET Nat
  OBVIOUS
<1>1. PICK m \in G : \A k \in G : m <= k
  BY <1>0, LeastElement, Zenon
<1>2. m # 0 /\ m - 1 \in 0 .. n - 1 /\ m - 1 \notin G
  BY <1>1
<1> QED
  BY <1>1, <1>2

-----------------------------------------------------------------------------
(* The turns of a loop *)

(* t lists the states of the first n turns.                                *)
Trace(body, init, n, t) ==
  t = [i \in 0 .. n |-> IF i = 0 THEN init ELSE body[i][t[i - 1]]]

(* Every loop has its list of states: the recursive definition of After is *)
(* a sound one.                                                            *)
LEMMA TraceExists ==
  ASSUME NEW body, NEW init, NEW n \in Nat
  PROVE  \E t : Trace(body, init, n, t)
<1> DEFINE F == {k \in 0 .. n : \E t : Trace(body, init, k, t)}
<1>1. 0 \in F
  <2>1. Trace(body, init, 0, [i \in 0 .. 0 |-> init])
    BY DEF Trace
  <2> QED
    BY <2>1
<1>2. ASSUME NEW k \in 0 .. n - 1, k \in F
      PROVE  k + 1 \in F
  <2>1. PICK t : Trace(body, init, k, t)
    BY <1>2
  <2> DEFINE u == [i \in 0 .. k + 1 |->
                     IF i = k + 1 THEN body[k + 1][t[k]] ELSE t[i]]
  <2>2. \A i \in 0 .. k : u[i] = t[i]
    OBVIOUS
  <2>3. Trace(body, init, k + 1, u)
    <3>1. ASSUME NEW i \in 0 .. k
          PROVE  u[i] = IF i = 0 THEN init ELSE body[i][u[i - 1]]
      <4>1. t[i] = IF i = 0 THEN init ELSE body[i][t[i - 1]]
        BY <2>1 DEF Trace
      <4>2. i # 0 => i - 1 \in 0 .. k
        OBVIOUS
      <4> HIDE DEF u
      <4> QED
        BY <2>2, <4>1, <4>2
    <3>2. u[k + 1] = body[k + 1][u[k]]
      OBVIOUS
    <3>3. \A i \in 0 .. k + 1 :
            u[i] = IF i = 0 THEN init ELSE body[i][u[i - 1]]
      <4> HIDE DEF u
      <4> TAKE i \in 0 .. k + 1
      <4>1. CASE i \in 0 .. k
        BY <3>1, <4>1
      <4>2. CASE i = k + 1
        BY <3>2, <4>2
      <4> QED
        BY <4>1, <4>2
    <3> QED
      BY <3>3 DEF Trace
  <2> QED
    BY <2>3
<1>3. 0 .. n \subseteq F
  <2> HIDE DEF F
  <2> QED
    BY <1>1, <1>2, IntervalInduction
<1> QED
  BY <1>3

(* A shorter list of states is a prefix of a longer one.                   *)
LEMMA TracesAgree ==
  ASSUME NEW body, NEW init, NEW n \in Nat, NEW m \in Nat, m <= n,
         NEW t, Trace(body, init, n, t), NEW u, Trace(body, init, m, u)
  PROVE  \A i \in 0 .. m : t[i] = u[i]
<1> DEFINE F == {k \in 0 .. m : t[k] = u[k]}
<1>1. 0 \in F
  BY DEF Trace
<1>2. ASSUME NEW k \in 0 .. m - 1, k \in F
      PROVE  k + 1 \in F
  BY <1>2 DEF Trace
<1>3. 0 .. m \subseteq F
  <2> HIDE DEF F
  <2> QED
    BY <1>1, <1>2, IntervalInduction
<1> QED
  BY <1>3

(* What After yields are the states of that list.                          *)
LEMMA AfterTrace ==
  ASSUME NEW body, NEW init, NEW n \in Nat
  PROVE  \E t : /\ Trace(body, init, n, t)
                /\ \A i \in 0 .. n : After(body, init, i) = t[i]
<1>1. PICK t : Trace(body, init, n, t)
  BY TraceExists
<1>2. ASSUME NEW i \in 0 .. n
      PROVE  After(body, init, i) = t[i]
  <2> DEFINE after == CHOOSE after : Trace(body, init, i, after)
  <2>1. Trace(body, init, i, after)
    BY TraceExists
  <2>2. After(body, init, i) = after[i]
    BY DEF After, Trace
  <2> HIDE DEF after
  <2> QED
    BY <1>1, <2>1, <2>2, TracesAgree
<1> QED
  BY <1>1, <1>2

(* A loop of no turns changes nothing.                                     *)
LEMMA AfterNone ==
  ASSUME NEW body, NEW init
  PROVE  After(body, init, 0) = init
BY AfterTrace DEF Trace

(* The last turn works on what the turns before it left.                   *)
LEMMA AfterOneMore ==
  ASSUME NEW body, NEW init, NEW n \in Nat
  PROVE  After(body, init, n + 1) = body[n + 1][After(body, init, n)]
<1>1. PICK t : /\ Trace(body, init, n + 1, t)
               /\ \A i \in 0 .. n + 1 : After(body, init, i) = t[i]
  BY AfterTrace
<1> QED
  BY <1>1 DEF Trace

(* What holds before the first turn and is kept by every turn holds after  *)
(* the last one.  G is a set of pairs: a number of turns and a state.      *)
LEMMA LoopInvariant ==
  ASSUME NEW body, NEW init, NEW n \in Nat, NEW G, <<0, init>> \in G,
         \A i \in 0 .. n - 1 : \A s :
           <<i, s>> \in G => <<i + 1, body[i + 1][s]>> \in G
  PROVE  <<n, After(body, init, n)>> \in G
<1> DEFINE F == {i \in 0 .. n : <<i, After(body, init, i)>> \in G}
<1>1. 0 \in F
  BY AfterNone
<1>2. ASSUME NEW i \in 0 .. n - 1, i \in F
      PROVE  i + 1 \in F
  BY <1>2, AfterOneMore
<1>3. 0 .. n \subseteq F
  <2> HIDE DEF F
  <2> QED
    BY <1>1, <1>2, IntervalInduction
<1> QED
  BY <1>3

(* The first n turns of a loop keep to states of S, where they are those   *)
(* that the other loop does after its first k.                             *)
SameOn(S, body, other, k, n) ==
  \A i \in 1 .. n, s \in S : body[i][s] \in S /\ body[i][s] = other[i + k][s]

(* Two loops with the same turns have the same result.                     *)
LEMMA SameTurns ==
  ASSUME NEW body, NEW other, NEW S, NEW init \in S, NEW n \in Nat,
         SameOn(S, body, other, 0, n)
  PROVE  After(body, init, n) = After(other, init, n)
<1> DEFINE F == {i \in 0 .. n : /\ After(body, init, i) \in S
                               /\ After(body, init, i) = After(other, init, i)}
<1>1. 0 \in F
  BY AfterNone
<1>2. ASSUME NEW i \in 0 .. n - 1, i \in F
      PROVE  i + 1 \in F
  <2>1. i \in Nat /\ i + 1 \in 1 .. n /\ i + 1 \in 0 .. n
    OBVIOUS
  <2>2. /\ After(body, init, i + 1) = body[i + 1][After(body, init, i)]
        /\ After(other, init, i + 1) = other[i + 1][After(other, init, i)]
    BY <2>1, AfterOneMore
  <2> QED
    BY <1>2, <2>1, <2>2 DEF SameOn
<1>3. 0 .. n \subseteq F
  <2> HIDE DEF F
  <2> QED
    BY <1>1, <1>2, IntervalInduction
<1> QED
  BY <1>3

(* A loop does its first turn and then is the loop of the turns that are   *)
(* left.                                                                   *)
LEMMA FirstTurn ==
  ASSUME NEW body, NEW other, NEW S, NEW init, NEW n \in Nat,
         body[1][init] \in S,
         SameOn(S, other, body, 1, n)
  PROVE  After(body, init, n + 1) = After(other, body[1][init], n)
<1> DEFINE first == body[1][init]
           F == {i \in 0 .. n : /\ After(other, first, i) \in S
                               /\ After(body, init, i + 1) = After(other, first, i)}
<1>1. 0 \in F
  <2>1. After(body, init, 0 + 1) = body[0 + 1][After(body, init, 0)]
    BY AfterOneMore, Zenon
  <2> QED
    BY <2>1, AfterNone
<1>2. ASSUME NEW i \in 0 .. n - 1, i \in F
      PROVE  i + 1 \in F
  <2>1. i \in Nat /\ i + 1 \in Nat /\ i + 1 \in 1 .. n /\ i + 1 \in 0 .. n
    OBVIOUS
  <2>2. /\ After(body, init, i + 1 + 1) = body[i + 1 + 1][After(body, init, i + 1)]
        /\ After(other, first, i + 1) = other[i + 1][After(other, first, i)]
    BY <2>1, AfterOneMore
  <2> QED
    BY <1>2, <2>1, <2>2 DEF SameOn
<1>3. 0 .. n \subseteq F
  <2> HIDE DEF F
  <2> QED
    BY <1>1, <1>2, IntervalInduction
<1> QED
  BY <1>3

-----------------------------------------------------------------------------
(* A loop over a list *)

(* The turns of a loop over a list are functions on the states.            *)
LEMMA TurnsType ==
  ASSUME NEW S, NEW C, NEW apply \in [C -> [S -> S]], NEW list \in Seq(C)
  PROVE  \A i \in 1 .. Len(list) : /\ list[i] \in C
                                    /\ Turns(apply, list)[i] = apply[list[i]]
                                    /\ \A s \in S : apply[list[i]][s] \in S
BY DEF Turns

(* A loop whose turns keep to S ends in S.                                 *)
LEMMA AfterAllType ==
  ASSUME NEW S, NEW C, NEW apply \in [C -> [S -> S]], NEW list \in Seq(C),
         NEW init \in S
  PROVE  AfterAll(apply, init, list) \in S
<1> DEFINE n == Len(list)
           body == Turns(apply, list)
           G == (0 .. n) \X S
<1>1. n \in Nat /\ <<0, init>> \in G
  OBVIOUS
<1>2. \A i \in 1 .. n : \A s \in S : body[i][s] \in S
  BY TurnsType
<1> HIDE DEF body, n
<1>3. \A i \in 0 .. n - 1 : \A s : <<i, s>> \in G => <<i + 1, body[i + 1][s]>> \in G
  BY <1>1, <1>2
<1> HIDE DEF G
<1>4. <<n, After(body, init, n)>> \in G
  BY <1>1, <1>3, LoopInvariant
<1> QED
  BY <1>4 DEF AfterAll, G, body, n

(* An element put at the end of the list is the last one the loop meets.   *)
LEMMA AfterAllAppend ==
  ASSUME NEW S, NEW C, NEW apply \in [C -> [S -> S]], NEW list \in Seq(C),
         NEW init \in S, NEW c \in C
  PROVE  AfterAll(apply, init, Append(list, c)) = apply[c][AfterAll(apply, init, list)]
<1> DEFINE n == Len(list)
           more == Append(list, c)
           body == Turns(apply, list)
           other == Turns(apply, more)
<1>1. /\ n \in Nat /\ more \in Seq(C) /\ Len(more) = n + 1 /\ more[n + 1] = c
      /\ \A i \in 1 .. n : i \in 1 .. Len(more) /\ more[i] = list[i]
  OBVIOUS
<1> HIDE DEF more
<1>2. other[n + 1] = apply[c]
  BY <1>1 DEF Turns
<1>5. ASSUME NEW i \in 1 .. n, NEW s \in S
      PROVE  body[i][s] \in S /\ body[i][s] = other[i][s]
  <2>1. i \in 1 .. Len(list) /\ i \in 1 .. Len(more) /\ more[i] = list[i]
    BY <1>1
  <2>2. body[i] = apply[list[i]] /\ apply[list[i]][s] \in S
    BY <2>1, TurnsType
  <2>3. other[i] = apply[more[i]]
    BY <2>1 DEF Turns
  <2> QED
    BY <2>1, <2>2, <2>3
<1> HIDE DEF body, other, n
<1>6. SameOn(S, body, other, 0, n)
  BY <1>1, <1>5 DEF SameOn
<1>3. After(body, init, n) = After(other, init, n)
  BY <1>1, <1>6, SameTurns
<1>4. After(other, init, n + 1) = other[n + 1][After(other, init, n)]
  BY <1>1, AfterOneMore
<1> QED
  BY <1>1, <1>2, <1>3, <1>4 DEF AfterAll, body, other, more, n

(* The loop meets the head of the list first.                              *)
LEMMA AfterAllHead ==
  ASSUME NEW S, NEW C, NEW apply \in [C -> [S -> S]], NEW list \in Seq(C),
         NEW init \in S, list # <<>>
  PROVE  AfterAll(apply, apply[Head(list)][init], Tail(list)) = AfterAll(apply, init, list)
<1> DEFINE rest == Tail(list)
           n == Len(rest)
           body == Turns(apply, list)
           other == Turns(apply, rest)
<1>1. /\ n \in Nat /\ rest \in Seq(C) /\ Len(list) = n + 1 /\ Head(list) = list[1]
      /\ \A i \in 1 .. n : rest[i] = list[i + 1] /\ i + 1 \in 1 .. Len(list)
      /\ 1 \in 1 .. Len(list)
  OBVIOUS
<1> HIDE DEF rest
<1>2. body[1][init] \in S /\ body[1][init] = apply[Head(list)][init]
  BY <1>1, TurnsType
<1>3. ASSUME NEW i \in 1 .. n, NEW s \in S
      PROVE  other[i][s] \in S /\ other[i][s] = body[i + 1][s]
  <2>1. i + 1 \in 1 .. Len(list) /\ i \in 1 .. Len(rest) /\ rest[i] = list[i + 1]
    BY <1>1
  <2>2. other[i] = apply[rest[i]] /\ body[i + 1] = apply[list[i + 1]]
    BY <2>1 DEF Turns
  <2>3. apply[list[i + 1]][s] \in S
    BY <2>1
  <2> QED
    BY <2>1, <2>2, <2>3
<1> HIDE DEF body, other, n
<1>4. SameOn(S, other, body, 1, n)
  BY <1>1, <1>3 DEF SameOn
<1>5. After(body, init, n + 1) = After(other, body[1][init], n)
  <2>1. n \in Nat
    BY <1>1
  <2>2. body[1][init] \in S
    BY <1>2
  <2> QED
    BY <1>4, <2>1, <2>2, FirstTurn
<1> QED
  BY <1>1, <1>2, <1>5 DEF AfterAll, body, other, rest, n

(* A loop over no elements does nothing.                                   *)
LEMMA AfterAllNone ==
  ASSUME NEW apply, NEW init
  PROVE  AfterAll(apply, init, <<>>) = init
<1>1. Len(<<>>) = 0
  OBVIOUS
<1> QED
  BY <1>1, AfterNone DEF AfterAll

-----------------------------------------------------------------------------
(* Counting *)

Lists(f, D, n) ==
  /\ f \in [1 .. n -> D] /\ \A i, j \in 1 .. n : f[i] = f[j] => i = j
  /\ \A d \in D : \E i \in 1 .. n : f[i] = d

(* D has n elements.                                                       *)
Count(D, n) == n \in Nat /\ \E f : Lists(f, D, n)

(* The empty set has no elements.                                          *)
LEMMA CountNone == Count({}, 0)
<1>1. Lists([i \in 1 .. 0 |-> 0], {}, 0)
  BY DEF Lists
<1> QED
  BY <1>1 DEF Count

(* A new element counts one more.                                          *)
LEMMA CountOneMore ==
  ASSUME NEW D, NEW n, Count(D, n), NEW x, x \notin D
  PROVE  Count(D \cup {x}, n + 1)
<1>1. n \in Nat
  BY DEF Count
<1>2. PICK f : Lists(f, D, n)
  BY DEF Count
<1> DEFINE g == [i \in 1 .. n + 1 |-> IF i = n + 1 THEN x ELSE f[i]]
<1>3. \A i \in 1 .. n : f[i] \in D
  BY <1>2 DEF Lists
<1>4. /\ \A i \in 1 .. n : g[i] = f[i] /\ i \in 1 .. n + 1
      /\ g[n + 1] = x /\ n + 1 \in 1 .. n + 1
      /\ \A i \in 1 .. n + 1 : i # n + 1 => i \in 1 .. n
      /\ g \in [1 .. n + 1 -> D \cup {x}]
  BY <1>1, <1>3
<1> HIDE DEF g
<1>5. Lists(g, D \cup {x}, n + 1)
  BY <1>2, <1>3, <1>4 DEF Lists
<1> QED
  BY <1>1, <1>5 DEF Count

(* Without one of its elements a set has one less.                         *)
LEMMA CountOneLess ==
  ASSUME NEW D, NEW n, Count(D, n), NEW x \in D
  PROVE  n # 0 /\ Count(D \ {x}, n - 1)
<1>1. n \in Nat
  BY DEF Count
<1>2. PICK f : Lists(f, D, n)
  BY DEF Count
<1>3. PICK k \in 1 .. n : f[k] = x
  BY <1>2 DEF Lists
<1> DEFINE g == [i \in 1 .. n - 1 |-> IF i = k THEN f[n] ELSE f[i]]
<1>4. n # 0 /\ n - 1 \in Nat /\ n \in 1 .. n /\ \A i \in 1 .. n - 1 : i \in 1 .. n /\ i # n
  BY <1>1, <1>3
<1>5. /\ \A i \in 1 .. n : f[i] \in D
      /\ \A i, j \in 1 .. n : f[i] = f[j] => i = j
  BY <1>2 DEF Lists
<1>6. \A i \in 1 .. n - 1 : g[i] = IF i = k THEN f[n] ELSE f[i]
  OBVIOUS
<1>7. g \in [1 .. n - 1 -> D \ {x}]
  BY <1>3, <1>4, <1>5
<1> HIDE DEF g
<1>8. \A i, j \in 1 .. n - 1 : g[i] = g[j] => i = j
  BY <1>4, <1>5, <1>6
<1>9. ASSUME NEW d \in D \ {x}
      PROVE  \E i \in 1 .. n - 1 : g[i] = d
  <2>1. PICK i \in 1 .. n : f[i] = d
    BY <1>2 DEF Lists
  <2>2. i # k
    BY <1>3, <2>1
  <2>3. CASE i = n
    <3>1. k \in 1 .. n - 1
      BY <1>1, <2>2, <2>3
    <3> QED
      BY <1>6, <2>1, <2>3, <3>1
  <2>4. CASE i # n
    <3>1. i \in 1 .. n - 1
      BY <1>1, <2>4
    <3> QED
      BY <1>6, <2>1, <2>2, <3>1
  <2> QED
    BY <2>3, <2>4
<1>10. Lists(g, D \ {x}, n - 1)
  BY <1>7, <1>8, <1>9 DEF Lists
<1> QED
  BY <1>4, <1>10 DEF Count

(* A set has one number of elements.                                       *)
LEMMA CountUnique ==
  ASSUME NEW D, NEW n, NEW m, Count(D, n), Count(D, m)
  PROVE  n = m
<1> DEFINE F == {k \in 0 .. n : \A E, j : Count(E, k) /\ Count(E, j) => j = k}
<1>0. n \in Nat /\ m \in Nat
  BY DEF Count
<1>1. 0 \in F
  <2>1. ASSUME NEW E, NEW j, Count(E, 0), Count(E, j)
        PROVE  j = 0
    <3>1. E = {}
      BY <2>1, CountOneLess, Zenon
    <3> QED
      BY <2>1, <3>1 DEF Count, Lists
  <2> QED
    BY <1>0, <2>1
<1>2. ASSUME NEW k \in 0 .. n - 1, k \in F
      PROVE  k + 1 \in F
  <2>1. ASSUME NEW E, NEW j, Count(E, k + 1), Count(E, j)
        PROVE  j = k + 1
    <3>1. PICK x \in E : TRUE
      <4>1. PICK f : Lists(f, E, k + 1)
        BY <2>1 DEF Count
      <4>2. f[k + 1] \in E
        BY <4>1 DEF Lists
      <4> QED
        BY <4>2
    <3>2. Count(E \ {x}, (k + 1) - 1) /\ Count(E \ {x}, j - 1)
      BY <2>1, <3>1, CountOneLess
    <3>3. (k + 1) - 1 = k /\ j \in Nat
      BY <2>1 DEF Count
    <3>4. j - 1 = k
      BY <1>2, <3>2, <3>3
    <3> QED
      BY <3>3, <3>4
  <2> QED
    BY <1>0, <2>1
<1>3. 0 .. n \subseteq F
  <2> HIDE DEF F
  <2> QED
    BY <1>0, <1>1, <1>2, IntervalInduction
<1> QED
  BY <1>0, <1>3

-----------------------------------------------------------------------------
(* The port map: hmap_insert and the resizes it makes keep every port in   *)
(* the list of its bucket, for any port ids, any order of insertions and   *)
(* fewer than 2^17 nodes.                                                  *)

(* Numbers of nodes that BucketCount allows for.                           *)
Few(n) == n < 131072

(* There is at least one bucket.                                           *)
LEMMA BucketCountType ==
  ASSUME NEW n \in Nat, Few(n)
  PROVE  BucketCount(n) \in Nat \ {0}
<1>1. CASE n < 8
  BY <1>1, SMT DEF BucketCount
<1>2. CASE n >= 8
  <2> DEFINE B == {8, 16, 32, 64, 128, 256, 512, 1024, 2048, 4096, 8192,
                   16384, 32768, 65536}
  <2>1. \E b \in B : b <= n /\ n < 2 * b
    BY <1>2, SMT DEF Few
  <2>2. BucketCount(n) \in B
    BY <1>2, <2>1, SMT DEF BucketCount
  <2> QED
    BY <2>2, SMT
<1> QED
  BY <1>1, <1>2, SMT

(* Port ids are natural numbers.                                           *)
PortIds(S) == S \subseteq Nat

(* NULL is told from every port.                                           *)
LEMMA NullNoPort ==
  ASSUME NEW Port, PortIds(Port)
  PROVE  NULL \notin Port
BY DEF NULL, PortIds

(* A port id falls in a bucket of the array.                               *)
LEMMA BucketOf ==
  ASSUME NEW p \in Nat, NEW mask \in Nat
  PROVE  p % (mask + 1) \in 0 .. mask
OBVIOUS

(* hmap_insert_fast yields a map with as many buckets.                     *)
LEMMA FastType ==
  ASSUME NEW Port, PortIds(Port),
         NEW mask \in Nat, NEW m \in Maps(Port, mask), NEW p \in Port
  PROVE  hmap_insert_fast(m, p) \in Maps(Port, mask)
<1>1. p % (mask + 1) \in 0 .. mask
  BY BucketOf DEF PortIds
<1>2. /\ m.mask = mask /\ m.n \in Nat
      /\ m.head \in [0 .. mask -> Port \cup {NULL}]
      /\ m.next \in [Port -> Port \cup {NULL}]
  BY DEF Maps
<1> QED
  BY <1>1, <1>2 DEF Maps, hmap_insert_fast

(* A turn of hmap_resize's inner loop yields such a map as well.           *)
LEMMA WalkType ==
  ASSUME NEW Port, PortIds(Port), NEW mask \in Nat, NEW w \in Walks(Port, mask)
  PROVE  MoveNode(w) \in Walks(Port, mask)
<1>1. w.map \in Maps(Port, mask) /\ w.at \in Port \cup {NULL}
  BY DEF Walks
<1>2. ASSUME w.at # NULL
      PROVE  [at |-> w.map.next[w.at], map |-> hmap_insert_fast(w.map, w.at)]
               \in Walks(Port, mask)
  <2>1. hmap_insert_fast(w.map, w.at) \in Maps(Port, mask)
    BY <1>1, <1>2, FastType
  <2>2. w.map.next[w.at] \in Port \cup {NULL}
    BY <1>1, <1>2 DEF Maps
  <2> QED
    BY <2>1, <2>2 DEF Walks
<1> QED
  BY <1>2 DEF MoveNode

(* So does the whole walk of a list, cyclic or not.                        *)
LEMMA MoveListType ==
  ASSUME NEW Port, PortIds(Port),
         NEW mask \in Nat, NEW m \in Maps(Port, mask), NEW first \in Port \cup {NULL},
         NEW nodes \in Nat
  PROVE  MoveList(m, first, nodes) \in Maps(Port, mask)
<1> DEFINE n == 2 * nodes
           body == MoveTurns(Port, mask, n)
           init == [at |-> first, map |-> m]
           G == (0 .. n) \X Walks(Port, mask)
<1>0. n \in Nat
  OBVIOUS
<1>1. m.mask = mask /\ DOMAIN m.next = Port
  BY DEF Maps
<1>2. <<0, init>> \in G
  BY DEF Walks
<1>3. ASSUME NEW i \in 0 .. n - 1, NEW w, <<i, w>> \in G
      PROVE  <<i + 1, body[i + 1][w]>> \in G
  <2>1. w \in Walks(Port, mask) /\ i + 1 \in 1 .. n /\ i + 1 \in 0 .. n
    BY <1>3
  <2>2. body[i + 1][w] = MoveNode(w)
    BY <2>1 DEF MoveTurns
  <2>3. MoveNode(w) \in Walks(Port, mask)
    BY <2>1, WalkType
  <2> QED
    BY <2>1, <2>2, <2>3
<1>4. <<n, After(body, init, n)>> \in G
  <2> HIDE DEF body, init, n, G
  <2> QED
    BY <1>0, <1>2, <1>3, LoopInvariant, Zenon
<1>5. MoveList(m, first, nodes) = After(body, init, n).map
  BY <1>1 DEF MoveList
<1> HIDE DEF body, init
<1> QED
  BY <1>4, <1>5 DEF Walks

(* hmap_expand yields a map with the number of buckets for its nodes.      *)
LEMMA ExpandType ==
  ASSUME NEW Port, PortIds(Port),
         NEW old \in Nat, NEW m \in Maps(Port, old), Few(m.n)
  PROVE  /\ BucketCount(m.n) - 1 \in Nat
         /\ hmap_expand(m) \in Maps(Port, BucketCount(m.n) - 1)
<1> DEFINE mask == BucketCount(m.n) - 1
           empty == [head |-> Buckets(mask), next |-> m.next, mask |-> mask, n |-> 0]
           body == ListTurns(m, mask)
           G == (0 .. old + 1) \X Maps(Port, mask)
<1>1. /\ m.mask = old /\ m.n \in Nat
      /\ m.next \in [Port -> Port \cup {NULL}]
      /\ \A i \in 0 .. old : m.head[i] \in Port \cup {NULL}
  BY DEF Maps
<1>2. mask \in Nat
  <2>1. BucketCount(m.n) \in Nat \ {0}
    BY <1>1, BucketCountType
  <2> QED
    BY <2>1
<1> HIDE DEF mask
<1>3. <<0, empty>> \in G
  BY <1>1, <1>2 DEF Maps, Buckets
<1>4. ASSUME NEW i \in 0 .. old + 1 - 1, NEW t, <<i, t>> \in G
      PROVE  <<i + 1, body[i + 1][t]>> \in G
  <2>1. /\ t \in Maps(Port, mask) /\ i + 1 \in 1 .. old + 1 /\ i + 1 \in 0 .. old + 1
        /\ i + 1 - 1 = i /\ i \in 0 .. old
    BY <1>4
  <2>2. body[i + 1][t] = MoveList(t, m.head[i], m.n)
    BY <1>1, <2>1 DEF ListTurns
  <2> QED
    <3>1. MoveList(t, m.head[i], m.n) \in Maps(Port, mask)
      BY <1>1, <1>2, <2>1, MoveListType, Zenon
    <3> QED
      BY <2>1, <2>2, <3>1
<1>5. <<old + 1, After(body, empty, old + 1)>> \in G
  <2> HIDE DEF body, empty, G
  <2>1. old + 1 \in Nat
    OBVIOUS
  <2> QED
    BY <1>3, <1>4, <2>1, LoopInvariant
<1>6. hmap_expand(m) = After(body, empty, old + 1)
  BY <1>1 DEF hmap_expand, mask
<1> HIDE DEF body, empty
<1>7. hmap_expand(m) \in Maps(Port, mask)
  BY <1>5, <1>6
<1> QED
  BY <1>2, <1>7 DEF mask

(* A map of the ports.                                                     *)
IsMap(Port, m) == m.mask \in Nat /\ m \in Maps(Port, m.mask)

(* hmap_insert yields a map, even if the port is in it already.            *)
LEMMA InsertType ==
  ASSUME NEW Port, PortIds(Port),
         NEW m, IsMap(Port, m), NEW p \in Port, Few(m.n + 1)
  PROVE  IsMap(Port, hmap_insert(m, p))
<1> DEFINE one == hmap_insert_fast(m, p)
<1>1. one \in Maps(Port, m.mask) /\ m.n \in Nat
  BY FastType DEF IsMap, Maps
<1>2. one.mask = m.mask /\ one.n = m.n + 1
  BY DEF hmap_insert_fast
<1> HIDE DEF one
<1>3. Few(one.n)
  BY <1>2
<1>4. IsMap(Port, hmap_expand(one))
  <2>1. /\ BucketCount(one.n) - 1 \in Nat
        /\ hmap_expand(one) \in Maps(Port, BucketCount(one.n) - 1)
    BY <1>1, <1>3, ExpandType DEF IsMap
  <2> QED
    BY <2>1 DEF IsMap, Maps
<1>5. IsMap(Port, one)
  BY <1>1, <1>2 DEF IsMap
<1> QED
  BY <1>4, <1>5 DEF hmap_insert, one

(* A look-up yields a port or NULL.                                        *)
LEMMA FoundType ==
  ASSUME NEW Port, PortIds(Port), NEW m, IsMap(Port, m), NEW p \in Port
  PROVE  hmap_first_in_bucket(m, p) \in Port \cup {NULL}
<1>1. p % (m.mask + 1) \in 0 .. m.mask
  BY BucketOf, SMTT(30) DEF IsMap, PortIds
<1> QED
  BY <1>1 DEF hmap_first_in_bucket, IsMap, Maps

-----------------------------------------------------------------------------
(* The lists of the port map *)

Home(m, q) == q % (m.mask + 1)

(* The lists of m run through the ports D: pos is the number of nodes that *)
(* come after a node in its list.                                          *)
Chained(Port, m, D, pos) ==
  /\ pos \in [Port -> Nat] /\ \A q \in D : pos[q] < m.n
  /\ \A q \in D : pos[q] = 0 => m.next[q] = NULL
  /\ \A q \in D : pos[q] # 0 =>
       /\ m.next[q] \in D /\ Home(m, m.next[q]) = Home(m, q)
       /\ pos[m.next[q]] = pos[q] - 1
  /\ \A b \in 0 .. m.mask : m.head[b] = NULL => \A q \in D : Home(m, q) # b
  /\ \A b \in 0 .. m.mask : m.head[b] # NULL =>
       /\ m.head[b] \in D /\ Home(m, m.head[b]) = b
       /\ \A q \in D : Home(m, q) = b => pos[q] <= pos[m.head[b]]
  /\ \A q, r \in D : Home(m, q) = Home(m, r) /\ pos[q] = pos[r] => q = r

Holds(Port, m, D) ==
  /\ IsMap(Port, m) /\ D \in SUBSET Port /\ Count(D, m.n)
  /\ \E pos : Chained(Port, m, D, pos)

(* The bucket of a port is one of the map.                                 *)
LEMMA HomeType ==
  ASSUME NEW Port, PortIds(Port), NEW m, IsMap(Port, m), NEW q \in Port
  PROVE  Home(m, q) \in 0 .. m.mask
BY BucketOf, SMTT(30) DEF Home, IsMap, PortIds

(* What hmap_insert_fast writes, and what it leaves alone.                 *)
LEMMA FastFacts ==
  ASSUME NEW Port, PortIds(Port), NEW m, IsMap(Port, m), NEW p \in Port
  PROVE  LET one == hmap_insert_fast(m, p)
         IN  /\ IsMap(Port, one) /\ one.mask = m.mask /\ one.n = m.n + 1 /\ one.n \in Nat
             /\ one.next[p] = m.head[Home(m, p)] /\ one.head[Home(m, p)] = p
             /\ \A q \in Port \ {p} : one.next[q] = m.next[q]
             /\ \A b \in 0 .. m.mask : b # Home(m, p) => one.head[b] = m.head[b]
             /\ \A q : Home(one, q) = Home(m, q)
<1> DEFINE one == hmap_insert_fast(m, p)
           b == Home(m, p)
<1>1. one = [head |-> [m.head EXCEPT ![b] = p],
             next |-> [m.next EXCEPT ![p] = m.head[b]], mask |-> m.mask, n |-> m.n + 1]
  BY DEF hmap_insert_fast, Home
<1>2. b \in 0 .. m.mask
  BY HomeType
<1>3. /\ m.head \in [0 .. m.mask -> Port \cup {NULL}] /\ m.n \in Nat /\ m.mask \in Nat
      /\ m.next \in [Port -> Port \cup {NULL}]
  BY DEF IsMap, Maps
<1>4. one \in Maps(Port, m.mask)
  BY <1>3, FastType DEF IsMap
<1> HIDE DEF b
<1>5. /\ one.mask = m.mask /\ one.n = m.n + 1
      /\ one.head = [m.head EXCEPT ![b] = p] /\ one.next = [m.next EXCEPT ![p] = m.head[b]]
  BY <1>1
<1> HIDE DEF one
<1>6. /\ IsMap(Port, one) /\ one.n \in Nat /\ \A q : Home(one, q) = Home(m, q)
  BY <1>3, <1>4, <1>5 DEF IsMap, Home
<1>7. /\ one.next[p] = m.head[b] /\ one.head[b] = p
      /\ \A q \in Port \ {p} : one.next[q] = m.next[q]
      /\ \A c \in 0 .. m.mask : c # b => one.head[c] = m.head[c]
  BY <1>2, <1>3, <1>5
<1> QED
  BY <1>5, <1>6, <1>7 DEF one, b

(* hmap_insert_fast puts a new port in front of a list.                    *)
LEMMA FastHolds ==
  ASSUME NEW Port, PortIds(Port),
         NEW m, NEW D, Holds(Port, m, D), NEW p \in Port, p \notin D
  PROVE  Holds(Port, hmap_insert_fast(m, p), D \cup {p})
<1> DEFINE one == hmap_insert_fast(m, p)
           b == Home(m, p)
           first == m.head[b]
<1>0. IsMap(Port, m) /\ D \in SUBSET Port /\ Count(D, m.n)
  BY DEF Holds
<1>1. PICK pos : Chained(Port, m, D, pos)
  BY DEF Holds
<1> DEFINE new == [pos EXCEPT ![p] = IF first = NULL THEN 0 ELSE pos[first] + 1]
<1>2. /\ IsMap(Port, one) /\ one.mask = m.mask /\ one.n = m.n + 1 /\ one.n \in Nat
      /\ one.next[p] = first /\ one.head[b] = p
      /\ \A q \in Port \ {p} : one.next[q] = m.next[q]
      /\ \A c \in 0 .. m.mask : c # b => one.head[c] = m.head[c]
      /\ \A q : Home(one, q) = Home(m, q)
  BY <1>0, FastFacts
<1>3. b \in 0 .. m.mask /\ m.n \in Nat
  BY <1>0, HomeType DEF IsMap, Maps
<1>4. Count(D \cup {p}, m.n + 1)
  BY <1>0, CountOneMore
<1>5. pos \in [Port -> Nat] /\ \A q \in D : pos[q] \in Nat /\ pos[q] < m.n
  BY <1>0, <1>1 DEF Chained
<1>6. first # NULL => /\ first \in D /\ Home(m, first) = b
                     /\ \A q \in D : Home(m, q) = b => pos[q] <= pos[first]
  BY <1>1, <1>3 DEF Chained
<1>7. first = NULL => \A q \in D : Home(m, q) # b
  BY <1>1, <1>3 DEF Chained
<1> HIDE DEF one, b, first
<1>8. /\ new \in [Port -> Nat] /\ \A q \in D : new[q] = pos[q]
      /\ first = NULL => new[p] = 0
      /\ first # NULL => new[p] = pos[first] + 1
  BY <1>0, <1>5, <1>6
<1> HIDE DEF new
<1>9. Chained(Port, one, D \cup {p}, new)
  <2>1. \A q \in D \cup {p} : new[q] < one.n
    BY <1>2, <1>3, <1>5, <1>6, <1>8
  <2>2. \A q \in D \cup {p} : new[q] = 0 => one.next[q] = NULL
    <3>1. ASSUME NEW q \in D, new[q] = 0 PROVE one.next[q] = NULL
      BY <1>0, <1>1, <1>2, <1>8, <3>1 DEF Chained
    <3>2. ASSUME new[p] = 0 PROVE one.next[p] = NULL
      BY <1>2, <1>5, <1>6, <1>8, <3>2
    <3> QED
      BY <3>1, <3>2
  <2>3. ASSUME NEW q \in D \cup {p}, new[q] # 0
        PROVE  /\ one.next[q] \in D \cup {p} /\ Home(one, one.next[q]) = Home(one, q)
               /\ new[one.next[q]] = new[q] - 1
    <3>1. CASE q \in D
      <4>1. /\ m.next[q] \in D /\ Home(m, m.next[q]) = Home(m, q)
            /\ pos[m.next[q]] = pos[q] - 1
        BY <1>1, <1>8, <2>3, <3>1 DEF Chained
      <4>2. one.next[q] = m.next[q]
        BY <1>0, <1>2, <3>1
      <4> QED
        BY <1>2, <1>8, <3>1, <4>1, <4>2
    <3>2. CASE q = p
      <4>1. first # NULL
        BY <1>8, <2>3, <3>2
      <4> QED
        BY <1>2, <1>5, <1>6, <1>8, <3>2, <4>1 DEF b
    <3> QED
      BY <3>1, <3>2
  <2>4. ASSUME NEW c \in 0 .. one.mask, one.head[c] = NULL
        PROVE  \A q \in D \cup {p} : Home(one, q) # c
    <3>1. c # b /\ m.head[c] = NULL
      BY <1>2, <2>4, NullNoPort
    <3>2. \A q \in D : Home(m, q) # c
      BY <1>1, <1>2, <2>4, <3>1 DEF Chained
    <3> QED
      BY <1>2, <3>1, <3>2 DEF b
  <2>5. ASSUME NEW c \in 0 .. one.mask, one.head[c] # NULL
        PROVE  /\ one.head[c] \in D \cup {p} /\ Home(one, one.head[c]) = c
               /\ \A q \in D \cup {p} : Home(one, q) = c => new[q] <= new[one.head[c]]
    <3>1. CASE c = b
      <4>1. one.head[c] = p /\ Home(one, p) = b
        BY <1>2, <3>1 DEF b
      <4>2. ASSUME NEW q \in D, Home(m, q) = b PROVE new[q] <= new[p]
        BY <1>5, <1>6, <1>7, <1>8, <4>2
      <4>3. new[p] <= new[p]
        BY <1>8
      <4> QED
        BY <1>2, <3>1, <4>1, <4>2, <4>3
    <3>2. CASE c # b
      <4>1. one.head[c] = m.head[c] /\ m.head[c] # NULL /\ c \in 0 .. m.mask
        BY <1>2, <2>5, <3>2
      <4>2. /\ m.head[c] \in D /\ Home(m, m.head[c]) = c
            /\ \A q \in D : Home(m, q) = c => pos[q] <= pos[m.head[c]]
        BY <1>1, <4>1 DEF Chained
      <4> QED
        BY <1>2, <1>8, <3>2, <4>1, <4>2 DEF b
    <3> QED
      BY <3>1, <3>2
  <2>6. ASSUME NEW q \in D \cup {p}, NEW r \in D \cup {p},
               Home(one, q) = Home(one, r), new[q] = new[r]
        PROVE  q = r
    <3>1. ASSUME NEW x \in D, Home(m, x) = b PROVE new[x] # new[p]
      BY <1>5, <1>6, <1>7, <1>8, <3>1
    <3>2. CASE q \in D /\ r \in D
      BY <1>1, <1>2, <1>8, <2>6, <3>2 DEF Chained
    <3> QED
      BY <1>2, <2>6, <3>1, <3>2 DEF b
  <2> QED
    BY <1>8, <2>1, <2>2, <2>3, <2>4, <2>5, <2>6 DEF Chained
<1> QED
  BY <1>0, <1>2, <1>4, <1>9, Zenon DEF Holds, one

(* The ports in one list of m.                                             *)
List(m, D, b) == {q \in D : Home(m, q) = b}

(* What is left of the walk over a list of length len after i turns.       *)
Walking(Port, m, D, E, b, pos, len, i, w) ==
  LET moved == E \cup {q \in List(m, D, b) : pos[q] >= len - i}
  IN  /\ Holds(Port, w.map, moved)
      /\ \A q \in D \ moved : w.map.next[q] = m.next[q]
      /\ i >= len => w.at = NULL
      /\ i < len => w.at \in List(m, D, b) /\ pos[w.at] = len - i - 1

(* Every turn of hmap_resize's inner loop keeps to that description.       *)
LEMMA WalkStep ==
  ASSUME NEW Port, PortIds(Port),
         NEW m, IsMap(Port, m), NEW D \in SUBSET Port, NEW pos, Chained(Port, m, D, pos),
         NEW b \in 0 .. m.mask, NEW E \in SUBSET Port, \A q \in E : Home(m, q) # b,
         NEW len \in Nat, NEW i \in Nat, NEW w, Walking(Port, m, D, E, b, pos, len, i, w)
  PROVE  Walking(Port, m, D, E, b, pos, len, i + 1, MoveNode(w))
<1> DEFINE L == List(m, D, b)
           Moved(k) == E \cup {q \in L : pos[q] >= len - k}
<1>0. L \subseteq D /\ \A q \in L : Home(m, q) = b
  BY DEF List
<1>1. /\ pos \in [Port -> Nat] /\ \A q \in D : pos[q] \in Nat
      /\ \A q \in L : pos[q] = 0 => m.next[q] = NULL
      /\ \A q \in L : pos[q] # 0 => m.next[q] \in L /\ pos[m.next[q]] = pos[q] - 1
      /\ \A q, r \in L : pos[q] = pos[r] => q = r
  BY DEF Chained, List
<1>2. /\ Holds(Port, w.map, Moved(i))
      /\ \A q \in D \ Moved(i) : w.map.next[q] = m.next[q]
      /\ i >= len => w.at = NULL
      /\ i < len => w.at \in L /\ pos[w.at] = len - i - 1
  BY DEF Walking
<1> HIDE DEF L
<1>3. CASE i >= len
  <2>1. MoveNode(w) = w
    BY <1>2, <1>3 DEF MoveNode
  <2>2. Moved(i + 1) = Moved(i)
    BY <1>0, <1>1, <1>3
  <2>3. i + 1 >= len /\ ~(i + 1 < len)
    BY <1>3
  <2> HIDE DEF Moved
  <2>4. /\ Holds(Port, w.map, Moved(i + 1))
        /\ \A q \in D \ Moved(i + 1) : w.map.next[q] = m.next[q]
        /\ w.at = NULL
    BY <1>2, <1>3, <2>2
  <2> QED
    BY <2>1, <2>3, <2>4 DEF Walking, Moved, L
<1>4. CASE i < len
  <2> DEFINE a == w.at
             one == hmap_insert_fast(w.map, a)
  <2>1. /\ a \in L /\ a \in D /\ a \in Port /\ a # NULL /\ pos[a] = len - i - 1
    BY <1>0, <1>2, <1>4, NullNoPort, Zenon
  <2>2. a \notin Moved(i) /\ Moved(i + 1) = Moved(i) \cup {a}
    <3>1. a \notin E
      BY <1>0, <2>1
    <3>2. a \notin Moved(i)
      BY <2>1, <3>1
    <3>3. ASSUME NEW q \in L PROVE pos[q] >= len - (i + 1) <=> pos[q] >= len - i \/ q = a
      <4>1. pos[q] \in Nat /\ (pos[q] = pos[a] => q = a)
        BY <1>0, <1>1, <2>1, <3>3
      <4> QED
        BY <2>1, <4>1
    <3> QED
      BY <2>1, <3>2, <3>3
  <2>3. MoveNode(w) = [at |-> w.map.next[a], map |-> one]
    BY <2>1 DEF MoveNode
  <2>4. w.map.next[a] = m.next[a]
    BY <1>2, <2>1, <2>2
  <2>5. IsMap(Port, w.map)
    BY <1>2 DEF Holds
  <2> HIDE DEF Moved
  <2>6. Holds(Port, one, Moved(i + 1))
    BY <1>2, <2>1, <2>2, FastHolds
  <2>7. \A q \in D \ Moved(i + 1) : one.next[q] = m.next[q]
    <3>1. \A q \in Port \ {a} : one.next[q] = w.map.next[q]
      BY <2>1, <2>5, FastFacts
    <3> QED
      BY <1>2, <2>2, <3>1
  <2>8. i + 1 >= len => m.next[a] = NULL
    BY <1>1, <1>4, <2>1
  <2>9. i + 1 < len => m.next[a] \in L /\ pos[m.next[a]] = len - (i + 1) - 1
    BY <1>1, <1>4, <2>1
  <2> HIDE DEF one, a
  <2>10. MoveNode(w).map = one /\ MoveNode(w).at = m.next[a]
    BY <2>3, <2>4
  <2> QED
    BY <2>6, <2>7, <2>8, <2>9, <2>10 DEF Walking, Moved, L
<1> QED
  BY <1>3, <1>4

(* The nodes of S have the links in t that they have in m.                 *)
SameLinks(m, t, S) == \A q \in S : t.next[q] = m.next[q]
Elsewhere(m, E, b) == \A q \in E : Home(m, q) # b

(* hmap_resize moves the whole of a list.                                  *)
LEMMA MoveHolds ==
  ASSUME NEW Port, PortIds(Port),
         NEW m, IsMap(Port, m), NEW D \in SUBSET Port, NEW pos, Chained(Port, m, D, pos),
         NEW b \in 0 .. m.mask, NEW E \in SUBSET Port, Elsewhere(m, E, b),
         NEW mask \in Nat, NEW t \in Maps(Port, mask), Holds(Port, t, E),
         SameLinks(m, t, D \ E)
  PROVE  LET r == MoveList(t, m.head[b], m.n)
         IN  /\ r \in Maps(Port, mask) /\ Holds(Port, r, E \cup List(m, D, b))
             /\ SameLinks(m, r, D \ (E \cup List(m, D, b)))
<1> DEFINE L == List(m, D, b)
           first == m.head[b]
           len == IF first = NULL THEN 0 ELSE pos[first] + 1
           n == 2 * m.n
           body == MoveTurns(Port, mask, n)
           init == [at |-> first, map |-> t]
           Inv(i, w) == Walking(Port, m, D, E, b, pos, len, i, w)
           G == {g \in (0 .. n) \X Walks(Port, mask) : Inv(g[1], g[2])}
<1>0. /\ L \subseteq D /\ \A q \in L : Home(m, q) = b
      /\ \A q \in D : Home(m, q) = b => q \in L
  BY DEF List
<1>1. /\ m.n \in Nat /\ n \in Nat /\ first \in Port \cup {NULL}
      /\ t.mask = mask /\ DOMAIN t.next = Port
  BY DEF IsMap, Maps
<1>2. /\ first = NULL => L = {}
      /\ first # NULL => /\ first \in L /\ pos[first] \in Nat /\ pos[first] < m.n
                         /\ \A q \in L : pos[q] \in Nat /\ pos[q] <= pos[first]
  <2>1. /\ pos \in [Port -> Nat] /\ \A q \in D : pos[q] < m.n
        /\ first = NULL => \A q \in D : Home(m, q) # b
        /\ first # NULL => /\ first \in D /\ Home(m, first) = b
                           /\ \A q \in D : Home(m, q) = b => pos[q] <= pos[first]
    BY DEF Chained
  <2> HIDE DEF L, first
  <2> QED
    BY <1>0, <2>1
<1> HIDE DEF L, first
<1>3. len \in Nat /\ len <= n /\ \A q \in L : pos[q] \in Nat /\ pos[q] < len
  BY <1>1, <1>2
<1>4. \A i, w : <<i, w>> \in G <=> i \in 0 .. n /\ w \in Walks(Port, mask) /\ Inv(i, w)
  <2> HIDE DEF Inv, n
  <2> QED
    OBVIOUS
<1>5. <<0, init>> \in G
  <2>1. init \in Walks(Port, mask) /\ 0 \in 0 .. n
    BY <1>1 DEF Walks
  <2>2. E \cup {q \in L : pos[q] >= len - 0} = E
    BY <1>3
  <2>3. /\ 0 >= len => first = NULL
        /\ 0 < len => first \in L /\ pos[first] = len - 0 - 1
    BY <1>2
  <2>4. init.at = first /\ init.map = t
    OBVIOUS
  <2> HIDE DEF len, init
  <2>5. Inv(0, init)
    BY <2>2, <2>3, <2>4, Zenon DEF Walking, L, SameLinks
  <2> HIDE DEF Inv, G
  <2> QED
    BY <1>4, <2>1, <2>5
<1>6. ASSUME NEW i \in 0 .. n - 1, NEW w, <<i, w>> \in G
      PROVE  <<i + 1, body[i + 1][w]>> \in G
  <2>1. w \in Walks(Port, mask) /\ Inv(i, w)
    <3> HIDE DEF G, Inv
    <3> QED
      BY <1>4, <1>6
  <2>2. i + 1 \in 1 .. n /\ i + 1 \in 0 .. n /\ i \in Nat
    BY <1>1
  <2> HIDE DEF G, len, n
  <2>3. body[i + 1][w] = MoveNode(w)
    BY <2>1, <2>2 DEF MoveTurns
  <2>4. Inv(i + 1, MoveNode(w))
    BY <1>3, <2>1, <2>2, WalkStep DEF Elsewhere
  <2>5. MoveNode(w) \in Walks(Port, mask)
    BY <2>1, WalkType
  <2> HIDE DEF Inv, body
  <2> QED
    BY <1>4, <2>2, <2>3, <2>4, <2>5
<1>7. <<n, After(body, init, n)>> \in G
  <2> HIDE DEF body, init, n, G
  <2> QED
    BY <1>1, <1>5, <1>6, LoopInvariant, Zenon
<1> DEFINE r == After(body, init, n)
<1>8. MoveList(t, first, m.n) = r.map
  BY <1>1 DEF MoveList
<1>9. r \in Walks(Port, mask) /\ Inv(n, r)
  <2> HIDE DEF G, Inv, r
  <2> QED
    BY <1>4, <1>7 DEF r
<1>10. E \cup {q \in L : pos[q] >= len - n} = E \cup L
  <2> HIDE DEF len, n
  <2> QED
    BY <1>1, <1>3
<1> HIDE DEF r, n, len
<1>11. /\ Holds(Port, r.map, E \cup L)
       /\ \A q \in D \ (E \cup L) : r.map.next[q] = m.next[q]
  BY <1>9, <1>10, Zenon DEF Walking, L
<1>12. r.map \in Maps(Port, mask)
  BY <1>9 DEF Walks
<1> QED
  BY <1>8, <1>11, <1>12 DEF L, first, SameLinks

(* A map of empty buckets holds no port.                                   *)
LEMMA EmptyHolds ==
  ASSUME NEW Port, PortIds(Port),
         NEW m, IsMap(Port, m), m.n = 0, m.head = Buckets(m.mask)
  PROVE  Holds(Port, m, {})
<1>1. Chained(Port, m, {}, [p \in Port |-> 0])
  BY DEF Chained, Buckets
<1> QED
  BY <1>1, CountNone DEF Holds

(* hmap_resize loses no port, whatever the new number of buckets.          *)
LEMMA ExpandHolds ==
  ASSUME NEW Port, PortIds(Port), NEW m, NEW D, Holds(Port, m, D), Few(m.n)
  PROVE  Holds(Port, hmap_expand(m), D) /\ hmap_expand(m).mask + 1 = BucketCount(m.n)
<1> DEFINE mask == BucketCount(m.n) - 1
           old == m.mask
           empty == [head |-> Buckets(mask), next |-> m.next, mask |-> mask, n |-> 0]
           body == ListTurns(m, mask)
           In(i) == {q \in D : Home(m, q) < i}
           Inv(i, t) == /\ Holds(Port, t, In(i))
                        /\ SameLinks(m, t, D \ In(i))
           G == {g \in (0 .. old + 1) \X Maps(Port, mask) : Inv(g[1], g[2])}
<1>0. IsMap(Port, m) /\ D \in SUBSET Port
  BY DEF Holds
<1>1. PICK pos : Chained(Port, m, D, pos)
  BY DEF Holds
<1>2. /\ old \in Nat /\ m \in Maps(Port, old) /\ m.n \in Nat
      /\ m.next \in [Port -> Port \cup {NULL}]
  BY <1>0 DEF IsMap, Maps
<1>3. mask \in Nat /\ hmap_expand(m) \in Maps(Port, mask)
  BY <1>2, ExpandType
<1>4. BucketCount(m.n) = mask + 1
  <2>1. BucketCount(m.n) \in Nat \ {0}
    BY <1>2, BucketCountType
  <2> QED
    BY <2>1
<1> HIDE DEF mask
<1>5. \A q \in D : Home(m, q) \in 0 .. old
  BY <1>0, HomeType
<1>6. \A i, t : <<i, t>> \in G <=> i \in 0 .. old + 1 /\ t \in Maps(Port, mask) /\ Inv(i, t)
  <2> HIDE DEF Inv
  <2> QED
    OBVIOUS
<1>7. <<0, empty>> \in G
  <2>1. empty \in Maps(Port, mask) /\ 0 \in 0 .. old + 1
    BY <1>2, <1>3 DEF Maps, Buckets
  <2>2. In(0) = {}
    BY <1>5
  <2>3. /\ empty.mask = mask /\ empty.n = 0 /\ empty.head = Buckets(mask)
        /\ empty.next = m.next
    OBVIOUS
  <2> HIDE DEF empty, In
  <2>4. Holds(Port, empty, {})
    BY <1>3, <2>1, <2>3, EmptyHolds DEF IsMap
  <2>5. Inv(0, empty)
    BY <2>2, <2>3, <2>4 DEF SameLinks
  <2> HIDE DEF Inv, G
  <2> QED
    BY <1>6, <2>1, <2>5
<1>8. ASSUME NEW i \in 0 .. old + 1 - 1, NEW t, <<i, t>> \in G
      PROVE  <<i + 1, body[i + 1][t]>> \in G
  <2>1. t \in Maps(Port, mask) /\ Inv(i, t)
    <3> HIDE DEF G, Inv
    <3> QED
      BY <1>6, <1>8
  <2>2. i + 1 \in 1 .. old + 1 /\ i + 1 \in 0 .. old + 1 /\ i + 1 - 1 = i /\ i \in 0 .. old
    BY <1>2
  <2>3. body[i + 1][t] = MoveList(t, m.head[i], m.n)
    BY <1>2, <2>1, <2>2 DEF ListTurns
  <2>4. In(i) \in SUBSET Port /\ Elsewhere(m, In(i), i)
    BY <1>0, <1>5, <2>2 DEF Elsewhere
  <2>5. In(i) \cup List(m, D, i) = In(i + 1)
    BY <1>5, <2>2 DEF List
  <2> HIDE DEF G, In, body
  <2> DEFINE r == MoveList(t, m.head[i], m.n)
  <2>6. /\ r \in Maps(Port, mask) /\ Holds(Port, r, In(i + 1))
        /\ SameLinks(m, r, D \ In(i + 1))
    <3>1. /\ r \in Maps(Port, mask) /\ Holds(Port, r, In(i) \cup List(m, D, i))
          /\ SameLinks(m, r, D \ (In(i) \cup List(m, D, i)))
      <4>1. Holds(Port, t, In(i)) /\ SameLinks(m, t, D \ In(i))
        BY <2>1
      <4>2. i \in 0 .. m.mask
        BY <2>2
      <4> HIDE DEF Inv, old
      <4> QED
        BY <1>0, <1>1, <1>3, <2>1, <2>4, <4>1, <4>2, MoveHolds, Zenon
    <3> QED
      BY <2>5, <3>1, SMTT(30)
  <2> QED
    BY <1>6, <2>2, <2>3, <2>6
<1>9. <<old + 1, After(body, empty, old + 1)>> \in G
  <2> DEFINE turns == old + 1
  <2>1. turns \in Nat
    BY <1>2
  <2> HIDE DEF body, empty, G
  <2>2. \A i \in 0 .. turns - 1 : \A t :
          <<i, t>> \in G => <<i + 1, body[i + 1][t]>> \in G
    BY <1>2, <1>8
  <2> HIDE DEF turns
  <2>3. <<turns, After(body, empty, turns)>> \in G
    BY <1>7, <2>1, <2>2, LoopInvariant
  <2> QED
    BY <2>3 DEF turns
<1>10. hmap_expand(m) = After(body, empty, old + 1)
  BY <1>2 DEF hmap_expand, mask
<1>11. Inv(old + 1, hmap_expand(m))
  <2> HIDE DEF body, empty, G, Inv
  <2> QED
    BY <1>6, <1>9, <1>10
<1>12. In(old + 1) = D
  BY <1>2, <1>5
<1>13. Holds(Port, hmap_expand(m), D)
  <2> HIDE DEF In
  <2> QED
    BY <1>11, <1>12
<1>14. hmap_expand(m).mask = mask
  BY <1>3 DEF Maps
<1> QED
  BY <1>4, <1>13, <1>14

Powers == {8, 16, 32, 64, 128, 256, 512, 1024, 2048, 4096, 8192, 16384, 32768, 65536}
Between(b, n) == b <= n /\ n < 2 * b

(* From eight nodes on the number of buckets is the power of two between   *)
(* half the number of nodes, exclusive, and that number.                   *)
LEMMA LargeCount ==
  ASSUME NEW n \in Nat, Few(n), n >= 8
  PROVE  BucketCount(n) \in Powers /\ Between(BucketCount(n), n)
<1>1. \E b \in Powers : Between(b, n)
  BY SMT DEF Few, Powers, Between
<1>2. BucketCount(n) = CHOOSE b \in Powers : Between(b, n)
  BY SMT DEF BucketCount, Powers, Between
<1> QED
  BY <1>1, <1>2

(* hmap_insert resizes the map when, and only when, BucketCount says so.   *)
LEMMA SameBuckets ==
  ASSUME NEW n \in Nat, Few(n + 1), ~((n + 1) \div 2 > BucketCount(n) - 1)
  PROVE  BucketCount(n + 1) = BucketCount(n)
<1>1. CASE n < 8
  BY <1>1, SMT DEF BucketCount
<1>2. CASE n >= 8
  <2> DEFINE b == BucketCount(n)
             c == BucketCount(n + 1)
  <2>1. Few(n)
    BY SMT DEF Few
  <2>2. b \in Powers /\ b <= n /\ n < 2 * b
    BY <1>2, <2>1, LargeCount, SMT DEF Between
  <2>3. c \in Powers /\ c <= n + 1 /\ n + 1 < 2 * c
    <3>1. n + 1 \in Nat /\ n + 1 >= 8
      BY <1>2, SMT
    <3> QED
      BY <3>1, LargeCount, SMT DEF Between
  <2>4. ~((n + 1) \div 2 > b - 1)
    OBVIOUS
  <2> HIDE DEF b, c
  <2>5. b \in Nat
    BY <2>2, SMT DEF Powers
  <2>6. n + 1 < 2 * b
    BY <2>2, <2>4, <2>5, SMT
  <2>7. b = c
    BY <2>2, <2>3, <2>6, SMT DEF Powers
  <2> QED
    BY <2>7 DEF b, c
<1> QED
  BY <1>1, <1>2, SMT

(* As many buckets as PortMap says.                                        *)
Sized(m) == m.mask + 1 = BucketCount(m.n)

(* hmap_insert of a new port: the map holds it and what it held, each port *)
(* once and in the list of its bucket, with the number of buckets that     *)
(* PortMap has.                                                            *)
THEOREM InsertHolds ==
  ASSUME NEW Port, PortIds(Port),
         NEW m, NEW D, Holds(Port, m, D), Sized(m), NEW p \in Port, p \notin D,
         Few(m.n + 1)
  PROVE  LET r == hmap_insert(m, p) IN Holds(Port, r, D \cup {p}) /\ Sized(r)
<1> DEFINE one == hmap_insert_fast(m, p)
<1>1. IsMap(Port, m) /\ m.n \in Nat /\ m.mask \in Nat
  BY DEF Holds, IsMap, Maps
<1>2. /\ IsMap(Port, one) /\ one.mask = m.mask /\ one.n = m.n + 1 /\ one.n \in Nat
  BY <1>1, FastFacts
<1>3. Holds(Port, one, D \cup {p})
  BY FastHolds
<1> HIDE DEF one
<1>4. CASE one.n \div 2 > one.mask
  <2>1. /\ Holds(Port, hmap_expand(one), D \cup {p})
        /\ hmap_expand(one).mask + 1 = BucketCount(one.n)
    BY <1>2, <1>3, ExpandHolds
  <2>2. hmap_expand(one).n = one.n
    BY <1>3, <2>1, CountUnique DEF Holds
  <2> QED
    BY <1>4, <2>1, <2>2 DEF hmap_insert, one, Sized
<1>5. CASE ~(one.n \div 2 > one.mask)
  <2>1. m.mask = BucketCount(m.n) - 1
    BY <1>1 DEF Sized
  <2>2. BucketCount(m.n + 1) = BucketCount(m.n)
    BY <1>1, <1>2, <1>5, <2>1, SameBuckets
  <2> QED
    BY <1>2, <1>3, <1>5, <2>2 DEF hmap_insert, one, Sized
<1> QED
  BY <1>4, <1>5

(* ops_fpa_get_ofport_by_pid finds a port of the bucket if there is one.   *)
THEOREM Finds ==
  ASSUME NEW Port, PortIds(Port),
         NEW m, NEW D, Holds(Port, m, D), NEW pid \in Nat
  PROVE  LET f == hmap_first_in_bucket(m, pid)
         IN  /\ f # NULL => f \in D /\ Home(m, f) = Home(m, pid)
             /\ f = NULL => \A q \in D : Home(m, q) # Home(m, pid)
<1>1. PICK pos : Chained(Port, m, D, pos)
  BY DEF Holds
<1>2. Home(m, pid) \in 0 .. m.mask
  BY BucketOf, SMTT(30) DEF Holds, IsMap, Home
<1>3. hmap_first_in_bucket(m, pid) = m.head[Home(m, pid)]
  BY DEF hmap_first_in_bucket, Home
<1> HIDE DEF Home
<1> QED
  BY <1>1, <1>2, <1>3 DEF Chained

=============================================================================
