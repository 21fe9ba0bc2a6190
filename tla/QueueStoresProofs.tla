-------------------------- MODULE QueueStoresProofs -------------------------
(***************************************************************************)
(* For every size of the queue, every number of identifiers, messages and  *)
(* crashes: however publishers, reads, acknowledgements, reconnects and    *)
(* the clock interleave, the cursor splits the list of a session's queue   *)
(* into the inflight messages and the others, no two messages carry one    *)
(* identifier, the messages stay in the order of their arrival, and Add    *)
(* drops a live QoS 1 or 2 message only as a last resort.  In memory the   *)
(* list stays within the bound; in redis the Queue object agrees with the  *)
(* list, and a crash in the middle of Add or Read loses no message.        *)
(*                                                                         *)
(* The invariant is about a list, a cursor, the drained flag and the       *)
(* number of messages added (WellFormed); every operation is made of       *)
(* taking an element out, appending a new one, changing fields that the    *)
(* invariant does not name, and, for Read, giving identifiers to some of   *)
(* the elements behind the cursor and taking others out.                   *)
(***************************************************************************)
EXTENDS QueueStores, Integers, FiniteSetTheorems, TLAPS

WellFormed(s, c, drained, n) ==
  /\ s \in Seq(Elem) /\ c \in 1 .. (Len(s) + 1)
  /\ \A i \in 1 .. (c - 1) : s[i].id # 0
  /\ \A i, j \in 1 .. Len(s) : i < j /\ s[j].id # 0 => s[i].id # 0
  /\ drained => \A i \in c .. Len(s) : s[i].id = 0
  /\ \A i \in 1 .. Len(s) : s[i].kind = "pubrel" => s[i].id # 0
  /\ \A i, j \in 1 .. Len(s) : s[i].id # 0 /\ i # j => s[i].id # s[j].id
  /\ \A i, j \in 1 .. Len(s) : i < j => s[i].msg < s[j].msg
  /\ \A i \in 1 .. Len(s) : s[i].msg <= n

QueueInv ==
  /\ WellFormed(l, current, inflightDrained, added)
  /\ inflightDrained \in BOOLEAN /\ closed \in BOOLEAN
  /\ added \in 0 .. MaxMsgs /\ dropped \subseteq 1 .. MaxMsgs

Inv == QueueInv /\ QueueBounded

-----------------------------------------------------------------------------
(* Sets of positions.                                                       *)

\* How many positions of S there are up to i.
Rank(S, i) == Cardinality({j \in S : j <= i})

\* Ranks grow along the set, from 1 to its cardinality.
LEMMA Ranks ==
  ASSUME NEW n \in Nat, NEW S \in SUBSET (1 .. n)
  PROVE  /\ IsFiniteSet(S) /\ Cardinality(S) \in Nat /\ Cardinality(S) <= n
         /\ \A i \in S : Rank(S, i) \in 1 .. Cardinality(S)
         /\ \A i, j \in S : i < j => Rank(S, i) < Rank(S, j)
         /\ \A k \in 1 .. Cardinality(S) : \E i \in S : Rank(S, i) = k
<1> DEFINE Upto(i) == {j \in S : j <= i}
<1>1. IsFiniteSet(1 .. n) /\ Cardinality(1 .. n) = n
  BY FS_Interval
<1>2. IsFiniteSet(S) /\ Cardinality(S) <= Cardinality(1 .. n)
  BY <1>1, FS_Subset, Zenon
<1>3. Cardinality(S) \in Nat /\ Cardinality(S) <= n
  BY <1>1, <1>2, FS_CardinalityType
<1>4. \A i \in S : Upto(i) \in SUBSET S /\ i \in Upto(i)
  OBVIOUS
<1>5. \A i \in S : /\ IsFiniteSet(Upto(i)) /\ Cardinality(Upto(i)) \in Nat
                   /\ Cardinality(Upto(i)) <= Cardinality(S)
  BY <1>2, <1>4, FS_Subset, FS_CardinalityType, Zenon
<1>6. \A i \in S : Cardinality(Upto(i)) # 0
  BY <1>4, <1>5, FS_EmptySet, Zenon
<1>7. \A i \in S : Rank(S, i) \in 1 .. Cardinality(S)
  <2>1. \A i \in S : Cardinality(Upto(i)) \in 1 .. Cardinality(S)
    <3> HIDE DEF Upto
    <3> QED BY <1>3, <1>5, <1>6
  <2> QED BY <2>1 DEF Rank
<1>8. ASSUME NEW i \in S, NEW j \in S, i < j PROVE Rank(S, i) < Rank(S, j)
  <2>1. Upto(i) \in SUBSET Upto(j)
    <3>1. \A x \in S : x \in Int
      OBVIOUS
    <3>2. \A x \in S : x <= i => x <= j
      BY <1>8, <3>1
    <3> QED BY <3>2
  <2>2. j \in Upto(j) /\ j \notin Upto(i)
    BY <1>8
  <2> HIDE DEF Upto
  <2>3. Upto(j) # Upto(i)
    BY <2>2
  <2>4. Cardinality(Upto(i)) <= Cardinality(Upto(j)) /\ Cardinality(Upto(j)) # Cardinality(Upto(i))
    BY <1>5, <2>1, <2>3, FS_Subset, Zenon
  <2>5. Cardinality(Upto(i)) \in Nat /\ Cardinality(Upto(j)) \in Nat
    BY <1>5
  <2>6. Rank(S, i) = Cardinality(Upto(i)) /\ Rank(S, j) = Cardinality(Upto(j))
    BY DEF Rank, Upto
  <2> QED BY <2>4, <2>5, <2>6
<1>9. \A k \in 1 .. Cardinality(S) : \E i \in S : Rank(S, i) = k
  <2> DEFINE T == 1 .. Cardinality(S)
  <2> DEFINE f == [i \in S |-> Rank(S, i)]
  <2>1. IsFiniteSet(T) /\ Cardinality(T) = Cardinality(S)
    BY <1>3, FS_Interval
  <2>2. \A i, j \in S : Rank(S, i) = Rank(S, j) => i = j
    <3> SUFFICES ASSUME NEW i \in S, NEW j \in S, i # j PROVE Rank(S, i) # Rank(S, j)
      OBVIOUS
    <3>1. Rank(S, i) \in Int /\ Rank(S, j) \in Int /\ (i < j \/ j < i)
      BY <1>7
    <3> QED BY <1>8, <3>1
  <2>3. f \in [S -> T]
    BY <1>7
  <2>4. f \in Injection(S, T)
    BY <2>2, <2>3 DEF Injection, IsInjective
  <2> HIDE DEF T
  <2>5. f \in Surjection(S, T)
    BY <2>1, <2>4, FS_Injection, Zenon
  <2>6. \A k \in T : \E i \in S : f[i] = k
    BY <2>5, Zenon DEF Surjection
  <2> QED BY <2>6 DEF T
<1> QED BY <1>2, <1>3, <1>7, <1>8, <1>9

\* A set of positions that is not empty has a first one.
LEMMA FirstOf ==
  ASSUME NEW n \in Nat, NEW S \in SUBSET (1 .. n), S # {}
  PROVE  Min(S) \in S /\ \A y \in S : Min(S) <= y
<1>1. Cardinality(S) \in Nat /\ Cardinality(S) # 0
  BY Ranks, FS_EmptySet, Zenon
<1>2. 1 \in 1 .. Cardinality(S)
  BY <1>1
<1>3. PICK i \in S : Rank(S, i) = 1
  BY <1>2, Ranks, Zenon
<1>4. \A y \in S : i <= y
  <2> SUFFICES ASSUME NEW y \in S, y < i PROVE FALSE
    OBVIOUS
  <2>1. Rank(S, y) < Rank(S, i) /\ Rank(S, y) \in 1 .. Cardinality(S)
    BY Ranks, Zenon
  <2> QED BY <1>1, <1>3, <2>1
<1>5. \E x \in S : \A y \in S : x <= y
  BY <1>4
<1> QED BY <1>5 DEF Min

\* at goes through the c positions of S in their order.
Enumerates(at, S, c) ==
  /\ at \in [1 .. c -> S]
  /\ \A j, k \in 1 .. c : j < k => at[j] < at[k]
  /\ \A i \in S : \E k \in 1 .. c : at[k] = i

\* InOrder is what its name says.
LEMMA Ordered ==
  ASSUME NEW n \in Nat, NEW S \in SUBSET (1 .. n)
  PROVE  Enumerates(InOrder(S), S, Cardinality(S))
<1> DEFINE T == 1 .. Cardinality(S)
<1> DEFINE at == [k \in T |-> CHOOSE i \in S : Rank(S, i) = k]
<1>1. \A k \in T : at[k] \in S /\ Rank(S, at[k]) = k
  BY Ranks
<1>2. ASSUME NEW j \in T, NEW k \in T, j < k PROVE at[j] < at[k]
  <2>1. at[j] \in S /\ at[k] \in S /\ Rank(S, at[j]) = j /\ Rank(S, at[k]) = k
    BY <1>1
  <2> HIDE DEF at
  <2>2. PICK x \in S, y \in S : x = at[j] /\ y = at[k] /\ Rank(S, x) = j /\ Rank(S, y) = k
    BY <2>1
  <2>3. j \in Int /\ k \in Int /\ x \in Int /\ y \in Int
    BY Ranks
  <2>4. x # y /\ ~(y < x)
    <3>1. y < x => Rank(S, y) < Rank(S, x)
      BY Ranks, Zenon
    <3> QED BY <1>2, <2>2, <2>3, <3>1
  <2> QED BY <2>2, <2>3, <2>4
<1>3. at \in [T -> S] /\ \A j, k \in T : j < k => at[j] < at[k]
  <2>1. at \in [T -> S]
    BY <1>1
  <2> QED BY <1>2, <2>1
<1> HIDE DEF at
<1>4. \E f \in [T -> S] : \A j, k \in T : j < k => f[j] < f[k]
  BY <1>3
<1>5. PICK f : f = InOrder(S)
  OBVIOUS
<1>6. f \in [T -> S] /\ \A j, k \in T : j < k => f[j] < f[k]
  BY <1>4, <1>5 DEF InOrder
<1>7. Cardinality(S) \in Nat /\ IsFiniteSet(S)
  BY Ranks
<1>8. \A j, k \in T : f[j] = f[k] => j = k
  <2> SUFFICES ASSUME NEW j \in T, NEW k \in T, j # k PROVE f[j] # f[k]
    OBVIOUS
  <2>0. f[j] \in S /\ f[k] \in S
    BY <1>6
  <2>1. f[j] \in Int /\ f[k] \in Int
    <3>1. \A x \in S : x \in Int
      OBVIOUS
    <3> QED BY <2>0, <3>1, Zenon
  <2>2. j < k \/ k < j
    BY <1>7
  <2> QED BY <1>6, <2>1, <2>2
<1>9. f \in Injection(T, S)
  BY <1>6, <1>8 DEF Injection, IsInjective
<1>10. IsFiniteSet(T) /\ Cardinality(T) = Cardinality(S)
  BY <1>7, FS_Interval
<1>11. \A i \in S : \E k \in T : f[k] = i
  <2> HIDE DEF T
  <2>1. f \in Surjection(T, S)
    BY <1>7, <1>9, <1>10, FS_Injection, Zenon
  <2> QED BY <2>1, Zenon DEF Surjection
<1> QED BY <1>5, <1>6, <1>11, Zenon DEF Enumerates

-----------------------------------------------------------------------------
(* What the operations are made of.                                         *)

\* An element is taken out; the cursor follows when it was before it.
LEMMA TakenOut ==
  ASSUME NEW s, NEW c, NEW d, NEW n \in Nat, WellFormed(s, c, d, n), NEW v \in 1 .. Len(s),
         NEW t, t = SeqExt!RemoveAt(s, v), NEW b, b = IF v < c THEN c - 1 ELSE c
  PROVE  /\ WellFormed(t, b, d, n) /\ Len(t) = Len(s) - 1
         /\ \A i \in 1 .. Len(t) : t[i] = s[IF i < v THEN i ELSE i + 1]
<1>1. s \in Seq(Elem) /\ Len(s) \in Nat /\ c \in 1 .. (Len(s) + 1)
  BY DEF WellFormed
<1>2. t = SubSeq(s, 1, v - 1) \o SubSeq(s, v + 1, Len(s))
  BY DEF SeqExt!RemoveAt
<1>3. /\ t \in Seq(Elem) /\ Len(t) = Len(s) - 1
      /\ \A i \in 1 .. (Len(s) - 1) : t[i] = s[IF i < v THEN i ELSE i + 1]
  <2>1. PICK p : p = SubSeq(s, 1, v - 1)
    OBVIOUS
  <2>2. PICK q : q = SubSeq(s, v + 1, Len(s))
    OBVIOUS
  <2>3. /\ p \in Seq(Elem) /\ Len(p) = v - 1
        /\ \A i \in 1 .. (v - 1) : p[i] = s[i]
    BY <1>1, <2>1
  <2>4. /\ q \in Seq(Elem) /\ Len(q) = Len(s) - v
        /\ \A i \in 1 .. (Len(s) - v) : q[i] = s[v + i]
    BY <1>1, <2>2
  <2>5. t = p \o q
    BY <1>2, <2>1, <2>2
  <2>6. t \in Seq(Elem) /\ Len(t) = Len(s) - 1
    <3>1. p \in Seq(Elem) /\ q \in Seq(Elem)
      BY <2>3, <2>4
    <3>2. p \o q \in Seq(Elem) /\ Len(p \o q) = Len(p) + Len(q)
      BY <3>1
    <3>3. Len(p) + Len(q) = Len(s) - 1
      BY <1>1, <2>3, <2>4
    <3> QED BY <2>5, <3>2, <3>3, Zenon
  <2>7. ASSUME NEW i \in 1 .. (Len(s) - 1) PROVE t[i] = s[IF i < v THEN i ELSE i + 1]
    <3>1. CASE i < v
      <4>1. i \in 1 .. Len(p) /\ i \in 1 .. (v - 1)
        BY <1>1, <2>3, <3>1
      <4>2. t[i] = p[i]
        BY <2>3, <2>4, <2>5, <4>1
      <4> QED BY <2>3, <3>1, <4>1, <4>2
    <3>2. CASE ~(i < v)
      <4>1. PICK k \in 1 .. (Len(s) - v) : k = i - (v - 1)
        BY <1>1, <3>2
      <4>2. t[i] = q[k]
        BY <1>1, <2>3, <2>4, <2>5, <3>2, <4>1
      <4>3. v + k = i + 1
        BY <1>1, <4>1
      <4> QED BY <2>4, <3>2, <4>1, <4>2, <4>3
    <3> QED BY <3>1, <3>2
  <2> QED BY <2>6, <2>7
<1> DEFINE at(i) == IF i < v THEN i ELSE i + 1
<1>4. /\ \A i \in 1 .. Len(t) : at(i) \in 1 .. Len(s) /\ t[i] = s[at(i)] /\ i \in Int /\ at(i) \in Int
      /\ \A i, j \in 1 .. Len(t) : i < j => at(i) < at(j)
  BY <1>1, <1>3
<1>5. b \in 1 .. (Len(t) + 1) /\ b \in Int /\ Len(t) \in Nat
  BY <1>1, <1>3
<1>6. \A i \in 1 .. (b - 1) : i \in 1 .. Len(t) /\ at(i) \in 1 .. (c - 1)
  BY <1>1, <1>3, <1>5
<1>7. \A i \in b .. Len(t) : i \in 1 .. Len(t) /\ at(i) \in c .. Len(s)
  BY <1>1, <1>3, <1>5
<1> HIDE DEF at
<1>8. \A i, j \in 1 .. Len(t) : i # j => at(i) # at(j)
  <2> SUFFICES ASSUME NEW i \in 1 .. Len(t), NEW j \in 1 .. Len(t), i # j PROVE at(i) # at(j)
    OBVIOUS
  <2>1. i < j \/ j < i
    OBVIOUS
  <2> QED BY <1>4, <2>1
<1>9. WellFormed(t, b, d, n)
  <2>1. \A i \in 1 .. (b - 1) : t[i].id # 0
    BY <1>4, <1>6 DEF WellFormed
  <2>2. \A i, j \in 1 .. Len(t) : i < j /\ t[j].id # 0 => t[i].id # 0
    BY <1>4 DEF WellFormed
  <2>3. d => \A i \in b .. Len(t) : t[i].id = 0
    BY <1>4, <1>7 DEF WellFormed
  <2>4. \A i \in 1 .. Len(t) : (t[i].kind = "pubrel" => t[i].id # 0) /\ t[i].msg <= n
    BY <1>4 DEF WellFormed
  <2>5. \A i, j \in 1 .. Len(t) : t[i].id # 0 /\ i # j => t[i].id # t[j].id
    BY <1>4, <1>8 DEF WellFormed
  <2>6. \A i, j \in 1 .. Len(t) : i < j => t[i].msg < t[j].msg
    BY <1>4 DEF WellFormed
  <2> QED BY <1>3, <1>5, <2>1, <2>2, <2>3, <2>4, <2>5, <2>6 DEF WellFormed
<1> QED BY <1>3, <1>9

\* A new message is appended.
LEMMA Appended ==
  ASSUME NEW s, NEW c, NEW d, NEW n \in Nat, WellFormed(s, c, d, n),
         NEW e \in Elem, e.id = 0, e.kind = "publish", e.msg = n + 1,
         NEW t, t = Append(s, e)
  PROVE  WellFormed(t, c, d, n + 1) /\ Len(t) = Len(s) + 1
<1>1. s \in Seq(Elem) /\ Len(s) \in Nat /\ c \in 1 .. (Len(s) + 1)
  BY DEF WellFormed
<1>2. /\ t \in Seq(Elem) /\ Len(t) = Len(s) + 1 /\ t[Len(s) + 1] = e
      /\ \A i \in 1 .. Len(s) : t[i] = s[i]
  BY <1>1
<1>3. \A i \in 1 .. Len(t) : i \in 1 .. Len(s) \/ i = Len(s) + 1
  BY <1>1, <1>2
<1>4. \A i \in 1 .. Len(s) : s[i].msg \in Int /\ s[i].msg <= n
  <2>1. \A i \in 1 .. Len(s) : s[i] \in Elem
    BY <1>1
  <2>2. \A x \in Elem : x.msg \in Int
    BY DEF Elem
  <2> QED BY <2>1, <2>2 DEF WellFormed
<1>5. \A i \in 1 .. (c - 1) : t[i].id # 0
  <2>1. \A i \in 1 .. (c - 1) : i \in 1 .. Len(s)
    BY <1>1
  <2> QED BY <1>2, <2>1 DEF WellFormed
<1>6. \A i, j \in 1 .. Len(t) : i < j /\ t[j].id # 0 => t[i].id # 0
  <2> SUFFICES ASSUME NEW i \in 1 .. Len(t), NEW j \in 1 .. Len(t), i < j, t[j].id # 0
               PROVE  t[i].id # 0
    OBVIOUS
  <2>1. j \in 1 .. Len(s)
    BY <1>2, <1>3
  <2>2. i \in 1 .. Len(s)
    BY <1>1, <2>1
  <2> QED BY <1>2, <2>1, <2>2 DEF WellFormed
<1>7. d => \A i \in c .. Len(t) : t[i].id = 0
  <2> SUFFICES ASSUME d, NEW i \in c .. Len(t) PROVE t[i].id = 0
    OBVIOUS
  <2>1. i \in 1 .. Len(t) /\ (i \in 1 .. Len(s) => i \in c .. Len(s))
    BY <1>1, <1>2
  <2> QED BY <1>2, <1>3, <2>1 DEF WellFormed
<1>8. \A i \in 1 .. Len(t) : t[i].kind = "pubrel" => t[i].id # 0
  BY <1>2, <1>3 DEF WellFormed
<1>9. \A i, j \in 1 .. Len(t) : t[i].id # 0 /\ i # j => t[i].id # t[j].id
  BY <1>2, <1>3 DEF WellFormed
<1>10. \A i, j \in 1 .. Len(t) : i < j => t[i].msg < t[j].msg
  <2> SUFFICES ASSUME NEW i \in 1 .. Len(t), NEW j \in 1 .. Len(t), i < j
               PROVE  t[i].msg < t[j].msg
    OBVIOUS
  <2>1. i \in 1 .. Len(s)
    BY <1>1, <1>2
  <2>2. CASE j \in 1 .. Len(s)
    BY <1>2, <2>1, <2>2 DEF WellFormed
  <2>3. CASE j = Len(s) + 1
    BY <1>2, <1>4, <2>1, <2>3
  <2> QED BY <1>3, <2>2, <2>3
<1>11. \A i \in 1 .. Len(t) : t[i].msg <= n + 1
  BY <1>2, <1>3, <1>4
<1>12. c \in 1 .. (Len(t) + 1)
  BY <1>1, <1>2
<1> QED BY <1>2, <1>5, <1>6, <1>7, <1>8, <1>9, <1>10, <1>11, <1>12 DEF WellFormed

\* Fields that the invariant does not name change, or a Publish with an identifier becomes a Pubrel.
LEMMA Changed ==
  ASSUME NEW s, NEW c, NEW d, NEW n \in Nat, WellFormed(s, c, d, n),
         NEW t \in Seq(Elem), Len(t) = Len(s),
         \A i \in 1 .. Len(s) : /\ t[i].id = s[i].id /\ t[i].msg = s[i].msg
                                /\ t[i].kind = "pubrel" => s[i].id # 0
  PROVE  WellFormed(t, c, d, n)
<1>1. Len(s) \in Nat /\ c \in 1 .. (Len(s) + 1)
  BY DEF WellFormed
<1>2. /\ \A i \in 1 .. (c - 1) : i \in 1 .. Len(s)
      /\ \A i \in c .. Len(s) : i \in 1 .. Len(s)
  BY <1>1
<1>3. \A i \in 1 .. (c - 1) : t[i].id # 0
  BY <1>2 DEF WellFormed
<1>4. \A i, j \in 1 .. Len(t) : i < j /\ t[j].id # 0 => t[i].id # 0
  BY DEF WellFormed
<1>5. d => \A i \in c .. Len(t) : t[i].id = 0
  BY <1>2 DEF WellFormed
<1>6. \A i \in 1 .. Len(t) : (t[i].kind = "pubrel" => t[i].id # 0) /\ t[i].msg <= n
  BY DEF WellFormed
<1>7. \A i, j \in 1 .. Len(t) : t[i].id # 0 /\ i # j => t[i].id # t[j].id
  BY DEF WellFormed
<1>8. \A i, j \in 1 .. Len(t) : i < j => t[i].msg < t[j].msg
  BY DEF WellFormed
<1>9. c \in 1 .. (Len(t) + 1)
  BY <1>1
<1> QED BY <1>3, <1>4, <1>5, <1>6, <1>7, <1>8, <1>9 DEF WellFormed

-----------------------------------------------------------------------------
(* The steps.                                                               *)

LEMMA Typed ==
  ASSUME QueueInv
  PROVE  /\ l \in Seq(Elem) /\ Len(l) \in Nat /\ current \in 1 .. (Len(l) + 1) /\ added \in Nat
         /\ \A i \in 1 .. Len(l) : l[i] \in Elem
         /\ MaxQueuedMsg \in Nat \ {0} /\ MaxMsgs \in Nat
         /\ MaxPacketID \in Nat \ {0}
<1>1. l \in Seq(Elem) /\ current \in 1 .. (Len(l) + 1)
  BY DEF QueueInv, WellFormed
<1>2. /\ MaxQueuedMsg \in Nat \ {0} /\ MaxMsgs \in Nat /\ MaxPacketID \in Nat \ {0}
  BY MemQueueAssumption
<1>3. added \in Nat
  BY <1>2 DEF QueueInv
<1> QED BY <1>1, <1>2, <1>3

\* The element that makes room: the expired one in front, or one that has not been read; of those
\* it is an expired one, else one of QoS 0, else the first.
LEMMA Victims ==
  ASSUME QueueInv, Full, NEW e, NEW v, v = Victim(e), v # 0
  PROVE  /\ v \in 1 .. Len(l)
         /\ \/ v < current
            \/ v \in Unread /\ ElemExpiry(v)
            \/ v \in Unread /\ l[v].qos = 0
            \/ v \in Unread /\ ~FrontExpired /\ ExpiredUnread = {} /\ QoS0Unread = {}
<1>1. l \in Seq(Elem) /\ Len(l) \in Nat /\ current \in 1 .. (Len(l) + 1)
  BY Typed
<1>2. /\ Unread \in SUBSET (1 .. Len(l))
      /\ ExpiredUnread \in SUBSET (1 .. Len(l)) /\ ExpiredUnread \subseteq Unread
      /\ QoS0Unread \in SUBSET (1 .. Len(l)) /\ QoS0Unread \subseteq Unread
  BY <1>1 DEF Unread, ExpiredUnread, QoS0Unread
<1>3. CASE FrontExpired
  <2>1. v = 1
    <3>1. ~Scans
      BY <1>3 DEF Scans
    <3> QED BY <1>3, <3>1 DEF Victim
  <2>2. l # <<>> /\ current # 1
    BY <1>3 DEF FrontExpired
  <2> QED BY <1>1, <2>1, <2>2
<1>4. CASE ~FrontExpired /\ ~Scans
  BY <1>4 DEF Victim
<1>5. CASE ~FrontExpired /\ Scans /\ ExpiredUnread # {}
  <2>1. v = Min(ExpiredUnread)
    BY <1>5 DEF Victim
  <2>2. v \in ExpiredUnread
    BY <1>1, <1>2, <1>5, <2>1, FirstOf
  <2> QED BY <1>2, <2>2 DEF ExpiredUnread
<1>6. CASE ~FrontExpired /\ Scans /\ ExpiredUnread = {} /\ QoS0Unread # {}
  <2>1. v = Min(QoS0Unread)
    BY <1>6 DEF Victim
  <2>2. v \in QoS0Unread
    BY <1>1, <1>2, <1>6, <2>1, FirstOf
  <2> QED BY <1>2, <2>2 DEF QoS0Unread
<1>7. CASE ~FrontExpired /\ Scans /\ ExpiredUnread = {} /\ QoS0Unread = {}
  <2>1. v = IF e.qos = 0 \/ ~inflightDrained THEN 0 ELSE current
    BY <1>7 DEF Victim
  <2>2. v = current /\ inflightDrained
    BY <2>1
  <2>3. Unread # {}
    BY <1>7, <2>2 DEF Scans
  <2>4. current \in Unread
    BY <1>1, <2>3 DEF Unread
  <2> QED BY <1>2, <1>7, <2>2, <2>4
<1> QED BY <1>3, <1>4, <1>5, <1>6, <1>7

LEMMA NewMessages ==
  ASSUME QueueInv, added < MaxMsgs, NEW qos \in QoSs, NEW expiry \in Expiries, NEW big \in Sizes,
         NEW e, e = NewElem(qos, expiry, big)
  PROVE  e \in Elem /\ e.id = 0 /\ e.kind = "publish" /\ e.msg = added + 1 /\ e.msg \in 1 .. MaxMsgs
<1>1. added \in Nat /\ MaxMsgs \in Nat /\ MaxPacketID \in Nat
  BY Typed
<1>2. added + 1 \in 1 .. MaxMsgs /\ 0 \in 0 .. MaxPacketID
  BY <1>1
<1>3. qos \in 0 .. 2 /\ expiry \in {"never", "armed", "expired"} /\ big \in BOOLEAN
  BY MemQueueAssumption
<1> QED BY <1>2, <1>3 DEF NewElem, Elem

\* Add finds room.
LEMMA AddsWithRoom ==
  ASSUME QueueInv, NEW e \in Elem, e.id = 0, e.kind = "publish", e.msg = added + 1, AddRoom(e)
  PROVE  QueueInv' /\ Len(l') <= MaxQueuedMsg
<1>1. /\ l \in Seq(Elem) /\ Len(l) \in Nat /\ added \in Nat /\ MaxQueuedMsg \in Nat /\ MaxMsgs \in Nat
  BY Typed
<1>2. WellFormed(l, current, inflightDrained, added) /\ added \in Nat
  BY Typed DEF QueueInv
<1>3. PICK t : t = Append(l, e)
  OBVIOUS
<1>4. WellFormed(t, current, inflightDrained, added + 1) /\ Len(t) = Len(l) + 1
  BY <1>2, <1>3, Appended, Zenon
<1>5. /\ UNCHANGED <<current, inflightDrained, closed, dropped>>
      /\ l' = t /\ added' = added + 1 /\ ~(Len(l) >= MaxQueuedMsg)
  BY <1>3 DEF AddRoom, Full
<1>6. Len(t) <= MaxQueuedMsg
  BY <1>1, <1>4, <1>5
<1>7. added + 1 \in 0 .. MaxMsgs
  <2>1. e.msg \in 1 .. MaxMsgs
    BY DEF Elem
  <2> QED BY <2>1
<1> QED BY <1>4, <1>5, <1>6, <1>7 DEF QueueInv

\* TakenOut for the queue.
LEMMA QueueTakenOut ==
  ASSUME QueueInv, NEW v \in 1 .. Len(l), NEW t, t = SeqExt!RemoveAt(l, v),
         NEW b, b = IF v < current THEN current - 1 ELSE current
  PROVE  WellFormed(t, b, inflightDrained, added) /\ Len(t) = Len(l) - 1
<1>1. WellFormed(l, current, inflightDrained, added) /\ added \in Nat
  BY Typed DEF QueueInv
<1> QED BY <1>1, TakenOut, SMT

\* Add makes room.
LEMMA AddsEvicting ==
  ASSUME QueueInv, NEW e \in Elem, e.id = 0, e.kind = "publish", e.msg = added + 1, AddEvict(e)
  PROVE  QueueInv' /\ Len(l') = Len(l)
<1>1. /\ l \in Seq(Elem) /\ Len(l) \in Nat /\ added \in Nat /\ MaxQueuedMsg \in Nat /\ MaxMsgs \in Nat
      /\ \A i \in 1 .. Len(l) : l[i] \in Elem
  BY Typed
<1>2. WellFormed(l, current, inflightDrained, added) /\ added \in Nat
  BY Typed DEF QueueInv
<1>3. PICK v : v = Victim(e)
  OBVIOUS
<1>4. /\ Full /\ v # 0 /\ l' = Append(SeqExt!RemoveAt(l, v), e)
      /\ current' = IF v < current THEN current - 1 ELSE current
      /\ dropped' = dropped \cup (IF l[v].kind = "publish" THEN {l[v].msg} ELSE {})
      /\ added' = added + 1 /\ UNCHANGED <<inflightDrained, closed>>
  BY <1>3 DEF AddEvict, NotifyDropped
<1>5. v \in 1 .. Len(l)
  BY <1>3, <1>4, Victims, Zenon
<1>6. PICK t : t = SeqExt!RemoveAt(l, v)
  OBVIOUS
<1>7. PICK b : b = IF v < current THEN current - 1 ELSE current
  OBVIOUS
<1>8. WellFormed(t, b, inflightDrained, added) /\ Len(t) = Len(l) - 1
  BY <1>5, <1>6, <1>7, QueueTakenOut, Zenon
<1>9. PICK u : u = Append(t, e)
  OBVIOUS
<1>10. WellFormed(u, b, inflightDrained, added + 1) /\ Len(u) = Len(t) + 1
  BY <1>2, <1>8, <1>9, Appended, Zenon
<1>11. l' = u /\ current' = b
  BY <1>4, <1>6, <1>7, <1>9
<1>12. Len(u) = Len(l)
  BY <1>1, <1>8, <1>10
<1>13. \A x \in Elem : x.msg \in 1 .. MaxMsgs
  BY DEF Elem
<1>14. dropped' \subseteq 1 .. MaxMsgs
  BY <1>1, <1>4, <1>5, <1>13 DEF QueueInv
<1>15. added + 1 \in 0 .. MaxMsgs
  BY <1>13
<1> QED BY <1>4, <1>10, <1>11, <1>12, <1>14, <1>15 DEF QueueInv

\* Add drops the message itself.
LEMMA AddsDropping ==
  ASSUME QueueInv, NEW e \in Elem, e.msg = added + 1, AddReject(e) \/ AddPanic(e)
  PROVE  QueueInv' /\ l' = l
<1>1. /\ l \in Seq(Elem) /\ added \in Nat /\ MaxMsgs \in Nat
      /\ \A i \in 1 .. Len(l) : l[i] \in Elem
  BY Typed
<1>2. \A x \in Elem : x.msg \in 1 .. MaxMsgs
  BY DEF Elem
<1>3. /\ UNCHANGED <<l, current, inflightDrained, closed>>
      /\ added' = added + 1 /\ dropped' = dropped \cup {e.msg}
  BY DEF AddReject, AddPanic, queueVars, NotifyDropped
<1>4. dropped' \subseteq 1 .. MaxMsgs /\ added + 1 \in 0 .. MaxMsgs
  BY <1>2, <1>3 DEF QueueInv
<1>5. WellFormed(l, current, inflightDrained, added + 1)
  <2>1. \A i \in 1 .. Len(l) : l[i].msg <= added /\ l[i].msg \in Int
    BY <1>1, <1>2 DEF QueueInv, WellFormed
  <2>2. \A i \in 1 .. Len(l) : l[i].msg <= added + 1
    BY <1>1, <2>1
  <2> QED BY <2>2 DEF QueueInv, WellFormed
<1> QED BY <1>3, <1>4, <1>5 DEF QueueInv

\* The positions that carry an identifier are inflight.
LEMMA Carriers ==
  ASSUME QueueInv, NEW pid, Carrying(pid) # {}, NEW v, v = Min(Carrying(pid))
  PROVE  v \in 1 .. Len(l) /\ v < current /\ l[v].id = pid /\ l[v].id # 0
<1>1. Len(l) \in Nat /\ current \in 1 .. (Len(l) + 1)
  BY Typed
<1>2. Carrying(pid) \in SUBSET (1 .. Len(l))
  BY <1>1 DEF Carrying
<1>3. v \in Carrying(pid)
  BY <1>1, <1>2, FirstOf, Zenon
<1>4. v \in 1 .. (current - 1) /\ l[v].id = pid
  BY <1>3 DEF Carrying
<1>5. l[v].id # 0
  BY <1>4 DEF QueueInv, WellFormed
<1> QED BY <1>1, <1>4, <1>5

LEMMA Removes ==
  ASSUME QueueInv, NEW pid, Remove(pid)
  PROVE  QueueInv' /\ Len(l') <= Len(l)
<1>1. CASE Carrying(pid) = {}
  <2>1. UNCHANGED mqVars
    BY <1>1 DEF Remove
  <2> QED BY <2>1 DEF mqVars, QueueInv, WellFormed
<1>2. CASE Carrying(pid) # {}
  <2>1. PICK v : v = Min(Carrying(pid))
    OBVIOUS
  <2>2. v \in 1 .. Len(l) /\ v < current
    BY <1>2, <2>1, Carriers, Zenon
  <2>3. PICK t : t = SeqExt!RemoveAt(l, v)
    OBVIOUS
  <2>4. PICK b : b = IF v < current THEN current - 1 ELSE current
    OBVIOUS
  <2>5. WellFormed(t, b, inflightDrained, added) /\ Len(t) = Len(l) - 1
    BY <2>2, <2>3, <2>4, QueueTakenOut, Zenon
  <2>6. l' = t /\ current' = b /\ UNCHANGED <<inflightDrained, closed, added, dropped>>
    BY <1>2, <2>1, <2>2, <2>3, <2>4 DEF Remove
  <2>7. Len(t) <= Len(l)
    BY <2>5, Typed
  <2> QED BY <2>5, <2>6, <2>7 DEF QueueInv
<1> QED BY <1>1, <1>2

\* One element changes its kind or its expiry.
LEMMA QueueChanged ==
  ASSUME QueueInv, NEW v \in 1 .. Len(l), NEW x \in Elem, x.id = l[v].id, x.msg = l[v].msg,
         x.kind = "pubrel" => l[v].id # 0,
         l' = [l EXCEPT ![v] = x],
         UNCHANGED <<current, inflightDrained, closed, added, dropped>>
  PROVE  QueueInv' /\ Len(l') = Len(l)
<1>1. l \in Seq(Elem) /\ Len(l) \in Nat
  BY Typed
<1>2. PICK t : t = [l EXCEPT ![v] = x]
  OBVIOUS
<1>3. t \in Seq(Elem) /\ Len(t) = Len(l)
  BY <1>1, <1>2
<1>4. \A i \in 1 .. Len(l) : t[i] = IF i = v THEN x ELSE l[i]
  BY <1>1, <1>2
<1>5. WellFormed(l, current, inflightDrained, added) /\ added \in Nat
  BY Typed DEF QueueInv
<1>6. \A i \in 1 .. Len(l) : /\ t[i].id = l[i].id /\ t[i].msg = l[i].msg
                             /\ t[i].kind = "pubrel" => l[i].id # 0
  BY <1>4, <1>5 DEF WellFormed
<1>7. WellFormed(t, current, inflightDrained, added)
  BY <1>3, <1>5, <1>6, Changed, Zenon
<1>8. l' = t
  BY <1>2
<1> QED BY <1>3, <1>7, <1>8 DEF QueueInv

LEMMA Replaces ==
  ASSUME QueueInv, NEW pid, Replace(pid)
  PROVE  QueueInv' /\ Len(l') = Len(l)
<1>1. CASE Carrying(pid) = {}
  <2>1. UNCHANGED mqVars
    BY <1>1 DEF Replace
  <2> QED BY <2>1 DEF mqVars, QueueInv, WellFormed
<1>2. CASE Carrying(pid) # {}
  <2>1. PICK v : v = Min(Carrying(pid))
    OBVIOUS
  <2>2. v \in 1 .. Len(l) /\ l[v].id # 0
    BY <1>2, <2>1, Carriers, Zenon
  <2>3. l \in Seq(Elem) /\ l[v] \in Elem
    BY <2>2, Typed
  <2>4. PICK x : x = [l[v] EXCEPT !.kind = "pubrel", !.expiry = "never"]
    OBVIOUS
  <2>5. x \in Elem /\ x.id = l[v].id /\ x.msg = l[v].msg
    BY <2>3, <2>4 DEF Elem
  <2>6. /\ l' = [l EXCEPT ![v].kind = "pubrel", ![v].expiry = "never"]
        /\ UNCHANGED <<current, inflightDrained, closed, added, dropped>>
    BY <1>2, <2>1 DEF Replace
  <2>7. l' = [l EXCEPT ![v] = x]
    BY <2>2, <2>3, <2>4, <2>6 DEF Elem
  <2> QED BY <2>2, <2>5, <2>6, <2>7, QueueChanged
<1> QED BY <1>1, <1>2

LEMMA Expires ==
  ASSUME QueueInv, NEW v \in 1 .. Len(l), Expire(v)
  PROVE  QueueInv' /\ Len(l') = Len(l)
<1>1. l \in Seq(Elem) /\ l[v] \in Elem
  BY Typed
<1>2. PICK x : x = [l[v] EXCEPT !.expiry = "expired"]
  OBVIOUS
<1>3. x \in Elem /\ x.id = l[v].id /\ x.msg = l[v].msg /\ x.kind = l[v].kind
  BY <1>1, <1>2 DEF Elem
<1>4. /\ l' = [l EXCEPT ![v].expiry = "expired"]
      /\ UNCHANGED <<current, inflightDrained, closed, added, dropped>>
  BY DEF Expire
<1>5. l' = [l EXCEPT ![v] = x]
  BY <1>1, <1>2, <1>4
<1>6. x.kind = "pubrel" => l[v].id # 0
  BY <1>3 DEF QueueInv, WellFormed
<1> QED BY <1>3, <1>4, <1>5, <1>6, QueueChanged

LEMMA Resumes ==
  ASSUME QueueInv, InitResume \/ Close
  PROVE  QueueInv' /\ l' = l
<1>1. CASE Close
  BY <1>1 DEF Close, QueueInv, WellFormed
<1>2. CASE InitResume
  <2>1. /\ l' = l /\ current' = 1 /\ inflightDrained' = FALSE /\ closed' = FALSE
        /\ UNCHANGED <<added, dropped>>
    BY <1>2 DEF InitResume
  <2>2. WellFormed(l, 1, FALSE, added)
    <3>1. 1 \in 1 .. (Len(l) + 1) /\ 1 .. (1 - 1) = {}
      BY Typed
    <3> QED BY <3>1 DEF QueueInv, WellFormed
  <2> QED BY <2>1, <2>2 DEF QueueInv
<1> QED BY <1>1, <1>2

\* What the cursor passes is inflight; it stops where the messages not read yet begin.
LEMMA CursorMoved ==
  ASSUME NEW s, NEW c, NEW d, NEW n, WellFormed(s, c, d, n),
         NEW b \in c .. (Len(s) + 1), \A i \in c .. (b - 1) : s[i].id # 0,
         NEW f, f => \A i \in b .. Len(s) : s[i].id = 0
  PROVE  WellFormed(s, b, f, n)
<1>1. Len(s) \in Nat /\ c \in 1 .. (Len(s) + 1)
  BY DEF WellFormed
<1>2. b \in 1 .. (Len(s) + 1) /\ \A i \in 1 .. (b - 1) : i \in 1 .. (c - 1) \/ i \in c .. (b - 1)
  BY <1>1
<1>3. \A i \in 1 .. (b - 1) : s[i].id # 0
  BY <1>2 DEF WellFormed
<1> QED BY <1>2, <1>3 DEF WellFormed

\* The positions a read looks at are those from the cursor up to h.
WindowTo(n, h) ==
  /\ h \in Nat /\ h >= current - 1 /\ h <= Len(l) /\ h <= current + n - 1
  /\ h = Len(l) \/ h = current + n - 1
  /\ Window(n) = current .. h
  /\ Cardinality(Window(n)) = h - current + 1 /\ Cardinality(Window(n)) \in Nat

LEMMA Windows ==
  ASSUME QueueInv, NEW n \in Nat
  PROVE  \E h : WindowTo(n, h)
<1>1. Len(l) \in Nat /\ current \in 1 .. (Len(l) + 1) /\ current \in Nat /\ n \in Nat
  BY Typed
<1>2. PICK h \in Nat : /\ h >= current - 1 /\ h <= Len(l) /\ h <= current + n - 1
                       /\ (h = Len(l) \/ h = current + n - 1)
  <2>1. CASE Len(l) <= current + n - 1
    <3>1. Len(l) \in Nat /\ Len(l) >= current - 1
      BY <1>1
    <3> QED BY <2>1, <3>1
  <2>2. CASE ~(Len(l) <= current + n - 1)
    <3>1. current + n - 1 \in Nat /\ current + n - 1 >= current - 1 /\ current + n - 1 <= Len(l)
      BY <1>1, <2>2
    <3> QED BY <3>1
  <2> QED BY <2>1, <2>2
<1>3. Window(n) = current .. h
  BY <1>1, <1>2 DEF Window, Unread
<1>4. Cardinality(Window(n)) = h - current + 1 /\ Cardinality(Window(n)) \in Nat
  <2>1. Cardinality(current .. h) = IF current > h THEN 0 ELSE h - current + 1
    BY <1>1, <1>2, FS_Interval
  <2> QED BY <1>1, <1>2, <1>3, <2>1
<1> QED BY <1>2, <1>3, <1>4 DEF WindowTo

\* The run of inflight elements from the cursor on.
LEMMA Runs ==
  ASSUME QueueInv, NEW n \in Nat \ {0}, NEW k, k = InflightRun(n)
  PROVE  /\ k \in Nat /\ current + k \in current .. (Len(l) + 1)
         /\ \A i \in current .. (current + k - 1) : l[i].id # 0
         /\ (Unread = {} \/ k < Cardinality(Window(n)))
               => \A i \in (current + k) .. Len(l) : l[i].id = 0
<1>1. Len(l) \in Nat /\ current \in 1 .. (Len(l) + 1) /\ current \in Nat /\ n \in Nat
  BY Typed
<1>2. PICK h : WindowTo(n, h)
  BY <1>1, Windows, Zenon
<1>3. /\ h \in Nat /\ h >= current - 1 /\ h <= Len(l) /\ h <= current + n - 1
      /\ h = Len(l) \/ h = current + n - 1
      /\ Window(n) = current .. h
  BY <1>2 DEF WindowTo
<1>4. Cardinality(Window(n)) = h - current + 1 /\ Cardinality(Window(n)) \in Nat
  BY <1>2 DEF WindowTo
<1> DEFINE fresh == {i \in Window(n) : l[i].id = 0}
<1>5. fresh \in SUBSET (1 .. Len(l))
  BY <1>1, <1>3
<1>6. k = IF fresh = {} THEN Cardinality(Window(n)) ELSE Min(fresh) - current
  BY DEF InflightRun
<1>7. CASE fresh = {}
  <2>1. k = h - current + 1
    BY <1>4, <1>6, <1>7
  <2>2. k \in Nat /\ current + k \in current .. (Len(l) + 1)
    BY <1>1, <1>3, <2>1
  <2>3. \A i \in current .. (current + k - 1) : i \in Window(n)
    BY <1>1, <1>3, <2>1
  <2>4. \A i \in current .. (current + k - 1) : l[i].id # 0
    BY <1>7, <2>3
  <2>5. ~(k < Cardinality(Window(n)))
    BY <1>1, <1>3, <1>4, <2>1
  <2>6. Unread = {} => (current + k) .. Len(l) = {}
    BY <1>1, <2>2 DEF Unread
  <2> QED BY <2>2, <2>4, <2>5, <2>6
<1>8. CASE fresh # {}
  <2>1. PICK m : m = Min(fresh)
    OBVIOUS
  <2>2. m \in fresh /\ \A y \in fresh : m <= y
    <3> HIDE DEF fresh
    <3> QED BY <1>1, <1>5, <1>8, <2>1, FirstOf, Zenon
  <2>3. m \in current .. h /\ m \in 1 .. Len(l) /\ l[m].id = 0
    BY <1>1, <1>3, <2>2
  <2>4. k = m - current
    BY <1>6, <1>8, <2>1
  <2>5. k \in Nat /\ current + k \in current .. (Len(l) + 1) /\ current + k = m
    BY <1>1, <1>3, <2>3, <2>4
  <2>6. \A i \in current .. (current + k - 1) : i \in Window(n) /\ ~(m <= i)
    BY <1>1, <1>3, <2>3, <2>5
  <2>7. \A i \in current .. (current + k - 1) : l[i].id # 0
    BY <2>2, <2>6
  <2>8. \A i \in m .. Len(l) : l[i].id = 0
    <3>1. \A i \in m .. Len(l) : i \in 1 .. Len(l) /\ (i = m \/ m < i)
      BY <1>1, <2>3
    <3>2. \A i, j \in 1 .. Len(l) : i < j /\ l[j].id # 0 => l[i].id # 0
      BY DEF QueueInv, WellFormed
    <3> QED BY <2>3, <3>1, <3>2
  <2> QED BY <2>5, <2>7, <2>8
<1> QED BY <1>7, <1>8

LEMMA ReadsInflight ==
  ASSUME QueueInv, ~inflightDrained, NEW n \in 1 .. MaxPacketID, ReadInflight(n)
  PROVE  QueueInv' /\ Len(l') = Len(l)
<1>1. l \in Seq(Elem) /\ Len(l) \in Nat /\ current \in 1 .. (Len(l) + 1) /\ added \in Nat
  BY Typed
<1>2. PICK k : k = InflightRun(n)
  OBVIOUS
<1>3. PICK t : t = [i \in 1 .. Len(l) |->
                      IF i \in current .. (current + k - 1) THEN Rearm(l[i]) ELSE l[i]]
  OBVIOUS
<1>4. PICK f \in BOOLEAN : f = (inflightDrained \/ Unread = {} \/ k < Cardinality(Window(n)))
  OBVIOUS
<1>5. l' = t /\ current' = current + k /\ inflightDrained' = f /\ UNCHANGED <<closed, added, dropped>>
  BY <1>2, <1>3, <1>4 DEF ReadInflight
<1>6. \A x \in Elem : Rearm(x) \in Elem /\ Rearm(x).id = x.id /\ Rearm(x).msg = x.msg /\ Rearm(x).kind = x.kind
  BY DEF Rearm, Elem
<1>7. \A i \in 1 .. Len(l) : l[i] \in Elem
  BY <1>1
<1>8. t \in Seq(Elem) /\ Len(t) = Len(l)
  <2>1. t \in [1 .. Len(l) -> Elem]
    BY <1>3, <1>6, <1>7
  <2> QED BY <1>1, <2>1
<1>9. \A i \in 1 .. Len(l) : t[i].id = l[i].id /\ t[i].msg = l[i].msg /\ t[i].kind = l[i].kind
  BY <1>3, <1>6, <1>7
<1>10. WellFormed(l, current, inflightDrained, added)
  BY DEF QueueInv
<1>11. WellFormed(t, current, inflightDrained, added)
  <2>1. \A i \in 1 .. Len(l) : /\ t[i].id = l[i].id /\ t[i].msg = l[i].msg
                               /\ t[i].kind = "pubrel" => l[i].id # 0
    BY <1>9, <1>10 DEF WellFormed
  <2>2. added \in Nat
    BY <1>1
  <2> QED BY <1>8, <1>10, <2>1, <2>2, Changed, Zenon
<1>12. n \in Nat \ {0}
  BY Typed
<1>13. /\ k \in Nat /\ current + k \in current .. (Len(l) + 1)
       /\ \A i \in current .. (current + k - 1) : l[i].id # 0
       /\ (Unread = {} \/ k < Cardinality(Window(n)))
             => \A i \in (current + k) .. Len(l) : l[i].id = 0
  BY <1>2, <1>12, Runs, Zenon
<1>14. PICK b : b = current + k
  OBVIOUS
<1>15. b \in current .. (Len(t) + 1)
  BY <1>8, <1>13, <1>14
<1>16. \A i \in current .. (b - 1) : t[i].id # 0
  <2>1. \A i \in current .. (b - 1) : i \in 1 .. Len(l) /\ i \in current .. (current + k - 1)
    BY <1>1, <1>13, <1>14
  <2> QED BY <1>9, <1>13, <2>1
<1>17. f => \A i \in b .. Len(t) : t[i].id = 0
  <2>1. \A i \in b .. Len(t) : i \in 1 .. Len(l) /\ i \in (current + k) .. Len(l)
    BY <1>1, <1>8, <1>13, <1>14
  <2>2. f => Unread = {} \/ k < Cardinality(Window(n))
    BY <1>4
  <2> QED BY <1>9, <1>13, <2>1, <2>2
<1>18. WellFormed(t, b, f, added)
  BY <1>11, <1>15, <1>16, <1>17, CursorMoved, Zenon
<1>19. l' = t /\ current' = b /\ inflightDrained' = f
  BY <1>5, <1>14
<1> QED BY <1>4, <1>5, <1>8, <1>18, <1>19 DEF QueueInv

\* Of the elements of s behind the cursor c, m get identifiers that no element carries and come
\* before the others; some are taken out, and none is moved past another.  at says where the
\* elements of t were in s.
Renumbers(t, s, c, m, at) ==
  /\ t \in Seq(Elem) /\ m \in Nat /\ c - 1 + m <= Len(t)
  /\ \A i \in 1 .. Len(t) : /\ at[i] \in 1 .. Len(s)
                            /\ t[i].msg = s[at[i]].msg /\ t[i].kind = s[at[i]].kind
  /\ \A i, j \in 1 .. Len(t) : i < j => at[i] < at[j]
  /\ \A i \in 1 .. (c - 1) : at[i] = i /\ t[i].id = s[i].id
  /\ \A i \in c .. Len(t) : at[i] >= c
  /\ \A i \in c .. (c - 1 + m) : /\ t[i].id # 0 /\ \A j \in 1 .. Len(s) : t[i].id # s[j].id
                                 /\ \A j \in c .. (c - 1 + m) : i # j => t[i].id # t[j].id
  /\ \A i \in (c + m) .. Len(t) : t[i].id = 0

LEMMA Numbered ==
  ASSUME NEW s, NEW c, NEW n \in Nat, WellFormed(s, c, TRUE, n), NEW t, NEW m, NEW at,
         Renumbers(t, s, c, m, at)
  PROVE  WellFormed(t, c + m, TRUE, n)
<1> USE DEF Renumbers
<1>1. Len(s) \in Nat /\ c \in 1 .. (Len(s) + 1) /\ Len(t) \in Nat
  BY DEF WellFormed
<1>2. \A i \in 1 .. Len(t) : i \in 1 .. (c - 1) \/ i \in c .. (c - 1 + m) \/ i \in (c + m) .. Len(t)
  BY <1>1
<1>3. /\ c + m \in 1 .. (Len(t) + 1)
      /\ \A i \in 1 .. (c + m - 1) : i \in 1 .. (c - 1) \/ i \in c .. (c - 1 + m)
      /\ \A i \in 1 .. (c - 1) : i \in 1 .. Len(s) /\ i \in 1 .. Len(t)
      /\ \A i \in c .. (c - 1 + m) : i \in 1 .. Len(t)
  BY <1>1
<1>4. \A i \in 1 .. (c - 1) : t[i].id # 0
  BY DEF WellFormed
<1>5. \A i \in 1 .. (c + m - 1) : t[i].id # 0
  BY <1>3, <1>4
<1>6. \A i, j \in 1 .. Len(t) : i < j /\ t[j].id # 0 => t[i].id # 0
  <2> SUFFICES ASSUME NEW i \in 1 .. Len(t), NEW j \in 1 .. Len(t), i < j, t[j].id # 0
               PROVE  t[i].id # 0
    OBVIOUS
  <2>1. j \notin (c + m) .. Len(t)
    OBVIOUS
  <2>2. i \in 1 .. (c + m - 1)
    BY <1>1, <2>1
  <2> QED BY <1>5, <2>2
<1>7. \A i \in 1 .. Len(t) : t[i].kind = "pubrel" => t[i].id # 0
  <2> SUFFICES ASSUME NEW i \in (c + m) .. Len(t) PROVE t[i].kind # "pubrel"
    BY <1>2, <1>3, <1>4
  <2>1. i \in 1 .. Len(t) /\ i \in c .. Len(t)
    BY <1>1
  <2>2. PICK a : a = at[i]
    OBVIOUS
  <2>3. a \in 1 .. Len(s) /\ a >= c /\ t[i].kind = s[a].kind
    BY <2>1, <2>2
  <2>4. a \in c .. Len(s)
    BY <1>1, <2>3
  <2>5. s[a].id = 0
    BY <2>4 DEF WellFormed
  <2> QED BY <2>3, <2>5 DEF WellFormed
<1>8. \A i, j \in 1 .. Len(t) : t[i].id # 0 /\ i # j => t[i].id # t[j].id
  <2> SUFFICES ASSUME NEW i \in 1 .. Len(t), NEW j \in 1 .. Len(t), t[i].id # 0, i # j
               PROVE  t[i].id # t[j].id
    OBVIOUS
  <2>1. CASE j \in (c + m) .. Len(t)
    BY <2>1
  <2>2. CASE i \in (c + m) .. Len(t)
    BY <2>2
  <2>3. CASE i \in 1 .. (c - 1) /\ j \in 1 .. (c - 1)
    <3>1. t[i].id = s[i].id /\ t[j].id = s[j].id /\ i \in 1 .. Len(s) /\ j \in 1 .. Len(s)
      BY <1>3, <2>3
    <3> QED BY <3>1 DEF WellFormed
  <2>4. CASE i \in 1 .. (c - 1) /\ j \in c .. (c - 1 + m)
    BY <1>3, <2>4
  <2>5. CASE i \in c .. (c - 1 + m) /\ j \in 1 .. (c - 1)
    BY <1>3, <2>5
  <2>6. CASE i \in c .. (c - 1 + m) /\ j \in c .. (c - 1 + m)
    BY <2>6
  <2> QED BY <1>2, <2>1, <2>2, <2>3, <2>4, <2>5, <2>6
<1>9. \A i, j \in 1 .. Len(t) : i < j => t[i].msg < t[j].msg
  <2> SUFFICES ASSUME NEW i \in 1 .. Len(t), NEW j \in 1 .. Len(t), i < j
               PROVE  t[i].msg < t[j].msg
    OBVIOUS
  <2>1. /\ at[i] \in 1 .. Len(s) /\ at[j] \in 1 .. Len(s) /\ at[i] < at[j]
        /\ t[i].msg = s[at[i]].msg /\ t[j].msg = s[at[j]].msg
    OBVIOUS
  <2>2. \A x, y \in 1 .. Len(s) : x < y => s[x].msg < s[y].msg
    BY DEF WellFormed
  <2>3. s[at[i]].msg < s[at[j]].msg
    BY <2>1, <2>2, Zenon
  <2> QED BY <2>1, <2>3, Zenon
<1>10. \A i \in 1 .. Len(t) : t[i].msg <= n
  BY DEF WellFormed
<1> QED BY <1>3, <1>5, <1>6, <1>7, <1>8, <1>9, <1>10 DEF WellFormed

LEMMA Tuples ==
  ASSUME NEW S, NEW m \in Nat, NEW f \in [1 .. m -> S]
  PROVE  f \in Seq(S) /\ Len(f) = m
OBVIOUS

\* kept are the elements at the positions o of the n behind the cursor, in order, each with an
\* identifier of its own that no element of the list carries.
KeptOf(n, pids, m, o, kept) ==
  /\ m \in Nat /\ m <= n /\ current + m <= Len(l) + 1
  /\ m = Cardinality({i \in Window(n) : BecomesInflight(i)})
  /\ \A k \in 1 .. m : o[k] \in Window(n) /\ kept[k] = Inflighted(o[k], pids)
  /\ \A j, k \in 1 .. m : j < k => o[j] < o[k]
  /\ \A i \in Window(n) : BecomesInflight(i) <=> \E k \in 1 .. m : o[k] = i
  /\ kept \in Seq(Elem) /\ Len(kept) = m
  /\ \A k \in 1 .. m : /\ kept[k].msg = l[o[k]].msg /\ kept[k].kind = l[o[k]].kind
                       /\ kept[k].id # 0
                       /\ \A i \in 1 .. Len(l) : kept[k].id # l[i].id
  /\ \A j, k \in 1 .. m : j # k => kept[j].id # kept[k].id

\* What Read keeps of the first w elements it looks at is that.
LEMMA KeptMessages ==
  ASSUME QueueInv, NEW n \in Nat \ {0}, NEW pids \in [1 .. n -> (1 .. MaxPacketID) \ IdsInList],
         \A i, j \in 1 .. n : i < j => pids[i] # pids[j],
         NEW w \in 1 .. n, NEW B, B = {i \in Window(w) : BecomesInflight(i)},
         NEW m, m = Cardinality(B), NEW o, o = InOrder(B), NEW kept, kept = Taken(B, pids)
  PROVE  KeptOf(w, pids, m, o, kept)
<1>1. Len(l) \in Nat /\ current \in 1 .. (Len(l) + 1) /\ n \in Nat /\ MaxPacketID \in Nat
      /\ w \in Nat /\ w # 0 /\ w <= n
  BY Typed
<1>2. Len(pids) = n
  BY <1>1
<1>3. B \in SUBSET (1 .. Len(l)) /\ B \subseteq Window(w) /\ \A i \in B : BecomesInflight(i)
  BY <1>1 DEF Window, Unread
<1>4. /\ IsFiniteSet(B) /\ m \in Nat
      /\ \A i \in B : Rank(B, i) \in 1 .. m
      /\ \A i, j \in B : i < j => Rank(B, i) < Rank(B, j)
  BY <1>1, <1>3, Ranks, Zenon
<1>5. /\ o \in [1 .. m -> B] /\ \A j, k \in 1 .. m : j < k => o[j] < o[k]
      /\ \A i \in B : \E k \in 1 .. m : o[k] = i
  <2>1. Len(l) \in Nat
    BY <1>1
  <2>2. Enumerates(o, B, m)
    BY <1>3, <2>1, Ordered, Zenon
  <2> QED BY <2>2, Zenon DEF Enumerates
<1>6. m <= w
  <2>1. PICK h \in Nat : h = current + w - 1
    BY <1>1
  <2>2. IsFiniteSet(current .. h) /\ Cardinality(current .. h) = w
    <3>1. current \in Int /\ h \in Int /\ w # 0
      BY <1>1
    <3>2. /\ IsFiniteSet(current .. h)
          /\ Cardinality(current .. h) = IF current > h THEN 0 ELSE h - current + 1
      BY <3>1, FS_Interval, Zenon
    <3>3. ~(current > h) /\ h - current + 1 = w
      BY <1>1, <2>1, <3>1
    <3> QED BY <3>2, <3>3, Zenon
  <2>3. B \in SUBSET (current .. h)
    BY <1>1, <1>3, <2>1 DEF Window, Unread
  <2>4. Cardinality(B) <= Cardinality(current .. h)
    BY <2>2, <2>3, FS_Subset, Zenon
  <2> QED BY <2>2, <2>4
<1>6a. current + m <= Len(l) + 1
  <2>1. current \in Int /\ Len(l) \in Int
    BY <1>1
  <2>2. /\ IsFiniteSet(current .. Len(l))
        /\ Cardinality(current .. Len(l)) = IF current > Len(l) THEN 0 ELSE Len(l) - current + 1
    BY <2>1, FS_Interval, Zenon
  <2>3. B \in SUBSET (current .. Len(l))
    BY <1>1, <1>3 DEF Window, Unread
  <2>4. Cardinality(B) <= Cardinality(current .. Len(l))
    BY <2>2, <2>3, FS_Subset, Zenon
  <2>5. PICK c : c = Cardinality(current .. Len(l))
    OBVIOUS
  <2>6. m <= c /\ c = (IF current > Len(l) THEN 0 ELSE Len(l) - current + 1) /\ m \in Nat
    BY <1>4, <2>2, <2>4, <2>5
  <2> QED BY <1>1, <2>6
<1>7. \A k \in 1 .. m : /\ o[k] \in B /\ o[k] \in Window(w) /\ o[k] \in 1 .. Len(l)
                        /\ Rank(B, o[k]) \in 1 .. n
  <2>1. \A k \in 1 .. m : o[k] \in B
    BY <1>5
  <2>2. \A i \in B : Rank(B, i) \in 1 .. n
    <3> SUFFICES ASSUME NEW i \in B PROVE Rank(B, i) \in 1 .. n
      OBVIOUS
    <3>1. PICK r : r = Rank(B, i)
      OBVIOUS
    <3>2. r \in 1 .. m /\ m \in Nat
      BY <1>4, <3>1
    <3>3. r \in 1 .. n
      BY <1>1, <1>6, <3>2
    <3> QED BY <3>1, <3>3
  <2> QED BY <1>3, <2>1, <2>2
<1>8. kept = [k \in 1 .. m |-> Inflighted(o[k], pids)]
  BY Zenon DEF Taken
<1>9. \A i \in B : Inflighted(i, pids) = Rearm([l[i] EXCEPT !.id = pids[Rank(B, i)]])
  <2> SUFFICES ASSUME NEW i \in B
               PROVE  Inflighted(i, pids) = Rearm([l[i] EXCEPT !.id = pids[Rank(B, i)]])
    OBVIOUS
  <2>1. {j \in Window(Len(pids)) : j <= i /\ BecomesInflight(j)} = {j \in B : j <= i}
    <3>1. \A j : j \in Window(n) /\ j <= i <=> j \in Window(w) /\ j <= i
      <4>1. i \in Window(w)
        BY <1>3
      <4> QED BY <1>1, <4>1 DEF Window, Unread
    <3> QED BY <1>2, <3>1
  <2>2. BecomesInflight(i)
    BY <1>3
  <2> QED BY <2>1, <2>2, Zenon DEF Inflighted, Rank
<1>10. \A x \in Elem, y \in 1 .. MaxPacketID :
          /\ Rearm([x EXCEPT !.id = y]) \in Elem /\ Rearm([x EXCEPT !.id = y]).id = y
          /\ Rearm([x EXCEPT !.id = y]).msg = x.msg /\ Rearm([x EXCEPT !.id = y]).kind = x.kind
  <2> SUFFICES ASSUME NEW x \in Elem, NEW y \in 1 .. MaxPacketID
               PROVE  /\ Rearm([x EXCEPT !.id = y]) \in Elem /\ Rearm([x EXCEPT !.id = y]).id = y
                      /\ Rearm([x EXCEPT !.id = y]).msg = x.msg
                      /\ Rearm([x EXCEPT !.id = y]).kind = x.kind
    OBVIOUS
  <2>1. PICK z : z = [x EXCEPT !.id = y]
    OBVIOUS
  <2>2. y \in 0 .. MaxPacketID
    BY <1>1
  <2>3. z \in Elem /\ z.id = y /\ z.msg = x.msg /\ z.kind = x.kind
    BY <2>1, <2>2 DEF Elem
  <2>4. Rearm(z) \in Elem /\ Rearm(z).id = y /\ Rearm(z).msg = x.msg /\ Rearm(z).kind = x.kind
    BY <2>3 DEF Rearm, Elem
  <2> QED BY <2>1, <2>4
<1>11. ASSUME NEW k \in 1 .. m
       PROVE  /\ kept[k] \in Elem /\ kept[k].id = pids[Rank(B, o[k])]
              /\ kept[k].msg = l[o[k]].msg /\ kept[k].kind = l[o[k]].kind
  <2>1. PICK i \in B : i = o[k]
    BY <1>7
  <2>2. i \in 1 .. Len(l) /\ Rank(B, i) \in 1 .. n
    BY <1>7, <2>1
  <2>3. PICK y \in 1 .. MaxPacketID : y = pids[Rank(B, i)]
    BY <2>2
  <2>4. PICK x \in Elem : x = l[i]
    BY <2>2, Typed
  <2>5. kept[k] = Rearm([x EXCEPT !.id = y])
    BY <1>8, <1>9, <2>1, <2>3, <2>4
  <2>6. kept[k] \in Elem /\ kept[k].id = y /\ kept[k].msg = x.msg /\ kept[k].kind = x.kind
    BY <1>10, <2>5
  <2> QED BY <2>1, <2>3, <2>4, <2>6
<1>12. kept \in Seq(Elem) /\ Len(kept) = m
  <2>1. kept \in [1 .. m -> Elem]
    BY <1>8, <1>11
  <2>2. m \in Nat
    BY <1>4
  <2> QED BY <2>1, <2>2, Tuples, Zenon
<1>13. ASSUME NEW k \in 1 .. m
       PROVE  kept[k].id # 0 /\ \A i \in 1 .. Len(l) : kept[k].id # l[i].id
  <2>1. kept[k].id \in (1 .. MaxPacketID) \ IdsInList
    BY <1>7, <1>11
  <2>2. kept[k].id # 0
    BY <1>1, <2>1
  <2> QED BY <2>1, <2>2 DEF IdsInList
<1>14. ASSUME NEW j \in 1 .. m, NEW k \in 1 .. m, j # k PROVE kept[j].id # kept[k].id
  <2>1. PICK x \in B, y \in B : x = o[j] /\ y = o[k]
    BY <1>7
  <2>2. x # y /\ x \in Int /\ y \in Int
    <3>1. (j < k \/ k < j) /\ x \in Int /\ y \in Int
      BY <1>3, <1>4, <1>14
    <3>2. x < y \/ y < x
      BY <1>5, <2>1, <3>1
    <3> QED BY <3>1, <3>2
  <2>3. PICK a \in 1 .. n, b \in 1 .. n : a = Rank(B, x) /\ b = Rank(B, y)
    BY <1>7, <2>1
  <2>4. a < b \/ b < a
    BY <1>4, <2>2, <2>3
  <2>5. pids[a] # pids[b]
    BY <2>4
  <2> QED BY <1>11, <2>1, <2>3, <2>5
<1>15. \A i \in Window(w) : BecomesInflight(i) <=> \E k \in 1 .. m : o[k] = i
  <2>1. \A i \in Window(w) : BecomesInflight(i) <=> i \in B
    OBVIOUS
  <2>2. \A k \in 1 .. m : o[k] \in B
    BY <1>7
  <2>3. \A i \in B : \E k \in 1 .. m : o[k] = i
    BY <1>5
  <2> QED BY <2>1, <2>2, <2>3, Zenon
<1>16. \A k \in 1 .. m : kept[k] = Inflighted(o[k], pids)
  BY <1>8
<1> QED BY <1>4, <1>5, <1>6, <1>6a, <1>7, <1>11, <1>12, <1>13, <1>14, <1>15, <1>16 DEF KeptOf

\* The elements of a concatenation.
Concatenates(t, p, q) ==
  /\ t \in Seq(Elem) /\ Len(t) = Len(p) + Len(q)
  /\ \A i \in 1 .. Len(p) : t[i] = p[i]
  /\ \A i \in 1 .. Len(q) : t[Len(p) + i] = q[i]

LEMMA Concatenation ==
  ASSUME NEW p \in Seq(Elem), NEW q \in Seq(Elem), NEW t, t = p \o q
  PROVE  Concatenates(t, p, q)
<1>1. t \in Seq(Elem) /\ Len(t) = Len(p) + Len(q)
  OBVIOUS
<1>2. /\ \A i \in 1 .. Len(p) : t[i] = p[i]
      /\ \A i \in 1 .. Len(q) : t[Len(p) + i] = q[i]
  OBVIOUS
<1> QED BY <1>1, <1>2 DEF Concatenates

\* t is s up to the cursor c, then kept, then what follows position h of s.
Joins(t, s, c, h, kept) ==
  /\ t \in Seq(Elem) /\ Len(t) = c - 1 + Len(kept) + (Len(s) - h)
  /\ \A i \in 1 .. (c - 1) : t[i] = s[i]
  /\ \A k \in 1 .. Len(kept) : t[c - 1 + k] = kept[k]
  /\ \A k \in 1 .. (Len(s) - h) : t[c - 1 + Len(kept) + k] = s[h + k]

LEMMA Rejoined ==
  ASSUME NEW s \in Seq(Elem), NEW c \in 1 .. (Len(s) + 1), NEW n \in Nat, NEW kept \in Seq(Elem)
  PROVE  \E h \in (c - 1) .. Len(s) :
            /\ h <= c + n - 1 /\ (h = Len(s) \/ h = c + n - 1)
            /\ Joins(SubSeq(s, 1, c - 1) \o kept \o SubSeq(s, c + n, Len(s)), s, c, h, kept)
<1>1. Len(s) \in Nat /\ c \in Nat
  OBVIOUS
<1>2. PICK h \in (c - 1) .. Len(s) : h <= c + n - 1 /\ (h = Len(s) \/ h = c + n - 1)
  <2>1. CASE Len(s) <= c + n - 1
    <3>1. Len(s) \in (c - 1) .. Len(s)
      BY <1>1
    <3> QED BY <2>1, <3>1
  <2>2. CASE ~(Len(s) <= c + n - 1)
    <3>1. c + n - 1 \in (c - 1) .. Len(s) /\ c + n - 1 <= c + n - 1
      BY <1>1, <2>2
    <3> QED BY <3>1
  <2> QED BY <2>1, <2>2
<1>3. PICK p : p = SubSeq(s, 1, c - 1)
  OBVIOUS
<1>4. PICK r : r = SubSeq(s, c + n, Len(s))
  OBVIOUS
<1>5. /\ p \in Seq(Elem) /\ Len(p) = c - 1
      /\ \A i \in 1 .. (c - 1) : p[i] = s[i]
  BY <1>1, <1>3
<1>6. h \in 0 .. Len(s)
  BY <1>1, <1>2
<1>7. /\ r \in Seq(Elem) /\ Len(r) = Len(s) - h
      /\ \A i \in 1 .. (Len(s) - h) : r[i] = s[h + i]
  <2>1. PICK u : u = SubSeq(s, h + 1, Len(s))
    OBVIOUS
  <2>2. /\ u \in Seq(Elem) /\ Len(u) = Len(s) - h
        /\ \A i \in 1 .. (Len(s) - h) : u[i] = s[h + i]
    BY <1>1, <1>6, <2>1
  <2>3. CASE h = c + n - 1
    <3>1. h + 1 = c + n
      BY <1>1, <2>3
    <3> QED BY <1>4, <2>1, <2>2, <3>1, Zenon
  <2>4. CASE h = Len(s)
    <3>1. r = << >>
      BY <1>1, <1>2, <1>4, <2>4
    <3>2. u = << >>
      BY <1>1, <2>1, <2>4
    <3> QED BY <2>2, <3>1, <3>2
  <2> QED BY <1>2, <2>3, <2>4
<1>8. PICK u : u = p \o kept
  OBVIOUS
<1>9. Concatenates(u, p, kept)
  BY <1>5, <1>8, Concatenation, Zenon
<1>10. PICK t : t = u \o r
  OBVIOUS
<1>11. Joins(t, s, c, h, kept)
  <2>1. u \in Seq(Elem) /\ r \in Seq(Elem)
    BY <1>7, <1>9 DEF Concatenates
  <2>2. Concatenates(t, u, r)
    BY <1>10, <2>1, Concatenation, Zenon
  <2>3. Len(kept) \in Nat /\ Len(u) = c - 1 + Len(kept)
    BY <1>5, <1>9 DEF Concatenates
  <2>4. Len(t) = c - 1 + Len(kept) + (Len(s) - h)
    BY <1>7, <2>2, <2>3 DEF Concatenates
  <2>5. \A i \in 1 .. (c - 1) : t[i] = s[i]
    <3>1. \A i \in 1 .. (c - 1) : i \in 1 .. Len(u) /\ i \in 1 .. Len(p)
      BY <1>1, <1>5, <2>3
    <3> QED BY <1>5, <1>9, <2>2, <3>1 DEF Concatenates
  <2>6. \A k \in 1 .. Len(kept) : t[c - 1 + k] = kept[k]
    <3>1. \A k \in 1 .. Len(kept) : c - 1 + k \in 1 .. Len(u)
      BY <1>1, <2>3
    <3>2. \A k \in 1 .. Len(kept) : u[c - 1 + k] = kept[k]
      BY <1>5, <1>9 DEF Concatenates
    <3> QED BY <2>2, <3>1, <3>2 DEF Concatenates
  <2>7. \A k \in 1 .. (Len(s) - h) : t[c - 1 + Len(kept) + k] = s[h + k]
    BY <1>7, <2>2, <2>3 DEF Concatenates
  <2> QED BY <2>2, <2>4, <2>5, <2>6, <2>7 DEF Joins, Concatenates
<1>12. t = SubSeq(s, 1, c - 1) \o kept \o SubSeq(s, c + n, Len(s))
  BY <1>3, <1>4, <1>8, <1>10
<1> QED BY <1>2, <1>11, <1>12, Zenon

\* The list after Read.
LEMMA Reassembled ==
  ASSUME QueueInv, inflightDrained = TRUE, NEW n \in Nat, NEW pids, NEW m, NEW o, NEW kept, KeptOf(n, pids, m, o, kept),
         NEW h \in (current - 1) .. Len(l), h = Len(l) \/ h = current + n - 1,
         NEW t, Joins(t, l, current, h, kept)
  PROVE  WellFormed(t, current + m, TRUE, added) /\ Len(t) <= Len(l)
<1>1. Len(l) \in Nat /\ current \in 1 .. (Len(l) + 1) /\ current \in Nat
  BY Typed
<1>2. m \in Nat /\ m <= n /\ current + m <= Len(l) + 1 /\ Len(kept) = m
  BY DEF KeptOf
<1>3. m <= h - (current - 1)
  BY <1>1, <1>2
<1>4. t \in Seq(Elem) /\ Len(t) = current - 1 + m + (Len(l) - h)
  BY <1>2 DEF Joins
<1>5. Len(t) \in Nat /\ Len(t) <= Len(l) /\ Len(t) >= current - 1 + m
  BY <1>1, <1>2, <1>3, <1>4
<1>6. \A k \in 1 .. m : o[k] \in current .. h
  <2>1. \A k \in 1 .. m : o[k] \in Window(n)
    BY DEF KeptOf
  <2>2. Window(n) \subseteq current .. h
    BY <1>1 DEF Window, Unread
  <2> QED BY <2>1, <2>2
<1> DEFINE at == [i \in 1 .. Len(t) |-> IF i < current THEN i
                                        ELSE IF i < current + m THEN o[i - (current - 1)]
                                        ELSE h + (i - (current - 1 + m))]
<1>7. ASSUME NEW i \in 1 .. (current - 1)
      PROVE  i \in 1 .. Len(t) /\ at[i] = i /\ t[i] = l[i] /\ i \in 1 .. Len(l)
  <2>1. i \in 1 .. Len(t) /\ i \in 1 .. Len(l) /\ i < current
    BY <1>1, <1>2, <1>5
  <2>2. t[i] = l[i]
    BY DEF Joins
  <2> QED BY <2>1, <2>2
<1>8. ASSUME NEW i \in current .. (current - 1 + m)
      PROVE  \E k \in 1 .. m : /\ k = i - (current - 1) /\ i \in 1 .. Len(t) /\ at[i] = o[k]
                               /\ t[i] = kept[k] /\ o[k] \in 1 .. Len(l) /\ o[k] >= current /\ o[k] <= h
  <2>1. PICK k \in 1 .. m : k = i - (current - 1)
    BY <1>1, <1>2
  <2>2. i \in 1 .. Len(t) /\ ~(i < current) /\ i < current + m /\ current - 1 + k = i
    BY <1>1, <1>2, <1>5, <2>1
  <2>3. at[i] = o[k]
    BY <2>1, <2>2
  <2>4. t[i] = kept[k]
    BY <1>2, <2>2 DEF Joins
  <2>5. o[k] \in current .. h
    BY <1>6
  <2>6. o[k] \in 1 .. Len(l) /\ o[k] >= current /\ o[k] <= h
    BY <1>1, <2>5
  <2> QED BY <2>1, <2>2, <2>3, <2>4, <2>6
<1>9. ASSUME NEW i \in (current + m) .. Len(t)
      PROVE  \E k \in 1 .. (Len(l) - h) : /\ i = current - 1 + m + k /\ i \in 1 .. Len(t) /\ at[i] = h + k
                                          /\ t[i] = l[h + k] /\ h + k \in current .. Len(l)
                                          /\ h + k \in 1 .. Len(l)
  <2>1. PICK k \in 1 .. (Len(l) - h) : k = i - (current - 1 + m)
    BY <1>1, <1>2, <1>4
  <2>2. i \in 1 .. Len(t) /\ ~(i < current) /\ ~(i < current + m) /\ i = current - 1 + m + k
    BY <1>1, <1>2, <1>5, <2>1
  <2>3. at[i] = h + k
    BY <2>1, <2>2
  <2>4. t[i] = l[h + k]
    BY <1>2, <2>2 DEF Joins
  <2>5. h + k \in current .. Len(l) /\ h + k \in 1 .. Len(l)
    BY <1>1
  <2> QED BY <2>2, <2>3, <2>4, <2>5
<1> HIDE DEF at
<1>10. \A i \in 1 .. Len(t) : \/ i \in 1 .. (current - 1)
                              \/ i \in current .. (current - 1 + m)
                              \/ i \in (current + m) .. Len(t)
  BY <1>1, <1>2, <1>5
<1>11. \A i \in 1 .. Len(t) : /\ at[i] \in 1 .. Len(l)
                              /\ t[i].msg = l[at[i]].msg /\ t[i].kind = l[at[i]].kind
  <2> SUFFICES ASSUME NEW i \in 1 .. Len(t)
               PROVE  /\ at[i] \in 1 .. Len(l)
                      /\ t[i].msg = l[at[i]].msg /\ t[i].kind = l[at[i]].kind
    OBVIOUS
  <2>1. CASE i \in 1 .. (current - 1)
    BY <1>7, <2>1
  <2>2. CASE i \in current .. (current - 1 + m)
    <3>1. PICK k \in 1 .. m : at[i] = o[k] /\ t[i] = kept[k] /\ o[k] \in 1 .. Len(l)
      BY <1>8, <2>2
    <3>2. kept[k].msg = l[o[k]].msg /\ kept[k].kind = l[o[k]].kind
      BY DEF KeptOf
    <3> QED BY <3>1, <3>2
  <2>3. CASE i \in (current + m) .. Len(t)
    BY <1>9, <2>3
  <2> QED BY <1>10, <2>1, <2>2, <2>3
<1>12. \A i, j \in 1 .. Len(t) : i < j => at[i] < at[j]
  <2> SUFFICES ASSUME NEW i \in 1 .. Len(t), NEW j \in 1 .. Len(t), i < j PROVE at[i] < at[j]
    OBVIOUS
  <2>1. CASE i \in 1 .. (current - 1)
    <3>1. at[i] = i
      BY <1>7, <2>1
    <3>2. CASE j \in 1 .. (current - 1)
      BY <1>7, <3>1, <3>2
    <3>3. CASE j \in current .. (current - 1 + m)
      <4>1. at[j] >= current /\ at[j] \in Int
        BY <1>8, <3>3
      <4> QED BY <1>1, <2>1, <3>1, <4>1
    <3>4. CASE j \in (current + m) .. Len(t)
      <4>1. at[j] >= current /\ at[j] \in Int
        BY <1>1, <1>9, <3>4
      <4> QED BY <1>1, <2>1, <3>1, <4>1
    <3> QED BY <1>10, <3>2, <3>3, <3>4
  <2>2. CASE i \in current .. (current - 1 + m)
    <3>1. PICK k \in 1 .. m : at[i] = o[k] /\ k = i - (current - 1) /\ o[k] <= h /\ o[k] \in Int
      BY <1>8, <2>2
    <3>2. j \notin 1 .. (current - 1)
      BY <1>1, <2>2
    <3>3. CASE j \in current .. (current - 1 + m)
      <4>1. PICK q \in 1 .. m : at[j] = o[q] /\ q = j - (current - 1)
        BY <1>8, <3>3
      <4>2. k < q
        BY <1>1, <3>1, <4>1
      <4> QED BY <3>1, <4>1, <4>2 DEF KeptOf
    <3>4. CASE j \in (current + m) .. Len(t)
      <4>1. PICK q \in 1 .. (Len(l) - h) : at[j] = h + q
        BY <1>9, <3>4
      <4> QED BY <1>1, <3>1, <4>1
    <3> QED BY <1>10, <3>2, <3>3, <3>4
  <2>3. CASE i \in (current + m) .. Len(t)
    <3>1. j \in (current + m) .. Len(t)
      BY <1>1, <1>2, <1>5, <2>3
    <3>2. PICK k \in 1 .. (Len(l) - h) : i = current - 1 + m + k /\ at[i] = h + k
      BY <1>9, <2>3
    <3>3. PICK q \in 1 .. (Len(l) - h) : j = current - 1 + m + q /\ at[j] = h + q
      BY <1>9, <3>1
    <3> QED BY <1>1, <1>2, <3>2, <3>3
  <2> QED BY <1>10, <2>1, <2>2, <2>3
<1>13. \A i \in 1 .. (current - 1) : at[i] = i /\ t[i].id = l[i].id
  BY <1>7
<1>14. \A i \in current .. Len(t) : at[i] >= current
  <2> SUFFICES ASSUME NEW i \in current .. Len(t) PROVE at[i] >= current
    OBVIOUS
  <2>1. i \in current .. (current - 1 + m) \/ i \in (current + m) .. Len(t)
    BY <1>1, <1>2, <1>5
  <2>2. CASE i \in current .. (current - 1 + m)
    BY <1>8, <2>2
  <2>3. CASE i \in (current + m) .. Len(t)
    BY <1>1, <1>9, <2>3
  <2> QED BY <2>1, <2>2, <2>3
<1>15. \A i \in current .. (current - 1 + m) :
          /\ t[i].id # 0 /\ \A j \in 1 .. Len(l) : t[i].id # l[j].id
          /\ \A j \in current .. (current - 1 + m) : i # j => t[i].id # t[j].id
  <2> SUFFICES ASSUME NEW i \in current .. (current - 1 + m)
               PROVE  /\ t[i].id # 0 /\ \A j \in 1 .. Len(l) : t[i].id # l[j].id
                      /\ \A j \in current .. (current - 1 + m) : i # j => t[i].id # t[j].id
    OBVIOUS
  <2>1. PICK k \in 1 .. m : t[i] = kept[k] /\ k = i - (current - 1)
    BY <1>8
  <2>2. t[i].id # 0 /\ \A j \in 1 .. Len(l) : t[i].id # l[j].id
    BY <2>1 DEF KeptOf
  <2>3. ASSUME NEW j \in current .. (current - 1 + m), i # j PROVE t[i].id # t[j].id
    <3>1. PICK q \in 1 .. m : t[j] = kept[q] /\ q = j - (current - 1)
      BY <1>8
    <3>2. k # q
      BY <1>1, <1>2, <2>1, <2>3, <3>1
    <3> QED BY <2>1, <3>1, <3>2 DEF KeptOf
  <2> QED BY <2>2, <2>3
<1>16. \A i \in (current + m) .. Len(t) : t[i].id = 0
  BY <1>9 DEF QueueInv, WellFormed
<1>17. WellFormed(l, current, TRUE, added) /\ added \in Nat
  BY Typed DEF QueueInv
<1>18. WellFormed(t, current + m, TRUE, added)
  <2>1. m \in Nat /\ current - 1 + m <= Len(t) /\ t \in Seq(Elem)
    BY <1>2, <1>4, <1>5
  <2>2. Renumbers(t, l, current, m, at)
    BY <1>11, <1>12, <1>13, <1>14, <1>15, <1>16, <2>1, Zenon DEF Renumbers
  <2> QED BY <1>17, <2>2, Numbered, Zenon
<1> QED BY <1>5, <1>18

\* A read of w elements with the identifiers pids turns the list into t: up to the cursor it stays,
\* of the elements up to h those at the positions o remain as kept, and the others follow.
BatchOf(w, pids, t, m, o, kept, h) ==
  /\ KeptOf(w, pids, m, o, kept)
  /\ h \in (current - 1) .. Len(l) /\ h <= current + w - 1 /\ (h = Len(l) \/ h = current + w - 1)
  /\ Joins(t, l, current, h, kept)

LEMMA BatchTaken ==
  ASSUME QueueInv, NEW n \in Nat \ {0}, NEW pids \in [1 .. n -> (1 .. MaxPacketID) \ IdsInList],
         \A i, j \in 1 .. n : i < j => pids[i] # pids[j],
         NEW w \in 1 .. n, NEW kept, kept = Taken({i \in Window(w) : BecomesInflight(i)}, pids),
         NEW t, t = SubSeq(l, 1, current - 1) \o kept \o SubSeq(l, current + w, Len(l))
  PROVE  \E m, o, h : BatchOf(w, pids, t, m, o, kept, h)
<1>1. PICK B : B = {i \in Window(w) : BecomesInflight(i)}
  OBVIOUS
<1>2. PICK m : m = Cardinality(B)
  OBVIOUS
<1>3. PICK o : o = InOrder(B)
  OBVIOUS
<1>4. KeptOf(w, pids, m, o, kept)
  <2>1. kept = Taken(B, pids)
    BY <1>1
  <2> QED BY <1>1, <1>2, <1>3, <2>1, KeptMessages, Zenon
<1>5. l \in Seq(Elem) /\ current \in 1 .. (Len(l) + 1) /\ kept \in Seq(Elem) /\ w \in Nat
  BY <1>4, Typed DEF KeptOf
<1>6. PICK h \in (current - 1) .. Len(l) :
         h <= current + w - 1 /\ (h = Len(l) \/ h = current + w - 1) /\ Joins(t, l, current, h, kept)
  BY <1>5, Rejoined, Zenon
<1>7. BatchOf(w, pids, t, m, o, kept, h)
  BY <1>4, <1>6, Zenon DEF BatchOf
<1> QED BY <1>7, Zenon

LEMMA BatchWellFormed ==
  ASSUME QueueInv, inflightDrained = TRUE, NEW w \in Nat, NEW pids, NEW t, NEW m, NEW o, NEW kept, NEW h,
         BatchOf(w, pids, t, m, o, kept, h)
  PROVE  m \in Nat /\ Len(kept) = m /\ WellFormed(t, current + m, TRUE, added) /\ Len(t) <= Len(l)
<1>1. /\ KeptOf(w, pids, m, o, kept) /\ h \in (current - 1) .. Len(l) /\ (h = Len(l) \/ h = current + w - 1)
      /\ Joins(t, l, current, h, kept)
  BY DEF BatchOf
<1>2. WellFormed(t, current + m, TRUE, added) /\ Len(t) <= Len(l)
  BY <1>1, Reassembled, Zenon
<1> QED BY <1>1, <1>2 DEF KeptOf

\* What is dropped by a read was a message.
LEMMA DeadMessages ==
  ASSUME QueueInv, NEW n \in Nat, NEW T, T \subseteq Window(n)
  PROVE  {l[i].msg : i \in T} \subseteq 1 .. MaxMsgs
<1>1. Len(l) \in Nat /\ current \in 1 .. (Len(l) + 1)
  BY Typed
<1>2. \A i \in Window(n) : i \in 1 .. Len(l)
  BY <1>1 DEF Window, Unread
<1>3. \A i \in 1 .. Len(l) : l[i].msg \in 1 .. MaxMsgs
  BY Typed DEF Elem
<1> QED BY <1>2, <1>3

\* Read keeps the invariant.
LEMMA Reads ==
  ASSUME QueueInv, NEW n \in Nat \ {0}, NEW pids \in [1 .. n -> (1 .. MaxPacketID) \ IdsInList],
         \A i, j \in 1 .. n : i < j => pids[i] # pids[j], Read(pids)
  PROVE  QueueInv' /\ Len(l') <= Len(l)
<1>1. n \in Nat /\ Len(pids) = n /\ n \in 1 .. n
  OBVIOUS
<1>2. PICK kept : kept = Taken({i \in Window(n) : BecomesInflight(i)}, pids)
  OBVIOUS
<1>3. kept = ReadKept(pids)
  BY <1>1, <1>2 DEF ReadKept
<1>4. PICK t : t = SubSeq(l, 1, current - 1) \o kept \o SubSeq(l, current + n, Len(l))
  OBVIOUS
<1>5. /\ inflightDrained = TRUE /\ l' = t /\ current' = current + Len(kept)
      /\ dropped' = dropped \cup {l[i].msg : i \in {j \in Window(n) : Dead(j)}}
      /\ UNCHANGED <<inflightDrained, closed, added>>
  BY <1>1, <1>3, <1>4 DEF Read, NotifyDropped, QueueInv
<1>6. PICK m, o, h : BatchOf(n, pids, t, m, o, kept, h)
  BY <1>1, <1>2, <1>4, BatchTaken, Zenon
<1>7. m \in Nat /\ Len(kept) = m /\ WellFormed(t, current + m, TRUE, added) /\ Len(t) <= Len(l)
  BY <1>1, <1>5, <1>6, BatchWellFormed, Zenon
<1>8. PICK T : T = {j \in Window(n) : Dead(j)}
  OBVIOUS
<1>9. {l[i].msg : i \in T} \subseteq 1 .. MaxMsgs
  <2>1. T \subseteq Window(n)
    BY <1>8
  <2> QED BY <1>1, <2>1, DeadMessages, Zenon
<1>10. dropped' \subseteq 1 .. MaxMsgs
  BY <1>5, <1>8, <1>9 DEF QueueInv
<1>11. PICK b : b = current + m
  OBVIOUS
<1>12. current' = b /\ WellFormed(t, b, TRUE, added)
  BY <1>5, <1>7, <1>11
<1> QED BY <1>5, <1>7, <1>10, <1>12 DEF QueueInv

-----------------------------------------------------------------------------
(* What the steps do to the two parts of the list, for those who use the queue. *)

\* The elements before the cursor, which are inflight and have been given to the poller, and the
\* others.
Written == {l[i] : i \in 1 .. (current - 1)}
Waiting == {l[i] : i \in current .. Len(l)}

\* Both parts together hold each message and each identifier once.
LEMMA Parts ==
  ASSUME QueueInv
  PROVE  /\ Written \subseteq Elem /\ Waiting \subseteq Elem
         /\ \A x \in Written : x.id # 0
         /\ \A x, y \in Written \cup Waiting : x.id # 0 /\ x.id = y.id => x = y
         /\ \A x, y \in Written \cup Waiting : x.msg = y.msg => x = y
         /\ \A x \in Written, y \in Waiting : x.msg < y.msg
         /\ Written \cap Waiting = {}
         /\ \A x \in Written \cup Waiting : x.msg <= added /\ (x.kind = "pubrel" => x.id # 0)
         /\ inflightDrained => \A x \in Waiting : x.id = 0
<1>1. l \in Seq(Elem) /\ Len(l) \in Nat /\ current \in 1 .. (Len(l) + 1)
  BY Typed
<1>2. /\ \A i \in 1 .. (current - 1) : i \in 1 .. Len(l) /\ i < current
      /\ \A i \in current .. Len(l) : i \in 1 .. Len(l) /\ ~(i < current)
  BY <1>1
<1>3. \A x \in Written : \E i \in 1 .. Len(l) : x = l[i] /\ i < current
  BY <1>2 DEF Written
<1>4. \A x \in Waiting : \E i \in 1 .. Len(l) : x = l[i] /\ ~(i < current)
  BY <1>2 DEF Waiting
<1>5. \A x \in Written \cup Waiting : \E i \in 1 .. Len(l) : x = l[i]
  BY <1>3, <1>4
<1>6. \A i, j \in 1 .. Len(l) : i < j \/ j < i \/ i = j
  BY <1>1
<1>7. Written \subseteq Elem /\ Waiting \subseteq Elem
  BY <1>3, <1>4, Typed
<1>8. \A x \in Written : x.id # 0
  BY DEF Written, QueueInv, WellFormed
<1>9. \A x, y \in Written \cup Waiting : x.id # 0 /\ x.id = y.id => x = y
  <2>1. \A i, j \in 1 .. Len(l) : l[i].id # 0 /\ l[i].id = l[j].id => i = j
    BY DEF QueueInv, WellFormed
  <2> QED BY <1>5, <2>1
<1>10. \A i, j \in 1 .. Len(l) : i < j => l[i].msg < l[j].msg /\ l[i].msg \in Int /\ l[j].msg \in Int
  BY Typed DEF QueueInv, WellFormed, Elem
<1>11. \A x, y \in Written \cup Waiting : x.msg = y.msg => x = y
  <2>1. \A i, j \in 1 .. Len(l) : l[i].msg = l[j].msg => i = j
    BY <1>6, <1>10
  <2> QED BY <1>5, <2>1
<1>12. \A x \in Written, y \in Waiting : x.msg < y.msg /\ x.msg # y.msg
  <2>1. \A i, j \in 1 .. Len(l) : i < current /\ ~(j < current) => i < j
    BY <1>1
  <2> QED BY <1>3, <1>4, <1>10, <2>1
<1>13. \A x \in Written \cup Waiting : x.msg <= added /\ (x.kind = "pubrel" => x.id # 0)
  BY <1>5 DEF QueueInv, WellFormed
<1>14. inflightDrained => \A x \in Waiting : x.id = 0
  BY DEF Waiting, QueueInv, WellFormed
<1> QED BY <1>7, <1>8, <1>9, <1>11, <1>12, <1>13, <1>14

\* Positions are told apart by their elements.
LEMMA Places ==
  ASSUME QueueInv
  PROVE  \A i, j \in 1 .. Len(l) : l[i] = l[j] => i = j
<1>1. \A i, j \in 1 .. Len(l) : i < j => l[i].msg < l[j].msg /\ l[i].msg \in Int /\ l[j].msg \in Int
  BY Typed DEF QueueInv, WellFormed, Elem
<1>2. \A i, j \in 1 .. Len(l) : i < j \/ j < i \/ i = j
  BY Typed
<1> QED BY <1>1, <1>2

\* t with its cursor at b has the elements of the queue but the one at v.
PartsWithout(v, t, b) ==
  /\ {t[i] : i \in 1 .. (b - 1)} = Written \ {l[v]}
  /\ {t[i] : i \in b .. Len(t)} = Waiting \ {l[v]}
  /\ v < current => l[v] \in Written
  /\ ~(v < current) => l[v] \in Waiting

LEMMA PartsTakenOut ==
  ASSUME QueueInv, NEW v \in 1 .. Len(l), NEW t, t = SeqExt!RemoveAt(l, v),
         NEW b, b = IF v < current THEN current - 1 ELSE current
  PROVE  PartsWithout(v, t, b)
<1>1. l \in Seq(Elem) /\ Len(l) \in Nat /\ current \in 1 .. (Len(l) + 1) /\ added \in Nat
  BY Typed
<1>2. /\ Len(t) = Len(l) - 1
      /\ \A i \in 1 .. Len(t) : t[i] = l[IF i < v THEN i ELSE i + 1]
  BY <1>1, TakenOut DEF QueueInv
<1>3. \A i, j \in 1 .. Len(l) : l[i] = l[j] => i = j
  BY Places
<1>4. {t[i] : i \in 1 .. (b - 1)} = Written \ {l[v]}
  <2>1. ASSUME NEW i \in 1 .. (b - 1) PROVE t[i] \in Written \ {l[v]}
    <3>1. PICK j \in 1 .. (current - 1) : j = (IF i < v THEN i ELSE i + 1) /\ j # v /\ j \in 1 .. Len(l)
      BY <1>1
    <3>2. t[i] = l[j]
      BY <1>1, <1>2, <3>1
    <3>3. l[j] # l[v]
      BY <1>3, <3>1
    <3> QED BY <3>1, <3>2, <3>3 DEF Written
  <2>2. ASSUME NEW j \in 1 .. (current - 1), l[j] # l[v] PROVE \E i \in 1 .. (b - 1) : t[i] = l[j]
    <3>1. PICK i \in 1 .. (b - 1) : j = IF i < v THEN i ELSE i + 1
      <4>1. j # v
        BY <2>2
      <4>2. CASE j < v
        <5>1. j \in 1 .. (b - 1)
          BY <1>1, <4>2
        <5> QED BY <4>2, <5>1
      <4>3. CASE j > v
        <5>1. j - 1 \in 1 .. (b - 1) /\ ~(j - 1 < v) /\ j = (j - 1) + 1
          BY <1>1, <4>3
        <5> QED BY <5>1
      <4> QED BY <1>1, <4>1, <4>2, <4>3
    <3>2. i \in 1 .. Len(t)
      BY <1>1, <1>2
    <3> QED BY <1>2, <3>1, <3>2
  <2> QED BY <2>1, <2>2 DEF Written
<1>5. {t[i] : i \in b .. Len(t)} = Waiting \ {l[v]}
  <2>1. ASSUME NEW i \in b .. Len(t) PROVE t[i] \in Waiting \ {l[v]}
    <3>1. PICK j \in current .. Len(l) : j = (IF i < v THEN i ELSE i + 1) /\ j # v /\ j \in 1 .. Len(l)
      BY <1>1, <1>2
    <3>2. t[i] = l[j]
      BY <1>1, <1>2, <3>1
    <3>3. l[j] # l[v]
      BY <1>3, <3>1
    <3> QED BY <3>1, <3>2, <3>3 DEF Waiting
  <2>2. ASSUME NEW j \in current .. Len(l), l[j] # l[v] PROVE \E i \in b .. Len(t) : t[i] = l[j]
    <3>1. PICK i \in b .. Len(t) : j = IF i < v THEN i ELSE i + 1
      <4>1. j # v
        BY <2>2
      <4>2. CASE j < v
        <5>1. j \in b .. Len(t)
          BY <1>1, <1>2, <4>2
        <5> QED BY <4>2, <5>1
      <4>3. CASE j > v
        <5>1. j - 1 \in b .. Len(t) /\ ~(j - 1 < v) /\ j = (j - 1) + 1
          BY <1>1, <1>2, <4>3
        <5> QED BY <5>1
      <4> QED BY <1>1, <4>1, <4>2, <4>3
    <3>2. i \in 1 .. Len(t)
      BY <1>1, <1>2
    <3> QED BY <1>2, <3>1, <3>2
  <2> QED BY <2>1, <2>2 DEF Waiting
<1>6. (v < current => l[v] \in Written) /\ (~(v < current) => l[v] \in Waiting)
  BY <1>1 DEF Written, Waiting
<1> QED BY <1>4, <1>5, <1>6 DEF PartsWithout

LEMMA PartsWithRoom ==
  ASSUME QueueInv, NEW e, AddRoom(e)
  PROVE  Written' = Written /\ Waiting' = Waiting \cup {e} /\ UNCHANGED dropped
<1>1. l \in Seq(Elem) /\ Len(l) \in Nat /\ current \in 1 .. (Len(l) + 1)
  BY Typed
<1>2. l' = Append(l, e) /\ current' = current /\ UNCHANGED dropped
  BY DEF AddRoom
<1>3. /\ Len(l') = Len(l) + 1 /\ l'[Len(l) + 1] = e
      /\ \A i \in 1 .. Len(l) : l'[i] = l[i]
  BY <1>1, <1>2
<1>4. \A i \in 1 .. (current - 1) : i \in 1 .. Len(l)
  BY <1>1
<1>5. Written' = Written
  BY <1>2, <1>3, <1>4 DEF Written
<1>6. /\ \A i \in current .. Len(l') : i \in current .. Len(l) \/ i = Len(l) + 1
      /\ \A i \in current .. Len(l) : i \in current .. Len(l') /\ i \in 1 .. Len(l)
      /\ Len(l) + 1 \in current .. Len(l')
  BY <1>1, <1>3
<1>7. Waiting' = Waiting \cup {e}
  BY <1>2, <1>3, <1>6 DEF Waiting
<1> QED BY <1>2, <1>5, <1>7

\* Add makes room: the expired message in front goes, or one that has no identifier yet.
LEMMA PartsEvicting ==
  ASSUME QueueInv, NEW e, AddEvict(e)
  PROVE  \E x \in Written \cup Waiting :
            /\ dropped' = dropped \cup (IF x.kind = "publish" THEN {x.msg} ELSE {})
            /\ Written' = Written \ {x} /\ Waiting' = (Waiting \ {x}) \cup {e}
            /\ \/ FrontExpired /\ x = l[1] /\ x \in Written /\ x.expiry = "expired"
               \/ ~FrontExpired /\ x \in Waiting /\ x.id = 0
<1>1. /\ l \in Seq(Elem) /\ Len(l) \in Nat /\ current \in 1 .. (Len(l) + 1) /\ added \in Nat
      /\ MaxQueuedMsg \in Nat \ {0}
  BY Typed
<1>2. PICK v : v = Victim(e)
  OBVIOUS
<1>3. Full /\ v # 0
  BY <1>2 DEF AddEvict
<1>4. v \in 1 .. Len(l)
  BY <1>2, <1>3, Victims, Zenon
<1>5. PICK t : t = SeqExt!RemoveAt(l, v)
  OBVIOUS
<1>6. PICK b : b = IF v < current THEN current - 1 ELSE current
  OBVIOUS
<1>7. /\ l' = Append(t, e) /\ current' = b
      /\ dropped' = dropped \cup (IF l[v].kind = "publish" THEN {l[v].msg} ELSE {})
  BY <1>2, <1>5, <1>6 DEF AddEvict, NotifyDropped
<1>8. /\ {t[i] : i \in 1 .. (b - 1)} = Written \ {l[v]}
      /\ {t[i] : i \in b .. Len(t)} = Waiting \ {l[v]}
      /\ v < current => l[v] \in Written
      /\ ~(v < current) => l[v] \in Waiting
  <2>1. PartsWithout(v, t, b)
    BY <1>4, <1>5, <1>6, PartsTakenOut, Zenon
  <2> QED BY <2>1 DEF PartsWithout
<1>9. t \in Seq(Elem) /\ Len(t) \in Nat /\ b \in 1 .. (Len(t) + 1)
  <2>1. WellFormed(t, b, inflightDrained, added)
    BY <1>4, <1>5, <1>6, QueueTakenOut, Zenon
  <2> QED BY <2>1 DEF WellFormed
<1>10. /\ Len(l') = Len(t) + 1 /\ l'[Len(t) + 1] = e
       /\ \A i \in 1 .. Len(t) : l'[i] = t[i]
  BY <1>7, <1>9
<1>11. Written' = {t[i] : i \in 1 .. (b - 1)}
  <2>1. \A i \in 1 .. (b - 1) : i \in 1 .. Len(t)
    BY <1>9
  <2> QED BY <1>7, <1>10, <2>1 DEF Written
<1>12. Waiting' = {t[i] : i \in b .. Len(t)} \cup {e}
  <2>1. /\ \A i \in b .. Len(l') : i \in b .. Len(t) \/ i = Len(t) + 1
        /\ \A i \in b .. Len(t) : i \in b .. Len(l') /\ i \in 1 .. Len(t)
        /\ Len(t) + 1 \in b .. Len(l')
    BY <1>9, <1>10
  <2> QED BY <1>7, <1>10, <2>1 DEF Waiting
<1>13. CASE FrontExpired
  <2>1. v = 1
    BY <1>2, <1>13 DEF Victim, Scans
  <2>2. v < current
    BY <1>1, <1>13, <2>1 DEF FrontExpired
  <2>3. l[v].expiry = "expired"
    BY <1>13, <2>1 DEF FrontExpired, ElemExpiry
  <2> QED BY <1>7, <1>8, <1>11, <1>12, <1>13, <2>1, <2>2, <2>3
<1>14. CASE ~FrontExpired
  <2>1. v \in Unread /\ l[v].id = 0
    <3>1. /\ Unread \in SUBSET (1 .. Len(l))
          /\ ExpiredUnread \in SUBSET (1 .. Len(l)) /\ ExpiredUnread \subseteq Unread
          /\ QoS0Unread \in SUBSET (1 .. Len(l)) /\ QoS0Unread \subseteq Unread
      BY <1>1 DEF Unread, ExpiredUnread, QoS0Unread
    <3>2. Scans
      BY <1>2, <1>3, <1>14 DEF Victim
    <3>3. CASE ExpiredUnread # {}
      <4>1. v = Min(ExpiredUnread)
        BY <1>2, <1>14, <3>2, <3>3 DEF Victim
      <4>2. v \in ExpiredUnread
        BY <1>1, <3>1, <3>3, <4>1, FirstOf, Zenon
      <4> QED BY <3>1, <4>2 DEF ExpiredUnread
    <3>4. CASE ExpiredUnread = {} /\ QoS0Unread # {}
      <4>1. v = Min(QoS0Unread)
        BY <1>2, <1>14, <3>2, <3>4 DEF Victim
      <4>2. v \in QoS0Unread
        BY <1>1, <3>1, <3>4, <4>1, FirstOf, Zenon
      <4> QED BY <3>1, <4>2 DEF QoS0Unread
    <3>5. CASE ExpiredUnread = {} /\ QoS0Unread = {}
      <4>1. inflightDrained /\ v = current
        BY <1>2, <1>3, <1>14, <3>2, <3>5 DEF Victim
      <4>2. v \in Unread
        BY <1>1, <1>4, <4>1 DEF Unread
      <4> QED BY <4>1, <4>2 DEF QueueInv, WellFormed, Unread
    <3> QED BY <3>3, <3>4, <3>5
  <2>2. ~(v < current)
    BY <1>1, <2>1 DEF Unread
  <2> QED BY <1>7, <1>8, <1>11, <1>12, <1>14, <2>1, <2>2
<1> QED BY <1>13, <1>14

LEMMA PartsRemoving ==
  ASSUME QueueInv, NEW pid, Remove(pid)
  PROVE  \/ UNCHANGED mqVars /\ \A x \in Written : x.id # pid
         \/ /\ UNCHANGED <<inflightDrained, closed, added, dropped>>
            /\ \E x \in Written : x.id = pid /\ Written' = Written \ {x} /\ Waiting' = Waiting
<1>1. CASE Carrying(pid) = {}
  <2>1. \A x \in Written : x.id # pid
    BY <1>1 DEF Carrying, Written
  <2> QED BY <1>1, <2>1 DEF Remove
<1>2. CASE Carrying(pid) # {}
  <2>1. PICK v : v = Min(Carrying(pid))
    OBVIOUS
  <2>2. v \in 1 .. Len(l) /\ v < current /\ l[v].id = pid
    BY <1>2, <2>1, Carriers, Zenon
  <2>3. PICK t : t = SeqExt!RemoveAt(l, v)
    OBVIOUS
  <2>4. PICK b : b = IF v < current THEN current - 1 ELSE current
    OBVIOUS
  <2>5. l' = t /\ current' = b /\ UNCHANGED <<inflightDrained, closed, added, dropped>>
    BY <1>2, <2>1, <2>2, <2>3, <2>4 DEF Remove
  <2>6. /\ {t[i] : i \in 1 .. (b - 1)} = Written \ {l[v]}
        /\ {t[i] : i \in b .. Len(t)} = Waiting \ {l[v]}
        /\ l[v] \in Written
    <3>1. PartsWithout(v, t, b)
      BY <2>2, <2>3, <2>4, PartsTakenOut, Zenon
    <3> QED BY <2>2, <3>1 DEF PartsWithout
  <2>7. Written' = Written \ {l[v]} /\ Waiting' = Waiting \ {l[v]}
    BY <2>5, <2>6 DEF Written, Waiting
  <2>8. l[v] \notin Waiting
    BY <2>6, Parts
  <2> QED BY <2>2, <2>5, <2>6, <2>7, <2>8
<1> QED BY <1>1, <1>2

\* The element at one position becomes x.
LEMMA PartsChanged ==
  ASSUME QueueInv, NEW v \in 1 .. Len(l), NEW x, l' = [l EXCEPT ![v] = x], UNCHANGED current
  PROVE  /\ v < current => /\ l[v] \in Written
                           /\ Written' = (Written \ {l[v]}) \cup {x} /\ Waiting' = Waiting
         /\ ~(v < current) => /\ l[v] \in Waiting
                              /\ Waiting' = (Waiting \ {l[v]}) \cup {x} /\ Written' = Written
<1>1. l \in Seq(Elem) /\ Len(l) \in Nat /\ current \in 1 .. (Len(l) + 1)
  BY Typed
<1>2. Len(l') = Len(l) /\ \A i \in 1 .. Len(l) : l'[i] = IF i = v THEN x ELSE l[i]
  BY <1>1
<1>3. \A i, j \in 1 .. Len(l) : l[i] = l[j] => i = j
  BY Places
<1>4. /\ \A i \in 1 .. (current - 1) : i \in 1 .. Len(l) /\ i < current
      /\ \A i \in current .. Len(l) : i \in 1 .. Len(l) /\ ~(i < current)
  BY <1>1
<1>5. CASE v < current
  <2>1. v \in 1 .. (current - 1)
    BY <1>1, <1>5
  <2>2. Waiting' = Waiting
    BY <1>2, <1>4, <1>5 DEF Waiting
  <2>3. Written' = (Written \ {l[v]}) \cup {x}
    BY <1>2, <1>3, <1>4, <2>1 DEF Written
  <2> QED BY <1>5, <2>1, <2>2, <2>3 DEF Written
<1>6. CASE ~(v < current)
  <2>1. v \in current .. Len(l)
    BY <1>1, <1>6
  <2>2. Written' = Written
    BY <1>2, <1>4, <1>6 DEF Written
  <2>3. Waiting' = (Waiting \ {l[v]}) \cup {x}
    BY <1>2, <1>3, <1>4, <2>1 DEF Waiting
  <2> QED BY <1>6, <2>1, <2>2, <2>3 DEF Waiting
<1> QED BY <1>5, <1>6

LEMMA PartsReplacing ==
  ASSUME QueueInv, NEW pid, Replace(pid)
  PROVE  \/ UNCHANGED mqVars /\ \A x \in Written : x.id # pid
         \/ /\ UNCHANGED <<inflightDrained, closed, added, dropped>>
            /\ \E x \in Written :
                  /\ x.id = pid /\ Waiting' = Waiting
                  /\ Written' = (Written \ {x}) \cup {[x EXCEPT !.kind = "pubrel", !.expiry = "never"]}
<1>1. CASE Carrying(pid) = {}
  <2>1. \A x \in Written : x.id # pid
    BY <1>1 DEF Carrying, Written
  <2> QED BY <1>1, <2>1 DEF Replace
<1>2. CASE Carrying(pid) # {}
  <2>1. PICK v : v = Min(Carrying(pid))
    OBVIOUS
  <2>2. v \in 1 .. Len(l) /\ v < current /\ l[v].id = pid
    BY <1>2, <2>1, Carriers, Zenon
  <2>3. PICK x : x = [l[v] EXCEPT !.kind = "pubrel", !.expiry = "never"]
    OBVIOUS
  <2>4. l' = [l EXCEPT ![v] = x] /\ UNCHANGED <<current, inflightDrained, closed, added, dropped>>
    BY <1>2, <2>1, <2>2, <2>3, Typed DEF Replace
  <2>5. l[v] \in Written /\ Written' = (Written \ {l[v]}) \cup {x} /\ Waiting' = Waiting
    BY <2>2, <2>4, PartsChanged
  <2> QED BY <2>2, <2>3, <2>4, <2>5
<1> QED BY <1>1, <1>2

LEMMA PartsExpiring ==
  ASSUME QueueInv, NEW v \in 1 .. Len(l), Expire(v)
  PROVE  LET y == [l[v] EXCEPT !.expiry = "expired"]
         IN  /\ UNCHANGED <<current, inflightDrained, closed, added, dropped>>
             /\ \/ l[v] \in Written /\ Written' = (Written \ {l[v]}) \cup {y} /\ Waiting' = Waiting
                \/ l[v] \in Waiting /\ Waiting' = (Waiting \ {l[v]}) \cup {y} /\ Written' = Written
<1>1. PICK y : y = [l[v] EXCEPT !.expiry = "expired"]
  OBVIOUS
<1>2. l' = [l EXCEPT ![v] = y] /\ UNCHANGED <<current, inflightDrained, closed, added, dropped>>
  BY <1>1, Typed DEF Expire
<1> QED BY <1>1, <1>2, PartsChanged

LEMMA PartsResuming ==
  ASSUME QueueInv, InitResume
  PROVE  Written' = {} /\ Waiting' = Written \cup Waiting
<1>1. l \in Seq(Elem) /\ Len(l) \in Nat /\ current \in 1 .. (Len(l) + 1)
  BY Typed
<1>2. l' = l /\ current' = 1
  BY DEF InitResume
<1>3. 1 .. (current - 1) \cup current .. Len(l) = 1 .. Len(l) /\ 1 .. (1 - 1) = {}
  BY <1>1
<1> QED BY <1>2, <1>3 DEF Written, Waiting

\* The entries of a sequence; no identifier comes twice in it.
EntriesOf(s) == {s[i] : i \in 1 .. Len(s)}
DistinctIds(s) == \A i, j \in 1 .. Len(s) : s[i].id # 0 /\ i # j => s[i].id # s[j].id

\* The elements r that ReadInflight returns come to the front part.
InflightRead(r) ==
  /\ r \in Seq(Elem) /\ DistinctIds(r)
  /\ EntriesOf(r) \subseteq Waiting /\ \A x \in EntriesOf(r) : x.id # 0
  /\ Written' = Written \cup {Rearm(x) : x \in EntriesOf(r)}
  /\ Waiting' = Waiting \ EntriesOf(r)
  /\ r = <<>> => \A x \in Waiting : x.id = 0
  /\ inflightDrained => UNCHANGED mqVars
  /\ UNCHANGED <<closed, added, dropped>>

LEMMA PartsReadInflight ==
  ASSUME QueueInv, NEW n \in 1 .. MaxPacketID, ReadInflight(n), NEW r, r = ReadInflightResult(n)
  PROVE  QueueInv' /\ InflightRead(r)
<1>1. l \in Seq(Elem) /\ Len(l) \in Nat /\ current \in 1 .. (Len(l) + 1) /\ n \in Nat /\ n # 0
  BY Typed
<1>2. PICK k : k = InflightRun(n)
  OBVIOUS
<1>3. /\ l' = [i \in 1 .. Len(l) |->
                  IF i \in current .. (current + k - 1) THEN Rearm(l[i]) ELSE l[i]]
      /\ current' = current + k
      /\ inflightDrained' = (inflightDrained \/ Unread = {} \/ k < Cardinality(Window(n)))
      /\ UNCHANGED <<closed, added, dropped>>
      /\ r = SubSeq(l, current, current + k - 1)
  BY <1>2 DEF ReadInflight, ReadInflightResult
<1>4. /\ k \in Nat /\ current + k \in current .. (Len(l) + 1)
      /\ \A i \in current .. (current + k - 1) : l[i].id # 0
      /\ (Unread = {} \/ k < Cardinality(Window(n)))
            => \A i \in (current + k) .. Len(l) : l[i].id = 0
  BY <1>1, <1>2, Runs
<1>5. /\ r \in Seq(Elem) /\ Len(r) = k
      /\ \A i \in 1 .. k : r[i] = l[current + i - 1]
  BY <1>1, <1>3, <1>4
<1>6. \A i \in 1 .. k : current + i - 1 \in current .. (current + k - 1) /\ current + i - 1 \in 1 .. Len(l)
  BY <1>1, <1>4
<1>7. \A j \in current .. (current + k - 1) : \E i \in 1 .. k : j = current + i - 1
  <2> SUFFICES ASSUME NEW j \in current .. (current + k - 1) PROVE \E i \in 1 .. k : j = current + i - 1
    OBVIOUS
  <2>1. j - current + 1 \in 1 .. k /\ j = current + (j - current + 1) - 1
    BY <1>1, <1>4
  <2> QED BY <2>1
<1>8. EntriesOf(r) = {l[i] : i \in current .. (current + k - 1)}
  <2>1. \A i \in 1 .. k : \E j \in current .. (current + k - 1) : r[i] = l[j]
    BY <1>5, <1>6
  <2>2. \A j \in current .. (current + k - 1) : \E i \in 1 .. k : r[i] = l[j]
    BY <1>5, <1>7
  <2>3. EntriesOf(r) = {r[i] : i \in 1 .. k}
    BY <1>5 DEF EntriesOf
  <2> QED BY <2>1, <2>2, <2>3
<1>9. \A i, j \in 1 .. Len(l) : l[i] = l[j] => i = j
  BY Places
<1>10. EntriesOf(r) \subseteq Waiting /\ \A x \in EntriesOf(r) : x.id # 0
  <2>1. \A i \in current .. (current + k - 1) : i \in current .. Len(l)
    BY <1>1, <1>4
  <2> QED BY <1>4, <1>8, <2>1 DEF Waiting
<1>11. DistinctIds(r)
  <2>1. \A i, j \in 1 .. k : i # j => current + i - 1 # current + j - 1
    BY <1>1, <1>4
  <2>2. \A i, j \in 1 .. Len(l) : l[i].id # 0 /\ i # j => l[i].id # l[j].id
    BY DEF QueueInv, WellFormed
  <2> SUFFICES ASSUME NEW i \in 1 .. k, NEW j \in 1 .. k, r[i].id # 0, i # j PROVE r[i].id # r[j].id
    BY <1>5 DEF DistinctIds
  <2>3. PICK a \in 1 .. Len(l), b \in 1 .. Len(l) : a = current + i - 1 /\ b = current + j - 1 /\ a # b
    BY <1>6, <2>1
  <2>4. r[i] = l[a] /\ r[j] = l[b]
    BY <1>5, <2>3
  <2> QED BY <2>2, <2>3, <2>4
<1>12. Len(l') = Len(l) /\ \A i \in 1 .. Len(l) :
          l'[i] = IF i \in current .. (current + k - 1) THEN Rearm(l[i]) ELSE l[i]
  <2>1. \A x \in Elem : Rearm(x) \in Elem
    BY DEF Rearm, Elem
  <2>2. l' \in [1 .. Len(l) -> Elem]
    BY <1>1, <1>3, <2>1, Typed
  <2>3. l' \in Seq(Elem) /\ Len(l') = Len(l)
    BY <1>1, <2>2, Tuples, Zenon
  <2> QED BY <1>3, <2>3
<1>13. Written' = Written \cup {Rearm(x) : x \in EntriesOf(r)}
  <2>1. /\ \A i \in 1 .. (current + k - 1) :
              \/ i \in 1 .. (current - 1) /\ i \notin current .. (current + k - 1)
              \/ i \in current .. (current + k - 1)
        /\ \A i \in 1 .. (current - 1) : i \in 1 .. (current + k - 1) /\ i \notin current .. (current + k - 1)
        /\ \A i \in current .. (current + k - 1) : i \in 1 .. (current + k - 1)
        /\ \A i \in 1 .. (current + k - 1) : i \in 1 .. Len(l)
    BY <1>1, <1>4
  <2>2. Written' = {l'[i] : i \in 1 .. (current + k - 1)}
    <3>1. current' - 1 = current + k - 1
      BY <1>1, <1>3, <1>4
    <3>2. Written' = {l'[i] : i \in 1 .. (current' - 1)}
      BY DEF Written
    <3> QED BY <3>1, <3>2
  <2>3. ASSUME NEW i \in 1 .. (current + k - 1)
        PROVE  l'[i] \in Written \cup {Rearm(x) : x \in EntriesOf(r)}
    <3>1. CASE i \in 1 .. (current - 1)
      <4>1. l'[i] = l[i]
        BY <1>12, <2>1, <3>1
      <4> QED BY <3>1, <4>1 DEF Written
    <3>2. CASE i \in current .. (current + k - 1)
      <4>1. l'[i] = Rearm(l[i]) /\ l[i] \in EntriesOf(r)
        BY <1>8, <1>12, <2>1, <3>2
      <4> QED BY <4>1
    <3> QED BY <2>1, <3>1, <3>2
  <2>4. ASSUME NEW i \in 1 .. (current - 1) PROVE \E j \in 1 .. (current + k - 1) : l'[j] = l[i]
    BY <1>12, <2>1
  <2>5. ASSUME NEW x \in EntriesOf(r) PROVE \E j \in 1 .. (current + k - 1) : l'[j] = Rearm(x)
    <3>1. PICK i \in current .. (current + k - 1) : x = l[i]
      BY <1>8
    <3> QED BY <1>12, <2>1, <3>1
  <2> QED BY <2>2, <2>3, <2>4, <2>5 DEF Written
<1>14. Waiting' = Waiting \ EntriesOf(r)
  <2>1. Waiting' = {l'[i] : i \in (current + k) .. Len(l)}
    <3>1. Waiting' = {l'[i] : i \in current' .. Len(l')}
      BY DEF Waiting
    <3> QED BY <1>3, <1>12, <3>1
  <2>2. \A i \in (current + k) .. Len(l) : i \in current .. Len(l) /\ i \in 1 .. Len(l) /\ i \notin current .. (current + k - 1)
    BY <1>1, <1>4
  <2>3. \A i \in current .. Len(l) : i \in 1 .. Len(l) /\ (i \in (current + k) .. Len(l) \/ i \in current .. (current + k - 1))
    BY <1>1, <1>4
  <2>4. \A i \in (current + k) .. Len(l) : l'[i] = l[i] /\ l[i] \in Waiting
    BY <1>12, <2>2 DEF Waiting
  <2>5. \A i \in (current + k) .. Len(l) : l[i] \notin EntriesOf(r)
    <3>1. \A i \in current .. (current + k - 1) : i \in 1 .. Len(l)
      BY <1>1, <1>4
    <3> QED BY <1>8, <1>9, <2>2, <3>1
  <2>6. \A x \in Waiting \ EntriesOf(r) : \E i \in (current + k) .. Len(l) : x = l[i]
    BY <1>8, <2>3 DEF Waiting
  <2> QED BY <2>1, <2>4, <2>5, <2>6
<1>15. r = <<>> => \A x \in Waiting : x.id = 0
  <2> SUFFICES ASSUME r = <<>> PROVE \A i \in current .. Len(l) : l[i].id = 0
    BY DEF Waiting
  <2>1. k = 0
    BY <1>5
  <2>2. PICK h : WindowTo(n, h)
    BY <1>1, Windows
  <2>3. Unread = {} \/ k < Cardinality(Window(n))
    BY <1>1, <2>1, <2>2 DEF WindowTo, Unread
  <2> QED BY <1>1, <1>4, <2>1, <2>3
<1>16. inflightDrained => UNCHANGED mqVars
  <2> SUFFICES ASSUME inflightDrained PROVE UNCHANGED mqVars
    OBVIOUS
  <2>1. k = 0
    <3>1. \A i \in current .. Len(l) : l[i].id = 0
      BY DEF QueueInv, WellFormed
    <3>2. k > 0 => current \in current .. (current + k - 1) /\ current \in current .. Len(l)
      BY <1>1, <1>4
    <3> QED BY <1>4, <3>1, <3>2
  <2>2. l' = [i \in 1 .. Len(l) |-> l[i]] /\ current' = current
    BY <1>1, <1>3, <2>1
  <2>3. l' = l
    BY <1>1, <2>2
  <2>4. inflightDrained' = inflightDrained
    BY <1>3 DEF QueueInv
  <2> QED BY <1>3, <2>2, <2>3, <2>4 DEF mqVars
<1>17. QueueInv'
  <2>1. CASE inflightDrained
    BY <1>16, <2>1 DEF mqVars, QueueInv, WellFormed
  <2>2. CASE ~inflightDrained
    BY <2>2, ReadsInflight
  <2> QED BY <2>1, <2>2
<1> QED BY <1>3, <1>5, <1>10, <1>11, <1>13, <1>14, <1>15, <1>16, <1>17 DEF InflightRead

\* The messages at B get the first m identifiers.
NumberedBy(B, m, pids) ==
  /\ m \in Nat /\ IsFiniteSet(B) /\ B \in SUBSET (1 .. Len(l))
  /\ \A i \in B : \E j \in 1 .. m : Inflighted(i, pids) = Rearm([l[i] EXCEPT !.id = pids[j]])
  /\ \A j \in 1 .. m : \E i \in B : Inflighted(i, pids) = Rearm([l[i] EXCEPT !.id = pids[j]])

LEMMA Numbering ==
  ASSUME QueueInv, NEW n \in Nat \ {0}, NEW pids \in [1 .. n -> (1 .. MaxPacketID) \ IdsInList],
         NEW B, B = {i \in Window(n) : BecomesInflight(i)}, NEW m, m = Cardinality(B)
  PROVE  NumberedBy(B, m, pids)
<1>1. Len(l) \in Nat /\ current \in 1 .. (Len(l) + 1) /\ n \in Nat
  BY Typed
<1>2. Len(pids) = n
  BY <1>1
<1>3. B \in SUBSET (1 .. Len(l)) /\ B \subseteq Window(n) /\ \A i \in B : BecomesInflight(i)
  BY <1>1 DEF Window, Unread
<1>4. /\ IsFiniteSet(B) /\ m \in Nat
      /\ \A i \in B : Rank(B, i) \in 1 .. m
      /\ \A k \in 1 .. m : \E i \in B : Rank(B, i) = k
  BY <1>1, <1>3, Ranks, Zenon
<1>5. \A i \in B : Inflighted(i, pids) = Rearm([l[i] EXCEPT !.id = pids[Rank(B, i)]])
  <2> SUFFICES ASSUME NEW i \in B
               PROVE  Inflighted(i, pids) = Rearm([l[i] EXCEPT !.id = pids[Rank(B, i)]])
    OBVIOUS
  <2>1. {j \in Window(Len(pids)) : j <= i /\ BecomesInflight(j)} = {j \in B : j <= i}
    BY <1>2
  <2>2. BecomesInflight(i)
    BY <1>3
  <2> QED BY <2>1, <2>2, Zenon DEF Inflighted, Rank
<1>6. \A i \in B : \E j \in 1 .. m : Inflighted(i, pids) = Rearm([l[i] EXCEPT !.id = pids[j]])
  BY <1>4, <1>5, Zenon
<1>7. \A j \in 1 .. m : \E i \in B : Inflighted(i, pids) = Rearm([l[i] EXCEPT !.id = pids[j]])
  <2> SUFFICES ASSUME NEW j \in 1 .. m
               PROVE  \E i \in B : Inflighted(i, pids) = Rearm([l[i] EXCEPT !.id = pids[j]])
    OBVIOUS
  <2>1. PICK i \in B : Rank(B, i) = j
    BY <1>4
  <2>2. Inflighted(i, pids) = Rearm([l[i] EXCEPT !.id = pids[Rank(B, i)]])
    BY <1>5
  <2> QED BY <2>1, <2>2
<1> QED BY <1>3, <1>4, <1>6, <1>7 DEF NumberedBy

\* An element with identifier y whose expiry is set anew.
LEMMA Rearmed ==
  ASSUME NEW x \in Elem, NEW y \in 1 .. MaxPacketID, MaxPacketID \in Nat
  PROVE  LET z == Rearm([x EXCEPT !.id = y])
         IN  /\ z \in Elem /\ z.id = y /\ z.msg = x.msg /\ z.kind = x.kind /\ z.qos = x.qos /\ z.big = x.big
             /\ z.expiry = IF InflightExpiry THEN "armed" ELSE x.expiry
<1>1. PICK z : z = [x EXCEPT !.id = y]
  OBVIOUS
<1>2. y \in 0 .. MaxPacketID
  OBVIOUS
<1>3. z \in Elem /\ z.id = y /\ z.msg = x.msg /\ z.kind = x.kind /\ z.qos = x.qos /\ z.big = x.big /\ z.expiry = x.expiry
  BY <1>1, <1>2 DEF Elem
<1>4. /\ Rearm(z) \in Elem /\ Rearm(z).id = y /\ Rearm(z).msg = x.msg /\ Rearm(z).kind = x.kind
      /\ Rearm(z).qos = x.qos /\ Rearm(z).big = x.big
      /\ Rearm(z).expiry = IF InflightExpiry THEN "armed" ELSE x.expiry
  BY <1>3 DEF Rearm, Elem
<1> QED BY <1>1, <1>4

\* Read takes the elements W out; those with an identifier come back as K, m of them; r is what it
\* returns.
Stale(x) == x.expiry = "expired" \/ x.big
BatchRead(W, K, m, r, pids) ==
  /\ W \subseteq Waiting /\ Waiting' = Waiting \ W /\ Written' = Written \cup K
  /\ \A x \in W, y \in Waiting \ W : x.msg < y.msg
  /\ dropped' = dropped \cup {x.msg : x \in {y \in W : Stale(y)}}
  /\ m \in 0 .. Len(pids)
  /\ \A k \in K : \E x \in W, j \in 1 .. m : ~Stale(x) /\ x.qos > 0 /\ k = Rearm([x EXCEPT !.id = pids[j]])
  /\ \A x \in W : ~Stale(x) /\ x.qos > 0 => \E j \in 1 .. m : Rearm([x EXCEPT !.id = pids[j]]) \in K
  /\ \A j \in 1 .. m : \E k \in K : k.id = pids[j]
  /\ r \in Seq(Elem) /\ DistinctIds(r) /\ K \subseteq EntriesOf(r)
  /\ \A x \in EntriesOf(r) : x \in K \/ (x \in W /\ x.qos = 0 /\ x.id = 0)
  /\ Cardinality({i \in 1 .. Len(r) : r[i].qos # 0}) = m
  /\ UNCHANGED <<inflightDrained, closed, added>>

LEMMA PartsReading ==
  ASSUME QueueInv, NEW n \in Nat \ {0}, NEW pids \in [1 .. n -> (1 .. MaxPacketID) \ IdsInList],
         \A i, j \in 1 .. n : i < j => pids[i] # pids[j], Read(pids), NEW r, r = ReadResult(pids)
  PROVE  \E W, K, m : BatchRead(W, K, m, r, pids)
<1>1. /\ n \in Nat /\ Len(pids) = n /\ n \in 1 .. n /\ MaxPacketID \in Nat
      /\ l \in Seq(Elem) /\ Len(l) \in Nat /\ current \in 1 .. (Len(l) + 1)
  BY Typed
<1>2. PICK B : B = {i \in Window(n) : BecomesInflight(i)}
  OBVIOUS
<1>3. PICK kept : kept = Taken(B, pids)
  OBVIOUS
<1>4. PICK t : t = SubSeq(l, 1, current - 1) \o kept \o SubSeq(l, current + n, Len(l))
  OBVIOUS
<1>5. PICK T : T = {j \in Window(n) : Dead(j)}
  OBVIOUS
<1>6. /\ inflightDrained = TRUE /\ l' = t /\ current' = current + Len(kept)
      /\ dropped' = dropped \cup {l[i].msg : i \in T}
      /\ UNCHANGED <<inflightDrained, closed, added>>
  BY <1>1, <1>2, <1>3, <1>4, <1>5 DEF Read, ReadKept, NotifyDropped, QueueInv
<1>7. PICK m, o, h : BatchOf(n, pids, t, m, o, kept, h)
  <2>1. kept = Taken({i \in Window(n) : BecomesInflight(i)}, pids)
    BY <1>2, <1>3
  <2> QED BY <1>1, <1>4, <2>1, BatchTaken, Zenon
<1>8. /\ KeptOf(n, pids, m, o, kept) /\ Joins(t, l, current, h, kept)
      /\ h \in (current - 1) .. Len(l) /\ h <= current + n - 1 /\ (h = Len(l) \/ h = current + n - 1)
  BY <1>7, Zenon DEF BatchOf
<1>9. /\ m \in Nat /\ m <= n /\ m = Cardinality(B) /\ Len(kept) = m /\ kept \in Seq(Elem)
      /\ \A k \in 1 .. m : o[k] \in B /\ kept[k] = Inflighted(o[k], pids)
      /\ \A i \in B : \E k \in 1 .. m : o[k] = i
      /\ \A k \in 1 .. m : kept[k].id # 0
      /\ \A j, k \in 1 .. m : j # k => kept[j].id # kept[k].id
  BY <1>2, <1>8 DEF KeptOf
<1>10. Window(n) = current .. h /\ h \in Nat
  BY <1>1, <1>8 DEF Window, Unread
<1>11. /\ IsFiniteSet(B) /\ B \in SUBSET (1 .. Len(l))
       /\ \A i \in B : \E j \in 1 .. m : Inflighted(i, pids) = Rearm([l[i] EXCEPT !.id = pids[j]])
       /\ \A j \in 1 .. m : \E i \in B : Inflighted(i, pids) = Rearm([l[i] EXCEPT !.id = pids[j]])
  <2>1. NumberedBy(B, m, pids)
    BY <1>1, <1>2, <1>9, Numbering, Zenon
  <2> QED BY <2>1 DEF NumberedBy
<1>12. PICK W : W = {l[i] : i \in current .. h}
  OBVIOUS
<1>13. PICK K : K = {Inflighted(i, pids) : i \in B}
  OBVIOUS
<1>14. \A i, j \in 1 .. Len(l) : l[i] = l[j] => i = j
  BY Places
<1>15. /\ \A i \in current .. h : i \in current .. Len(l) /\ i \in 1 .. Len(l)
       /\ \A i \in (h + 1) .. Len(l) : i \in current .. Len(l) /\ i \in 1 .. Len(l) /\ i \notin current .. h
       /\ \A i \in current .. Len(l) : i \in current .. h \/ i \in (h + 1) .. Len(l)
  BY <1>1, <1>8
<1>16. W \subseteq Waiting /\ Waiting \ W = {l[i] : i \in (h + 1) .. Len(l)}
  <2>1. W \subseteq Waiting
    BY <1>12, <1>15 DEF Waiting
  <2>2. ASSUME NEW i \in (h + 1) .. Len(l) PROVE l[i] \in Waiting \ W
    BY <1>12, <1>14, <1>15 DEF Waiting
  <2>3. ASSUME NEW x \in Waiting \ W PROVE \E i \in (h + 1) .. Len(l) : x = l[i]
    BY <1>12, <1>15 DEF Waiting
  <2> QED BY <2>1, <2>2, <2>3
<1>17. \A x \in W, y \in Waiting \ W : x.msg < y.msg
  <2>1. \A i \in current .. h, j \in (h + 1) .. Len(l) : i < j
    BY <1>1, <1>8
  <2>2. \A i, j \in 1 .. Len(l) : i < j => l[i].msg < l[j].msg
    BY DEF QueueInv, WellFormed
  <2> QED BY <1>12, <1>15, <1>16, <2>1, <2>2
<1>18. /\ t \in Seq(Elem) /\ Len(t) = current - 1 + m + (Len(l) - h)
       /\ \A i \in 1 .. (current - 1) : t[i] = l[i]
       /\ \A k \in 1 .. m : t[current - 1 + k] = kept[k]
       /\ \A k \in 1 .. (Len(l) - h) : t[current - 1 + m + k] = l[h + k]
  BY <1>8, <1>9 DEF Joins
<1>19. /\ \A k \in 1 .. m : kept[k] \in K
       /\ \A x \in K : \E k \in 1 .. m : x = kept[k]
  <2>1. \A k \in 1 .. m : kept[k] \in K
    BY <1>9, <1>13
  <2>2. \A i \in B : \E k \in 1 .. m : Inflighted(i, pids) = kept[k]
    BY <1>9
  <2> QED BY <1>13, <2>1, <2>2
<1>19a. current \in Nat /\ m \in Nat /\ h \in Nat /\ Len(l) \in Nat /\ h <= Len(l)
  BY <1>1, <1>8, <1>9
<1>19b. Len(t) = current - 1 + m + (Len(l) - h)
  BY <1>18
<1>20. Written' = Written \cup K
  <2>1. Written' = {t[i] : i \in 1 .. (current + m - 1)}
    <3>1. current' - 1 = current + m - 1
      BY <1>1, <1>6, <1>9
    <3>2. Written' = {l'[i] : i \in 1 .. (current' - 1)}
      BY DEF Written
    <3> QED BY <1>6, <3>1, <3>2
  <2>2. ASSUME NEW i \in 1 .. (current + m - 1) PROVE t[i] \in Written \cup K
    <3>1. CASE i \in 1 .. (current - 1)
      BY <1>18, <3>1 DEF Written
    <3>2. CASE i \notin 1 .. (current - 1)
      <4>1. PICK k \in 1 .. m : k = i - current + 1
        BY <1>1, <1>9, <3>2
      <4>2. i = current - 1 + k
        BY <1>1, <4>1
      <4> QED BY <1>18, <1>19, <4>2
    <3> QED BY <3>1, <3>2
  <2>3. ASSUME NEW i \in 1 .. (current - 1) PROVE \E j \in 1 .. (current + m - 1) : t[j] = l[i]
    <3>1. i \in 1 .. (current + m - 1)
      BY <1>1, <1>9
    <3> QED BY <1>18, <3>1
  <2>4. ASSUME NEW k \in 1 .. m PROVE \E j \in 1 .. (current + m - 1) : t[j] = kept[k]
    <3>1. current - 1 + k \in 1 .. (current + m - 1)
      BY <1>1, <1>9
    <3> QED BY <1>18, <3>1
  <2>5. Written' \subseteq Written \cup K
    BY <2>1, <2>2
  <2>6. Written \subseteq Written'
    BY <2>1, <2>3 DEF Written
  <2>7. K \subseteq Written'
    BY <1>19, <2>1, <2>4
  <2> QED BY <2>5, <2>6, <2>7
<1>21. Waiting' = Waiting \ W
  <2>1. Waiting' = {t[i] : i \in (current + m) .. Len(t)}
    <3>1. Waiting' = {l'[i] : i \in current' .. Len(l')}
      BY DEF Waiting
    <3> QED BY <1>6, <1>9, <3>1
  <2>2. ASSUME NEW i \in (current + m) .. Len(t) PROVE \E j \in (h + 1) .. Len(l) : t[i] = l[j]
    <3>1. PICK k \in 1 .. (Len(l) - h) : k = i - (current + m) + 1
      BY <1>19a, <1>19b
    <3>2. i = current - 1 + m + k /\ h + k \in (h + 1) .. Len(l)
      BY <1>19a, <1>19b, <3>1
    <3> QED BY <1>18, <3>2
  <2>3. ASSUME NEW j \in (h + 1) .. Len(l) PROVE \E i \in (current + m) .. Len(t) : t[i] = l[j]
    <3>1. PICK k \in 1 .. (Len(l) - h) : j = h + k
      <4>1. j - h \in 1 .. (Len(l) - h) /\ j = h + (j - h)
        BY <1>1, <1>8
      <4> QED BY <4>1
    <3>2. current - 1 + m + k \in (current + m) .. Len(t)
      BY <1>19a, <1>19b
    <3> QED BY <1>18, <3>1, <3>2
  <2>4. Waiting' \subseteq {l[i] : i \in (h + 1) .. Len(l)}
    BY <2>1, <2>2
  <2>5. {l[i] : i \in (h + 1) .. Len(l)} \subseteq Waiting'
    BY <2>1, <2>3
  <2> QED BY <1>16, <2>4, <2>5
<1>22. dropped' = dropped \cup {x.msg : x \in {y \in W : Stale(y)}}
  <2>1. \A i \in current .. h : Dead(i) <=> Stale(l[i])
    BY DEF Dead, ElemExpiry, Stale
  <2>2. {l[i].msg : i \in T} = {x.msg : x \in {y \in W : Stale(y)}}
    BY <1>5, <1>10, <1>12, <2>1
  <2> QED BY <1>6, <2>2
<1>23. \A i \in B : i \in current .. h /\ l[i] \in W /\ ~Stale(l[i]) /\ l[i].qos > 0
  BY <1>2, <1>10, <1>12 DEF BecomesInflight, Dead, ElemExpiry, Stale
<1>24. \A k \in K : \E x \in W, j \in 1 .. m : ~Stale(x) /\ x.qos > 0 /\ k = Rearm([x EXCEPT !.id = pids[j]])
  BY <1>11, <1>13, <1>23
<1>25. \A x \in W : ~Stale(x) /\ x.qos > 0 => \E j \in 1 .. m : Rearm([x EXCEPT !.id = pids[j]]) \in K
  <2> SUFFICES ASSUME NEW x \in W, ~Stale(x), x.qos > 0
               PROVE  \E j \in 1 .. m : Rearm([x EXCEPT !.id = pids[j]]) \in K
    OBVIOUS
  <2>1. PICK i \in current .. h : x = l[i]
    BY <1>12
  <2>2. i \in B
    BY <1>2, <1>10, <2>1 DEF BecomesInflight, Dead, ElemExpiry, Stale
  <2> QED BY <1>11, <1>13, <2>1, <2>2
<1>26. \A j \in 1 .. m : \E k \in K : k.id = pids[j]
  <2> SUFFICES ASSUME NEW j \in 1 .. m PROVE \E k \in K : k.id = pids[j]
    OBVIOUS
  <2>1. PICK i \in B : Inflighted(i, pids) = Rearm([l[i] EXCEPT !.id = pids[j]])
    BY <1>11
  <2>2. l[i] \in Elem /\ pids[j] \in 1 .. MaxPacketID
    <3>1. j \in 1 .. n
      BY <1>1, <1>9
    <3> QED BY <1>11, <3>1, Typed
  <2>3. Rearm([l[i] EXCEPT !.id = pids[j]]).id = pids[j]
    BY <1>1, <2>2, Rearmed
  <2> QED BY <1>13, <2>1, <2>3
<1>27. /\ r \in Seq(Elem) /\ DistinctIds(r) /\ K \subseteq EntriesOf(r)
       /\ \A x \in EntriesOf(r) : x \in K \/ (x \in W /\ x.qos = 0 /\ x.id = 0)
       /\ Cardinality({i \in 1 .. Len(r) : r[i].qos # 0}) = m
  <2>1. PICK L : L = {i \in Window(n) : ~Dead(i)}
    OBVIOUS
  <2>2. PICK at : at = InOrder(L)
    OBVIOUS
  <2>3. PICK c : c = Cardinality(L)
    OBVIOUS
  <2>4. r = [k \in 1 .. c |-> Inflighted(at[k], pids)]
    BY <1>1, <2>1, <2>2, <2>3 DEF ReadResult, Taken
  <2>5. L \in SUBSET (1 .. Len(l)) /\ L \subseteq current .. h /\ B \subseteq L
    BY <1>2, <1>10, <1>15, <2>1 DEF BecomesInflight
  <2>6. c \in Nat
    BY <1>1, <2>3, <2>5, Ranks, Zenon
  <2>7. /\ at \in [1 .. c -> L]
        /\ \A j, k \in 1 .. c : j < k => at[j] < at[k]
        /\ \A i \in L : \E k \in 1 .. c : at[k] = i
    <3>1. Enumerates(at, L, c)
      BY <1>1, <2>2, <2>3, <2>5, Ordered, Zenon
    <3> QED BY <3>1, Zenon DEF Enumerates
  <2>8. \A i \in L \ B : /\ Inflighted(i, pids) = l[i] /\ l[i] \in Elem /\ l[i] \in W
                        /\ l[i].qos = 0 /\ l[i].id = 0
    <3> SUFFICES ASSUME NEW i \in L \ B
                 PROVE  /\ Inflighted(i, pids) = l[i] /\ l[i] \in Elem /\ l[i] \in W
                        /\ l[i].qos = 0 /\ l[i].id = 0
      OBVIOUS
    <3>1. i \in Window(n) /\ ~Dead(i) /\ ~BecomesInflight(i)
      BY <1>2, <2>1
    <3>2. l[i] \in Elem /\ l[i] \in W /\ l[i].id = 0
      <4>1. \A j \in current .. Len(l) : l[j].id = 0
        BY <1>6 DEF QueueInv, WellFormed
      <4> QED BY <1>12, <1>15, <2>5, <4>1, Typed
    <3>3. l[i].qos = 0
      BY <3>1, <3>2 DEF BecomesInflight, Elem
    <3>4. Inflighted(i, pids) = l[i]
      BY <3>1 DEF Inflighted
    <3> QED BY <3>2, <3>3, <3>4
  <2>9. \A i \in B : /\ Inflighted(i, pids) \in K /\ Inflighted(i, pids) \in Elem
                    /\ Inflighted(i, pids).qos # 0
    <3> SUFFICES ASSUME NEW i \in B PROVE /\ Inflighted(i, pids) \in K /\ Inflighted(i, pids) \in Elem
                                         /\ Inflighted(i, pids).qos # 0
      OBVIOUS
    <3>1. PICK j \in 1 .. m : Inflighted(i, pids) = Rearm([l[i] EXCEPT !.id = pids[j]])
      BY <1>11
    <3>2. l[i] \in Elem /\ pids[j] \in 1 .. MaxPacketID
      <4>1. j \in 1 .. n
        BY <1>1, <1>9
      <4> QED BY <1>11, <4>1, Typed
    <3>3. /\ Rearm([l[i] EXCEPT !.id = pids[j]]) \in Elem
          /\ Rearm([l[i] EXCEPT !.id = pids[j]]).qos = l[i].qos
      BY <1>1, <3>2, Rearmed
    <3> QED BY <1>13, <1>23, <3>1, <3>2, <3>3 DEF Elem
  <2>10. \A k \in 1 .. c : at[k] \in L /\ r[k] = Inflighted(at[k], pids)
    BY <2>4, <2>7
  <2>11. r \in Seq(Elem) /\ Len(r) = c
    <3>1. r \in [1 .. c -> Elem]
      <4>1. \A k \in 1 .. c : r[k] \in Elem
        BY <2>8, <2>9, <2>10
      <4> QED BY <2>4, <4>1
    <3> QED BY <2>6, <3>1, Tuples, Zenon
  <2>12. \A j, k \in 1 .. c : j # k => at[j] # at[k]
    <3>1. \A j, k \in 1 .. c : j # k => j < k \/ k < j
      BY <2>6
    <3>2. \A i \in 1 .. Len(l) : i \in Int
      BY <1>1
    <3>3. \A k \in 1 .. c : at[k] \in Int
      BY <2>5, <2>7, <3>2
    <3>4. \A j, k \in 1 .. c : j < k => at[j] # at[k]
      BY <2>7, <3>3
    <3> QED BY <3>1, <3>4
  <2>13. \A i, j \in B : i # j => Inflighted(i, pids).id # Inflighted(j, pids).id
    <3> SUFFICES ASSUME NEW i \in B, NEW j \in B, i # j
                 PROVE  Inflighted(i, pids).id # Inflighted(j, pids).id
      OBVIOUS
    <3>1. PICK a \in 1 .. m, b \in 1 .. m : o[a] = i /\ o[b] = j
      BY <1>9
    <3>2. kept[a] = Inflighted(i, pids) /\ kept[b] = Inflighted(j, pids) /\ a # b
      BY <1>9, <3>1
    <3> QED BY <1>9, <3>2
  <2>14. DistinctIds(r)
    <3> SUFFICES ASSUME NEW i \in 1 .. c, NEW j \in 1 .. c, r[i].id # 0, i # j PROVE r[i].id # r[j].id
      BY <2>11 DEF DistinctIds
    <3>1. at[i] \in B
      BY <2>8, <2>10
    <3>2. CASE at[j] \in B
      BY <2>10, <2>12, <2>13, <3>1, <3>2
    <3>3. CASE at[j] \notin B
      BY <2>8, <2>10, <3>3
    <3> QED BY <3>2, <3>3
  <2>15. K \subseteq EntriesOf(r)
    <3> SUFFICES ASSUME NEW i \in B PROVE \E k \in 1 .. c : r[k] = Inflighted(i, pids)
      BY <1>13, <2>11 DEF EntriesOf
    <3>1. PICK k \in 1 .. c : at[k] = i
      BY <2>5, <2>7
    <3> QED BY <2>10, <3>1
  <2>16. \A x \in EntriesOf(r) : x \in K \/ (x \in W /\ x.qos = 0 /\ x.id = 0)
    <3> SUFFICES ASSUME NEW k \in 1 .. c PROVE r[k] \in K \/ (r[k] \in W /\ r[k].qos = 0 /\ r[k].id = 0)
      BY <2>11 DEF EntriesOf
    <3> QED BY <2>8, <2>9, <2>10
  <2>17. PICK D : D = {i \in 1 .. Len(r) : r[i].qos # 0}
    OBVIOUS
  <2>18. \A i \in D : i \in 1 .. c /\ at[i] \in B
    BY <2>8, <2>10, <2>11, <2>17
  <2>19. \A i \in B : \E k \in D : at[k] = i
    <3> SUFFICES ASSUME NEW i \in B PROVE \E k \in D : at[k] = i
      OBVIOUS
    <3>1. PICK k \in 1 .. c : at[k] = i
      BY <2>5, <2>7
    <3>2. r[k].qos # 0
      BY <2>9, <2>10, <3>1
    <3> QED BY <2>11, <2>17, <3>1, <3>2
  <2>20. PICK f : f = [i \in D |-> at[i]]
    OBVIOUS
  <2>21. f \in Bijection(D, B)
    <3>1. f \in [D -> B] /\ \A i \in D : f[i] = at[i]
      BY <2>18, <2>20
    <3>2. f \in Injection(D, B)
      BY <2>12, <2>18, <3>1 DEF Injection, IsInjective
    <3>3. f \in Surjection(D, B)
      BY <2>19, <3>1 DEF Surjection
    <3> QED BY <3>2, <3>3 DEF Bijection
  <2>22. Cardinality(D) = m
    <3>1. IsFiniteSet(D)
      <4>1. IsFiniteSet(1 .. c)
        BY <2>6, FS_Interval
      <4> QED BY <2>11, <2>17, <4>1, FS_Subset
    <3>2. ExistsBijection(D, B)
      BY <2>21 DEF ExistsBijection
    <3>3. Cardinality(B) = Cardinality(D)
      BY <3>1, <3>2, FS_Bijection, Zenon
    <3> QED BY <1>9, <3>3
  <2> QED BY <2>11, <2>14, <2>15, <2>16, <2>17, <2>22
<1>28. m \in 0 .. Len(pids)
  BY <1>1, <1>9
<1>29. BatchRead(W, K, m, r, pids)
  BY <1>6, <1>16, <1>17, <1>20, <1>21, <1>22, <1>24, <1>25, <1>26, <1>27, <1>28 DEF BatchRead
<1> QED BY <1>29

-----------------------------------------------------------------------------
(* The theorems.                                                            *)

LEMMA Shorter ==
  ASSUME Inv, QueueInv', Len(l') <= Len(l), Len(l) \in Nat, MaxQueuedMsg \in Nat
  PROVE  Inv'
<1>1. Len(l') \in Nat
  BY DEF QueueInv, WellFormed
<1> QED BY <1>1 DEF Inv, QueueBounded

\* Every step of the broker, the peer and the clock keeps the invariant.
LEMMA Preserved ==
  ASSUME Inv, [Next]_mqVars
  PROVE  Inv'
<1>0. QueueInv /\ Len(l) <= MaxQueuedMsg /\ Len(l) \in Nat /\ MaxQueuedMsg \in Nat
  BY Typed DEF Inv, QueueBounded
<1>1. CASE Publish
  <2>1. PICK qos \in QoSs, expiry \in Expiries, big \in Sizes :
           /\ added < MaxMsgs
           /\ \/ AddRoom(NewElem(qos, expiry, big)) \/ AddEvict(NewElem(qos, expiry, big))
              \/ AddReject(NewElem(qos, expiry, big)) \/ AddPanic(NewElem(qos, expiry, big))
    BY <1>1 DEF Publish
  <2>2. PICK e : e = NewElem(qos, expiry, big)
    OBVIOUS
  <2>3. e \in Elem /\ e.id = 0 /\ e.kind = "publish" /\ e.msg = added + 1
    BY <1>0, <2>1, <2>2, NewMessages, Zenon
  <2>4. AddRoom(e) \/ AddEvict(e) \/ AddReject(e) \/ AddPanic(e)
    BY <2>1, <2>2, Zenon
  <2>5. QueueInv' /\ (Len(l') <= MaxQueuedMsg \/ Len(l') = Len(l))
    BY <1>0, <2>3, <2>4, AddsWithRoom, AddsEvicting, AddsDropping
  <2> QED BY <1>0, <2>5 DEF Inv, QueueBounded
<1>2. CASE Disconnect
  BY <1>0, <1>2, Resumes DEF Disconnect, Inv, QueueBounded
<1>3. CASE Connect
  BY <1>0, <1>3, Resumes DEF Connect, Inv, QueueBounded
<1>4. CASE Drain
  BY <1>0, <1>4, ReadsInflight DEF Drain, Inv, QueueBounded
<1>5. CASE PollNew
  <2>1. PICK n \in 1 .. PollBatch : \E pids \in [1 .. n -> (1 .. MaxPacketID) \ IdsInList] :
           (\A i, j \in 1 .. n : i < j => pids[i] # pids[j]) /\ Read(pids)
    BY <1>5 DEF PollNew
  <2>2. n \in Nat \ {0}
    BY MemQueueAssumption
  <2>3. PICK pids \in [1 .. n -> (1 .. MaxPacketID) \ IdsInList] :
           (\A i, j \in 1 .. n : i < j => pids[i] # pids[j]) /\ Read(pids)
    BY <2>1
  <2>4. QueueInv' /\ Len(l') <= Len(l)
    BY <1>0, <2>2, <2>3, Reads, Zenon
  <2> QED BY <1>0, <2>4, Shorter
<1>6. CASE Acknowledge
  <2>1. QueueInv' /\ Len(l') <= Len(l)
    BY <1>0, <1>6, Removes DEF Acknowledge
  <2> QED BY <1>0, <2>1, Shorter
<1>7. CASE Received
  BY <1>0, <1>7, Replaces DEF Received, Inv, QueueBounded
<1>8. CASE Tick
  BY <1>0, <1>8, Expires DEF Tick, Inv, QueueBounded
<1>9. CASE UNCHANGED mqVars
  BY <1>9 DEF mqVars, Inv, QueueInv, QueueBounded, WellFormed
<1> QED BY <1>1, <1>2, <1>3, <1>4, <1>5, <1>6, <1>7, <1>8, <1>9 DEF Next

\* The new queue satisfies it.
LEMMA Starts ==
  ASSUME Init
  PROVE  Inv
<1>1. /\ l = << >> /\ current = 1 /\ inflightDrained = FALSE /\ closed = FALSE
      /\ added = 0 /\ dropped = {}
  BY DEF Init
<1>2. << >> \in Seq(Elem) /\ Len(<< >>) = 0 /\ 1 \in 1 .. (0 + 1) /\ 1 .. 0 = {} /\ 1 - 1 = 0
  OBVIOUS
<1>3. WellFormed(<< >>, 1, FALSE, 0)
  BY <1>2 DEF WellFormed
<1>4. 0 \in 0 .. MaxMsgs /\ 0 <= MaxQueuedMsg
  BY MemQueueAssumption
<1> QED BY <1>1, <1>2, <1>3, <1>4 DEF Inv, QueueInv, QueueBounded

\* The inductive invariant of the queue: the list, the cursor, the drained flag and the number of
\* messages added stay well formed through Add, Read, ReadInflight, Remove, Replace, Init and Close.
THEOREM Invariance == Spec => []Inv
<1>1. Init => Inv
  BY Starts
<1>2. Inv /\ [Next]_mqVars => Inv'
  BY Preserved
<1> QED BY <1>1, <1>2, PTL DEF Spec

\* The fields of the queue keep their types, and the cursor is an element of the list or nil.
THEOREM TypesCorrect == Spec => []TypeOK
<1>1. Inv => TypeOK
  BY DEF Inv, QueueInv, WellFormed, TypeOK
<1> QED BY <1>1, Invariance, PTL

\* The cursor splits the list: everything before it is inflight, and once drained nothing after it
\* is; Read's type assertion holds, and Remove and Replace find every inflight message before it.
THEOREM CursorSplits == Spec => []CursorSplitsInflight
<1>1. Inv => CursorSplitsInflight
  BY DEF Inv, QueueInv, WellFormed, CursorSplitsInflight, Unread
<1> QED BY <1>1, Invariance, PTL

\* No packet identifier is carried by two elements, so an acknowledgement names one message.
THEOREM IdentifiersDistinct == Spec => []IdsDistinct
<1>1. Inv => IdsDistinct
  BY DEF Inv, QueueInv, WellFormed, IdsDistinct
<1> QED BY <1>1, Invariance, PTL

\* Messages stay in the order in which Add was given them, through evictions, reads that take
\* QoS 0 messages out, acknowledgements and reconnects.
THEOREM OrderKept == Spec => []ArrivalOrder
<1>1. Inv => ArrivalOrder
  BY DEF Inv, QueueInv, WellFormed, ArrivalOrder
<1> QED BY <1>1, Invariance, PTL

\* However Add chooses its victim, the list never outgrows MaxQueuedMsg.
THEOREM Bounded == Spec => []QueueBounded
<1>1. Inv => QueueBounded
  BY DEF Inv
<1> QED BY <1>1, Invariance, PTL

\* The message of an element says which element it is.
LEMMA MessageNamesElement ==
  ASSUME QueueInv, NEW i \in 1 .. Len(l), NEW j \in 1 .. Len(l), l[i].msg = l[j].msg
  PROVE  i = j
<1>1. l[i].msg \in Int /\ l[j].msg \in Int
  BY Typed DEF Elem
<1>2. (i < j => l[i].msg < l[j].msg) /\ (j < i => l[j].msg < l[i].msg)
  BY DEF QueueInv, WellFormed
<1>3. i \in Int /\ j \in Int
  OBVIOUS
<1> QED BY <1>1, <1>2, <1>3

LEMMA LastResort ==
  ASSUME QueueInv, Next, NEW m \in dropped' \ dropped, Live(m)
  PROVE  Full /\ ~FrontExpired /\ ExpiredUnread = {} /\ QoS0Unread = {}
<1>1. PICK i \in Unread : l[i].msg = m /\ l[i].id = 0 /\ l[i].qos > 0 /\ ~Dead(i)
  BY DEF Live
<1>2. i \in 1 .. Len(l) /\ ~(i < current)
  BY Typed DEF Unread
<1>3. CASE Publish
  <2>1. PICK qos \in QoSs, expiry \in Expiries, big \in Sizes :
           /\ added < MaxMsgs
           /\ \/ AddRoom(NewElem(qos, expiry, big)) \/ AddEvict(NewElem(qos, expiry, big))
              \/ AddReject(NewElem(qos, expiry, big)) \/ AddPanic(NewElem(qos, expiry, big))
    BY <1>3 DEF Publish
  <2>2. PICK e : e = NewElem(qos, expiry, big)
    OBVIOUS
  <2>3. e.msg = added + 1
    BY <2>1, <2>2, NewMessages, Zenon
  <2>4. CASE AddRoom(e)
    BY <2>4 DEF AddRoom
  <2>5. CASE AddReject(e) \/ AddPanic(e)
    <3>1. m = e.msg
      BY <2>5 DEF AddReject, AddPanic, NotifyDropped
    <3>2. l[i].msg <= added /\ added \in Nat
      BY <1>2, Typed DEF QueueInv, WellFormed
    <3> QED BY <1>1, <2>3, <3>1, <3>2
  <2>6. CASE AddEvict(e)
    <3>1. PICK v : v = Victim(e)
      OBVIOUS
    <3>2. Full /\ v # 0 /\ dropped' = dropped \cup (IF l[v].kind = "publish" THEN {l[v].msg} ELSE {})
      BY <2>6, <3>1 DEF AddEvict, NotifyDropped
    <3>3. m = l[v].msg
      BY <3>2
    <3>4. /\ v \in 1 .. Len(l)
          /\ \/ v < current
             \/ v \in Unread /\ ElemExpiry(v)
             \/ v \in Unread /\ l[v].qos = 0
             \/ v \in Unread /\ ~FrontExpired /\ ExpiredUnread = {} /\ QoS0Unread = {}
      BY <3>1, <3>2, Victims, Zenon
    <3>5. v = i
      BY <1>1, <1>2, <3>3, <3>4, MessageNamesElement
    <3>6. ~(v < current) /\ ~ElemExpiry(v) /\ l[v].qos # 0
      BY <1>1, <1>2, <3>5 DEF Dead
    <3> QED BY <3>2, <3>4, <3>6, Zenon
  <2> QED BY <2>1, <2>2, <2>4, <2>5, <2>6, Zenon
<1>4. CASE PollNew
  <2>1. PICK pids : Read(pids)
    BY <1>4 DEF PollNew
  <2>2. PICK j \in Window(Len(pids)) : m = l[j].msg /\ Dead(j)
    BY <2>1 DEF Read, NotifyDropped
  <2>3. j \in 1 .. Len(l)
    BY <2>2, Typed DEF Window, Unread
  <2>4. i = j
    BY <1>1, <1>2, <2>2, <2>3, MessageNamesElement
  <2> QED BY <1>1, <2>2, <2>4
<1>5. CASE Disconnect \/ Connect \/ Drain \/ Acknowledge \/ Received \/ Tick
  <2>1. UNCHANGED dropped
    BY <1>5 DEF Disconnect, Close, Connect, InitResume, Drain, ReadInflight, Acknowledge, Remove,
                Received, Replace, Tick, Expire, mqVars
  <2> QED BY <2>1
<1> QED BY <1>3, <1>4, <1>5 DEF Next

\* A live QoS 1 or 2 message not read yet is dropped only to make room in a full queue whose front
\* has not expired and in which nothing unread has expired or is of QoS 0: the priorities of Add.
THEOREM DropsOnlyAsLastResort == Spec => DropsLastResort
<1>1. Inv /\ [Next]_mqVars => [DropsByPriority]_mqVars
  <2> SUFFICES ASSUME Inv, Next PROVE DropsByPriority
    OBVIOUS
  <2> QED BY LastResort DEF Inv, DropsByPriority
<1> QED BY <1>1, Invariance, PTL DEF Spec, DropsLastResort

-----------------------------------------------------------------------------
(* The queue in redis.  The list and the cursor are kept well formed as in  *)
(* memory (but for the bound, which a Queue object not initialised does not *)
(* keep); beside them the object's length and cache agree with the list,    *)
(* what the client owes an acknowledgement for is before the cursor, and    *)
(* every message is accounted for.                                          *)

\* Every element of s before the cursor c is in the cache under its identifier.
CacheHolds(s, c, cache) == \A i \in 1 .. (c - 1) : cache[s[i].id] = Entry(s[i])

\* The identifiers ids are those of elements before the cursor.
OwedHeld(s, c, ids) == \A p \in ids : \E i \in 1 .. (c - 1) : s[i].id = p

\* No element before the cursor carries the identifier p.
NotHeld(s, c, p) == \A i \in 1 .. (c - 1) : s[i].id # p

\* The first n messages are in the list or in out.
Accounted(s, n, out) == 1 .. n \subseteq {s[i].msg : i \in 1 .. Len(s)} \cup out

RedisInv ==
  /\ QueueInv
  /\ len \in Nat /\ owed \subseteq Pids /\ done \subseteq 1 .. MaxMsgs
  /\ readCache \in [Pids -> {NoEntry} \cup [msg : 1 .. MaxMsgs, kind : {"publish", "pubrel"}]]
  /\ inited \in BOOLEAN /\ crashes \in 0 .. MaxCrashes
  /\ inited => len = Len(l) /\ CacheHolds(l, current, readCache)
  /\ ~inited => current = 1 /\ inflightDrained = FALSE
  /\ OwedHeld(l, current, owed)
  /\ Accounted(l, added, done \cup dropped)

\* An element can be cached, and no element is cached as nothing.
LEMMA Entries ==
  ASSUME NEW e \in Elem
  PROVE  Entry(e) \in [msg : 1 .. MaxMsgs, kind : {"publish", "pubrel"}] /\ Entry(e) # NoEntry
<1>1. e.msg \in 1 .. MaxMsgs /\ e.kind \in {"publish", "pubrel"}
  BY DEF Elem
<1> QED BY <1>1 DEF Entry, NoEntry

\* The inflight elements carry identifiers.
LEMMA InflightIds ==
  ASSUME NEW s, NEW c, NEW d, NEW n, WellFormed(s, c, d, n), NEW i \in 1 .. (c - 1)
  PROVE  i \in 1 .. Len(s) /\ s[i] \in Elem /\ s[i].id \in Pids
<1>1. s \in Seq(Elem) /\ Len(s) \in Nat /\ c \in 1 .. (Len(s) + 1)
  BY DEF WellFormed
<1>2. i \in 1 .. Len(s)
  BY <1>1
<1>3. s[i] \in Elem
  BY <1>1, <1>2
<1>4. s[i].id # 0 /\ s[i].id \in 0 .. MaxPacketID
  BY <1>3 DEF WellFormed, Elem
<1>5. s[i].id \in Pids
  BY <1>4, MemQueueAssumption DEF Pids
<1> QED BY <1>2, <1>3, <1>5

\* Taking an element out leaves the cache right for the others, takes one identifier from those held
\* and one message from those accounted for.
LEMMA TakenOutOfRedis ==
  ASSUME NEW s, NEW c, NEW d, NEW n \in Nat, WellFormed(s, c, d, n), NEW v \in 1 .. Len(s),
         NEW t, t = SeqExt!RemoveAt(s, v), NEW b, b = IF v < c THEN c - 1 ELSE c
  PROVE  /\ NotHeld(t, b, s[v].id)
         /\ \A cache : CacheHolds(s, c, cache) => CacheHolds(t, b, cache)
         /\ \A ids : OwedHeld(s, c, ids) => OwedHeld(t, b, ids \ {s[v].id})
         /\ \A k, out : Accounted(s, k, out) => Accounted(t, k, out \cup {s[v].msg})
<1>1. s \in Seq(Elem) /\ Len(s) \in Nat /\ c \in 1 .. (Len(s) + 1)
  BY DEF WellFormed
<1>2. /\ WellFormed(t, b, d, n) /\ Len(t) = Len(s) - 1
      /\ \A i \in 1 .. Len(t) : t[i] = s[IF i < v THEN i ELSE i + 1]
  BY TakenOut
<1> DEFINE at(i) == IF i < v THEN i ELSE i + 1
<1>3. \A i \in 1 .. Len(t) : at(i) \in 1 .. Len(s) /\ t[i] = s[at(i)] /\ at(i) # v
  BY <1>1, <1>2
<1>4. \A i \in 1 .. (b - 1) : i \in 1 .. Len(t) /\ at(i) \in 1 .. (c - 1)
  BY <1>1, <1>2
<1>5. \A j \in 1 .. Len(s) : j # v => \E i \in 1 .. Len(t) : at(i) = j
  <2> SUFFICES ASSUME NEW j \in 1 .. Len(s), j # v PROVE \E i \in 1 .. Len(t) : at(i) = j
    OBVIOUS
  <2>1. PICK i \in 1 .. Len(t) : i = IF j < v THEN j ELSE j - 1
    BY <1>1, <1>2
  <2>2. at(i) = j
    BY <1>1, <2>1
  <2> QED BY <2>2
<1>6. \A j \in 1 .. (c - 1) : j # v => \E i \in 1 .. (b - 1) : at(i) = j
  <2> SUFFICES ASSUME NEW j \in 1 .. (c - 1), j # v PROVE \E i \in 1 .. (b - 1) : at(i) = j
    OBVIOUS
  <2>1. PICK i \in 1 .. (b - 1) : i = IF j < v THEN j ELSE j - 1
    BY <1>1
  <2>2. at(i) = j
    BY <1>1, <2>1
  <2> QED BY <2>2
<1> HIDE DEF at
<1>7. \A i, j \in 1 .. Len(s) : s[i].id # 0 /\ i # j => s[i].id # s[j].id
  BY DEF WellFormed
<1>8. \A i \in 1 .. (c - 1) : s[i].id # 0
  BY DEF WellFormed
<1>9. NotHeld(t, b, s[v].id)
  <2> SUFFICES ASSUME NEW i \in 1 .. (b - 1) PROVE t[i].id # s[v].id
    BY DEF NotHeld
  <2>1. PICK j \in 1 .. Len(s) : j = at(i) /\ j \in 1 .. (c - 1) /\ t[i] = s[j] /\ j # v
    BY <1>3, <1>4
  <2> QED BY <1>7, <1>8, <2>1
<1>10. ASSUME NEW cache, CacheHolds(s, c, cache) PROVE CacheHolds(t, b, cache)
  BY <1>3, <1>4, <1>10 DEF CacheHolds
<1>11. ASSUME NEW ids, OwedHeld(s, c, ids) PROVE OwedHeld(t, b, ids \ {s[v].id})
  <2> SUFFICES ASSUME NEW p \in ids, p # s[v].id PROVE \E i \in 1 .. (b - 1) : t[i].id = p
    BY DEF OwedHeld
  <2>1. PICK j \in 1 .. (c - 1) : s[j].id = p
    BY <1>11 DEF OwedHeld
  <2>2. PICK i \in 1 .. (b - 1) : at(i) = j
    BY <1>6, <2>1
  <2> QED BY <1>3, <1>4, <2>1, <2>2
<1>12. ASSUME NEW k, NEW out, Accounted(s, k, out) PROVE Accounted(t, k, out \cup {s[v].msg})
  <2> SUFFICES ASSUME NEW x \in 1 .. k, x \notin out, x # s[v].msg
               PROVE  x \in {t[i].msg : i \in 1 .. Len(t)}
    BY DEF Accounted
  <2>1. PICK j \in 1 .. Len(s) : s[j].msg = x
    BY <1>12 DEF Accounted
  <2>2. PICK i \in 1 .. Len(t) : at(i) = j
    BY <1>5, <2>1
  <2>3. t[i].msg = x
    BY <1>3, <2>1, <2>2
  <2> QED BY <2>3
<1> QED BY <1>9, <1>10, <1>11, <1>12

\* An element appended is not before the cursor; its message is accounted for.
LEMMA AppendedInRedis ==
  ASSUME NEW s, NEW c, NEW d, NEW n \in Nat, WellFormed(s, c, d, n),
         NEW e \in Elem, e.msg = n + 1, NEW t, t = Append(s, e)
  PROVE  /\ \A cache : CacheHolds(s, c, cache) => CacheHolds(t, c, cache)
         /\ \A ids : OwedHeld(s, c, ids) => OwedHeld(t, c, ids)
         /\ \A out : Accounted(s, n, out) => Accounted(t, n + 1, out)
<1>1. s \in Seq(Elem) /\ Len(s) \in Nat /\ c \in 1 .. (Len(s) + 1)
  BY DEF WellFormed
<1>2. /\ Len(t) = Len(s) + 1 /\ t[Len(s) + 1] = e
      /\ \A i \in 1 .. Len(s) : t[i] = s[i]
  BY <1>1
<1>3. \A i \in 1 .. (c - 1) : i \in 1 .. Len(s)
  BY <1>1
<1>4. ASSUME NEW cache, CacheHolds(s, c, cache) PROVE CacheHolds(t, c, cache)
  BY <1>2, <1>3, <1>4 DEF CacheHolds
<1>5. ASSUME NEW ids, OwedHeld(s, c, ids) PROVE OwedHeld(t, c, ids)
  BY <1>2, <1>3, <1>5 DEF OwedHeld
<1>6. ASSUME NEW out, Accounted(s, n, out) PROVE Accounted(t, n + 1, out)
  <2> SUFFICES ASSUME NEW x \in 1 .. (n + 1), x \notin out
               PROVE  \E i \in 1 .. Len(t) : t[i].msg = x
    BY DEF Accounted
  <2>1. CASE x = n + 1
    <3>1. Len(s) + 1 \in 1 .. Len(t) /\ t[Len(s) + 1].msg = x
      BY <1>1, <1>2, <2>1
    <3> QED BY <3>1
  <2>2. CASE x # n + 1
    <3>1. x \in 1 .. n
      BY <2>2
    <3>2. PICK i \in 1 .. Len(s) : s[i].msg = x
      BY <1>6, <3>1 DEF Accounted
    <3>3. i \in 1 .. Len(t) /\ t[i].msg = x
      BY <1>1, <1>2, <3>2
    <3> QED BY <3>3
  <2> QED BY <2>1, <2>2
<1> QED BY <1>4, <1>5, <1>6

\* The element that Add on a full redis queue takes out: an expired inflight one, or one not read;
\* of those an expired one, else one of QoS 0, else the one at the cursor.
LEMMA RedisVictims ==
  ASSUME QueueInv, len \in Nat, NEW e, NEW v, v = RedisVictim(e), v # 0
  PROVE  /\ v \in 1 .. Len(l) /\ (v \in InflightExpired <=> v < current)
         /\ \/ v < current
            \/ v \in Unread /\ ElemExpiry(v)
            \/ v \in Unread /\ l[v].qos = 0
            \/ v \in Unread /\ InflightExpired = {} /\ UnreadExpired = {} /\ UnreadQoS0 = {}
<1>1. Len(l) \in Nat /\ current \in 1 .. (Len(l) + 1)
  BY Typed
<1>2. /\ InflightExpired \in SUBSET (1 .. Len(l)) /\ \A i \in InflightExpired : i < current
      /\ UnreadScanned \subseteq Unread /\ Unread \in SUBSET (1 .. Len(l))
  BY <1>1 DEF InflightExpired, UnreadScanned, Scanned, Unread
<1>3. UnreadExpired \in SUBSET UnreadScanned /\ UnreadQoS0 \in SUBSET UnreadScanned
  BY DEF UnreadExpired, UnreadQoS0
<1>4. UnreadExpired \in SUBSET (1 .. Len(l)) /\ UnreadQoS0 \in SUBSET (1 .. Len(l))
  BY <1>2, <1>3
<1>5. \A i \in Unread : ~(i < current)
  BY <1>1 DEF Unread
<1>6. CASE InflightExpired # {}
  <2>1. v = Min(InflightExpired)
    BY <1>6 DEF RedisVictim
  <2>2. v \in InflightExpired
    BY <1>1, <1>2, <1>6, <2>1, FirstOf, Zenon
  <2> QED BY <1>2, <2>2
<1>7. CASE InflightExpired = {} /\ UnreadExpired # {}
  <2>1. v = Min(UnreadExpired)
    BY <1>7 DEF RedisVictim
  <2>2. v \in UnreadExpired
    BY <1>1, <1>4, <1>7, <2>1, FirstOf, Zenon
  <2>3. v \in Unread /\ ElemExpiry(v)
    BY <1>2, <1>3, <2>2 DEF UnreadExpired
  <2> QED BY <1>2, <1>5, <1>7, <2>3
<1>8. CASE InflightExpired = {} /\ UnreadExpired = {} /\ UnreadQoS0 # {}
  <2>1. v = Min(UnreadQoS0)
    BY <1>8 DEF RedisVictim
  <2>2. v \in UnreadQoS0
    BY <1>1, <1>4, <1>8, <2>1, FirstOf, Zenon
  <2>3. v \in Unread /\ l[v].qos = 0
    BY <1>2, <1>3, <2>2 DEF UnreadQoS0
  <2> QED BY <1>2, <1>5, <1>8, <2>3
<1>9. CASE InflightExpired = {} /\ UnreadExpired = {} /\ UnreadQoS0 = {}
  <2>1. v = IF e.qos = 0 \/ UnreadScanned = {} THEN 0 ELSE current
    BY <1>9 DEF RedisVictim
  <2>2. v = current /\ UnreadScanned # {}
    BY <2>1
  <2>3. current \in Unread
    <3>1. PICK x \in Unread : TRUE
      BY <1>2, <2>2
    <3> QED BY <1>1, <3>1 DEF Unread
  <2> QED BY <1>2, <1>5, <1>9, <2>2, <2>3
<1> QED BY <1>6, <1>7, <1>8, <1>9

\* The list, the cursor, the cache, the identifiers owed and the messages accounted for, after a step.
LEMMA Composed ==
  ASSUME RedisInv, NEW s, NEW c, NEW d \in BOOLEAN, NEW n \in 0 .. MaxMsgs, WellFormed(s, c, d, n),
         NEW k \in Nat, NEW cache \in [Pids -> {NoEntry} \cup [msg : 1 .. MaxMsgs, kind : {"publish", "pubrel"}]],
         NEW ids \in SUBSET Pids, NEW f \in SUBSET (1 .. MaxMsgs), NEW g \in SUBSET (1 .. MaxMsgs),
         NEW i \in BOOLEAN, i => k = Len(s) /\ CacheHolds(s, c, cache), ~i => c = 1 /\ d = FALSE,
         OwedHeld(s, c, ids), Accounted(s, n, f \cup g),
         l' = s, current' = c, inflightDrained' = d, added' = n, len' = k, readCache' = cache,
         owed' = ids, done' = f, dropped' = g, inited' = i,
         closed' \in BOOLEAN, crashes' \in 0 .. MaxCrashes
  PROVE  RedisInv'
<1>1. QueueInv'
  BY DEF QueueInv
<1> QED BY <1>1 DEF RedisInv

LEMMA RedisTyped ==
  ASSUME RedisInv
  PROVE  /\ WellFormed(l, current, inflightDrained, added) /\ added \in Nat /\ added \in 0 .. MaxMsgs
         /\ inflightDrained \in BOOLEAN /\ closed \in BOOLEAN /\ inited \in BOOLEAN
         /\ dropped \in SUBSET (1 .. MaxMsgs) /\ done \in SUBSET (1 .. MaxMsgs) /\ owed \in SUBSET Pids
         /\ len \in Nat /\ crashes \in 0 .. MaxCrashes /\ MaxMsgs \in Nat
         /\ readCache \in [Pids -> {NoEntry} \cup [msg : 1 .. MaxMsgs, kind : {"publish", "pubrel"}]]
<1>1. added \in Nat /\ MaxMsgs \in Nat
  BY Typed DEF RedisInv
<1> QED BY <1>1 DEF RedisInv, QueueInv

\* A list stays well formed when more messages have been added.
LEMMA MoreAdded ==
  ASSUME NEW s, NEW c, NEW d, NEW n \in Nat, WellFormed(s, c, d, n)
  PROVE  WellFormed(s, c, d, n + 1)
<1>1. s \in Seq(Elem)
  BY DEF WellFormed
<1>2. \A i \in 1 .. Len(s) : s[i].msg <= n /\ s[i].msg \in Int
  <2>1. \A i \in 1 .. Len(s) : s[i] \in Elem
    BY <1>1
  <2>2. \A x \in Elem : x.msg \in Int
    BY DEF Elem
  <2> QED BY <2>1, <2>2 DEF WellFormed
<1>3. \A i \in 1 .. Len(s) : s[i].msg <= n + 1
  BY <1>2
<1> QED BY <1>3 DEF WellFormed

\* A message given to Add.
Incoming(e) == e \in Elem /\ e.id = 0 /\ e.kind = "publish" /\ e.msg = added + 1

LEMMA RedisAddsWithRoom ==
  ASSUME RedisInv, NEW e, Incoming(e), redisAddRoom(e), added' = added + 1,
         UNCHANGED <<inflightDrained, closed, inited, done, crashes>>
  PROVE  RedisInv'
<1>1. e \in Elem /\ e.id = 0 /\ e.kind = "publish" /\ e.msg = added + 1
  BY DEF Incoming
<1>2. WellFormed(l, current, inflightDrained, added) /\ added \in Nat
  BY RedisTyped
<1>3. PICK t : t = Append(l, e)
  OBVIOUS
<1>4. WellFormed(t, current, inflightDrained, added + 1) /\ Len(t) = Len(l) + 1
  BY <1>1, <1>2, <1>3, Appended, Zenon
<1>5. /\ \A cache : CacheHolds(l, current, cache) => CacheHolds(t, current, cache)
      /\ \A ids : OwedHeld(l, current, ids) => OwedHeld(t, current, ids)
      /\ \A out : Accounted(l, added, out) => Accounted(t, added + 1, out)
  BY <1>1, <1>2, <1>3, AppendedInRedis
<1>6. /\ l' = t /\ len' = len + 1
      /\ UNCHANGED <<current, dropped, readCache, owed>>
  BY <1>3 DEF redisAddRoom
<1>7. added + 1 \in 0 .. MaxMsgs
  BY <1>1 DEF Elem
<1>8. len + 1 \in Nat
  BY RedisTyped
<1>9. OwedHeld(t, current, owed) /\ Accounted(t, added + 1, done \cup dropped)
  BY <1>5 DEF RedisInv
<1>10. /\ inited => len + 1 = Len(t) /\ CacheHolds(t, current, readCache)
       /\ ~inited => current = 1 /\ inflightDrained = FALSE
  BY <1>4, <1>5 DEF RedisInv
<1>11. /\ l' = t /\ current' = current /\ inflightDrained' = inflightDrained /\ added' = added + 1
       /\ len' = len + 1 /\ readCache' = readCache /\ owed' = owed /\ done' = done
       /\ dropped' = dropped /\ inited' = inited /\ closed' = closed /\ crashes' = crashes
  BY <1>6
<1> QED BY <1>4, <1>7, <1>8, <1>9, <1>10, <1>11, RedisTyped, Composed

\* The element v is taken out, by Add or by a crash in the middle of it.
LEMMA RedisVictimOut ==
  ASSUME RedisInv, NEW v \in 1 .. Len(l), NEW t, t = SeqExt!RemoveAt(l, v),
         NEW b, b = IF v < current THEN current - 1 ELSE current
  PROVE  /\ WellFormed(t, b, inflightDrained, added) /\ Len(t) = Len(l) - 1
         /\ inited => CacheHolds(t, b, readCache)
         /\ OwedHeld(t, b, owed \ {l[v].id})
         /\ Accounted(t, added, done \cup (dropped \cup {l[v].msg}))
         /\ NotHeld(t, b, l[v].id)
<1>1. WellFormed(l, current, inflightDrained, added) /\ added \in Nat
  BY RedisTyped
<1>2. WellFormed(t, b, inflightDrained, added) /\ Len(t) = Len(l) - 1
  BY <1>1, TakenOut
<1>3. /\ NotHeld(t, b, l[v].id)
      /\ \A cache : CacheHolds(l, current, cache) => CacheHolds(t, b, cache)
      /\ \A ids : OwedHeld(l, current, ids) => OwedHeld(t, b, ids \ {l[v].id})
      /\ \A k, out : Accounted(l, k, out) => Accounted(t, k, out \cup {l[v].msg})
  BY <1>1, TakenOutOfRedis
<1>4. Accounted(t, added, (done \cup dropped) \cup {l[v].msg})
  BY <1>3 DEF RedisInv
<1>5. (done \cup dropped) \cup {l[v].msg} = done \cup (dropped \cup {l[v].msg})
  OBVIOUS
<1>6. Accounted(t, added, done \cup (dropped \cup {l[v].msg}))
  BY <1>4, <1>5, Zenon
<1> QED BY <1>2, <1>3, <1>6 DEF RedisInv

LEMMA RedisAddsEvicting ==
  ASSUME RedisInv, LateAck = FALSE, NEW e, Incoming(e), redisAddEvict(e), added' = added + 1,
         UNCHANGED <<inflightDrained, closed, inited, done, crashes>>
  PROVE  RedisInv'
<1>1. e \in Elem /\ e.id = 0 /\ e.kind = "publish" /\ e.msg = added + 1
  BY DEF Incoming
<1>2. PICK v : v = RedisVictim(e)
  OBVIOUS
<1>3. /\ v # 0 /\ l' = Append(SeqExt!RemoveAt(l, v), e)
      /\ current' = IF v \in InflightExpired THEN current - 1 ELSE current
      /\ dropped' = dropped \cup {l[v].msg} /\ owed' = owed \ {l[v].id}
      /\ UNCHANGED <<len, readCache>>
  BY <1>2 DEF redisAddEvict, NotifyDropped
<1>4. v \in 1 .. Len(l) /\ (v \in InflightExpired <=> v < current)
  BY <1>2, <1>3, RedisVictims DEF RedisInv
<1>5. PICK s : s = SeqExt!RemoveAt(l, v)
  OBVIOUS
<1>6. PICK b : b = IF v < current THEN current - 1 ELSE current
  OBVIOUS
<1>7. /\ WellFormed(s, b, inflightDrained, added) /\ Len(s) = Len(l) - 1
      /\ inited => CacheHolds(s, b, readCache)
      /\ OwedHeld(s, b, owed \ {l[v].id})
      /\ Accounted(s, added, done \cup (dropped \cup {l[v].msg}))
  BY <1>4, <1>5, <1>6, RedisVictimOut
<1>8. PICK t : t = Append(s, e)
  OBVIOUS
<1>9. added \in Nat /\ WellFormed(s, b, inflightDrained, added)
  BY <1>7, RedisTyped
<1>10. WellFormed(t, b, inflightDrained, added + 1) /\ Len(t) = Len(s) + 1
  BY <1>1, <1>8, <1>9, Appended, Zenon
<1>11. /\ \A cache : CacheHolds(s, b, cache) => CacheHolds(t, b, cache)
       /\ \A ids : OwedHeld(s, b, ids) => OwedHeld(t, b, ids)
       /\ \A out : Accounted(s, added, out) => Accounted(t, added + 1, out)
  BY <1>1, <1>8, <1>9, AppendedInRedis
<1>12. /\ inited => CacheHolds(t, b, readCache)
       /\ OwedHeld(t, b, owed \ {l[v].id})
       /\ Accounted(t, added + 1, done \cup (dropped \cup {l[v].msg}))
  BY <1>7, <1>11
<1>13. Len(t) = Len(l) /\ l[v].msg \in 1 .. MaxMsgs
  <2>1. Len(l) \in Nat /\ l[v] \in Elem
    BY <1>4, Typed DEF RedisInv
  <2> QED BY <1>7, <1>10, <2>1 DEF Elem
<1>14. added + 1 \in 0 .. MaxMsgs
  BY <1>1 DEF Elem
<1>15. owed \ {l[v].id} \in SUBSET Pids /\ dropped \cup {l[v].msg} \in SUBSET (1 .. MaxMsgs)
  BY <1>13, RedisTyped
<1>16. /\ inited => len = Len(t)
       /\ ~inited => b = 1 /\ inflightDrained = FALSE
  BY <1>4, <1>6, <1>13 DEF RedisInv
<1>17. /\ l' = t /\ current' = b /\ inflightDrained' = inflightDrained /\ added' = added + 1
       /\ len' = len /\ readCache' = readCache /\ owed' = owed \ {l[v].id} /\ done' = done
       /\ dropped' = dropped \cup {l[v].msg} /\ inited' = inited /\ closed' = closed /\ crashes' = crashes
  BY <1>3, <1>4, <1>5, <1>6, <1>8
<1> QED BY <1>10, <1>12, <1>14, <1>15, <1>16, <1>17, RedisTyped, Composed

LEMMA RedisAddsDropping ==
  ASSUME RedisInv, NEW e, Incoming(e), redisAddReject(e), added' = added + 1,
         UNCHANGED <<inflightDrained, closed, inited, done, crashes>>
  PROVE  RedisInv'
<1>1. e \in Elem /\ e.msg = added + 1
  BY DEF Incoming
<1>2. /\ dropped' = dropped \cup {added + 1}
      /\ UNCHANGED <<l, current, len, readCache, owed>>
  BY <1>1 DEF redisAddReject, NotifyDropped
<1>3. added + 1 \in 0 .. MaxMsgs /\ added + 1 \in 1 .. MaxMsgs
  BY <1>1 DEF Elem
<1>4. WellFormed(l, current, inflightDrained, added + 1)
  <2>1. WellFormed(l, current, inflightDrained, added) /\ added \in Nat
    BY RedisTyped
  <2> QED BY <2>1, MoreAdded, Zenon
<1>5. Accounted(l, added + 1, done \cup (dropped \cup {added + 1}))
  <2> SUFFICES ASSUME NEW x \in 1 .. (added + 1), x # added + 1
               PROVE  x \in {l[i].msg : i \in 1 .. Len(l)} \cup (done \cup dropped)
    BY DEF Accounted
  <2>1. x \in 1 .. added
    BY RedisTyped
  <2> QED BY <2>1 DEF RedisInv, Accounted
<1>6. dropped \cup {added + 1} \in SUBSET (1 .. MaxMsgs)
  BY <1>3, RedisTyped
<1>7. /\ inited => len = Len(l) /\ CacheHolds(l, current, readCache)
      /\ ~inited => current = 1 /\ inflightDrained = FALSE
      /\ OwedHeld(l, current, owed)
  BY DEF RedisInv
<1>8. /\ l' = l /\ current' = current /\ inflightDrained' = inflightDrained /\ added' = added + 1
      /\ len' = len /\ readCache' = readCache /\ owed' = owed /\ done' = done
      /\ dropped' = dropped \cup {added + 1} /\ inited' = inited /\ closed' = closed /\ crashes' = crashes
  BY <1>2
<1> QED BY <1>3, <1>4, <1>5, <1>6, <1>7, <1>8, RedisTyped, Composed

\* With the cursor at the front and nothing drained, nothing is held and nothing need be cached.
LEMMA Rewound ==
  ASSUME NEW s, NEW c, NEW d, NEW n, WellFormed(s, c, d, n)
  PROVE  /\ WellFormed(s, 1, FALSE, n) /\ OwedHeld(s, 1, {})
         /\ \A cache : CacheHolds(s, 1, cache)
<1>1. s \in Seq(Elem) /\ Len(s) \in Nat
  BY DEF WellFormed
<1>2. 1 \in 1 .. (Len(s) + 1) /\ 1 .. (1 - 1) = {}
  BY <1>1
<1>3. WellFormed(s, 1, FALSE, n)
  BY <1>2 DEF WellFormed
<1>4. \A cache : CacheHolds(s, 1, cache)
  BY <1>2 DEF CacheHolds
<1> QED BY <1>3, <1>4 DEF OwedHeld

LEMMA NothingCached ==
  [p \in Pids |-> NoEntry] \in [Pids -> {NoEntry} \cup [msg : 1 .. MaxMsgs, kind : {"publish", "pubrel"}]]
OBVIOUS

\* The broker comes back: it is enough that the list in redis is well formed and the messages are
\* accounted for.
LEMMA RedisRestarts ==
  ASSUME RedisInv, Restarted, NEW s, NEW c, NEW d, NEW n \in 0 .. MaxMsgs, WellFormed(s, c, d, n),
         NEW f \in SUBSET (1 .. MaxMsgs), NEW g \in SUBSET (1 .. MaxMsgs), Accounted(s, n, f \cup g),
         l' = s, added' = n, done' = f, dropped' = g
  PROVE  RedisInv'
<1>1. PICK cache : cache = [p \in Pids |-> NoEntry]
  OBVIOUS
<1>2. cache \in [Pids -> {NoEntry} \cup [msg : 1 .. MaxMsgs, kind : {"publish", "pubrel"}]]
  BY <1>1, NothingCached, Zenon
<1>3. WellFormed(s, 1, FALSE, n) /\ OwedHeld(s, 1, {})
  BY Rewound
<1>4. /\ current' = 1 /\ inflightDrained' = FALSE /\ closed' = FALSE /\ owed' = {}
      /\ len' = 0 /\ readCache' = cache /\ inited' = FALSE
      /\ crashes < MaxCrashes /\ crashes' = crashes + 1
  BY <1>1 DEF Restarted
<1>5. crashes' \in 0 .. MaxCrashes
  BY <1>4, RedisTyped, RedisQueueAssumption
<1>6. {} \in SUBSET Pids /\ closed' \in BOOLEAN /\ 0 \in Nat
  BY <1>4
<1> QED BY <1>2, <1>3, <1>4, <1>5, <1>6, Composed

LEMMA RedisCrashes ==
  ASSUME RedisInv, crash
  PROVE  RedisInv'
<1>1. Restarted /\ l' = l /\ added' = added /\ done' = done /\ dropped' = dropped
  BY DEF crash
<1>2. Accounted(l, added, done \cup dropped)
  BY DEF RedisInv
<1> QED BY <1>1, <1>2, RedisTyped, RedisRestarts

\* The crash comes between lrem and rpush.
LEMMA RedisCrashesAdding ==
  ASSUME RedisInv, NEW e, Incoming(e), addCrash(e)
  PROVE  RedisInv'
<1>1. e \in Elem /\ e.msg = added + 1
  BY DEF Incoming
<1>2. PICK v : v = RedisVictim(e)
  OBVIOUS
<1>3. PICK t : t = SeqExt!RemoveAt(l, v)
  OBVIOUS
<1>4. /\ Restarted /\ v # 0 /\ l' = t /\ added' = added + 1 /\ done' = done
      /\ dropped' = dropped \cup {added + 1, l[v].msg}
  BY <1>1, <1>2, <1>3 DEF addCrash
<1>5. v \in 1 .. Len(l)
  BY <1>2, <1>4, RedisVictims DEF RedisInv
<1>6. PICK b : b = IF v < current THEN current - 1 ELSE current
  OBVIOUS
<1>7. /\ WellFormed(t, b, inflightDrained, added)
      /\ Accounted(t, added, done \cup (dropped \cup {l[v].msg}))
  BY <1>3, <1>5, <1>6, RedisVictimOut
<1>8. WellFormed(t, b, inflightDrained, added + 1)
  BY <1>7, RedisTyped, MoreAdded
<1>9. Accounted(t, added + 1, done \cup (dropped \cup {added + 1, l[v].msg}))
  <2> SUFFICES ASSUME NEW x \in 1 .. (added + 1), x # added + 1
               PROVE  x \in {t[i].msg : i \in 1 .. Len(t)} \cup (done \cup (dropped \cup {l[v].msg}))
    BY DEF Accounted
  <2>1. x \in 1 .. added
    BY RedisTyped
  <2> QED BY <1>7, <2>1 DEF Accounted
<1>10. added + 1 \in 0 .. MaxMsgs /\ added + 1 \in 1 .. MaxMsgs
  BY <1>1 DEF Elem
<1>11. l[v].msg \in 1 .. MaxMsgs
  <2>1. l[v] \in Elem
    BY <1>5, Typed DEF RedisInv
  <2> QED BY <2>1 DEF Elem
<1>12. dropped \cup {added + 1, l[v].msg} \in SUBSET (1 .. MaxMsgs) /\ done \in SUBSET (1 .. MaxMsgs)
  BY <1>10, <1>11, RedisTyped
<1> QED BY <1>4, <1>8, <1>9, <1>10, <1>12, RedisRestarts

LEMMA RedisConnects ==
  ASSUME RedisInv, redisConnect \/ redisDisconnect
  PROVE  RedisInv'
<1>1. CASE redisDisconnect
  <2>1. closed' = TRUE /\ UNCHANGED <<l, current, inflightDrained, added, dropped>>
        /\ UNCHANGED <<len, readCache, inited, owed, done, crashes>>
    BY <1>1 DEF redisDisconnect, Close
  <2>2. QueueInv'
    BY <2>1 DEF QueueInv, WellFormed, RedisInv
  <2> QED BY <2>1, <2>2 DEF RedisInv, CacheHolds, OwedHeld, Accounted
<1>2. CASE redisConnect
  <2>1. PICK cache : cache = [p \in Pids |-> NoEntry]
    OBVIOUS
  <2>2. cache \in [Pids -> {NoEntry} \cup [msg : 1 .. MaxMsgs, kind : {"publish", "pubrel"}]]
    BY <2>1, NothingCached, Zenon
  <2>3. WellFormed(l, 1, FALSE, added) /\ OwedHeld(l, 1, {}) /\ CacheHolds(l, 1, cache)
    BY RedisTyped, Rewound
  <2>4. Accounted(l, added, done \cup dropped) /\ Len(l) \in Nat
    BY Typed DEF RedisInv
  <2>5. /\ l' = l /\ current' = 1 /\ inflightDrained' = FALSE /\ added' = added /\ dropped' = dropped
        /\ len' = Len(l) /\ readCache' = cache /\ owed' = {} /\ done' = done /\ inited' = TRUE
        /\ closed' = FALSE /\ crashes' = crashes
    BY <1>2, <2>1 DEF redisConnect, InitResume
  <2>6. {} \in SUBSET Pids
    OBVIOUS
  <2> QED BY <2>2, <2>3, <2>4, <2>5, <2>6, RedisTyped, Composed
<1> QED BY <1>1, <1>2

\* An element that changes its kind or its expiry keeps its place, its identifier and its message.
ChangedTo(t, v, x) ==
  /\ WellFormed(t, current, inflightDrained, added) /\ Len(t) = Len(l)
  /\ OwedHeld(t, current, owed) /\ Accounted(t, added, done \cup dropped)
  /\ \A i \in 1 .. Len(l) : t[i] = IF i = v THEN x ELSE l[i]

LEMMA ChangedInRedis ==
  ASSUME RedisInv, NEW v \in 1 .. Len(l), NEW x \in Elem, x.id = l[v].id, x.msg = l[v].msg,
         x.kind = "pubrel" => l[v].id # 0, NEW t, t = [l EXCEPT ![v] = x]
  PROVE  ChangedTo(t, v, x)
<1>1. l \in Seq(Elem) /\ Len(l) \in Nat /\ current \in 1 .. (Len(l) + 1)
  BY Typed DEF RedisInv
<1>2. t \in Seq(Elem) /\ Len(t) = Len(l)
  BY <1>1
<1>3. \A i \in 1 .. Len(l) : t[i] = IF i = v THEN x ELSE l[i]
  BY <1>1
<1>4. WellFormed(l, current, inflightDrained, added) /\ added \in Nat
  BY RedisTyped
<1>5. \A i \in 1 .. Len(l) : /\ t[i].id = l[i].id /\ t[i].msg = l[i].msg
                             /\ t[i].kind = "pubrel" => l[i].id # 0
  BY <1>3, <1>4 DEF WellFormed
<1>6. WellFormed(t, current, inflightDrained, added)
  BY <1>2, <1>4, <1>5, Changed, Zenon
<1>7. \A i \in 1 .. (current - 1) : i \in 1 .. Len(l)
  BY <1>1
<1>8. OwedHeld(t, current, owed)
  BY <1>5, <1>7 DEF RedisInv, OwedHeld
<1>9. Accounted(t, added, done \cup dropped)
  <2>1. {t[i].msg : i \in 1 .. Len(t)} = {l[i].msg : i \in 1 .. Len(l)}
    BY <1>2, <1>5
  <2> QED BY <2>1 DEF RedisInv, Accounted
<1> QED BY <1>2, <1>3, <1>6, <1>8, <1>9 DEF ChangedTo

\* Time passes.
LEMMA RedisExpires ==
  ASSUME RedisInv, redisTick
  PROVE  RedisInv'
<1>1. PICK v \in 1 .. Len(l) : Expire(v)
  BY DEF redisTick
<1>2. l[v] \in Elem /\ l \in Seq(Elem) /\ current \in 1 .. (Len(l) + 1) /\ Len(l) \in Nat
  BY Typed DEF RedisInv
<1>3. PICK x : x = [l[v] EXCEPT !.expiry = "expired"]
  OBVIOUS
<1>4. x \in Elem /\ x.id = l[v].id /\ x.msg = l[v].msg /\ x.kind = l[v].kind
  BY <1>2, <1>3 DEF Elem
<1>5. PICK t : t = [l EXCEPT ![v] = x]
  OBVIOUS
<1>6. x.kind = "pubrel" => l[v].id # 0
  BY <1>4 DEF RedisInv, QueueInv, WellFormed
<1>7. /\ WellFormed(t, current, inflightDrained, added) /\ Len(t) = Len(l)
      /\ OwedHeld(t, current, owed) /\ Accounted(t, added, done \cup dropped)
      /\ \A i \in 1 .. Len(l) : t[i] = IF i = v THEN x ELSE l[i]
  <2>1. ChangedTo(t, v, x)
    BY <1>4, <1>5, <1>6, ChangedInRedis
  <2> QED BY <2>1 DEF ChangedTo
<1>8. /\ l' = t /\ current' = current /\ inflightDrained' = inflightDrained /\ added' = added
      /\ len' = len /\ readCache' = readCache /\ owed' = owed /\ done' = done
      /\ dropped' = dropped /\ inited' = inited /\ closed' = closed /\ crashes' = crashes
  BY <1>1, <1>2, <1>3, <1>5 DEF Expire, redisTick
<1>9. inited => CacheHolds(t, current, readCache)
  <2>1. \A i \in 1 .. (current - 1) : i \in 1 .. Len(l)
    BY <1>2
  <2>2. \A i \in 1 .. Len(l) : t[i].id = l[i].id /\ Entry(t[i]) = Entry(l[i])
    BY <1>4, <1>7 DEF Entry
  <2> QED BY <2>1, <2>2 DEF RedisInv, CacheHolds
<1>10. /\ inited => len = Len(t)
       /\ ~inited => current = 1 /\ inflightDrained = FALSE
  BY <1>7 DEF RedisInv
<1> QED BY <1>7, <1>8, <1>9, <1>10, RedisTyped, Composed

\* What the client owes an acknowledgement for is in the list before the cursor, once, and in the
\* cache: the object has been initialised.
LEMMA OwedIsCached ==
  ASSUME RedisInv, NEW pid \in owed
  PROVE  \E v \in 1 .. (current - 1) :
            /\ inited /\ v \in 1 .. Len(l) /\ v < current /\ l[v] \in Elem /\ l[v].id = pid
            /\ readCache[pid] = Entry(l[v]) /\ readCache[pid] # NoEntry
            /\ \A i \in 1 .. Len(l) : l[i].id = pid => i = v
<1>1. Len(l) \in Nat /\ current \in 1 .. (Len(l) + 1)
  BY Typed DEF RedisInv
<1>2. PICK v \in 1 .. (current - 1) : l[v].id = pid
  BY DEF RedisInv, OwedHeld
<1>3. v \in 1 .. Len(l) /\ v < current /\ current # 1
  BY <1>1, <1>2
<1>4. inited
  BY <1>3 DEF RedisInv
<1>5. l[v] \in Elem /\ l[v].id # 0
  BY <1>3, Typed DEF RedisInv, QueueInv, WellFormed
<1>6. readCache[pid] = Entry(l[v])
  BY <1>2, <1>4 DEF RedisInv, CacheHolds
<1>7. readCache[pid] # NoEntry
  BY <1>5, <1>6, Entries
<1>8. \A i, j \in 1 .. Len(l) : l[i].id # 0 /\ i # j => l[i].id # l[j].id
  BY DEF RedisInv, QueueInv, WellFormed
<1>9. \A i \in 1 .. Len(l) : l[i].id = pid => i = v
  BY <1>2, <1>3, <1>5, <1>8
<1> QED BY <1>2, <1>3, <1>4, <1>5, <1>6, <1>7, <1>9

\* PUBACK, PUBCOMP or a negative PUBREC: lrem finds the one element.
LEMMA RedisAcknowledges ==
  ASSUME RedisInv, redisAcknowledge
  PROVE  RedisInv'
<1>1. PICK pid \in owed :
         /\ redisRemove(pid) /\ owed' = owed \ {pid}
         /\ done' = done \cup {l[i].msg : i \in Cached(pid)}
         /\ UNCHANGED <<inflightDrained, closed, added, dropped, inited, crashes>>
  BY DEF redisAcknowledge
<1>2. PICK v \in 1 .. (current - 1) :
         /\ inited /\ v \in 1 .. Len(l) /\ v < current /\ l[v] \in Elem /\ l[v].id = pid
         /\ readCache[pid] = Entry(l[v]) /\ readCache[pid] # NoEntry
         /\ \A i \in 1 .. Len(l) : l[i].id = pid => i = v
  BY OwedIsCached
<1>3. Cached(pid) = {v}
  BY <1>2 DEF Cached
<1>4. Len(l) \in Nat /\ current \in 1 .. (Len(l) + 1)
  BY Typed DEF RedisInv
<1>5. Min(Cached(pid)) = v
  <2>1. {v} \in SUBSET (1 .. Len(l)) /\ {v} # {}
    BY <1>2
  <2>2. Min({v}) \in {v}
    BY <1>4, <2>1, FirstOf, Zenon
  <2> QED BY <1>3, <2>2
<1>6. PICK t : t = SeqExt!RemoveAt(l, v)
  OBVIOUS
<1>7. PICK b : b = IF v < current THEN current - 1 ELSE current
  OBVIOUS
<1>8. PICK cache : cache = [readCache EXCEPT ![pid] = NoEntry]
  OBVIOUS
<1>9. /\ l' = t /\ len' = len - 1 /\ current' = b /\ readCache' = cache
  BY <1>1, <1>2, <1>3, <1>5, <1>6, <1>7, <1>8 DEF redisRemove
<1>10. done' = done \cup {l[v].msg}
  BY <1>1, <1>3
<1>11. /\ WellFormed(t, b, inflightDrained, added) /\ Len(t) = Len(l) - 1
       /\ CacheHolds(t, b, readCache)
       /\ OwedHeld(t, b, owed \ {pid})
       /\ Accounted(t, added, done \cup (dropped \cup {l[v].msg}))
  BY <1>2, <1>6, <1>7, RedisVictimOut
<1>12. Accounted(t, added, (done \cup {l[v].msg}) \cup dropped)
  <2>1. (done \cup {l[v].msg}) \cup dropped = done \cup (dropped \cup {l[v].msg})
    OBVIOUS
  <2> QED BY <1>11, <2>1, Zenon
<1>13. \A i \in 1 .. (b - 1) : t[i].id # pid
  <2>1. NotHeld(t, b, l[v].id)
    BY <1>2, <1>6, <1>7, RedisVictimOut
  <2> QED BY <1>2, <2>1 DEF NotHeld
<1>14. cache \in [Pids -> {NoEntry} \cup [msg : 1 .. MaxMsgs, kind : {"publish", "pubrel"}]]
  BY <1>8, RedisTyped
<1>15. CacheHolds(t, b, cache)
  <2>1. \A p \in Pids : p # pid => cache[p] = readCache[p]
    BY <1>8, RedisTyped
  <2>2. \A i \in 1 .. (b - 1) : t[i].id \in Pids
    BY <1>11, InflightIds
  <2> QED BY <1>11, <1>13, <2>1, <2>2 DEF CacheHolds
<1>16. len - 1 \in Nat /\ len - 1 = Len(t)
  <2>1. len = Len(l)
    BY <1>2 DEF RedisInv
  <2> QED BY <1>2, <1>4, <1>11, <2>1
<1>17. owed \ {pid} \in SUBSET Pids /\ done \cup {l[v].msg} \in SUBSET (1 .. MaxMsgs)
  <2>1. l[v].msg \in 1 .. MaxMsgs
    BY <1>2 DEF Elem
  <2> QED BY <2>1, RedisTyped
<1>18. /\ l' = t /\ current' = b /\ inflightDrained' = inflightDrained /\ added' = added
       /\ len' = len - 1 /\ readCache' = cache /\ owed' = owed \ {pid} /\ done' = done \cup {l[v].msg}
       /\ dropped' = dropped /\ inited' = inited /\ closed' = closed /\ crashes' = crashes
  BY <1>1, <1>9, <1>10
<1> QED BY <1>2, <1>11, <1>12, <1>14, <1>15, <1>16, <1>17, <1>18, RedisTyped, Composed

\* PUBREC: the element and its cache entry become those of the Pubrel.
LEMMA RedisReceives ==
  ASSUME RedisInv, redisReceived
  PROVE  RedisInv'
<1>1. PICK pid \in owed :
         /\ redisReplace(pid)
         /\ UNCHANGED <<current, inflightDrained, closed, added, dropped, len, inited, owed, done, crashes>>
  BY DEF redisReceived
<1>2. PICK v \in 1 .. (current - 1) :
         /\ inited /\ v \in 1 .. Len(l) /\ v < current /\ l[v] \in Elem /\ l[v].id = pid
         /\ readCache[pid] = Entry(l[v]) /\ readCache[pid] # NoEntry
         /\ \A i \in 1 .. Len(l) : l[i].id = pid => i = v
  BY OwedIsCached
<1>3. l \in Seq(Elem) /\ Len(l) \in Nat /\ current \in 1 .. (Len(l) + 1) /\ pid \in Pids
  BY Typed, RedisTyped DEF RedisInv
<1>4. PICK at : at = {i \in 1 .. Len(l) : l[i].id = pid /\ (i < current \/ i = 1)}
  OBVIOUS
<1>5. at = {v}
  BY <1>2, <1>4
<1>6. Min(at) = v
  <2>1. at \in SUBSET (1 .. Len(l)) /\ at # {}
    BY <1>2, <1>5
  <2>2. Min(at) \in at
    BY <1>3, <2>1, FirstOf, Zenon
  <2> QED BY <1>5, <2>2
<1>7. PICK x : x = [l[v] EXCEPT !.kind = "pubrel", !.expiry = "never"]
  OBVIOUS
<1>8. x \in Elem /\ x.id = l[v].id /\ x.msg = l[v].msg /\ x.kind = "pubrel"
  BY <1>2, <1>7 DEF Elem
<1>9. PICK t : t = [l EXCEPT ![v] = x]
  OBVIOUS
<1>10. PICK cache : cache = [readCache EXCEPT ![pid] = Entry(x)]
  OBVIOUS
<1>11. l' = t /\ readCache' = cache
  <2>1. /\ l' = [l EXCEPT ![v].kind = "pubrel", ![v].expiry = "never"]
        /\ readCache' = [readCache EXCEPT ![pid] = [msg |-> l[v].msg, kind |-> "pubrel"]]
    BY <1>1, <1>4, <1>5, <1>6 DEF redisReplace
  <2>2. l' = t
    BY <1>2, <1>3, <1>7, <1>9, <2>1 DEF Elem
  <2>3. Entry(x) = [msg |-> l[v].msg, kind |-> "pubrel"]
    BY <1>8 DEF Entry
  <2> QED BY <1>10, <2>1, <2>2, <2>3
<1>12. x.kind = "pubrel" => l[v].id # 0
  BY <1>2, <1>3, MemQueueAssumption DEF Pids
<1>13. /\ WellFormed(t, current, inflightDrained, added) /\ Len(t) = Len(l)
       /\ OwedHeld(t, current, owed) /\ Accounted(t, added, done \cup dropped)
       /\ \A i \in 1 .. Len(l) : t[i] = IF i = v THEN x ELSE l[i]
  <2>1. ChangedTo(t, v, x)
    BY <1>2, <1>8, <1>9, <1>12, ChangedInRedis
  <2> QED BY <2>1 DEF ChangedTo
<1>14. cache \in [Pids -> {NoEntry} \cup [msg : 1 .. MaxMsgs, kind : {"publish", "pubrel"}]]
  <2>1. Entry(x) \in [msg : 1 .. MaxMsgs, kind : {"publish", "pubrel"}]
    BY <1>8, Entries
  <2> QED BY <1>10, <2>1, RedisTyped
<1>15. CacheHolds(t, current, cache)
  <2> SUFFICES ASSUME NEW i \in 1 .. (current - 1) PROVE cache[t[i].id] = Entry(t[i])
    BY DEF CacheHolds
  <2>1. i \in 1 .. Len(l)
    BY <1>3
  <2>2. cache[pid] = Entry(x) /\ \A p \in Pids : p # pid => cache[p] = readCache[p]
    BY <1>3, <1>10, RedisTyped
  <2>3. CASE i = v
    <3>1. t[i] = x /\ x.id = pid
      BY <1>2, <1>8, <1>13, <2>1, <2>3
    <3> QED BY <2>2, <3>1
  <2>4. CASE i # v
    <3>1. t[i] = l[i] /\ l[i].id # pid
      BY <1>2, <1>13, <2>1, <2>4
    <3>2. l[i].id \in Pids
      BY RedisTyped, InflightIds
    <3>3. readCache[l[i].id] = Entry(l[i])
      BY <1>2 DEF RedisInv, CacheHolds
    <3> QED BY <2>2, <3>1, <3>2, <3>3
  <2> QED BY <2>3, <2>4
<1>16. len = Len(t)
  BY <1>2, <1>13 DEF RedisInv
<1>17. /\ l' = t /\ current' = current /\ inflightDrained' = inflightDrained /\ added' = added
       /\ len' = len /\ readCache' = cache /\ owed' = owed /\ done' = done
       /\ dropped' = dropped /\ inited' = inited /\ closed' = closed /\ crashes' = crashes
  BY <1>1, <1>11
<1> QED BY <1>2, <1>13, <1>14, <1>15, <1>16, <1>17, RedisTyped, Composed

\* The cache after the elements S were sent.
CacheWith(cache, S) ==
  [p \in Pids |-> IF \E e \in S : e.id = p THEN Entry(CHOOSE e \in S : e.id = p) ELSE cache[p]]

LEMMA CacheUpdated ==
  ASSUME NEW cache \in [Pids -> {NoEntry} \cup [msg : 1 .. MaxMsgs, kind : {"publish", "pubrel"}]],
         NEW S \in SUBSET Elem, \A e, f \in S : e.id = f.id => e = f
  PROVE  /\ CacheWith(cache, S) \in [Pids -> {NoEntry} \cup [msg : 1 .. MaxMsgs, kind : {"publish", "pubrel"}]]
         /\ \A e \in S : e.id \in Pids => CacheWith(cache, S)[e.id] = Entry(e)
         /\ \A p \in Pids : (\A e \in S : e.id # p) => CacheWith(cache, S)[p] = cache[p]
<1>1. ASSUME NEW e \in S, e.id \in Pids PROVE CacheWith(cache, S)[e.id] = Entry(e)
  <2>1. (CHOOSE f \in S : f.id = e.id) = e
    OBVIOUS
  <2>2. CacheWith(cache, S)[e.id] = Entry(CHOOSE f \in S : f.id = e.id)
    BY <1>1 DEF CacheWith
  <2> QED BY <2>1, <2>2, Zenon
<1>2. ASSUME NEW p \in Pids, \A e \in S : e.id # p PROVE CacheWith(cache, S)[p] = cache[p]
  BY <1>2 DEF CacheWith
<1>3. ASSUME NEW p \in Pids
      PROVE  CacheWith(cache, S)[p] \in {NoEntry} \cup [msg : 1 .. MaxMsgs, kind : {"publish", "pubrel"}]
  <2>1. CASE \A e \in S : e.id # p
    BY <1>2, <2>1
  <2>2. ASSUME NEW e \in S, e.id = p
        PROVE CacheWith(cache, S)[p] \in [msg : 1 .. MaxMsgs, kind : {"publish", "pubrel"}]
    BY <1>1, <2>2, Entries
  <2> QED BY <2>1, <2>2
<1>4. CacheWith(cache, S) \in [Pids -> {NoEntry} \cup [msg : 1 .. MaxMsgs, kind : {"publish", "pubrel"}]]
  <2>1. CacheWith(cache, S) = [p \in Pids |-> CacheWith(cache, S)[p]]
    BY DEF CacheWith
  <2> QED BY <1>3, <2>1
<1> QED BY <1>1, <1>2, <1>4

\* The elements S are sent: the list becomes t, in which they are those between the old cursor and
\* the new one, b.
SentAs(t, b, S) ==
  /\ S \in SUBSET Elem /\ b \in Nat /\ current <= b
  /\ \A e, f \in S : e.id = f.id => e = f
  /\ \A i \in 1 .. (current - 1) : t[i].id = l[i].id /\ Entry(t[i]) = Entry(l[i])
  /\ \A i \in current .. (b - 1) : \E e \in S : t[i].id = e.id /\ Entry(t[i]) = Entry(e)
  /\ \A e \in S : \E i \in current .. (b - 1) : t[i].id = e.id

\* Then the cache and what is owed are right for the new cursor.
LEMMA SentInRedis ==
  ASSUME RedisInv, inited = TRUE, NEW t, NEW b, NEW d, WellFormed(t, b, d, added),
         NEW S, SentAs(t, b, S), NEW cache, cache = CacheWith(readCache, S),
         NEW ids, ids = owed \cup {e.id : e \in S}
  PROVE  /\ cache \in [Pids -> {NoEntry} \cup [msg : 1 .. MaxMsgs, kind : {"publish", "pubrel"}]]
         /\ CacheHolds(t, b, cache) /\ OwedHeld(t, b, ids) /\ ids \in SUBSET Pids
<1>1. /\ S \in SUBSET Elem /\ b \in Nat /\ current <= b
      /\ \A e, f \in S : e.id = f.id => e = f
      /\ \A i \in 1 .. (current - 1) : t[i].id = l[i].id /\ Entry(t[i]) = Entry(l[i])
      /\ \A i \in current .. (b - 1) : \E e \in S : t[i].id = e.id /\ Entry(t[i]) = Entry(e)
      /\ \A e \in S : \E i \in current .. (b - 1) : t[i].id = e.id
  BY DEF SentAs
<1>2. Len(l) \in Nat /\ current \in 1 .. (Len(l) + 1) /\ current \in Nat /\ current >= 1
  BY Typed DEF RedisInv
<1>3. Len(t) \in Nat /\ b \in 1 .. (Len(t) + 1)
  BY DEF WellFormed
<1>4. /\ \A i \in 1 .. (b - 1) : i \in 1 .. (current - 1) \/ i \in current .. (b - 1)
      /\ \A i \in current .. (b - 1) : i \in 1 .. (b - 1)
      /\ \A i \in 1 .. (current - 1) : i \in 1 .. (b - 1)
      /\ \A i \in 1 .. (b - 1) : i \in 1 .. Len(t)
      /\ \A i \in 1 .. (current - 1), j \in current .. (b - 1) : i # j
  BY <1>1, <1>2, <1>3
<1>5. \A i \in 1 .. (b - 1) : t[i].id \in Pids
  BY InflightIds
<1>6. /\ cache \in [Pids -> {NoEntry} \cup [msg : 1 .. MaxMsgs, kind : {"publish", "pubrel"}]]
      /\ \A e \in S : e.id \in Pids => cache[e.id] = Entry(e)
      /\ \A p \in Pids : (\A e \in S : e.id # p) => cache[p] = readCache[p]
  BY <1>1, RedisTyped, CacheUpdated
<1>7. \A i, j \in 1 .. (b - 1) : i # j => t[i].id # t[j].id
  <2>1. \A i, j \in 1 .. Len(t) : t[i].id # 0 /\ i # j => t[i].id # t[j].id
    BY DEF WellFormed
  <2>2. \A i \in 1 .. (b - 1) : t[i].id # 0
    BY DEF WellFormed
  <2> QED BY <1>4, <2>1, <2>2
<1>8. ASSUME NEW i \in 1 .. (b - 1) PROVE cache[t[i].id] = Entry(t[i])
  <2>1. CASE i \in current .. (b - 1)
    <3>1. PICK e \in S : t[i].id = e.id /\ Entry(t[i]) = Entry(e)
      BY <1>1, <2>1
    <3>2. e.id \in Pids
      BY <1>5, <3>1
    <3> QED BY <1>6, <3>1, <3>2
  <2>2. CASE i \in 1 .. (current - 1)
    <3>1. ASSUME NEW e \in S, e.id = t[i].id PROVE FALSE
      <4>1. PICK j \in current .. (b - 1) : t[j].id = e.id
        BY <1>1
      <4> QED BY <1>4, <1>7, <2>2, <3>1, <4>1
    <3>2. cache[t[i].id] = readCache[t[i].id]
      BY <1>5, <1>6, <3>1
    <3>3. readCache[l[i].id] = Entry(l[i])
      BY <2>2 DEF RedisInv, CacheHolds
    <3> QED BY <1>1, <2>2, <3>2, <3>3
  <2> QED BY <1>4, <2>1, <2>2
<1>9. ASSUME NEW p \in ids PROVE p \in Pids /\ \E i \in 1 .. (b - 1) : t[i].id = p
  <2>1. CASE p \in owed
    <3>1. PICK i \in 1 .. (current - 1) : l[i].id = p
      BY <2>1 DEF RedisInv, OwedHeld
    <3>2. i \in 1 .. (b - 1) /\ t[i].id = p
      BY <1>1, <1>4, <3>1
    <3> QED BY <1>5, <3>2
  <2>2. CASE p \in {e.id : e \in S}
    <3>1. PICK e \in S : p = e.id
      BY <2>2
    <3>2. PICK i \in current .. (b - 1) : t[i].id = p
      BY <1>1, <3>1
    <3> QED BY <1>4, <1>5, <3>2
  <2> QED BY <2>1, <2>2
<1>10. CacheHolds(t, b, cache) /\ OwedHeld(t, b, ids) /\ ids \in SUBSET Pids
  BY <1>8, <1>9 DEF CacheHolds, OwedHeld
<1> QED BY <1>6, <1>10

\* ReadInflight: what the client gets again is cached and owed.
LEMMA RedisReadsInflight ==
  ASSUME RedisInv, redisDrain
  PROVE  RedisInv'
<1>1. PICK n \in Pids : inited /\ ~inflightDrained /\ redisReadInflight(n)
  BY DEF redisDrain
<1>2. PICK k : k = InflightRun(n)
  OBVIOUS
<1>3. PICK t : t = [i \in 1 .. Len(l) |->
                      IF i \in current .. (current + k - 1) THEN Rearm(l[i]) ELSE l[i]]
  OBVIOUS
<1>4. PICK b : b = current + k
  OBVIOUS
<1>5. PICK f \in BOOLEAN : f = (inflightDrained \/ Unread = {} \/ k < Cardinality(Window(n)))
  OBVIOUS
<1>6. PICK S : S = {l[i] : i \in current .. (current + k - 1)}
  OBVIOUS
<1>7. PICK cache : cache = CacheWith(readCache, S)
  OBVIOUS
<1>8. PICK ids : ids = owed \cup {e.id : e \in S}
  OBVIOUS
<1>9. /\ ReadInflight(n) /\ l' = t /\ current' = b /\ inflightDrained' = f
      /\ readCache' = cache /\ owed' = ids
      /\ UNCHANGED <<closed, added, dropped, len, inited, done, crashes>>
  BY <1>1, <1>2, <1>3, <1>4, <1>5, <1>6, <1>7, <1>8 DEF redisReadInflight, ReadInflight, CacheWith
<1>10. QueueInv /\ n \in 1 .. MaxPacketID
  BY DEF RedisInv, Pids
<1>11. QueueInv' /\ Len(l') = Len(l)
  BY <1>1, <1>9, <1>10, ReadsInflight, Zenon
<1>12. WellFormed(t, b, f, added) /\ Len(t) = Len(l)
  BY <1>9, <1>11 DEF QueueInv
<1>13. Len(l) \in Nat /\ current \in 1 .. (Len(l) + 1) /\ \A i \in 1 .. Len(l) : l[i] \in Elem
  BY <1>10, Typed
<1>14. k \in Nat /\ current + k \in current .. (Len(l) + 1)
  <2>1. n \in Nat \ {0}
    BY <1>10, MemQueueAssumption
  <2> QED BY <1>2, <1>10, <2>1, Runs
<1>15. \A i \in 1 .. Len(l) : /\ t[i].id = l[i].id /\ t[i].msg = l[i].msg
                              /\ Entry(t[i]) = Entry(l[i])
  <2>1. \A x \in Elem : Rearm(x).id = x.id /\ Rearm(x).msg = x.msg /\ Rearm(x).kind = x.kind
    BY DEF Rearm, Elem
  <2> QED BY <1>3, <1>13, <2>1 DEF Entry
<1>16. \A i \in current .. (b - 1) : i \in 1 .. Len(l) /\ i \in current .. (current + k - 1)
  BY <1>4, <1>13, <1>14
<1>17. SentAs(t, b, S)
  <2>0. S = {l[i] : i \in current .. (b - 1)}
    <3>1. b - 1 = current + k - 1
      BY <1>4, <1>13, <1>14
    <3> QED BY <1>6, <3>1, Zenon
  <2>1. S \in SUBSET Elem
    BY <1>13, <1>16, <2>0
  <2>2. b \in Nat /\ current <= b
    BY <1>4, <1>13, <1>14
  <2>3. \A e \in S : \E i \in current .. (b - 1) : e = l[i]
    BY <2>0, Zenon
  <2>4. \A e, g \in S : e.id = g.id => e = g
    <3> SUFFICES ASSUME NEW e \in S, NEW g \in S, e.id = g.id PROVE e = g
      OBVIOUS
    <3>1. PICK i \in current .. (b - 1), j \in current .. (b - 1) : e = l[i] /\ g = l[j]
      BY <2>3
    <3>2. i \in 1 .. Len(l) /\ j \in 1 .. Len(l) /\ i \in 1 .. (b - 1)
      BY <1>13, <1>16, <2>2
    <3>3. t[i].id # 0 /\ t[i].id = t[j].id
      BY <1>12, <1>15, <3>1, <3>2 DEF WellFormed
    <3>4. i = j
      BY <1>12, <3>2, <3>3 DEF WellFormed
    <3> QED BY <3>1, <3>4
  <2>5. \A i \in 1 .. (current - 1) : t[i].id = l[i].id /\ Entry(t[i]) = Entry(l[i])
    <3>1. \A i \in 1 .. (current - 1) : i \in 1 .. Len(l)
      BY <1>13
    <3> QED BY <1>15, <3>1
  <2>6. \A i \in current .. (b - 1) : \E e \in S : t[i].id = e.id /\ Entry(t[i]) = Entry(e)
    <3> SUFFICES ASSUME NEW i \in current .. (b - 1)
                 PROVE  \E e \in S : t[i].id = e.id /\ Entry(t[i]) = Entry(e)
      OBVIOUS
    <3>1. l[i] \in S
      BY <1>6, <1>16
    <3> QED BY <1>15, <1>16, <3>1
  <2>7. \A e \in S : \E i \in current .. (b - 1) : t[i].id = e.id
    BY <1>15, <1>16, <2>3
  <2> QED BY <2>1, <2>2, <2>4, <2>5, <2>6, <2>7 DEF SentAs
<1>18. /\ cache \in [Pids -> {NoEntry} \cup [msg : 1 .. MaxMsgs, kind : {"publish", "pubrel"}]]
       /\ CacheHolds(t, b, cache) /\ OwedHeld(t, b, ids) /\ ids \in SUBSET Pids
  BY <1>1, <1>7, <1>8, <1>12, <1>17, SentInRedis
<1>19. Accounted(t, added, done \cup dropped)
  <2>1. {t[i].msg : i \in 1 .. Len(t)} = {l[i].msg : i \in 1 .. Len(l)}
    BY <1>12, <1>15
  <2> QED BY <2>1 DEF RedisInv, Accounted
<1>20. len = Len(t)
  BY <1>1, <1>12 DEF RedisInv
<1>21. /\ l' = t /\ current' = b /\ inflightDrained' = f /\ added' = added
       /\ len' = len /\ readCache' = cache /\ owed' = ids /\ done' = done
       /\ dropped' = dropped /\ inited' = inited /\ closed' = closed /\ crashes' = crashes
  BY <1>9
<1> QED BY <1>1, <1>12, <1>18, <1>19, <1>20, <1>21, RedisTyped, Composed

\* The positions a batch of w elements is read from, and how many of them go.
LEMMA BatchWindow ==
  ASSUME QueueInv, NEW w \in Nat, NEW pids, NEW t, NEW m, NEW o, NEW kept, NEW h,
         BatchOf(w, pids, t, m, o, kept, h)
  PROVE  Window(w) = current .. h /\ Len(t) = Len(l) - Cardinality(Gone(w)) /\ Cardinality(Gone(w)) \in Nat
<1>1. Len(l) \in Nat /\ current \in 1 .. (Len(l) + 1) /\ current \in Nat
  BY Typed
<1>2. /\ h \in (current - 1) .. Len(l) /\ h <= current + w - 1 /\ (h = Len(l) \/ h = current + w - 1)
      /\ m \in Nat /\ Len(kept) = m /\ Len(t) = current - 1 + Len(kept) + (Len(l) - h)
      /\ m = Cardinality({i \in Window(w) : BecomesInflight(i)})
  BY DEF BatchOf, KeptOf, Joins
<1>3. Window(w) = current .. h
  BY <1>1, <1>2 DEF Window, Unread
<1>4. IsFiniteSet(current .. h) /\ Cardinality(current .. h) = h - current + 1
  <2>1. current \in Int /\ h \in Int
    BY <1>1, <1>2
  <2>2. /\ IsFiniteSet(current .. h)
        /\ Cardinality(current .. h) = IF current > h THEN 0 ELSE h - current + 1
    BY <2>1, FS_Interval, Zenon
  <2>3. current > h => h - current + 1 = 0
    BY <1>1, <1>2
  <2> QED BY <2>2, <2>3
<1>5. PICK W : W = Window(w)
  OBVIOUS
<1>6. PICK B : B = {i \in W : BecomesInflight(i)}
  OBVIOUS
<1>7. Gone(w) = W \ B /\ W \cap B = B
  BY <1>5, <1>6 DEF Gone
<1>8. IsFiniteSet(W) /\ IsFiniteSet(B)
  <2>1. IsFiniteSet(W) /\ B \in SUBSET W
    BY <1>3, <1>4, <1>5, <1>6
  <2> QED BY <2>1, FS_Subset, Zenon
<1>9. IsFiniteSet(W \ B) /\ Cardinality(W \ B) = Cardinality(W) - Cardinality(W \cap B)
  BY <1>8, FS_Difference, Zenon
<1>10. PICK g : g = Cardinality(Gone(w))
  OBVIOUS
<1>11. g \in Nat
  BY <1>7, <1>9, <1>10, FS_CardinalityType
<1>12. g = (h - current + 1) - m
  BY <1>2, <1>3, <1>4, <1>5, <1>6, <1>7, <1>9, <1>10
<1>13. Len(t) = Len(l) - g
  BY <1>1, <1>2, <1>12
<1> QED BY <1>3, <1>10, <1>11, <1>13

\* Some element of s is message x.
Holds(s, x) == \E i \in 1 .. Len(s) : s[i].msg = x

\* A message of the list stays in it, unless it is at a position the batch takes out.
LEMMA BatchAccounted ==
  ASSUME QueueInv, NEW w \in Nat, NEW pids, NEW t, NEW m, NEW o, NEW kept, NEW h,
         BatchOf(w, pids, t, m, o, kept, h), NEW j \in 1 .. Len(l), j \notin Gone(w)
  PROVE  Holds(t, l[j].msg)
<1>1. Len(l) \in Nat /\ current \in 1 .. (Len(l) + 1) /\ current \in Nat
  BY Typed
<1>2. /\ h \in (current - 1) .. Len(l) /\ m \in Nat /\ Len(kept) = m
      /\ Len(t) = current - 1 + m + (Len(l) - h)
  BY DEF BatchOf, KeptOf, Joins
<1>3. CASE j < current
  <2>1. j \in 1 .. (current - 1) /\ j \in 1 .. Len(t)
    BY <1>1, <1>2, <1>3
  <2>2. t[j] = l[j]
    BY <2>1 DEF BatchOf, Joins
  <2> QED BY <2>1, <2>2 DEF Holds
<1>4. CASE ~(j < current) /\ j <= h
  <2>1. j \in Window(w)
    <3>1. Window(w) = current .. h
      BY BatchWindow
    <3> QED BY <1>1, <1>2, <1>4, <3>1
  <2>2. BecomesInflight(j)
    BY <2>1 DEF Gone
  <2>3. PICK k \in 1 .. m : o[k] = j
    BY <2>1, <2>2 DEF BatchOf, KeptOf
  <2>4. kept[k].msg = l[j].msg
    BY <2>3 DEF BatchOf, KeptOf
  <2>5. current - 1 + k \in 1 .. Len(t)
    BY <1>1, <1>2
  <2>6. t[current - 1 + k] = kept[k]
    BY <1>2 DEF BatchOf, Joins
  <2> QED BY <2>4, <2>5, <2>6 DEF Holds
<1>5. CASE ~(j <= h)
  <2>1. PICK k \in 1 .. (Len(l) - h) : j = h + k
    <3>1. j - h \in 1 .. (Len(l) - h) /\ j = h + (j - h)
      BY <1>1, <1>2, <1>5
    <3> QED BY <3>1
  <2>2. current - 1 + m + k \in 1 .. Len(t)
    BY <1>1, <1>2
  <2>3. t[current - 1 + m + k] = l[h + k]
    BY <1>2 DEF BatchOf, Joins
  <2> QED BY <2>1, <2>2, <2>3 DEF Holds
<1> QED BY <1>3, <1>4, <1>5

\* So with the messages that go, all are accounted for.
LEMMA BatchKeepsAccount ==
  ASSUME RedisInv, NEW w \in Nat, NEW pids, NEW t, NEW m, NEW o, NEW kept, NEW h,
         BatchOf(w, pids, t, m, o, kept, h), NEW out, done \cup dropped \subseteq out,
         \A i \in Gone(w) : l[i].msg \in out
  PROVE  Accounted(t, added, out)
<1> SUFFICES ASSUME NEW x \in 1 .. added, x \notin out
             PROVE  \E i \in 1 .. Len(t) : t[i].msg = x
  BY DEF Accounted
<1>1. PICK j \in 1 .. Len(l) : l[j].msg = x
  BY DEF RedisInv, Accounted
<1>2. j \notin Gone(w)
  BY <1>1
<1>3. QueueInv
  BY DEF RedisInv
<1>4. Holds(t, l[j].msg)
  BY <1>2, <1>3, BatchAccounted, Zenon
<1> QED BY <1>1, <1>4 DEF Holds

\* The elements of the batch that stay in the list are those sent.
LEMMA BatchSent ==
  ASSUME RedisInv, inflightDrained = TRUE, NEW w \in Nat, NEW pids, NEW t, NEW m, NEW o, NEW kept, NEW h,
         BatchOf(w, pids, t, m, o, kept, h), NEW S, S = {Inflighted(i, pids) : i \in Window(w) \ Gone(w)},
         NEW b, b = current + m
  PROVE  SentAs(t, b, S)
<1>1. Len(l) \in Nat /\ current \in 1 .. (Len(l) + 1) /\ current \in Nat
  BY Typed DEF RedisInv
<1>2. /\ m \in Nat /\ Len(kept) = m /\ kept \in Seq(Elem)
      /\ \A k \in 1 .. m : o[k] \in Window(w) /\ kept[k] = Inflighted(o[k], pids)
      /\ \A i \in Window(w) : BecomesInflight(i) <=> \E k \in 1 .. m : o[k] = i
      /\ \A j, k \in 1 .. m : j # k => kept[j].id # kept[k].id
  BY DEF BatchOf, KeptOf
<1>3. /\ \A i \in 1 .. (current - 1) : t[i] = l[i]
      /\ \A k \in 1 .. m : t[current - 1 + k] = kept[k]
  BY <1>2 DEF BatchOf, Joins
<1>4. \A k \in 1 .. m : kept[k] \in S /\ kept[k] \in Elem
  <2>1. \A k \in 1 .. m : kept[k] \in Elem
    BY <1>2
  <2>2. \A k \in 1 .. m : o[k] \in Window(w) \ Gone(w)
    BY <1>2 DEF Gone
  <2> QED BY <1>2, <2>1, <2>2
<1>5. \A e \in S : \E k \in 1 .. m : e = kept[k]
  <2> SUFFICES ASSUME NEW i \in Window(w) \ Gone(w)
               PROVE  \E k \in 1 .. m : Inflighted(i, pids) = kept[k]
    OBVIOUS
  <2>1. BecomesInflight(i)
    BY DEF Gone
  <2> QED BY <1>2, <2>1
<1>6. S \in SUBSET Elem
  BY <1>4, <1>5
<1>7. \A e, f \in S : e.id = f.id => e = f
  <2> SUFFICES ASSUME NEW e \in S, NEW f \in S, e.id = f.id PROVE e = f
    OBVIOUS
  <2>1. PICK j \in 1 .. m, k \in 1 .. m : e = kept[j] /\ f = kept[k]
    BY <1>5
  <2>2. j = k
    BY <1>2, <2>1
  <2> QED BY <2>1, <2>2
<1>8. b \in Nat /\ current <= b
  BY <1>1, <1>2
<1>9. \A i \in current .. (b - 1) : \E k \in 1 .. m : t[i] = kept[k]
  <2> SUFFICES ASSUME NEW i \in current .. (b - 1) PROVE \E k \in 1 .. m : t[i] = kept[k]
    OBVIOUS
  <2>1. PICK k \in 1 .. m : i = current - 1 + k
    <3>1. i - (current - 1) \in 1 .. m /\ i = current - 1 + (i - (current - 1))
      BY <1>1, <1>2
    <3> QED BY <3>1
  <2> QED BY <1>3, <2>1
<1>10. \A e \in S : \E i \in current .. (b - 1) : t[i] = e
  <2> SUFFICES ASSUME NEW k \in 1 .. m PROVE \E i \in current .. (b - 1) : t[i] = kept[k]
    BY <1>5
  <2>1. current - 1 + k \in current .. (b - 1)
    BY <1>1, <1>2
  <2> QED BY <1>3, <2>1
<1>11. \A i \in 1 .. (current - 1) : t[i].id = l[i].id /\ Entry(t[i]) = Entry(l[i])
  BY <1>3
<1>12. \A i \in current .. (b - 1) : \E e \in S : t[i].id = e.id /\ Entry(t[i]) = Entry(e)
  BY <1>4, <1>9
<1>13. \A e \in S : \E i \in current .. (b - 1) : t[i].id = e.id
  BY <1>10
<1> QED BY <1>6, <1>7, <1>8, <1>11, <1>12, <1>13 DEF SentAs

\* A batch of identifiers of the broker has this form.
Identifiers(pids, n) ==
  /\ n \in Nat \ {0} /\ pids \in [1 .. n -> (1 .. MaxPacketID) \ IdsInList] /\ Len(pids) = n
  /\ \A i, j \in 1 .. n : i < j => pids[i] # pids[j]

LEMMA BatchOfIdentifiers ==
  ASSUME NEW pids \in Batches
  PROVE  \E n : Identifiers(pids, n)
<1>1. PICK n \in 1 .. PollBatch : pids \in [1 .. n -> Pids \ IdsInList]
  BY DEF Batches
<1>2. n \in Nat \ {0}
  BY MemQueueAssumption
<1>3. Len(pids) = n
  BY <1>1, <1>2
<1>4. \A i, j \in 1 .. n : i < j => pids[i] # pids[j]
  BY <1>1 DEF Batches
<1> QED BY <1>1, <1>2, <1>3, <1>4 DEF Identifiers, Pids

LEMMA RedisReads ==
  ASSUME RedisInv, redisPollNew
  PROVE  RedisInv'
<1>1. PICK pids \in Batches : inited /\ redisRead(pids)
  BY DEF redisPollNew
<1>2. PICK n : Identifiers(pids, n)
  BY BatchOfIdentifiers
<1>3. n \in Nat /\ n \in Nat \ {0} /\ Len(pids) = n /\ n \in 1 .. n /\ QueueInv
  BY <1>2 DEF Identifiers, RedisInv
<1>4. PICK kept : kept = Taken({i \in Window(n) : BecomesInflight(i)}, pids)
  OBVIOUS
<1>5. PICK t : t = SubSeq(l, 1, current - 1) \o kept \o SubSeq(l, current + n, Len(l))
  OBVIOUS
<1>6. PICK S : S = {Inflighted(i, pids) : i \in Window(n) \ Gone(n)}
  OBVIOUS
<1>7. PICK cache : cache = CacheWith(readCache, S)
  OBVIOUS
<1>8. PICK ids : ids = owed \cup {e.id : e \in S}
  OBVIOUS
<1>9. PICK f : f = done \cup {l[i].msg : i \in {j \in Gone(n) : ~Dead(j)}}
  OBVIOUS
<1>10. PICK g : g = dropped \cup {l[i].msg : i \in {j \in Window(n) : Dead(j)}}
  OBVIOUS
<1>11. PICK z : z = len - Cardinality(Gone(n))
  OBVIOUS
<1>12. /\ inflightDrained = TRUE /\ l' = t /\ current' = current + Len(kept)
       /\ inflightDrained' = TRUE /\ closed' = closed /\ added' = added
       /\ len' = z /\ readCache' = cache /\ owed' = ids /\ done' = f /\ dropped' = g
       /\ inited = TRUE /\ inited' = TRUE /\ crashes' = crashes
  <2>1. kept = ReadKept(pids)
    BY <1>3, <1>4 DEF ReadKept
  <2>2. Read(pids) /\ inflightDrained = TRUE /\ inited = TRUE
    BY <1>1, RedisTyped DEF redisRead, Read
  <2>3. /\ l' = t /\ current' = current + Len(kept) /\ dropped' = g
        /\ inflightDrained' = inflightDrained /\ closed' = closed /\ added' = added
    BY <1>3, <1>5, <1>10, <2>1, <2>2 DEF Read, NotifyDropped
  <2>4. /\ len' = z /\ readCache' = cache /\ owed' = ids /\ done' = f
        /\ inited' = inited /\ crashes' = crashes
    BY <1>1, <1>3, <1>6, <1>7, <1>8, <1>9, <1>11 DEF redisRead, CacheWith
  <2> QED BY <2>2, <2>3, <2>4
<1>13. PICK m, o, h : BatchOf(n, pids, t, m, o, kept, h)
  BY <1>2, <1>3, <1>4, <1>5, BatchTaken, Zenon DEF Identifiers
<1>14. m \in Nat /\ Len(kept) = m /\ WellFormed(t, current + m, TRUE, added)
  <2>1. inflightDrained = TRUE
    BY <1>12
  <2>2. m \in Nat /\ Len(kept) = m /\ WellFormed(t, current + m, TRUE, added) /\ Len(t) <= Len(l)
    BY <1>3, <1>13, <2>1, BatchWellFormed, Zenon
  <2> QED BY <2>2
<1>15. PICK b : b = current + m
  OBVIOUS
<1>16. WellFormed(t, b, TRUE, added) /\ current' = b
  BY <1>12, <1>14, <1>15
<1>17. SentAs(t, b, S)
  BY <1>3, <1>6, <1>12, <1>13, <1>15, BatchSent, Zenon
<1>18. /\ cache \in [Pids -> {NoEntry} \cup [msg : 1 .. MaxMsgs, kind : {"publish", "pubrel"}]]
       /\ CacheHolds(t, b, cache) /\ OwedHeld(t, b, ids) /\ ids \in SUBSET Pids
  <2>1. inited = TRUE
    BY <1>12
  <2>2. PICK d : d = inflightDrained /\ WellFormed(t, b, d, added)
    BY <1>12, <1>16
  <2> QED BY <1>7, <1>8, <1>17, <2>1, <2>2, SentInRedis
<1>19. z = Len(t) /\ z \in Nat
  <2>1. Len(t) = Len(l) - Cardinality(Gone(n))
    BY <1>3, <1>13, BatchWindow
  <2>2. len = Len(l)
    BY <1>12 DEF RedisInv
  <2>3. Len(t) \in Nat
    BY <1>16 DEF WellFormed
  <2> QED BY <1>11, <2>1, <2>2, <2>3
<1>20. f \in SUBSET (1 .. MaxMsgs) /\ g \in SUBSET (1 .. MaxMsgs)
  <2>1. {j \in Gone(n) : ~Dead(j)} \subseteq Window(n) /\ {j \in Window(n) : Dead(j)} \subseteq Window(n)
    BY DEF Gone
  <2>2. /\ {l[i].msg : i \in {j \in Gone(n) : ~Dead(j)}} \subseteq 1 .. MaxMsgs
        /\ {l[i].msg : i \in {j \in Window(n) : Dead(j)}} \subseteq 1 .. MaxMsgs
    BY <1>3, <2>1, DeadMessages, Zenon
  <2> QED BY <1>9, <1>10, <2>2, RedisTyped
<1>21. Accounted(t, added, f \cup g)
  <2>1. done \cup dropped \subseteq f \cup g
    BY <1>9, <1>10
  <2>2. \A i \in Gone(n) : l[i].msg \in f \cup g
    BY <1>9, <1>10 DEF Gone
  <2> QED BY <1>3, <1>13, <2>1, <2>2, BatchKeepsAccount, Zenon
<1> QED BY <1>12, <1>16, <1>18, <1>19, <1>20, <1>21, RedisTyped, Composed

\* The broker crashes in the middle of Read.
LEMMA RedisCrashesReading ==
  ASSUME RedisInv, NEW pids \in Batches, NEW k \in 1 .. Len(pids), readCrash(pids, k)
  PROVE  RedisInv'
<1>1. PICK n : Identifiers(pids, n)
  BY BatchOfIdentifiers
<1>2. n \in Nat \ {0} /\ Len(pids) = n /\ k \in 1 .. n /\ k \in Nat /\ QueueInv
  BY <1>1 DEF Identifiers, RedisInv
<1>3. PICK first : first = {i \in Window(n) : i < current + k}
  OBVIOUS
<1>4. PICK w : w = Cardinality(first)
  OBVIOUS
<1>5. Len(l) \in Nat /\ current \in 1 .. (Len(l) + 1)
  BY <1>2, Typed
<1>6. w \in 1 .. n /\ first = Window(w)
  <2>1. PICK h : WindowTo(k, h)
    BY <1>2, Windows
  <2>2. first = Window(k)
    BY <1>2, <1>3, <1>5 DEF Window, Unread
  <2>3. w = h - current + 1 /\ h \in Nat /\ h <= current + k - 1 /\ Window(k) = current .. h
        /\ h <= Len(l) /\ (h = Len(l) \/ h = current + k - 1)
    BY <1>4, <2>1, <2>2 DEF WindowTo
  <2>4. current <= Len(l)
    BY <1>5 DEF readCrash, Unread
  <2>5. w \in 1 .. n
    BY <1>2, <1>5, <2>3, <2>4
  <2>6. Window(w) = current .. h
    BY <1>5, <2>3 DEF Window, Unread
  <2> QED BY <2>2, <2>3, <2>5, <2>6
<1>7. PICK kept : kept = Taken({i \in Window(w) : BecomesInflight(i)}, pids)
  OBVIOUS
<1>8. PICK t : t = SubSeq(l, 1, current - 1) \o kept \o SubSeq(l, current + w, Len(l))
  OBVIOUS
<1>9. PICK f : f = done \cup {l[i].msg : i \in Gone(w)}
  OBVIOUS
<1>10. PICK g : g = dropped \cup {l[i].msg : i \in {j \in Window(w) : Dead(j)}}
  OBVIOUS
<1>11. /\ Restarted /\ inflightDrained = TRUE /\ l' = t /\ done' = f /\ dropped' = g /\ added' = added
  BY <1>2, <1>3, <1>4, <1>6, <1>7, <1>8, <1>9, <1>10, RedisTyped DEF readCrash, Gone
<1>12. PICK m, o, h : BatchOf(w, pids, t, m, o, kept, h)
  BY <1>1, <1>2, <1>6, <1>7, <1>8, BatchTaken, Zenon DEF Identifiers
<1>13. w \in Nat
  BY <1>2, <1>6
<1>14. WellFormed(t, current + m, TRUE, added)
  BY <1>2, <1>11, <1>12, <1>13, BatchWellFormed, Zenon
<1>15. f \in SUBSET (1 .. MaxMsgs) /\ g \in SUBSET (1 .. MaxMsgs)
  <2>1. Gone(w) \subseteq Window(w) /\ {j \in Window(w) : Dead(j)} \subseteq Window(w)
    BY DEF Gone
  <2>2. /\ {l[i].msg : i \in Gone(w)} \subseteq 1 .. MaxMsgs
        /\ {l[i].msg : i \in {j \in Window(w) : Dead(j)}} \subseteq 1 .. MaxMsgs
    BY <1>2, <1>13, <2>1, DeadMessages, Zenon
  <2> QED BY <1>9, <1>10, <2>2, RedisTyped
<1>16. Accounted(t, added, f \cup g)
  <2>1. done \cup dropped \subseteq f \cup g
    BY <1>9, <1>10
  <2>2. \A i \in Gone(w) : l[i].msg \in f \cup g
    BY <1>9
  <2> QED BY <1>12, <1>13, <2>1, <2>2, BatchKeepsAccount, Zenon
<1>17. added \in 0 .. MaxMsgs
  BY RedisTyped
<1> QED BY <1>11, <1>14, <1>15, <1>16, <1>17, RedisRestarts, Zenon

\* What Publish offers to the queue is a new message.
LEMMA NewIncoming ==
  ASSUME QueueInv, added < MaxMsgs, NEW e \in NewElems
  PROVE  Incoming(e)
<1>1. PICK qos \in QoSs, expiry \in Expiries, big \in Sizes : e = NewElem(qos, expiry, big)
  BY DEF NewElems
<1>2. e \in Elem /\ e.id = 0 /\ e.kind = "publish" /\ e.msg = added + 1
  BY <1>1, NewMessages
<1> QED BY <1>2 DEF Incoming

LEMMA RedisPublishes ==
  ASSUME RedisInv, LateAck = FALSE, redisPublish
  PROVE  RedisInv'
<1>1. PICK e \in NewElems : redisAddRoom(e) \/ redisAddEvict(e) \/ redisAddReject(e)
  BY DEF redisPublish
<1>2. /\ added < MaxMsgs /\ added' = added + 1
      /\ UNCHANGED <<inflightDrained, closed, inited, done, crashes>>
  BY DEF redisPublish
<1>3. Incoming(e)
  BY <1>2, NewIncoming DEF RedisInv
<1>4. CASE redisAddRoom(e)
  BY <1>2, <1>3, <1>4, RedisAddsWithRoom
<1>5. CASE redisAddEvict(e)
  BY <1>2, <1>3, <1>5, RedisAddsEvicting
<1>6. CASE redisAddReject(e)
  BY <1>2, <1>3, <1>6, RedisAddsDropping
<1> QED BY <1>1, <1>4, <1>5, <1>6

\* Every step of the broker with redis, of its peers and the clock, and every crash, keeps the invariant.
LEMMA RedisPreserved ==
  ASSUME RedisInv, LateAck = FALSE, RedisNext
  PROVE  RedisInv'
<1>1. CASE redisPublish
  BY <1>1, RedisPublishes
<1>2. CASE redisConnect \/ redisDisconnect
  BY <1>2, RedisConnects
<1>3. CASE redisDrain
  BY <1>3, RedisReadsInflight
<1>4. CASE redisPollNew
  BY <1>4, RedisReads
<1>5. CASE redisAcknowledge
  BY <1>5, RedisAcknowledges
<1>6. CASE redisReceived
  BY <1>6, RedisReceives
<1>7. CASE redisTick
  BY <1>7, RedisExpires
<1>8. CASE crash
  BY <1>8, RedisCrashes
<1>9. CASE added < MaxMsgs /\ \E e \in NewElems : addCrash(e)
  <2>1. PICK e \in NewElems : addCrash(e)
    BY <1>9
  <2>2. Incoming(e)
    BY <1>9, NewIncoming DEF RedisInv
  <2> QED BY <2>1, <2>2, RedisCrashesAdding
<1>10. CASE \E pids \in Batches : \E k \in 1 .. Len(pids) : readCrash(pids, k)
  BY <1>10, RedisCrashesReading
<1> QED BY <1>1, <1>2, <1>3, <1>4, <1>5, <1>6, <1>7, <1>8, <1>9, <1>10 DEF RedisNext, redisCrash

-----------------------------------------------------------------------------
(* The theorems about the queue with the backend of the configuration.      *)

StoreInv ==
  /\ backend \in Backends
  /\ backend = "memory" => Inv
  /\ backend = "redis" => RedisInv

LEMMA StorePreserved ==
  ASSUME LateAck = FALSE, StoreInv, [StoreNext]_storeVars
  PROVE  StoreInv'
<1>1. CASE memory /\ UNCHANGED backend
  <2>1. Inv /\ Next /\ backend = "memory" /\ backend' = backend /\ backend \in Backends
    BY <1>1 DEF StoreInv, memory
  <2>2. Inv'
    BY <2>1, Preserved
  <2> QED BY <2>1, <2>2 DEF StoreInv
<1>2. CASE redis /\ UNCHANGED backend
  <2>1. RedisInv /\ RedisNext /\ backend = "redis" /\ backend' = backend /\ backend \in Backends
    BY <1>2 DEF StoreInv, redis
  <2>2. RedisInv'
    BY <2>1, RedisPreserved
  <2> QED BY <2>1, <2>2 DEF StoreInv
<1>3. CASE UNCHANGED storeVars
  <2>1. /\ UNCHANGED mqVars /\ backend' = backend
        /\ UNCHANGED <<len, readCache, inited, owed, done, crashes>>
    BY <1>3 DEF storeVars, rqVars
  <2>2. Inv => Inv'
    BY <2>1, Preserved
  <2>3. QueueInv => QueueInv'
    BY <2>1 DEF mqVars, QueueInv, WellFormed
  <2>4. RedisInv => RedisInv'
    BY <2>1, <2>3 DEF mqVars, RedisInv, CacheHolds, OwedHeld, Accounted
  <2> QED BY <2>1, <2>2, <2>4 DEF StoreInv
<1> QED BY <1>1, <1>2, <1>3 DEF StoreNext

\* The first connection of the client finds the invariant of either backend.
LEMMA StoreStarts ==
  ASSUME StoreInit
  PROVE  StoreInv
<1>1. RedisInit /\ backend \in Backends /\ Init
  BY DEF StoreInit, RedisInit
<1>2. Inv
  BY <1>1, Starts
<1>3. /\ l = << >> /\ current = 1 /\ added = 0 /\ dropped = {}
      /\ len = 0 /\ readCache = [p \in Pids |-> NoEntry] /\ inited = TRUE /\ owed = {}
      /\ done = {} /\ crashes = 0
  BY <1>1 DEF RedisInit, Init
<1>4. QueueInv
  BY <1>2 DEF Inv
<1>5. CacheHolds(l, current, readCache) /\ OwedHeld(l, current, owed) /\ Accounted(l, added, done \cup dropped)
  BY <1>3 DEF CacheHolds, OwedHeld, Accounted
<1>6. len = Len(l) /\ len \in Nat /\ crashes \in 0 .. MaxCrashes
  BY <1>3, RedisQueueAssumption
<1>7. readCache \in [Pids -> {NoEntry} \cup [msg : 1 .. MaxMsgs, kind : {"publish", "pubrel"}]]
  BY <1>3, NothingCached
<1>8. RedisInv
  BY <1>3, <1>4, <1>5, <1>6, <1>7 DEF RedisInv
<1> QED BY <1>1, <1>2, <1>8 DEF StoreInv

\* The inductive invariant of the queue with either backend: the one of the queue in memory, and for
\* redis the agreement of the Queue object with the list through every crash, restart and reconnect,
\* for a client that acknowledges no message Add has dropped from under it.
THEOREM StoreInvariance ==
  ASSUME LateAck = FALSE
  PROVE  StoreSpec => []StoreInv
<1>1. StoreInit => StoreInv
  BY StoreStarts
<1>2. StoreInv /\ [StoreNext]_storeVars => StoreInv'
  BY StorePreserved
<1> QED BY <1>1, <1>2, PTL DEF StoreSpec

\* With the redis backend the length, cursor and cache of the Queue object agree with the list in
\* redis once it is initialised, whatever crashes, reconnects and acknowledgements came before.
THEOREM RedisAgrees ==
  ASSUME LateAck = FALSE
  PROVE  StoreSpec => []RedisInStep
<1>1. StoreInv => RedisInStep
  <2> SUFFICES ASSUME RedisInv, inited PROVE InStep
    BY DEF StoreInv, RedisInStep, InStep
  <2>1. CursorSplitsInflight
    BY DEF RedisInv, QueueInv, WellFormed, CursorSplitsInflight, Unread
  <2> QED BY <2>1 DEF RedisInv, InStep, CacheHolds
<1> QED BY <1>1, StoreInvariance, PTL

\* With the redis backend every message given to Add is in the list, acknowledged, or reported
\* dropped, also when the broker crashes between two commands of Add or of Read.
THEOREM RedisLosesNothing ==
  ASSUME LateAck = FALSE
  PROVE  StoreSpec => []RedisNothingLost
<1>1. StoreInv => RedisNothingLost
  <2> SUFFICES ASSUME RedisInv PROVE NothingLost
    BY DEF StoreInv, RedisNothingLost
  <2> QED BY DEF RedisInv, Accounted, NothingLost
<1> QED BY <1>1, StoreInvariance, PTL

\* Either backend has the well formed list.
LEMMA StoreWellFormed ==
  ASSUME StoreInv
  PROVE  QueueInv
BY BackendsAssumption DEF StoreInv, Inv, RedisInv

\* With either backend the cursor splits the list into the inflight messages and the others.
THEOREM StoreCursorSplits ==
  ASSUME LateAck = FALSE
  PROVE  StoreSpec => []CursorSplitsInflight
<1>1. StoreInv => CursorSplitsInflight
  BY StoreWellFormed DEF QueueInv, WellFormed, CursorSplitsInflight, Unread
<1> QED BY <1>1, StoreInvariance, PTL

\* With either backend no packet identifier is carried by two elements.
THEOREM StoreIdentifiersDistinct ==
  ASSUME LateAck = FALSE
  PROVE  StoreSpec => []IdsDistinct
<1>1. StoreInv => IdsDistinct
  BY StoreWellFormed DEF QueueInv, WellFormed, IdsDistinct
<1> QED BY <1>1, StoreInvariance, PTL

\* With either backend the messages stay in the order in which Add was given them, also in the list
\* that a crash in the middle of Add or Read leaves behind.
THEOREM StoreOrderKept ==
  ASSUME LateAck = FALSE
  PROVE  StoreSpec => []ArrivalOrder
<1>1. StoreInv => ArrivalOrder
  BY StoreWellFormed DEF QueueInv, WellFormed, ArrivalOrder
<1> QED BY <1>1, StoreInvariance, PTL

\* The victims of an initialised queue in redis are those of the queue in memory: it scans all of the
\* list, and looks at every inflight element where the one in memory looks at the front.
LEMMA RedisScansAll ==
  ASSUME RedisInv, inited
  PROVE  /\ UnreadExpired = ExpiredUnread /\ UnreadQoS0 = QoS0Unread
         /\ InflightExpired = {} => ~FrontExpired
         /\ redisFull <=> Full
<1>1. len = Len(l) /\ Len(l) \in Nat /\ current \in 1 .. (Len(l) + 1) /\ l \in Seq(Elem)
  BY Typed DEF RedisInv
<1>2. Scanned = 1 .. Len(l)
  BY <1>1 DEF Scanned
<1>3. UnreadScanned = Unread
  BY <1>1, <1>2 DEF UnreadScanned, Unread
<1>4. UnreadExpired = ExpiredUnread /\ UnreadQoS0 = QoS0Unread
  BY <1>3 DEF UnreadExpired, ExpiredUnread, UnreadQoS0, QoS0Unread
<1>5. ASSUME FrontExpired PROVE 1 \in InflightExpired
  <2>1. l # << >> /\ current # 1 /\ ElemExpiry(1)
    BY <1>5 DEF FrontExpired
  <2>2. 1 \in Scanned /\ 1 < current
    BY <1>1, <1>2, <2>1
  <2> QED BY <2>1, <2>2 DEF InflightExpired
<1>6. redisFull <=> Full
  BY <1>1 DEF redisFull, Full
<1> QED BY <1>4, <1>5, <1>6

\* What Add gives up in redis for a new element, when that is a live message.
LEMMA RedisVictimLastResort ==
  ASSUME RedisInv, inited, redisFull, NEW e, NEW v, v = RedisVictim(e), v # 0,
         NEW i \in Unread, l[i].msg = l[v].msg, l[i].qos > 0, ~Dead(i)
  PROVE  Full /\ ~FrontExpired /\ ExpiredUnread = {} /\ QoS0Unread = {}
<1>1. QueueInv /\ len \in Nat
  BY DEF RedisInv
<1>2. i \in 1 .. Len(l) /\ ~(i < current)
  BY <1>1, Typed DEF Unread
<1>3. /\ v \in 1 .. Len(l)
      /\ \/ v < current
         \/ v \in Unread /\ ElemExpiry(v)
         \/ v \in Unread /\ l[v].qos = 0
         \/ v \in Unread /\ InflightExpired = {} /\ UnreadExpired = {} /\ UnreadQoS0 = {}
  BY <1>1, RedisVictims
<1>4. v = i
  BY <1>1, <1>2, <1>3, MessageNamesElement
<1>5. ~(v < current) /\ ~ElemExpiry(v) /\ l[v].qos # 0
  BY <1>2, <1>4 DEF Dead
<1>6. InflightExpired = {} /\ UnreadExpired = {} /\ UnreadQoS0 = {}
  BY <1>3, <1>5, Zenon
<1> QED BY <1>6, RedisScansAll

\* A message that a batch drops as dead is not live.
LEMMA DeadNotLive ==
  ASSUME QueueInv, NEW n, NEW i \in Unread, ~Dead(i), NEW j \in Window(n), Dead(j),
         l[i].msg = l[j].msg
  PROVE  FALSE
<1>1. i \in 1 .. Len(l) /\ j \in 1 .. Len(l)
  BY Typed DEF Window, Unread
<1> QED BY <1>1, MessageNamesElement

LEMMA RedisLastResort ==
  ASSUME RedisInv, inited, RedisNext, NEW m \in dropped' \ dropped, Live(m)
  PROVE  Full /\ ~FrontExpired /\ ExpiredUnread = {} /\ QoS0Unread = {}
<1>0. QueueInv
  BY DEF RedisInv
<1>1. PICK i \in Unread : l[i].msg = m /\ l[i].id = 0 /\ l[i].qos > 0 /\ ~Dead(i)
  BY DEF Live
<1>2. i \in 1 .. Len(l)
  BY <1>0, Typed DEF Unread
<1>3. m <= added /\ added \in Nat
  BY <1>0, <1>1, <1>2, Typed DEF QueueInv, WellFormed
<1>4. CASE redisPublish
  <2>1. PICK e \in NewElems : redisAddRoom(e) \/ redisAddEvict(e) \/ redisAddReject(e)
    BY <1>4 DEF redisPublish
  <2>2. e.msg = added + 1
    BY <1>0, <1>4, NewIncoming DEF redisPublish, Incoming
  <2>3. CASE redisAddRoom(e)
    BY <2>3 DEF redisAddRoom
  <2>4. CASE redisAddReject(e)
    <3>1. m = e.msg
      BY <2>4 DEF redisAddReject, NotifyDropped
    <3> QED BY <1>3, <2>2, <3>1
  <2>5. CASE redisAddEvict(e)
    <3>1. PICK v : v = RedisVictim(e)
      OBVIOUS
    <3>2. redisFull /\ v # 0 /\ m = l[v].msg
      BY <2>5, <3>1 DEF redisAddEvict, NotifyDropped
    <3> QED BY <1>1, <3>1, <3>2, RedisVictimLastResort, Zenon
  <2> QED BY <2>1, <2>3, <2>4, <2>5
<1>5. CASE added < MaxMsgs /\ \E e \in NewElems : addCrash(e)
  <2>1. PICK e \in NewElems : addCrash(e)
    BY <1>5
  <2>2. e.msg = added + 1
    BY <1>0, <1>5, NewIncoming DEF Incoming
  <2>3. PICK v : v = RedisVictim(e)
    OBVIOUS
  <2>4. redisFull /\ v # 0 /\ dropped' = dropped \cup {e.msg, l[v].msg}
    BY <2>1, <2>3 DEF addCrash
  <2>5. m = l[v].msg
    BY <1>3, <2>2, <2>4
  <2> QED BY <1>1, <2>3, <2>4, <2>5, RedisVictimLastResort, Zenon
<1>6. CASE redisPollNew
  <2>1. PICK pids : Read(pids)
    BY <1>6 DEF redisPollNew, redisRead
  <2>2. PICK j \in Window(Len(pids)) : m = l[j].msg /\ Dead(j)
    BY <2>1 DEF Read, NotifyDropped
  <2> QED BY <1>0, <1>1, <2>2, DeadNotLive
<1>7. CASE \E pids \in Batches : \E k \in 1 .. Len(pids) : readCrash(pids, k)
  <2>1. PICK pids, k : readCrash(pids, k)
    BY <1>7
  <2>2. PICK j \in Window(Len(pids)) : m = l[j].msg /\ Dead(j)
    BY <2>1 DEF readCrash
  <2> QED BY <1>0, <1>1, <2>2, DeadNotLive
<1>8. CASE redisConnect \/ redisDisconnect \/ redisDrain \/ redisAcknowledge \/ redisReceived
           \/ redisTick \/ crash
  <2>1. UNCHANGED dropped
    BY <1>8 DEF redisConnect, InitResume, redisDisconnect, Close, redisDrain, redisReadInflight,
                ReadInflight, redisAcknowledge, redisReceived, redisTick, Expire, crash
  <2> QED BY <2>1
<1> QED BY <1>4, <1>5, <1>6, <1>7, <1>8 DEF RedisNext, redisCrash

\* With either backend a live QoS 1 or 2 message not read yet is dropped only as the last resort of
\* Add's priorities; with redis, by a Queue object on which Init has been called.
THEOREM StoreDropsOnlyAsLastResort ==
  ASSUME LateAck = FALSE
  PROVE  StoreSpec => StoreDropsLastResort
<1>1. StoreInv /\ [StoreNext]_storeVars
         => [(backend = "redis" => inited) => DropsByPriority]_storeVars
  <2> SUFFICES ASSUME StoreInv, StoreNext, backend = "redis" => inited PROVE DropsByPriority
    OBVIOUS
  <2>1. CASE memory
    <3>1. Next /\ QueueInv
      BY <2>1, StoreWellFormed DEF memory
    <3> QED BY <3>1, LastResort DEF DropsByPriority
  <2>2. CASE redis
    <3>1. RedisNext /\ RedisInv /\ inited
      BY <2>2 DEF redis, StoreInv
    <3> QED BY <3>1, RedisLastResort DEF DropsByPriority
  <2> QED BY <2>1, <2>2 DEF StoreNext
<1> QED BY <1>1, StoreInvariance, PTL DEF StoreSpec, StoreDropsLastResort


=============================================================================
