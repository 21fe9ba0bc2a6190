-------------------------- MODULE FederationProofs --------------------------
(***************************************************************************)
(* For every batch size, every size of the cache of seen events and any    *)
(* number of subscriptions, messages, broken streams, failed nodes and     *)
(* restarts: within a session the receiving node applies the events 0, 1,  *)
(* 2, ... each once and in this order.                                     *)
(*                                                                         *)
(* The invariant says where the next event is: what the receiver expects,  *)
(* what is in its hands, on the stream, in the sender's batch and in its   *)
(* queue from the read position on are consecutive ids, and the queue      *)
(* keeps everything from the expected event on.  One event may have been   *)
(* applied without the acknowledgement being recorded; it is the last one  *)
(* in the cache of seen events.                                            *)
(*                                                                         *)
(* From this it follows that a message is given to a share group that      *)
(* spans the two nodes at most once, and that the routes of the receiver   *)
(* are the topics subscribed to once all events are through: of a topic,   *)
(* the last event still to be applied says what the sender's store has.    *)
(***************************************************************************)
EXTENDS Federation, FiniteSetTheorems, TLAPS

Changes == [kind : {"sub", "unsub"}, t : Topics]
Events == Changes \cup [kind : {"msg"}, n : Nat, rs : BOOLEAN]
Queued == [id : Nat, e : Events]
Queues == [q : Seq(Queued), nextID : Nat, nextRead : Nat \cup {Nil}]
Replies == [clean : BOOLEAN, next : Nat]
Peers == [sid : Nat, queue : Queues, reply : Replies \cup {None}]
Sessions == [sid : Nat, next : Nat, seen : Seq(Nat)]

Phases == {"none", "connect", "hello", "cleared", "synced", "stream", "ended"}

Types ==
  /\ index \in [Clients -> SUBSET Topics] /\ hook \in [Clients -> Seq(Changes)]
  /\ shareGot \in Seq(Nat)
  /\ phase \in Phases /\ sids \in Nat
  /\ peer \in Peers \cup {NoPeer}
  /\ phase # "none" => peer \in Peers
  /\ batch \in Seq(Queued) /\ up \in Seq(Queued) /\ down \in Seq(Nat)
  /\ session \in Sessions \cup {NoSession}
  /\ inHand \in [id : Nat] \cup {None}
  /\ applied \in Seq(Nat)

\* The id of the oldest event in a queue: all before it has been acknowledged.
Oldest(q) == q.nextID - Len(q.q)

\* The events in a queue.
Entries(q) == {q.q[i] : i \in 1..Len(q.q)}

\* The ids in a queue are consecutive and end before nextID.
Consecutive(q) ==
  /\ Len(q.q) <= q.nextID
  /\ \A i \in 1..Len(q.q) : q.q[i].id = (q.nextID - Len(q.q)) + (i - 1)

\* The queue has the event expected next and all after it, or nothing after it
\* was ever queued, and does not read behind it.
Keeps(q, next) ==
  /\ Oldest(q) <= next /\ next <= q.nextID
  /\ q.nextRead # Nil => next <= q.nextRead /\ q.nextRead < q.nextID

\* The queue after clear: it starts at 0 and is read from there.
Fresh(q) ==
  /\ Len(q.q) = q.nextID
  /\ q.nextRead = IF q.nextID = 0 THEN Nil ELSE 0

\* Session ids are handed out once.
SidsOnce ==
  /\ peer \in Peers => peer.sid <= sids
  /\ session \in Sessions => session.sid <= sids

\* The receiver has applied everything before the expected event and perhaps
\* that one; then it is the last one it remembers having seen.
SessionInStep ==
  session \in Sessions =>
    /\ \A i \in 1..Len(session.seen) : session.seen[i] < Len(applied)
    /\ \/ session.next = Len(applied)
       \/ /\ session.next + 1 = Len(applied) /\ session.seen # <<>>
          /\ session.seen[Len(session.seen)] = session.next

\* Without a stream nothing is under way.
NothingUnderWay ==
  phase # "stream" => batch = <<>> /\ up = <<>> /\ down = <<>> /\ inHand = None

\* Sender and receiver talk about the same session.
SameSession == peer \in Peers /\ session \in Sessions /\ session.sid = peer.sid

Reconnecting ==
  /\ peer \in Peers => Consecutive(peer.queue)
  /\ phase \in {"connect", "ended"} /\ SameSession => Keeps(peer.queue, session.next)
  /\ phase \in {"hello", "cleared", "synced"} =>
       /\ peer.reply \in Replies
       /\ session \in Sessions => session.sid = peer.sid /\ peer.reply.next = session.next
  /\ phase = "hello" /\ session \in Sessions =>
       IF peer.reply.clean THEN session.next = 0 ELSE Keeps(peer.queue, session.next)
  /\ phase \in {"cleared", "synced"} =>
       Fresh(peer.queue) /\ (session \in Sessions => session.next = 0)

\* The first id on the stream.
StreamFrom == IF inHand = None THEN session.next ELSE session.next + 1

Streaming ==
  phase = "stream" =>
    /\ SameSession
    /\ inHand # None => inHand.id = session.next /\ session.next + 1 = Len(applied)
    /\ \A i \in 1..Len(up) : up[i].id = StreamFrom + (i - 1)
    /\ \A i \in 1..Len(batch) : batch[i].id = StreamFrom + Len(up) + (i - 1)
    /\ Oldest(peer.queue) <= session.next
    /\ IF peer.queue.nextRead = Nil
       THEN peer.queue.nextID = StreamFrom + Len(up) + Len(batch)
       ELSE /\ peer.queue.nextRead = StreamFrom + Len(up) + Len(batch)
            /\ peer.queue.nextRead < peer.queue.nextID
    /\ \A i \in 1..Len(down) : down[i] < session.next

Inv == Types /\ EventsInOrder /\ SidsOnce /\ SessionInStep /\ NothingUnderWay
       /\ Reconnecting /\ Streaming

-----------------------------------------------------------------------------
(* What the operations of eventQueue do.                                    *)

\* add puts events behind the others, whatever is acknowledged or read stays.
LEMMA QueueAdd ==
  ASSUME NEW q \in Queues, Consecutive(q), NEW es \in Seq(Events)
  PROVE  LET a == addAll(q, es)
         IN  /\ a \in Queues /\ Consecutive(a)
             /\ Oldest(a) = Oldest(q) /\ a.nextID = q.nextID + Len(es)
             /\ a.nextRead = IF q.nextRead = Nil /\ a.nextID # q.nextID THEN q.nextID ELSE q.nextRead
             /\ Entries(q) \subseteq Entries(a)
             /\ \A x \in Entries(a) \ Entries(q) :
                   \E i \in 1..Len(es) : x = [id |-> q.nextID + i - 1, e |-> es[i]]
<1> DEFINE new == [i \in 1..Len(es) |-> [id |-> q.nextID + i - 1, e |-> es[i]]]
<1> DEFINE a == addAll(q, es)
<1>1. /\ q.q \in Seq(Queued) /\ q.nextID \in Nat /\ q.nextRead \in Nat \cup {Nil}
      /\ Len(q.q) \in Nat /\ Len(es) \in Nat /\ Nil = -1 /\ -1 \notin Nat
  BY DEF Queues, Nil
<1>2. \A i \in 1..Len(es) : q.nextID + i - 1 \in Nat /\ es[i] \in Events
  BY <1>1
<1>3. new \in Seq(Queued) /\ Len(new) = Len(es)
  BY <1>1, <1>2 DEF Queued
<1> HIDE DEF new
<1>4. a = [q |-> q.q \o new, nextID |-> q.nextID + Len(es),
           nextRead |-> IF q.nextRead = Nil /\ es # <<>> THEN q.nextID ELSE q.nextRead]
  BY DEF addAll, new
<1>5. q.q \o new \in Seq(Queued) /\ Len(q.q \o new) = Len(q.q) + Len(es)
  BY <1>1, <1>3
<1>6. a.q = q.q \o new /\ a.nextID = q.nextID + Len(es) /\ Len(a.q) = Len(q.q) + Len(es)
  BY <1>4, <1>5
<1>7. a.nextRead = IF q.nextRead = Nil /\ a.nextID # q.nextID THEN q.nextID ELSE q.nextRead
  <2>1. es = <<>> <=> Len(es) = 0
    OBVIOUS
  <2>2. a.nextID # q.nextID <=> es # <<>>
    BY <1>1, <1>6, <2>1
  <2> QED BY <1>4, <2>2
<1>8. a \in Queues
  <2>1. q.nextID + Len(es) \in Nat
    BY <1>1
  <2>2. (IF q.nextRead = Nil /\ es # <<>> THEN q.nextID ELSE q.nextRead) \in Nat \cup {Nil}
    BY <1>1
  <2> QED BY <1>4, <1>5, <2>1, <2>2 DEF Queues
<1>9. Oldest(a) = Oldest(q)
  BY <1>1, <1>6 DEF Oldest
<1>10. ASSUME NEW i \in 1..Len(a.q) PROVE a.q[i].id = (a.nextID - Len(a.q)) + (i - 1)
  <2>1. CASE i <= Len(q.q)
    <3>1. (q.q \o new)[i] = q.q[i]
      BY <1>1, <1>3, <1>6, <2>1
    <3>2. q.q[i].id = (q.nextID - Len(q.q)) + (i - 1)
      BY <1>1, <2>1, <1>6 DEF Consecutive
    <3> QED BY <1>1, <1>6, <3>1, <3>2
  <2>2. CASE i > Len(q.q)
    <3>1. i - Len(q.q) \in 1..Len(es)
      BY <1>1, <1>6, <2>2
    <3>2. (q.q \o new)[i] = new[i - Len(q.q)]
      BY <1>1, <1>3, <1>6, <2>2
    <3>3. new[i - Len(q.q)].id = q.nextID + (i - Len(q.q)) - 1
      BY <3>1 DEF new
    <3> QED BY <1>1, <1>6, <3>2, <3>3
  <2> QED BY <1>1, <1>6, <2>1, <2>2
<1>11. Consecutive(a)
  <2> HIDE DEF a
  <2>1. Len(q.q) <= q.nextID
    BY DEF Consecutive
  <2>2. Len(a.q) <= a.nextID
    BY <1>1, <1>6, <2>1
  <2> QED BY <1>10, <2>2 DEF Consecutive
<1>12. Entries(q) \subseteq Entries(a)
  <2> SUFFICES ASSUME NEW i \in 1..Len(q.q) PROVE q.q[i] \in Entries(a)
    BY DEF Entries
  <2>1. i \in 1..Len(a.q) /\ a.q[i] = q.q[i]
    BY <1>1, <1>3, <1>6
  <2> HIDE DEF a
  <2> QED BY <2>1 DEF Entries
<1>13. ASSUME NEW x \in Entries(a), x \notin Entries(q)
       PROVE  \E i \in 1..Len(es) : x = [id |-> q.nextID + i - 1, e |-> es[i]]
  <2>1. PICK i \in 1..Len(a.q) : x = a.q[i]
    BY DEF Entries
  <2>2. ~(i <= Len(q.q))
    <3> SUFFICES ASSUME i <= Len(q.q) PROVE FALSE
      OBVIOUS
    <3>1. i \in 1..Len(q.q) /\ a.q[i] = q.q[i]
      BY <1>1, <1>3, <1>6
    <3> QED BY <1>13, <2>1, <3>1 DEF Entries
  <2>3. i - Len(q.q) \in 1..Len(es) /\ a.q[i] = new[i - Len(q.q)]
    BY <1>1, <1>3, <1>6, <2>2
  <2>4. new[i - Len(q.q)] = [id |-> q.nextID + (i - Len(q.q)) - 1, e |-> es[i - Len(q.q)]]
    BY <2>3 DEF new
  <2> QED BY <2>1, <2>3, <2>4
<1> QED BY <1>6, <1>7, <1>8, <1>9, <1>11, <1>12, <1>13 DEF a

\* ack drops events from the front, none behind the acknowledged one.
LEMMA QueueAck ==
  ASSUME NEW q \in Queues, Consecutive(q), NEW id \in Nat
  PROVE  LET a == ack(q, id)
         IN  /\ a \in Queues /\ Consecutive(a)
             /\ a.nextID = q.nextID /\ a.nextRead = q.nextRead
             /\ Oldest(a) = Oldest(q) \/ Oldest(a) <= id + 1
             /\ Entries(a) = {x \in Entries(q) : x.id > id}
<1> DEFINE Splits(n) == \A i \in 1..Len(q.q) : q.q[i].id <= id <=> i <= n
<1> DEFINE n == CHOOSE n \in 0..Len(q.q) : Splits(n)
<1>1. /\ q.q \in Seq(Queued) /\ q.nextID \in Nat /\ Len(q.q) \in Nat /\ Len(q.q) <= q.nextID
  BY DEF Queues, Consecutive
<1>2. \A i \in 1..Len(q.q) : q.q[i].id = (q.nextID - Len(q.q)) + (i - 1)
  BY DEF Consecutive
<1>3. \E k \in 0..Len(q.q) : Splits(k)
  <2>1. CASE id < Oldest(q)
    <3>1. Splits(0)
      BY <1>1, <1>2, <2>1 DEF Oldest
    <3>2. 0 \in 0..Len(q.q)
      BY <1>1
    <3> HIDE DEF Splits
    <3> QED BY <3>1, <3>2
  <2>2. CASE id >= q.nextID
    <3>1. Splits(Len(q.q))
      BY <1>1, <1>2, <2>2
    <3>2. Len(q.q) \in 0..Len(q.q)
      BY <1>1
    <3> HIDE DEF Splits
    <3> QED BY <3>1, <3>2
  <2>3. CASE id >= Oldest(q) /\ id < q.nextID
    <3>1. PICK k \in 0..Len(q.q) : k = id + 1 - (q.nextID - Len(q.q))
      BY <1>1, <2>3 DEF Oldest
    <3>2. ASSUME NEW i \in 1..Len(q.q) PROVE q.q[i].id <= id <=> i <= k
      <4>1. q.q[i].id = (q.nextID - Len(q.q)) + (i - 1)
        BY <1>2
      <4>2. i \in Int /\ k \in Int
        BY <1>1
      <4> QED BY <1>1, <3>1, <4>1, <4>2
    <3>3. Splits(k)
      BY <3>2
    <3> HIDE DEF Splits
    <3> QED BY <3>3
  <2>4. id < Oldest(q) \/ id >= q.nextID \/ (id >= Oldest(q) /\ id < q.nextID)
    BY <1>1 DEF Oldest
  <2> HIDE DEF Splits
  <2> QED BY <2>1, <2>2, <2>3, <2>4
<1>4. n \in 0..Len(q.q) /\ Splits(n)
  BY <1>3
<1> HIDE DEF n
<1> DEFINE rest == SubSeq(q.q, n + 1, Len(q.q))
<1> DEFINE a == ack(q, id)
<1>5. a = [q EXCEPT !.q = rest]
  BY DEF ack, n
<1>6. rest \in Seq(Queued) /\ Len(rest) = Len(q.q) - n
      /\ \A i \in 1..(Len(q.q) - n) : rest[i] = q.q[n + i]
  BY <1>1, <1>4
<1> HIDE DEF rest, Splits
<1>7. a.q = rest /\ a.nextID = q.nextID /\ a.nextRead = q.nextRead /\ a \in Queues
  BY <1>5, <1>6 DEF Queues
<1>8. Consecutive(a)
  <2>1. Len(a.q) <= a.nextID
    BY <1>1, <1>4, <1>6, <1>7
  <2>2. ASSUME NEW i \in 1..Len(a.q) PROVE a.q[i].id = (a.nextID - Len(a.q)) + (i - 1)
    <3>1. n + i \in 1..Len(q.q) /\ i \in 1..(Len(q.q) - n)
      BY <1>1, <1>4, <1>6, <1>7
    <3>2. a.q[i] = q.q[n + i]
      BY <1>6, <1>7, <3>1
    <3>3. q.q[n + i].id = (q.nextID - Len(q.q)) + ((n + i) - 1)
      BY <1>2, <3>1
    <3>4. Len(a.q) = Len(q.q) - n
      BY <1>6, <1>7
    <3> HIDE DEF a
    <3> QED BY <1>1, <1>4, <1>7, <3>2, <3>3, <3>4
  <2> QED BY <2>1, <2>2 DEF Consecutive
<1>9. Oldest(a) = Oldest(q) \/ Oldest(a) <= id + 1
  <2>1. Oldest(a) = Oldest(q) + n
    BY <1>1, <1>4, <1>6, <1>7 DEF Oldest
  <2>2. CASE n = 0
    BY <1>1, <2>1, <2>2 DEF Oldest
  <2>3. CASE n # 0
    <3>1. n \in 1..Len(q.q)
      BY <1>1, <1>4, <2>3
    <3>2. q.q[n].id <= id
      BY <1>4, <3>1 DEF Splits
    <3>3. q.q[n].id = Oldest(q) + (n - 1)
      BY <1>2, <3>1 DEF Oldest
    <3>4. Oldest(q) \in Int /\ n \in Int /\ id \in Int
      BY <1>1, <3>1 DEF Oldest
    <3> HIDE DEF a
    <3> QED BY <2>1, <3>2, <3>3, <3>4
  <2> QED BY <2>2, <2>3
<1>10. Entries(a) = {x \in Entries(q) : x.id > id}
  <2>0. \A i \in 1..Len(q.q) : q.q[i].id \in Int
    <3>1. \A i \in 1..Len(q.q) : q.q[i] \in Queued
      BY <1>1
    <3>2. \A x \in Queued : x.id \in Int
      BY DEF Queued
    <3> QED BY <3>1, <3>2
  <2>1. ASSUME NEW i \in 1..Len(a.q) PROVE a.q[i] \in Entries(q) /\ a.q[i].id > id
    <3>1. n + i \in 1..Len(q.q) /\ i \in 1..(Len(q.q) - n) /\ ~(n + i <= n)
      BY <1>1, <1>4, <1>6, <1>7
    <3>2. a.q[i] = q.q[n + i]
      BY <1>6, <1>7, <3>1
    <3>3. ~(q.q[n + i].id <= id)
      BY <1>4, <3>1 DEF Splits
    <3>4. a.q[i] \in Entries(q)
      BY <3>1, <3>2 DEF Entries
    <3> QED BY <2>0, <3>1, <3>2, <3>3, <3>4
  <2>2. ASSUME NEW j \in 1..Len(q.q), q.q[j].id > id PROVE q.q[j] \in Entries(a)
    <3>1. ~(q.q[j].id <= id)
      BY <2>0, <2>2
    <3>2. ~(j <= n)
      BY <1>4, <3>1 DEF Splits
    <3>3. PICK i \in 1..(Len(q.q) - n) : j = n + i
      BY <1>1, <1>4, <3>2
    <3>4. i \in 1..Len(a.q) /\ a.q[i] = q.q[j]
      BY <1>6, <1>7, <3>3
    <3> HIDE DEF a
    <3> QED BY <3>4 DEF Entries
  <2> HIDE DEF a
  <2> QED BY <2>1, <2>2 DEF Entries
<1> QED BY <1>7, <1>8, <1>9, <1>10 DEF a

\* fetchEvents takes the events from the read position on and moves it behind them.
LEMMA QueueFetch ==
  ASSUME NEW q \in Queues, Consecutive(q),
         q.nextRead # Nil, Oldest(q) <= q.nextRead, q.nextRead < q.nextID
  PROVE  LET f == Fetched(q)
         IN  /\ f.events \in Seq(Queued) /\ f.queue \in Queues
             /\ f.queue.q = q.q /\ f.queue.nextID = q.nextID
             /\ \A i \in 1..Len(f.events) : /\ f.events[i].id = q.nextRead + (i - 1)
                                             /\ f.events[i] \in Entries(q)
             /\ \/ f.queue.nextRead = Nil /\ q.nextRead + Len(f.events) = q.nextID
                \/ /\ f.queue.nextRead = q.nextRead + Len(f.events)
                   /\ f.queue.nextRead < q.nextID
<1> DEFINE first == CHOOSE i \in 1..Len(q.q) : q.q[i].id = q.nextRead
<1> DEFINE last  == IF first + BatchSize <= Len(q.q) THEN first + BatchSize - 1 ELSE Len(q.q)
<1> DEFINE f == Fetched(q)
<1>1. /\ q.q \in Seq(Queued) /\ q.nextID \in Nat /\ Len(q.q) \in Nat /\ Len(q.q) <= q.nextID
      /\ q.nextRead \in Nat /\ BatchSize \in Nat /\ BatchSize >= 1
  BY FederationSizes DEF Queues, Consecutive
<1>2. \A i \in 1..Len(q.q) : q.q[i].id = (q.nextID - Len(q.q)) + (i - 1)
  BY DEF Consecutive
<1>3. \E i \in 1..Len(q.q) : q.q[i].id = q.nextRead
  <2>1. PICK k \in 1..Len(q.q) : k = q.nextRead - (q.nextID - Len(q.q)) + 1
    BY <1>1 DEF Oldest
  <2>2. q.q[k].id = q.nextRead
    BY <1>1, <1>2, <2>1
  <2> QED BY <2>2
<1>4. first \in 1..Len(q.q) /\ q.q[first].id = q.nextRead
  BY <1>3
<1> HIDE DEF first
<1>5. PICK N \in Nat, L \in Nat, R \in Nat : N = q.nextID /\ L = Len(q.q) /\ R = q.nextRead
  BY <1>1
<1>6. first \in 1..L /\ R = (N - L) + (first - 1)
  BY <1>2, <1>4, <1>5
<1>7. PICK l \in first..L : l = last
  <2>1. last = IF first + BatchSize <= L THEN first + BatchSize - 1 ELSE L
    BY <1>5
  <2> HIDE DEF last
  <2>2. first \in Int /\ 1 <= first /\ first <= L
    BY <1>6
  <2>3. last \in first..L
    BY <1>1, <2>1, <2>2
  <2> QED BY <2>3
<1> HIDE DEF last
<1>8. PICK x : x = IF l < L THEN q.q[l + 1].id ELSE Nil
  OBVIOUS
<1>9. /\ x \in Nat \cup {Nil}
      /\ \/ x = Nil /\ l = L
         \/ x = R + (l - first + 1) /\ x < N
  <2>1. CASE l = L
    BY <1>6, <1>7, <1>8, <2>1
  <2>2. CASE l # L
    <3>1. l < L /\ l + 1 \in 1..L /\ first \in Int /\ l \in Int
      BY <1>6, <1>7, <2>2
    <3>2. x = (N - L) + ((l + 1) - 1)
      BY <1>2, <1>5, <1>8, <3>1
    <3>3. x \in Int /\ x = R + (l - first + 1) /\ x < N /\ x >= 0
      BY <1>6, <1>7, <3>1, <3>2
    <3> QED BY <3>3
  <2> QED BY <2>1, <2>2
<1>10. PICK es : es = SubSeq(q.q, first, l)
  OBVIOUS
<1>11. /\ es \in Seq(Queued) /\ Len(es) = l - first + 1
       /\ \A i \in 1..(l - first + 1) : es[i] = q.q[first + i - 1]
  <2>1. PICK t \in Seq(Queued) : t = q.q
    BY <1>1
  <2>2. Len(t) = L /\ es = SubSeq(t, first, l)
    BY <1>5, <1>10, <2>1
  <2>3. first \in 1..Len(t) /\ l \in first..Len(t) /\ first \in Int /\ l \in Int
    BY <1>6, <1>7, <2>2
  <2>4. Len(es) = l - first + 1
    BY <2>2, <2>3
  <2>5. \A i \in 1..(l - first + 1) : es[i] = t[first + i - 1]
    BY <2>2, <2>3
  <2>6. es \in Seq(Queued)
    BY <2>2, <2>3
  <2> QED BY <2>1, <2>4, <2>5, <2>6
<1>12. f = [events |-> es, queue |-> [q EXCEPT !.nextRead = x]]
  BY <1>5, <1>7, <1>8, <1>10 DEF Fetched, first, last
<1> HIDE DEF f
<1>13. f.events = es /\ f.queue = [q EXCEPT !.nextRead = x]
  BY <1>12
<1>14. /\ f.queue \in Queues /\ f.queue.q = q.q /\ f.queue.nextID = q.nextID
       /\ f.queue.nextRead = x
  BY <1>9, <1>13 DEF Queues
<1>15. ASSUME NEW i \in 1..Len(f.events)
       PROVE  f.events[i].id = q.nextRead + (i - 1) /\ f.events[i] \in Entries(q)
  <2>1. i \in 1..(l - first + 1) /\ i \in Int /\ first \in Int
    BY <1>6, <1>7, <1>11, <1>13
  <2>2. f.events[i] = q.q[first + i - 1]
    BY <1>11, <1>13, <2>1
  <2>3. first + i - 1 \in 1..L
    BY <1>6, <1>7, <2>1
  <2>4. q.q[first + i - 1].id = (N - L) + ((first + i - 1) - 1)
    BY <1>2, <1>5, <2>3
  <2>5. f.events[i] \in Entries(q)
    BY <1>5, <2>2, <2>3 DEF Entries
  <2>6. (N - L) + ((first + i - 1) - 1) = R + (i - 1)
    BY <1>6, <2>1
  <2>7. f.events[i].id = q.q[first + i - 1].id
    BY <2>2
  <2>8. f.events[i].id = R + (i - 1)
    BY <2>4, <2>6, <2>7
  <2>9. R = q.nextRead
    BY <1>5
  <2> QED BY <2>5, <2>8, <2>9
<1>16. \/ f.queue.nextRead = Nil /\ q.nextRead + Len(f.events) = q.nextID
       \/ f.queue.nextRead = q.nextRead + Len(f.events) /\ f.queue.nextRead < q.nextID
  <2>1. first \in Int /\ l \in Int /\ Len(f.events) = l - first + 1
    BY <1>6, <1>7, <1>11, <1>13
  <2>2. x = Nil /\ l = L => R + (l - first + 1) = N
    BY <1>6, <2>1
  <2> QED BY <1>5, <1>9, <1>14, <2>1, <2>2
<1> QED BY <1>11, <1>13, <1>14, <1>15, <1>16 DEF f

\* setReadPosition finds the expected event, or there is none to be read.
LEMMA QueueSeek ==
  ASSUME NEW q \in Queues, Consecutive(q), NEW next \in Nat, Keeps(q, next)
  PROVE  LET s == setReadPosition(q, next)
         IN  /\ s \in Queues /\ s.q = q.q /\ s.nextID = q.nextID
             /\ IF next = q.nextID THEN s.nextRead = Nil ELSE s.nextRead = next
<1> DEFINE s == setReadPosition(q, next)
<1>1. /\ q.q \in Seq(Queued) /\ q.nextID \in Nat /\ Len(q.q) \in Nat /\ Len(q.q) <= q.nextID
      /\ q.nextRead \in Nat \cup {Nil} /\ Nil \notin Nat
  BY DEF Queues, Consecutive, Nil
<1>2. \A i \in 1..Len(q.q) : q.q[i].id = (q.nextID - Len(q.q)) + (i - 1)
  BY DEF Consecutive
<1>3. /\ q.nextID - Len(q.q) <= next /\ next <= q.nextID
      /\ q.nextRead # Nil => next <= q.nextRead /\ q.nextRead < q.nextID
  BY DEF Keeps, Oldest
<1>4. CASE next = q.nextID
  <2>1. ~ \E i \in 1..Len(q.q) : q.q[i].id = next
    BY <1>1, <1>2, <1>4
  <2>2. s = q
    BY <2>1 DEF setReadPosition
  <2> QED BY <1>1, <1>3, <1>4, <2>2
<1>5. CASE next # q.nextID
  <2>1. next - (q.nextID - Len(q.q)) + 1 \in 1..Len(q.q)
    BY <1>1, <1>3, <1>5
  <2>2. q.q[next - (q.nextID - Len(q.q)) + 1].id = next
    BY <1>1, <1>2, <2>1
  <2>3. \E i \in 1..Len(q.q) : q.q[i].id = next
    BY <2>1, <2>2
  <2>4. s = [q EXCEPT !.nextRead = next]
    BY <2>3 DEF setReadPosition
  <2> QED BY <1>5, <2>4 DEF Queues
<1> QED BY <1>4, <1>5

-----------------------------------------------------------------------------
(* Types.                                                                   *)

\* None is no peer, session, reply or event in hand.
LEMMA NoneIsNothing ==
  None \notin Peers /\ None \notin Sessions /\ None \notin Replies /\ None \notin [id : Nat]
<1>1. DOMAIN None = {"none"}
  BY DEF None
<1>2. \A x \in Peers : DOMAIN x = {"sid", "queue", "reply"}
  BY DEF Peers
<1>3. \A x \in Sessions : DOMAIN x = {"sid", "next", "seen"}
  BY DEF Sessions
<1>4. \A x \in Replies : DOMAIN x = {"clean", "next"}
  BY DEF Replies
<1>5. \A x \in [id : Nat] : DOMAIN x = {"id"}
  OBVIOUS
<1>6. "none" \notin {"sid", "queue", "reply"} \cup {"sid", "next", "seen"} \cup {"clean", "next"} \cup {"id"}
  OBVIOUS
<1> HIDE DEF None
<1> QED BY <1>1, <1>2, <1>3, <1>4, <1>5, <1>6

LEMMA ChangesAreEvents == \A es \in Seq(Changes) : es \in Seq(Events)
<1>1. Changes \subseteq Events
  BY DEF Events
<1> HIDE DEF Changes, Events
<1> QED BY <1>1

\* A finite set can be listed, nothing is left out.
LEMMA SetListed ==
  ASSUME NEW S, IsFiniteSet(S)
  PROVE  /\ Cardinality(S) \in Nat /\ SetToSeq(S) \in [1..Cardinality(S) -> S]
         /\ \A s \in S : \E i \in 1..Cardinality(S) : SetToSeq(S)[i] = s
<1>1. Cardinality(S) \in Nat /\ ExistsBijection(1..Cardinality(S), S)
  BY FS_CardinalityType, Zenon
<1>2. PICK g : g \in Bijection(1..Cardinality(S), S)
  BY <1>1, Zenon DEF ExistsBijection
<1>3. g \in [1..Cardinality(S) -> S] /\ IsInjective(g)
  BY <1>2, Zenon DEF Bijection, Injection
<1>4. SetToSeq(S) \in [1..Cardinality(S) -> S] /\ IsInjective(SetToSeq(S))
  BY <1>3, Zenon DEF SetToSeq
<1>5. SetToSeq(S) \in Injection(1..Cardinality(S), S)
  BY <1>4, Zenon DEF Injection
<1>6. Cardinality(1..Cardinality(S)) = Cardinality(S)
  <2>1. PICK n \in Nat : n = Cardinality(S)
    BY <1>1
  <2>2. Cardinality(1..n) = IF 1 > n THEN 0 ELSE n - 1 + 1
    BY FS_Interval
  <2>3. (IF 1 > n THEN 0 ELSE n - 1 + 1) = n
    OBVIOUS
  <2> QED BY <2>1, <2>2, <2>3
<1>7. SetToSeq(S) \in Surjection(1..Cardinality(S), S)
  BY <1>5, <1>6, FS_Injection, Zenon
<1> QED BY <1>1, <1>4, <1>7, Zenon DEF Surjection

\* One event of a kind for each topic of a set.
Lists(es, k, T) ==
  /\ es \in Seq(Changes)
  /\ \A i \in 1..Len(es) : es[i].kind = k /\ es[i].t \in T
  /\ \A t \in T : \E i \in 1..Len(es) : es[i].t = t

\* The topics of a store are finite in number: they can be listed as events, one for each.
LEMMA TopicsListed ==
  ASSUME NEW k \in {"sub", "unsub"}, NEW T \in SUBSET Topics
  PROVE  Lists(SetToSeq({[kind |-> k, t |-> t] : t \in T}), k, T)
<1> DEFINE S == {[kind |-> k, t |-> t] : t \in T}
<1> DEFINE f == [t \in T |-> [kind |-> k, t |-> t]]
<1>1. IsFiniteSet(T)
  BY FederationSizes, FS_Subset, Zenon
<1>2. S \subseteq Changes
  BY DEF Changes
<1>3. f \in Bijection(T, S)
  <2>1. f \in [T -> S]
    OBVIOUS
  <2>2. ASSUME NEW a \in T, NEW b \in T, f[a] = f[b] PROVE a = b
    <3>1. f[a].t = a /\ f[b].t = b
      OBVIOUS
    <3> QED BY <2>2, <3>1
  <2>3. \A s \in S : \E t \in T : f[t] = s
    OBVIOUS
  <2> HIDE DEF f, S
  <2> QED BY <2>1, <2>2, <2>3 DEF Bijection, Injection, Surjection, IsInjective
<1>4. /\ \A s \in S : s.kind = k /\ s.t \in T
      /\ \A t \in T : \E s \in S : s.t = t
  <2>1. \A t \in T : [kind |-> k, t |-> t] \in S
    OBVIOUS
  <2>2. \A t \in T : [kind |-> k, t |-> t].t = t
    OBVIOUS
  <2>3. \A s \in S : s.kind = k /\ s.t \in T
    OBVIOUS
  <2> HIDE DEF S
  <2> QED BY <2>1, <2>2, <2>3
<1> HIDE DEF S, f
<1>5. ExistsBijection(T, S)
  BY <1>3, Zenon DEF ExistsBijection
<1>6. IsFiniteSet(S)
  BY <1>1, <1>5, FS_Bijection, Zenon
<1>7. /\ Cardinality(S) \in Nat /\ SetToSeq(S) \in [1..Cardinality(S) -> S]
      /\ \A s \in S : \E i \in 1..Cardinality(S) : SetToSeq(S)[i] = s
  BY <1>6, SetListed, Zenon
<1>8. PICK es : es = SetToSeq(S)
  OBVIOUS
<1>9. PICK n \in Nat : n = Cardinality(S)
  BY <1>7
<1>10. es \in [1..n -> S] /\ \A s \in S : \E i \in 1..n : es[i] = s
  BY <1>7, <1>8, <1>9
<1>11. es \in Seq(Changes) /\ Len(es) = n
  BY <1>2, <1>10
<1>12. \A i \in 1..n : es[i] \in S
  BY <1>10
<1>13. Lists(es, k, T)
  BY <1>4, <1>10, <1>11, <1>12 DEF Lists
<1> QED BY <1>8, <1>13 DEF S

-----------------------------------------------------------------------------
(* The steps.                                                               *)

\* All of the invariant but the types.
Steady == EventsInOrder /\ SidsOnce /\ SessionInStep /\ NothingUnderWay /\ Reconnecting /\ Streaming

\* Types that the proofs of the steps use.
LEMMA PeerTypes ==
  ASSUME NEW p \in Peers
  PROVE  /\ p.sid \in Nat /\ p.queue \in Queues /\ p.reply \in Replies \cup {None}
         /\ p.queue.q \in Seq(Queued) /\ Len(p.queue.q) \in Nat
         /\ p.queue.nextID \in Nat /\ p.queue.nextRead \in Nat \cup {Nil}
         /\ Oldest(p.queue) \in Int
         /\ p = [p EXCEPT !.queue = p.queue]
BY DEF Peers, Queues, Oldest

\* The peers and the sessions there are.
LEMMA Present ==
  ASSUME Types
  PROVE  /\ peer # NoPeer => peer \in Peers
         /\ peer = NoPeer => peer \notin Peers
         /\ session # NoSession => session \in Sessions
         /\ session = NoSession => session \notin Sessions
         /\ inHand # None => inHand \in [id : Nat]
<1>1. peer \in Peers \cup {None} /\ session \in Sessions \cup {None} /\ inHand \in [id : Nat] \cup {None}
  BY DEF Types, NoPeer, NoSession
<1> QED BY <1>1, NoneIsNothing, Zenon DEF NoPeer, NoSession

\* Events may be queued at any time.
LEMMA Adding ==
  ASSUME Inv, peer \in Peers, NEW es \in Seq(Events),
         peer' = [peer EXCEPT !.queue = addAll(@, es)],
         UNCHANGED <<stream, there, sids>>,
         phase' = phase \/ (phase = "cleared" /\ phase' = "synced")
  PROVE  peer' \in Peers /\ Steady'
<1> DEFINE q == peer.queue
<1> DEFINE a == addAll(q, es)
<1> HIDE DEF q, a
<1>1. q \in Queues /\ Consecutive(q)
  BY PeerTypes DEF Inv, Reconnecting, q
<1>2. /\ a \in Queues /\ Consecutive(a)
      /\ Oldest(a) = Oldest(q) /\ a.nextID = q.nextID + Len(es)
      /\ a.nextRead = IF q.nextRead = Nil /\ a.nextID # q.nextID THEN q.nextID ELSE q.nextRead
  BY <1>1, QueueAdd DEF a
<1>3. peer' = [peer EXCEPT !.queue = a]
  BY DEF a, q
<1>4. peer' \in Peers /\ peer'.queue = a /\ peer'.sid = peer.sid /\ peer'.reply = peer.reply
  BY <1>2, <1>3 DEF Peers
<1>5. /\ UNCHANGED <<batch, up, down, session, inHand, applied, sids>>
  BY DEF stream, there
<1>6. EventsInOrder' /\ SessionInStep' /\ SidsOnce'
  BY <1>4, <1>5 DEF Inv, EventsInOrder, SessionInStep, SidsOnce
<1>7. NothingUnderWay'
  BY <1>5 DEF Inv, NothingUnderWay
<1>8. /\ q.nextID \in Nat /\ a.nextID \in Nat /\ Oldest(q) \in Int
      /\ q.nextRead \in Nat \cup {Nil} /\ Nil = -1 /\ Len(es) \in Nat
      /\ Len(q.q) \in Nat /\ Len(a.q) \in Nat
  BY <1>1, <1>2 DEF Queues, Oldest, Nil
<1>9. ASSUME NEW next \in Nat, Keeps(q, next) PROVE Keeps(a, next)
  BY <1>2, <1>8, <1>9 DEF Keeps
<1>10. Fresh(q) => Fresh(a)
  <2>1. q.nextID - Len(q.q) = a.nextID - Len(a.q)
    BY <1>2 DEF Oldest
  <2>2. Fresh(q) => Len(a.q) = a.nextID
    BY <1>8, <2>1 DEF Fresh
  <2>3. CASE q.nextID = 0
    BY <1>2, <1>8, <2>2, <2>3 DEF Fresh
  <2>4. CASE q.nextID # 0
    BY <1>2, <1>8, <2>2, <2>4 DEF Fresh
  <2> QED BY <2>3, <2>4
<1>11. Reconnecting'
  <2>1. (peer \in Peers => Consecutive(peer.queue))'
    BY <1>2, <1>4
  <2>2. session \in Sessions => session.next \in Nat
    BY DEF Sessions
  <2>3. (phase \in {"connect", "ended"} /\ SameSession => Keeps(peer.queue, session.next))'
    BY <1>4, <1>5, <1>9, <2>2 DEF Inv, Reconnecting, SameSession, q
  <2>4. (phase \in {"hello", "cleared", "synced"} =>
           /\ peer.reply \in Replies
           /\ session \in Sessions => session.sid = peer.sid /\ peer.reply.next = session.next)'
    BY <1>4, <1>5 DEF Inv, Reconnecting
  <2>5. (phase = "hello" /\ session \in Sessions =>
           IF peer.reply.clean THEN session.next = 0 ELSE Keeps(peer.queue, session.next))'
    BY <1>4, <1>5, <1>9, <2>2 DEF Inv, Reconnecting, q
  <2>6. (phase \in {"cleared", "synced"} =>
           Fresh(peer.queue) /\ (session \in Sessions => session.next = 0))'
    BY <1>4, <1>5, <1>10 DEF Inv, Reconnecting, q
  <2> QED BY <2>1, <2>3, <2>4, <2>5, <2>6 DEF Reconnecting
<1>12. Streaming'
  <2> SUFFICES ASSUME phase' = "stream" PROVE Streaming'
    BY DEF Streaming
  <2>1. phase = "stream"
    OBVIOUS
  <2>2. StreamFrom' = StreamFrom
    BY <1>5 DEF StreamFrom
  <2>3. SameSession' /\ session \in Sessions
    BY <1>4, <1>5, <2>1 DEF Inv, Streaming, SameSession
  <2>4. Oldest(a) <= session.next
    BY <1>2, <2>1 DEF Inv, Streaming, q
  <2> DEFINE end == StreamFrom + Len(up) + Len(batch)
  <2>5. IF q.nextRead = Nil THEN q.nextID = end ELSE q.nextRead = end /\ q.nextRead < q.nextID
    BY <2>1 DEF Inv, Streaming, q
  <2>6. IF a.nextRead = Nil THEN a.nextID = end ELSE a.nextRead = end /\ a.nextRead < a.nextID
    <3> HIDE DEF end
    <3> QED BY <1>2, <1>8, <2>5
  <2>7. end' = end
    BY <1>5, <2>2
  <2>8. /\ inHand # None => inHand.id = session.next /\ session.next + 1 = Len(applied)
        /\ \A i \in 1..Len(up) : up[i].id = StreamFrom + (i - 1)
        /\ \A i \in 1..Len(batch) : batch[i].id = StreamFrom + Len(up) + (i - 1)
        /\ \A i \in 1..Len(down) : down[i] < session.next
    BY <2>1 DEF Inv, Streaming
  <2> QED BY <1>4, <1>5, <2>2, <2>3, <2>4, <2>6, <2>7, <2>8 DEF Streaming
<1> QED BY <1>4, <1>6, <1>7, <1>11, <1>12 DEF Steady

\* What the hooks, the messages and the nodes' knowledge of each other leave alone.
LEMMA Untouched ==
  ASSUME Steady, UNCHANGED <<peer, phase, batch, up, down, session, inHand, applied, sids>>
  PROVE  Steady'
<1>1. StreamFrom' = StreamFrom /\ SameSession' = SameSession
  BY DEF StreamFrom, SameSession
<1>2. (EventsInOrder /\ SidsOnce /\ SessionInStep /\ NothingUnderWay)'
  BY DEF Steady, EventsInOrder, SidsOnce, SessionInStep, NothingUnderWay
<1>3. Reconnecting'
  BY <1>1 DEF Steady, Reconnecting
<1>4. Streaming'
  BY <1>1 DEF Steady, Streaming
<1> QED BY <1>2, <1>3, <1>4 DEF Steady

LEMMA Hooks ==
  ASSUME Inv, NEW c \in Clients,
         (\E t \in Topics : OnSubscribed(c, t) \/ OnUnsubscribed(c, t)) \/ OnSessionTerminated(c)
  PROVE  Inv'
<1>1. Types /\ Steady
  BY DEF Inv, Steady
<1>2. UNCHANGED <<peer, phase, stream, there, sharedSent, shareGot, sids, faults>>
  BY DEF OnSubscribed, OnUnsubscribed, OnSessionTerminated
<1>3. UNCHANGED <<peer, phase, batch, up, down, session, inHand, applied, sids, shareGot>>
  BY <1>2 DEF stream, there
<1>4. \E es \in Seq(Changes) : hook' = [hook EXCEPT ![c] = es]
  <2>0. hook \in [Clients -> Seq(Changes)]
    BY <1>1 DEF Types
  <2>1. ASSUME NEW t \in Topics, OnSubscribed(c, t) \/ OnUnsubscribed(c, t)
        PROVE  \E es \in Seq(Changes) : hook' = [hook EXCEPT ![c] = es]
    <3>1. /\ [kind |-> "sub", t |-> t] \in Changes
          /\ [kind |-> "unsub", t |-> t] \in Changes
      BY DEF Changes
    <3>2. /\ <<[kind |-> "sub", t |-> t]>> \in Seq(Changes)
          /\ <<[kind |-> "unsub", t |-> t]>> \in Seq(Changes)
          /\ hook[c] \in Seq(Changes)
      BY <2>0, <3>1
    <3>3. CASE OnSubscribed(c, t)
      BY <3>2, <3>3, Zenon DEF OnSubscribed
    <3>4. CASE OnUnsubscribed(c, t)
      BY <3>2, <3>4, Zenon DEF OnUnsubscribed
    <3> QED BY <2>1, <3>3, <3>4
  <2>2. ASSUME OnSessionTerminated(c)
        PROVE  \E es \in Seq(Changes) : hook' = [hook EXCEPT ![c] = es]
    <3> DEFINE gone == {t \in index[c] : topics[t] = 1}
    <3>1. hook' = [hook EXCEPT ![c] = SetToSeq({[kind |-> "unsub", t |-> t] : t \in gone})]
      BY <2>2 DEF OnSessionTerminated
    <3>2. gone \in SUBSET Topics
      BY <1>1 DEF Types
    <3>3. SetToSeq({[kind |-> "unsub", t |-> t] : t \in gone}) \in Seq(Changes)
      BY <3>2, TopicsListed, Zenon DEF Lists
    <3> QED BY <3>1, <3>3, Zenon
  <2> QED BY <2>1, <2>2
<1>5. Types'
  <2>1. PICK es \in Seq(Changes) : hook' = [hook EXCEPT ![c] = es]
    BY <1>4
  <2>2. hook' \in [Clients -> Seq(Changes)]
    BY <1>1, <2>1 DEF Types
  <2>3. index' \in [Clients -> SUBSET Topics]
    <3>1. index \in [Clients -> SUBSET Topics]
      BY <1>1 DEF Types
    <3>2. \E T \in SUBSET Topics : index' = [index EXCEPT ![c] = T]
      <4>1. ASSUME NEW t \in Topics, OnSubscribed(c, t) PROVE index' = [index EXCEPT ![c] = index[c] \cup {t}]
        BY <4>1 DEF OnSubscribed
      <4>2. ASSUME NEW t \in Topics, OnUnsubscribed(c, t) PROVE index' = [index EXCEPT ![c] = index[c] \ {t}]
        BY <4>2 DEF OnUnsubscribed
      <4>3. OnSessionTerminated(c) => index' = [index EXCEPT ![c] = {}]
        BY DEF OnSessionTerminated
      <4>4. \A t \in Topics : /\ index[c] \cup {t} \in SUBSET Topics
                              /\ index[c] \ {t} \in SUBSET Topics
        BY <3>1
      <4> QED BY <4>1, <4>2, <4>3, <4>4, Zenon
    <3> QED BY <3>1, <3>2
  <2> QED BY <1>1, <1>3, <2>2, <2>3 DEF Types
<1>6. Steady'
  BY <1>1, <1>3, Untouched
<1> QED BY <1>5, <1>6 DEF Inv, Steady

LEMMA Broadcasts ==
  ASSUME Inv, NEW c \in Clients, Broadcast(c)
  PROVE  Inv'
<1>1. Types /\ Steady
  BY DEF Inv, Steady
<1>2. UNCHANGED <<index, phase, batch, up, down, session, inHand, applied, sids, shareGot>>
      /\ UNCHANGED <<stream, there, sids>>
  BY DEF Broadcast, stream, there, counts
<1>3. hook' \in [Clients -> Seq(Changes)] /\ hook[c] \in Seq(Events)
  <2>1. hook \in [Clients -> Seq(Changes)] /\ hook' = [hook EXCEPT ![c] = <<>>] /\ <<>> \in Seq(Changes)
    BY <1>1 DEF Types, Broadcast
  <2>2. hook[c] \in Seq(Events)
    BY <2>1, ChangesAreEvents
  <2> QED BY <2>1, <2>2
<1>4. CASE peer = NoPeer
  <2>1. peer' = peer
    BY <1>4 DEF Broadcast
  <2>2. Types'
    BY <1>1, <1>2, <1>3, <2>1 DEF Types
  <2> QED BY <1>1, <1>2, <2>1, <2>2, Untouched DEF Inv, Steady
<1>5. CASE peer # NoPeer
  <2>1. peer \in Peers
    BY <1>1, <1>5, Present
  <2>2. peer' = [peer EXCEPT !.queue = addAll(@, hook[c])]
    BY <1>5 DEF Broadcast
  <2>3. peer' \in Peers /\ Steady'
    BY <1>2, <1>3, <2>1, <2>2, Adding
  <2>4. Types'
    BY <1>1, <1>2, <1>3, <2>3 DEF Types
  <2> QED BY <2>3, <2>4 DEF Inv, Steady
<1> QED BY <1>4, <1>5

LEMMA Messages ==
  ASSUME Inv, NEW kind \in MsgKinds, sendMessage(kind)
  PROVE  Inv'
<1> DEFINE n == Len(shareGot) + 1
<1> DEFINE msg == [kind |-> "msg", n |-> n, rs |-> "rs" \in kind]
<1>1. Types /\ Steady /\ shareGot \in Seq(Nat)
  BY DEF Inv, Steady, Types
<1>2. UNCHANGED <<index, hook, phase, batch, up, down, session, inHand, applied, sids>>
      /\ UNCHANGED <<stream, there, sids>>
  BY DEF sendMessage, local, stream, there, counts
<1>3. shareGot' \in Seq(Nat)
  <2>1. shareGot' = Append(shareGot, 1) \/ shareGot' = Append(shareGot, 0)
    BY DEF sendMessage
  <2> QED BY <1>1, <2>1
<1>4. CASE peer' = peer
  <2>1. Types'
    BY <1>1, <1>2, <1>3, <1>4 DEF Types
  <2> QED BY <1>1, <1>2, <1>4, <2>1, Untouched DEF Inv, Steady
<1>5. CASE peer' # peer
  <2>1. peer # NoPeer /\ peer' = [peer EXCEPT !.queue = add(@, msg)]
    BY <1>5 DEF sendMessage
  <2>2. peer \in Peers
    BY <1>1, <2>1, Present
  <2>3. n \in Nat /\ ("rs" \in kind) \in BOOLEAN
    BY <1>1
  <2>4. msg \in Events
    BY <2>3 DEF Events
  <2> HIDE DEF msg
  <2>5. <<msg>> \in Seq(Events) /\ peer' = [peer EXCEPT !.queue = addAll(@, <<msg>>)]
    BY <2>1, <2>4 DEF add
  <2>6. peer' \in Peers /\ Steady'
    BY <1>2, <2>2, <2>5, Adding
  <2>7. Types'
    BY <1>1, <1>2, <1>3, <2>6 DEF Types
  <2> QED BY <2>6, <2>7 DEF Inv, Steady
<1> QED BY <1>4, <1>5

\* A new queue is empty and starts at 0.
LEMMA NewQueue ==
  newEventQueue \in Queues /\ Consecutive(newEventQueue) /\ Fresh(newEventQueue)
<1>1. /\ newEventQueue.q = <<>> /\ newEventQueue.nextID = 0 /\ newEventQueue.nextRead = Nil
      /\ Len(newEventQueue.q) = 0
  BY DEF newEventQueue
<1>2. newEventQueue \in Queues
  BY DEF newEventQueue, Queues
<1> QED BY <1>1, <1>2 DEF Consecutive, Fresh

LEMMA JoinsHere ==
  ASSUME Inv, nodeJoinHere
  PROVE  Inv'
<1>1. Types /\ Steady /\ sids \in Nat
  BY DEF Inv, Steady, Types
<1>2. /\ UNCHANGED <<index, hook, shareGot, batch, up, down, session, inHand, applied>>
      /\ phase = "none" /\ phase' = "connect" /\ sids' = sids + 1
      /\ peer' = [sid |-> sids + 1, queue |-> newEventQueue, reply |-> None]
  BY DEF nodeJoinHere, local, stream, there
<1>3. /\ peer' \in Peers /\ peer'.sid = sids + 1 /\ peer'.queue = newEventQueue
  <2>1. sids + 1 \in Nat
    BY <1>1
  <2> QED BY <1>2, <2>1, NewQueue DEF Peers
<1>4. Types'
  BY <1>1, <1>2, <1>3 DEF Types, Phases
<1>5. session \in Sessions => session.sid \in Nat /\ session.sid <= sids
  BY <1>1 DEF Steady, SidsOnce, Sessions
<1>6. SidsOnce' /\ ~SameSession'
  BY <1>1, <1>2, <1>3, <1>5 DEF SidsOnce, SameSession
<1>7. Reconnecting'
  BY <1>2, <1>3, <1>6, NewQueue DEF Reconnecting
<1>8. EventsInOrder' /\ SessionInStep'
  BY <1>1, <1>2 DEF Steady, EventsInOrder, SessionInStep
<1>9. NothingUnderWay' /\ Streaming'
  BY <1>1, <1>2 DEF Steady, NothingUnderWay, Streaming
<1> QED BY <1>4, <1>6, <1>7, <1>8, <1>9 DEF Inv

\* Hello, its answer received: the session is a new one, or the one the queue was kept for.
LEMMA Helloes ==
  ASSUME Inv, ~HelloReplyLost, Hello
  PROVE  Inv'
<1> DEFINE clean == session = NoSession \/ session.sid # peer.sid
<1>1. Types /\ Steady /\ peer \in Peers
  BY DEF Inv, Steady, Types, Hello
<1>2. /\ UNCHANGED <<index, hook, shareGot, batch, up, down, inHand, sids>>
      /\ phase = "connect" /\ phase' = "hello"
      /\ session' = IF clean THEN [sid |-> peer.sid, next |-> 0, seen |-> <<>>] ELSE session
      /\ applied' = IF clean THEN <<>> ELSE applied
      /\ peer' = [peer EXCEPT !.reply = [clean |-> clean, next |-> session'.next]]
  BY DEF Hello, local, stream
<1>3. clean \in BOOLEAN
  OBVIOUS
<1>4. /\ session' \in Sessions /\ session'.sid = peer.sid /\ session'.next \in Nat
      /\ clean => session'.next = 0 /\ session'.seen = <<>> /\ applied' = <<>>
      /\ ~clean => session' = session /\ session \in Sessions /\ session.sid = peer.sid
  <2>1. CASE clean
    <3>1. session' = [sid |-> peer.sid, next |-> 0, seen |-> <<>>] /\ peer.sid \in Nat
      BY <1>1, <1>2, <2>1, PeerTypes
    <3> QED BY <1>2, <2>1, <3>1 DEF Sessions
  <2>2. CASE ~clean
    <3>1. session' = session /\ session # NoSession /\ session.sid = peer.sid
      BY <1>2, <2>2
    <3>2. session \in Sessions
      BY <1>1, <3>1, Present
    <3> QED BY <2>2, <3>1, <3>2 DEF Sessions
  <2> QED BY <2>1, <2>2
<1> HIDE DEF clean
<1>5. /\ peer' \in Peers /\ peer'.queue = peer.queue /\ peer'.sid = peer.sid
      /\ peer'.reply = [clean |-> clean, next |-> session'.next]
      /\ peer'.reply \in Replies /\ peer'.reply.clean = clean /\ peer'.reply.next = session'.next
  <2>1. [clean |-> clean, next |-> session'.next] \in Replies
    BY <1>3, <1>4 DEF Replies
  <2> QED BY <1>1, <1>2, <2>1 DEF Peers
<1>6. Types'
  <2>1. applied' \in Seq(Nat)
    BY <1>1, <1>2 DEF Types
  <2> QED BY <1>1, <1>2, <1>4, <1>5, <2>1 DEF Types, Phases
<1>7. SidsOnce'
  BY <1>1, <1>2, <1>4, <1>5 DEF Steady, SidsOnce
<1>8. EventsInOrder' /\ SessionInStep'
  <2>1. CASE clean
    BY <1>4, <2>1 DEF EventsInOrder, SessionInStep
  <2>2. CASE ~clean
    BY <1>1, <1>2, <1>4, <2>2 DEF Steady, EventsInOrder, SessionInStep
  <2> QED BY <2>1, <2>2
<1>9. NothingUnderWay' /\ Streaming'
  BY <1>1, <1>2 DEF Steady, NothingUnderWay, Streaming
<1>10. Reconnecting'
  <2>1. Consecutive(peer.queue)
    BY <1>1 DEF Steady, Reconnecting
  <2>2. ~clean => Keeps(peer.queue, session.next)
    BY <1>1, <1>2, <1>4 DEF Steady, Reconnecting, SameSession
  <2> QED BY <1>2, <1>4, <1>5, <2>1, <2>2 DEF Reconnecting
<1> QED BY <1>6, <1>7, <1>8, <1>9, <1>10 DEF Inv

LEMMA Clears ==
  ASSUME Inv, initStreamClear
  PROVE  Inv'
<1>1. Types /\ Steady /\ peer \in Peers
  BY DEF Inv, Steady, Types, initStreamClear
<1>2. /\ UNCHANGED <<index, hook, shareGot, batch, up, down, session, inHand, applied, sids>>
      /\ phase = "hello" /\ phase' = "cleared" /\ peer.reply.clean
      /\ peer' = [peer EXCEPT !.queue = newEventQueue]
  BY DEF initStreamClear, local, stream, there, counts
<1>3. /\ peer' \in Peers /\ peer'.queue = newEventQueue
      /\ peer'.sid = peer.sid /\ peer'.reply = peer.reply
  BY <1>1, <1>2, NewQueue DEF Peers
<1>4. Types'
  BY <1>1, <1>2, <1>3 DEF Types, Phases
<1>5. SidsOnce' /\ EventsInOrder' /\ SessionInStep'
  BY <1>1, <1>2, <1>3 DEF Steady, SidsOnce, EventsInOrder, SessionInStep
<1>6. NothingUnderWay' /\ Streaming'
  BY <1>1, <1>2 DEF Steady, NothingUnderWay, Streaming
<1>7. Reconnecting'
  BY <1>1, <1>2, <1>3, NewQueue DEF Steady, Reconnecting
<1> QED BY <1>4, <1>5, <1>6, <1>7 DEF Inv

LEMMA Syncs ==
  ASSUME Inv, initStreamSync
  PROVE  Inv'
<1> DEFINE es == SetToSeq({[kind |-> "sub", t |-> t] : t \in Subscribed})
<1>1. Types /\ Steady /\ peer \in Peers
  BY DEF Inv, Steady, Types, initStreamSync
<1>2. /\ UNCHANGED <<index, hook, shareGot, batch, up, down, session, inHand, applied, sids>>
      /\ UNCHANGED <<stream, there, sids>>
      /\ phase = "cleared" /\ phase' = "synced"
      /\ peer' = [peer EXCEPT !.queue = addAll(@, es)]
  BY DEF initStreamSync, local, stream, there, counts
<1>3. es \in Seq(Events)
  <2>1. Subscribed \in SUBSET Topics
    BY DEF Subscribed
  <2> QED BY <2>1, TopicsListed, ChangesAreEvents, Zenon DEF Lists
<1> HIDE DEF es
<1>4. peer' \in Peers /\ Steady'
  BY <1>1, <1>2, <1>3, Adding
<1>5. Types'
  BY <1>1, <1>2, <1>4 DEF Types, Phases
<1> QED BY <1>4, <1>5 DEF Inv, Steady

LEMMA Opens ==
  ASSUME Inv, initStreamOpen
  PROVE  Inv'
<1>1. Types /\ Steady /\ peer \in Peers /\ session \in Sessions
  BY Present DEF Inv, Steady, Types, initStreamOpen
<1>2. /\ UNCHANGED <<index, hook, shareGot, session, inHand, applied, sids>>
      /\ inHand = None /\ batch' = <<>> /\ up' = <<>> /\ down' = <<>>
      /\ phase' = "stream" /\ (phase = "synced" \/ (phase = "hello" /\ ~peer.reply.clean))
      /\ peer' = [peer EXCEPT !.queue = setReadPosition(@, peer.reply.next)]
  BY DEF initStreamOpen, local, there, counts
<1> DEFINE q == peer.queue
<1> DEFINE s == setReadPosition(q, session.next)
<1>3. q \in Queues /\ Consecutive(q) /\ session.next \in Nat
      /\ session.sid = peer.sid /\ peer.reply.next = session.next
  BY <1>1, <1>2, PeerTypes DEF Steady, Reconnecting, Sessions
<1>4. Keeps(q, session.next)
  <2>1. CASE phase = "hello"
    BY <1>1, <1>2, <2>1 DEF Steady, Reconnecting
  <2>2. CASE phase = "synced"
    <3>1. Fresh(q) /\ session.next = 0
      BY <1>1, <2>2 DEF Steady, Reconnecting
    <3> HIDE DEF q
    <3>2. q.nextID \in Nat /\ Len(q.q) = q.nextID /\ q.nextRead = IF q.nextID = 0 THEN Nil ELSE 0
      BY <1>3, <3>1 DEF Fresh, Queues
    <3>3. Oldest(q) = 0
      BY <3>2 DEF Oldest
    <3> QED BY <3>1, <3>2, <3>3 DEF Keeps, Nil
  <2> QED BY <1>2, <2>1, <2>2
<1> HIDE DEF q
<1>5. /\ s \in Queues /\ s.q = q.q /\ s.nextID = q.nextID
      /\ IF session.next = q.nextID THEN s.nextRead = Nil ELSE s.nextRead = session.next
  BY <1>3, <1>4, QueueSeek
<1> HIDE DEF s
<1>6. peer' = [peer EXCEPT !.queue = s]
  BY <1>2, <1>3 DEF s, q
<1>7. /\ peer' \in Peers /\ peer'.queue = s
      /\ peer'.sid = peer.sid /\ peer'.reply = peer.reply
  BY <1>1, <1>5, <1>6 DEF Peers
<1>8. Types'
  <2>1. <<>> \in Seq(Queued) /\ <<>> \in Seq(Nat)
    OBVIOUS
  <2> QED BY <1>1, <1>2, <1>7, <2>1 DEF Types, Phases
<1>9. SidsOnce' /\ EventsInOrder' /\ SessionInStep'
  BY <1>1, <1>2, <1>7 DEF Steady, SidsOnce, EventsInOrder, SessionInStep
<1>10. NothingUnderWay' /\ SameSession'
  BY <1>1, <1>2, <1>3, <1>7 DEF NothingUnderWay, SameSession
<1>11. Consecutive(s) /\ Oldest(s) = Oldest(q)
  BY <1>3, <1>5 DEF Consecutive, Oldest
<1>12. Reconnecting'
  BY <1>2, <1>7, <1>11 DEF Reconnecting
<1>13. Streaming'
  <2>1. /\ StreamFrom' = session.next /\ Len(up') = 0 /\ Len(batch') = 0 /\ Len(down') = 0
    BY <1>2 DEF StreamFrom
  <2>2. Oldest(q) <= session.next /\ session.next <= q.nextID /\ q.nextID \in Nat
    BY <1>3, <1>4 DEF Keeps, Queues
  <2>3. IF s.nextRead = Nil THEN s.nextID = session.next
                            ELSE s.nextRead = session.next /\ s.nextRead < s.nextID
    BY <1>3, <1>5, <2>2 DEF Nil
  <2>4. session.next + 0 + 0 = session.next
    BY <1>3
  <2> QED BY <1>2, <1>7, <1>10, <1>11, <2>1, <2>2, <2>3, <2>4 DEF Streaming
<1> QED BY <1>8, <1>9, <1>10, <1>12, <1>13 DEF Inv

LEMMA OpenFails ==
  ASSUME Inv, initStreamFails
  PROVE  Inv'
<1>1. Types /\ Steady /\ session \notin Sessions
  BY Present DEF Inv, Steady, initStreamFails
<1>2. /\ UNCHANGED <<index, hook, shareGot, peer, batch, up, down, session, inHand, applied, sids>>
      /\ phase \in {"hello", "cleared", "synced"} /\ phase' = "connect"
  BY DEF initStreamFails, local, stream, there, counts
<1>3. Types'
  BY <1>1, <1>2 DEF Types, Phases
<1>4. SidsOnce' /\ EventsInOrder' /\ SessionInStep' /\ NothingUnderWay'
  BY <1>1, <1>2 DEF Steady, SidsOnce, EventsInOrder, SessionInStep, NothingUnderWay
<1>5. Reconnecting' /\ Streaming'
  BY <1>1, <1>2 DEF Steady, Reconnecting, Streaming, SameSession
<1> QED BY <1>3, <1>4, <1>5 DEF Inv

-----------------------------------------------------------------------------
(* The stream.                                                              *)

\* What holds while the stream is open, with the types of what it is about.
LEMMA OnStream ==
  ASSUME Inv, phase = "stream"
  PROVE  /\ Types /\ Steady /\ peer \in Peers /\ session \in Sessions
         /\ session.next \in Nat /\ session.seen \in Seq(Nat) /\ StreamFrom \in Nat
         /\ session.next <= StreamFrom
         /\ batch \in Seq(Queued) /\ up \in Seq(Queued) /\ down \in Seq(Nat) /\ applied \in Seq(Nat)
         /\ Len(batch) \in Nat /\ Len(up) \in Nat /\ Len(down) \in Nat /\ Len(applied) \in Nat
         /\ peer.queue \in Queues /\ Consecutive(peer.queue)
         /\ peer.queue.nextID \in Nat /\ peer.queue.nextRead \in Nat \cup {Nil}
         /\ Oldest(peer.queue) \in Int
<1>1. Types /\ Steady /\ peer \in Peers /\ session \in Sessions
  BY DEF Inv, Steady, Streaming, SameSession
<1>2. session.next \in Nat /\ session.seen \in Seq(Nat)
  BY <1>1 DEF Sessions
<1>3. StreamFrom \in Nat /\ session.next <= StreamFrom
  BY <1>2 DEF StreamFrom
<1>4. batch \in Seq(Queued) /\ up \in Seq(Queued) /\ down \in Seq(Nat) /\ applied \in Seq(Nat)
  BY <1>1 DEF Types
<1>5. Consecutive(peer.queue)
  BY <1>1 DEF Steady, Reconnecting
<1> QED BY <1>1, <1>2, <1>3, <1>4, <1>5, PeerTypes

LEMMA Fetches ==
  ASSUME Inv, fetchEvents
  PROVE  Inv'
<1> DEFINE q == peer.queue
<1> DEFINE f == Fetched(q)
<1>0. phase = "stream"
  BY DEF fetchEvents
<1>1. /\ UNCHANGED <<index, hook, shareGot, phase, up, down, session, inHand, applied, sids>>
      /\ batch = <<>> /\ q.nextRead # Nil /\ batch' = f.events
      /\ peer' = [peer EXCEPT !.queue = f.queue]
  BY DEF fetchEvents, local, there, counts
<1>2. /\ Types /\ Steady /\ peer \in Peers /\ StreamFrom \in Nat /\ Len(up) \in Nat
      /\ q \in Queues /\ Consecutive(q) /\ session.next \in Nat /\ session.next <= StreamFrom
      /\ Oldest(q) \in Int
  BY <1>0, OnStream
<1>3. Oldest(q) <= session.next /\ q.nextRead = StreamFrom + Len(up) /\ q.nextRead < q.nextID
  <2>1. Len(batch) = 0
    BY <1>1
  <2>2. StreamFrom + Len(up) + 0 = StreamFrom + Len(up)
    BY <1>2
  <2>3. Oldest(q) <= session.next /\ q.nextRead = StreamFrom + Len(up) + Len(batch) /\ q.nextRead < q.nextID
    BY <1>0, <1>1, <1>2 DEF Steady, Streaming
  <2> QED BY <2>1, <2>2, <2>3
<1> HIDE DEF q
<1>4. Oldest(q) <= q.nextRead
  BY <1>2, <1>3
<1>5. /\ f.events \in Seq(Queued) /\ f.queue \in Queues
      /\ f.queue.q = q.q /\ f.queue.nextID = q.nextID
      /\ \A i \in 1..Len(f.events) : f.events[i].id = q.nextRead + (i - 1)
      /\ \/ f.queue.nextRead = Nil /\ q.nextRead + Len(f.events) = q.nextID
         \/ f.queue.nextRead = q.nextRead + Len(f.events) /\ f.queue.nextRead < q.nextID
  BY <1>1, <1>2, <1>3, <1>4, QueueFetch
<1> HIDE DEF f
<1>6. /\ peer' \in Peers /\ peer'.queue = f.queue
      /\ peer'.sid = peer.sid /\ peer'.reply = peer.reply
  BY <1>1, <1>2, <1>5 DEF Peers
<1>7. Types'
  BY <1>1, <1>2, <1>5, <1>6 DEF Types
<1>8. SidsOnce' /\ EventsInOrder' /\ SessionInStep'
  BY <1>1, <1>2, <1>6 DEF Steady, SidsOnce, EventsInOrder, SessionInStep
<1>9. NothingUnderWay' /\ SameSession'
  BY <1>0, <1>1, <1>2, <1>6 DEF Steady, NothingUnderWay, Streaming, SameSession
<1>10. Consecutive(f.queue) /\ Oldest(f.queue) = Oldest(q)
  BY <1>2, <1>5 DEF Consecutive, Oldest
<1>11. Reconnecting'
  BY <1>0, <1>1, <1>6, <1>10 DEF Reconnecting
<1>12. Streaming'
  <2>1. StreamFrom' = StreamFrom
    BY <1>1 DEF StreamFrom
  <2>2. \A i \in 1..Len(batch') : batch'[i].id = StreamFrom + Len(up) + (i - 1)
    BY <1>1, <1>3, <1>5
  <2>3. IF f.queue.nextRead = Nil
        THEN f.queue.nextID = StreamFrom + Len(up) + Len(batch')
        ELSE /\ f.queue.nextRead = StreamFrom + Len(up) + Len(batch')
             /\ f.queue.nextRead < f.queue.nextID
    <3>1. Len(f.events) \in Nat /\ q.nextRead \in Nat
      BY <1>2, <1>3, <1>5
    <3> QED BY <1>1, <1>3, <1>5, <3>1 DEF Nil
  <2>4. /\ inHand # None => inHand.id = session.next /\ session.next + 1 = Len(applied)
        /\ \A i \in 1..Len(up) : up[i].id = StreamFrom + (i - 1)
        /\ \A i \in 1..Len(down) : down[i] < session.next
    BY <1>0, <1>2 DEF Steady, Streaming
  <2> QED BY <1>1, <1>3, <1>6, <1>9, <1>10, <2>1, <2>2, <2>3, <2>4 DEF Streaming
<1> QED BY <1>7, <1>8, <1>9, <1>11, <1>12 DEF Inv

LEMMA Sends ==
  ASSUME Inv, send
  PROVE  Inv'
<1>0. phase = "stream"
  BY DEF send
<1>1. /\ UNCHANGED <<index, hook, shareGot, peer, phase, down, session, inHand, applied, sids>>
      /\ batch # <<>> /\ up' = Append(up, Head(batch)) /\ batch' = Tail(batch)
  BY DEF send, local, there, counts
<1>2. /\ Types /\ Steady /\ peer \in Peers /\ StreamFrom \in Nat
      /\ batch \in Seq(Queued) /\ up \in Seq(Queued) /\ Len(up) \in Nat /\ Len(batch) \in Nat
  BY <1>0, OnStream
<1>3. /\ batch' \in Seq(Queued) /\ up' \in Seq(Queued) /\ Head(batch) = batch[1] /\ Len(batch) >= 1
      /\ Len(up') = Len(up) + 1 /\ Len(batch') = Len(batch) - 1
      /\ \A i \in 1..Len(up) : up'[i] = up[i]
      /\ up'[Len(up) + 1] = batch[1]
      /\ \A i \in 1..(Len(batch) - 1) : batch'[i] = batch[i + 1]
  BY <1>1, <1>2
<1>4. Types'
  BY <1>1, <1>2, <1>3 DEF Types
<1>5. SidsOnce' /\ EventsInOrder' /\ SessionInStep'
  BY <1>1, <1>2 DEF Steady, SidsOnce, EventsInOrder, SessionInStep
<1>6. NothingUnderWay' /\ SameSession'
  BY <1>0, <1>1, <1>2 DEF Steady, NothingUnderWay, Streaming, SameSession
<1>7. Reconnecting'
  BY <1>0, <1>1, <1>2 DEF Steady, Reconnecting
<1>8. Streaming'
  <2>1. StreamFrom' = StreamFrom
    BY <1>1 DEF StreamFrom
  <2>2. /\ \A i \in 1..Len(up) : up[i].id = StreamFrom + (i - 1)
        /\ \A i \in 1..Len(batch) : batch[i].id = StreamFrom + Len(up) + (i - 1)
    BY <1>0, <1>2 DEF Steady, Streaming
  <2>3. \A i \in 1..Len(up') : up'[i].id = StreamFrom + (i - 1)
    <3>1. batch[1].id = StreamFrom + Len(up)
      BY <1>2, <1>3, <2>2
    <3>2. TAKE i \in 1..Len(up')
    <3>3. CASE i \in 1..Len(up)
      BY <1>3, <2>2, <3>3
    <3>4. CASE i = Len(up) + 1
      BY <1>2, <1>3, <3>1, <3>4
    <3> QED BY <1>2, <1>3, <3>3, <3>4
  <2>4. ASSUME NEW i \in 1..Len(batch') PROVE batch'[i].id = StreamFrom + Len(up') + (i - 1)
    <3>1. i \in 1..(Len(batch) - 1) /\ i + 1 \in 1..Len(batch) /\ i \in Int
      BY <1>2, <1>3
    <3>2. batch'[i].id = StreamFrom + Len(up) + ((i + 1) - 1)
      BY <1>3, <2>2, <3>1
    <3> QED BY <1>2, <1>3, <3>1, <3>2
  <2>5. StreamFrom + Len(up') + Len(batch') = StreamFrom + Len(up) + Len(batch)
    BY <1>2, <1>3
  <2>6. /\ inHand # None => inHand.id = session.next /\ session.next + 1 = Len(applied)
        /\ Oldest(peer.queue) <= session.next
        /\ IF peer.queue.nextRead = Nil
           THEN peer.queue.nextID = StreamFrom + Len(up) + Len(batch)
           ELSE /\ peer.queue.nextRead = StreamFrom + Len(up) + Len(batch)
                /\ peer.queue.nextRead < peer.queue.nextID
        /\ \A i \in 1..Len(down) : down[i] < session.next
    BY <1>0, <1>2 DEF Steady, Streaming
  <2> QED BY <1>1, <1>6, <2>1, <2>3, <2>4, <2>5, <2>6 DEF Streaming
<1> QED BY <1>4, <1>5, <1>6, <1>7, <1>8 DEF Inv

LEMMA ReceivesAck ==
  ASSUME Inv, recvAck
  PROVE  Inv'
<1> DEFINE q == peer.queue
<1> DEFINE a == ack(q, Head(down))
<1>0. phase = "stream"
  BY DEF recvAck
<1>1. /\ UNCHANGED <<index, hook, shareGot, phase, batch, up, session, inHand, applied, sids>>
      /\ down # <<>> /\ down' = Tail(down) /\ peer' = [peer EXCEPT !.queue = a]
  BY DEF recvAck, local, there, counts
<1>2. /\ Types /\ Steady /\ peer \in Peers /\ q \in Queues /\ Consecutive(q)
      /\ session.next \in Nat /\ down \in Seq(Nat) /\ Len(down) \in Nat /\ Oldest(q) \in Int
  BY <1>0, OnStream
<1>3. /\ down' \in Seq(Nat) /\ Head(down) = down[1] /\ 1 \in 1..Len(down) /\ down[1] \in Nat
      /\ Len(down') = Len(down) - 1
      /\ \A i \in 1..(Len(down) - 1) : down'[i] = down[i + 1]
  BY <1>1, <1>2
<1>4. /\ \A i \in 1..Len(down) : down[i] < session.next
      /\ Oldest(q) <= session.next
      /\ inHand # None => inHand.id = session.next /\ session.next + 1 = Len(applied)
      /\ \A i \in 1..Len(up) : up[i].id = StreamFrom + (i - 1)
      /\ \A i \in 1..Len(batch) : batch[i].id = StreamFrom + Len(up) + (i - 1)
      /\ IF q.nextRead = Nil
         THEN q.nextID = StreamFrom + Len(up) + Len(batch)
         ELSE q.nextRead = StreamFrom + Len(up) + Len(batch) /\ q.nextRead < q.nextID
  BY <1>0, <1>2 DEF Steady, Streaming
<1> HIDE DEF q
<1>5. /\ a \in Queues /\ Consecutive(a) /\ a.nextID = q.nextID /\ a.nextRead = q.nextRead
      /\ Oldest(a) = Oldest(q) \/ Oldest(a) <= down[1] + 1
  BY <1>2, <1>3, QueueAck
<1> HIDE DEF a
<1>6. Oldest(a) <= session.next
  <2>1. down[1] < session.next
    BY <1>3, <1>4
  <2>2. Oldest(a) \in Int
    BY <1>5 DEF Oldest, Queues
  <2> QED BY <1>2, <1>3, <1>4, <1>5, <2>1, <2>2
<1>7. /\ peer' \in Peers /\ peer'.queue = a
      /\ peer'.sid = peer.sid /\ peer'.reply = peer.reply
  BY <1>1, <1>2, <1>5 DEF Peers
<1>8. Types'
  BY <1>1, <1>2, <1>3, <1>7 DEF Types
<1>9. SidsOnce' /\ EventsInOrder' /\ SessionInStep'
  BY <1>1, <1>2, <1>7 DEF Steady, SidsOnce, EventsInOrder, SessionInStep
<1>10. NothingUnderWay' /\ SameSession'
  BY <1>0, <1>1, <1>2, <1>7 DEF Steady, NothingUnderWay, Streaming, SameSession
<1>11. Reconnecting'
  BY <1>0, <1>1, <1>5, <1>7 DEF Reconnecting
<1>12. Streaming'
  <2>1. StreamFrom' = StreamFrom
    BY <1>1 DEF StreamFrom
  <2>2. ASSUME NEW i \in 1..Len(down') PROVE down'[i] < session.next
    <3>1. i \in 1..(Len(down) - 1) /\ i + 1 \in 1..Len(down)
      BY <1>2, <1>3
    <3> QED BY <1>3, <1>4, <3>1
  <2> QED BY <1>1, <1>4, <1>5, <1>6, <1>7, <1>10, <2>1, <2>2 DEF Streaming
<1> QED BY <1>8, <1>9, <1>10, <1>11, <1>12 DEF Inv

\* An id put into the cache of seen events is its last one.
LEMMA SeenLast ==
  ASSUME NEW r \in Seq(Nat), NEW x \in Nat, NEW m \in Nat, x <= m,
         \A i \in 1..Len(r) : r[i] < m, NEW s, s = Append(r, x)
  PROVE  s \in Seq(Nat) /\ s # <<>> /\ s[Len(s)] = x /\ \A i \in 1..Len(s) : s[i] < m + 1
<1>1. s \in Seq(Nat) /\ Len(s) = Len(r) + 1 /\ s[Len(r) + 1] = x /\ Len(r) \in Nat
      /\ \A i \in 1..Len(r) : s[i] = r[i] /\ r[i] \in Nat
  OBVIOUS
<1>2. ASSUME NEW i \in 1..Len(s) PROVE s[i] < m + 1
  <2>1. CASE i \in 1..Len(r)
    BY <1>1, <2>1
  <2>2. CASE i = Len(r) + 1
    BY <1>1, <2>2
  <2> QED BY <1>1, <2>1, <2>2
<1>3. s # <<>>
  BY <1>1
<1> QED BY <1>1, <1>2, <1>3

\* The event that arrives is the one expected: it is applied, or it is the one applied
\* before the stream broke and still the last in the cache.
LEMMA Applies ==
  ASSUME Inv, eventStreamHandler
  PROVE  Inv'
<1> DEFINE id == up[1].id
<1>0. phase = "stream"
  BY DEF Inv, NothingUnderWay, eventStreamHandler
<1>1. /\ UNCHANGED <<index, hook, peer, phase, batch, down, sids>>
      /\ up # <<>> /\ inHand = None /\ up' = Tail(up) /\ inHand' = [id |-> id]
  BY DEF eventStreamHandler, local, counts
<1>2. /\ Types /\ Steady /\ peer \in Peers /\ session \in Sessions
      /\ session.next \in Nat /\ session.seen \in Seq(Nat)
      /\ up \in Seq(Queued) /\ Len(up) \in Nat /\ Len(batch) \in Nat
      /\ applied \in Seq(Nat) /\ Len(applied) \in Nat
  BY <1>0, OnStream
<1>3. /\ up' \in Seq(Queued) /\ Len(up') = Len(up) - 1 /\ 1 \in 1..Len(up)
      /\ \A i \in 1..(Len(up) - 1) : up'[i] = up[i + 1]
  BY <1>1, <1>2
<1>4. StreamFrom = session.next
  BY <1>1 DEF StreamFrom
<1>5. /\ \A i \in 1..Len(up) : up[i].id = session.next + (i - 1)
      /\ \A i \in 1..Len(batch) : batch[i].id = session.next + Len(up) + (i - 1)
      /\ SameSession /\ Oldest(peer.queue) <= session.next
      /\ IF peer.queue.nextRead = Nil
         THEN peer.queue.nextID = session.next + Len(up) + Len(batch)
         ELSE /\ peer.queue.nextRead = session.next + Len(up) + Len(batch)
              /\ peer.queue.nextRead < peer.queue.nextID
      /\ \A i \in 1..Len(down) : down[i] < session.next
  BY <1>0, <1>2, <1>4 DEF Steady, Streaming
<1>6. id = session.next
  BY <1>2, <1>3, <1>5
<1> HIDE DEF id
<1>7. /\ session' \in Sessions /\ session'.next = session.next /\ session'.sid = session.sid
      /\ applied' \in Seq(Nat) /\ Len(applied') = session.next + 1
      /\ EventsInOrder' /\ SessionInStep'
  <2>0. /\ \A i \in 1..Len(session.seen) : session.seen[i] < Len(applied)
        /\ \/ session.next = Len(applied)
           \/ /\ session.next + 1 = Len(applied) /\ session.seen # <<>>
              /\ session.seen[Len(session.seen)] = session.next
    BY <1>2 DEF Steady, SessionInStep
  <2>1. CASE Contains(session.seen, id)
    <3>1. session' = session /\ applied' = applied
      BY <2>1 DEF eventStreamHandler, id
    <3>2. \E i \in 1..Len(session.seen) : session.seen[i] = id
      BY <2>1 DEF Contains
    <3>3. session.next < Len(applied)
      BY <1>6, <2>0, <3>2
    <3>4. Len(applied) = session.next + 1
      BY <1>2, <2>0, <3>3
    <3> QED BY <1>2, <3>1, <3>4 DEF Steady, EventsInOrder, SessionInStep
  <2>2. CASE ~Contains(session.seen, id)
    <3>1. session' = [session EXCEPT !.seen = Seen(@, id)] /\ applied' = Append(applied, id)
      BY <2>2 DEF eventStreamHandler, id
    <3>2. session.next = Len(applied)
      <4>1. \A i \in 1..Len(session.seen) : session.seen[i] # id
        BY <2>2 DEF Contains
      <4>2. session.seen # <<>> => Len(session.seen) \in 1..Len(session.seen)
        BY <1>2
      <4> QED BY <1>6, <2>0, <4>1, <4>2
    <3>3. PICK s : s = Seen(session.seen, id)
      OBVIOUS
    <3>4. /\ s \in Seq(Nat) /\ s # <<>> /\ s[Len(s)] = id
          /\ \A i \in 1..Len(s) : s[i] < Len(applied) + 1
      <4>1. SeenSize \in Nat /\ SeenSize >= 1 /\ id \in Nat /\ id <= Len(applied)
        BY <1>2, <1>6, <3>2, FederationSizes
      <4>2. CASE Len(session.seen) = SeenSize
        <5>1. s = Append(Tail(session.seen), id)
          BY <3>3, <4>2 DEF Seen
        <5>2. /\ Tail(session.seen) \in Seq(Nat)
              /\ \A i \in 1..Len(Tail(session.seen)) : /\ i + 1 \in 1..Len(session.seen)
                                                       /\ Tail(session.seen)[i] = session.seen[i + 1]
          BY <1>2, <4>1, <4>2
        <5>3. PICK r \in Seq(Nat) : r = Tail(session.seen)
          BY <5>2
        <5>4. \A i \in 1..Len(r) : r[i] < Len(applied)
          BY <2>0, <5>2, <5>3
        <5> QED BY <1>2, <4>1, <5>1, <5>3, <5>4, SeenLast
      <4>3. CASE Len(session.seen) # SeenSize
        <5>1. s = Append(session.seen, id)
          BY <3>3, <4>3 DEF Seen
        <5>2. PICK r \in Seq(Nat) : r = session.seen
          BY <1>2
        <5>3. \A i \in 1..Len(r) : r[i] < Len(applied)
          BY <2>0, <5>2
        <5> QED BY <1>2, <4>1, <5>1, <5>2, <5>3, SeenLast
      <4> QED BY <4>2, <4>3
    <3>5. session' = [session EXCEPT !.seen = s]
      BY <3>1, <3>3
    <3>6. /\ session' \in Sessions /\ session'.next = session.next /\ session'.sid = session.sid
          /\ session'.seen = s
      BY <1>2, <3>4, <3>5 DEF Sessions
    <3>7. /\ applied' \in Seq(Nat) /\ Len(applied') = Len(applied) + 1
          /\ applied'[Len(applied) + 1] = id
          /\ \A i \in 1..Len(applied) : applied'[i] = applied[i]
      BY <1>2, <1>6, <3>1
    <3>8. EventsInOrder'
      <4>1. \A i \in 1..Len(applied) : applied[i] = i - 1
        BY <1>2 DEF Steady, EventsInOrder
      <4>2. ASSUME NEW i \in 1..(Len(applied) + 1) PROVE applied'[i] = i - 1
        <5>1. CASE i \in 1..Len(applied)
          BY <3>7, <4>1, <5>1
        <5>2. CASE i = Len(applied) + 1
          BY <1>2, <1>6, <3>2, <3>7, <5>2
        <5> QED BY <1>2, <5>1, <5>2
      <4> QED BY <3>7, <4>2 DEF EventsInOrder
    <3>9. SessionInStep'
      BY <1>6, <3>2, <3>4, <3>6, <3>7 DEF SessionInStep
    <3> QED BY <3>2, <3>6, <3>7, <3>8, <3>9
  <2> QED BY <2>1, <2>2
<1>8. shareGot' \in Seq(Nat)
  <2>1. shareGot \in Seq(Nat)
    BY <1>2 DEF Types
  <2>2. shareGot' = shareGot \/ \E n : shareGot' = [shareGot EXCEPT ![n] = @ + 1]
    BY DEF eventStreamHandler
  <2> QED BY <2>1, <2>2
<1>9. inHand' \in [id : Nat] /\ inHand' # None /\ inHand'.id = session.next
  BY <1>1, <1>2, <1>6, NoneIsNothing
<1>10. Types'
  BY <1>1, <1>2, <1>3, <1>7, <1>8, <1>9 DEF Types
<1>11. SidsOnce' /\ SameSession'
  BY <1>1, <1>2, <1>5, <1>7 DEF Steady, SidsOnce, SameSession
<1>12. NothingUnderWay' /\ Reconnecting'
  BY <1>0, <1>1, <1>2 DEF Steady, NothingUnderWay, Reconnecting
<1>13. Streaming'
  <2>1. StreamFrom' = session.next + 1
    BY <1>7, <1>9 DEF StreamFrom
  <2>2. ASSUME NEW i \in 1..Len(up') PROVE up'[i].id = (session.next + 1) + (i - 1)
    <3>1. i \in 1..(Len(up) - 1) /\ i + 1 \in 1..Len(up) /\ i \in Int
      BY <1>2, <1>3
    <3>2. up'[i].id = session.next + ((i + 1) - 1)
      BY <1>3, <1>5, <3>1
    <3> QED BY <1>2, <3>1, <3>2
  <2>3. (session.next + 1) + Len(up') = session.next + Len(up)
    BY <1>2, <1>3
  <2> QED BY <1>1, <1>5, <1>7, <1>9, <1>11, <2>1, <2>2, <2>3 DEF Streaming
<1> QED BY <1>7, <1>10, <1>11, <1>12, <1>13 DEF Inv

LEMMA Acknowledges ==
  ASSUME Inv, ackSent
  PROVE  Inv'
<1>0. phase = "stream"
  BY DEF Inv, NothingUnderWay, ackSent
<1>1. /\ UNCHANGED <<index, hook, shareGot, peer, phase, batch, up, applied, sids>>
      /\ inHand # None /\ inHand' = None /\ down' = Append(down, inHand.id)
      /\ session' = [session EXCEPT !.next = inHand.id + 1]
  BY <1>0 DEF ackSent, local, counts
<1>2. /\ Types /\ Steady /\ peer \in Peers /\ session \in Sessions
      /\ session.next \in Nat /\ session.seen \in Seq(Nat)
      /\ down \in Seq(Nat) /\ Len(down) \in Nat /\ Len(applied) \in Nat
      /\ Oldest(peer.queue) \in Int
  BY <1>0, OnStream
<1>3. StreamFrom = session.next + 1
  BY <1>1 DEF StreamFrom
<1>4. /\ inHand.id = session.next /\ session.next + 1 = Len(applied)
      /\ \A i \in 1..Len(up) : up[i].id = StreamFrom + (i - 1)
      /\ \A i \in 1..Len(batch) : batch[i].id = StreamFrom + Len(up) + (i - 1)
      /\ SameSession /\ Oldest(peer.queue) <= session.next
      /\ IF peer.queue.nextRead = Nil
         THEN peer.queue.nextID = StreamFrom + Len(up) + Len(batch)
         ELSE /\ peer.queue.nextRead = StreamFrom + Len(up) + Len(batch)
              /\ peer.queue.nextRead < peer.queue.nextID
      /\ \A i \in 1..Len(down) : down[i] < session.next
  BY <1>0, <1>1, <1>2 DEF Steady, Streaming
<1>5. /\ session' \in Sessions /\ session'.next = session.next + 1
      /\ session'.sid = session.sid /\ session'.seen = session.seen
  <2>1. session.next + 1 \in Nat
    BY <1>2
  <2> QED BY <1>1, <1>2, <1>4, <2>1 DEF Sessions
<1>6. StreamFrom' = StreamFrom
  BY <1>1, <1>3, <1>5 DEF StreamFrom
<1>7. /\ down' \in Seq(Nat) /\ Len(down') = Len(down) + 1 /\ down'[Len(down) + 1] = session.next
      /\ \A i \in 1..Len(down) : down'[i] = down[i] /\ down[i] \in Nat
  BY <1>1, <1>2, <1>4
<1>8. Types'
  BY <1>1, <1>2, <1>5, <1>7 DEF Types
<1>9. SidsOnce' /\ SameSession' /\ EventsInOrder'
  BY <1>1, <1>2, <1>4, <1>5 DEF Steady, SidsOnce, SameSession, EventsInOrder
<1>10. SessionInStep'
  BY <1>1, <1>2, <1>4, <1>5 DEF Steady, SessionInStep
<1>11. NothingUnderWay' /\ Reconnecting'
  BY <1>0, <1>1, <1>2 DEF Steady, NothingUnderWay, Reconnecting
<1>12. Streaming'
  <2>1. ASSUME NEW i \in 1..Len(down') PROVE down'[i] < session.next + 1
    <3>1. CASE i \in 1..Len(down)
      BY <1>2, <1>4, <1>7, <3>1
    <3>2. CASE i = Len(down) + 1
      BY <1>2, <1>7, <3>2
    <3> QED BY <1>2, <1>7, <3>1, <3>2
  <2>2. Oldest(peer.queue) <= session.next + 1
    BY <1>2, <1>4
  <2> QED BY <1>1, <1>4, <1>5, <1>6, <1>9, <2>1, <2>2 DEF Streaming
<1> QED BY <1>8, <1>9, <1>10, <1>11, <1>12 DEF Inv

-----------------------------------------------------------------------------
(* Faults.                                                                  *)

\* A broken stream leaves the receiver with an expected event that the queue still has.
LEMMA StreamKeeps ==
  ASSUME Inv, phase = "stream"
  PROVE  Keeps(peer.queue, session.next)
<1>1. /\ Types /\ Steady /\ StreamFrom \in Nat /\ session.next \in Nat /\ session.next <= StreamFrom
      /\ Len(up) \in Nat /\ Len(batch) \in Nat /\ peer.queue.nextID \in Nat
  BY OnStream
<1>2. PICK end \in Nat : end = StreamFrom + Len(up) + Len(batch)
  BY <1>1
<1>3. session.next <= end
  BY <1>1, <1>2
<1>4. /\ Oldest(peer.queue) <= session.next
      /\ IF peer.queue.nextRead = Nil THEN peer.queue.nextID = end
         ELSE peer.queue.nextRead = end /\ peer.queue.nextRead < peer.queue.nextID
  BY <1>1, <1>2 DEF Steady, Streaming
<1> QED BY <1>1, <1>3, <1>4 DEF Keeps

LEMMA Breaks ==
  ASSUME Inv, streamBreaks
  PROVE  Inv'
<1>0. phase = "stream"
  BY DEF streamBreaks
<1>1. /\ UNCHANGED <<index, hook, shareGot, peer, session, applied, sids>>
      /\ batch' = <<>> /\ up' = <<>> /\ down' = <<>> /\ inHand' = None
      /\ phase' \in {"connect", "ended"}
  BY DEF streamBreaks, Broken, local
<1>2. Types /\ Steady /\ peer \in Peers
  BY <1>0, OnStream
<1>3. Types'
  <2>1. <<>> \in Seq(Queued) /\ <<>> \in Seq(Nat)
    OBVIOUS
  <2> QED BY <1>1, <1>2, <2>1 DEF Types, Phases
<1>4. SidsOnce' /\ EventsInOrder' /\ SessionInStep'
  BY <1>1, <1>2 DEF Steady, SidsOnce, EventsInOrder, SessionInStep
<1>5. NothingUnderWay' /\ Streaming'
  BY <1>1 DEF NothingUnderWay, Streaming
<1>6. Reconnecting'
  BY <1>0, <1>1, <1>2, StreamKeeps DEF Steady, Reconnecting
<1> QED BY <1>3, <1>4, <1>5, <1>6 DEF Inv

LEMMA FailsHere ==
  ASSUME Inv, nodeFailHere \/ restartHere
  PROVE  Inv'
<1>1. /\ UNCHANGED <<shareGot, session, applied, sids>>
      /\ peer' = NoPeer /\ phase' = "none"
      /\ batch' = <<>> /\ up' = <<>> /\ down' = <<>> /\ inHand' = None
  BY DEF nodeFailHere, restartHere, Broken
<1>2. Types /\ Steady
  BY DEF Inv, Steady
<1>3. index' \in [Clients -> SUBSET Topics] /\ hook' \in [Clients -> Seq(Changes)]
  <2>1. CASE nodeFailHere
    BY <1>2, <2>1 DEF nodeFailHere, local, Types
  <2>2. CASE restartHere
    BY <2>2 DEF restartHere
  <2> QED BY <2>1, <2>2
<1>4. Types'
  <2>1. <<>> \in Seq(Queued) /\ <<>> \in Seq(Nat)
    OBVIOUS
  <2> QED BY <1>1, <1>2, <1>3, <2>1 DEF Types, Phases
<1>5. peer' \notin Peers
  BY <1>1, NoneIsNothing DEF NoPeer
<1>6. SidsOnce' /\ EventsInOrder' /\ SessionInStep'
  BY <1>1, <1>2, <1>5 DEF Steady, SidsOnce, EventsInOrder, SessionInStep
<1>7. NothingUnderWay' /\ Streaming' /\ Reconnecting'
  BY <1>1, <1>5 DEF NothingUnderWay, Streaming, Reconnecting
<1> QED BY <1>4, <1>6, <1>7 DEF Inv

LEMMA FailsThere ==
  ASSUME Inv, nodeFailThere
  PROVE  Inv'
<1>1. /\ UNCHANGED <<index, hook, shareGot, peer, sids>>
      /\ session' = NoSession /\ applied' = <<>> /\ inHand' = None
      /\ batch' = <<>> /\ up' = <<>> /\ down' = <<>>
      /\ phase' = IF phase = "stream" THEN "connect" ELSE phase
  BY DEF nodeFailThere, Broken, local
<1>2. Types /\ Steady
  BY DEF Inv, Steady
<1>3. Types'
  <2>1. <<>> \in Seq(Queued) /\ <<>> \in Seq(Nat)
    OBVIOUS
  <2> QED BY <1>1, <1>2, <2>1 DEF Types, Phases
<1>4. session' \notin Sessions
  BY <1>1, NoneIsNothing DEF NoSession
<1>5. SidsOnce' /\ EventsInOrder' /\ SessionInStep'
  BY <1>1, <1>2, <1>4 DEF Steady, SidsOnce, EventsInOrder, SessionInStep
<1>6. NothingUnderWay' /\ Streaming'
  BY <1>1 DEF NothingUnderWay, Streaming
<1>7. Reconnecting'
  BY <1>1, <1>2, <1>4 DEF Steady, Reconnecting, SameSession
<1> QED BY <1>3, <1>5, <1>6, <1>7 DEF Inv

LEMMA JoinsThere ==
  ASSUME Inv, nodeJoinThere \/ UNCHANGED vars
  PROVE  Inv'
<1>1. UNCHANGED <<index, hook, shareGot, peer, phase, batch, up, down, session, inHand, applied, sids>>
  BY DEF nodeJoinThere, vars, local, stream, there, counts
<1>2. Types /\ Steady
  BY DEF Inv, Steady
<1>3. Types'
  BY <1>1, <1>2 DEF Types
<1>4. Steady'
  BY <1>1, <1>2, Untouched
<1> QED BY <1>3, <1>4 DEF Inv, Steady

LEMMA Initially ==
  ASSUME Init
  PROVE  Inv
<1>1. /\ peer = NoPeer /\ session = NoSession /\ inHand = None /\ phase = "none"
      /\ batch = <<>> /\ up = <<>> /\ down = <<>> /\ applied = <<>> /\ shareGot = <<>> /\ sids = 0
  BY DEF Init
<1>2. peer \notin Peers /\ session \notin Sessions
  BY <1>1, NoneIsNothing DEF NoPeer, NoSession
<1>3. index \in [Clients -> SUBSET Topics] /\ hook \in [Clients -> Seq(Changes)]
  BY DEF Init, InitLocal
<1>4. Types
  <2>1. <<>> \in Seq(Queued) /\ <<>> \in Seq(Nat)
    OBVIOUS
  <2> QED BY <1>1, <1>3, <2>1 DEF Types, Phases
<1>5. EventsInOrder /\ SidsOnce /\ SessionInStep
  BY <1>1, <1>2 DEF EventsInOrder, SidsOnce, SessionInStep
<1>6. NothingUnderWay /\ Reconnecting /\ Streaming
  BY <1>1, <1>2 DEF NothingUnderWay, Reconnecting, Streaming
<1> QED BY <1>4, <1>5, <1>6 DEF Inv

-----------------------------------------------------------------------------

\* The invariant holds in every reachable state, when no answer to Hello is lost: after a lost
\* one There has made a new session, takes the next Hello for the same one and answers that it
\* is not clean, so Here keeps a queue whose ids need not start at 0.
THEOREM Invariance ==
  ASSUME ~HelloReplyLost
  PROVE  Spec => []Inv
<1>1. Init => Inv
  BY Initially
<1>2. Inv /\ [Next]_vars => Inv'
  <2> SUFFICES ASSUME Inv, [Next]_vars PROVE Inv'
    OBVIOUS
  <2>1. ASSUME NEW c \in Clients,
               (\E t \in Topics : OnSubscribed(c, t) \/ OnUnsubscribed(c, t)) \/ OnSessionTerminated(c)
        PROVE  Inv'
    BY <2>1, Hooks
  <2>2. ASSUME NEW kind \in MsgKinds, sendMessage(kind) PROVE Inv'
    BY <2>2, Messages
  <2>3. ASSUME NEW c \in Clients, Broadcast(c) PROVE Inv'
    BY <2>3, Broadcasts
  <2>4. CASE nodeJoinHere
    BY <2>4, JoinsHere
  <2>5. CASE nodeJoinThere \/ UNCHANGED vars
    BY <2>5, JoinsThere
  <2>6. CASE Hello
    BY <2>6, Helloes
  <2>7. CASE initStreamClear
    BY <2>7, Clears
  <2>8. CASE initStreamSync
    BY <2>8, Syncs
  <2>9. CASE initStreamOpen
    BY <2>9, Opens
  <2>10. CASE initStreamFails
    BY <2>10, OpenFails
  <2>11. CASE fetchEvents
    BY <2>11, Fetches
  <2>12. CASE send
    BY <2>12, Sends
  <2>13. CASE recvAck
    BY <2>13, ReceivesAck
  <2>14. CASE eventStreamHandler
    BY <2>14, Applies
  <2>15. CASE ackSent
    BY <2>15, Acknowledges
  <2>16. CASE streamBreaks
    BY <2>16, Breaks
  <2>17. CASE nodeFailHere \/ restartHere
    BY <2>17, FailsHere
  <2>18. CASE nodeFailThere
    BY <2>18, FailsThere
  <2> QED
    BY <2>1, <2>2, <2>3, <2>4, <2>5, <2>6, <2>7, <2>8, <2>9, <2>10, <2>11, <2>12, <2>13,
       <2>14, <2>15, <2>16, <2>17, <2>18, Zenon DEF Next, Work, Faults
<1> QED BY <1>1, <1>2, PTL DEF Spec

\* Within a session the receiving node applies the events 0, 1, 2, ... each once and in order,
\* whatever streams break and whichever node fails or restarts (eventStreamHandler, EventStream).
THEOREM AppliedInOrder ==
  ASSUME ~HelloReplyLost
  PROVE  Spec => []EventsInOrder
<1>1. Inv => EventsInOrder
  BY DEF Inv
<1> QED BY <1>1, Invariance, PTL

-----------------------------------------------------------------------------
(* A share group is given a message once.                                   *)

\* What is on its way to the receiver.
OnTheWay == {up[i] : i \in 1..Len(up)} \cup {batch[i] : i \in 1..Len(batch)}

\* The session that the queue is kept for, unless Here is about to empty it.
Current == SameSession /\ ~(phase = "hello" /\ peer.reply.clean)

IsMsg(x) == x.e.kind = "msg"

\* Every message is queued once.
QueuedOnce ==
  peer \in Peers =>
    /\ \A x \in Entries(peer.queue) : IsMsg(x) => x.e.n \in 1..Len(shareGot)
    /\ \A x, y \in Entries(peer.queue) : IsMsg(x) /\ IsMsg(y) /\ x.e.n = y.e.n => x = y

\* A message for the share group There that has not been applied was not given to a member Here,
\* nor There in an earlier session.
NotYetGiven ==
  Current =>
    \A x \in Entries(peer.queue) :
      IsMsg(x) /\ x.e.rs /\ x.id >= Len(applied) => shareGot[x.e.n] = 0

\* What is on its way is still in the queue.
WayFromQueue == phase = "stream" => OnTheWay \subseteq Entries(peer.queue)

Shared == SharedOnce /\ QueuedOnce /\ NotYetGiven /\ WayFromQueue /\ sharedSent \in Nat

\* No message matches a shared subscription on both nodes and a plain one There: such a message
\* goes to the other node although a member Here was chosen.
NotMixed == \A kind \in MsgKinds : ~({"ls", "rs", "rp"} \subseteq kind)

\* What leaves queue, stream and counts alone keeps it.
LEMMA SharedUntouched ==
  ASSUME Shared, UNCHANGED <<peer, phase, batch, up, session, applied, shareGot, sharedSent>>
  PROVE  Shared'
<1>1. Current' = Current /\ OnTheWay' = OnTheWay
  BY DEF Current, SameSession, OnTheWay
<1>2. SharedOnce' /\ QueuedOnce'
  BY DEF Shared, SharedOnce, QueuedOnce
<1>3. NotYetGiven' /\ WayFromQueue'
  BY <1>1 DEF Shared, NotYetGiven, WayFromQueue
<1> QED BY <1>2, <1>3 DEF Shared

\* A queue with nothing but old entries, or none, and no stream.
LEMMA SharedShrinks ==
  ASSUME Shared, SharedOnce', Len(shareGot') = Len(shareGot),
         peer' \in Peers => \/ peer \in Peers /\ Entries(peer'.queue) \subseteq Entries(peer.queue)
                            \/ Entries(peer'.queue) = {},
         NotYetGiven', WayFromQueue', sharedSent' \in Nat
  PROVE  Shared'
<1>1. QueuedOnce'
  <2> SUFFICES ASSUME peer' \in Peers PROVE QueuedOnce'
    BY DEF QueuedOnce
  <2>1. CASE Entries(peer'.queue) = {}
    BY <2>1 DEF QueuedOnce
  <2>2. CASE peer \in Peers /\ Entries(peer'.queue) \subseteq Entries(peer.queue)
    BY <2>2 DEF Shared, QueuedOnce, IsMsg
  <2> QED BY <2>1, <2>2
<1> QED BY <1>1 DEF Shared

\* Subscriptions queued are no messages.
LEMMA SharedChanges ==
  ASSUME Inv, Shared, peer \in Peers, NEW es \in Seq(Changes),
         peer' = [peer EXCEPT !.queue = addAll(@, es)],
         UNCHANGED <<stream, there, shareGot, sharedSent>>,
         phase' = phase \/ (phase = "cleared" /\ phase' = "synced")
  PROVE  Shared'
<1> DEFINE q == peer.queue
<1> DEFINE a == addAll(q, es)
<1> HIDE DEF q, a
<1>1. q \in Queues /\ Consecutive(q) /\ es \in Seq(Events)
  BY PeerTypes, ChangesAreEvents DEF Inv, Reconnecting, q
<1>2. /\ a \in Queues /\ Entries(q) \subseteq Entries(a)
      /\ \A x \in Entries(a) \ Entries(q) :
            \E i \in 1..Len(es) : x = [id |-> q.nextID + i - 1, e |-> es[i]]
  BY <1>1, QueueAdd DEF a
<1>3. peer' = [peer EXCEPT !.queue = a]
  BY DEF a, q
<1>4. peer' \in Peers /\ peer'.queue = a /\ peer'.sid = peer.sid /\ peer'.reply = peer.reply
  BY <1>2, <1>3 DEF Peers
<1>5. UNCHANGED <<batch, up, session, applied, shareGot>>
  BY DEF stream, there
<1>6. \A x \in Entries(a) : IsMsg(x) => x \in Entries(q)
  <2> SUFFICES ASSUME NEW x \in Entries(a) \ Entries(q) PROVE ~IsMsg(x)
    OBVIOUS
  <2>1. PICK i \in 1..Len(es) : x = [id |-> q.nextID + i - 1, e |-> es[i]]
    BY <1>2
  <2>2. es[i] \in Changes
    OBVIOUS
  <2> QED BY <2>1, <2>2 DEF Changes, IsMsg
<1>7. SharedOnce'
  BY <1>5 DEF Shared, SharedOnce
<1>8. QueuedOnce'
  BY <1>4, <1>5, <1>6 DEF Shared, QueuedOnce, q
<1>9. Current' => Current
  BY <1>4, <1>5 DEF Current, SameSession
<1>10. NotYetGiven'
  BY <1>4, <1>5, <1>6, <1>9 DEF Shared, NotYetGiven, q
<1>11. WayFromQueue'
  BY <1>2, <1>4, <1>5 DEF Shared, WayFromQueue, OnTheWay, q
<1> QED BY <1>7, <1>8, <1>10, <1>11 DEF Shared

\* sendMessage: the message is new, and when it is for the share group There no member Here has it.
LEMMA SharedMessages ==
  ASSUME Inv, Shared, NotMixed, NEW kind \in MsgKinds, sendMessage(kind)
  PROVE  Shared'
<1> DEFINE n == Len(shareGot) + 1
<1> DEFINE msg == [kind |-> "msg", n |-> n, rs |-> "rs" \in kind]
<1>1. Types /\ shareGot \in Seq(Nat) /\ Len(shareGot) \in Nat /\ sharedSent' \in Nat
  <2>1. Types
    BY DEF Inv
  <2>2. shareGot \in Seq(Nat) /\ Len(shareGot) \in Nat
    BY <2>1 DEF Types
  <2>3. sharedSent \in Nat
    BY DEF Shared
  <2>4. sharedSent' \in {sharedSent, sharedSent + 1}
    BY DEF sendMessage
  <2>5. sharedSent' \in Nat
    BY <2>3, <2>4
  <2> QED BY <2>1, <2>2, <2>5
<1>2. UNCHANGED <<phase, batch, up, session, applied>>
  BY DEF sendMessage, stream, there
<1>3. PICK g \in {0, 1} : shareGot' = Append(shareGot, g)
                          /\ (g = 1 => "ls" \in kind)
                          /\ (g = 1 /\ "rp" \notin kind => peer' = peer)
  <2> DEFINE nodes == (IF "ls" \in kind THEN <<"here">> ELSE <<>>) \o
                      (IF "rs" \in kind THEN <<"there">> ELSE <<>>)
  <2> DEFINE chosen == IF nodes = <<>> THEN "nobody" ELSE nodes[(sharedSent % Len(nodes)) + 1]
  <2>1. /\ shareGot' = Append(shareGot, IF chosen = "here" THEN 1 ELSE 0)
        /\ peer' # peer => chosen = "there" \/ "rp" \in kind
    BY DEF sendMessage
  <2>2. chosen = "here" => "ls" \in kind
    <3> SUFFICES ASSUME "ls" \notin kind PROVE chosen # "here"
      OBVIOUS
    <3>1. nodes = <<>> \/ nodes = <<"there">>
      OBVIOUS
    <3> HIDE DEF nodes
    <3>2. CASE nodes = <<>>
      BY <3>2
    <3>3. CASE nodes = <<"there">>
      <4>1. Len(nodes) = 1 /\ nodes[1] = "there" /\ nodes # <<>>
        BY <3>3
      <4>2. sharedSent % 1 = 0
        BY DEF Shared
      <4> QED BY <4>1, <4>2
    <3> QED BY <3>1, <3>2, <3>3
  <2> HIDE DEF chosen
  <2>3. PICK h \in {0, 1} : h = IF chosen = "here" THEN 1 ELSE 0
    OBVIOUS
  <2>4. h = 1 => chosen = "here"
    BY <2>3
  <2> QED BY <2>1, <2>2, <2>3, <2>4
<1>4. /\ shareGot' \in Seq(Nat) /\ Len(shareGot') = n /\ shareGot'[n] = g
      /\ \A i \in 1..Len(shareGot) : shareGot'[i] = shareGot[i] /\ i \in 1..n
  BY <1>1, <1>3
<1>5. SharedOnce'
  <2>1. \A i \in 1..Len(shareGot) : shareGot[i] <= 1
    BY DEF Shared, SharedOnce
  <2>2. ASSUME NEW i \in 1..n PROVE shareGot'[i] <= 1
    <3>1. CASE i \in 1..Len(shareGot)
      BY <1>4, <2>1, <3>1
    <3>2. CASE i = n
      BY <1>3, <1>4, <3>2
    <3> QED BY <1>1, <3>1, <3>2
  <2> QED BY <1>4, <2>2 DEF SharedOnce
<1>6. CASE peer' = peer
  <2>1. Current' = Current /\ OnTheWay' = OnTheWay
    BY <1>2, <1>6 DEF Current, SameSession, OnTheWay
  <2>2. QueuedOnce'
    BY <1>4, <1>6 DEF Shared, QueuedOnce
  <2>3. NotYetGiven'
    <3>1. Current => peer \in Peers
      BY DEF Current, SameSession
    <3> QED BY <1>2, <1>4, <1>6, <2>1, <3>1 DEF Shared, NotYetGiven, QueuedOnce
  <2>4. WayFromQueue'
    BY <1>2, <1>6, <2>1 DEF Shared, WayFromQueue
  <2> QED BY <1>1, <1>5, <2>2, <2>3, <2>4 DEF Shared
<1>7. CASE peer' # peer
  <2> DEFINE q == peer.queue
  <2> DEFINE a == addAll(q, <<msg>>)
  <2>1. peer # NoPeer /\ peer' = [peer EXCEPT !.queue = a]
    BY <1>7 DEF sendMessage, add
  <2>2. peer \in Peers
    BY <1>1, <2>1, Present
  <2>3. n \in Nat /\ ("rs" \in kind) \in BOOLEAN
    BY <1>1
  <2>4. msg \in Events
    BY <2>3 DEF Events
  <2> HIDE DEF msg, q, a
  <2>5. <<msg>> \in Seq(Events) /\ Len(<<msg>>) = 1 /\ <<msg>>[1] = msg
    BY <2>4
  <2>6. q \in Queues /\ Consecutive(q) /\ q.nextID \in Nat
    BY <2>2, PeerTypes DEF Inv, Reconnecting, q
  <2>7. /\ a \in Queues /\ Entries(q) \subseteq Entries(a)
        /\ \A x \in Entries(a) \ Entries(q) :
              \E i \in 1..Len(<<msg>>) : x = [id |-> q.nextID + i - 1, e |-> <<msg>>[i]]
    BY <2>5, <2>6, QueueAdd DEF a
  <2>8. peer' \in Peers /\ peer'.queue = a /\ peer'.sid = peer.sid /\ peer'.reply = peer.reply
    BY <2>1, <2>2, <2>7 DEF Peers
  <2>9. PICK new : new = [id |-> q.nextID, e |-> msg]
    OBVIOUS
  <2>10. \A x \in Entries(a) : x \in Entries(q) \/ x = new
    <3> SUFFICES ASSUME NEW x \in Entries(a) \ Entries(q) PROVE x = new
      OBVIOUS
    <3>1. PICK i \in 1..1 : x = [id |-> q.nextID + i - 1, e |-> <<msg>>[i]]
      BY <2>5, <2>7
    <3>2. i = 1 /\ q.nextID + i - 1 = q.nextID
      BY <2>6
    <3> QED BY <2>5, <2>9, <3>1, <3>2
  <2>11. new.e.n = n /\ new.e.rs = ("rs" \in kind)
    BY <2>9 DEF msg
  <2>12. \A x \in Entries(q) : IsMsg(x) => x.e.n \in 1..Len(shareGot) /\ x.e.n # n
    BY <1>1, <2>2 DEF Shared, QueuedOnce, q
  <2>13. QueuedOnce'
    <3>1. \A x \in Entries(a) : IsMsg(x) => x.e.n \in 1..n
      BY <1>1, <1>4, <2>10, <2>11, <2>12
    <3>2. \A x, y \in Entries(q) : IsMsg(x) /\ IsMsg(y) /\ x.e.n = y.e.n => x = y
      BY <2>2 DEF Shared, QueuedOnce, q
    <3>3. \A x, y \in Entries(a) : IsMsg(x) /\ IsMsg(y) /\ x.e.n = y.e.n => x = y
      BY <2>10, <2>11, <2>12, <3>2
    <3> QED BY <1>4, <2>8, <3>1, <3>3 DEF QueuedOnce
  <2>14. Current' = Current
    BY <1>2, <2>2, <2>8 DEF Current, SameSession
  <2>15. new.e.rs => shareGot'[new.e.n] = 0
    <3>1. "rs" \in kind => g = 0
      BY <1>3, <1>7 DEF NotMixed
    <3> QED BY <1>4, <2>11, <3>1
  <2>16. NotYetGiven'
    <3> SUFFICES ASSUME Current, NEW x \in Entries(a), IsMsg(x), x.e.rs, x.id >= Len(applied)
                 PROVE  shareGot'[x.e.n] = 0
      BY <1>2, <2>8, <2>14 DEF NotYetGiven
    <3>1. CASE x = new
      BY <2>15, <3>1
    <3>2. CASE x \in Entries(q)
      BY <1>4, <2>12, <3>2 DEF Shared, NotYetGiven, q
    <3> QED BY <2>10, <3>1, <3>2
  <2>17. WayFromQueue'
    BY <1>2, <2>7, <2>8 DEF Shared, WayFromQueue, OnTheWay, q
  <2> QED BY <1>1, <1>5, <2>13, <2>16, <2>17 DEF Shared
<1> QED BY <1>6, <1>7

\* The handshake: the queue stays as it is or is emptied, and nothing is on its way.
LEMMA SharedHandshake ==
  ASSUME Inv, ~HelloReplyLost, Shared,
         nodeJoinHere \/ Hello \/ initStreamClear \/ initStreamOpen \/ initStreamFails
  PROVE  Shared'
<1>0. Types /\ Steady
  BY DEF Inv, Steady
<1>1. UNCHANGED <<shareGot, sharedSent>>
  BY DEF nodeJoinHere, Hello, initStreamClear, initStreamOpen, initStreamFails
<1>2. SharedOnce' /\ Len(shareGot') = Len(shareGot) /\ sharedSent' \in Nat
  BY <1>1 DEF Shared, SharedOnce
<1>3. Entries(newEventQueue) = {}
  BY DEF Entries, newEventQueue
<1>4. CASE nodeJoinHere \/ initStreamClear
  <2>1. phase' # "stream"
    BY <1>4 DEF nodeJoinHere, initStreamClear
  <2>2. peer' \in Peers /\ peer'.queue = newEventQueue
    <3>1. CASE nodeJoinHere
      <4>1. sids + 1 \in Nat /\ peer' = [sid |-> sids + 1, queue |-> newEventQueue, reply |-> None]
        BY <1>0, <3>1 DEF nodeJoinHere, Types
      <4> QED BY <4>1, NewQueue DEF Peers
    <3>2. CASE initStreamClear
      <4>1. peer \in Peers /\ peer' = [peer EXCEPT !.queue = newEventQueue]
        BY <1>0, <3>2 DEF initStreamClear, Types
      <4> QED BY <4>1, NewQueue DEF Peers
    <3> QED BY <1>4, <3>1, <3>2
  <2>3. Entries(peer'.queue) = {}
    BY <1>3, <2>2
  <2>4. NotYetGiven' /\ WayFromQueue'
    BY <2>1, <2>3 DEF NotYetGiven, WayFromQueue
  <2> QED BY <1>2, <2>3, <2>4, SharedShrinks
<1>5. CASE Hello
  <2>1. /\ peer \in Peers /\ phase = "connect" /\ phase' = "hello"
    BY <1>0, <1>5 DEF Hello, Types
  <2> DEFINE clean == session = NoSession \/ session.sid # peer.sid
  <2>2. /\ session' = IF clean THEN [sid |-> peer.sid, next |-> 0, seen |-> <<>>] ELSE session
        /\ applied' = IF clean THEN <<>> ELSE applied
        /\ peer' = [peer EXCEPT !.reply = [clean |-> clean, next |-> session'.next]]
    BY <1>5 DEF Hello
  <2>3. peer'.queue = peer.queue /\ peer'.sid = peer.sid /\ peer'.reply.clean = clean
    BY <2>1, <2>2 DEF Peers
  <2>4. Current' => Current /\ applied' = applied
    <3> SUFFICES ASSUME Current' PROVE Current /\ applied' = applied
      OBVIOUS
    <3>1. ~clean
      BY <2>1, <2>3 DEF Current
    <3>2. session # NoSession /\ session.sid = peer.sid
      BY <3>1
    <3>3. session \in Sessions
      BY <1>0, <3>2, Present
    <3> QED BY <2>1, <2>2, <3>1, <3>2, <3>3 DEF Current, SameSession
  <2>5. NotYetGiven' /\ WayFromQueue'
    BY <1>1, <2>1, <2>3, <2>4 DEF Shared, NotYetGiven, WayFromQueue
  <2> QED BY <1>2, <2>1, <2>3, <2>5, SharedShrinks
<1>6. CASE initStreamOpen
  <2>1. /\ peer \in Peers /\ UNCHANGED <<session, applied>>
        /\ (phase = "synced" \/ (phase = "hello" /\ ~peer.reply.clean)) /\ phase' = "stream"
        /\ batch' = <<>> /\ up' = <<>>
        /\ peer' = [peer EXCEPT !.queue = setReadPosition(@, peer.reply.next)]
    BY <1>0, <1>6 DEF initStreamOpen, Types, there
  <2> DEFINE q == peer.queue
  <2>2. PICK s : s = setReadPosition(q, peer.reply.next)
    OBVIOUS
  <2>3. s.q = q.q
    <3>1. q \in Queues
      BY <2>1, PeerTypes
    <3>2. s = q \/ s = [q EXCEPT !.nextRead = peer.reply.next]
      BY <2>2 DEF setReadPosition
    <3> HIDE DEF q
    <3> QED BY <3>1, <3>2 DEF Queues
  <2>4. peer'.queue = s /\ peer'.sid = peer.sid
    BY <2>1, <2>2 DEF Peers
  <2>5. Entries(peer'.queue) = Entries(peer.queue)
    BY <2>3, <2>4 DEF Entries
  <2>6. Current' => Current
    BY <2>1, <2>4 DEF Current, SameSession
  <2>7. NotYetGiven'
    BY <1>1, <2>1, <2>5, <2>6 DEF Shared, NotYetGiven
  <2>8. OnTheWay' = {}
    BY <2>1 DEF OnTheWay
  <2>9. WayFromQueue'
    BY <2>8 DEF WayFromQueue
  <2> QED BY <1>2, <2>1, <2>5, <2>7, <2>9, SharedShrinks
<1>7. CASE initStreamFails
  <2>1. UNCHANGED <<peer, session>> /\ session \notin Sessions /\ phase' = "connect"
    BY <1>0, <1>7, Present DEF initStreamFails, there
  <2>2. NotYetGiven' /\ WayFromQueue'
    BY <2>1 DEF NotYetGiven, WayFromQueue, Current, SameSession
  <2>3. QueuedOnce'
    BY <1>1, <2>1 DEF Shared, QueuedOnce
  <2> QED BY <1>2, <2>2, <2>3 DEF Shared
<1> QED BY <1>4, <1>5, <1>6, <1>7

\* The stream carries what is in the queue; an acknowledgement only drops what was applied.
LEMMA StreamCarries ==
  ASSUME Inv, WayFromQueue, fetchEvents \/ send \/ recvAck \/ ackSent
  PROVE  /\ WayFromQueue' /\ peer'.sid = peer.sid /\ session'.sid = session.sid
         /\ peer'.queue.nextID = peer.queue.nextID
         /\ Entries(peer'.queue) \subseteq Entries(peer.queue)
         /\ \A x \in Entries(peer.queue) : x.id >= Len(applied) => x \in Entries(peer'.queue)
<1>0. phase = "stream" /\ phase' = phase
  BY DEF Inv, NothingUnderWay, fetchEvents, send, recvAck, ackSent
<1>1. /\ Types /\ Steady /\ peer \in Peers /\ session \in Sessions /\ StreamFrom \in Nat
      /\ batch \in Seq(Queued) /\ up \in Seq(Queued) /\ Len(up) \in Nat /\ Len(batch) \in Nat
      /\ peer.queue \in Queues /\ Consecutive(peer.queue)
      /\ session.next \in Nat /\ session.next <= StreamFrom
      /\ down \in Seq(Nat) /\ Len(down) \in Nat /\ Oldest(peer.queue) \in Int
      /\ Len(applied) \in Nat
  BY <1>0, OnStream
<1>2. OnTheWay \subseteq Entries(peer.queue)
  BY <1>0 DEF WayFromQueue
<1>3. CASE fetchEvents
  <2> DEFINE q == peer.queue
  <2> DEFINE f == Fetched(q)
  <2>1. /\ UNCHANGED <<up, session>> /\ batch = <<>> /\ q.nextRead # Nil /\ batch' = f.events
        /\ peer' = [peer EXCEPT !.queue = f.queue]
    BY <1>3 DEF fetchEvents, there
  <2>2. Oldest(q) <= session.next /\ q.nextRead = StreamFrom + Len(up) /\ q.nextRead < q.nextID
    <3>1. Len(batch) = 0
      BY <2>1
    <3>2. StreamFrom + Len(up) + 0 = StreamFrom + Len(up)
      BY <1>1
    <3>3. Oldest(q) <= session.next /\ q.nextRead = StreamFrom + Len(up) + Len(batch) /\ q.nextRead < q.nextID
      BY <1>0, <1>1, <2>1 DEF Steady, Streaming
    <3> QED BY <3>1, <3>2, <3>3
  <2>3. Oldest(q) <= q.nextRead
    BY <1>1, <2>2
  <2>4. /\ f.queue \in Queues /\ f.queue.q = q.q /\ f.queue.nextID = q.nextID
        /\ \A i \in 1..Len(f.events) : f.events[i] \in Entries(q)
    BY <1>1, <2>1, <2>2, <2>3, QueueFetch
  <2> HIDE DEF f
  <2>5. peer'.queue = f.queue /\ peer'.sid = peer.sid
    BY <1>1, <2>1 DEF Peers
  <2>6. Entries(peer'.queue) = Entries(peer.queue)
    BY <2>4, <2>5 DEF Entries
  <2>7. \A i \in 1..Len(up) : up[i] \in Entries(peer.queue)
    BY <1>2 DEF OnTheWay
  <2>8. WayFromQueue'
    BY <2>1, <2>4, <2>6, <2>7 DEF WayFromQueue, OnTheWay
  <2> QED BY <2>1, <2>4, <2>5, <2>6, <2>8
<1>4. CASE send
  <2>1. /\ UNCHANGED <<peer, session>> /\ batch # <<>> /\ up' = Append(up, Head(batch)) /\ batch' = Tail(batch)
    BY <1>4 DEF send, there
  <2>2. /\ Head(batch) = batch[1] /\ 1 \in 1..Len(batch) /\ Len(up') = Len(up) + 1
        /\ \A i \in 1..Len(up) : up'[i] = up[i]
        /\ up'[Len(up) + 1] = batch[1]
        /\ \A i \in 1..Len(batch') : batch'[i] = batch[i + 1] /\ i + 1 \in 1..Len(batch)
    BY <1>1, <2>1
  <2>3. /\ \A i \in 1..Len(up) : up[i] \in Entries(peer.queue)
        /\ \A i \in 1..Len(batch) : batch[i] \in Entries(peer.queue)
    BY <1>2 DEF OnTheWay
  <2>4. ASSUME NEW i \in 1..Len(up') PROVE up'[i] \in Entries(peer.queue)
    <3>1. CASE i \in 1..Len(up)
      BY <2>2, <2>3, <3>1
    <3>2. CASE i = Len(up) + 1
      BY <2>2, <2>3, <3>2
    <3> QED BY <1>1, <2>2, <3>1, <3>2
  <2>5. \A i \in 1..Len(batch') : batch'[i] \in Entries(peer.queue)
    BY <2>2, <2>3
  <2>6. WayFromQueue'
    BY <2>1, <2>4, <2>5 DEF WayFromQueue, OnTheWay
  <2> QED BY <2>1, <2>6
<1>5. CASE recvAck
  <2> DEFINE q == peer.queue
  <2> DEFINE a == ack(q, Head(down))
  <2>1. UNCHANGED <<batch, up, session>> /\ down # <<>> /\ peer' = [peer EXCEPT !.queue = a]
    BY <1>5 DEF recvAck, there
  <2>2. Head(down) = down[1] /\ 1 \in 1..Len(down) /\ down[1] \in Nat
    BY <1>1, <2>1
  <2>3. a \in Queues /\ a.nextID = q.nextID /\ Entries(a) = {x \in Entries(q) : x.id > down[1]}
    <3>1. PICK h \in Nat : h = Head(down)
      BY <2>2
    <3>2. /\ ack(q, h) \in Queues /\ ack(q, h).nextID = q.nextID
          /\ Entries(ack(q, h)) = {x \in Entries(q) : x.id > h}
      BY <1>1, QueueAck
    <3> QED BY <2>2, <3>1, <3>2
  <2> HIDE DEF a
  <2>4. peer'.queue = a /\ peer'.sid = peer.sid
    BY <1>1, <2>1, <2>3 DEF Peers
  <2>5. /\ \A i \in 1..Len(up) : up[i].id = StreamFrom + (i - 1)
        /\ \A i \in 1..Len(batch) : batch[i].id = StreamFrom + Len(up) + (i - 1)
        /\ \A i \in 1..Len(down) : down[i] < session.next
    BY <1>0, <1>1 DEF Steady, Streaming
  <2>6. down[1] < StreamFrom
    <3>1. down[1] < session.next
      BY <2>2, <2>5
    <3> QED BY <1>1, <2>2, <3>1
  <2>7. \A i \in 1..Len(up) : up[i].id > down[1]
    BY <1>1, <2>2, <2>5, <2>6
  <2>8. \A i \in 1..Len(batch) : batch[i].id > down[1]
    BY <1>1, <2>2, <2>5, <2>6
  <2>9. WayFromQueue'
    BY <1>2, <2>1, <2>3, <2>4, <2>7, <2>8 DEF WayFromQueue, OnTheWay
  <2>10. Entries(peer'.queue) \subseteq Entries(peer.queue)
    BY <2>3, <2>4
  <2>11. \A x \in Entries(q) : x.id \in Nat
    <3>1. \A x \in Entries(q) : x \in Queued
      BY <1>1 DEF Entries, Queues
    <3> QED BY <3>1 DEF Queued
  <2>12. down[1] < Len(applied)
    <3>1. session.next <= Len(applied)
      BY <1>1 DEF Steady, SessionInStep
    <3>2. down[1] < session.next
      BY <2>2, <2>5
    <3> QED BY <1>1, <2>2, <3>1, <3>2
  <2>13. \A x \in Entries(q) : x.id >= Len(applied) => x.id > down[1]
    BY <1>1, <2>2, <2>11, <2>12
  <2>14. \A x \in Entries(peer.queue) : x.id >= Len(applied) => x \in Entries(peer'.queue)
    BY <2>3, <2>4, <2>13
  <2> QED BY <2>1, <2>3, <2>4, <2>9, <2>10, <2>14
<1>6. CASE ackSent
  <2>1. /\ UNCHANGED <<peer, batch, up>>
        /\ session' = [session EXCEPT !.next = inHand.id + 1]
    BY <1>6 DEF ackSent
  <2>2. session'.sid = session.sid
    BY <1>1, <2>1 DEF Sessions
  <2>3. WayFromQueue'
    BY <1>2, <2>1 DEF WayFromQueue, OnTheWay
  <2> QED BY <2>1, <2>2, <2>3
<1> QED BY <1>3, <1>4, <1>5, <1>6

LEMMA SharedStream ==
  ASSUME Inv, Shared, fetchEvents \/ send \/ recvAck \/ ackSent
  PROVE  Shared'
<1>1. UNCHANGED <<shareGot, sharedSent, applied>>
  BY DEF fetchEvents, send, recvAck, ackSent, there
<1>2. SharedOnce' /\ Len(shareGot') = Len(shareGot) /\ sharedSent' \in Nat
  BY <1>1 DEF Shared, SharedOnce
<1>3. phase = "stream" /\ peer \in Peers /\ Current
  BY DEF Inv, NothingUnderWay, Streaming, SameSession, Current, fetchEvents, send, recvAck, ackSent
<1>4. WayFromQueue' /\ Entries(peer'.queue) \subseteq Entries(peer.queue)
  <2>1. WayFromQueue
    BY DEF Shared
  <2> QED BY <2>1, StreamCarries
<1>5. NotYetGiven'
  BY <1>1, <1>3, <1>4 DEF Shared, NotYetGiven
<1> QED BY <1>2, <1>3, <1>4, <1>5, SharedShrinks

\* The handler: an event that has not been seen has not been applied, so its message is given for
\* the first time; every other message in the queue is another one.
LEMMA SharedApplies ==
  ASSUME Inv, Shared, eventStreamHandler
  PROVE  Shared'
<1>0. phase = "stream"
  BY DEF Inv, NothingUnderWay, eventStreamHandler
<1>1. /\ UNCHANGED <<peer, phase, batch, sharedSent>> /\ up # <<>> /\ inHand = None /\ up' = Tail(up)
  BY DEF eventStreamHandler
<1>2. /\ Types /\ Steady /\ peer \in Peers /\ session \in Sessions
      /\ session.next \in Nat /\ session.seen \in Seq(Nat)
      /\ up \in Seq(Queued) /\ Len(up) \in Nat
      /\ applied \in Seq(Nat) /\ Len(applied) \in Nat
      /\ peer.queue \in Queues /\ Consecutive(peer.queue)
  BY <1>0, OnStream
<1>3. PICK x : x = up[1]
  OBVIOUS
<1>4. /\ 1 \in 1..Len(up) /\ Head(up) = x /\ x.id = session.next
      /\ \A i \in 1..Len(up') : up'[i] = up[i + 1] /\ i + 1 \in 1..Len(up)
  <2>1. /\ 1 \in 1..Len(up) /\ Head(up) = up[1]
        /\ \A i \in 1..Len(up') : up'[i] = up[i + 1] /\ i + 1 \in 1..Len(up)
    BY <1>1, <1>2
  <2>2. StreamFrom = session.next /\ \A i \in 1..Len(up) : up[i].id = StreamFrom + (i - 1)
    BY <1>0, <1>1, <1>2 DEF Steady, Streaming, StreamFrom
  <2>3. up[1].id = session.next
    BY <1>2, <2>1, <2>2
  <2> QED BY <1>3, <2>1, <2>3
<1>5. /\ \A i \in 1..Len(up) : up[i] \in Entries(peer.queue)
      /\ \A i \in 1..Len(batch) : batch[i] \in Entries(peer.queue)
  BY <1>0 DEF Shared, WayFromQueue, OnTheWay
<1>6. WayFromQueue' /\ x \in Entries(peer.queue)
  BY <1>1, <1>3, <1>4, <1>5 DEF WayFromQueue, OnTheWay
<1>7. sharedSent' \in Nat /\ shareGot \in Seq(Nat)
  BY <1>1, <1>2 DEF Shared, Types
<1>8. Current
  BY <1>0, <1>2 DEF Steady, Streaming, Current
<1>9. CASE Contains(session.seen, x.id)
  <2>1. UNCHANGED <<session, applied, shareGot>>
    BY <1>4, <1>9 DEF eventStreamHandler
  <2>2. NotYetGiven'
    BY <1>1, <1>8, <2>1 DEF Shared, NotYetGiven
  <2>3. SharedOnce' /\ QueuedOnce'
    BY <1>1, <2>1 DEF Shared, SharedOnce, QueuedOnce
  <2> QED BY <1>6, <1>7, <2>2, <2>3 DEF Shared
<1>10. CASE ~Contains(session.seen, x.id)
  <2>1. /\ applied' = Append(applied, x.id)
        /\ shareGot' = IF x.e.kind = "msg" /\ x.e.rs THEN [shareGot EXCEPT ![x.e.n] = @ + 1] ELSE shareGot
    BY <1>4, <1>10 DEF eventStreamHandler
  <2>2. session.next = Len(applied)
    <3>1. \A i \in 1..Len(session.seen) : session.seen[i] # x.id
      BY <1>10 DEF Contains
    <3>2. session.seen # <<>> => Len(session.seen) \in 1..Len(session.seen)
      BY <1>2
    <3> QED BY <1>2, <1>4, <3>1, <3>2 DEF Steady, SessionInStep
  <2>3. Len(applied') = Len(applied) + 1
    BY <1>2, <1>4, <2>1
  <2>4. \A y \in Entries(peer.queue) : y.id \in Int
    <3>1. \A y \in Entries(peer.queue) : y \in Queued
      BY <1>2 DEF Entries, Queues
    <3> QED BY <3>1 DEF Queued
  <2>5. \A y \in Entries(peer.queue) : y.id >= Len(applied') => y.id >= Len(applied) /\ y # x
    BY <1>2, <1>4, <2>2, <2>3, <2>4
  <2>6. \A y \in Entries(peer.queue) :
          IsMsg(y) /\ y.e.rs /\ y.id >= Len(applied) => shareGot[y.e.n] = 0
    BY <1>8 DEF Shared, NotYetGiven
  <2>7. /\ \A y \in Entries(peer.queue) : IsMsg(y) => y.e.n \in 1..Len(shareGot)
        /\ \A y \in Entries(peer.queue) : IsMsg(x) /\ IsMsg(y) /\ x.e.n = y.e.n => x = y
    BY <1>2, <1>6 DEF Shared, QueuedOnce
  <2>8. CASE IsMsg(x) /\ x.e.rs
    <3>1. shareGot' = [shareGot EXCEPT ![x.e.n] = @ + 1]
      BY <2>1, <2>8 DEF IsMsg
    <3>2. x.e.n \in 1..Len(shareGot) /\ shareGot[x.e.n] = 0
      <4>1. x.id >= Len(applied)
        BY <1>2, <1>4, <2>2
      <4> QED BY <1>6, <2>6, <2>7, <2>8, <4>1
    <3>3. PICK m \in 1..Len(shareGot) : m = x.e.n
      BY <3>2
    <3>4. /\ Len(shareGot') = Len(shareGot) /\ shareGot'[m] = 1
          /\ \A k \in 1..Len(shareGot) : k # m => shareGot'[k] = shareGot[k]
      BY <1>7, <3>1, <3>2, <3>3
    <3>5. SharedOnce'
      BY <3>4 DEF Shared, SharedOnce
    <3>6. QueuedOnce'
      BY <1>1, <3>4 DEF Shared, QueuedOnce
    <3>7. NotYetGiven'
      <4> SUFFICES ASSUME NEW y \in Entries(peer.queue), IsMsg(y), y.e.rs, y.id >= Len(applied')
                   PROVE  shareGot'[y.e.n] = 0
        BY <1>1 DEF NotYetGiven
      <4>1. y.e.n \in 1..Len(shareGot) /\ y.e.n # m /\ shareGot[y.e.n] = 0
        BY <2>5, <2>6, <2>7, <2>8, <3>3
      <4> QED BY <3>4, <4>1
    <3> QED BY <1>6, <1>7, <3>5, <3>6, <3>7 DEF Shared
  <2>9. CASE ~(IsMsg(x) /\ x.e.rs)
    <3>1. shareGot' = shareGot
      BY <2>1, <2>9 DEF IsMsg
    <3>2. SharedOnce' /\ QueuedOnce'
      BY <1>1, <3>1 DEF Shared, SharedOnce, QueuedOnce
    <3>3. NotYetGiven'
      BY <1>1, <2>5, <2>6, <3>1 DEF NotYetGiven
    <3> QED BY <1>6, <1>7, <3>2, <3>3 DEF Shared
  <2> QED BY <2>8, <2>9
<1> QED BY <1>9, <1>10

LEMMA SharedFaults ==
  ASSUME Inv, Shared, streamBreaks \/ nodeFailHere \/ nodeFailThere \/ restartHere
  PROVE  Shared'
<1>1. UNCHANGED shareGot /\ phase' # "stream"
  BY DEF streamBreaks, nodeFailHere, nodeFailThere, restartHere
<1>2. SharedOnce' /\ sharedSent' \in Nat /\ WayFromQueue'
  BY <1>1 DEF Shared, SharedOnce, WayFromQueue, streamBreaks, nodeFailHere, nodeFailThere, restartHere
<1>3. CASE streamBreaks
  <2>1. UNCHANGED <<peer, session, applied>> /\ phase = "stream"
    BY <1>3 DEF streamBreaks
  <2>2. Current' => Current
    BY <2>1 DEF Current, SameSession
  <2>3. NotYetGiven' /\ QueuedOnce'
    BY <1>1, <2>1, <2>2 DEF Shared, NotYetGiven, QueuedOnce
  <2> QED BY <1>2, <2>3 DEF Shared
<1>4. CASE nodeFailHere \/ restartHere
  <2>1. peer' \notin Peers
    BY <1>4, NoneIsNothing DEF nodeFailHere, restartHere, NoPeer
  <2>2. NotYetGiven' /\ QueuedOnce'
    BY <2>1 DEF NotYetGiven, QueuedOnce, Current, SameSession
  <2> QED BY <1>2, <2>2 DEF Shared
<1>5. CASE nodeFailThere
  <2>1. session' \notin Sessions /\ peer' = peer
    BY <1>5, NoneIsNothing DEF nodeFailThere, NoSession
  <2>2. NotYetGiven' /\ QueuedOnce'
    BY <1>1, <2>1 DEF Shared, NotYetGiven, QueuedOnce, Current, SameSession
  <2> QED BY <1>2, <2>2 DEF Shared
<1> QED BY <1>3, <1>4, <1>5

LEMMA SharedQuiet ==
  ASSUME Shared,
         \/ \E c \in Clients : \/ \E t \in Topics : OnSubscribed(c, t) \/ OnUnsubscribed(c, t)
                               \/ OnSessionTerminated(c)
         \/ nodeJoinThere
         \/ UNCHANGED vars
  PROVE  Shared'
<1>1. UNCHANGED <<peer, phase, batch, up, session, applied, shareGot, sharedSent>>
  <2>1. ASSUME NEW c \in Clients, NEW t \in Topics, OnSubscribed(c, t) \/ OnUnsubscribed(c, t)
        PROVE  UNCHANGED <<peer, phase, batch, up, session, applied, shareGot, sharedSent>>
    BY <2>1 DEF OnSubscribed, OnUnsubscribed, stream, there
  <2>2. ASSUME NEW c \in Clients, OnSessionTerminated(c)
        PROVE  UNCHANGED <<peer, phase, batch, up, session, applied, shareGot, sharedSent>>
    BY <2>2 DEF OnSessionTerminated, stream, there
  <2>3. CASE nodeJoinThere \/ UNCHANGED vars
    BY <2>3 DEF nodeJoinThere, vars, stream, there
  <2> QED BY <2>1, <2>2, <2>3
<1> QED BY <1>1, SharedUntouched

LEMMA SharedBroadcast ==
  ASSUME Inv, Shared, NEW c \in Clients, Broadcast(c)
  PROVE  Shared'
<1>1. Types /\ hook[c] \in Seq(Changes)
  BY DEF Inv, Types
<1>2. UNCHANGED <<stream, there, shareGot, sharedSent>> /\ phase' = phase
  BY DEF Broadcast
<1>3. CASE peer = NoPeer
  <2>1. UNCHANGED <<peer, phase, batch, up, session, applied, shareGot, sharedSent>>
    BY <1>2, <1>3 DEF Broadcast, stream, there
  <2> QED BY <2>1, SharedUntouched
<1>4. CASE peer # NoPeer
  <2>1. peer \in Peers
    BY <1>1, <1>4, Present
  <2>2. peer' = [peer EXCEPT !.queue = addAll(@, hook[c])]
    BY <1>4 DEF Broadcast
  <2> QED BY <1>1, <1>2, <2>1, <2>2, SharedChanges
<1> QED BY <1>3, <1>4

LEMMA SharedSync ==
  ASSUME Inv, Shared, initStreamSync
  PROVE  Shared'
<1> DEFINE es == SetToSeq({[kind |-> "sub", t |-> t] : t \in Subscribed})
<1>1. peer \in Peers
  BY DEF Inv, Types, initStreamSync
<1>2. /\ UNCHANGED <<stream, there, shareGot, sharedSent>>
      /\ phase = "cleared" /\ phase' = "synced"
      /\ peer' = [peer EXCEPT !.queue = addAll(@, es)]
  BY DEF initStreamSync
<1>3. es \in Seq(Changes)
  <2>1. Subscribed \in SUBSET Topics
    BY DEF Subscribed
  <2> QED BY <2>1, TopicsListed, Zenon DEF Lists
<1> HIDE DEF es
<1> QED BY <1>1, <1>2, <1>3, SharedChanges

\* "we should either only send the message to local subscriber or only send the message to one
\* node": a message is given to a share group that spans the nodes at most once, whatever streams
\* break and whichever node fails or restarts, unless it also matches a plain subscription There
\* (sendMessage in hooks.go, eventStreamHandler).
THEOREM SharedIsGivenOnce ==
  ASSUME ~HelloReplyLost, NotMixed
  PROVE  Spec => []SharedOnce
<1>1. Init => Shared
  <2> SUFFICES ASSUME Init PROVE Shared
    OBVIOUS
  <2>1. peer \notin Peers /\ phase = "none" /\ shareGot = <<>> /\ sharedSent = 0
    BY NoneIsNothing DEF Init, NoPeer
  <2> QED BY <2>1 DEF Shared, SharedOnce, QueuedOnce, NotYetGiven, WayFromQueue, Current, SameSession
<1>2. Inv /\ Shared /\ [Next]_vars => Shared'
  <2> SUFFICES ASSUME Inv, Shared, [Next]_vars PROVE Shared'
    OBVIOUS
  <2>1. CASE \/ \E c \in Clients : \/ \E t \in Topics : OnSubscribed(c, t) \/ OnUnsubscribed(c, t)
                                   \/ OnSessionTerminated(c)
             \/ nodeJoinThere
             \/ UNCHANGED vars
    BY <2>1, SharedQuiet
  <2>2. ASSUME NEW kind \in MsgKinds, sendMessage(kind) PROVE Shared'
    BY <2>2, SharedMessages
  <2>3. ASSUME NEW c \in Clients, Broadcast(c) PROVE Shared'
    BY <2>3, SharedBroadcast
  <2>4. CASE nodeJoinHere \/ Hello \/ initStreamClear \/ initStreamOpen \/ initStreamFails
    BY <2>4, SharedHandshake
  <2>5. CASE initStreamSync
    BY <2>5, SharedSync
  <2>6. CASE fetchEvents \/ send \/ recvAck \/ ackSent
    BY <2>6, SharedStream
  <2>7. CASE eventStreamHandler
    BY <2>7, SharedApplies
  <2>8. CASE streamBreaks \/ nodeFailHere \/ nodeFailThere \/ restartHere
    BY <2>8, SharedFaults
  <2> QED BY <2>1, <2>2, <2>3, <2>4, <2>5, <2>6, <2>7, <2>8, Zenon DEF Next, Work, Faults
<1>3. Shared => SharedOnce
  BY DEF Shared
<1> QED BY <1>1, <1>2, <1>3, Invariance, PTL DEF Spec


-----------------------------------------------------------------------------
(* The routes There come to agree with the subscriptions Here.              *)

\* The hooks of two clients are not about the same topic at once.  A hook changes localSubStore
\* and queues the event under two different locks: two events about one topic may be queued in
\* the other order than the store was changed in.
HooksApart ==
  \A c, d \in Clients : \A i \in 1..Len(hook[c]), j \in 1..Len(hook[d]) :
    hook[c][i].t = hook[d][j].t => c = d

Mentions(es, t) == \E i \in 1..Len(es) : es[i].t = t

\* Events that say what the store has.
Agree(es, S) == \A i \in 1..Len(es) : es[i].kind = "sub" <=> es[i].t \in S

\* A hook has yet to queue an event about the topic.
Hooked(h, t) == \E c \in Clients : Mentions(h[c], t)

HooksTell(h, S) == \A c \in Clients : Agree(h[c], S)

\* The subscribes and unsubscribes of a topic among queued events, and whether x is the last one.
About(E, t) == {x \in E : x.e.kind # "msg" /\ x.e.t = t}
Latest(E, t, x) == \A y \in About(E, t) : y.id <= x.id

\* The last event queued about a topic says what the store has.
LastTells(E, h, S) ==
  \A t \in Topics : ~Hooked(h, t) =>
    \A x \in About(E, t) : Latest(E, t, x) => (x.e.kind = "sub" <=> t \in S)

\* A topic without an event is routed as the store has it.
RoutesTell(E, h, S, r) ==
  \A t \in Topics : ~Hooked(h, t) /\ About(E, t) = {} => (t \in r <=> t \in S)

\* The events that There has yet to apply.
Unapplied(q, n) == {x \in Entries(q) : x.id >= n}
ToApply == Unapplied(peer.queue, Len(applied))

\* The queue is for the session There has, or will be once it is filled.
Linked == phase = "cleared" \/ Current

\* There begins a session with no routes.
CleanStart ==
  phase \in {"cleared", "synced"} \/ (phase = "hello" /\ peer.reply.clean)
    => routes = {} /\ applied = <<>>

Told ==
  Linked =>
    /\ Len(applied) <= peer.queue.nextID
    /\ LastTells(ToApply, hook, Subscribed)
    /\ phase # "cleared" => RoutesTell(ToApply, hook, Subscribed, routes)

RouteInv ==
  /\ HooksTell(hook, Subscribed) /\ CleanStart /\ Told /\ WayFromQueue
  /\ routes \subseteq Topics /\ topics \in [Topics -> Int]

\* The ids in a queue.
LEMMA QueueIds ==
  ASSUME NEW q \in Queues, Consecutive(q)
  PROVE  q.nextID \in Nat /\ \A x \in Entries(q) : x \in Queued /\ x.id \in Nat /\ x.id < q.nextID
<1>1. q.q \in Seq(Queued) /\ q.nextID \in Nat /\ Len(q.q) \in Nat
  BY DEF Queues
<1>2. ASSUME NEW i \in 1..Len(q.q) PROVE q.q[i] \in Queued /\ q.q[i].id \in Nat /\ q.q[i].id < q.nextID
  <2>1. q.q[i] \in Queued
    BY <1>1
  <2>2. q.q[i].id = (q.nextID - Len(q.q)) + (i - 1)
    BY DEF Consecutive
  <2>3. q.q[i].id \in Nat
    BY <2>1 DEF Queued
  <2> QED BY <1>1, <2>1, <2>2, <2>3
<1> QED BY <1>1, <1>2 DEF Entries

\* Every event added is in the queue.
LEMMA QueueHas ==
  ASSUME NEW q \in Queues, NEW es \in Seq(Events), NEW i \in 1..Len(es)
  PROVE  [id |-> q.nextID + i - 1, e |-> es[i]] \in Entries(addAll(q, es))
<1> DEFINE new == [j \in 1..Len(es) |-> [id |-> q.nextID + j - 1, e |-> es[j]]]
<1>1. q.q \in Seq(Queued) /\ Len(q.q) \in Nat /\ q.nextID \in Nat /\ Len(es) \in Nat
  BY DEF Queues
<1>2. new \in Seq(Queued) /\ Len(new) = Len(es)
  <2>1. \A j \in 1..Len(es) : q.nextID + j - 1 \in Nat /\ es[j] \in Events
    BY <1>1
  <2> QED BY <1>1, <2>1 DEF Queued
<1>3. new[i] = [id |-> q.nextID + i - 1, e |-> es[i]]
  OBVIOUS
<1>4. addAll(q, es).q = q.q \o new
  BY DEF addAll
<1> HIDE DEF new
<1>5. PICK s : s = q.q \o new
  OBVIOUS
<1>6. Len(q.q) + i \in 1..Len(s) /\ s[Len(q.q) + i] = new[i]
  BY <1>1, <1>2, <1>5
<1> QED BY <1>3, <1>4, <1>5, <1>6 DEF Entries

\* Queueing events that say what the store has: their topics are told, the others as before.
LEMMA AddsTell ==
  ASSUME NEW q \in Queues, Consecutive(q), NEW es \in Seq(Changes),
         NEW n \in Nat, n <= q.nextID, NEW h, NEW k, NEW S,
         LastTells(Unapplied(q, n), h, S), Agree(es, S),
         \A t \in Topics : Hooked(h, t) => Hooked(k, t) \/ Mentions(es, t)
  PROVE  LET U == Unapplied(addAll(q, es), n)
         IN  /\ LastTells(U, k, S)
             /\ \A t \in Topics : IF Mentions(es, t) THEN About(U, t) # {}
                                  ELSE About(U, t) = About(Unapplied(q, n), t)
<1>0. PICK a : a = addAll(q, es)
  OBVIOUS
<1>1. es \in Seq(Events) /\ Len(es) \in Nat
  BY ChangesAreEvents
<1>2. /\ a \in Queues /\ Consecutive(a) /\ Entries(q) \subseteq Entries(a)
      /\ \A x \in Entries(a) \ Entries(q) :
            \E i \in 1..Len(es) : x = [id |-> q.nextID + i - 1, e |-> es[i]]
  BY <1>0, <1>1, QueueAdd
<1>3. q.nextID \in Nat /\ \A x \in Entries(q) : x.id \in Nat /\ x.id < q.nextID
  BY QueueIds
<1>4. ASSUME NEW i \in 1..Len(es)
      PROVE  \E x \in Entries(a) : /\ x.id = q.nextID + i - 1 /\ x.id >= n /\ x.id >= q.nextID
                                   /\ x.e = es[i] /\ x.e.kind # "msg"
  <2>1. PICK x : x = [id |-> q.nextID + i - 1, e |-> es[i]]
    OBVIOUS
  <2>2. x \in Entries(a)
    BY <1>0, <1>1, <2>1, QueueHas
  <2>3. x.id = q.nextID + i - 1 /\ x.e = es[i]
    BY <2>1
  <2>4. x.id >= n /\ x.id >= q.nextID
    BY <1>1, <1>3, <2>3
  <2>5. es[i].kind # "msg"
    <3>1. es[i] \in Changes
      OBVIOUS
    <3> QED BY <3>1 DEF Changes
  <2> QED BY <2>2, <2>3, <2>4, <2>5
<1>5. ASSUME NEW x \in Entries(a), x \notin Entries(q)
      PROVE  \E i \in 1..Len(es) : x.e = es[i]
  BY <1>2, <1>5
<1> DEFINE V == Unapplied(q, n)
<1> DEFINE U == Unapplied(a, n)
<1>6. ASSUME NEW t, Mentions(es, t)
      PROVE  \E x \in About(U, t) : x.id >= q.nextID
  <2>1. PICK i \in 1..Len(es) : es[i].t = t
    BY <1>6 DEF Mentions
  <2>2. PICK x \in Entries(a) : /\ x.id >= n /\ x.id >= q.nextID
                                /\ x.e = es[i] /\ x.e.kind # "msg"
    BY <1>4
  <2> QED BY <2>1, <2>2 DEF Unapplied, About
<1>7. ASSUME NEW t, ~Mentions(es, t)
      PROVE  About(U, t) = About(V, t)
  <2>1. \A x \in Entries(a) : x.e.t = t => x \in Entries(q)
    BY <1>5, <1>7 DEF Mentions
  <2> QED BY <1>2, <2>1 DEF Unapplied, About
<1>8. ASSUME NEW t \in Topics, ~Hooked(k, t), NEW x \in About(U, t), Latest(U, t, x)
      PROVE  x.e.kind = "sub" <=> t \in S
  <2>1. CASE ~Mentions(es, t)
    <3>1. ~Hooked(h, t) /\ About(U, t) = About(V, t)
      BY <1>7, <1>8, <2>1
    <3>2. x \in About(V, t) /\ Latest(V, t, x)
      BY <1>8, <3>1 DEF Latest
    <3> QED BY <3>1, <3>2 DEF LastTells
  <2>2. CASE Mentions(es, t)
    <3>1. PICK y \in About(U, t) : y.id >= q.nextID
      BY <1>6, <2>2
    <3>2. y.id <= x.id
      BY <1>8 DEF Latest
    <3>3. x \in Entries(a) /\ y \in Entries(a) /\ x.e.t = t
      BY DEF About, Unapplied
    <3>4. x.id \in Nat /\ y.id \in Nat
      BY <1>2, <3>3, QueueIds
    <3>5. x \notin Entries(q)
      BY <1>3, <3>1, <3>2, <3>4
    <3>6. PICK i \in 1..Len(es) : x.e = es[i]
      BY <1>5, <3>3, <3>5
    <3>7. es[i].kind = "sub" <=> es[i].t \in S
      BY DEF Agree
    <3> QED BY <3>3, <3>6, <3>7
  <2> QED BY <2>1, <2>2
<1>9. LastTells(U, k, S)
  <2> HIDE DEF U
  <2> QED BY <1>8 DEF LastTells
<1>10. \A t \in Topics : IF Mentions(es, t) THEN About(U, t) # {} ELSE About(U, t) = About(V, t)
  <2> HIDE DEF U, V
  <2> QED BY <1>6, <1>7
<1> QED BY <1>0, <1>9, <1>10

\* Steps that leave the store and the hooks alone, and of the link what is still to be applied.
LEMMA RoutesKept ==
  ASSUME RouteInv, UNCHANGED <<hook, topics>>, WayFromQueue', CleanStart', routes' \subseteq Topics,
         Linked' => /\ Linked /\ (phase = "cleared" => phase' = "cleared")
                    /\ ToApply' = ToApply /\ Len(applied') <= peer'.queue.nextID
                    /\ phase' # "cleared" => routes' = routes
  PROVE  RouteInv'
<1>1. Subscribed' = Subscribed
  BY DEF Subscribed
<1>2. HooksTell(hook, Subscribed)' /\ topics' \in [Topics -> Int]
  <2>1. hook' = hook /\ HooksTell(hook, Subscribed) /\ topics \in [Topics -> Int]
    BY DEF RouteInv
  <2> QED BY <1>1, <2>1
<1>3. Told'
  <2> SUFFICES ASSUME Linked' PROVE Told'
    BY DEF Told
  <2>1. /\ LastTells(ToApply, hook, Subscribed)
        /\ phase # "cleared" => RoutesTell(ToApply, hook, Subscribed, routes)
    BY DEF RouteInv, Told
  <2>2. LastTells(ToApply, hook, Subscribed)'
    BY <1>1, <2>1
  <2>3. phase' # "cleared" => RoutesTell(ToApply, hook, Subscribed, routes)'
    BY <1>1, <2>1
  <2> QED BY <2>2, <2>3 DEF Told
<1> QED BY <1>2, <1>3 DEF RouteInv

\* What the hooks and a join There leave alone.
LEMMA SameLink ==
  ASSUME UNCHANGED <<peer, phase, batch, up, session, applied, routes>>
  PROVE  /\ Linked' = Linked /\ ToApply' = ToApply
         /\ WayFromQueue' = WayFromQueue /\ CleanStart' = CleanStart
BY DEF Linked, Current, SameSession, ToApply, WayFromQueue, OnTheWay, CleanStart

\* A hook that has events for exactly the topics it changes in the store.
LEMMA HookTells ==
  ASSUME RouteInv, HooksApart', hook \in [Clients -> Seq(Changes)],
         NEW c \in Clients, NEW es \in Seq(Changes), hook[c] = <<>>,
         hook' = [hook EXCEPT ![c] = es], Agree(es, Subscribed'),
         \A t \in Topics : Mentions(es, t) \/ (t \in Subscribed' <=> t \in Subscribed),
         topics' \in [Topics -> Int],
         UNCHANGED <<peer, phase, batch, up, session, applied, routes>>
  PROVE  RouteInv'
<1>1. hook'[c] = es /\ \A d \in Clients : d # c => hook'[d] = hook[d]
  OBVIOUS
<1>2. ASSUME NEW d \in Clients PROVE Agree(hook'[d], Subscribed')
  <2>1. CASE d = c
    BY <1>1, <2>1
  <2>2. CASE d # c
    <3> SUFFICES ASSUME NEW i \in 1..Len(hook[d])
                 PROVE  hook[d][i].kind = "sub" <=> hook[d][i].t \in Subscribed'
      BY <1>1, <2>2 DEF Agree
    <3>1. hook[d][i].t \in Topics
      <4>1. hook[d] \in Seq(Changes)
        OBVIOUS
      <4>2. hook[d][i] \in Changes
        BY <4>1
      <4> QED BY <4>2 DEF Changes
    <3>2. ~Mentions(es, hook[d][i].t)
      BY <1>1, <2>2 DEF Mentions, HooksApart
    <3>3. hook[d][i].kind = "sub" <=> hook[d][i].t \in Subscribed
      BY DEF RouteInv, HooksTell, Agree
    <3> QED BY <3>1, <3>2, <3>3
  <2> QED BY <2>1, <2>2
<1>3. HooksTell(hook, Subscribed)'
  BY <1>2 DEF HooksTell
<1>4. ASSUME NEW t \in Topics, ~Hooked(hook', t)
      PROVE  ~Hooked(hook, t) /\ (t \in Subscribed' <=> t \in Subscribed)
  <2>1. ~Mentions(es, t)
    BY <1>1, <1>4 DEF Hooked
  <2>2. ~Mentions(hook[c], t)
    BY DEF Mentions
  <2>3. \A d \in Clients : ~Mentions(hook[d], t)
    BY <1>1, <1>4, <2>2 DEF Hooked
  <2> QED BY <2>1, <2>3 DEF Hooked
<1>5. Linked' = Linked /\ ToApply' = ToApply /\ WayFromQueue' /\ CleanStart' /\ routes' \subseteq Topics
  BY SameLink DEF RouteInv
<1>6. Told'
  <2> SUFFICES ASSUME Linked' PROVE Told'
    BY DEF Told
  <2>1. /\ Len(applied') <= peer'.queue.nextID
        /\ LastTells(ToApply, hook, Subscribed)
        /\ phase # "cleared" => RoutesTell(ToApply, hook, Subscribed, routes)
    BY <1>5 DEF RouteInv, Told
  <2>2. LastTells(ToApply, hook, Subscribed)'
    BY <1>4, <1>5, <2>1 DEF LastTells
  <2>3. phase' # "cleared" => RoutesTell(ToApply, hook, Subscribed, routes)'
    BY <1>4, <1>5, <2>1 DEF RoutesTell
  <2> QED BY <2>1, <2>2, <2>3 DEF Told
<1> QED BY <1>3, <1>5, <1>6 DEF RouteInv

LEMMA RoutesHooks ==
  ASSUME Inv, RouteInv, HooksApart', NEW c \in Clients,
         (\E t \in Topics : OnSubscribed(c, t) \/ OnUnsubscribed(c, t)) \/ OnSessionTerminated(c)
  PROVE  RouteInv'
<1>1. /\ hook \in [Clients -> Seq(Changes)] /\ index \in [Clients -> SUBSET Topics]
      /\ topics \in [Topics -> Int]
  BY DEF Inv, Types, RouteInv
<1>2. /\ UNCHANGED <<peer, phase, batch, up, session, applied, routes>>
      /\ hook[c] = <<>>
  BY DEF OnSubscribed, OnUnsubscribed, OnSessionTerminated, stream, there, Pending
<1>3. Agree(<<>>, Subscribed') /\ <<>> \in Seq(Changes)
  BY DEF Agree
<1>4. ASSUME NEW t \in Topics, OnSubscribed(c, t) PROVE RouteInv'
  <2>1. /\ topics' = [topics EXCEPT ![t] = topics[t] + 1]
        /\ hook' = [hook EXCEPT ![c] = IF topics[t] = 0 THEN <<[kind |-> "sub", t |-> t]>> ELSE <<>>]
    BY <1>2, <1>4 DEF OnSubscribed
  <2>2. topics' \in [Topics -> Int] /\ topics'[t] = topics[t] + 1 /\ \A u \in Topics : u # t => topics'[u] = topics[u]
    BY <1>1, <2>1
  <2>3. CASE topics[t] = 0
    <3>1. PICK es : es = <<[kind |-> "sub", t |-> t]>>
      OBVIOUS
    <3>2. es \in Seq(Changes) /\ Len(es) = 1 /\ es[1].kind = "sub" /\ es[1].t = t
      BY <3>1 DEF Changes
    <3>3. t \in Subscribed'
      BY <2>2, <2>3 DEF Subscribed
    <3>4. Agree(es, Subscribed')
      BY <3>2, <3>3 DEF Agree
    <3>5. Mentions(es, t)
      BY <3>2 DEF Mentions
    <3>6. \A u \in Topics : Mentions(es, u) \/ (u \in Subscribed' <=> u \in Subscribed)
      BY <2>2, <3>5 DEF Subscribed
    <3>7. hook' = [hook EXCEPT ![c] = es]
      BY <2>1, <2>3, <3>1
    <3> QED BY <1>1, <1>2, <2>2, <3>2, <3>4, <3>6, <3>7, HookTells
  <2>4. CASE topics[t] # 0
    <3>1. \A u \in Topics : Mentions(<<>>, u) \/ (u \in Subscribed' <=> u \in Subscribed)
      <4>1. topics[t] \in Int
        BY <1>1
      <4>2. topics'[t] > 0 <=> topics[t] > 0
        BY <2>2, <2>4, <4>1
      <4> QED BY <2>2, <4>2 DEF Subscribed
    <3>2. hook' = [hook EXCEPT ![c] = <<>>]
      BY <2>1, <2>4
    <3> QED BY <1>1, <1>2, <1>3, <2>2, <3>1, <3>2, HookTells
  <2> QED BY <2>3, <2>4
<1>5. ASSUME NEW t \in Topics, OnUnsubscribed(c, t) PROVE RouteInv'
  <2>1. /\ topics' = [topics EXCEPT ![t] = topics[t] - 1]
        /\ hook' = [hook EXCEPT ![c] = IF topics[t] = 1 THEN <<[kind |-> "unsub", t |-> t]>> ELSE <<>>]
    BY <1>2, <1>5 DEF OnUnsubscribed
  <2>2. topics' \in [Topics -> Int] /\ topics'[t] = topics[t] - 1 /\ \A u \in Topics : u # t => topics'[u] = topics[u]
    BY <1>1, <2>1
  <2>3. CASE topics[t] = 1
    <3>1. PICK es : es = <<[kind |-> "unsub", t |-> t]>>
      OBVIOUS
    <3>2. es \in Seq(Changes) /\ Len(es) = 1 /\ es[1].kind = "unsub" /\ es[1].t = t
      BY <3>1 DEF Changes
    <3>3. t \notin Subscribed'
      BY <2>2, <2>3 DEF Subscribed
    <3>4. Agree(es, Subscribed')
      BY <3>2, <3>3 DEF Agree
    <3>5. Mentions(es, t)
      BY <3>2 DEF Mentions
    <3>6. \A u \in Topics : Mentions(es, u) \/ (u \in Subscribed' <=> u \in Subscribed)
      BY <2>2, <3>5 DEF Subscribed
    <3>7. hook' = [hook EXCEPT ![c] = es]
      BY <2>1, <2>3, <3>1
    <3> QED BY <1>1, <1>2, <2>2, <3>2, <3>4, <3>6, <3>7, HookTells
  <2>4. CASE topics[t] # 1
    <3>1. \A u \in Topics : Mentions(<<>>, u) \/ (u \in Subscribed' <=> u \in Subscribed)
      <4>1. topics[t] \in Int
        BY <1>1
      <4>2. topics'[t] > 0 <=> topics[t] > 0
        BY <2>2, <2>4, <4>1
      <4> QED BY <2>2, <4>2 DEF Subscribed
    <3>2. hook' = [hook EXCEPT ![c] = <<>>]
      BY <2>1, <2>4
    <3> QED BY <1>1, <1>2, <1>3, <2>2, <3>1, <3>2, HookTells
  <2> QED BY <2>3, <2>4
<1>6. ASSUME OnSessionTerminated(c) PROVE RouteInv'
  <2> DEFINE gone == {t \in index[c] : topics[t] = 1}
  <2>1. /\ topics' = [t \in Topics |-> IF t \in index[c] THEN topics[t] - 1 ELSE topics[t]]
        /\ hook' = [hook EXCEPT ![c] = SetToSeq({[kind |-> "unsub", t |-> t] : t \in gone})]
    BY <1>6 DEF OnSessionTerminated
  <2>2. gone \in SUBSET Topics
    BY <1>1
  <2>3. PICK es : es = SetToSeq({[kind |-> "unsub", t |-> t] : t \in gone})
    OBVIOUS
  <2>4. /\ topics' \in [Topics -> Int]
        /\ \A t \in Topics : topics'[t] = IF t \in index[c] THEN topics[t] - 1 ELSE topics[t]
    BY <1>1, <2>1
  <2>5. \A t \in gone : t \notin Subscribed'
    BY <2>2, <2>4 DEF Subscribed
  <2>6. \A t \in Topics : t \notin gone => (t \in Subscribed' <=> t \in Subscribed)
    <3> SUFFICES ASSUME NEW t \in Topics, t \notin gone PROVE topics'[t] > 0 <=> topics[t] > 0
      BY DEF Subscribed
    <3>1. topics[t] \in Int
      BY <1>1
    <3> QED BY <2>4, <3>1
  <2> HIDE DEF gone
  <2>7. /\ es \in Seq(Changes)
        /\ \A i \in 1..Len(es) : es[i].kind = "unsub" /\ es[i].t \in gone
        /\ \A t \in gone : \E i \in 1..Len(es) : es[i].t = t
    <3>1. Lists(es, "unsub", gone)
      BY <2>2, <2>3, TopicsListed, Zenon
    <3> QED BY <3>1 DEF Lists
  <2>8. Agree(es, Subscribed')
    BY <2>5, <2>7 DEF Agree
  <2>9. \A t \in Topics : Mentions(es, t) \/ (t \in Subscribed' <=> t \in Subscribed)
    BY <2>6, <2>7 DEF Mentions
  <2>10. hook' = [hook EXCEPT ![c] = es]
    BY <2>1, <2>3
  <2> QED BY <1>1, <1>2, <2>4, <2>7, <2>8, <2>9, <2>10, HookTells
<1> QED BY <1>4, <1>5, <1>6

\* Events queued that say what the store has.
LEMMA RoutesAdd ==
  ASSUME Inv, RouteInv, peer \in Peers, NEW es \in Seq(Changes),
         peer' = [peer EXCEPT !.queue = addAll(@, es)],
         UNCHANGED <<batch, up, session, applied, routes, topics>>,
         Agree(es, Subscribed), HooksTell(hook', Subscribed),
         \A t \in Topics : Hooked(hook, t) => Hooked(hook', t) \/ Mentions(es, t),
         \/ phase' = phase
         \/ phase = "cleared" /\ phase' = "synced" /\ \A t \in Subscribed : Mentions(es, t)
  PROVE  RouteInv'
<1>1. PICK q : q = peer.queue
  OBVIOUS
<1>2. PICK a : a = addAll(q, es)
  OBVIOUS
<1>3. q \in Queues /\ Consecutive(q) /\ es \in Seq(Events) /\ Len(es) \in Nat /\ q.nextID \in Nat
  BY <1>1, PeerTypes, ChangesAreEvents DEF Inv, Reconnecting
<1>4. a \in Queues /\ a.nextID = q.nextID + Len(es) /\ Entries(q) \subseteq Entries(a)
  BY <1>2, <1>3, QueueAdd
<1>5. peer' = [peer EXCEPT !.queue = a]
  BY <1>1, <1>2
<1>6. peer' \in Peers /\ peer'.queue = a /\ peer'.sid = peer.sid /\ peer'.reply = peer.reply
  BY <1>4, <1>5 DEF Peers
<1>7. Subscribed' = Subscribed
  BY DEF Subscribed
<1>8. Linked' => Linked
  BY <1>6 DEF Linked, Current, SameSession
<1>9. CleanStart'
  BY <1>6 DEF RouteInv, CleanStart
<1>10. WayFromQueue'
  BY <1>1, <1>4, <1>6 DEF RouteInv, WayFromQueue, OnTheWay
<1>11. Told'
  <2> SUFFICES ASSUME Linked' PROVE Told'
    BY DEF Told
  <2>1. PICK n \in Nat : n = Len(applied)
    <3>1. applied \in Seq(Nat)
      BY DEF Inv, Types
    <3> QED BY <3>1
  <2>2. PICK V : V = Unapplied(q, n)
    OBVIOUS
  <2>3. PICK U : U = Unapplied(a, n)
    OBVIOUS
  <2>4. ToApply = V /\ ToApply' = U
    BY <1>1, <1>6, <2>1, <2>2, <2>3 DEF ToApply
  <2>5. /\ n <= q.nextID /\ LastTells(V, hook, Subscribed)
        /\ phase # "cleared" => RoutesTell(V, hook, Subscribed, routes)
    BY <1>1, <1>8, <2>1, <2>4 DEF RouteInv, Told
  <2>6. /\ LastTells(U, hook', Subscribed)
        /\ \A t \in Topics : IF Mentions(es, t) THEN About(U, t) # {} ELSE About(U, t) = About(V, t)
    BY <1>2, <1>3, <2>2, <2>3, <2>5, AddsTell
  <2>7. ASSUME phase' # "cleared", NEW t \in Topics, ~Hooked(hook', t), About(U, t) = {}
        PROVE  t \in routes <=> t \in Subscribed
    <3>1. ~Mentions(es, t) /\ About(V, t) = {} /\ ~Hooked(hook, t)
      BY <2>6, <2>7
    <3>2. CASE phase' = phase
      BY <2>5, <2>7, <3>1, <3>2 DEF RoutesTell
    <3>3. CASE phase = "cleared" /\ \A u \in Subscribed : Mentions(es, u)
      BY <3>1, <3>3 DEF RouteInv, CleanStart
    <3> QED BY <3>2, <3>3
  <2>8. phase' # "cleared" => RoutesTell(U, hook', Subscribed, routes)
    BY <2>7 DEF RoutesTell
  <2>9. n <= a.nextID
    BY <1>3, <1>4, <2>5
  <2> QED BY <1>6, <1>7, <2>1, <2>4, <2>6, <2>8, <2>9 DEF Told
<1> QED BY <1>7, <1>9, <1>10, <1>11 DEF RouteInv

LEMMA RoutesBroadcast ==
  ASSUME Inv, RouteInv, NEW c \in Clients, Broadcast(c)
  PROVE  RouteInv'
<1>1. /\ Types /\ hook \in [Clients -> Seq(Changes)] /\ hook[c] \in Seq(Changes)
      /\ hook' = [hook EXCEPT ![c] = <<>>]
  BY DEF Inv, Types, Broadcast
<1>2. UNCHANGED <<batch, up, session, applied, routes, topics>> /\ phase' = phase
  BY DEF Broadcast, stream, there
<1>3. HooksTell(hook, Subscribed)
  BY DEF RouteInv
<1>4. HooksTell(hook', Subscribed)
  <2>1. Agree(<<>>, Subscribed)
    BY DEF Agree
  <2> QED BY <1>1, <1>3, <2>1 DEF HooksTell
<1>5. \A t \in Topics : Hooked(hook, t) => Hooked(hook', t) \/ Mentions(hook[c], t)
  BY <1>1 DEF Hooked
<1>6. Agree(hook[c], Subscribed)
  BY <1>3 DEF HooksTell
<1>7. CASE peer = NoPeer
  <2>1. peer' = peer /\ peer \notin Peers
    BY <1>1, <1>7, Present DEF Broadcast
  <2>2. phase = "none"
    BY <1>1, <2>1 DEF Types
  <2>3. WayFromQueue' /\ CleanStart' /\ Told'
    BY <1>2, <2>1, <2>2 DEF WayFromQueue, CleanStart, Told, Linked, Current, SameSession
  <2>4. Subscribed' = Subscribed
    BY <1>2 DEF Subscribed
  <2> QED BY <1>2, <1>4, <2>3, <2>4 DEF RouteInv
<1>8. CASE peer # NoPeer
  <2>1. peer \in Peers
    BY <1>1, <1>8, Present
  <2>2. peer' = [peer EXCEPT !.queue = addAll(@, hook[c])]
    BY <1>8 DEF Broadcast
  <2> QED BY <1>1, <1>2, <1>4, <1>5, <1>6, <2>1, <2>2, RoutesAdd
<1> QED BY <1>7, <1>8

LEMMA RoutesSync ==
  ASSUME Inv, RouteInv, initStreamSync
  PROVE  RouteInv'
<1>1. PICK es : es = SetToSeq({[kind |-> "sub", t |-> t] : t \in Subscribed})
  OBVIOUS
<1>2. /\ UNCHANGED <<batch, up, session, applied, routes, topics, hook>>
      /\ phase = "cleared" /\ phase' = "synced"
      /\ peer' = [peer EXCEPT !.queue = addAll(@, es)]
  BY <1>1 DEF initStreamSync, stream, there, local
<1>3. peer \in Peers
  BY <1>2 DEF Inv, Types
<1>4. Lists(es, "sub", Subscribed)
  <2>1. Subscribed \in SUBSET Topics
    BY DEF Subscribed
  <2> QED BY <1>1, <2>1, TopicsListed, Zenon
<1>5. es \in Seq(Changes) /\ Agree(es, Subscribed) /\ \A t \in Subscribed : Mentions(es, t)
  BY <1>4 DEF Lists, Agree, Mentions
<1>6. HooksTell(hook', Subscribed) /\ \A t \in Topics : Hooked(hook, t) => Hooked(hook', t)
  BY <1>2 DEF RouteInv
<1> QED BY <1>2, <1>3, <1>5, <1>6, RoutesAdd

\* A message is not about a topic's subscribers.
LEMMA RoutesMessages ==
  ASSUME Inv, RouteInv, NEW kind \in MsgKinds, sendMessage(kind)
  PROVE  RouteInv'
<1> DEFINE n == Len(shareGot) + 1
<1> DEFINE msg == [kind |-> "msg", n |-> n, rs |-> "rs" \in kind]
<1>1. UNCHANGED <<phase, batch, up, session, applied, routes, hook, topics>>
  BY DEF sendMessage, stream, there, local
<1>2. Types /\ shareGot \in Seq(Nat) /\ routes' \subseteq Topics
  BY <1>1 DEF Inv, Types, RouteInv
<1>3. CASE peer' = peer
  <2>1. Linked' = Linked /\ ToApply' = ToApply /\ WayFromQueue' /\ CleanStart'
    BY <1>1, <1>3, SameLink DEF RouteInv
  <2>2. Linked' => Len(applied') <= peer'.queue.nextID
    BY <1>1, <1>3, <2>1 DEF RouteInv, Told
  <2> QED BY <1>1, <1>2, <2>1, <2>2, RoutesKept
<1>4. CASE peer' # peer
  <2>1. peer # NoPeer /\ peer' = [peer EXCEPT !.queue = addAll(@, <<msg>>)]
    BY <1>4 DEF sendMessage, add
  <2>2. peer \in Peers
    BY <1>2, <2>1, Present
  <2>3. n \in Nat /\ ("rs" \in kind) \in BOOLEAN
    BY <1>2
  <2>4. msg \in Events /\ msg.kind = "msg"
    BY <2>3 DEF Events
  <2> HIDE DEF msg
  <2>5. PICK es : es = <<msg>>
    OBVIOUS
  <2>6. es \in Seq(Events) /\ Len(es) = 1 /\ es[1] = msg
    BY <2>4, <2>5
  <2>7. PICK q : q = peer.queue
    OBVIOUS
  <2>8. PICK a : a = addAll(q, es)
    OBVIOUS
  <2>9. q \in Queues /\ Consecutive(q) /\ q.nextID \in Nat
    BY <2>2, <2>7, PeerTypes DEF Inv, Reconnecting
  <2>10. /\ a \in Queues /\ a.nextID = q.nextID + Len(es) /\ Entries(q) \subseteq Entries(a)
         /\ \A x \in Entries(a) \ Entries(q) :
               \E i \in 1..Len(es) : x = [id |-> q.nextID + i - 1, e |-> es[i]]
    BY <2>6, <2>8, <2>9, QueueAdd
  <2>11. \A x \in Entries(a) : x.e.kind # "msg" => x \in Entries(q)
    BY <2>4, <2>6, <2>10
  <2>12. peer' = [peer EXCEPT !.queue = a]
    BY <2>1, <2>5, <2>7, <2>8
  <2>13. peer' \in Peers /\ peer'.queue = a /\ peer'.sid = peer.sid /\ peer'.reply = peer.reply
    BY <2>2, <2>10, <2>12 DEF Peers
  <2>14. Linked' = Linked
    BY <1>1, <2>2, <2>13 DEF Linked, Current, SameSession
  <2>15. CleanStart' /\ WayFromQueue'
    BY <1>1, <2>7, <2>10, <2>13 DEF RouteInv, CleanStart, WayFromQueue, OnTheWay
  <2>16. \A t : About(ToApply', t) = About(ToApply, t)
    BY <1>1, <2>7, <2>10, <2>11, <2>13 DEF ToApply, Unapplied, About
  <2>17. Subscribed' = Subscribed
    BY <1>1 DEF Subscribed
  <2>18. Told'
    <3> SUFFICES ASSUME Linked' PROVE Told'
      BY DEF Told
    <3>1. /\ Len(applied) <= q.nextID /\ LastTells(ToApply, hook, Subscribed)
          /\ phase # "cleared" => RoutesTell(ToApply, hook, Subscribed, routes)
      BY <2>7, <2>14 DEF RouteInv, Told
    <3>2. Len(applied) \in Nat
      BY <1>2 DEF Types
    <3>3. Len(applied') <= peer'.queue.nextID
      BY <1>1, <2>6, <2>9, <2>10, <2>13, <3>1, <3>2
    <3>4. LastTells(ToApply, hook, Subscribed)'
      BY <1>1, <2>16, <2>17, <3>1 DEF LastTells, Latest
    <3>5. (phase # "cleared" => RoutesTell(ToApply, hook, Subscribed, routes))'
      BY <1>1, <2>16, <2>17, <3>1 DEF RoutesTell
    <3> QED BY <3>3, <3>4, <3>5 DEF Told
  <2> QED BY <1>1, <2>15, <2>17, <2>18 DEF RouteInv
<1> QED BY <1>3, <1>4

LEMMA RoutesHandshake ==
  ASSUME Inv, ~HelloReplyLost, RouteInv,
         nodeJoinHere \/ Hello \/ initStreamClear \/ initStreamOpen \/ initStreamFails
  PROVE  RouteInv'
<1>0. Types /\ Steady /\ routes \subseteq Topics
  BY DEF Inv, Steady, RouteInv
<1>1. UNCHANGED <<hook, topics>>
  BY DEF nodeJoinHere, Hello, initStreamClear, initStreamOpen, initStreamFails, local
<1>2. CASE nodeJoinHere
  <2>1. /\ phase' = "connect" /\ UNCHANGED <<session, routes>>
        /\ peer' = [sid |-> sids + 1, queue |-> newEventQueue, reply |-> None]
    BY <1>2 DEF nodeJoinHere, there
  <2>2. ~SameSession'
    <3>1. session \in Sessions => session.sid <= sids /\ session.sid \in Nat /\ sids \in Nat
      BY <1>0 DEF Steady, SidsOnce, Types, Sessions
    <3>2. peer'.sid = sids + 1
      BY <2>1
    <3> QED BY <2>1, <3>1, <3>2 DEF SameSession
  <2>3. ~Linked' /\ CleanStart' /\ WayFromQueue'
    BY <2>1, <2>2 DEF Linked, Current, CleanStart, WayFromQueue
  <2> QED BY <1>0, <1>1, <2>1, <2>3, RoutesKept
<1>3. CASE Hello
  <2>1. peer \in Peers /\ phase = "connect" /\ phase' = "hello"
    BY <1>0, <1>3 DEF Hello, Types
  <2> DEFINE clean == session = NoSession \/ session.sid # peer.sid
  <2>2. /\ session' = IF clean THEN [sid |-> peer.sid, next |-> 0, seen |-> <<>>] ELSE session
        /\ applied' = IF clean THEN <<>> ELSE applied
        /\ routes' = IF clean THEN {} ELSE routes
        /\ peer' = [peer EXCEPT !.reply = [clean |-> clean, next |-> session'.next]]
    BY <1>3 DEF Hello
  <2>3. peer'.queue = peer.queue /\ peer'.sid = peer.sid /\ peer'.reply.clean = clean
    BY <2>1, <2>2 DEF Peers
  <2>4. Linked' => Linked /\ ToApply' = ToApply /\ applied' = applied /\ routes' = routes
    <3> SUFFICES ASSUME Linked' PROVE Linked /\ ToApply' = ToApply /\ applied' = applied /\ routes' = routes
      OBVIOUS
    <3>1. ~clean
      BY <2>1, <2>3 DEF Linked, Current
    <3>2. session # NoSession /\ session.sid = peer.sid
      BY <3>1
    <3>3. session \in Sessions
      BY <1>0, <3>2, Present
    <3>4. applied' = applied /\ routes' = routes
      BY <2>2, <3>1
    <3> QED BY <2>1, <2>3, <3>2, <3>3, <3>4 DEF Linked, Current, SameSession, ToApply
  <2>5. CleanStart' /\ WayFromQueue' /\ routes' \subseteq Topics
    BY <1>0, <2>1, <2>2, <2>3 DEF CleanStart, WayFromQueue
  <2>6. Linked' => Len(applied') <= peer'.queue.nextID
    BY <2>3, <2>4 DEF RouteInv, Told
  <2> QED BY <1>1, <2>1, <2>4, <2>5, <2>6, RoutesKept
<1>4. CASE initStreamClear
  <2>1. /\ peer \in Peers /\ phase = "hello" /\ peer.reply.clean /\ phase' = "cleared"
        /\ peer' = [peer EXCEPT !.queue = newEventQueue]
        /\ UNCHANGED <<routes, applied>>
    BY <1>0, <1>4 DEF initStreamClear, Types, there
  <2>2. peer'.queue = newEventQueue
    BY <2>1 DEF Peers
  <2>3. Entries(newEventQueue) = {} /\ newEventQueue.nextID = 0
    BY DEF Entries, newEventQueue
  <2>4. ToApply' = {}
    BY <2>2, <2>3 DEF ToApply, Unapplied
  <2>5. CleanStart' /\ WayFromQueue' /\ applied' = <<>>
    BY <2>1 DEF RouteInv, CleanStart, WayFromQueue
  <2>6. Len(applied') <= peer'.queue.nextID
    BY <2>2, <2>3, <2>5
  <2>7. LastTells({}, hook', Subscribed')
    BY DEF LastTells, About
  <2>8. Told'
    BY <2>1, <2>4, <2>6, <2>7 DEF Told
  <2>9. Subscribed' = Subscribed
    BY <1>1 DEF Subscribed
  <2> QED BY <1>1, <2>1, <2>5, <2>8, <2>9 DEF RouteInv
<1>5. CASE initStreamOpen
  <2>1. /\ peer \in Peers /\ UNCHANGED <<session, applied, routes>>
        /\ (phase = "synced" \/ (phase = "hello" /\ ~peer.reply.clean)) /\ phase' = "stream"
        /\ batch' = <<>> /\ up' = <<>>
        /\ peer' = [peer EXCEPT !.queue = setReadPosition(@, peer.reply.next)]
    BY <1>0, <1>5 DEF initStreamOpen, Types, there
  <2>2. PICK q : q = peer.queue
    OBVIOUS
  <2>3. PICK s : s = setReadPosition(q, peer.reply.next)
    OBVIOUS
  <2>4. s.q = q.q /\ s.nextID = q.nextID
    <3>1. q \in Queues
      BY <2>1, <2>2, PeerTypes
    <3>2. s = q \/ s = [q EXCEPT !.nextRead = peer.reply.next]
      BY <2>3 DEF setReadPosition
    <3> QED BY <3>1, <3>2 DEF Queues
  <2>5. peer'.queue = s /\ peer'.sid = peer.sid
    BY <2>1, <2>2, <2>3 DEF Peers
  <2>6. ToApply' = ToApply
    BY <2>1, <2>2, <2>4, <2>5 DEF ToApply, Unapplied, Entries
  <2>7. Linked' => Linked
    BY <2>1, <2>5 DEF Linked, Current, SameSession
  <2>8. OnTheWay' = {}
    BY <2>1 DEF OnTheWay
  <2>9. CleanStart' /\ WayFromQueue'
    BY <2>1, <2>8 DEF CleanStart, WayFromQueue
  <2>10. Linked' => Len(applied') <= peer'.queue.nextID
    BY <2>1, <2>2, <2>4, <2>5, <2>7 DEF RouteInv, Told
  <2> QED BY <1>0, <1>1, <2>1, <2>6, <2>7, <2>9, <2>10, RoutesKept
<1>6. CASE initStreamFails
  <2>1. UNCHANGED <<peer, session, routes>> /\ session \notin Sessions /\ phase' = "connect"
    BY <1>0, <1>6, Present DEF initStreamFails, there
  <2>2. ~Linked' /\ CleanStart' /\ WayFromQueue'
    BY <2>1 DEF Linked, Current, SameSession, CleanStart, WayFromQueue
  <2> QED BY <1>0, <1>1, <2>1, <2>2, RoutesKept
<1> QED BY <1>2, <1>3, <1>4, <1>5, <1>6

LEMMA RoutesStream ==
  ASSUME Inv, RouteInv, fetchEvents \/ send \/ recvAck \/ ackSent
  PROVE  RouteInv'
<1>1. /\ phase = "stream" /\ phase' = phase
      /\ UNCHANGED <<applied, routes, hook, topics>>
  BY DEF Inv, NothingUnderWay, fetchEvents, send, recvAck, ackSent, there, local
<1>2. WayFromQueue /\ Linked /\ routes \subseteq Topics
  BY <1>1 DEF RouteInv, Inv, Streaming, Linked, Current
<1>3. /\ WayFromQueue' /\ peer'.sid = peer.sid /\ session'.sid = session.sid
      /\ peer'.queue.nextID = peer.queue.nextID
      /\ Entries(peer'.queue) \subseteq Entries(peer.queue)
      /\ \A x \in Entries(peer.queue) : x.id >= Len(applied) => x \in Entries(peer'.queue)
  BY <1>2, StreamCarries
<1>4. ToApply' = ToApply
  BY <1>1, <1>3 DEF ToApply, Unapplied
<1>5. Len(applied') <= peer'.queue.nextID
  BY <1>1, <1>2, <1>3 DEF RouteInv, Told
<1>6. CleanStart'
  BY <1>1 DEF CleanStart
<1> QED BY <1>1, <1>2, <1>3, <1>4, <1>5, <1>6, RoutesKept

\* The handler applies the oldest of the events that are still to be applied.
LEMMA RoutesApplies ==
  ASSUME Inv, RouteInv, eventStreamHandler
  PROVE  RouteInv'
<1>0. phase = "stream"
  BY DEF Inv, NothingUnderWay, eventStreamHandler
<1>1. UNCHANGED <<peer, phase, batch, hook, topics>> /\ up # <<>> /\ inHand = None /\ up' = Tail(up)
  BY DEF eventStreamHandler, local
<1>2. /\ Types /\ Steady /\ peer \in Peers /\ session \in Sessions
      /\ session.next \in Nat /\ session.seen \in Seq(Nat)
      /\ up \in Seq(Queued) /\ Len(up) \in Nat
      /\ applied \in Seq(Nat) /\ Len(applied) \in Nat
      /\ peer.queue \in Queues /\ Consecutive(peer.queue)
  BY <1>0, OnStream
<1>3. PICK x : x = up[1]
  OBVIOUS
<1>4. /\ 1 \in 1..Len(up) /\ Head(up) = x /\ x.id = session.next
      /\ \A i \in 1..Len(up') : up'[i] = up[i + 1] /\ i + 1 \in 1..Len(up)
  <2>1. /\ 1 \in 1..Len(up) /\ Head(up) = up[1]
        /\ \A i \in 1..Len(up') : up'[i] = up[i + 1] /\ i + 1 \in 1..Len(up)
    BY <1>1, <1>2
  <2>2. StreamFrom = session.next /\ \A i \in 1..Len(up) : up[i].id = StreamFrom + (i - 1)
    BY <1>0, <1>1, <1>2 DEF Steady, Streaming, StreamFrom
  <2>3. session.next + (1 - 1) = session.next
    BY <1>2
  <2>4. up[1].id = session.next
    BY <2>1, <2>2, <2>3
  <2> QED BY <1>3, <2>1, <2>4
<1>5. /\ \A i \in 1..Len(up) : up[i] \in Entries(peer.queue)
      /\ \A i \in 1..Len(batch) : batch[i] \in Entries(peer.queue)
  BY <1>0 DEF RouteInv, WayFromQueue, OnTheWay
<1>6. WayFromQueue' /\ x \in Entries(peer.queue)
  BY <1>1, <1>3, <1>4, <1>5 DEF WayFromQueue, OnTheWay
<1>7. Linked /\ routes \subseteq Topics /\ CleanStart'
  BY <1>0, <1>1, <1>2 DEF Steady, Streaming, Linked, Current, RouteInv, CleanStart
<1>8. CASE Contains(session.seen, x.id)
  <2>1. UNCHANGED <<session, routes, applied>>
    BY <1>4, <1>8 DEF eventStreamHandler
  <2>2. ToApply' = ToApply
    BY <1>1, <2>1 DEF ToApply
  <2>3. Len(applied') <= peer'.queue.nextID
    BY <1>1, <1>7, <2>1 DEF RouteInv, Told
  <2> QED BY <1>0, <1>1, <1>6, <1>7, <2>1, <2>2, <2>3, RoutesKept
<1>9. CASE ~Contains(session.seen, x.id)
  <2>1. /\ applied' = Append(applied, x.id)
        /\ routes' = CASE x.e.kind = "sub"   -> routes \cup {x.e.t}
                       [] x.e.kind = "unsub" -> routes \ {x.e.t}
                       [] x.e.kind = "msg"   -> routes
    BY <1>4, <1>9 DEF eventStreamHandler
  <2>2. x.id = Len(applied)
    <3>1. \A i \in 1..Len(session.seen) : session.seen[i] # x.id
      BY <1>9 DEF Contains
    <3>2. session.seen # <<>> => Len(session.seen) \in 1..Len(session.seen)
      BY <1>2
    <3> QED BY <1>2, <1>4, <3>1, <3>2 DEF Steady, SessionInStep
  <2>3. Len(applied') = Len(applied) + 1
    BY <1>2, <1>4, <2>1
  <2>4. /\ x \in Queued /\ x.id < peer.queue.nextID /\ peer.queue.nextID \in Nat
        /\ \A y \in Entries(peer.queue) : y.id \in Nat
    BY <1>2, <1>6, QueueIds
  <2>5. Len(applied') <= peer'.queue.nextID
    BY <1>1, <1>2, <2>2, <2>3, <2>4
  <2>6. /\ ToApply' = {y \in ToApply : y.id # x.id} /\ x \in ToApply
        /\ \A y \in ToApply : y.id >= x.id /\ y.id \in Nat
    BY <1>1, <1>2, <1>6, <2>2, <2>3, <2>4 DEF ToApply, Unapplied
  <2>7. \A y \in ToApply : y.id = x.id => y = x
    <3>1. ASSUME NEW y \in Entries(peer.queue), y.id = x.id PROVE y = x
      <4>1. PICK q : q = peer.queue
        OBVIOUS
      <4>2. PICK i \in 1..Len(q.q) : x = q.q[i]
        BY <1>6, <4>1 DEF Entries
      <4>3. PICK j \in 1..Len(q.q) : y = q.q[j]
        BY <4>1 DEF Entries
      <4>4. q.q[i].id = (q.nextID - Len(q.q)) + (i - 1) /\ q.q[j].id = (q.nextID - Len(q.q)) + (j - 1)
        BY <1>2, <4>1 DEF Consecutive
      <4>5. q.nextID \in Nat /\ Len(q.q) \in Nat
        BY <1>2, <4>1 DEF Queues
      <4>6. i = j
        BY <3>1, <4>2, <4>3, <4>4, <4>5
      <4> QED BY <4>2, <4>3, <4>6
    <3> QED BY <3>1 DEF ToApply, Unapplied
  <2>8. \A t : About(ToApply', t) = About(ToApply, t) \ {x}
    BY <2>6, <2>7 DEF About
  <2>9. /\ LastTells(ToApply, hook, Subscribed)
        /\ RoutesTell(ToApply, hook, Subscribed, routes)
    BY <1>0, <1>7 DEF RouteInv, Told
  <2>10. Subscribed' = Subscribed
    BY <1>1 DEF Subscribed
  <2>11. LastTells(ToApply', hook, Subscribed)
    <3> SUFFICES ASSUME NEW t \in Topics, ~Hooked(hook, t), NEW y \in About(ToApply', t), Latest(ToApply', t, y)
                 PROVE  y.e.kind = "sub" <=> t \in Subscribed
      BY DEF LastTells
    <3>1. y \in About(ToApply, t) /\ y \in ToApply
      BY <2>8 DEF About
    <3>2. \A z \in About(ToApply, t) : z.id <= y.id
      BY <2>6, <2>8, <3>1 DEF Latest
    <3> QED BY <2>9, <3>1, <3>2 DEF LastTells, Latest
  <2>12. x.e \in Events
    BY <2>4 DEF Queued
  <2>13. \/ x.e.kind \in {"sub", "unsub"} /\ x.e.t \in Topics
         \/ x.e.kind = "msg"
    BY <2>12 DEF Events, Changes
  <2>14. /\ x.e.kind = "sub" => routes' = routes \cup {x.e.t}
         /\ x.e.kind = "unsub" => routes' = routes \ {x.e.t}
         /\ x.e.kind = "msg" => routes' = routes
    BY <2>1
  <2>15. routes' \subseteq Topics
    BY <1>7, <2>13, <2>14
  <2>16. RoutesTell(ToApply', hook, Subscribed, routes')
    <3> SUFFICES ASSUME NEW t \in Topics, ~Hooked(hook, t), About(ToApply', t) = {}
                 PROVE  t \in routes' <=> t \in Subscribed
      BY DEF RoutesTell
    <3>1. CASE x \in About(ToApply, t)
      <4>1. x.e.t = t /\ x.e.kind \in {"sub", "unsub"}
        BY <2>13, <3>1 DEF About
      <4>2. \A y \in About(ToApply, t) : y.id <= x.id
        BY <2>6, <2>8, <3>1 DEF About
      <4>3. x.e.kind = "sub" <=> t \in Subscribed
        BY <2>9, <3>1, <4>2 DEF LastTells, Latest
      <4>4. x.e.kind = "sub" <=> t \in routes'
        BY <2>14, <4>1
      <4> QED BY <4>3, <4>4
    <3>2. CASE x \notin About(ToApply, t)
      <4>1. About(ToApply, t) = {}
        BY <2>8, <3>2
      <4>2. t \in routes <=> t \in Subscribed
        BY <2>9, <4>1 DEF RoutesTell
      <4>3. x.e.kind = "msg" \/ x.e.t # t
        BY <2>6, <3>2 DEF About
      <4>4. t \in routes' <=> t \in routes
        BY <2>13, <2>14, <4>3
      <4> QED BY <4>2, <4>4
    <3> QED BY <3>1, <3>2
  <2>17. Told'
    BY <1>1, <2>5, <2>10, <2>11, <2>16 DEF Told
  <2> QED BY <1>1, <1>6, <1>7, <2>10, <2>15, <2>17 DEF RouteInv
<1> QED BY <1>8, <1>9

LEMMA RoutesFaults ==
  ASSUME Inv, RouteInv, streamBreaks \/ nodeFailHere \/ nodeFailThere \/ restartHere
  PROVE  RouteInv'
<1>0. Types /\ routes \subseteq Topics /\ phase' # "stream" /\ WayFromQueue'
  BY DEF Inv, RouteInv, WayFromQueue, streamBreaks, nodeFailHere, nodeFailThere, restartHere
<1>1. CASE streamBreaks
  <2>1. UNCHANGED <<peer, session, applied, routes, hook, topics>> /\ phase = "stream" /\ phase' \in {"connect", "ended"}
    BY <1>1 DEF streamBreaks, local
  <2>2. (Linked' => Linked) /\ ToApply' = ToApply /\ CleanStart'
    BY <2>1 DEF Linked, Current, SameSession, ToApply, CleanStart
  <2>3. Linked' => Len(applied') <= peer'.queue.nextID
    BY <2>1, <2>2 DEF RouteInv, Told
  <2> QED BY <1>0, <2>1, <2>2, <2>3, RoutesKept
<1>2. CASE nodeFailHere
  <2>1. peer' \notin Peers /\ phase' = "none" /\ UNCHANGED <<routes, hook, topics>>
    BY <1>2, NoneIsNothing DEF nodeFailHere, NoPeer, local
  <2>2. ~Linked' /\ CleanStart'
    BY <2>1 DEF Linked, Current, SameSession, CleanStart
  <2> QED BY <1>0, <2>1, <2>2, RoutesKept
<1>3. CASE nodeFailThere
  <2>1. /\ session' \notin Sessions /\ UNCHANGED <<peer, hook, topics>>
        /\ routes' = {} /\ applied' = <<>>
        /\ phase' = IF phase = "stream" THEN "connect" ELSE phase
    BY <1>3, NoneIsNothing DEF nodeFailThere, NoSession, local
  <2>2. CleanStart'
    BY <2>1 DEF CleanStart
  <2>3. Linked' => phase = "cleared" /\ phase' = "cleared" /\ Linked
    BY <2>1 DEF Linked, Current, SameSession
  <2>4. Linked' => applied' = applied
    BY <2>1, <2>3 DEF RouteInv, CleanStart
  <2>5. Linked' => ToApply' = ToApply /\ Len(applied') <= peer'.queue.nextID
    BY <2>1, <2>3, <2>4 DEF ToApply, RouteInv, Told
  <2> QED BY <1>0, <2>1, <2>2, <2>3, <2>5, RoutesKept
<1>4. CASE restartHere
  <2>1. /\ peer' \notin Peers /\ phase' = "none" /\ routes' = routes
        /\ topics' = [t \in Topics |-> 0] /\ hook' = [c \in Clients |-> <<>>]
    BY <1>4, NoneIsNothing DEF restartHere, NoPeer
  <2>2. Told' /\ CleanStart'
    BY <2>1 DEF Told, Linked, Current, SameSession, CleanStart
  <2>3. HooksTell(hook, Subscribed)'
    <3>1. Agree(<<>>, Subscribed')
      BY DEF Agree
    <3> QED BY <2>1, <3>1 DEF HooksTell
  <2>4. topics' \in [Topics -> Int]
    BY <2>1
  <2> QED BY <1>0, <2>1, <2>2, <2>3, <2>4 DEF RouteInv
<1> QED BY <1>1, <1>2, <1>3, <1>4

LEMMA RoutesQuiet ==
  ASSUME Inv, RouteInv, nodeJoinThere \/ UNCHANGED vars
  PROVE  RouteInv'
<1>1. UNCHANGED <<peer, phase, batch, up, session, applied, routes, hook, topics>>
  BY DEF nodeJoinThere, vars, local, stream, there
<1>2. Linked' = Linked /\ ToApply' = ToApply /\ WayFromQueue' /\ CleanStart' /\ routes' \subseteq Topics
  BY <1>1, SameLink DEF RouteInv
<1>3. Linked' => Len(applied') <= peer'.queue.nextID
  BY <1>1, <1>2 DEF RouteInv, Told
<1> QED BY <1>1, <1>2, <1>3, RoutesKept

\* When nothing is under way, everything queued has been applied.
LEMMA QuietRoutes ==
  ASSUME Inv, RouteInv, Quiet
  PROVE  routes = Subscribed
<1>1. /\ phase = "stream" /\ batch = <<>> /\ up = <<>> /\ inHand = None
      /\ peer.queue.nextRead = Nil /\ \A c \in Clients : hook[c] = <<>>
  BY DEF Quiet, Pending
<1>2. /\ Steady /\ session \in Sessions /\ session.next \in Nat /\ Len(applied) \in Nat
      /\ peer.queue \in Queues /\ Consecutive(peer.queue) /\ peer.queue.nextID \in Nat
  BY <1>1, OnStream
<1>3. peer.queue.nextID = session.next
  <2>1. peer.queue.nextID = StreamFrom + Len(up) + Len(batch) /\ StreamFrom = session.next
    BY <1>1, <1>2 DEF Steady, Streaming, StreamFrom
  <2>2. Len(up) = 0 /\ Len(batch) = 0
    BY <1>1
  <2> QED BY <1>2, <2>1, <2>2
<1>4. session.next <= Len(applied)
  BY <1>2 DEF Steady, SessionInStep
<1>5. \A x \in Entries(peer.queue) : x.id \in Nat /\ x.id < peer.queue.nextID
  BY <1>2, QueueIds
<1>6. ToApply = {}
  BY <1>2, <1>3, <1>4, <1>5 DEF ToApply, Unapplied
<1>7. Linked
  BY <1>1, <1>2 DEF Steady, Streaming, Linked, Current
<1>8. RoutesTell({}, hook, Subscribed, routes)
  BY <1>1, <1>6, <1>7 DEF RouteInv, Told
<1>9. \A t \in Topics : ~Hooked(hook, t)
  BY <1>1 DEF Hooked, Mentions
<1>10. \A t \in Topics : t \in routes <=> t \in Subscribed
  BY <1>8, <1>9 DEF RoutesTell, About
<1>11. routes \subseteq Topics /\ Subscribed \subseteq Topics
  BY DEF RouteInv, Subscribed
<1> QED BY <1>10, <1>11

\* Once all events are through, There routes to Here exactly the topics that have a subscriber
\* here, whatever streams break and whichever node fails or restarts, as long as no two hooks
\* have an event about the same topic to queue at once (localSubStore, OnSubscribed,
\* OnUnsubscribed and OnSessionTerminated, initStream, eventStreamHandler).
THEOREM RoutesComeToMatch ==
  ASSUME ~HelloReplyLost
  PROVE  Spec /\ []HooksApart => []RoutesMatch
<1>1. Init => RouteInv
  <2> SUFFICES ASSUME Init PROVE RouteInv
    OBVIOUS
  <2>1. /\ peer \notin Peers /\ phase = "none" /\ routes = {}
        /\ topics = [t \in Topics |-> 0] /\ hook = [c \in Clients |-> <<>>]
    BY NoneIsNothing DEF Init, InitLocal, NoPeer
  <2>2. Told /\ CleanStart /\ WayFromQueue
    BY <2>1 DEF Told, Linked, Current, SameSession, CleanStart, WayFromQueue
  <2>3. HooksTell(hook, Subscribed)
    <3>1. Agree(<<>>, Subscribed)
      BY DEF Agree
    <3> QED BY <2>1, <3>1 DEF HooksTell
  <2>4. topics \in [Topics -> Int]
    BY <2>1
  <2> QED BY <2>1, <2>2, <2>3, <2>4 DEF RouteInv
<1>2. Inv /\ RouteInv /\ HooksApart' /\ [Next]_vars => RouteInv'
  <2> SUFFICES ASSUME Inv, RouteInv, HooksApart', [Next]_vars PROVE RouteInv'
    OBVIOUS
  <2>1. ASSUME NEW c \in Clients,
               (\E t \in Topics : OnSubscribed(c, t) \/ OnUnsubscribed(c, t)) \/ OnSessionTerminated(c)
        PROVE  RouteInv'
    BY <2>1, RoutesHooks
  <2>2. ASSUME NEW kind \in MsgKinds, sendMessage(kind) PROVE RouteInv'
    BY <2>2, RoutesMessages
  <2>3. ASSUME NEW c \in Clients, Broadcast(c) PROVE RouteInv'
    BY <2>3, RoutesBroadcast
  <2>4. CASE nodeJoinHere \/ Hello \/ initStreamClear \/ initStreamOpen \/ initStreamFails
    BY <2>4, RoutesHandshake
  <2>5. CASE initStreamSync
    BY <2>5, RoutesSync
  <2>6. CASE fetchEvents \/ send \/ recvAck \/ ackSent
    BY <2>6, RoutesStream
  <2>7. CASE eventStreamHandler
    BY <2>7, RoutesApplies
  <2>8. CASE streamBreaks \/ nodeFailHere \/ nodeFailThere \/ restartHere
    BY <2>8, RoutesFaults
  <2>9. CASE nodeJoinThere \/ UNCHANGED vars
    BY <2>9, RoutesQuiet
  <2> QED BY <2>1, <2>2, <2>3, <2>4, <2>5, <2>6, <2>7, <2>8, <2>9, Zenon DEF Next, Work, Faults
<1>3. Inv /\ RouteInv => RoutesMatch
  BY QuietRoutes DEF RoutesMatch
<1> QED BY <1>1, <1>2, <1>3, Invariance, PTL DEF Spec

\* With a single client the hooks are never about the same topic at once: a client's next hook
\* waits until the events of the one before are queued.
COROLLARY OneClientsRoutesMatch ==
  ASSUME ~HelloReplyLost, \A c, d \in Clients : c = d
  PROVE  Spec => []RoutesMatch
<1>1. HooksApart
  BY DEF HooksApart
<1> QED BY <1>1, RoutesComeToMatch, PTL


=============================================================================
