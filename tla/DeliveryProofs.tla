--------------------------- MODULE DeliveryProofs ---------------------------
(***************************************************************************)
(* Delivery to one session, for any number of messages, identifiers and    *)
(* connections: the limiter and the queue agree, the queue is used as      *)
(* MemQueue allows, and the session implements ReliableDelivery.           *)
(*                                                                         *)
(* The argument follows each identifier.  While an element in front of the *)
(* cursor carries it, at most one packet or acknowledgement with it is     *)
(* under way (TokenInv) and matches that element (PacketInv); the limiter  *)
(* locks it (LockInv), and gives it to no other message before the handler *)
(* that removed the element has released it.                               *)
(***************************************************************************)
EXTENDS Delivery, Integers, FiniteSetTheorems, TLAPS

\* The facts about the queue are those of QueueStoresProofs for the store in memory; the variables
\* of the redis store, which none of them names, stand still.
Q == INSTANCE QueueStoresProofs WITH
       len <- 0, readCache <- {}, inited <- TRUE, done <- {}, crashes <- 0,
       backend <- "memory", Backends <- {"memory"}, MaxCrashes <- 0

\* The elements of the queue before its cursor, which the poller has been given, and the others.
QueueInv == Q!QueueInv
Elem == Q!Elem
Written == Q!Written
Waiting == Q!Waiting
Entries(s) == {s[i] : i \in 1 .. Len(s)}
NoRepeat(s) == \A i, j \in 1 .. Len(s) : s[i].id # 0 /\ i # j => s[i].id # s[j].id

-----------------------------------------------------------------------------
(* What the queue's operations do to its two parts.                         *)

\* The fields of an element.
LEMMA Elements ==
  ASSUME NEW x \in Elem
  PROVE  /\ x.msg \in 1 .. MaxMsgs /\ x.id \in 0 .. MaxPacketID /\ x.qos \in 0 .. 2
         /\ x.kind \in {"publish", "pubrel"} /\ x.expiry \in {"never", "armed", "expired"}
         /\ x.msg \in Nat /\ x.id \in Nat /\ x.qos \in Nat
<1>1. MaxMsgs \in Nat /\ MaxPacketID \in Nat
  BY QueueAndLimiterAssumption
<1> QED BY <1>1 DEF Elem, Q!Elem

\* What QueueInv says of the two parts: identifiers and messages are distinct, the front part
\* carries identifiers and is older than the rest.
LEMMA Parts ==
  ASSUME QueueInv
  PROVE  /\ Written \subseteq Elem /\ Waiting \subseteq Elem
         /\ \A x \in Written : x.id # 0
         /\ \A x, y \in Written \cup Waiting : x.id # 0 /\ x.id = y.id => x = y
         /\ \A x, y \in Written \cup Waiting : x.msg = y.msg => x = y
         /\ \A x \in Written, y \in Waiting : x.msg < y.msg
         /\ Written \cap Waiting = {}
         /\ \A x \in Written \cup Waiting : x.msg <= added /\ (x.kind = "pubrel" => x.id # 0)
         /\ inflightDrained => \A x \in Waiting : x.id = 0
  BY Q!Parts, QueueAndLimiterAssumption, DeliveryAssumption DEF QueueInv, Written, Waiting, Elem

\* The types of the counters.
LEMMA Counts ==
  ASSUME QueueInv
  PROVE  /\ added \in 0 .. MaxMsgs /\ added \in Nat /\ MaxMsgs \in Nat /\ dropped \subseteq 1 .. MaxMsgs
         /\ inflightDrained \in BOOLEAN /\ closed \in BOOLEAN
  BY QueueAndLimiterAssumption DEF QueueInv, Q!QueueInv

\* The element addMsgToQueueLocked makes of a message.
LEMMA NewElements ==
  ASSUME QueueInv, added < MaxMsgs, NEW qos \in QoSs, NEW expiry \in Expiries, NEW big \in Sizes,
         NEW e, e = MQ!NewElem(qos, expiry, big)
  PROVE  /\ e \in Elem /\ e.id = 0 /\ e.kind = "publish" /\ e.msg = added + 1 /\ e.qos = qos
         /\ e.expiry # "expired"
<1>1. e = Q!NewElem(qos, expiry, big)
  BY DEF MQ!NewElem, Q!NewElem
<1>2. e \in Elem /\ e.id = 0 /\ e.kind = "publish" /\ e.msg = added + 1
  BY <1>1, Q!NewMessages, QueueAndLimiterAssumption, DeliveryAssumption DEF QueueInv, Elem
<1>3. e.qos = qos /\ e.expiry = expiry
  BY DEF MQ!NewElem
<1> QED BY <1>2, <1>3, QueueAndLimiterAssumption

\* Add with room puts the element at the end.
LEMMA AddingWithRoom ==
  ASSUME QueueInv, NEW e \in Elem, e.id = 0, e.kind = "publish", e.msg = added + 1, MQ!AddRoom(e)
  PROVE  /\ QueueInv' /\ Written' = Written /\ Waiting' = Waiting \cup {e}
         /\ added' = added + 1 /\ UNCHANGED <<dropped, closed, inflightDrained>>
<1>1. Q!AddRoom(e)
  BY DEF MQ!AddRoom, MQ!Full, Q!AddRoom, Q!Full
<1>2. QueueInv'
  BY <1>1, Q!AddsWithRoom, QueueAndLimiterAssumption, DeliveryAssumption DEF QueueInv, Elem
<1>3. Written' = Written /\ Waiting' = Waiting \cup {e}
  BY <1>1, Q!PartsWithRoom, QueueAndLimiterAssumption, DeliveryAssumption DEF QueueInv, Written, Waiting
<1> QED BY <1>2, <1>3 DEF MQ!AddRoom

\* Add to a full queue takes out the expired element in front, or one that waits.
LEMMA AddingEvicting ==
  ASSUME QueueInv, NEW e \in Elem, e.id = 0, e.kind = "publish", e.msg = added + 1, MQ!AddEvict(e)
  PROVE  /\ QueueInv' /\ added' = added + 1 /\ UNCHANGED <<closed, inflightDrained>>
         /\ \E x \in Written \cup Waiting :
               /\ dropped' = dropped \cup (IF x.kind = "publish" THEN {x.msg} ELSE {})
               /\ Written' = Written \ {x} /\ Waiting' = (Waiting \ {x}) \cup {e}
               /\ \/ MQ!FrontExpired /\ x = l[1] /\ x \in Written /\ x.expiry = "expired"
                  \/ ~MQ!FrontExpired /\ x \in Waiting /\ x.id = 0
<1>1. Q!AddEvict(e)
  BY DEF MQ!AddEvict, MQ!Victim, MQ!FrontExpired, MQ!ElemExpiry, MQ!Scans, MQ!Full, MQ!Unread,
         MQ!ExpiredUnread, MQ!QoS0Unread, MQ!ScanPanics, MQ!NotifyDropped, MQ!SeqExt!RemoveAt, MQ!Min,
         Q!AddEvict, Q!Victim, Q!FrontExpired, Q!ElemExpiry, Q!Scans, Q!Full, Q!Unread,
         Q!ExpiredUnread, Q!QoS0Unread, Q!ScanPanics, Q!NotifyDropped, Q!SeqExt!RemoveAt, Q!Min
<1>2. QueueInv'
  BY <1>1, Q!AddsEvicting, QueueAndLimiterAssumption, DeliveryAssumption DEF QueueInv, Elem
<1>3. Q!FrontExpired <=> MQ!FrontExpired
  BY DEF Q!FrontExpired, MQ!FrontExpired, MQ!ElemExpiry, Q!ElemExpiry
<1>4. \E x \in Written \cup Waiting :
         /\ dropped' = dropped \cup (IF x.kind = "publish" THEN {x.msg} ELSE {})
         /\ Written' = Written \ {x} /\ Waiting' = (Waiting \ {x}) \cup {e}
         /\ \/ Q!FrontExpired /\ x = l[1] /\ x \in Written /\ x.expiry = "expired"
            \/ ~Q!FrontExpired /\ x \in Waiting /\ x.id = 0
  BY <1>1, Q!PartsEvicting, QueueAndLimiterAssumption, DeliveryAssumption DEF QueueInv, Written, Waiting
<1> QED BY <1>2, <1>3, <1>4 DEF MQ!AddEvict

\* Add drops what it was given.
LEMMA AddingDropping ==
  ASSUME QueueInv, NEW e \in Elem, e.msg = added + 1, MQ!AddReject(e) \/ MQ!AddPanic(e)
  PROVE  /\ QueueInv' /\ Written' = Written /\ Waiting' = Waiting /\ dropped' = dropped \cup {e.msg}
         /\ added' = added + 1 /\ UNCHANGED <<closed, inflightDrained>>
<1>1. Q!AddReject(e) \/ Q!AddPanic(e)
  BY DEF MQ!AddReject, MQ!AddPanic, MQ!Victim, MQ!FrontExpired, MQ!ElemExpiry, MQ!Scans, MQ!Full, MQ!Unread,
         MQ!ExpiredUnread, MQ!QoS0Unread, MQ!ScanPanics, MQ!NotifyDropped, MQ!Min, MQ!queueVars,
         Q!AddReject, Q!AddPanic, Q!Victim, Q!FrontExpired, Q!ElemExpiry, Q!Scans, Q!Full, Q!Unread,
         Q!ExpiredUnread, Q!QoS0Unread, Q!ScanPanics, Q!NotifyDropped, Q!Min, Q!queueVars
<1>2. QueueInv'
  BY <1>1, Q!AddsDropping, QueueAndLimiterAssumption, DeliveryAssumption DEF QueueInv, Elem
<1>3. /\ UNCHANGED <<l, current, inflightDrained, closed>> /\ dropped' = dropped \cup {e.msg}
      /\ added' = added + 1
  BY DEF MQ!AddReject, MQ!AddPanic, MQ!queueVars, MQ!NotifyDropped
<1>4. Written' = Written /\ Waiting' = Waiting
  BY <1>3 DEF Written, Waiting, Q!Written, Q!Waiting
<1> QED BY <1>2, <1>3, <1>4

\* Remove takes the element with the identifier out of the front part, if there is one.
LEMMA Removing ==
  ASSUME QueueInv, NEW pid, MQ!Remove(pid)
  PROVE  /\ QueueInv' /\ UNCHANGED <<inflightDrained, closed, added, dropped>>
         /\ \/ UNCHANGED MQ!mqVars /\ (\A x \in Written : x.id # pid) /\ UNCHANGED <<Written, Waiting>>
            \/ \E x \in Written : x.id = pid /\ Written' = Written \ {x} /\ Waiting' = Waiting
<1>1. Q!Remove(pid)
  BY DEF MQ!Remove, Q!Remove, MQ!mqVars, Q!mqVars, MQ!Carrying, Q!Carrying, MQ!Min, Q!Min,
         MQ!SeqExt!RemoveAt, Q!SeqExt!RemoveAt
<1>2. QueueInv'
  BY <1>1, Q!Removes, QueueAndLimiterAssumption, DeliveryAssumption DEF QueueInv
<1>3. \/ UNCHANGED Q!mqVars /\ \A x \in Written : x.id # pid
      \/ /\ UNCHANGED <<inflightDrained, closed, added, dropped>>
         /\ \E x \in Written : x.id = pid /\ Written' = Written \ {x} /\ Waiting' = Waiting
  BY <1>1, Q!PartsRemoving, QueueAndLimiterAssumption, DeliveryAssumption DEF QueueInv, Written, Waiting
<1>4. UNCHANGED Q!mqVars => UNCHANGED MQ!mqVars /\ UNCHANGED <<Written, Waiting>>
  BY DEF Q!mqVars, MQ!mqVars, Written, Waiting, Q!Written, Q!Waiting
<1>5. UNCHANGED Q!mqVars => UNCHANGED <<inflightDrained, closed, added, dropped>>
  BY DEF Q!mqVars
<1> QED BY <1>2, <1>3, <1>4, <1>5

\* Replace makes a PUBREL of it.
LEMMA Replacing ==
  ASSUME QueueInv, NEW pid, MQ!Replace(pid)
  PROVE  /\ QueueInv' /\ UNCHANGED <<inflightDrained, closed, added, dropped>>
         /\ \/ UNCHANGED MQ!mqVars /\ (\A x \in Written : x.id # pid) /\ UNCHANGED <<Written, Waiting>>
            \/ \E x \in Written, y \in Elem :
                  /\ x.id = pid /\ Waiting' = Waiting /\ Written' = (Written \ {x}) \cup {y}
                  /\ y.id = pid /\ y.msg = x.msg /\ y.qos = x.qos /\ y.kind = "pubrel" /\ y.expiry = "never"
<1>1. Q!Replace(pid)
  BY DEF MQ!Replace, Q!Replace, MQ!mqVars, Q!mqVars, MQ!Carrying, Q!Carrying, MQ!Min, Q!Min
<1>2. QueueInv'
  BY <1>1, Q!Replaces, QueueAndLimiterAssumption, DeliveryAssumption DEF QueueInv
<1>3. \/ UNCHANGED Q!mqVars /\ \A x \in Written : x.id # pid
      \/ /\ UNCHANGED <<inflightDrained, closed, added, dropped>>
         /\ \E x \in Written :
               /\ x.id = pid /\ Waiting' = Waiting
               /\ Written' = (Written \ {x}) \cup {[x EXCEPT !.kind = "pubrel", !.expiry = "never"]}
  BY <1>1, Q!PartsReplacing, QueueAndLimiterAssumption, DeliveryAssumption DEF QueueInv, Written, Waiting
<1>4. UNCHANGED Q!mqVars => UNCHANGED MQ!mqVars /\ UNCHANGED <<Written, Waiting>>
  BY DEF Q!mqVars, MQ!mqVars, Written, Waiting, Q!Written, Q!Waiting
<1>5. UNCHANGED Q!mqVars => UNCHANGED <<inflightDrained, closed, added, dropped>>
  BY DEF Q!mqVars
<1>6. ASSUME NEW x \in Written, NEW y, y = [x EXCEPT !.kind = "pubrel", !.expiry = "never"]
      PROVE  /\ y \in Elem /\ y.id = x.id /\ y.msg = x.msg /\ y.qos = x.qos /\ y.kind = "pubrel"
             /\ y.expiry = "never"
  <2>1. x \in Elem
    BY Parts
  <2> QED BY <1>6, <2>1 DEF Elem, Q!Elem
<1>7. CASE UNCHANGED Q!mqVars /\ \A x \in Written : x.id # pid
  BY <1>2, <1>4, <1>5, <1>7
<1>8. CASE ~(UNCHANGED Q!mqVars /\ \A x \in Written : x.id # pid)
  <2>1. PICK x \in Written :
           /\ x.id = pid /\ Waiting' = Waiting
           /\ Written' = (Written \ {x}) \cup {[x EXCEPT !.kind = "pubrel", !.expiry = "never"]}
    BY <1>3, <1>8
  <2>2. PICK y : y = [x EXCEPT !.kind = "pubrel", !.expiry = "never"]
    OBVIOUS
  <2>3. /\ y \in Elem /\ y.id = x.id /\ y.msg = x.msg /\ y.qos = x.qos /\ y.kind = "pubrel"
        /\ y.expiry = "never"
    BY <1>6, <2>2
  <2> QED BY <1>2, <1>3, <1>8, <2>1, <2>2, <2>3
<1> QED BY <1>7, <1>8

\* An element expires in place.
LEMMA Expiring ==
  ASSUME QueueInv, NEW v \in 1 .. Len(l), MQ!Expire(v)
  PROVE  /\ QueueInv' /\ UNCHANGED <<inflightDrained, closed, added, dropped>>
         /\ \E y \in Elem :
               /\ y.id = l[v].id /\ y.msg = l[v].msg /\ y.qos = l[v].qos /\ y.kind = l[v].kind
               /\ y.expiry = "expired"
               /\ \/ l[v] \in Written /\ Written' = (Written \ {l[v]}) \cup {y} /\ Waiting' = Waiting
                  \/ l[v] \in Waiting /\ Waiting' = (Waiting \ {l[v]}) \cup {y} /\ Written' = Written
<1>1. Q!Expire(v)
  BY DEF MQ!Expire, Q!Expire
<1>2. QueueInv'
  BY <1>1, Q!Expires, QueueAndLimiterAssumption, DeliveryAssumption DEF QueueInv
<1>3. PICK y : y = [l[v] EXCEPT !.expiry = "expired"]
  OBVIOUS
<1>4. /\ UNCHANGED <<current, inflightDrained, closed, added, dropped>>
      /\ \/ l[v] \in Written /\ Written' = (Written \ {l[v]}) \cup {y} /\ Waiting' = Waiting
         \/ l[v] \in Waiting /\ Waiting' = (Waiting \ {l[v]}) \cup {y} /\ Written' = Written
  BY <1>1, <1>3, Q!PartsExpiring, QueueAndLimiterAssumption, DeliveryAssumption DEF QueueInv, Written, Waiting
<1>5. l[v] \in Elem
  BY <1>4, Parts
<1>6. /\ y \in Elem /\ y.id = l[v].id /\ y.msg = l[v].msg /\ y.qos = l[v].qos /\ y.kind = l[v].kind
      /\ y.expiry = "expired"
  BY <1>3, <1>5 DEF Elem, Q!Elem
<1> QED BY <1>2, <1>4, <1>6

\* Init for a resumed session puts everything back behind the cursor.
LEMMA Resuming ==
  ASSUME QueueInv, MQ!InitResume
  PROVE  /\ QueueInv' /\ closed' = FALSE /\ inflightDrained' = FALSE /\ UNCHANGED <<added, dropped>>
         /\ Written' = {} /\ Waiting' = Written \cup Waiting
<1>1. Q!InitResume
  BY DEF MQ!InitResume, Q!InitResume
<1>2. QueueInv'
  BY <1>1, Q!Resumes, QueueAndLimiterAssumption, DeliveryAssumption DEF QueueInv
<1>3. Written' = {} /\ Waiting' = Written \cup Waiting
  BY <1>1, Q!PartsResuming, QueueAndLimiterAssumption, DeliveryAssumption DEF QueueInv, Written, Waiting
<1> QED BY <1>2, <1>3 DEF MQ!InitResume

\* Close leaves the elements alone.
LEMMA Closing ==
  ASSUME QueueInv, MQ!Close
  PROVE  /\ QueueInv' /\ closed' = TRUE /\ UNCHANGED <<inflightDrained, added, dropped>>
         /\ UNCHANGED <<Written, Waiting>>
<1>1. Q!Close
  BY DEF MQ!Close, Q!Close
<1>2. QueueInv'
  BY <1>1, Q!Resumes, QueueAndLimiterAssumption, DeliveryAssumption DEF QueueInv
<1> QED BY <1>2 DEF MQ!Close, Written, Waiting, Q!Written, Q!Waiting

\* Nothing happens to a queue that stands still.
LEMMA StandingStill ==
  ASSUME QueueInv, UNCHANGED queue
  PROVE  QueueInv' /\ UNCHANGED <<Written, Waiting>>
  BY DEF queue, QueueInv, Q!QueueInv, Q!WellFormed, Written, Waiting, Q!Written, Q!Waiting

\* What ReadInflight returns comes to the front part, with its expiry set anew.
LEMMA ReadingInflight ==
  ASSUME QueueInv, limit \in Limits, InflightExpiry, MQ!ReadInflight(limit), NEW r, r = MQ!ReadInflightResult(limit)
  PROVE  /\ QueueInv' /\ UNCHANGED <<closed, added, dropped>>
         /\ r \in Seq(Elem) /\ NoRepeat(r) /\ Entries(r) \subseteq Waiting
         /\ \A x \in Entries(r) : x.id # 0
         /\ \A x \in Entries(r) : \E y \in Written' :
               y.id = x.id /\ y.msg = x.msg /\ y.qos = x.qos /\ y.kind = x.kind /\ y.expiry = "armed"
         /\ \A y \in Written' : y \in Written \/ \E x \in Entries(r) :
               y.id = x.id /\ y.msg = x.msg /\ y.qos = x.qos /\ y.kind = x.kind /\ y.expiry = "armed"
         /\ Written \subseteq Written' /\ Waiting' = Waiting \ Entries(r)
         /\ r = <<>> => \A x \in Waiting : x.id = 0
         /\ inflightDrained => UNCHANGED MQ!mqVars
<1>1. limit \in 1 .. MaxPacketID
  BY QueueAndLimiterAssumption
<1>2. Q!ReadInflight(limit) /\ r = Q!ReadInflightResult(limit)
  BY DEF MQ!ReadInflight, MQ!ReadInflightResult, MQ!InflightRun, MQ!Window, MQ!Unread, MQ!Rearm, MQ!Min, MQ!Cardinality,
         Q!ReadInflight, Q!ReadInflightResult, Q!InflightRun, Q!Window, Q!Unread, Q!Rearm, Q!Min, Q!Cardinality
<1>3. Q!QueueInv' /\ Q!InflightRead(r)
  BY <1>1, <1>2, Q!PartsReadInflight, QueueAndLimiterAssumption, DeliveryAssumption DEF QueueInv
<1>4. Entries(r) = Q!EntriesOf(r) /\ (NoRepeat(r) <=> Q!DistinctIds(r))
  BY DEF Entries, Q!EntriesOf, NoRepeat, Q!DistinctIds
<1>5. /\ QueueInv' /\ UNCHANGED <<closed, added, dropped>>
      /\ r \in Seq(Elem) /\ NoRepeat(r) /\ Entries(r) \subseteq Waiting
      /\ \A x \in Entries(r) : x.id # 0
      /\ Written' = Written \cup {Q!Rearm(x) : x \in Entries(r)}
      /\ Waiting' = Waiting \ Entries(r)
      /\ r = <<>> => \A x \in Waiting : x.id = 0
      /\ inflightDrained => UNCHANGED Q!mqVars
  BY <1>3, <1>4 DEF QueueInv, Written, Waiting, Elem, Q!InflightRead
<1>6. UNCHANGED Q!mqVars => UNCHANGED MQ!mqVars
  BY DEF Q!mqVars, MQ!mqVars
<1>7. \A x \in Elem : LET y == Q!Rearm(x) IN
         y.id = x.id /\ y.msg = x.msg /\ y.qos = x.qos /\ y.kind = x.kind /\ y.expiry = "armed"
  BY DEF Q!Rearm, Elem, Q!Elem
<1>8. Entries(r) \subseteq Elem
  BY <1>5, Parts
<1>9. /\ \A x \in Entries(r) : \E y \in Written' :
            y.id = x.id /\ y.msg = x.msg /\ y.qos = x.qos /\ y.kind = x.kind /\ y.expiry = "armed"
      /\ \A y \in Written' : y \in Written \/ \E x \in Entries(r) :
            y.id = x.id /\ y.msg = x.msg /\ y.qos = x.qos /\ y.kind = x.kind /\ y.expiry = "armed"
      /\ Written \subseteq Written'
  BY <1>5, <1>7, <1>8
<1> QED BY <1>5, <1>6, <1>9

\* y is x as it was written for the first time.
Sent(x, y) ==
  /\ y.msg = x.msg /\ y.qos = x.qos /\ y.kind = x.kind /\ y.expiry = "armed"
  /\ x.qos > 0 /\ x.expiry # "expired"

\* Read takes out W; K comes back with the first m identifiers of pids; r is what it returns.
Batch(W, K, m, r, pids) ==
  /\ W \subseteq Waiting /\ Waiting' = Waiting \ W /\ Written' = Written \cup K
  /\ \A x \in W, y \in Waiting \ W : x.msg < y.msg
  /\ dropped \subseteq dropped'
  /\ \A x \in W : x.msg \in dropped' \/ x.qos = 0 \/ \E k \in K : Sent(x, k)
  /\ \A d \in dropped' \ dropped : \E x \in W : x.msg = d
  /\ m \in 0 .. Len(pids)
  /\ \A k \in K : \E x \in W, j \in 1 .. m : Sent(x, k) /\ k.id = pids[j]
  /\ \A j \in 1 .. m : \E k \in K : k.id = pids[j]
  /\ r \in Seq(Elem) /\ NoRepeat(r) /\ K \subseteq Entries(r)
  /\ \A x \in Entries(r) : x \in K \/ (x \in W /\ x.qos = 0 /\ x.id = 0)
  /\ Cardinality({i \in 1 .. Len(r) : r[i].qos # 0}) = m
  /\ UNCHANGED <<inflightDrained, closed, added>>

\* Read takes a batch out of what waits and puts what needs an acknowledgement in front.
LEMMA Reading ==
  ASSUME QueueInv, InflightExpiry, NEW n \in Nat \ {0}, NEW pids \in [1 .. n -> (1 .. MaxPacketID) \ MQ!IdsInList],
         \A i, j \in 1 .. n : i < j => pids[i] # pids[j], MQ!Read(pids), NEW r, r = MQ!ReadResult(pids)
  PROVE  QueueInv' /\ \E W, K, m : Batch(W, K, m, r, pids)
<1>1. MQ!IdsInList = Q!IdsInList
  BY DEF MQ!IdsInList, Q!IdsInList
<1>2. Q!Read(pids) /\ r = Q!ReadResult(pids)
  BY DEF MQ!Read, MQ!ReadKept, MQ!ReadResult, MQ!Taken, MQ!InOrder, MQ!Inflighted, MQ!BecomesInflight, MQ!Dead, MQ!ElemExpiry,
         MQ!Window, MQ!Unread, MQ!Rearm, MQ!NotifyDropped, MQ!Cardinality,
         Q!Read, Q!ReadKept, Q!ReadResult, Q!Taken, Q!InOrder, Q!Inflighted, Q!BecomesInflight, Q!Dead, Q!ElemExpiry,
         Q!Window, Q!Unread, Q!Rearm, Q!NotifyDropped, Q!Cardinality
<1>3. Q!QueueInv /\ pids \in [1 .. n -> (1 .. MaxPacketID) \ Q!IdsInList]
  BY <1>1 DEF QueueInv
<1>4. QueueInv'
  BY <1>2, <1>3, Q!Reads, QueueAndLimiterAssumption, DeliveryAssumption, Zenon DEF QueueInv
<1>5. PICK W, K, m : Q!BatchRead(W, K, m, r, pids)
  BY <1>2, <1>3, Q!PartsReading, QueueAndLimiterAssumption, DeliveryAssumption, Zenon
<1>6. /\ W \subseteq Waiting /\ Waiting' = Waiting \ W /\ Written' = Written \cup K
      /\ \A x \in W, y \in Waiting \ W : x.msg < y.msg
      /\ dropped' = dropped \cup {x.msg : x \in {y \in W : Q!Stale(y)}}
      /\ m \in 0 .. Len(pids)
      /\ \A k \in K : \E x \in W, j \in 1 .. m :
            ~Q!Stale(x) /\ x.qos > 0 /\ k = Q!Rearm([x EXCEPT !.id = pids[j]])
      /\ \A x \in W : ~Q!Stale(x) /\ x.qos > 0 => \E j \in 1 .. m : Q!Rearm([x EXCEPT !.id = pids[j]]) \in K
      /\ \A j \in 1 .. m : \E k \in K : k.id = pids[j]
      /\ Q!Cardinality({i \in 1 .. Len(r) : r[i].qos # 0}) = m
      /\ UNCHANGED <<inflightDrained, closed, added>>
  BY <1>5 DEF Written, Waiting, Q!BatchRead
<1>7. /\ r \in Seq(Elem) /\ NoRepeat(r) /\ K \subseteq Entries(r)
      /\ \A x \in Entries(r) : x \in K \/ (x \in W /\ x.qos = 0 /\ x.id = 0)
  <2>1. Entries(r) = Q!EntriesOf(r) /\ (NoRepeat(r) <=> Q!DistinctIds(r))
    BY DEF Entries, Q!EntriesOf, NoRepeat, Q!DistinctIds
  <2> QED BY <1>5, <2>1 DEF Elem, Q!BatchRead
<1>8. Cardinality({i \in 1 .. Len(r) : r[i].qos # 0}) = m
  BY <1>6 DEF Q!Cardinality, Cardinality
<1>9. \A x \in W : x \in Elem
  BY <1>6, Parts
<1>10. \A j \in 1 .. m : pids[j] \in 1 .. MaxPacketID
  BY <1>6
<1>11. ASSUME NEW x \in W, NEW j \in 1 .. m, ~Q!Stale(x), x.qos > 0
       PROVE  LET y == Q!Rearm([x EXCEPT !.id = pids[j]]) IN Sent(x, y) /\ y.id = pids[j]
  <2>1. x \in Elem /\ pids[j] \in 1 .. MaxPacketID
    BY <1>9, <1>10
  <2> QED BY <1>11, <2>1 DEF Q!Rearm, Elem, Q!Elem, Q!Stale, Sent
<1>12. \A k \in K : \E x \in W, j \in 1 .. m : Sent(x, k) /\ k.id = pids[j]
  <2> SUFFICES ASSUME NEW k \in K PROVE \E x \in W, j \in 1 .. m : Sent(x, k) /\ k.id = pids[j]
    OBVIOUS
  <2>1. PICK x \in W, j \in 1 .. m : ~Q!Stale(x) /\ x.qos > 0 /\ k = Q!Rearm([x EXCEPT !.id = pids[j]])
    BY <1>6
  <2> QED BY <1>11, <2>1
<1>13. \A x \in W : x.msg \in dropped' \/ x.qos = 0 \/ \E k \in K : Sent(x, k)
  <2> SUFFICES ASSUME NEW x \in W, ~Q!Stale(x), x.qos # 0 PROVE \E k \in K : Sent(x, k)
    BY <1>6
  <2>1. x.qos > 0
    BY <1>9, Elements
  <2>2. PICK j \in 1 .. m : Q!Rearm([x EXCEPT !.id = pids[j]]) \in K
    BY <1>6, <2>1
  <2> QED BY <1>11, <2>1, <2>2
<1>14. dropped \subseteq dropped' /\ \A d \in dropped' \ dropped : \E x \in W : x.msg = d
  BY <1>6
<1>15. Batch(W, K, m, r, pids)
  BY <1>6, <1>7, <1>8, <1>12, <1>13, <1>14 DEF Batch
<1> QED BY <1>4, <1>15

-----------------------------------------------------------------------------
(* Sequences of packets.                                                    *)

\* The identifiers in a set of elements or packets.
Ids(S) == {x.id : x \in S} \ {0}

\* No entry, no identifier.
LEMMA EmptySequence == Entries(<<>>) = {} /\ NoRepeat(<<>>) /\ Ids({}) = {}
  BY DEF Entries, NoRepeat, Ids

\* A single packet.
LEMMA OneEntry ==
  ASSUME NEW S, NEW x \in S
  PROVE  <<x>> \in Seq(S) /\ Entries(<<x>>) = {x} /\ NoRepeat(<<x>>)
<1>1. <<x>> \in Seq(S) /\ Len(<<x>>) = 1 /\ <<x>>[1] = x /\ 1 .. 1 = {1}
  OBVIOUS
<1> QED BY <1>1 DEF Entries, NoRepeat

\* Packets are written behind those under way.
LEMMA Concatenated ==
  ASSUME NEW S, NEW s \in Seq(S), NEW t \in Seq(S)
  PROVE  /\ s \o t \in Seq(S) /\ Entries(s \o t) = Entries(s) \cup Entries(t)
         /\ NoRepeat(s) /\ NoRepeat(t) /\ Ids(Entries(s)) \cap Ids(Entries(t)) = {} => NoRepeat(s \o t)
<1>1. PICK u : u = s \o t
  OBVIOUS
<1>2. /\ u \in Seq(S) /\ Len(u) = Len(s) + Len(t) /\ Len(s) \in Nat /\ Len(t) \in Nat
      /\ \A i \in 1 .. Len(u) : u[i] = IF i <= Len(s) THEN s[i] ELSE t[i - Len(s)]
  BY <1>1
<1>3. \A i \in 1 .. Len(u) : \/ i \in 1 .. Len(s) /\ u[i] = s[i]
                             \/ i - Len(s) \in 1 .. Len(t) /\ u[i] = t[i - Len(s)]
  BY <1>2
<1>4. \A i \in 1 .. Len(s) : i \in 1 .. Len(u) /\ u[i] = s[i]
  BY <1>2
<1>5. \A i \in 1 .. Len(t) : Len(s) + i \in 1 .. Len(u) /\ u[Len(s) + i] = t[i]
  <2> SUFFICES ASSUME NEW i \in 1 .. Len(t) PROVE Len(s) + i \in 1 .. Len(u) /\ u[Len(s) + i] = t[i]
    OBVIOUS
  <2>1. Len(s) + i \in 1 .. Len(u) /\ ~(Len(s) + i <= Len(s)) /\ (Len(s) + i) - Len(s) = i
    BY <1>2
  <2> QED BY <1>2, <2>1
<1>6. Entries(u) \subseteq Entries(s) \cup Entries(t)
  BY <1>3 DEF Entries
<1>7. Entries(s) \subseteq Entries(u) /\ Entries(t) \subseteq Entries(u)
  BY <1>4, <1>5 DEF Entries
<1>8. ASSUME NoRepeat(s), NoRepeat(t), Ids(Entries(s)) \cap Ids(Entries(t)) = {}
      PROVE  NoRepeat(u)
  <2> SUFFICES ASSUME NEW i \in 1 .. Len(u), NEW j \in 1 .. Len(u), u[i].id # 0, i # j, u[i].id = u[j].id
               PROVE  FALSE
    BY DEF NoRepeat
  <2>1. \A a \in 1 .. Len(s), b \in 1 .. Len(t) : s[a].id # 0 => s[a].id # t[b].id
    BY <1>8 DEF Ids, Entries
  <2>2. CASE i \in 1 .. Len(s) /\ j \in 1 .. Len(s)
    BY <1>4, <1>8, <2>2 DEF NoRepeat
  <2>3. CASE i \notin 1 .. Len(s) /\ j \notin 1 .. Len(s)
    <3>1. i - Len(s) \in 1 .. Len(t) /\ u[i] = t[i - Len(s)] /\ j - Len(s) \in 1 .. Len(t) /\ u[j] = t[j - Len(s)]
      BY <1>3, <2>3
    <3>2. i - Len(s) # j - Len(s)
      BY <1>2
    <3> QED BY <1>8, <3>1, <3>2 DEF NoRepeat
  <2>4. CASE i \in 1 .. Len(s) /\ j \notin 1 .. Len(s)
    BY <1>3, <1>4, <2>1, <2>4
  <2>5. CASE i \notin 1 .. Len(s) /\ j \in 1 .. Len(s)
    BY <1>3, <1>4, <2>1, <2>5
  <2> QED BY <2>2, <2>3, <2>4, <2>5
<1> QED BY <1>1, <1>2, <1>6, <1>7, <1>8

\* An acknowledgement is sent behind those under way.
LEMMA Appending ==
  ASSUME NEW S, NEW s \in Seq(S), NEW x \in S
  PROVE  /\ Append(s, x) \in Seq(S) /\ Entries(Append(s, x)) = Entries(s) \cup {x}
         /\ NoRepeat(s) /\ (x.id # 0 => x.id \notin Ids(Entries(s))) => NoRepeat(Append(s, x))
<1>1. Append(s, x) = s \o <<x>>
  OBVIOUS
<1>2. (x.id # 0 => x.id \notin Ids(Entries(s))) => Ids(Entries(s)) \cap Ids({x}) = {}
  BY DEF Ids
<1>3. <<x>> \in Seq(S) /\ Entries(<<x>>) = {x} /\ NoRepeat(<<x>>)
  BY OneEntry
<1>4. /\ s \o <<x>> \in Seq(S) /\ Entries(s \o <<x>>) = Entries(s) \cup Entries(<<x>>)
      /\ NoRepeat(s) /\ NoRepeat(<<x>>) /\ Ids(Entries(s)) \cap Ids(Entries(<<x>>)) = {} => NoRepeat(s \o <<x>>)
  BY <1>3, Concatenated, Zenon
<1> QED BY <1>1, <1>2, <1>3, <1>4

\* The first packet is received.
LEMMA TakingFirst ==
  ASSUME NEW S, NEW s \in Seq(S), s # <<>>
  PROVE  /\ Head(s) \in S /\ Tail(s) \in Seq(S)
         /\ Entries(s) = Entries(Tail(s)) \cup {Head(s)}
         /\ NoRepeat(s) => /\ NoRepeat(Tail(s))
                           /\ Head(s).id # 0 => Head(s).id \notin Ids(Entries(Tail(s)))
<1>1. PICK t : t = Tail(s)
  OBVIOUS
<1>2. /\ Head(s) = s[1] /\ s[1] \in S /\ t \in Seq(S) /\ Len(s) \in Nat /\ Len(t) = Len(s) - 1 /\ Len(s) > 0
      /\ \A i \in 1 .. Len(t) : t[i] = s[i + 1]
  BY <1>1
<1>3. \A i \in 1 .. Len(t) : i + 1 \in 1 .. Len(s) /\ t[i] = s[i + 1] /\ i + 1 # 1 /\ 1 \in 1 .. Len(s)
  BY <1>2
<1>4. \A i \in 1 .. Len(s) : i = 1 \/ (i - 1 \in 1 .. Len(t) /\ s[i] = t[i - 1])
  <2> SUFFICES ASSUME NEW i \in 1 .. Len(s), i # 1 PROVE i - 1 \in 1 .. Len(t) /\ s[i] = t[i - 1]
    OBVIOUS
  <2>1. i - 1 \in 1 .. Len(t) /\ (i - 1) + 1 = i
    BY <1>2
  <2> QED BY <1>2, <2>1
<1>5. Entries(s) \subseteq Entries(t) \cup {Head(s)}
  BY <1>2, <1>4 DEF Entries
<1>6. Entries(t) \cup {Head(s)} \subseteq Entries(s)
  <2>1. 1 \in 1 .. Len(s)
    BY <1>2
  <2> QED BY <1>2, <1>3, <2>1 DEF Entries
<1>7. ASSUME NoRepeat(s) PROVE NoRepeat(t)
  <2>1. \A i, j \in 1 .. Len(t) : i # j => i + 1 # j + 1
    BY <1>2
  <2> QED BY <1>3, <1>7, <2>1 DEF NoRepeat
<1>8. ASSUME NoRepeat(s), Head(s).id # 0 PROVE Head(s).id \notin Ids(Entries(t))
  BY <1>2, <1>3, <1>8 DEF NoRepeat, Ids, Entries
<1> QED BY <1>1, <1>2, <1>5, <1>6, <1>7, <1>8

\* The last packets are lost.
LEMMA Prefixes ==
  ASSUME NEW S, NEW s \in Seq(S), NEW k \in 0 .. Len(s)
  PROVE  /\ SubSeq(s, 1, k) \in Seq(S) /\ Entries(SubSeq(s, 1, k)) \subseteq Entries(s)
         /\ NoRepeat(s) => NoRepeat(SubSeq(s, 1, k))
<1>1. PICK t : t = SubSeq(s, 1, k)
  OBVIOUS
<1>2. t \in Seq(S) /\ Len(t) = k /\ \A i \in 1 .. k : t[i] = s[i] /\ i \in 1 .. Len(s)
  BY <1>1
<1> QED BY <1>1, <1>2 DEF Entries, NoRepeat

-----------------------------------------------------------------------------
(* The invariant.                                                           *)

ClientPacket == [type : {"PUBLISH"}, id : 0 .. MaxPacketID, qos : 0 .. 2, msg : 1 .. MaxMsgs, dup : BOOLEAN]
                  \cup [type : {"PUBREL"}, id : 1 .. MaxPacketID]
ServerPacket == [type : {"PUBACK", "PUBREC", "PUBREC-ERROR", "PUBCOMP"}, id : 1 .. MaxPacketID]

Draining == pc \in {"drain", "mark"}
FirstSent == Entries(firstSent)
Releasing == {releasing} \ {0}

\* x is the element of the queue that the packet or the element p was made from.
PublishOf(x, p) == x.id = p.id /\ x.kind = "publish" /\ x.qos = p.qos /\ x.msg = p.msg

TypeInv ==
  /\ QueueInv
  /\ used \in Int /\ limit \in Limits /\ lockedPid \subseteq 1 .. MaxPacketID /\ freePid \in 1 .. MaxPacketID
  /\ ids \in Seq(1 .. MaxPacketID) /\ Len(ids) <= PollBatch
  /\ \A i, j \in 1 .. Len(ids) : i # j => ids[i] # ids[j]
  /\ releasing \in 0 .. MaxPacketID
  /\ resend \in Seq(Elem) /\ toClient \in Seq(ClientPacket) /\ toServer \in Seq(ServerPacket)
  /\ subscriber \subseteq 1 .. MaxPacketID
  /\ firstSent \in Seq(1 .. MaxMsgs)

\* The goroutines of a connection end in the order serve imposes, and while it is closing nothing
\* but acknowledgements of PUBLISH packets is left.
PhaseInv ==
  /\ pc \in {"drain", "mark", "poll", "read", "release", "done"}
  /\ conn \in {"online", "closing", "offline"}
  /\ pc = "mark" <=> resend # <<>>
  /\ pc = "read" => ids # <<>>
  /\ pc \notin {"read", "release"} => ids = <<>>
  /\ pc = "done" \/ exit => closed
  /\ conn = "online" => ~closed
  /\ conn # "online" => /\ toClient = <<>>
                        /\ \A x \in Written \cup Waiting : x.kind = "publish"
                        /\ \A a \in Entries(toServer) : a.type # "PUBREC"
  /\ conn = "offline" => exit /\ pc = "done" /\ releasing = 0 /\ toServer = <<>>

\* An identifier is locked while an element that has been written carries it, the poller holds it
\* or a handler is about to release it; pollInflights locks those of a batch one by one.
LockInv ==
  /\ Draining => /\ lockedPid = (Ids(Written) \ Ids(Entries(resend))) \cup Releasing
                 /\ \A x \in Waiting \cup Entries(resend) : x.kind = "publish"
  /\ Polling => /\ lockedPid = Ids(Written) \cup PL!Held \cup Releasing
                /\ \A x \in Waiting : x.id = 0
                /\ Ids(Written) \cap PL!Held = {}
  /\ releasing \notin Ids(Written \cup Waiting) \cup PL!Held

\* For each identifier at most one packet or acknowledgement is under way.
TokenInv ==
  /\ NoRepeat(toClient) /\ NoRepeat(toServer) /\ NoRepeat(resend)
  /\ Ids(Entries(toClient)) \cap Ids(Entries(toServer)) = {}
  /\ Ids(Entries(toClient)) \cap Ids(Entries(resend)) = {}
  /\ Ids(Entries(toServer)) \cap Ids(Entries(resend)) = {}

\* What is under way matches the element that carries its identifier.
SentOK(p) ==
  \/ /\ p.type = "PUBLISH" /\ p.msg \in FirstSent
     /\ p.id = 0 => p.qos = 0
     /\ p.id # 0 => \E x \in Written : PublishOf(x, p)
  \/ p.type = "PUBREL" /\ \E x \in Written : x.id = p.id /\ x.kind = "pubrel"
AckOK(a) == \E x \in Written :
  /\ x.id = a.id /\ x.msg \in got
  /\ \/ a.type = "PUBACK" /\ x.qos = 1
     \/ a.type = "PUBREC" /\ x.qos = 2 /\ x.kind = "publish"
     \/ a.type \in {"PUBREC-ERROR", "PUBCOMP"} /\ a.id \notin subscriber
ResendOK(r) == r.id # 0 /\ \E x \in Written : PublishOf(x, r)
PacketInv ==
  /\ \A p \in Entries(toClient) : SentOK(p)
  /\ \A a \in Entries(toServer) : AckOK(a)
  /\ \A r \in Entries(resend) : ResendOK(r)

\* What is known of an element from its fields.
ElemOK(x) ==
  /\ x.id # 0 => x.qos > 0 /\ x.msg \in FirstSent
  /\ x.id = 0 => \A f \in FirstSent : f < x.msg
  /\ x.qos > 0 <=> x.msg \in owed
  /\ x.kind = "pubrel" => x.qos = 2 /\ x.msg \in got
  /\ x.id # 0 /\ x.expiry = "expired" => x.id \notin subscriber
ElemInv ==
  /\ \A x \in Written \cup Waiting : ElemOK(x)
  /\ conn # "offline" => \A x \in Written : x.expiry # "expired"
  /\ \A p \in subscriber : \E x \in Written \cup Waiting : x.id = p /\ x.qos = 2 /\ x.msg \in got
  /\ owed \subseteq 1 .. added /\ got \subseteq FirstSent /\ FirstSent \subseteq 1 .. added

Inv == TypeInv /\ PhaseInv /\ LockInv /\ TokenInv /\ PacketInv /\ ElemInv

-----------------------------------------------------------------------------
(* The steps.                                                               *)

\* A function on 1 .. n is a sequence.
LEMMA Tuples ==
  ASSUME NEW S, NEW n \in Nat, NEW f \in [1 .. n -> S]
  PROVE  f \in Seq(S) /\ Len(f) = n
  OBVIOUS

\* Identifiers of a union and of a subset.
LEMMA IdsJoined ==
  ASSUME NEW S, NEW T
  PROVE  /\ Ids(S \cup T) = Ids(S) \cup Ids(T)
         /\ S \subseteq T => Ids(S) \subseteq Ids(T)
         /\ 0 \notin Ids(S)
  BY DEF Ids

\* Steps that leave the queue and the packets alone.
LEMMA PacketsStill ==
  ASSUME UNCHANGED <<toClient, toServer, resend>>
  PROVE  TokenInv => TokenInv'
  BY DEF TokenInv

\* The packets still match the elements.
LEMMA PacketsKept ==
  ASSUME PacketInv, UNCHANGED <<toClient, toServer, resend, Written, got, subscriber, firstSent>>
  PROVE  PacketInv'
  BY DEF PacketInv, SentOK, AckOK, ResendOK, FirstSent

\* Neither the elements nor what is known of them changes.
LEMMA ElementsKept ==
  ASSUME ElemInv, UNCHANGED <<Written, Waiting, got, subscriber, firstSent, owed, added, conn>>
  PROVE  ElemInv'
  BY DEF ElemInv, ElemOK, FirstSent

\* Neither the identifiers nor their owners change.
LEMMA LocksKept ==
  ASSUME LockInv, UNCHANGED <<Written, Waiting, lockedPid, releasing, resend, ids, pc>>
  PROVE  LockInv'
  BY DEF LockInv, Draining, Polling, Releasing, PL!Held

\* A handler gives an identifier back.
LEMMA Releases ==
  ASSUME Inv, release
  PROVE  Inv'
<1>1. /\ releasing # 0 /\ pc # "mark" /\ releasing' = 0 /\ lockedPid' = lockedPid \ {releasing}
      /\ used' = used - PL!Cardinality(lockedPid \cap {releasing})
      /\ UNCHANGED <<limit, freePid, exit, ids>>
      /\ UNCHANGED <<queue, poller, network, client, ghosts>>
  BY DEF release, LimiterLocked, PL!release, PL!releaseLocked
<1>2. TypeInv /\ PhaseInv /\ LockInv /\ TokenInv /\ PacketInv /\ ElemInv
  BY DEF Inv
<1>3. QueueInv' /\ UNCHANGED <<Written, Waiting>>
  BY <1>1, <1>2, StandingStill DEF TypeInv
<1>4. used' \in Int
  <2>1. IsFiniteSet(lockedPid \cap {releasing})
    BY FS_Singleton, FS_Subset
  <2>2. PL!Cardinality(lockedPid \cap {releasing}) \in Nat
    BY <2>1, FS_CardinalityType DEF PL!Cardinality, Cardinality
  <2> QED BY <1>1, <1>2, <2>2 DEF TypeInv
<1>5. TypeInv'
  BY <1>1, <1>2, <1>3, <1>4, QueueAndLimiterAssumption DEF TypeInv, poller, network, client, ghosts
<1>6. PhaseInv'
  BY <1>1, <1>2, <1>3 DEF PhaseInv, poller, network, queue
<1>7. LockInv'
  <2>1. /\ releasing \notin Ids(Written) /\ releasing \notin PL!Held
        /\ releasing \notin Ids(Written \cup Waiting) \cup PL!Held
    BY <1>2, IdsJoined DEF LockInv
  <2>2. Releasing = {releasing} /\ Releasing' = {} /\ PL!Held' = PL!Held
    BY <1>1 DEF Releasing, PL!Held
  <2>3. 0 \notin Ids(Written \cup Waiting) \cup PL!Held
    BY <1>2, QueueAndLimiterAssumption DEF Ids, PL!Held, TypeInv
  <2>4. UNCHANGED <<resend, pc>> /\ (Draining' <=> Draining) /\ (Polling' <=> Polling)
    BY <1>1 DEF poller, Draining, Polling
  <2>5. Draining => lockedPid' = (Ids(Written) \ Ids(Entries(resend))) \cup Releasing'
    BY <1>1, <1>2, <2>1, <2>2 DEF LockInv
  <2>6. Polling => lockedPid' = Ids(Written) \cup PL!Held \cup Releasing'
    BY <1>1, <1>2, <2>1, <2>2 DEF LockInv
  <2> QED BY <1>1, <1>2, <1>3, <2>2, <2>3, <2>4, <2>5, <2>6 DEF LockInv
<1>8. TokenInv' /\ PacketInv' /\ ElemInv'
  BY <1>1, <1>2, <1>3, PacketsStill, PacketsKept, ElementsKept DEF poller, network, queue, client, ghosts
<1> QED BY <1>5, <1>6, <1>7, <1>8 DEF Inv

\* serve closes the queue, then the limiter, then unregisters the client.
LEMMA Serves ==
  ASSUME Inv, serve
  PROVE  Inv'
<1>1. TypeInv /\ PhaseInv /\ LockInv /\ TokenInv /\ PacketInv /\ ElemInv
  BY DEF Inv
<1>2. CASE closeQueue
  <2>1. /\ conn = "closing" /\ MQ!Close
        /\ UNCHANGED <<limiter, poller, releasing, network, client, ghosts>>
    BY <1>2 DEF closeQueue
  <2>2. QueueInv' /\ closed' = TRUE /\ UNCHANGED <<added, Written, Waiting>>
    BY <1>1, <2>1, Closing DEF TypeInv
  <2>3. TypeInv'
    BY <1>1, <2>1, <2>2 DEF TypeInv, limiter, poller, network, client, ghosts
  <2>4. PhaseInv'
    BY <1>1, <2>1, <2>2 DEF PhaseInv, limiter, poller, network
  <2>5. LockInv' /\ TokenInv' /\ PacketInv' /\ ElemInv'
    BY <1>1, <2>1, <2>2, LocksKept, PacketsStill, PacketsKept, ElementsKept
       DEF limiter, poller, network, client, ghosts
  <2> QED BY <2>3, <2>4, <2>5 DEF Inv
<1>3. CASE closeLimiter \/ unregister
  <2>1. /\ UNCHANGED <<queue, used, limit, lockedPid, freePid, ids, poller, releasing, conns, toClient, toServer,
                      client, ghosts>>
        /\ conn = "closing" /\ conn' \in {"closing", "offline"}
        /\ exit' => closed
        /\ conn' = "offline" => exit' /\ pc = "done" /\ releasing = 0 /\ toServer = <<>>
    BY <1>1, <1>3 DEF closeLimiter, PL!closeLimiter, unregister, PhaseInv, limiter, network
  <2>2. QueueInv' /\ UNCHANGED <<added, closed, Written, Waiting>>
    BY <1>1, <2>1, StandingStill DEF TypeInv, queue
  <2>3. TypeInv'
    BY <1>1, <2>1, <2>2 DEF TypeInv, poller, client, ghosts
  <2>4. PhaseInv'
    BY <1>1, <2>1, <2>2 DEF PhaseInv, poller
  <2>5. LockInv' /\ TokenInv' /\ PacketInv'
    BY <1>1, <2>1, <2>2, LocksKept, PacketsStill, PacketsKept DEF poller, client, ghosts
  <2>6. ElemInv'
    BY <1>1, <2>1, <2>2 DEF ElemInv, ElemOK, FirstSent, client, ghosts
  <2> QED BY <2>3, <2>4, <2>5, <2>6 DEF Inv
<1> QED BY <1>2, <1>3 DEF serve

\* The poller asks for identifiers: it gets free ones, goes to sleep or ends.
LEMMA PollsIdentifiers ==
  ASSUME Inv, pollPacketIDs
  PROVE  Inv'
<1>1. TypeInv /\ PhaseInv /\ LockInv /\ TokenInv /\ PacketInv /\ ElemInv
  BY DEF Inv
<1>2. pc = "poll" /\ UNCHANGED <<queue, resend, releasing, network, client, ghosts>>
  BY DEF pollPacketIDs
<1>3. QueueInv' /\ UNCHANGED <<added, closed, Written, Waiting>>
  BY <1>1, <1>2, StandingStill DEF TypeInv, queue
<1>4. TokenInv' /\ PacketInv' /\ ElemInv'
  BY <1>1, <1>2, <1>3, PacketsStill, PacketsKept, ElementsKept DEF network, client, ghosts
<1>5. CASE PL!pollPacketIDsWait /\ UNCHANGED pc
  <2>1. UNCHANGED <<used, limit, lockedPid, freePid, exit, ids, pc>>
    BY <1>5 DEF PL!pollPacketIDsWait
  <2>2. TypeInv'
    BY <1>1, <1>2, <1>3, <2>1 DEF TypeInv, network, client, ghosts
  <2>3. PhaseInv'
    BY <1>1, <1>2, <1>3, <2>1 DEF PhaseInv, network
  <2>4. LockInv'
    BY <1>1, <1>2, <1>3, <2>1, LocksKept
  <2> QED BY <1>4, <2>2, <2>3, <2>4 DEF Inv
<1>6. CASE PL!pollPacketIDsNil /\ pc' = "done"
  <2>1. exit /\ UNCHANGED <<used, limit, lockedPid, freePid, exit, ids>> /\ pc' = "done"
    BY <1>6 DEF PL!pollPacketIDsNil, PL!limiterVars
  <2>2. TypeInv'
    BY <1>1, <1>2, <1>3, <2>1 DEF TypeInv, network, client, ghosts
  <2>3. PhaseInv'
    BY <1>1, <1>2, <1>3, <2>1 DEF PhaseInv, network
  <2>4. LockInv'
    BY <1>1, <1>2, <1>3, <2>1 DEF LockInv, Draining, Polling, PL!Held
  <2> QED BY <1>4, <2>2, <2>3, <2>4 DEF Inv
<1>7. CASE PL!pollPacketIDs /\ pc' = "read"
  <2>1. PICK n : n = PL!PollSize
    OBVIOUS
  <2>2. used < limit /\ UNCHANGED <<limit, exit>>
    BY <1>7 DEF PL!pollPacketIDs
  <2>3. PICK s \in [1 .. n -> PL!FreePids] :
           /\ PL!IsFirstFree(s, n) /\ ids' = s /\ used' = used + n
           /\ lockedPid' = lockedPid \cup {s[i] : i \in 1 .. n} /\ freePid' = PL!NextPid(s[n])
    BY <1>7, <2>1 DEF PL!pollPacketIDs
  <2>4. n \in Nat /\ n > 0 /\ n <= PollBatch
    <3>1. used \in Int /\ limit \in Nat /\ PollBatch \in Nat /\ PollBatch > 0 /\ limit > 0
      BY <1>1, QueueAndLimiterAssumption DEF TypeInv
    <3> QED BY <2>1, <2>2, <3>1 DEF PL!PollSize
  <2>5. \A i \in 1 .. n : s[i] \in 1 .. MaxPacketID /\ s[i] \notin lockedPid
    BY DEF PL!FreePids, PL!Pids
  <2>6. \A i, j \in 1 .. n : i < j => s[i] # s[j]
    <3> SUFFICES ASSUME NEW i \in 1 .. n, NEW j \in 1 .. n, i < j PROVE s[i] # s[j]
      OBVIOUS
    <3>1. PL!Rank(s[i]) < PL!Rank(s[j])
      BY <2>3 DEF PL!IsFirstFree
    <3>2. PL!Rank(s[i]) \in Int
      <4>1. s[i] \in Int /\ freePid \in Int /\ MaxPacketID \in Int
        BY <1>1, <2>5, QueueAndLimiterAssumption DEF TypeInv
      <4> QED BY <4>1 DEF PL!Rank
    <3> QED BY <3>1, <3>2
  <2>7. /\ s \in Seq(1 .. MaxPacketID) /\ Len(s) = n
        /\ \A i, j \in 1 .. Len(s) : i # j => s[i] # s[j]
    <3>1. s \in [1 .. n -> 1 .. MaxPacketID]
      BY <2>3, <2>5
    <3>2. s \in Seq(1 .. MaxPacketID) /\ Len(s) = n
      BY <2>4, <3>1, Tuples
    <3>3. \A i, j \in 1 .. n : i # j => i < j \/ j < i
      BY <2>4
    <3> QED BY <2>6, <3>2, <3>3
  <2>8. freePid' \in 1 .. MaxPacketID
    <3>1. s[n] \in 1 .. MaxPacketID /\ MaxPacketID \in Nat \ {0}
      BY <2>4, <2>5, QueueAndLimiterAssumption
    <3> QED BY <2>3, <3>1 DEF PL!NextPid
  <2>9. used' \in Int /\ lockedPid' \subseteq 1 .. MaxPacketID
    BY <1>1, <2>3, <2>4, <2>5 DEF TypeInv
  <2>10. TypeInv'
    BY <1>1, <1>2, <1>3, <2>2, <2>3, <2>4, <2>7, <2>8, <2>9 DEF TypeInv, network, client, ghosts
  <2>11. PhaseInv'
    <3>1. s # <<>>
      BY <2>4, <2>7
    <3> QED BY <1>1, <1>2, <1>3, <1>7, <2>2, <2>3, <3>1 DEF PhaseInv, network
  <2>12. LockInv'
    <3>1. PL!Held = {} /\ PL!Held' = {s[i] : i \in 1 .. n}
      BY <1>1, <1>2, <2>3, <2>7 DEF PL!Held, PhaseInv
    <3>2. lockedPid = Ids(Written) \cup Releasing /\ \A x \in Waiting : x.id = 0
      BY <1>1, <1>2, <3>1 DEF LockInv, Polling
    <3>3. PL!Held' \cap (Ids(Written) \cup Releasing) = {} /\ 0 \notin PL!Held'
      BY <2>5, <3>1, <3>2, QueueAndLimiterAssumption
    <3>4. releasing \notin PL!Held'
      BY <3>3 DEF Releasing
    <3>5. Releasing' = Releasing /\ lockedPid' = Ids(Written) \cup PL!Held' \cup Releasing
      BY <1>2, <2>3, <3>1, <3>2 DEF Releasing
    <3>6. releasing \notin Ids(Written \cup Waiting)
      BY <1>1 DEF LockInv
    <3> QED BY <1>2, <1>3, <1>7, <3>2, <3>3, <3>4, <3>5, <3>6 DEF LockInv, Draining, Polling
  <2> QED BY <1>4, <2>10, <2>11, <2>12 DEF Inv
<1> QED BY <1>5, <1>6, <1>7 DEF pollPacketIDs

\* It gives back what it has not used, or ends without.
LEMMA GivesBack ==
  ASSUME Inv, batchRelease \/ pollClosed
  PROVE  Inv'
<1>1. TypeInv /\ PhaseInv /\ LockInv /\ TokenInv /\ PacketInv /\ ElemInv
  BY DEF Inv
<1>2. /\ UNCHANGED <<queue, resend, releasing, network, client, ghosts, limit, freePid, exit>>
      /\ ids' = <<>> /\ pc \in {"read", "release"} /\ pc' \in {"poll", "done"}
      /\ pc' = "done" => closed
      /\ pc' = "poll" => lockedPid' = lockedPid \ PL!Held
      /\ \/ lockedPid' = lockedPid \ PL!Held /\ used' = used - PL!Cardinality(lockedPid \cap PL!Held)
         \/ UNCHANGED <<lockedPid, used>>
  BY DEF batchRelease, pollClosed, PL!batchRelease, PL!releaseLocked, network
<1>3. QueueInv' /\ UNCHANGED <<added, closed, Written, Waiting>>
  BY <1>1, <1>2, StandingStill DEF TypeInv, queue
<1>4. TokenInv' /\ PacketInv' /\ ElemInv'
  BY <1>1, <1>2, <1>3, PacketsStill, PacketsKept, ElementsKept DEF network, client, ghosts
<1>5. used' \in Int /\ lockedPid' \subseteq 1 .. MaxPacketID
  <2>1. IsFiniteSet(1 .. MaxPacketID)
    BY FS_Interval, QueueAndLimiterAssumption
  <2>2. IsFiniteSet(lockedPid \cap PL!Held)
    BY <1>1, <2>1, FS_Subset DEF TypeInv
  <2>3. PL!Cardinality(lockedPid \cap PL!Held) \in Nat
    BY <2>2, FS_CardinalityType DEF PL!Cardinality, Cardinality
  <2>4. used' \in Int
    <3>1. used \in Int
      BY <1>1 DEF TypeInv
    <3> QED BY <1>2, <2>3, <3>1
  <2> QED BY <1>1, <1>2, <2>4 DEF TypeInv
<1>6. TypeInv'
  <2>1. ids' \in Seq(1 .. MaxPacketID) /\ Len(ids') = 0 /\ Len(ids') <= PollBatch /\ 1 .. Len(ids') = {}
    BY <1>2, QueueAndLimiterAssumption
  <2> QED BY <1>1, <1>2, <1>3, <1>5, <2>1 DEF TypeInv, network, client, ghosts
<1>7. PhaseInv'
  BY <1>1, <1>2, <1>3 DEF PhaseInv, network
<1>8. LockInv'
  <2>1. PL!Held' = {} /\ Releasing' = Releasing
    BY <1>2 DEF PL!Held, Releasing
  <2>2. /\ lockedPid = Ids(Written) \cup PL!Held \cup Releasing
        /\ \A x \in Waiting : x.id = 0
        /\ Ids(Written) \cap PL!Held = {}
        /\ releasing \notin Ids(Written \cup Waiting) \cup PL!Held
    BY <1>1, <1>2 DEF LockInv, Polling
  <2>3. pc' = "poll" => lockedPid' = Ids(Written) \cup Releasing
    BY <1>2, <2>2 DEF Releasing
  <2> QED BY <1>2, <1>3, <2>1, <2>2, <2>3 DEF LockInv, Draining, Polling
<1> QED BY <1>4, <1>6, <1>7, <1>8 DEF Inv

\* The reader ends: packets on their way are lost.
LEMMA LosesNetwork ==
  ASSUME Inv, ~LossAfterPubrec, networkLost
  PROVE  Inv'
<1>1. TypeInv /\ PhaseInv /\ LockInv /\ TokenInv /\ PacketInv /\ ElemInv
  BY DEF Inv
<1>2. PICK k \in 0 .. Len(toServer) : toServer' = SubSeq(toServer, 1, k)
  BY DEF networkLost
<1>3. /\ conn = "online" /\ conn' = "closing" /\ toClient' = <<>>
      /\ \A i \in 1 .. Len(l) : l[i].kind # "pubrel"
      /\ \A i \in 1 .. Len(toServer') : toServer'[i].type # "PUBREC"
      /\ UNCHANGED <<queue, limiter, poller, releasing, client, ghosts>>
  BY DEF networkLost
<1>4. QueueInv' /\ UNCHANGED <<added, closed, Written, Waiting>>
  BY <1>1, <1>3, StandingStill DEF TypeInv, queue
<1>5. /\ toServer' \in Seq(ServerPacket) /\ Entries(toServer') \subseteq Entries(toServer) /\ NoRepeat(toServer')
  BY <1>1, <1>2, Prefixes DEF TypeInv, TokenInv
<1>6. Entries(toClient') = {} /\ NoRepeat(toClient') /\ Ids({}) = {}
  BY <1>3, EmptySequence
<1>7. TypeInv'
  <2>1. toClient' \in Seq(ClientPacket)
    BY <1>3
  <2> QED BY <1>1, <1>3, <1>4, <1>5, <2>1 DEF TypeInv, limiter, poller, client, ghosts
<1>8. \A x \in Written \cup Waiting : x.kind = "publish"
  <2>1. \A x \in Written \cup Waiting : x \in Elem
    BY <1>1, Parts DEF TypeInv
  <2>2. \A x \in Written \cup Waiting : x.kind # "pubrel"
    <3>1. l \in Seq(Elem) /\ current \in 1 .. (Len(l) + 1) /\ Len(l) \in Nat
      BY <1>1 DEF TypeInv, QueueInv, Q!QueueInv, Q!WellFormed, Elem
    <3> QED BY <1>3, <3>1 DEF Written, Waiting, Q!Written, Q!Waiting
  <2> QED BY <2>1, <2>2, Elements
<1>9. PhaseInv'
  <2>1. \A a \in Entries(toServer') : a.type # "PUBREC"
    BY <1>3 DEF Entries
  <2> QED BY <1>1, <1>3, <1>4, <1>8, <2>1 DEF PhaseInv, limiter, poller
<1>10. LockInv'
  BY <1>1, <1>3, <1>4, LocksKept DEF limiter, poller
<1>11. TokenInv'
  <2>1. Ids(Entries(toServer')) \subseteq Ids(Entries(toServer))
    BY <1>5, IdsJoined
  <2>2. resend' = resend
    BY <1>3 DEF poller
  <2> QED BY <1>1, <1>5, <1>6, <2>1, <2>2 DEF TokenInv
<1>12. PacketInv'
  BY <1>1, <1>3, <1>4, <1>5, <1>6 DEF PacketInv, SentOK, AckOK, ResendOK, FirstSent, poller, client, ghosts
<1>13. ElemInv'
  BY <1>1, <1>3, <1>4 DEF ElemInv, ElemOK, FirstSent, client, ghosts
<1> QED BY <1>7, <1>9, <1>10, <1>11, <1>12, <1>13 DEF Inv

\* pollInflights is given the next stored messages.
LEMMA ReadsStored ==
  ASSUME Inv, InflightExpiry, pollInflights
  PROVE  Inv'
<1>1. TypeInv /\ PhaseInv /\ LockInv /\ TokenInv /\ PacketInv /\ ElemInv
  BY DEF Inv
<1>2. PICK r : r = MQ!ReadInflightResult(limit)
  OBVIOUS
<1>3. /\ pc = "drain" /\ MQ!ReadInflight(limit) /\ resend' = r
      /\ pc' = IF r = <<>> THEN "poll" ELSE "mark"
      /\ UNCHANGED <<limiter, releasing, network, client, ghosts>>
  BY <1>2 DEF pollInflights
<1>4. /\ QueueInv' /\ UNCHANGED <<closed, added>>
      /\ r \in Seq(Elem) /\ NoRepeat(r) /\ Entries(r) \subseteq Waiting
      /\ \A x \in Entries(r) : x.id # 0
      /\ \A x \in Entries(r) : \E y \in Written' :
            y.id = x.id /\ y.msg = x.msg /\ y.qos = x.qos /\ y.kind = x.kind /\ y.expiry = "armed"
      /\ \A y \in Written' : y \in Written \/ \E x \in Entries(r) :
            y.id = x.id /\ y.msg = x.msg /\ y.qos = x.qos /\ y.kind = x.kind /\ y.expiry = "armed"
      /\ Written \subseteq Written' /\ Waiting' = Waiting \ Entries(r)
      /\ r = <<>> => \A x \in Waiting : x.id = 0
  <2>1. QueueInv /\ limit \in Limits
    BY <1>1 DEF TypeInv
  <2> QED BY <1>2, <1>3, <2>1, ReadingInflight
<1>5. resend = <<>> /\ ids = <<>> /\ Ids(Entries(resend)) = {} /\ PL!Held = {} /\ PL!Held' = {}
  <2>1. resend = <<>> /\ ids = <<>> /\ ids' = <<>>
    BY <1>1, <1>3 DEF PhaseInv, limiter
  <2> QED BY <2>1, EmptySequence DEF PL!Held
<1>6. /\ lockedPid = Ids(Written) \cup Releasing
      /\ \A x \in Waiting : x.kind = "publish"
      /\ releasing \notin Ids(Written \cup Waiting)
  BY <1>1, <1>3, <1>5 DEF LockInv, Draining
<1>7. Ids(Entries(r)) \cap Ids(Written) = {} /\ Ids(Written') = Ids(Written) \cup Ids(Entries(r))
  <2>1. \A x \in Written, y \in Waiting : x.id # 0 => x.id # y.id
    BY <1>1, Parts DEF TypeInv
  <2>2. Ids(Entries(r)) \cap Ids(Written) = {}
    BY <1>4, <2>1 DEF Ids
  <2>3. Ids(Written') = Ids(Written) \cup Ids(Entries(r))
    BY <1>4 DEF Ids
  <2> QED BY <2>2, <2>3
<1>8. TypeInv'
  BY <1>1, <1>3, <1>4 DEF TypeInv, limiter, network, client, ghosts
<1>9. \A y \in Written' \cup Waiting' : \E x \in Written \cup Waiting :
         /\ y.id = x.id /\ y.msg = x.msg /\ y.qos = x.qos /\ y.kind = x.kind
         /\ y.expiry \in {x.expiry, "armed"}
  BY <1>4
<1>10. PhaseInv'
  BY <1>1, <1>3, <1>4, <1>9 DEF PhaseInv, limiter, network
<1>11. LockInv'
  <2>1. Releasing' = Releasing /\ lockedPid' = lockedPid /\ releasing' = releasing
    BY <1>3 DEF Releasing, limiter
  <2>2. releasing \notin Ids(Written' \cup Waiting')
    BY <1>6, <1>9 DEF Ids
  <2>3. Draining' => /\ lockedPid = (Ids(Written') \ Ids(Entries(r))) \cup Releasing
                     /\ \A x \in Waiting' \cup Entries(r) : x.kind = "publish"
    BY <1>4, <1>6, <1>7
  <2>4. Polling' => lockedPid = Ids(Written') \cup Releasing /\ \A x \in Waiting' : x.id = 0
    <3>1. Polling' => r = <<>>
      BY <1>3 DEF Polling
    <3> QED BY <1>4, <1>6, <1>7, <3>1, EmptySequence
  <2> QED BY <1>3, <1>5, <2>1, <2>2, <2>3, <2>4 DEF LockInv
<1>12. TokenInv'
  <2>1. UNCHANGED <<toClient, toServer>>
    BY <1>3 DEF network
  <2>2. Ids(Entries(toClient)) \subseteq Ids(Written) /\ Ids(Entries(toServer)) \subseteq Ids(Written)
    BY <1>1 DEF PacketInv, SentOK, AckOK, PublishOf, Ids
  <2> QED BY <1>1, <1>3, <1>4, <1>7, <2>1, <2>2 DEF TokenInv
<1>13. PacketInv'
  <2>1. UNCHANGED <<toClient, toServer, got, subscriber, firstSent>>
    BY <1>3 DEF network, client, ghosts
  <2>2. \A p \in Entries(r) : ResendOK(p)'
    BY <1>4, <1>6 DEF ResendOK, PublishOf
  <2> QED BY <1>1, <1>3, <1>4, <2>1, <2>2 DEF PacketInv, SentOK, AckOK, FirstSent
<1>14. ElemInv'
  <2>1. UNCHANGED <<conn, got, subscriber, firstSent, owed>>
    BY <1>3 DEF network, client, ghosts
  <2>2. \A x \in Written' \cup Waiting' : ElemOK(x)'
    <3> SUFFICES ASSUME NEW y \in Written' \cup Waiting' PROVE ElemOK(y)'
      OBVIOUS
    <3>1. PICK x \in Written \cup Waiting :
             /\ y.id = x.id /\ y.msg = x.msg /\ y.qos = x.qos /\ y.kind = x.kind
             /\ y.expiry \in {x.expiry, "armed"}
      BY <1>9
    <3>2. ElemOK(x)
      BY <1>1 DEF ElemInv
    <3> QED BY <2>1, <3>1, <3>2 DEF ElemOK, FirstSent
  <2>3. \A p \in subscriber' : \E x \in Written' \cup Waiting' : x.id = p /\ x.qos = 2 /\ x.msg \in got'
    <3> SUFFICES ASSUME NEW p \in subscriber PROVE \E x \in Written' \cup Waiting' : x.id = p /\ x.qos = 2 /\ x.msg \in got
      BY <2>1
    <3>1. PICK x \in Written \cup Waiting : x.id = p /\ x.qos = 2 /\ x.msg \in got
      BY <1>1 DEF ElemInv
    <3> QED BY <1>4, <3>1
  <2>4. conn' # "offline" => \A x \in Written' : x.expiry # "expired"
    BY <1>1, <1>4, <2>1 DEF ElemInv
  <2> QED BY <1>1, <1>4, <2>1, <2>2, <2>3, <2>4 DEF ElemInv, FirstSent
<1> QED BY <1>8, <1>10, <1>11, <1>12, <1>13, <1>14 DEF Inv

\* A packet is written.
LEMMA Writing ==
  ASSUME TypeInv, PhaseInv, NEW p \in ClientPacket, write(<<p>>)
  PROVE  /\ toClient' \in Seq(ClientPacket)
         /\ conn # "online" => toClient' = <<>>
         /\ Entries(toClient') \subseteq Entries(toClient) \cup {p}
         /\ conn = "online" => Entries(toClient') = Entries(toClient) \cup {p}
         /\ NoRepeat(toClient) /\ (p.id # 0 => p.id \notin Ids(Entries(toClient))) => NoRepeat(toClient')
<1>1. toClient \in Seq(ClientPacket) /\ (conn # "online" => toClient = <<>>)
  BY DEF TypeInv, PhaseInv
<1>2. CASE conn = "online"
  <2>1. toClient' = Append(toClient, p)
    BY <1>1, <1>2 DEF write
  <2>2. /\ Append(toClient, p) \in Seq(ClientPacket) /\ Entries(Append(toClient, p)) = Entries(toClient) \cup {p}
        /\ NoRepeat(toClient) /\ (p.id # 0 => p.id \notin Ids(Entries(toClient))) => NoRepeat(Append(toClient, p))
    BY <1>1, Appending, Zenon
  <2> QED BY <1>2, <2>1, <2>2
<1>3. CASE conn # "online"
  BY <1>1, <1>3 DEF write
<1> QED BY <1>2, <1>3

\* It marks and writes one of them.
LEMMA WritesStored ==
  ASSUME Inv, pollInflightsWrite
  PROVE  Inv'
<1>1. TypeInv /\ PhaseInv /\ LockInv /\ TokenInv /\ PacketInv /\ ElemInv
  BY DEF Inv
<1>2. PICK e : e = Head(resend)
  OBVIOUS
<1>3. pc = "mark" /\ resend # <<>> /\ resend \in Seq(Elem) /\ ids = <<>>
  BY <1>1 DEF pollInflightsWrite, PhaseInv, TypeInv
<1>4. /\ e \in Elem /\ Tail(resend) \in Seq(Elem)
      /\ Entries(resend) = Entries(Tail(resend)) \cup {e}
      /\ NoRepeat(Tail(resend))
      /\ e.id # 0 => e.id \notin Ids(Entries(Tail(resend)))
  BY <1>1, <1>2, <1>3, TakingFirst DEF TokenInv
<1>5. /\ e.id # 0 /\ e.kind = "publish" /\ e.id \in 1 .. MaxPacketID
      /\ \E x \in Written : PublishOf(x, e)
  <2>1. ResendOK(e) /\ e.kind = "publish"
    BY <1>1, <1>3, <1>4 DEF PacketInv, LockInv, Draining
  <2>2. e.id \in 0 .. MaxPacketID
    BY <1>4, Elements
  <2> QED BY <2>1, <2>2, QueueAndLimiterAssumption DEF ResendOK
<1>6. PICK p : p = PublishPacket(e, TRUE)
  OBVIOUS
<1>7. /\ used' = used + 1 /\ lockedPid' = lockedPid \cup {e.id}
      /\ UNCHANGED <<limit, freePid, exit, ids>>
      /\ write(<<p>>) /\ resend' = Tail(resend)
      /\ pc' = IF Tail(resend) = <<>> THEN "drain" ELSE "mark"
      /\ UNCHANGED <<queue, releasing, conn, conns, toServer, client, ghosts>>
  BY <1>2, <1>5, <1>6 DEF pollInflightsWrite, PL!markUsedLocked
<1>8. QueueInv' /\ UNCHANGED <<added, closed, Written, Waiting>>
  BY <1>1, <1>7, StandingStill DEF TypeInv, queue
<1>9. /\ p \in ClientPacket /\ p.id = e.id /\ p.type = "PUBLISH" /\ p.qos = e.qos /\ p.msg = e.msg
  <2>1. e.msg \in 1 .. MaxMsgs /\ e.id \in 0 .. MaxPacketID /\ e.qos \in 0 .. 2
    BY <1>4, Elements
  <2> QED BY <1>6, <2>1 DEF PublishPacket, ClientPacket
<1>10. e.id \in Ids(Entries(resend)) /\ Ids(Entries(resend)) = Ids(Entries(Tail(resend))) \cup {e.id}
  BY <1>4, <1>5 DEF Ids
<1>11. e.id \notin Ids(Entries(toClient)) /\ e.id \notin Ids(Entries(toServer))
  BY <1>1, <1>10 DEF TokenInv
<1>12. /\ toClient' \in Seq(ClientPacket)
       /\ conn # "online" => toClient' = <<>>
       /\ Entries(toClient') \subseteq Entries(toClient) \cup {p}
       /\ NoRepeat(toClient')
  <2>1. write(<<p>>) /\ p \in ClientPacket
    BY <1>7, <1>9
  <2>2. /\ toClient' \in Seq(ClientPacket)
        /\ conn # "online" => toClient' = <<>>
        /\ Entries(toClient') \subseteq Entries(toClient) \cup {p}
        /\ NoRepeat(toClient) /\ (p.id # 0 => p.id \notin Ids(Entries(toClient))) => NoRepeat(toClient')
    BY <1>1, <2>1, Writing, Zenon
  <2> QED BY <1>1, <1>9, <1>11, <2>2 DEF TokenInv
<1>13. TypeInv'
  <2>1. used' \in Int
    BY <1>1, <1>7 DEF TypeInv
  <2>2. lockedPid' \subseteq 1 .. MaxPacketID
    BY <1>1, <1>5, <1>7 DEF TypeInv
  <2> QED BY <1>1, <1>4, <1>7, <1>8, <1>12, <2>1, <2>2 DEF TypeInv, client, ghosts
<1>14. PhaseInv'
  BY <1>1, <1>3, <1>7, <1>8, <1>12 DEF PhaseInv
<1>15. LockInv'
  <2>1. /\ lockedPid = (Ids(Written) \ Ids(Entries(resend))) \cup Releasing
        /\ \A x \in Waiting \cup Entries(resend) : x.kind = "publish"
        /\ releasing \notin Ids(Written \cup Waiting) \cup PL!Held
    BY <1>1, <1>3 DEF LockInv, Draining
  <2>2. e.id \in Ids(Written)
    BY <1>5 DEF Ids, PublishOf
  <2>3. Releasing' = Releasing /\ PL!Held' = PL!Held
    BY <1>7 DEF Releasing, PL!Held
  <2>4. lockedPid' = (Ids(Written) \ Ids(Entries(Tail(resend)))) \cup Releasing
    BY <1>4, <1>5, <1>7, <1>10, <2>1, <2>2
  <2>5. ~Polling'
    BY <1>7 DEF Polling
  <2> QED BY <1>4, <1>7, <1>8, <2>1, <2>3, <2>4, <2>5 DEF LockInv
<1>16. TokenInv'
  <2>1. Ids(Entries(toClient')) \subseteq Ids(Entries(toClient)) \cup {e.id}
    BY <1>9, <1>12 DEF Ids
  <2> QED BY <1>1, <1>4, <1>5, <1>7, <1>10, <1>11, <1>12, <2>1 DEF TokenInv
<1>17. PacketInv'
  <2>1. UNCHANGED <<toServer, got, subscriber, firstSent, Written>>
    BY <1>7, <1>8 DEF client, ghosts
  <2>2. SentOK(p)
    <3>1. PICK x \in Written : PublishOf(x, e)
      BY <1>5
    <3>2. ElemOK(x)
      BY <1>1 DEF ElemInv
    <3> QED BY <1>5, <1>9, <3>1, <3>2 DEF SentOK, PublishOf, ElemOK
  <2> QED BY <1>1, <1>4, <1>7, <1>12, <2>1, <2>2 DEF PacketInv, SentOK, AckOK, ResendOK, FirstSent
<1>18. ElemInv'
  BY <1>1, <1>7, <1>8, ElementsKept DEF client, ghosts
<1> QED BY <1>13, <1>14, <1>15, <1>16, <1>17, <1>18 DEF Inv

\* An acknowledgement is taken from the head of toServer.
AckTaken(a) ==
  /\ a \in ServerPacket /\ a.id # 0 /\ a.id \in 1 .. MaxPacketID /\ AckOK(a)
  /\ toServer' = Tail(toServer) /\ toServer' \in Seq(ServerPacket)
  /\ Entries(toServer) = Entries(toServer') \cup {a}
  /\ NoRepeat(toServer') /\ a.id \notin Ids(Entries(toServer'))
  /\ a.id \notin Ids(Entries(toClient)) /\ a.id \notin Ids(Entries(resend))
  /\ Ids(Entries(toServer')) \subseteq Ids(Entries(toServer))

\* What readHandle knows of the acknowledgement it takes.
LEMMA TakingAck ==
  ASSUME Inv, toServer # <<>>, toServer' = Tail(toServer), NEW a, a = Head(toServer)
  PROVE  AckTaken(a)
<1>1. TypeInv /\ TokenInv /\ PacketInv
  BY DEF Inv
<1>2. /\ a \in ServerPacket /\ toServer' \in Seq(ServerPacket)
      /\ Entries(toServer) = Entries(toServer') \cup {a}
      /\ NoRepeat(toServer')
      /\ a.id # 0 => a.id \notin Ids(Entries(toServer'))
  BY <1>1, TakingFirst DEF TypeInv, TokenInv
<1>3. a.id \in 1 .. MaxPacketID /\ a.id # 0
  BY <1>2, QueueAndLimiterAssumption DEF ServerPacket
<1>4. AckOK(a)
  BY <1>1, <1>2 DEF PacketInv
<1>5. a.id \in Ids(Entries(toServer))
  BY <1>2, <1>3 DEF Ids
<1>6. Ids(Entries(toServer')) \subseteq Ids(Entries(toServer))
  BY <1>2, IdsJoined
<1> QED BY <1>1, <1>2, <1>3, <1>4, <1>5, <1>6 DEF AckTaken, TokenInv

\* The element is removed; its identifier is released by the next step.
LEMMA RemovesAcknowledged ==
  ASSUME Inv, NEW types, removeAndRelease(types), "PUBREC" \notin types
  PROVE  Inv'
<1>1. TypeInv /\ PhaseInv /\ LockInv /\ TokenInv /\ PacketInv /\ ElemInv
  BY DEF Inv
<1>2. PICK a : a = Head(toServer)
  OBVIOUS
<1>3. /\ conn # "offline" /\ releasing = 0 /\ toServer # <<>> /\ a.type \in types
      /\ MQ!Remove(a.id) /\ releasing' = a.id /\ toServer' = Tail(toServer)
      /\ UNCHANGED <<limiter, poller, conn, conns, toClient, client, ghosts>>
  BY <1>2 DEF removeAndRelease
<1>4. AckTaken(a)
  BY <1>2, <1>3, TakingAck
<1>5. /\ QueueInv' /\ UNCHANGED <<closed, added>>
      /\ \/ \A x \in Written : x.id # a.id
         \/ \E x \in Written : x.id = a.id /\ Written' = Written \ {x} /\ Waiting' = Waiting
  BY <1>1, <1>3, Removing DEF TypeInv
<1>6. PICK x \in Written :
         /\ x.id = a.id /\ x.msg \in got
         /\ \/ a.type = "PUBACK" /\ x.qos = 1
            \/ a.type = "PUBREC" /\ x.qos = 2 /\ x.kind = "publish"
            \/ a.type \in {"PUBREC-ERROR", "PUBCOMP"} /\ a.id \notin subscriber
  BY <1>4 DEF AckTaken, AckOK
<1>7. \A y, z \in Written \cup Waiting : y.id # 0 /\ y.id = z.id => y = z
  BY <1>1, Parts DEF TypeInv
<1>8. a.id # 0 /\ a.id \in 1 .. MaxPacketID
  BY <1>4 DEF AckTaken
<1>9. Written' = Written \ {x} /\ Waiting' = Waiting
  BY <1>5, <1>6, <1>7, <1>8
<1>10. \A y \in Written \cup Waiting : y \in Written' \cup Waiting' \/ y.id = a.id
  BY <1>6, <1>9
<1>11. \A y \in Written' \cup Waiting' : y \in Written \cup Waiting /\ y.id # a.id
  <2>1. x \notin Waiting
    BY <1>1, Parts DEF TypeInv
  <2> QED BY <1>6, <1>7, <1>8, <1>9, <2>1
<1>12. Ids(Written') = Ids(Written) \ {a.id} /\ a.id \in Ids(Written)
  BY <1>6, <1>8, <1>9, <1>11 DEF Ids
<1>13. a.id \notin subscriber
  <2>1. \A p \in subscriber : \E y \in Written \cup Waiting : y.id = p /\ y.qos = 2
    BY <1>1 DEF ElemInv
  <2>2. a.type # "PUBREC"
    BY <1>3
  <2> QED BY <1>6, <1>7, <1>8, <2>1, <2>2
<1>14. TypeInv'
  <2>1. releasing' \in 0 .. MaxPacketID
    BY <1>3, <1>8, QueueAndLimiterAssumption
  <2>2. toServer' \in Seq(ServerPacket)
    BY <1>4 DEF AckTaken
  <2> QED BY <1>1, <1>3, <1>5, <2>1, <2>2 DEF TypeInv, limiter, poller, client, ghosts
<1>15. PhaseInv'
  <2>1. \A b \in Entries(toServer') : b \in Entries(toServer)
    BY <1>4 DEF AckTaken
  <2> QED BY <1>1, <1>3, <1>5, <1>11, <2>1 DEF PhaseInv, limiter, poller
<1>16. LockInv'
  <2>1. Releasing = {} /\ Releasing' = {a.id} /\ PL!Held' = PL!Held /\ UNCHANGED <<lockedPid, resend, pc>>
    BY <1>3, <1>8 DEF Releasing, PL!Held, limiter, poller
  <2>2. a.id \notin Ids(Entries(resend))
    BY <1>4 DEF AckTaken
  <2>3. Draining' => /\ lockedPid = (Ids(Written') \ Ids(Entries(resend))) \cup {a.id}
                     /\ \A y \in Waiting' \cup Entries(resend) : y.kind = "publish"
    BY <1>1, <1>9, <1>12, <2>1, <2>2 DEF LockInv, Draining
  <2>4. Polling' => /\ lockedPid = Ids(Written') \cup PL!Held \cup {a.id}
                    /\ \A y \in Waiting' : y.id = 0
                    /\ Ids(Written') \cap PL!Held = {}
    BY <1>1, <1>9, <1>12, <2>1 DEF LockInv, Polling
  <2>5. a.id \notin Ids(Written' \cup Waiting')
    BY <1>11 DEF Ids
  <2>6. a.id \notin PL!Held
    <3>1. Polling => a.id \notin PL!Held
      BY <1>1, <1>12 DEF LockInv
    <3>2. ~Polling => PL!Held = {}
      BY <1>1 DEF PhaseInv, Polling, PL!Held
    <3> QED BY <3>1, <3>2
  <2> QED BY <1>3, <2>1, <2>3, <2>4, <2>5, <2>6 DEF LockInv
<1>17. TokenInv'
  BY <1>1, <1>3, <1>4 DEF TokenInv, AckTaken, poller
<1>18. PacketInv'
  <2>1. UNCHANGED <<toClient, resend, got, subscriber, firstSent>>
    BY <1>3 DEF poller, client, ghosts
  <2>2. \A p \in Entries(toClient) \cup Entries(toServer') \cup Entries(resend) : p.id # a.id
    BY <1>4, <1>8 DEF AckTaken, Ids
  <2>3. \A p, y : p.id # a.id /\ y.id = p.id /\ y \in Written => y \in Written'
    BY <1>6, <1>9
  <2>4. \A p \in Entries(toClient) : SentOK(p)'
    BY <1>1, <2>1, <2>2, <2>3 DEF PacketInv, SentOK, FirstSent, PublishOf
  <2>5. \A p \in Entries(toServer') : AckOK(p)'
    <3>1. Entries(toServer') \subseteq Entries(toServer)
      BY <1>4 DEF AckTaken
    <3> QED BY <1>1, <2>1, <2>2, <2>3, <3>1 DEF PacketInv, AckOK
  <2>6. \A p \in Entries(resend) : ResendOK(p)'
    BY <1>1, <2>1, <2>2, <2>3 DEF PacketInv, ResendOK, PublishOf
  <2> QED BY <2>1, <2>4, <2>5, <2>6 DEF PacketInv
<1>19. ElemInv'
  <2>1. UNCHANGED <<conn, got, subscriber, firstSent, owed>>
    BY <1>3 DEF client, ghosts
  <2>2. \A y \in Written' \cup Waiting' : ElemOK(y)'
    BY <1>1, <1>11, <2>1 DEF ElemInv, ElemOK, FirstSent
  <2>3. \A p \in subscriber' : \E y \in Written' \cup Waiting' : y.id = p /\ y.qos = 2 /\ y.msg \in got'
    BY <1>1, <1>10, <1>13, <2>1 DEF ElemInv
  <2> QED BY <1>1, <1>5, <1>9, <2>1, <2>2, <2>3 DEF ElemInv, FirstSent
<1> QED BY <1>14, <1>15, <1>16, <1>17, <1>18, <1>19 DEF Inv

\* A PUBREC turns the element into a PUBREL, which is written.
LEMMA ReplacesReceived ==
  ASSUME Inv, pubrecHandler
  PROVE  Inv'
<1>1. TypeInv /\ PhaseInv /\ LockInv /\ TokenInv /\ PacketInv /\ ElemInv
  BY DEF Inv
<1>2. PICK a : a = Head(toServer)
  OBVIOUS
<1>3. PICK p : p = Packet("PUBREL", a.id)
  OBVIOUS
<1>4. /\ releasing = 0 /\ toServer # <<>> /\ a.type = "PUBREC"
      /\ MQ!Replace(a.id) /\ write(<<p>>) /\ toServer' = Tail(toServer)
      /\ UNCHANGED <<limiter, poller, releasing, conn, conns, client, ghosts>>
  BY <1>2, <1>3 DEF pubrecHandler
<1>5. AckTaken(a)
  BY <1>2, <1>4, TakingAck
<1>6. conn = "online"
  BY <1>1, <1>4, <1>5 DEF PhaseInv, AckTaken
<1>7. PICK x \in Written : x.id = a.id /\ x.msg \in got /\ x.qos = 2 /\ x.kind = "publish"
  BY <1>4, <1>5 DEF AckTaken, AckOK
<1>8. \A u, v \in Written \cup Waiting : u.id # 0 /\ u.id = v.id => u = v
  BY <1>1, Parts DEF TypeInv
<1>9. a.id # 0 /\ a.id \in 1 .. MaxPacketID
  BY <1>5 DEF AckTaken
<1>10. /\ QueueInv' /\ UNCHANGED <<closed, added>>
       /\ \/ \A z \in Written : z.id # a.id
          \/ \E z \in Written, y \in Elem :
                /\ z.id = a.id /\ Waiting' = Waiting /\ Written' = (Written \ {z}) \cup {y}
                /\ y.id = a.id /\ y.msg = z.msg /\ y.qos = z.qos /\ y.kind = "pubrel" /\ y.expiry = "never"
  BY <1>1, <1>4, Replacing DEF TypeInv
<1>11. PICK y \in Elem :
          /\ Waiting' = Waiting /\ Written' = (Written \ {x}) \cup {y}
          /\ y.id = a.id /\ y.msg = x.msg /\ y.qos = 2 /\ y.kind = "pubrel" /\ y.expiry = "never"
  BY <1>7, <1>8, <1>9, <1>10
<1>12. Ids(Written') = Ids(Written) /\ Ids(Written' \cup Waiting') = Ids(Written \cup Waiting)
  <2>1. Ids(Written') = Ids(Written)
    BY <1>7, <1>11 DEF Ids
  <2>2. Ids(Written' \cup Waiting') = Ids(Written \cup Waiting)
    BY <1>7, <1>11 DEF Ids
  <2> QED BY <2>1, <2>2
<1>13. p \in ClientPacket /\ p.id = a.id /\ p.type = "PUBREL"
  BY <1>3, <1>9 DEF Packet, ClientPacket
<1>14. /\ toClient' \in Seq(ClientPacket)
       /\ Entries(toClient') \subseteq Entries(toClient) \cup {p}
       /\ NoRepeat(toClient')
  <2>1. /\ toClient' \in Seq(ClientPacket)
        /\ Entries(toClient') \subseteq Entries(toClient) \cup {p}
        /\ NoRepeat(toClient) /\ (p.id # 0 => p.id \notin Ids(Entries(toClient))) => NoRepeat(toClient')
    BY <1>1, <1>4, <1>13, Writing, Zenon
  <2> QED BY <1>1, <1>5, <1>13, <2>1 DEF TokenInv, AckTaken
<1>15. TypeInv'
  BY <1>1, <1>4, <1>5, <1>10, <1>14 DEF TypeInv, AckTaken, limiter, poller, client, ghosts
<1>16. PhaseInv'
  BY <1>1, <1>4, <1>6, <1>10 DEF PhaseInv, limiter, poller
<1>17. LockInv'
  <2>1. Releasing' = Releasing /\ PL!Held' = PL!Held /\ UNCHANGED <<lockedPid, resend, pc, releasing>>
    BY <1>4 DEF Releasing, PL!Held, limiter, poller
  <2> QED BY <1>1, <1>11, <1>12, <2>1 DEF LockInv, Draining, Polling
<1>18. TokenInv'
  <2>1. Ids(Entries(toClient')) \subseteq Ids(Entries(toClient)) \cup {a.id}
    BY <1>13, <1>14 DEF Ids
  <2>2. resend' = resend
    BY <1>4 DEF poller
  <2> QED BY <1>1, <1>5, <1>14, <2>1, <2>2 DEF TokenInv, AckTaken
<1>19. PacketInv'
  <2>1. UNCHANGED <<resend, got, subscriber, firstSent>>
    BY <1>4 DEF poller, client, ghosts
  <2>2. \A q \in Entries(toClient) \cup Entries(toServer') \cup Entries(resend) : q.id # a.id
    BY <1>5, <1>9 DEF AckTaken, Ids
  <2>3. \A q, z : q.id # a.id /\ z.id = q.id /\ z \in Written => z \in Written'
    BY <1>7, <1>11
  <2>4. \A q \in Entries(toClient) : SentOK(q)'
    BY <1>1, <2>1, <2>2, <2>3 DEF PacketInv, SentOK, FirstSent, PublishOf
  <2>5. SentOK(p)'
    BY <1>11, <1>13 DEF SentOK
  <2>6. \A q \in Entries(toServer') : AckOK(q)'
    <3>1. Entries(toServer') \subseteq Entries(toServer)
      BY <1>5 DEF AckTaken
    <3> QED BY <1>1, <2>1, <2>2, <2>3, <3>1 DEF PacketInv, AckOK
  <2>7. \A q \in Entries(resend) : ResendOK(q)'
    BY <1>1, <2>1, <2>2, <2>3 DEF PacketInv, ResendOK, PublishOf
  <2> QED BY <1>14, <2>1, <2>4, <2>5, <2>6, <2>7 DEF PacketInv
<1>20. ElemInv'
  <2>1. UNCHANGED <<conn, got, subscriber, firstSent, owed>>
    BY <1>4 DEF client, ghosts
  <2>2. ElemOK(x)
    BY <1>1 DEF ElemInv
  <2>3. ElemOK(y)'
    BY <1>7, <1>9, <1>11, <2>1, <2>2 DEF ElemOK, FirstSent
  <2>4. \A z \in Written' \cup Waiting' : ElemOK(z)'
    BY <1>1, <1>11, <2>1, <2>3 DEF ElemInv, ElemOK, FirstSent
  <2>5. \A q \in subscriber' : \E z \in Written' \cup Waiting' : z.id = q /\ z.qos = 2 /\ z.msg \in got'
    <3> SUFFICES ASSUME NEW q \in subscriber PROVE \E z \in Written' \cup Waiting' : z.id = q /\ z.qos = 2 /\ z.msg \in got
      BY <2>1
    <3>1. PICK z \in Written \cup Waiting : z.id = q /\ z.qos = 2 /\ z.msg \in got
      BY <1>1 DEF ElemInv
    <3> QED BY <1>7, <1>11, <3>1
  <2>6. conn' # "offline" => \A z \in Written' : z.expiry # "expired"
    BY <1>1, <1>11, <2>1 DEF ElemInv
  <2> QED BY <1>1, <1>10, <2>1, <2>4, <2>5, <2>6 DEF ElemInv, FirstSent
<1> QED BY <1>15, <1>16, <1>17, <1>18, <1>19, <1>20 DEF Inv

\* The next connection starts with everything waiting.
LEMMA ResumesSession ==
  ASSUME Inv, resume
  PROVE  Inv'
<1>1. TypeInv /\ PhaseInv /\ LockInv /\ TokenInv /\ PacketInv /\ ElemInv
  BY DEF Inv
<1>2. PICK n \in Limits : PL!newPacketIDLimiter(n)
  BY DEF resume
<1>3. /\ conn = "offline" /\ MQ!InitResume /\ pc' = "drain" /\ resend' = <<>> /\ conn' = "online"
      /\ UNCHANGED <<releasing, toClient, toServer, client, ghosts>>
  BY DEF resume
<1>4. used' = 0 /\ limit' = n /\ lockedPid' = {} /\ freePid' = 1 /\ exit' = FALSE /\ ids' = <<>>
  BY <1>2 DEF PL!newPacketIDLimiter
<1>5. /\ QueueInv' /\ closed' = FALSE /\ added' = added
      /\ Written' = {} /\ Waiting' = Written \cup Waiting
  BY <1>1, <1>3, Resuming DEF TypeInv
<1>6. /\ toClient = <<>> /\ toServer = <<>> /\ releasing = 0
      /\ \A x \in Written \cup Waiting : x.kind = "publish"
  BY <1>1, <1>3 DEF PhaseInv
<1>7. /\ Entries(toClient') = {} /\ Entries(toServer') = {} /\ Entries(resend') = {} /\ Ids({}) = {}
      /\ NoRepeat(toClient') /\ NoRepeat(toServer') /\ NoRepeat(resend')
  BY <1>3, <1>6, EmptySequence
<1>8. TypeInv'
  <2>1. /\ ids' \in Seq(1 .. MaxPacketID) /\ Len(ids') = 0 /\ Len(ids') <= PollBatch /\ 1 .. Len(ids') = {}
        /\ resend' \in Seq(Elem) /\ freePid' \in 1 .. MaxPacketID /\ used' \in Int
    BY <1>3, <1>4, QueueAndLimiterAssumption
  <2> QED BY <1>1, <1>3, <1>4, <1>5, <2>1 DEF TypeInv, client, ghosts
<1>9. PhaseInv'
  BY <1>3, <1>4, <1>5 DEF PhaseInv
<1>10. LockInv'
  <2>1. Releasing' = {} /\ PL!Held' = {} /\ releasing' = 0
    BY <1>3, <1>4, <1>6 DEF Releasing, PL!Held
  <2>2. 0 \notin Ids(Written' \cup Waiting')
    BY DEF Ids
  <2> QED BY <1>3, <1>4, <1>5, <1>6, <1>7, <2>1, <2>2 DEF LockInv, Draining, Polling
<1>11. TokenInv' /\ PacketInv'
  BY <1>7 DEF TokenInv, PacketInv
<1>12. ElemInv'
  <2>1. UNCHANGED <<got, subscriber, firstSent, owed>>
    BY <1>3 DEF client, ghosts
  <2>2. \A x \in Written' \cup Waiting' : ElemOK(x)'
    BY <1>1, <1>5, <2>1 DEF ElemInv, ElemOK, FirstSent
  <2> QED BY <1>1, <1>5, <2>1, <2>2 DEF ElemInv, FirstSent
<1> QED BY <1>8, <1>9, <1>10, <1>11, <1>12 DEF Inv

\* An element expires that the subscriber cannot have answered.
LEMMA Expires ==
  ASSUME Inv, ~LateAck, expire
  PROVE  Inv'
<1>1. TypeInv /\ PhaseInv /\ LockInv /\ TokenInv /\ PacketInv /\ ElemInv
  BY DEF Inv
<1>2. UNCHANGED <<limiter, poller, releasing, network, client, ghosts>>
  BY DEF expire
<1>3. PICK i \in 1 .. Len(l) :
         (l[i].id = 0 \/ (conn = "offline" /\ l[i].id \notin subscriber)) /\ MQ!Expire(i)
  BY DEF expire
<1>4. PICK x : x = l[i]
  OBVIOUS
<1>5. /\ QueueInv' /\ UNCHANGED <<closed, added>>
      /\ \E y \in Elem :
            /\ y.id = x.id /\ y.msg = x.msg /\ y.qos = x.qos /\ y.kind = x.kind
            /\ y.expiry = "expired"
            /\ \/ x \in Written /\ Written' = (Written \ {x}) \cup {y} /\ Waiting' = Waiting
               \/ x \in Waiting /\ Waiting' = (Waiting \ {x}) \cup {y} /\ Written' = Written
  BY <1>1, <1>3, <1>4, Expiring DEF TypeInv
<1>6. PICK y \in Elem :
         /\ y.id = x.id /\ y.msg = x.msg /\ y.qos = x.qos /\ y.kind = x.kind
         /\ y.expiry = "expired"
         /\ \/ x \in Written /\ Written' = (Written \ {x}) \cup {y} /\ Waiting' = Waiting
            \/ x \in Waiting /\ Waiting' = (Waiting \ {x}) \cup {y} /\ Written' = Written
  BY <1>5
<1>7. UNCHANGED <<used, limit, lockedPid, freePid, exit, ids, pc, resend, conn, toClient, toServer, got, subscriber,
                  firstSent, owed, releasing>>
  BY <1>2 DEF limiter, poller, network, client, ghosts
<1>8. /\ x \in Written \cup Waiting
      /\ \A z \in Written' \cup Waiting' : z \in Written \cup Waiting \/ z = y
      /\ \A z \in Written \cup Waiting : z \in Written' \cup Waiting' \/ (z = x /\ y \in Written' \cup Waiting')
  BY <1>6
<1>9. Ids(Written') = Ids(Written) /\ Ids(Written' \cup Waiting') = Ids(Written \cup Waiting)
  <2>1. Ids(Written') = Ids(Written)
    BY <1>6 DEF Ids
  <2>2. Ids(Written' \cup Waiting') = Ids(Written \cup Waiting)
    BY <1>6, <1>8 DEF Ids
  <2> QED BY <2>1, <2>2
<1>10. conn # "offline" => Written' = Written
  <2>1. conn # "offline" => x.id = 0
    BY <1>3, <1>4
  <2>2. \A z \in Written : z.id # 0
    BY <1>1, Parts DEF TypeInv
  <2> QED BY <1>6, <2>1, <2>2
<1>11. TypeInv'
  BY <1>1, <1>5, <1>7 DEF TypeInv
<1>12. PhaseInv'
  BY <1>1, <1>5, <1>6, <1>7, <1>8 DEF PhaseInv
<1>13. LockInv'
  <2>1. Releasing' = Releasing /\ PL!Held' = PL!Held
    BY <1>7 DEF Releasing, PL!Held
  <2>2. ASSUME \A z \in Waiting : z.kind = "publish" PROVE \A z \in Waiting' : z.kind = "publish"
    BY <1>6, <2>2
  <2>3. ASSUME \A z \in Waiting : z.id = 0 PROVE \A z \in Waiting' : z.id = 0
    BY <1>6, <2>3
  <2> QED BY <1>1, <1>7, <1>9, <2>1, <2>2, <2>3 DEF LockInv, Draining, Polling
<1>14. TokenInv'
  BY <1>1, <1>7, PacketsStill
<1>15. PacketInv'
  <2>1. CASE conn # "offline"
    BY <1>1, <1>7, <1>10, <2>1, PacketsKept
  <2>2. CASE conn = "offline"
    <3>1. toClient = <<>> /\ toServer = <<>> /\ resend = <<>>
      BY <1>1, <2>2 DEF PhaseInv
    <3> QED BY <1>7, <3>1, EmptySequence DEF PacketInv
  <2> QED BY <2>1, <2>2
<1>16. ElemInv'
  <2>1. \A z \in Written \cup Waiting : ElemOK(z)
    BY <1>1 DEF ElemInv
  <2>2. ElemOK(y)'
    <3>1. ElemOK(x)
      BY <1>8, <2>1
    <3>2. x.id # 0 => x.id \notin subscriber
      BY <1>3, <1>4
    <3> QED BY <1>6, <1>7, <3>1, <3>2 DEF ElemOK, FirstSent
  <2>3. \A z \in Written' \cup Waiting' : ElemOK(z)'
    BY <1>7, <1>8, <2>1, <2>2 DEF ElemOK, FirstSent
  <2>4. \A p \in subscriber' : \E z \in Written' \cup Waiting' : z.id = p /\ z.qos = 2 /\ z.msg \in got'
    <3> SUFFICES ASSUME NEW p \in subscriber PROVE \E z \in Written' \cup Waiting' : z.id = p /\ z.qos = 2 /\ z.msg \in got
      BY <1>7
    <3>1. PICK z \in Written \cup Waiting : z.id = p /\ z.qos = 2 /\ z.msg \in got
      BY <1>1 DEF ElemInv
    <3> QED BY <1>6, <1>8, <3>1
  <2> QED BY <1>1, <1>5, <1>7, <1>10, <2>3, <2>4 DEF ElemInv, FirstSent
<1> QED BY <1>11, <1>12, <1>13, <1>14, <1>15, <1>16 DEF Inv

\* A message arrives.  Another one may have to go: one that waits, or, while there is no connection,
\* an expired one in front.
LEMMA AddsMessage ==
  ASSUME Inv, addMsgToQueueLocked
  PROVE  Inv'
<1>1. TypeInv /\ PhaseInv /\ LockInv /\ TokenInv /\ PacketInv /\ ElemInv
  BY DEF Inv
<1>2. added < MaxMsgs /\ UNCHANGED <<poller, releasing, network, client, firstSent>>
  BY DEF addMsgToQueueLocked
<1>3. PICK qos \in QoSs, expiry \in Expiries, big \in Sizes :
         LET e == MQ!NewElem(qos, expiry, big)
         IN  /\ \/ MQ!AddRoom(e) /\ UNCHANGED limiter
                \/ MQ!AddEvict(e) /\ NotifyExpiredInflight
                \/ MQ!AddReject(e) /\ UNCHANGED limiter
                \/ MQ!AddPanic(e) /\ UNCHANGED limiter
             /\ owed' = IF qos > 0 THEN owed \cup {e.msg} ELSE owed
  BY DEF addMsgToQueueLocked
<1>4. PICK e : e = MQ!NewElem(qos, expiry, big)
  OBVIOUS
<1>5. /\ \/ MQ!AddRoom(e) /\ UNCHANGED limiter
         \/ MQ!AddEvict(e) /\ NotifyExpiredInflight
         \/ MQ!AddReject(e) /\ UNCHANGED limiter
         \/ MQ!AddPanic(e) /\ UNCHANGED limiter
      /\ owed' = IF qos > 0 THEN owed \cup {e.msg} ELSE owed
  BY <1>3, <1>4
<1>6. /\ e \in Elem /\ e.id = 0 /\ e.kind = "publish" /\ e.msg = added + 1 /\ e.qos = qos
      /\ e.expiry # "expired"
  <2>1. QueueInv
    BY <1>1 DEF TypeInv
  <2> QED BY <1>2, <1>4, <2>1, NewElements
<1>7. UNCHANGED <<pc, resend, conn, toClient, toServer, got, subscriber, firstSent, releasing>>
  BY <1>2 DEF poller, network, client
<1>8. /\ QueueInv' /\ added' = added + 1 /\ closed' = closed
      /\ \/ /\ Written' = Written /\ Waiting' \subseteq Waiting \cup {e} /\ UNCHANGED limiter
            /\ \A z \in Waiting : z \in Waiting' \/ z.id = 0
         \/ \E x \in Written :
               /\ x = l[1] /\ x.expiry = "expired" /\ MQ!FrontExpired /\ NotifyExpiredInflight
               /\ Written' = Written \ {x} /\ Waiting' = (Waiting \ {x}) \cup {e}
  <2>0. QueueInv
    BY <1>1 DEF TypeInv
  <2>1. CASE MQ!AddRoom(e) /\ UNCHANGED limiter
    BY <1>6, <2>0, <2>1, AddingWithRoom
  <2>2. CASE (MQ!AddReject(e) \/ MQ!AddPanic(e)) /\ UNCHANGED limiter
    BY <1>6, <2>0, <2>2, AddingDropping
  <2>3. CASE MQ!AddEvict(e) /\ NotifyExpiredInflight
    <3>1. /\ QueueInv' /\ added' = added + 1 /\ closed' = closed
          /\ \E x \in Written \cup Waiting :
                /\ Written' = Written \ {x} /\ Waiting' = (Waiting \ {x}) \cup {e}
                /\ \/ MQ!FrontExpired /\ x = l[1] /\ x \in Written /\ x.expiry = "expired"
                   \/ ~MQ!FrontExpired /\ x \in Waiting /\ x.id = 0
      BY <1>6, <2>0, <2>3, AddingEvicting
    <3>2. Written \cap Waiting = {}
      BY <2>0, Parts
    <3>3. ~MQ!FrontExpired => UNCHANGED limiter
      BY <2>3 DEF NotifyExpiredInflight
    <3> QED BY <2>3, <3>1, <3>2, <3>3
  <2> QED BY <1>5, <2>1, <2>2, <2>3
<1>9. added \in Nat /\ MaxMsgs \in Nat
  BY <1>1, Counts DEF TypeInv
<1>10. /\ \A z \in Written \cup Waiting : z.msg <= added /\ z.msg \in Nat
       /\ owed \subseteq 1 .. added /\ FirstSent \subseteq 1 .. added
  <2>1. \A z \in Written \cup Waiting : z \in Elem /\ z.msg <= added
    BY <1>1, Parts DEF TypeInv
  <2> QED BY <1>1, <2>1, Elements DEF ElemInv
<1>11. ElemOK(e)'
  <2>1. \A f \in FirstSent : f < e.msg
    BY <1>6, <1>9, <1>10
  <2>2. e.qos > 0 <=> e.msg \in owed'
    <3>1. e.msg \notin owed
      BY <1>6, <1>9, <1>10
    <3> QED BY <1>5, <1>6, <3>1
  <2> QED BY <1>6, <1>7, <2>1, <2>2 DEF ElemOK, FirstSent
<1>12. \A z \in Written \cup Waiting : ElemOK(z)'
  <2> SUFFICES ASSUME NEW z \in Written \cup Waiting PROVE ElemOK(z)'
    OBVIOUS
  <2>1. ElemOK(z)
    BY <1>1 DEF ElemInv
  <2>2. z.msg # e.msg
    BY <1>6, <1>9, <1>10
  <2>3. z.msg \in owed' <=> z.msg \in owed
    BY <1>5, <2>2
  <2> QED BY <1>7, <2>1, <2>3 DEF ElemOK, FirstSent
<1>13. owed' \subseteq 1 .. added' /\ got' \subseteq FirstSent' /\ FirstSent' \subseteq 1 .. added'
  <2>1. 1 .. added \subseteq 1 .. (added + 1) /\ added + 1 \in 1 .. (added + 1)
    BY <1>9
  <2>2. FirstSent' = FirstSent /\ got \subseteq FirstSent
    BY <1>1, <1>7 DEF FirstSent, ElemInv
  <2> QED BY <1>5, <1>6, <1>7, <1>8, <1>10, <2>1, <2>2
<1>14. TokenInv'
  BY <1>1, <1>7, PacketsStill
<1>15. CASE /\ Written' = Written /\ Waiting' \subseteq Waiting \cup {e} /\ UNCHANGED limiter
            /\ \A z \in Waiting : z \in Waiting' \/ z.id = 0
  <2>1. UNCHANGED <<used, limit, lockedPid, freePid, exit, ids>>
    BY <1>15 DEF limiter
  <2>2. TypeInv'
    BY <1>1, <1>7, <1>8, <2>1 DEF TypeInv
  <2>3. PhaseInv'
    BY <1>1, <1>6, <1>7, <1>8, <1>15, <2>1 DEF PhaseInv
  <2>4. LockInv'
    <3>1. Releasing' = Releasing /\ PL!Held' = PL!Held
      BY <1>7, <2>1 DEF Releasing, PL!Held
    <3>2. Ids(Written' \cup Waiting') \subseteq Ids(Written \cup Waiting)
      BY <1>6, <1>15 DEF Ids
    <3> QED BY <1>1, <1>6, <1>7, <1>15, <2>1, <3>1, <3>2 DEF LockInv, Draining, Polling
  <2>5. PacketInv'
    BY <1>1, <1>7, <1>15, PacketsKept
  <2>6. ElemInv'
    <3>1. \A z \in Written' \cup Waiting' : ElemOK(z)'
      BY <1>11, <1>12, <1>15
    <3>2. \A p \in subscriber' : \E z \in Written' \cup Waiting' : z.id = p /\ z.qos = 2 /\ z.msg \in got'
      <4>1. \A p \in subscriber : p # 0
        BY <1>1, QueueAndLimiterAssumption DEF TypeInv
      <4> QED BY <1>1, <1>7, <1>15, <4>1 DEF ElemInv
    <3> QED BY <1>1, <1>7, <1>13, <1>15, <3>1, <3>2 DEF ElemInv
  <2> QED BY <1>14, <2>2, <2>3, <2>4, <2>5, <2>6 DEF Inv
<1>16. CASE \E x \in Written :
               /\ x = l[1] /\ x.expiry = "expired" /\ MQ!FrontExpired /\ NotifyExpiredInflight
               /\ Written' = Written \ {x} /\ Waiting' = (Waiting \ {x}) \cup {e}
  <2>1. PICK x \in Written :
               /\ x = l[1] /\ x.expiry = "expired" /\ MQ!FrontExpired /\ NotifyExpiredInflight
               /\ Written' = Written \ {x} /\ Waiting' = (Waiting \ {x}) \cup {e}
    BY <1>16
  <2>2. /\ conn = "offline" /\ exit /\ closed /\ pc = "done" /\ releasing = 0 /\ ids = <<>>
        /\ toClient = <<>> /\ toServer = <<>> /\ resend = <<>>
    BY <1>1, <2>1 DEF ElemInv, PhaseInv
  <2>3. /\ lockedPid' = lockedPid \ {x.id} /\ used' = used - PL!Cardinality(lockedPid \cap {x.id})
        /\ UNCHANGED <<limit, freePid, exit, ids>>
    BY <2>1 DEF NotifyExpiredInflight, PL!release, PL!releaseLocked
  <2>4. used' \in Int
    <3>1. IsFiniteSet(lockedPid \cap {x.id})
      BY FS_Singleton, FS_Subset
    <3>2. PL!Cardinality(lockedPid \cap {x.id}) \in Nat
      BY <3>1, FS_CardinalityType DEF PL!Cardinality, Cardinality
    <3> QED BY <1>1, <2>3, <3>2 DEF TypeInv
  <2>5. TypeInv'
    BY <1>1, <1>7, <1>8, <2>3, <2>4 DEF TypeInv
  <2>6. PhaseInv'
    BY <1>1, <1>6, <1>7, <1>8, <2>1, <2>3 DEF PhaseInv
  <2>7. LockInv'
    <3>1. ~Draining' /\ ~Polling' /\ releasing' = 0 /\ PL!Held' = {}
      BY <1>7, <2>2, <2>3 DEF Draining, Polling, PL!Held
    <3>2. 0 \notin Ids(Written' \cup Waiting')
      BY DEF Ids
    <3> QED BY <3>1, <3>2 DEF LockInv
  <2>8. PacketInv'
    BY <1>7, <2>2, EmptySequence DEF PacketInv
  <2>9. ElemInv'
    <3>1. \A z \in Written' \cup Waiting' : ElemOK(z)'
      BY <1>11, <1>12, <2>1
    <3>2. \A p \in subscriber' : \E z \in Written' \cup Waiting' : z.id = p /\ z.qos = 2 /\ z.msg \in got'
      <4>1. x.id \notin subscriber
        <5>1. x.id # 0
          BY <1>1, Parts DEF TypeInv
        <5> QED BY <1>1, <2>1, <5>1 DEF ElemInv, ElemOK
      <4> QED BY <1>1, <1>7, <2>1, <4>1 DEF ElemInv
    <3> QED BY <1>7, <1>13, <2>2, <3>1, <3>2 DEF ElemInv
  <2> QED BY <1>14, <2>5, <2>6, <2>7, <2>8, <2>9 DEF Inv
<1> QED BY <1>8, <1>15, <1>16

\* The subscriber takes a packet p and answers it.
Answered(p) ==
  /\ got \subseteq got' /\ got' \subseteq FirstSent
  /\ subscriber' \subseteq 1 .. MaxPacketID
  /\ \A q \in subscriber' : q = p.id \/ q \in subscriber
  /\ \A q \in subscriber : q = p.id \/ q \in subscriber'
  /\ p.id \in subscriber' => p.id # 0 /\ \E x \in Written : x.id = p.id /\ x.qos = 2 /\ x.msg \in got'
  /\ \/ toServer' = toServer
     \/ \E a \in ServerPacket :
           a.id # 0 /\ a.id = p.id /\ toServer' = Append(toServer, a) /\ AckOK(a)'

\* The subscriber answers what it was sent.
LEMMA Answers ==
  ASSUME Inv, subscriberReceives, NEW p, p = Head(toClient)
  PROVE  Answered(p)
<1>1. TypeInv /\ PhaseInv /\ LockInv /\ TokenInv /\ PacketInv /\ ElemInv
  BY DEF Inv
<1>2. toClient # <<>> /\ toClient \in Seq(ClientPacket) /\ UNCHANGED queue
  BY <1>1 DEF subscriberReceives, TypeInv
<1>3. p \in ClientPacket /\ p \in Entries(toClient)
  BY <1>2, TakingFirst
<1>4. SentOK(p)
  BY <1>1, <1>3 DEF PacketInv
<1>5. got \subseteq FirstSent /\ subscriber \subseteq 1 .. MaxPacketID
  BY <1>1 DEF ElemInv, TypeInv
<1>6. \A x, y \in Written \cup Waiting : x.id # 0 /\ x.id = y.id => x = y
  BY <1>1, Parts DEF TypeInv
<1>7. Written' = Written
  BY <1>1, <1>2, StandingStill DEF TypeInv
<1>8. \A q \in subscriber : \E x \in Written \cup Waiting : x.id = q /\ x.qos = 2 /\ x.msg \in got
  BY <1>1 DEF ElemInv
<1>9. ASSUME p.type = "PUBLISH", p.qos # 0
      PROVE  /\ p.id # 0 /\ p.id \in 1 .. MaxPacketID /\ p.msg \in FirstSent
             /\ \E x \in Written : PublishOf(x, p)
  <2>1. p.id \in 0 .. MaxPacketID
    BY <1>3, <1>9, QueueAndLimiterAssumption DEF ClientPacket
  <2> QED BY <1>4, <1>9, <2>1, QueueAndLimiterAssumption DEF SentOK
<1>10. \A t \in {"PUBACK", "PUBREC", "PUBREC-ERROR", "PUBCOMP"} :
          p.id \in 1 .. MaxPacketID =>
            Packet(t, p.id) \in ServerPacket /\ Packet(t, p.id).id = p.id /\ Packet(t, p.id).type = t
  BY DEF Packet, ServerPacket
<1>11. CASE p.type = "PUBLISH" /\ p.qos = 0 /\ got' = got \cup {p.msg} /\ UNCHANGED <<toServer, subscriber>>
  <2>1. p.msg \in FirstSent
    BY <1>4, <1>11 DEF SentOK
  <2>2. p.id = 0
    <3> SUFFICES ASSUME p.id # 0 PROVE FALSE
      OBVIOUS
    <3>1. PICK x \in Written : PublishOf(x, p)
      BY <1>4, <1>11 DEF SentOK
    <3>2. x.qos > 0
      BY <1>1, <3>1 DEF ElemInv, ElemOK, PublishOf
    <3> QED BY <1>11, <3>1, <3>2 DEF PublishOf
  <2>3. 0 \notin subscriber
    BY <1>5, QueueAndLimiterAssumption
  <2> QED BY <1>5, <1>11, <2>1, <2>2, <2>3 DEF Answered
<1>12. CASE /\ p.type = "PUBLISH" /\ p.qos = 1 /\ got' = got \cup {p.msg}
            /\ toServer' = Append(toServer, Packet("PUBACK", p.id)) /\ UNCHANGED subscriber
  <2>1. PICK x \in Written : PublishOf(x, p)
    BY <1>9, <1>12
  <2>2. PICK a : a = Packet("PUBACK", p.id)
    OBVIOUS
  <2>3. a \in ServerPacket /\ a.id = p.id /\ a.type = "PUBACK" /\ p.id # 0 /\ p.msg \in FirstSent
    BY <1>9, <1>10, <1>12, <2>2
  <2>4. AckOK(a)'
    BY <1>7, <1>12, <2>1, <2>3 DEF AckOK, PublishOf
  <2>5. p.id \notin subscriber
    BY <1>6, <1>8, <1>12, <2>1, <2>3 DEF PublishOf
  <2> QED BY <1>5, <1>12, <2>2, <2>3, <2>4, <2>5 DEF Answered
<1>13. CASE /\ p.type = "PUBLISH" /\ p.qos = 2
            /\ got' = IF p.id \in subscriber THEN got ELSE got \cup {p.msg}
            /\ subscriber' = subscriber \cup {p.id} /\ toServer' = Append(toServer, Packet("PUBREC", p.id))
  <2>1. PICK x \in Written : PublishOf(x, p)
    BY <1>9, <1>13
  <2>2. PICK a : a = Packet("PUBREC", p.id)
    OBVIOUS
  <2>3. a \in ServerPacket /\ a.id = p.id /\ a.type = "PUBREC" /\ p.id # 0 /\ p.msg \in FirstSent /\ p.id \in 1 .. MaxPacketID
    BY <1>9, <1>10, <1>13, <2>2
  <2>4. x.id = p.id /\ x.qos = 2 /\ x.kind = "publish" /\ x.msg = p.msg
    BY <1>13, <2>1 DEF PublishOf
  <2>5. x.msg \in got'
    BY <1>6, <1>8, <1>13, <2>3, <2>4
  <2>6. AckOK(a)'
    BY <1>7, <2>3, <2>4, <2>5 DEF AckOK
  <2>7. subscriber' \subseteq 1 .. MaxPacketID /\ got \subseteq got' /\ got' \subseteq FirstSent
    BY <1>5, <1>13, <2>3
  <2> QED BY <1>13, <2>2, <2>3, <2>4, <2>5, <2>6, <2>7 DEF Answered
<1>14. CASE /\ p.type = "PUBLISH" /\ p.qos = 2 /\ p.id \notin subscriber /\ got' = got \cup {p.msg}
            /\ toServer' = Append(toServer, Packet("PUBREC-ERROR", p.id)) /\ UNCHANGED subscriber
  <2>1. PICK x \in Written : PublishOf(x, p)
    BY <1>9, <1>14
  <2>2. PICK a : a = Packet("PUBREC-ERROR", p.id)
    OBVIOUS
  <2>3. a \in ServerPacket /\ a.id = p.id /\ a.type = "PUBREC-ERROR" /\ p.id # 0 /\ p.msg \in FirstSent
    BY <1>9, <1>10, <1>14, <2>2
  <2>4. AckOK(a)'
    BY <1>7, <1>14, <2>1, <2>3 DEF AckOK, PublishOf
  <2> QED BY <1>5, <1>14, <2>2, <2>3, <2>4 DEF Answered
<1>15. CASE /\ p.type = "PUBREL" /\ subscriber' = subscriber \ {p.id}
            /\ toServer' = Append(toServer, Packet("PUBCOMP", p.id)) /\ UNCHANGED got
  <2>1. PICK x \in Written : x.id = p.id /\ x.kind = "pubrel"
    BY <1>4, <1>15 DEF SentOK
  <2>2. x.msg \in got
    BY <1>1, <2>1 DEF ElemInv, ElemOK
  <2>3. p.id # 0 /\ p.id \in 1 .. MaxPacketID
    BY <1>3, <1>15, QueueAndLimiterAssumption DEF ClientPacket
  <2>4. PICK a : a = Packet("PUBCOMP", p.id)
    OBVIOUS
  <2>5. a \in ServerPacket /\ a.id = p.id /\ a.type = "PUBCOMP"
    BY <1>10, <2>3, <2>4
  <2>6. AckOK(a)'
    BY <1>7, <1>15, <2>1, <2>2, <2>5 DEF AckOK
  <2> QED BY <1>5, <1>15, <2>3, <2>4, <2>5, <2>6 DEF Answered
<1> QED BY <1>11, <1>12, <1>13, <1>14, <1>15 DEF subscriberReceives

\* The subscriber receives.
LEMMA Receives ==
  ASSUME Inv, subscriberReceives
  PROVE  Inv'
<1>1. TypeInv /\ PhaseInv /\ LockInv /\ TokenInv /\ PacketInv /\ ElemInv
  BY DEF Inv
<1>2. PICK p : p = Head(toClient)
  OBVIOUS
<1>3. /\ conn = "online" /\ toClient # <<>> /\ toClient' = Tail(toClient)
      /\ UNCHANGED <<queue, limiter, poller, releasing, conn, conns, ghosts>>
  BY <1>2 DEF subscriberReceives
<1>4. /\ p \in ClientPacket /\ toClient' \in Seq(ClientPacket)
      /\ Entries(toClient) = Entries(toClient') \cup {p}
      /\ NoRepeat(toClient')
      /\ p.id # 0 => p.id \notin Ids(Entries(toClient'))
  BY <1>1, <1>2, <1>3, TakingFirst DEF TypeInv, TokenInv
<1>5. Answered(p)
  BY <1>2, Answers
<1>6. QueueInv' /\ UNCHANGED <<added, closed, Written, Waiting>>
  BY <1>1, <1>3, StandingStill DEF TypeInv, queue
<1>7. p.id # 0 => p.id \in Ids(Entries(toClient))
  BY <1>4 DEF Ids
<1>8. p.id # 0 => p.id \notin Ids(Entries(toServer)) /\ p.id \notin Ids(Entries(resend))
  BY <1>1, <1>7 DEF TokenInv
<1>9. /\ toServer' \in Seq(ServerPacket) /\ NoRepeat(toServer')
      /\ \A a \in Entries(toServer') : a \in Entries(toServer) \/ (a.id # 0 /\ a.id = p.id /\ AckOK(a)')
  <2>1. CASE toServer' = toServer
    BY <1>1, <2>1 DEF TypeInv, TokenInv
  <2>2. CASE toServer' # toServer
    <3>1. PICK a \in ServerPacket :
             a.id # 0 /\ a.id = p.id /\ toServer' = Append(toServer, a) /\ AckOK(a)'
      BY <1>5, <2>2 DEF Answered
    <3>2. /\ toServer' \in Seq(ServerPacket) /\ Entries(toServer') = Entries(toServer) \cup {a}
          /\ NoRepeat(toServer')
      BY <1>1, <1>8, <3>1, Appending DEF TypeInv, TokenInv
    <3> QED BY <3>1, <3>2
  <2> QED BY <2>1, <2>2
<1>10. UNCHANGED <<used, limit, lockedPid, freePid, exit, ids, pc, resend, releasing, conn, owed, firstSent>>
  BY <1>3 DEF limiter, poller, ghosts
<1>11. TypeInv'
  BY <1>1, <1>4, <1>5, <1>6, <1>9, <1>10 DEF TypeInv, Answered
<1>12. PhaseInv'
  BY <1>1, <1>3, <1>6, <1>10 DEF PhaseInv
<1>13. LockInv'
  BY <1>1, <1>6, <1>10, LocksKept
<1>14. TokenInv'
  <2>1. Ids(Entries(toClient')) \subseteq Ids(Entries(toClient))
    BY <1>4 DEF Ids
  <2>2. \A q \in Ids(Entries(toServer')) : q \in Ids(Entries(toServer)) \/ (q = p.id /\ p.id # 0)
    BY <1>9 DEF Ids
  <2>3. Ids(Entries(toClient')) \cap Ids(Entries(toServer')) = {}
    BY <1>1, <1>4, <2>1, <2>2 DEF TokenInv
  <2>4. Ids(Entries(toServer')) \cap Ids(Entries(resend)) = {}
    BY <1>1, <1>8, <2>2 DEF TokenInv
  <2> QED BY <1>1, <1>4, <1>9, <1>10, <2>1, <2>3, <2>4 DEF TokenInv
<1>15. PacketInv'
  <2>1. \A q \in Entries(toClient') : SentOK(q)'
    BY <1>1, <1>4, <1>6, <1>10 DEF PacketInv, SentOK, FirstSent
  <2>2. \A a \in Entries(toServer) : AckOK(a)'
    <3> SUFFICES ASSUME NEW a \in Entries(toServer) PROVE AckOK(a)'
      OBVIOUS
    <3>1. AckOK(a)
      BY <1>1 DEF PacketInv
    <3>2. a.id # 0
      <4>1. PICK x \in Written : x.id = a.id
        BY <3>1 DEF AckOK
      <4> QED BY <1>1, <4>1, Parts DEF TypeInv
    <3>3. a.id # p.id
      BY <1>8, <3>2 DEF Ids
    <3>4. a.id \in subscriber' => a.id \in subscriber
      BY <1>5, <3>3 DEF Answered
    <3>5. got \subseteq got'
      BY <1>5 DEF Answered
    <3> QED BY <1>6, <3>1, <3>4, <3>5 DEF AckOK
  <2>3. \A r \in Entries(resend') : ResendOK(r)'
    BY <1>1, <1>6, <1>10 DEF PacketInv, ResendOK
  <2> QED BY <1>9, <2>1, <2>2, <2>3 DEF PacketInv
<1>16. ElemInv'
  <2>1. \A x \in Written \cup Waiting : ElemOK(x)'
    <3> SUFFICES ASSUME NEW x \in Written \cup Waiting PROVE ElemOK(x)'
      OBVIOUS
    <3>1. ElemOK(x)
      BY <1>1 DEF ElemInv
    <3>2. x.id # 0 /\ x.expiry = "expired" => x.id \notin subscriber'
      <4> SUFFICES ASSUME x.id # 0, x.expiry = "expired", x.id \in subscriber' PROVE FALSE
        OBVIOUS
      <4>1. x.id = p.id
        BY <1>5, <3>1 DEF Answered, ElemOK
      <4>2. PICK y \in Written : y.id = p.id
        BY <1>5, <4>1 DEF Answered
      <4>3. y = x
        BY <1>1, <4>1, <4>2, Parts DEF TypeInv
      <4> QED BY <1>1, <1>3, <4>2, <4>3 DEF ElemInv
    <3>3. got \subseteq got'
      BY <1>5 DEF Answered
    <3> QED BY <1>10, <3>1, <3>2, <3>3 DEF ElemOK, FirstSent
  <2>2. \A q \in subscriber' : \E x \in Written \cup Waiting : x.id = q /\ x.qos = 2 /\ x.msg \in got'
    BY <1>1, <1>5 DEF Answered, ElemInv
  <2>3. got' \subseteq FirstSent' /\ FirstSent' = FirstSent
    BY <1>5, <1>10 DEF Answered, FirstSent
  <2> QED BY <1>1, <1>6, <1>10, <2>1, <2>2, <2>3 DEF ElemInv
<1> QED BY <1>11, <1>12, <1>13, <1>14, <1>15, <1>16 DEF Inv

\* The identifiers in the list.
LEMMA ListedIds ==
  ASSUME QueueInv
  PROVE  MQ!IdsInList = Ids(Written \cup Waiting)
<1>1. l \in Seq(Elem) /\ current \in 1 .. (Len(l) + 1) /\ Len(l) \in Nat
  BY DEF QueueInv, Q!QueueInv, Q!WellFormed, Elem
<1>2. 1 .. Len(l) = 1 .. (current - 1) \cup current .. Len(l)
  BY <1>1
<1>3. Written \cup Waiting = {l[i] : i \in 1 .. Len(l)}
  BY <1>2 DEF Written, Waiting, Q!Written, Q!Waiting
<1> QED BY <1>3 DEF MQ!IdsInList, Ids

\* The entries of a sequence.
LEMMA EntriesIn ==
  ASSUME NEW S, NEW s \in Seq(S)
  PROVE  \A i \in 1 .. Len(s) : s[i] \in S
  OBVIOUS

\* The packets and the messages made from what Read returns.
PacketsFor(r) == [i \in 1 .. Len(r) |-> PublishPacket(r[i], FALSE)]

\* The packets carry what Read returned.
LEMMA PacketsOf ==
  ASSUME NEW r \in Seq(Elem), NEW t, t = PacketsFor(r)
  PROVE  /\ t \in Seq(ClientPacket)
         /\ \A p \in Entries(t) : \E x \in Entries(r) :
               p.type = "PUBLISH" /\ p.id = x.id /\ p.qos = x.qos /\ p.msg = x.msg
         /\ Ids(Entries(t)) = Ids(Entries(r))
         /\ NoRepeat(r) => NoRepeat(t)
<1>1. Len(r) \in Nat /\ \A i \in 1 .. Len(r) : r[i] \in Elem
  OBVIOUS
<1>2. \A i \in 1 .. Len(r) :
         /\ t[i] \in ClientPacket /\ t[i].type = "PUBLISH" /\ t[i].id = r[i].id /\ t[i].qos = r[i].qos
         /\ t[i].msg = r[i].msg
  <2> SUFFICES ASSUME NEW i \in 1 .. Len(r)
               PROVE  /\ t[i] \in ClientPacket /\ t[i].type = "PUBLISH" /\ t[i].id = r[i].id
                      /\ t[i].qos = r[i].qos /\ t[i].msg = r[i].msg
    OBVIOUS
  <2>1. t[i] = PublishPacket(r[i], FALSE)
    BY DEF PacketsFor
  <2>2. r[i].msg \in 1 .. MaxMsgs /\ r[i].id \in 0 .. MaxPacketID /\ r[i].qos \in 0 .. 2
    BY <1>1, Elements
  <2> QED BY <2>1, <2>2 DEF PublishPacket, ClientPacket
<1>3. t \in [1 .. Len(r) -> ClientPacket]
  BY <1>2 DEF PacketsFor
<1>4. t \in Seq(ClientPacket) /\ Len(t) = Len(r)
  BY <1>1, <1>3, Tuples
<1>5. ASSUME NEW p \in Entries(t)
      PROVE  \E x \in Entries(r) : p.type = "PUBLISH" /\ p.id = x.id /\ p.qos = x.qos /\ p.msg = x.msg
  <2>1. PICK i \in 1 .. Len(t) : p = t[i]
    BY Zenon DEF Entries
  <2>2. i \in 1 .. Len(r)
    BY <1>4, <2>1, Zenon
  <2>3. r[i] \in Entries(r)
    BY <2>2, Zenon DEF Entries
  <2>4. t[i].type = "PUBLISH" /\ t[i].id = r[i].id /\ t[i].qos = r[i].qos /\ t[i].msg = r[i].msg
    BY <1>2, <2>2, Zenon
  <2> QED BY <2>1, <2>3, <2>4, Zenon
<1>6. ASSUME NEW x \in Entries(r)
      PROVE  \E p \in Entries(t) : p.id = x.id
  <2>1. PICK i \in 1 .. Len(r) : x = r[i]
    BY Zenon DEF Entries
  <2>2. t[i] \in Entries(t)
    BY <1>4, <2>1, Zenon DEF Entries
  <2>3. t[i].id = r[i].id
    BY <1>2, <2>1, Zenon
  <2> QED BY <2>1, <2>2, <2>3, Zenon
<1>7. Ids(Entries(t)) = Ids(Entries(r))
  <2>1. \A p \in Entries(t) : \E x \in Entries(r) : p.id = x.id
    BY <1>5, Zenon
  <2>2. \A x \in Entries(r) : \E p \in Entries(t) : p.id = x.id
    BY <1>6, Zenon
  <2>3. ASSUME NEW g \in Ids(Entries(t)) PROVE g \in Ids(Entries(r))
    BY <2>1, Zenon DEF Ids
  <2>4. ASSUME NEW g \in Ids(Entries(r)) PROVE g \in Ids(Entries(t))
    BY <2>2, Zenon DEF Ids
  <2> QED BY <2>3, <2>4, Zenon
<1>8. ASSUME NoRepeat(r) PROVE NoRepeat(t)
  <2>1. SUFFICES ASSUME NEW i \in 1 .. Len(r), NEW j \in 1 .. Len(r), t[i].id # 0, i # j PROVE t[i].id # t[j].id
    BY <1>4, Zenon DEF NoRepeat
  <2>2. t[i].id = r[i].id /\ t[j].id = r[j].id
    BY <1>2, Zenon
  <2> QED BY <1>8, <2>1, <2>2, Zenon DEF NoRepeat
<1> QED BY <1>4, <1>5, <1>7, <1>8

\* So do the messages recorded as sent.
LEMMA MessagesOf ==
  ASSUME NEW r \in Seq(Elem), NEW u, u = [i \in 1 .. Len(r) |-> r[i].msg]
  PROVE  u \in Seq(1 .. MaxMsgs) /\ Entries(u) = {x.msg : x \in Entries(r)}
<1>1. Len(r) \in Nat /\ \A i \in 1 .. Len(r) : r[i] \in Elem
  OBVIOUS
<1>2. \A i \in 1 .. Len(r) : u[i] = r[i].msg /\ u[i] \in 1 .. MaxMsgs
  BY <1>1, Elements
<1>3. u \in [1 .. Len(r) -> 1 .. MaxMsgs]
  BY <1>2
<1>4. u \in Seq(1 .. MaxMsgs) /\ Len(u) = Len(r)
  BY <1>1, <1>3, Tuples
<1> QED BY <1>2, <1>4 DEF Entries

\* A sequence without its first entries.
LEMMA RestOfSequence ==
  ASSUME NEW S, NEW s \in Seq(S), NEW m \in Nat, m <= Len(s)
  PROVE  SubSeq(s, m + 1, Len(s)) \in Seq(S) /\ Len(SubSeq(s, m + 1, Len(s))) = Len(s) - m
  OBVIOUS

\* The identifiers after the first m.
From(s, m) == SubSeq(s, m + 1, Len(s))

\* What is left of the identifiers is distinct from what was used.
LEMMA Remaining ==
  ASSUME NEW s \in Seq(1 .. MaxPacketID), NEW m \in 0 .. Len(s), Len(s) <= PollBatch,
         \A i, j \in 1 .. Len(s) : i # j => s[i] # s[j],
         NEW t, t = From(s, m)
  PROVE  /\ t \in Seq(1 .. MaxPacketID) /\ Len(t) <= PollBatch
         /\ \A i, j \in 1 .. Len(t) : i # j => t[i] # t[j]
         /\ Entries(s) = {s[j] : j \in 1 .. m} \cup Entries(t)
         /\ {s[j] : j \in 1 .. m} \cap Entries(t) = {}
<1>1. /\ t \in Seq(1 .. MaxPacketID) /\ Len(t) = Len(s) - m /\ Len(s) \in Nat /\ m \in Nat /\ m <= Len(s)
      /\ \A i \in 1 .. Len(t) : t[i] = s[m + i]
      /\ PollBatch \in Nat
  <2>1. t = SubSeq(s, m + 1, Len(s))
    BY DEF From
  <2>2. PollBatch \in Nat /\ Len(s) \in Nat /\ m \in Nat /\ m <= Len(s)
    BY QueueAndLimiterAssumption
  <2>3. t \in Seq(1 .. MaxPacketID) /\ Len(t) = Len(s) - m
    BY <2>1, <2>2, RestOfSequence
  <2>4. \A i \in 1 .. Len(t) : t[i] = s[m + i]
    BY <2>1, <2>2, <2>3
  <2> QED BY <2>2, <2>3, <2>4
<1>2. \A i \in 1 .. Len(t) : t[i] = s[m + i] /\ m + i \in 1 .. Len(s) /\ m + i \notin 1 .. m
  BY <1>1
<1>3. \A i \in 1 .. Len(s) : i \in 1 .. m \/ (i - m \in 1 .. Len(t) /\ s[i] = t[i - m])
  <2> SUFFICES ASSUME NEW i \in 1 .. Len(s), i \notin 1 .. m PROVE i - m \in 1 .. Len(t) /\ s[i] = t[i - m]
    OBVIOUS
  <2>1. i - m \in 1 .. Len(t) /\ m + (i - m) = i
    BY <1>1
  <2> QED BY <1>1, <2>1
<1>4. \A i \in 1 .. m : i \in 1 .. Len(s)
  BY <1>1
<1>5. \A i, j \in 1 .. Len(t) : i # j => t[i] # t[j]
  <2>1. \A i, j \in 1 .. Len(t) : i # j => m + i # m + j
    BY <1>1
  <2> QED BY <1>2, <2>1
<1>6. Entries(s) = {s[j] : j \in 1 .. m} \cup Entries(t)
  <2>1. Entries(s) \subseteq {s[j] : j \in 1 .. m} \cup Entries(t)
    BY <1>3 DEF Entries
  <2>2. {s[j] : j \in 1 .. m} \cup Entries(t) \subseteq Entries(s)
    BY <1>2, <1>4 DEF Entries
  <2> QED BY <2>1, <2>2
<1>7. {s[j] : j \in 1 .. m} \cap Entries(t) = {}
  BY <1>2, <1>4 DEF Entries
<1>8. Len(t) <= PollBatch
  BY <1>1
<1> QED BY <1>1, <1>5, <1>6, <1>7, <1>8

\* What pollNewMessages does to the queue and to the identifiers.
BatchSent(W, K, m, r) ==
  /\ pc = "read" /\ QueueInv' /\ Batch(W, K, m, r, ids) /\ r = MQ!ReadResult(ids)
  /\ write([i \in 1 .. Len(r) |-> PublishPacket(r[i], FALSE)])
  /\ firstSent' = firstSent \o [i \in 1 .. Len(r) |-> r[i].msg]
  /\ ids' = SubSeq(ids, m + 1, Len(ids)) /\ pc' = "release"
  /\ UNCHANGED <<used, limit, lockedPid, freePid, exit, waiting>>
  /\ UNCHANGED <<resend, releasing, conn, conns, toServer, client, owed>>

\* The identifiers the poller holds are distinct and no element carries one of them.
LEMMA HeldAreFree ==
  ASSUME Inv, pc = "read", NEW n, n = Len(ids)
  PROVE  /\ n \in Nat \ {0} /\ n \in 1 .. PollBatch /\ ids \in [1 .. n -> (1 .. MaxPacketID) \ MQ!IdsInList]
         /\ \A i, j \in 1 .. n : i < j => ids[i] # ids[j]
<1>1. TypeInv /\ PhaseInv /\ LockInv
  BY DEF Inv
<1>2. QueueInv /\ ids \in Seq(1 .. MaxPacketID) /\ ids # <<>> /\ Len(ids) <= PollBatch
  BY <1>1 DEF TypeInv, PhaseInv
<1>3. n \in Nat \ {0} /\ n \in 1 .. PollBatch
  BY <1>2, QueueAndLimiterAssumption
<1>4. \A i \in 1 .. n : ids[i] \in 1 .. MaxPacketID /\ ids[i] \notin MQ!IdsInList
  <2>1. MQ!IdsInList = Ids(Written)
    <3>1. \A x \in Waiting : x.id = 0
      BY <1>1 DEF LockInv, Polling
    <3>2. Ids(Written \cup Waiting) = Ids(Written)
      BY <3>1 DEF Ids
    <3> QED BY <1>2, <3>2, ListedIds
  <2>2. Ids(Written) \cap PL!Held = {}
    BY <1>1 DEF LockInv, Polling
  <2>3. \A i \in 1 .. n : ids[i] \in 1 .. MaxPacketID
    BY <1>2, EntriesIn, Zenon
  <2>4. \A i \in 1 .. n : ids[i] \in PL!Held
    BY Zenon DEF PL!Held
  <2> QED BY <2>1, <2>2, <2>3, <2>4, Zenon
<1>5. ids \in [1 .. n -> (1 .. MaxPacketID) \ MQ!IdsInList]
  BY <1>2, <1>4
<1>6. \A i, j \in 1 .. n : i < j => ids[i] # ids[j]
  BY <1>1, <1>3 DEF TypeInv
<1> QED BY <1>3, <1>5, <1>6

\* pollNewMessages reads such a batch.
LEMMA SendsBatch ==
  ASSUME Inv, InflightExpiry, pollNewMessages
  PROVE  \E W, K, m, r : BatchSent(W, K, m, r)
<1>1. QueueInv
  BY DEF Inv, TypeInv
<1>2. PICK r, n : r = MQ!ReadResult(ids) /\ n = Len(ids)
  OBVIOUS
<1>3. /\ pc = "read" /\ MQ!Read(ids)
      /\ write([i \in 1 .. Len(r) |-> PublishPacket(r[i], FALSE)])
      /\ firstSent' = firstSent \o [i \in 1 .. Len(r) |-> r[i].msg]
      /\ ids' = SubSeq(ids, Cardinality({i \in 1 .. Len(r) : r[i].qos # 0}) + 1, Len(ids)) /\ pc' = "release"
      /\ UNCHANGED <<used, limit, lockedPid, freePid, exit, waiting>>
      /\ UNCHANGED <<resend, releasing, conn, conns, toServer, client, owed>>
  BY <1>2 DEF pollNewMessages
<1>4. /\ n \in Nat \ {0} /\ ids \in [1 .. n -> (1 .. MaxPacketID) \ MQ!IdsInList]
      /\ \A i, j \in 1 .. n : i < j => ids[i] # ids[j]
  BY <1>2, <1>3, HeldAreFree
<1>5. QueueInv' /\ \E W, K, m : Batch(W, K, m, r, ids)
  BY <1>1, <1>2, <1>3, <1>4, Reading, Zenon
<1>6. PICK W, K, m : Batch(W, K, m, r, ids)
  BY <1>5
<1>7. Cardinality({i \in 1 .. Len(r) : r[i].qos # 0}) = m
  BY <1>6 DEF Batch
<1>8. BatchSent(W, K, m, r)
  BY <1>2, <1>3, <1>5, <1>6, <1>7 DEF BatchSent
<1> QED BY <1>8

\* New messages are read, numbered and written.
LEMMA SendsNew ==
  ASSUME Inv, InflightExpiry, pollNewMessages
  PROVE  Inv'
<1>1. TypeInv /\ PhaseInv /\ LockInv /\ TokenInv /\ PacketInv /\ ElemInv
  BY DEF Inv
<1>2. PICK W, K, m, r : BatchSent(W, K, m, r)
  BY SendsBatch
<1>3. /\ pc = "read" /\ QueueInv' /\ pc' = "release"
      /\ ids' = SubSeq(ids, m + 1, Len(ids))
      /\ UNCHANGED <<used, limit, lockedPid, freePid, exit>>
      /\ UNCHANGED <<resend, releasing, conn, toServer, got, subscriber, owed>>
  BY <1>2 DEF BatchSent, client
<1>4. /\ W \subseteq Waiting /\ Waiting' = Waiting \ W /\ Written' = Written \cup K
      /\ \A x \in W, y \in Waiting \ W : x.msg < y.msg
      /\ m \in 0 .. Len(ids)
      /\ \A k \in K : \E x \in W, j \in 1 .. m : Sent(x, k) /\ k.id = ids[j]
      /\ \A j \in 1 .. m : \E k \in K : k.id = ids[j]
      /\ r \in Seq(Elem) /\ NoRepeat(r) /\ K \subseteq Entries(r)
      /\ \A x \in Entries(r) : x \in K \/ (x \in W /\ x.qos = 0 /\ x.id = 0)
      /\ UNCHANGED <<closed, added>>
  BY <1>2 DEF BatchSent, Batch
<1>5. resend = <<>> /\ Entries(resend) = {} /\ Ids(Entries(resend)) = {}
  BY <1>1, <1>3, EmptySequence DEF PhaseInv
<1>6. PICK G : G = {ids[j] : j \in 1 .. m}
  OBVIOUS
<1>7. /\ ids' \in Seq(1 .. MaxPacketID) /\ Len(ids') <= PollBatch
      /\ \A i, j \in 1 .. Len(ids') : i # j => ids'[i] # ids'[j]
      /\ Entries(ids) = G \cup Entries(ids') /\ G \cap Entries(ids') = {}
  <2>1. /\ ids \in Seq(1 .. MaxPacketID) /\ Len(ids) <= PollBatch
        /\ \A i, j \in 1 .. Len(ids) : i # j => ids[i] # ids[j]
    BY <1>1 DEF TypeInv
  <2>2. m \in 0 .. Len(ids) /\ ids' = SubSeq(ids, m + 1, Len(ids))
    BY <1>3, <1>4, Zenon
  <2>3. /\ ids' \in Seq(1 .. MaxPacketID) /\ Len(ids') <= PollBatch
        /\ \A i, j \in 1 .. Len(ids') : i # j => ids'[i] # ids'[j]
        /\ Entries(ids) = {ids[j] : j \in 1 .. m} \cup Entries(ids')
        /\ {ids[j] : j \in 1 .. m} \cap Entries(ids') = {}
    <3>1. PICK s, t : s = ids /\ t = ids'
      OBVIOUS
    <3>2. /\ s \in Seq(1 .. MaxPacketID) /\ Len(s) <= PollBatch /\ m \in 0 .. Len(s)
          /\ \A i, j \in 1 .. Len(s) : i # j => s[i] # s[j]
          /\ t = From(s, m)
      BY <2>1, <2>2, <3>1, Zenon DEF From
    <3>3. /\ t \in Seq(1 .. MaxPacketID) /\ Len(t) <= PollBatch
          /\ \A i, j \in 1 .. Len(t) : i # j => t[i] # t[j]
          /\ Entries(s) = {s[j] : j \in 1 .. m} \cup Entries(t)
          /\ {s[j] : j \in 1 .. m} \cap Entries(t) = {}
      BY <3>2, Remaining, SMT
    <3> QED BY <3>1, <3>3, Zenon
  <2> QED BY <1>6, <2>3, Zenon
<1>8. PL!Held = Entries(ids) /\ PL!Held' = Entries(ids')
  BY DEF PL!Held, Entries
<1>9. 0 \notin PL!Held
  BY <1>1, QueueAndLimiterAssumption DEF TypeInv, PL!Held
<1>10. /\ lockedPid = Ids(Written) \cup PL!Held \cup Releasing
       /\ \A x \in Waiting : x.id = 0
       /\ Ids(Written) \cap PL!Held = {}
       /\ releasing \notin Ids(Written \cup Waiting) \cup PL!Held
  BY <1>1, <1>3 DEF LockInv, Polling
<1>11. Ids(K) = G
  <2>1. \A k \in K : k.id \in G
    BY <1>4, <1>6
  <2>2. \A g \in G : \E k \in K : k.id = g
    BY <1>4, <1>6
  <2>3. 0 \notin G
    BY <1>7, <1>8, <1>9
  <2> QED BY <2>1, <2>2, <2>3 DEF Ids
<1>12. Ids(Entries(r)) = G
  <2>1. \A x \in Entries(r) : x.id # 0 => x \in K
    BY <1>4
  <2> QED BY <1>4, <1>11, <2>1 DEF Ids
<1>13. Ids(Written') = Ids(Written) \cup G
  BY <1>4, <1>11 DEF Ids
<1>14. \A x \in W : x \in Elem /\ x.kind = "publish" /\ x.msg <= added /\ x.msg \in 1 .. MaxMsgs
  <2>1. \A x \in W : x \in Elem /\ x.msg <= added /\ x.kind # "pubrel"
    BY <1>1, <1>4, <1>10, Parts DEF TypeInv
  <2> QED BY <2>1, Elements
<1>15. \A x \in K : /\ x.id # 0 /\ x.qos > 0 /\ x.kind = "publish" /\ x.expiry = "armed"
                   /\ \E w \in W : x.msg = w.msg /\ x.qos = w.qos
  <2>1. \A x \in K : x.id \in G
    BY <1>4, <1>6
  <2>2. 0 \notin G
    BY <1>7, <1>8, <1>9
  <2> QED BY <1>4, <1>14, <2>1, <2>2 DEF Sent
<1>16. \A x \in Entries(r) : \E w \in W : x.msg = w.msg
  BY <1>4, <1>15
<1>17. firstSent' \in Seq(1 .. MaxMsgs) /\ FirstSent' = FirstSent \cup {x.msg : x \in Entries(r)}
  <2>1. PICK u : u = [i \in 1 .. Len(r) |-> r[i].msg]
    OBVIOUS
  <2>2. firstSent' = firstSent \o u /\ firstSent \in Seq(1 .. MaxMsgs)
    BY <1>1, <1>2, <2>1 DEF BatchSent, TypeInv
  <2>3. u \in Seq(1 .. MaxMsgs) /\ Entries(u) = {x.msg : x \in Entries(r)}
    BY <1>4, <2>1, MessagesOf
  <2>4. firstSent \o u \in Seq(1 .. MaxMsgs) /\ Entries(firstSent \o u) = Entries(firstSent) \cup Entries(u)
    BY <2>2, <2>3, Concatenated
  <2> QED BY <2>2, <2>3, <2>4 DEF FirstSent
<1>18. PICK t : t = [i \in 1 .. Len(r) |-> PublishPacket(r[i], FALSE)]
  OBVIOUS
<1>19. /\ t \in Seq(ClientPacket) /\ NoRepeat(t) /\ Ids(Entries(t)) = G
       /\ \A p \in Entries(t) : \E x \in Entries(r) :
             p.type = "PUBLISH" /\ p.id = x.id /\ p.qos = x.qos /\ p.msg = x.msg
  <2>1. r \in Seq(Elem) /\ NoRepeat(r)
    BY <1>4
  <2>2. /\ t \in Seq(ClientPacket) /\ NoRepeat(t) /\ Ids(Entries(t)) = Ids(Entries(r))
        /\ \A p \in Entries(t) : \E x \in Entries(r) :
              p.type = "PUBLISH" /\ p.id = x.id /\ p.qos = x.qos /\ p.msg = x.msg
    <3>1. t = PacketsFor(r)
      BY <1>18, Zenon DEF PacketsFor
    <3> QED BY <2>1, <3>1, PacketsOf, SMT
  <2> QED BY <1>12, <2>2, Zenon
<1>20. Ids(Entries(toClient)) \subseteq Ids(Written) /\ Ids(Entries(toServer)) \subseteq Ids(Written)
  BY <1>1 DEF PacketInv, SentOK, AckOK, PublishOf, Ids
<1>21. G \cap Ids(Written) = {}
  BY <1>7, <1>8, <1>10
<1>22. /\ toClient' \in Seq(ClientPacket) /\ NoRepeat(toClient')
       /\ Entries(toClient') \subseteq Entries(toClient) \cup Entries(t)
       /\ conn # "online" => toClient' = <<>>
  <2>1. toClient \in Seq(ClientPacket) /\ NoRepeat(toClient) /\ (conn # "online" => toClient = <<>>)
    BY <1>1 DEF TypeInv, TokenInv, PhaseInv
  <2>2. toClient' = IF conn = "online" THEN toClient \o t ELSE toClient
    BY <1>2, <1>18 DEF BatchSent, write
  <2>3. Ids(Entries(toClient)) \cap Ids(Entries(t)) = {}
    BY <1>19, <1>20, <1>21
  <2>4. /\ toClient \o t \in Seq(ClientPacket) /\ Entries(toClient \o t) = Entries(toClient) \cup Entries(t)
        /\ NoRepeat(toClient \o t)
    BY <1>19, <2>1, <2>3, Concatenated
  <2> QED BY <2>1, <2>2, <2>4
<1>23. TypeInv'
  BY <1>1, <1>3, <1>4, <1>7, <1>17, <1>22 DEF TypeInv
<1>24. PhaseInv'
  <2>1. \A x \in Written' \cup Waiting' : x \in Written \cup Waiting \/ x.kind = "publish"
    BY <1>4, <1>15
  <2> QED BY <1>1, <1>3, <1>4, <1>22, <2>1 DEF PhaseInv
<1>25. LockInv'
  <2>1. Releasing' = Releasing
    BY <1>3 DEF Releasing
  <2>2. lockedPid' = Ids(Written') \cup PL!Held' \cup Releasing'
    BY <1>3, <1>7, <1>8, <1>10, <1>13, <2>1
  <2>3. Ids(Written') \cap PL!Held' = {}
    BY <1>7, <1>8, <1>10, <1>13
  <2>4. \A x \in Waiting' : x.id = 0
    BY <1>4, <1>10
  <2>5. Ids(Written' \cup Waiting') \subseteq Ids(Written') /\ Ids(Written) \subseteq Ids(Written \cup Waiting)
    BY <2>4 DEF Ids
  <2>6. releasing' \notin Ids(Written' \cup Waiting') \cup PL!Held'
    BY <1>3, <1>7, <1>8, <1>10, <1>13, <2>5
  <2>7. ~Draining'
    BY <1>3 DEF Draining
  <2> QED BY <2>2, <2>3, <2>4, <2>6, <2>7 DEF LockInv
<1>26. TokenInv'
  <2>1. Ids(Entries(toClient')) \subseteq Ids(Entries(toClient)) \cup G
    BY <1>19, <1>22 DEF Ids
  <2> QED BY <1>1, <1>3, <1>5, <1>20, <1>21, <1>22, <2>1 DEF TokenInv
<1>27. PacketInv'
  <2>1. FirstSent \subseteq FirstSent' /\ Written \subseteq Written'
    BY <1>4, <1>17
  <2>2. \A p \in Entries(toClient) : SentOK(p)'
    BY <1>1, <2>1 DEF PacketInv, SentOK
  <2>3. \A p \in Entries(t) : SentOK(p)'
    <3> SUFFICES ASSUME NEW p \in Entries(t) PROVE SentOK(p)'
      OBVIOUS
    <3>1. PICK x \in Entries(r) : p.type = "PUBLISH" /\ p.id = x.id /\ p.qos = x.qos /\ p.msg = x.msg
      BY <1>19
    <3>2. p.msg \in FirstSent'
      BY <1>17, <3>1
    <3>3. CASE x \in K
      BY <1>4, <1>15, <3>1, <3>2, <3>3 DEF SentOK, PublishOf
    <3>4. CASE x \notin K
      BY <1>4, <3>1, <3>2, <3>4 DEF SentOK
    <3> QED BY <3>3, <3>4
  <2>4. \A a \in Entries(toServer') : AckOK(a)'
    BY <1>1, <1>3, <2>1 DEF PacketInv, AckOK
  <2>5. Entries(resend') = {}
    BY <1>3, <1>5
  <2> QED BY <1>22, <2>2, <2>3, <2>4, <2>5 DEF PacketInv
<1>28. ElemInv'
  <2>1. \A x \in Written \cup Waiting : ElemOK(x)
    BY <1>1 DEF ElemInv
  <2>2. \A x \in Written : ElemOK(x)'
    <3>1. \A x \in Written : x.id # 0
      BY <1>1, Parts DEF TypeInv
    <3> QED BY <1>3, <1>17, <2>1, <3>1 DEF ElemOK
  <2>3. \A x \in Waiting' : ElemOK(x)'
    <3> SUFFICES ASSUME NEW x \in Waiting \ W PROVE ElemOK(x)'
      BY <1>4
    <3>1. ElemOK(x) /\ x.id = 0
      BY <1>10, <2>1
    <3>2. \A f \in FirstSent' : f < x.msg
      BY <1>4, <1>16, <1>17, <3>1 DEF ElemOK
    <3> QED BY <1>3, <3>1, <3>2 DEF ElemOK
  <2>4. \A x \in K : ElemOK(x)'
    <3> SUFFICES ASSUME NEW x \in K PROVE ElemOK(x)'
      OBVIOUS
    <3>1. PICK w \in W : x.msg = w.msg /\ x.qos = w.qos
      BY <1>15
    <3>2. ElemOK(w)
      BY <1>4, <2>1
    <3>3. x.msg \in FirstSent'
      BY <1>4, <1>17
    <3> QED BY <1>3, <1>15, <3>1, <3>2, <3>3 DEF ElemOK
  <2>5. conn' # "offline" => \A x \in Written' : x.expiry # "expired"
    BY <1>1, <1>3, <1>4, <1>15 DEF ElemInv
  <2>6. \A p \in subscriber' : \E x \in Written' \cup Waiting' : x.id = p /\ x.qos = 2 /\ x.msg \in got'
    <3>1. \A p \in subscriber : p # 0
      BY <1>1, QueueAndLimiterAssumption DEF TypeInv
    <3>2. \A p \in subscriber : \E x \in Written : x.id = p /\ x.qos = 2 /\ x.msg \in got
      BY <1>1, <1>10, <3>1 DEF ElemInv
    <3> QED BY <1>3, <1>4, <3>2
  <2>7. FirstSent' \subseteq 1 .. added'
    <3>1. \A x \in W : x.msg \in 1 .. added
      BY <1>14
    <3>2. \A x \in Entries(r) : x.msg \in 1 .. added
      BY <1>16, <3>1, Zenon
    <3>3. FirstSent \subseteq 1 .. added /\ added' = added
      BY <1>1, <1>4 DEF ElemInv
    <3> QED BY <1>17, <3>2, <3>3, Zenon
  <2>8. owed' \subseteq 1 .. added' /\ got' \subseteq FirstSent'
    BY <1>1, <1>3, <1>4, <1>17 DEF ElemInv
  <2>9. \A x \in Written' \cup Waiting' : ElemOK(x)'
    BY <1>4, <2>2, <2>3, <2>4
  <2> QED BY <2>5, <2>6, <2>7, <2>8, <2>9 DEF ElemInv
<1> QED BY <1>23, <1>24, <1>25, <1>26, <1>27, <1>28 DEF Inv

-----------------------------------------------------------------------------
(* The theorem.                                                             *)

\* What the theorems are about: inflight_expiry is set, as it is by default, so that a message that
\* is sent gets an expiry of its own; the network does not fail between a PUBREC and its PUBCOMP; and
\* nothing expires in the middle of its handshake.  TLC finds a behaviour against LimiterMatchesQueue
\* without any one of the three: an identifier is given back while its packet is under way, or a
\* stored PUBREL comes back without its mark.
Orderly == InflightExpiry /\ ~LossAfterPubrec /\ ~LateAck

\* A new session has sent nothing.
LEMMA Starts ==
  ASSUME Init
  PROVE  Inv
<1>1. /\ pc = "drain" /\ l = <<>> /\ current = 1 /\ inflightDrained = FALSE /\ closed = FALSE
      /\ added = 0 /\ dropped = {} /\ used = 0 /\ limit \in Limits /\ lockedPid = {} /\ freePid = 1
      /\ exit = FALSE /\ ids = <<>> /\ resend = <<>> /\ releasing = 0 /\ conn = "online"
      /\ toClient = <<>> /\ toServer = <<>> /\ subscriber = {} /\ got = {} /\ owed = {} /\ firstSent = <<>>
  BY DEF Init, MQ!Init, PL!LimiterInit
<1>2. QueueInv
  <2>1. Q!Init
    BY <1>1 DEF Q!Init
  <2>2. Q!Inv
    BY <2>1, Q!Starts, QueueAndLimiterAssumption, DeliveryAssumption
  <2> QED BY <2>2 DEF Q!Inv, QueueInv
<1>3. Written = {} /\ Waiting = {}
  <2>1. 1 .. (1 - 1) = {} /\ 1 .. Len(<<>>) = {}
    OBVIOUS
  <2> QED BY <1>1, <2>1 DEF Written, Waiting, Q!Written, Q!Waiting
<1>4. Entries(<<>>) = {} /\ NoRepeat(<<>>) /\ Ids({}) = {}
  BY EmptySequence
<1>5. TypeInv
  <2>1. <<>> \in Seq(1 .. MaxPacketID) /\ Len(<<>>) = 0 /\ 0 <= PollBatch /\ 1 .. 0 = {} /\ 1 \in 1 .. MaxPacketID
        /\ 0 \in 0 .. MaxPacketID
    BY QueueAndLimiterAssumption
  <2> QED BY <1>1, <1>2, <2>1 DEF TypeInv
<1>6. PhaseInv
  BY <1>1 DEF PhaseInv
<1>7. LockInv
  <2>1. PL!Held = {} /\ Releasing = {}
    BY <1>1 DEF PL!Held, Releasing
  <2> QED BY <1>1, <1>3, <1>4, <2>1 DEF LockInv, Draining, Polling
<1>8. TokenInv /\ PacketInv
  BY <1>1, <1>4 DEF TokenInv, PacketInv
<1>9. ElemInv
  BY <1>1, <1>3, <1>4 DEF ElemInv, FirstSent
<1> QED BY <1>5, <1>6, <1>7, <1>8, <1>9 DEF Inv

\* Every step keeps the invariant.
LEMMA Preserved ==
  ASSUME Orderly, Inv, [Next]_vars
  PROVE  Inv'
<1>1. InflightExpiry /\ ~LossAfterPubrec /\ ~LateAck
  BY DEF Orderly
<1>2. CASE addMsgToQueueLocked
  BY <1>2, AddsMessage
<1>3. CASE pollMessageHandler
  BY <1>1, <1>3, ReadsStored, WritesStored, PollsIdentifiers, SendsNew, GivesBack DEF pollMessageHandler
<1>4. CASE readHandle
  BY <1>4, RemovesAcknowledged, ReplacesReceived, Releases
     DEF readHandle, pubackHandler, pubcompHandler, pubrecHandlerError
<1>5. CASE networkLost
  BY <1>1, <1>5, LosesNetwork
<1>6. CASE serve
  BY <1>6, Serves
<1>7. CASE resume
  BY <1>7, ResumesSession
<1>8. CASE subscriberReceives
  BY <1>8, Receives
<1>9. CASE expire
  BY <1>1, <1>9, Expires
<1>10. CASE UNCHANGED vars
  <2>1. UNCHANGED <<queue, limiter, poller, releasing, network, client, ghosts>>
    BY <1>10 DEF vars
  <2>2. TypeInv /\ PhaseInv /\ LockInv /\ TokenInv /\ PacketInv /\ ElemInv
    BY DEF Inv
  <2>3. QueueInv' /\ UNCHANGED <<added, closed, Written, Waiting>>
    BY <2>1, <2>2, StandingStill DEF TypeInv, queue
  <2>4. UNCHANGED <<used, limit, lockedPid, freePid, exit, ids, pc, resend, conn, toClient, toServer, got, subscriber,
                    firstSent, owed, releasing>>
    BY <2>1 DEF limiter, poller, network, client, ghosts
  <2>5. TypeInv' /\ PhaseInv'
    BY <2>2, <2>3, <2>4 DEF TypeInv, PhaseInv
  <2>6. LockInv' /\ TokenInv' /\ PacketInv' /\ ElemInv'
    BY <2>2, <2>3, <2>4, LocksKept, PacketsStill, PacketsKept, ElementsKept
  <2> QED BY <2>5, <2>6 DEF Inv
<1> QED BY <1>2, <1>3, <1>4, <1>5, <1>6, <1>7, <1>8, <1>9, <1>10 DEF Next

\* pollMessageHandler, readHandle, serve, the publishers and the subscriber keep the invariant:
\* queue, limiter and what is under way agree.
THEOREM Invariance == ASSUME Orderly PROVE Spec => []Inv
<1>1. Init => Inv
  BY Starts
<1>2. Inv /\ [Next]_vars => Inv'
  BY Preserved
<1> QED BY <1>1, <1>2, PTL DEF Spec

\* Queue and limiter agree although each handler updates them in two critical sections: an
\* identifier is locked exactly while an inflight element carries it, the poller holds it or
\* readHandle is about to release it.
THEOREM LimiterAndQueueAgree == ASSUME Orderly PROVE Spec => []LimiterMatchesQueue
<1>1. Inv => LimiterMatchesQueue
  <2> SUFFICES ASSUME Inv, Polling
               PROVE  /\ InflightIds \subseteq lockedPid
                      /\ lockedPid \subseteq InflightIds \cup PL!Held \cup {releasing}
                      /\ InflightIds \cap PL!Held = {}
    BY DEF LimiterMatchesQueue
  <2>1. QueueInv /\ LockInv
    BY DEF Inv, TypeInv
  <2>2. InflightIds = Ids(Written \cup Waiting)
    BY <2>1, ListedIds DEF InflightIds
  <2>3. \A x \in Waiting : x.id = 0
    BY <2>1 DEF LockInv
  <2>4. Ids(Written \cup Waiting) = Ids(Written)
    BY <2>3 DEF Ids
  <2> QED BY <2>1, <2>2, <2>4 DEF LockInv, Releasing
<1> QED BY <1>1, Invariance, PTL

-----------------------------------------------------------------------------
(* The composition uses the queue as its specification allows.              *)

\* Each step of the composition is a step of MemQueue or leaves the queue alone: what Read is
\* given is free, and a PUBREC answers a QoS 2 message.
LEMMA QueueSteps ==
  ASSUME Orderly, Inv, [Next]_vars
  PROVE  [MQ!Next]_(MQ!mqVars)
<1>1. TypeInv /\ PhaseInv /\ PacketInv /\ InflightExpiry
  BY DEF Inv, Orderly
<1>2. UNCHANGED queue => UNCHANGED MQ!mqVars
  BY DEF queue, MQ!mqVars
<1>3. CASE addMsgToQueueLocked
  <2>1. MQ!Publish
    BY <1>3 DEF addMsgToQueueLocked, MQ!Publish
  <2> QED BY <2>1 DEF MQ!Next
<1>4. CASE pollInflights
  <2>1. MQ!ReadInflight(limit) /\ QueueInv /\ limit \in Limits
    BY <1>1, <1>4 DEF pollInflights, TypeInv
  <2>2. CASE inflightDrained
    <3>1. PICK r : r = MQ!ReadInflightResult(limit)
      OBVIOUS
    <3>2. UNCHANGED MQ!mqVars
      BY <1>1, <2>1, <2>2, <3>1, ReadingInflight
    <3> QED BY <3>2
  <2>3. CASE ~inflightDrained
    <3>1. limit \in 1 .. MaxPacketID
      BY <2>1, QueueAndLimiterAssumption
    <3>2. MQ!Drain
      BY <2>1, <2>3, <3>1 DEF MQ!Drain
    <3> QED BY <3>2 DEF MQ!Next
  <2> QED BY <2>2, <2>3
<1>5. CASE pollInflightsWrite \/ pollPacketIDs \/ pollClosed \/ batchRelease
  BY <1>2, <1>5 DEF pollInflightsWrite, pollPacketIDs, pollClosed, batchRelease
<1>6. CASE pollNewMessages
  <2>1. pc = "read" /\ MQ!Read(ids)
    BY <1>6 DEF pollNewMessages
  <2>2. PICK n : n = Len(ids)
    OBVIOUS
  <2>3. /\ n \in 1 .. PollBatch /\ ids \in [1 .. n -> (1 .. MaxPacketID) \ MQ!IdsInList]
        /\ \A i, j \in 1 .. n : i < j => ids[i] # ids[j]
    BY <2>1, <2>2, HeldAreFree
  <2>4. MQ!PollNew
    BY <2>1, <2>3, Zenon DEF MQ!PollNew
  <2> QED BY <2>4 DEF MQ!Next
<1>7. CASE pubackHandler \/ pubcompHandler \/ pubrecHandlerError
  <2>1. toServer # <<>> /\ MQ!Remove(Head(toServer).id) /\ toServer \in Seq(ServerPacket)
    BY <1>1, <1>7 DEF pubackHandler, pubcompHandler, pubrecHandlerError, removeAndRelease, TypeInv
  <2>2. Head(toServer) \in ServerPacket
    BY <2>1
  <2>3. Head(toServer).id \in 1 .. MaxPacketID
    BY <2>2 DEF ServerPacket
  <2>4. MQ!Acknowledge
    BY <2>1, <2>3 DEF MQ!Acknowledge
  <2> QED BY <2>4 DEF MQ!Next
<1>8. CASE pubrecHandler
  <2>1. PICK a : a = Head(toServer)
    OBVIOUS
  <2>2. toServer # <<>> /\ MQ!Replace(a.id) /\ toServer \in Seq(ServerPacket) /\ a.type = "PUBREC"
    BY <1>1, <1>8, <2>1 DEF pubrecHandler, TypeInv
  <2>3. a \in ServerPacket /\ a \in Entries(toServer)
    BY <2>1, <2>2, TakingFirst
  <2>4. a.id \in 1 .. MaxPacketID
    BY <2>3 DEF ServerPacket
  <2>5. PICK x \in Written : x.id = a.id /\ x.qos = 2
    BY <1>1, <2>2, <2>3 DEF PacketInv, AckOK
  <2>6. \E i \in MQ!Carrying(a.id) : l[i].qos = 2
    BY <2>5 DEF MQ!Carrying, Written, Q!Written
  <2>7. MQ!Received
    BY <2>2, <2>4, <2>6 DEF MQ!Received
  <2> QED BY <2>7 DEF MQ!Next
<1>9. CASE release \/ networkLost \/ closeLimiter \/ unregister \/ subscriberReceives
  BY <1>2, <1>9 DEF release, networkLost, closeLimiter, unregister, subscriberReceives
<1>10. CASE closeQueue
  BY <1>10 DEF closeQueue, MQ!Disconnect, MQ!Next
<1>11. CASE resume
  <2>1. closed /\ MQ!InitResume
    BY <1>1, <1>11 DEF resume, PhaseInv
  <2> QED BY <2>1 DEF MQ!Connect, MQ!Next
<1>12. CASE expire
  <2>1. MQ!Tick
    BY <1>12 DEF expire, MQ!Tick
  <2> QED BY <2>1 DEF MQ!Next
<1>13. CASE UNCHANGED vars
  BY <1>2, <1>13 DEF vars
<1> QED BY <1>3, <1>4, <1>5, <1>6, <1>7, <1>8, <1>9, <1>10, <1>11, <1>12, <1>13
        DEF Next, pollMessageHandler, readHandle, serve

\* The poller, the handlers and serve use the session's queue only as its own specification
\* allows, so what QueueStoresProofs shows of the queue holds in the composition.
THEOREM QueueUsedProperly == ASSUME Orderly PROVE Spec => UsesQueueProperly
<1>1. Init => MQ!Init
  BY DEF Init
<1>2. Inv /\ [Next]_vars => [MQ!Next]_(MQ!mqVars)
  BY QueueSteps
<1> QED BY <1>1, <1>2, Invariance, PTL DEF Spec, UsesQueueProperly, MQ!Spec

-----------------------------------------------------------------------------
(* The session keeps its promise.                                           *)

\* The variables of ReliableDelivery, as Abstract gives them.
Pending == {l[i].msg : i \in {j \in 1 .. Len(l) : l[j].qos > 0}}
Highest == LET s == {firstSent[i] : i \in 1 .. Len(firstSent)} \cap owed IN IF s = {} THEN 0 ELSE MQ!Max(s)

\* A set of natural numbers with a bound has a largest member.
LEMMA LargestOf ==
  ASSUME NEW n \in Nat, NEW S \in SUBSET (0 .. n), S # {}
  PROVE  MQ!Max(S) \in S /\ \A y \in S : y <= MQ!Max(S)
<1>1. PICK T : T = {n - y : y \in S}
  OBVIOUS
<1>2. T \subseteq Nat /\ T # {}
  <2>1. \A y \in S : n - y \in Nat
    BY SMT
  <2>2. T \subseteq Nat
    BY <1>1, <2>1, Zenon
  <2>3. T # {}
    BY <1>1, Zenon
  <2> QED BY <2>2, <2>3
<1>3. PICK x \in T : \A y \in T : ~(<<y, x>> \in OpToRel(<, Nat))
  BY <1>2, NatLessThanWellFounded, WFMin
<1>4. PICK z \in S : x = n - z
  BY <1>1, <1>3
<1>5. \A y \in S : y <= z
  <2> SUFFICES ASSUME NEW y \in S, ~(y <= z) PROVE FALSE
    OBVIOUS
  <2>1. n - y \in T /\ n - y < x /\ n - y \in Nat /\ x \in Nat
    BY <1>1, <1>2, <1>4
  <2>2. <<n - y, x>> \in OpToRel(<, Nat)
    BY <2>1 DEF OpToRel
  <2> QED BY <1>3, <2>1, <2>2
<1>6. \E z1 \in S : \A y \in S : z1 >= y
  BY <1>5
<1>7. \A y \in S : MQ!Max(S) >= y /\ MQ!Max(S) \in S
  BY <1>6, Zenon DEF MQ!Max
<1> QED BY <1>7

\* Highest is the largest message sent, or 0.
LEMMA HighestSent ==
  ASSUME ElemInv, added \in Nat
  PROVE  /\ Highest \in Nat
         /\ FirstSent \cap owed = {} => Highest = 0
         /\ FirstSent \cap owed # {} => Highest \in FirstSent \cap owed
         /\ \A y \in FirstSent \cap owed : y <= Highest
<1>1. PICK S : S = FirstSent \cap owed
  OBVIOUS
<1>2. Highest = IF S = {} THEN 0 ELSE MQ!Max(S)
  BY <1>1, Zenon DEF Highest, FirstSent, Entries
<1>3. S \in SUBSET (0 .. added)
  BY <1>1 DEF ElemInv
<1>4. S # {} => MQ!Max(S) \in S /\ \A y \in S : y <= MQ!Max(S)
  BY <1>3, LargestOf
<1> QED BY <1>1, <1>2, <1>3, <1>4

PendingIs == \A d : d \in Pending <=> \E x \in Written \cup Waiting : x.msg = d /\ x.qos > 0

\* Pending is the QoS 1 and 2 messages of the two parts.
LEMMA StillPending == QueueInv => PendingIs
<1> SUFFICES ASSUME QueueInv PROVE PendingIs
  OBVIOUS
<1>1. l \in Seq(Elem) /\ current \in 1 .. (Len(l) + 1) /\ Len(l) \in Nat
  BY DEF QueueInv, Q!QueueInv, Q!WellFormed, Elem
<1>2. \A i \in 1 .. Len(l) : l[i] \in Written \cup Waiting
  BY <1>1 DEF Written, Waiting, Q!Written, Q!Waiting
<1>3. \A x \in Written \cup Waiting : \E i \in 1 .. Len(l) : x = l[i]
  BY <1>1 DEF Written, Waiting, Q!Written, Q!Waiting
<1> QED BY <1>2, <1>3 DEF Pending, PendingIs

\* The same messages are kept, whatever became of their elements.
LEMMA PendingKept ==
  ASSUME QueueInv, QueueInv',
         \A x \in Written \cup Waiting : \E y \in (Written \cup Waiting)' : y.msg = x.msg /\ y.qos = x.qos,
         \A y \in (Written \cup Waiting)' : \E x \in Written \cup Waiting : y.msg = x.msg /\ y.qos = x.qos
  PROVE  Pending' = Pending
<1>1. PendingIs /\ PendingIs'
  BY StillPending, PTL
<1>2. \A d : d \in Pending' <=> d \in Pending
  BY <1>1 DEF PendingIs
<1> QED BY <1>2, Zenon

\* The steps of ReliableDelivery, on the variables it is given here.
LEMMA AbstractSteps ==
  /\ UNCHANGED <<Pending, got, owed, dropped, firstSent>> => UNCHANGED Abstract!absVars
  /\ /\ Highest' >= Highest /\ Highest' \in Pending \cup {Highest}
     /\ dropped \cap owed \subseteq dropped' \cap owed' /\ dropped' \cap owed' \subseteq (dropped \cap owed) \cup owed
     /\ Pending \ (dropped' \cap owed') \subseteq Pending' /\ Pending' \subseteq Pending
     /\ owed' = owed /\ got' \cap owed' = got \cap owed
     => Abstract!Send
  /\ /\ \E m \in owed : m <= Highest /\ got' \cap owed' = (got \cap owed) \cup {m}
     /\ owed' = owed /\ Pending' = Pending /\ dropped' \cap owed' = dropped \cap owed /\ Highest' = Highest
     => Abstract!Deliver
  /\ /\ \E m \in Pending \cap (got \cap owed) : Pending' = Pending \ {m}
     /\ owed' = owed /\ got' \cap owed' = got \cap owed
     /\ dropped' \cap owed' = dropped \cap owed /\ Highest' = Highest
     => Abstract!Settle
<1>1. UNCHANGED <<Pending, got, owed, dropped, firstSent>> => UNCHANGED Abstract!absVars
  BY DEF Abstract!absVars, Pending
<1>2. /\ Highest' >= Highest /\ Highest' \in Pending \cup {Highest}
      /\ dropped \cap owed \subseteq dropped' \cap owed' /\ dropped' \cap owed' \subseteq (dropped \cap owed) \cup owed
      /\ Pending \ (dropped' \cap owed') \subseteq Pending' /\ Pending' \subseteq Pending
      /\ owed' = owed /\ got' \cap owed' = got \cap owed
      => Abstract!Send
  BY Zenon DEF Abstract!Send, Pending, Highest
<1>3. /\ \E m \in owed : m <= Highest /\ got' \cap owed' = (got \cap owed) \cup {m}
      /\ owed' = owed /\ Pending' = Pending /\ dropped' \cap owed' = dropped \cap owed /\ Highest' = Highest
      => Abstract!Deliver
  BY Zenon DEF Abstract!Deliver, Pending, Highest
<1>4. /\ \E m \in Pending \cap (got \cap owed) : Pending' = Pending \ {m}
      /\ owed' = owed /\ got' \cap owed' = got \cap owed
      /\ dropped' \cap owed' = dropped \cap owed /\ Highest' = Highest
      => Abstract!Settle
  BY Zenon DEF Abstract!Settle, Pending, Highest
<1> QED BY <1>1, <1>2, <1>3, <1>4

\* The same for Accept.
LEMMA AbstractAccepts ==
  ASSUME NEW m \in owed' \ owed, owed' = owed \cup {m}, \A k \in owed : k < m,
         dropped \cap owed \subseteq dropped' \cap owed', dropped' \cap owed' \subseteq owed' \cup (dropped \cap owed),
         Pending' \subseteq Pending \cup {m},
         \A k \in (Pending \cup {m}) \ Pending' : k \in dropped' \cap owed' \/ k \in got \cap owed,
         got' \cap owed' = got \cap owed, Highest' = Highest
  PROVE  Abstract!Accept
  BY Zenon DEF Abstract!Accept, Pending, Highest

\* What holds of Abstract's variables in every state.
AbstractOK ==
  /\ PendingIs
  /\ Highest \in Nat
  /\ FirstSent \cap owed = {} => Highest = 0
  /\ FirstSent \cap owed # {} => Highest \in FirstSent \cap owed
  /\ \A y \in FirstSent \cap owed : y <= Highest

\* It does in every reachable state.
LEMMA AbstractState == Inv => AbstractOK
<1> SUFFICES ASSUME Inv PROVE AbstractOK
  OBVIOUS
<1>1. QueueInv /\ ElemInv
  BY DEF Inv, TypeInv
<1>2. added \in Nat
  BY <1>1, Counts
<1> QED BY <1>1, <1>2, StillPending, HighestSent DEF AbstractOK

\* The session promises nothing new and takes nothing back.
LEMMA SameMessages ==
  ASSUME QueueInv, QueueInv', UNCHANGED <<got, owed, dropped, firstSent>>,
         \A x \in Written \cup Waiting : \E y \in (Written \cup Waiting)' : y.msg = x.msg /\ y.qos = x.qos,
         \A y \in (Written \cup Waiting)' : \E x \in Written \cup Waiting : y.msg = x.msg /\ y.qos = x.qos
  PROVE  UNCHANGED Abstract!absVars
<1>1. Pending' = Pending
  BY PendingKept
<1> QED BY <1>1, AbstractSteps

\* The same when the queue stands still.
LEMMA SameQueue ==
  ASSUME QueueInv, UNCHANGED <<queue, got, owed, firstSent>>
  PROVE  UNCHANGED Abstract!absVars
  BY DEF queue, Abstract!absVars

\* Messages that are read and sent for the first time.
LEMMA PromiseSends ==
  ASSUME Inv, InflightExpiry, Inv', pollNewMessages
  PROVE  Abstract!Send
<1>1. PICK W, K, m, r : BatchSent(W, K, m, r)
  BY SendsBatch
<1>2. /\ W \subseteq Waiting /\ Waiting' = Waiting \ W /\ Written' = Written \cup K
      /\ dropped \subseteq dropped'
      /\ \A x \in W : x.msg \in dropped' \/ x.qos = 0 \/ \E k \in K : Sent(x, k)
      /\ \A k \in K : \E x \in W : Sent(x, k)
      /\ r \in Seq(Elem)
      /\ \A x \in Entries(r) : x \in K \/ (x \in W /\ x.qos = 0 /\ x.id = 0)
      /\ firstSent' = firstSent \o [i \in 1 .. Len(r) |-> r[i].msg]
      /\ owed' = owed /\ got' = got
  BY <1>1 DEF BatchSent, Batch, client
<1>3. FirstSent' = FirstSent \cup {x.msg : x \in Entries(r)}
  <2>1. PICK u : u = [i \in 1 .. Len(r) |-> r[i].msg]
    OBVIOUS
  <2>2. firstSent' = firstSent \o u /\ firstSent \in Seq(1 .. MaxMsgs)
    BY <1>2, <2>1 DEF Inv, TypeInv
  <2>3. u \in Seq(1 .. MaxMsgs) /\ Entries(u) = {x.msg : x \in Entries(r)}
    BY <1>2, <2>1, MessagesOf
  <2>4. Entries(firstSent \o u) = Entries(firstSent) \cup Entries(u)
    BY <2>2, <2>3, Concatenated
  <2> QED BY <2>2, <2>3, <2>4 DEF FirstSent
<1>4. AbstractOK /\ AbstractOK'
  BY AbstractState, PTL
<1>5. \A x \in Written \cup Waiting : x.qos > 0 <=> x.msg \in owed
  BY DEF Inv, ElemInv, ElemOK
<1>6. \A x \in W : x.qos > 0 \/ x.qos = 0
  <2>1. \A x \in W : x \in Elem
    BY <1>2, Parts DEF Inv, TypeInv
  <2> QED BY <2>1, Elements
<1>7. \A d \in FirstSent' \cap owed : d \in FirstSent \/ d \in Pending
  <2> SUFFICES ASSUME NEW x \in Entries(r), x.msg \in owed PROVE x.msg \in Pending
    BY <1>3
  <2>1. CASE x \in K
    <3>1. PICK w \in W : Sent(w, x)
      BY <1>2, <2>1
    <3>2. w \in Written \cup Waiting /\ w.msg = x.msg /\ w.qos > 0
      BY <1>2, <3>1 DEF Sent
    <3> QED BY <1>4, <3>2 DEF AbstractOK, PendingIs
  <2>2. CASE x \in W /\ x.qos = 0
    BY <1>2, <1>5, <2>2
  <2> QED BY <1>2, <2>1, <2>2
<1>8. Highest' >= Highest /\ Highest' \in Pending \cup {Highest}
  <2>1. Highest \in Nat /\ Highest' \in Nat
    BY <1>4 DEF AbstractOK
  <2>2. CASE FirstSent' \cap owed = {}
    <3>1. FirstSent \cap owed = {}
      BY <1>3, <2>2
    <3> QED BY <1>2, <1>4, <2>1, <2>2, <3>1 DEF AbstractOK
  <2>3. CASE FirstSent' \cap owed # {}
    <3>1. Highest' \in FirstSent' \cap owed /\ \A y \in FirstSent' \cap owed : y <= Highest'
      BY <1>2, <1>4, <2>3 DEF AbstractOK
    <3>2. FirstSent \cap owed \subseteq FirstSent' \cap owed
      BY <1>3
    <3>3. Highest' >= Highest
      BY <1>4, <2>1, <3>1, <3>2 DEF AbstractOK
    <3>4. Highest' \in FirstSent => Highest' <= Highest
      BY <1>4, <3>1 DEF AbstractOK
    <3> QED BY <1>7, <2>1, <3>1, <3>3, <3>4
  <2> QED BY <2>2, <2>3
<1>9. Pending' \subseteq Pending
  <2> SUFFICES ASSUME NEW d \in Pending' PROVE d \in Pending
    OBVIOUS
  <2>1. PICK x \in (Written \cup Waiting)' : x.msg = d /\ x.qos > 0
    BY <1>4 DEF AbstractOK, PendingIs
  <2>2. CASE x \in K
    <3>1. PICK w \in W : Sent(w, x)
      BY <1>2, <2>2
    <3>2. w \in Written \cup Waiting /\ w.msg = d /\ w.qos > 0
      BY <1>2, <2>1, <3>1 DEF Sent
    <3> QED BY <1>4, <3>2 DEF AbstractOK, PendingIs
  <2>3. CASE x \notin K
    <3>1. x \in Written \cup Waiting
      BY <1>2, <2>1, <2>3
    <3> QED BY <1>4, <2>1, <3>1 DEF AbstractOK, PendingIs
  <2> QED BY <2>2, <2>3
<1>10. Pending \ (dropped' \cap owed') \subseteq Pending'
  <2> SUFFICES ASSUME NEW d \in Pending, ~(d \in dropped' /\ d \in owed) PROVE d \in Pending'
    BY <1>2
  <2>1. PICK x \in Written \cup Waiting : x.msg = d /\ x.qos > 0
    BY <1>4 DEF AbstractOK, PendingIs
  <2>2. d \notin dropped'
    BY <1>5, <2>1
  <2>3. CASE x \in W
    <3>1. PICK k \in K : Sent(x, k)
      BY <1>2, <2>1, <2>2, <2>3
    <3>2. k \in (Written \cup Waiting)' /\ k.msg = d /\ k.qos > 0
      BY <1>2, <2>1, <3>1 DEF Sent
    <3> QED BY <1>4, <3>2 DEF AbstractOK, PendingIs
  <2>4. CASE x \notin W
    <3>1. x \in (Written \cup Waiting)'
      BY <1>2, <2>1, <2>4
    <3> QED BY <1>4, <2>1, <3>1 DEF AbstractOK, PendingIs
  <2> QED BY <2>3, <2>4
<1>11. /\ dropped \cap owed \subseteq dropped' \cap owed' /\ dropped' \cap owed' \subseteq (dropped \cap owed) \cup owed
       /\ got' \cap owed' = got \cap owed
  BY <1>2
<1> QED BY <1>2, <1>8, <1>9, <1>10, <1>11, AbstractSteps

\* An acknowledged message is forgotten.
LEMMA PromiseSettles ==
  ASSUME Inv, Inv', NEW types, removeAndRelease(types)
  PROVE  Abstract!Settle \/ UNCHANGED Abstract!absVars
<1>1. PICK a : a = Head(toServer)
  OBVIOUS
<1>2. toServer # <<>> /\ MQ!Remove(a.id) /\ UNCHANGED <<got, owed, firstSent>> /\ toServer \in Seq(ServerPacket)
  BY <1>1 DEF removeAndRelease, client, ghosts, Inv, TypeInv
<1>3. a \in Entries(toServer) /\ a \in ServerPacket
  BY <1>1, <1>2, TakingFirst
<1>4. a.id # 0
  BY <1>3, QueueAndLimiterAssumption DEF ServerPacket
<1>5. QueueInv /\ QueueInv' /\ PacketInv /\ ElemInv
  BY DEF Inv, TypeInv
<1>6. PICK x \in Written : x.id = a.id /\ x.msg \in got
  BY <1>3, <1>5 DEF PacketInv, AckOK
<1>7. /\ UNCHANGED dropped
      /\ \/ UNCHANGED <<Written, Waiting>>
         \/ \E y \in Written : y.id = a.id /\ Written' = Written \ {y} /\ Waiting' = Waiting
  BY <1>2, <1>5, Removing
<1>8. CASE UNCHANGED <<Written, Waiting>>
  BY <1>2, <1>5, <1>7, <1>8, SameMessages
<1>9. CASE \E y \in Written : y.id = a.id /\ Written' = Written \ {y} /\ Waiting' = Waiting
  <2>1. PICK y \in Written : y.id = a.id /\ Written' = Written \ {y} /\ Waiting' = Waiting
    BY <1>9
  <2>2. /\ \A z, w \in Written \cup Waiting : z.id # 0 /\ z.id = w.id => z = w
        /\ \A z, w \in Written \cup Waiting : z.msg = w.msg => z = w
        /\ Written \cap Waiting = {}
    BY <1>5, Parts
  <2>3. y = x
    BY <1>4, <1>6, <2>1, <2>2
  <2>4. x.qos > 0 /\ x.msg \in owed
    BY <1>4, <1>5, <1>6 DEF ElemInv, ElemOK
  <2>5. AbstractOK /\ AbstractOK'
    BY AbstractState, PTL
  <2>6. x.msg \in Pending
    BY <2>4, <2>5 DEF AbstractOK, PendingIs
  <2>7. \A z : z \in (Written \cup Waiting)' <=> z \in Written \cup Waiting /\ z # x
    BY <2>1, <2>2, <2>3
  <2>8. \A d : d \in Pending' <=> d \in Pending /\ d # x.msg
    BY <2>2, <2>5, <2>7 DEF AbstractOK, PendingIs
  <2>9. Pending' = Pending \ {x.msg}
    BY <2>8
  <2>10. Highest' = Highest
    BY <1>2 DEF Highest
  <2> QED BY <1>2, <1>6, <1>7, <2>4, <2>6, <2>9, <2>10, AbstractSteps
<1> QED BY <1>7, <1>8, <1>9

\* The subscriber gets a message that has been sent.
LEMMA PromiseDelivers ==
  ASSUME Inv, subscriberReceives
  PROVE  Abstract!Deliver \/ UNCHANGED Abstract!absVars
<1>1. PICK p : p = Head(toClient)
  OBVIOUS
<1>2. /\ toClient # <<>> /\ UNCHANGED <<queue, owed, firstSent>>
      /\ got' = got \/ (p.type = "PUBLISH" /\ got' = got \cup {p.msg})
  BY <1>1 DEF subscriberReceives, ghosts
<1>3. QueueInv /\ PacketInv /\ toClient \in Seq(ClientPacket)
  BY DEF Inv, TypeInv
<1>4. p \in Entries(toClient)
  BY <1>1, <1>2, <1>3, TakingFirst
<1>5. SentOK(p)
  BY <1>3, <1>4 DEF PacketInv
<1>6. Pending' = Pending /\ dropped' = dropped /\ Highest' = Highest
  BY <1>2 DEF queue, Pending, Highest
<1>7. CASE got' = got
  BY <1>2, <1>3, <1>7, SameQueue
<1>8. CASE p.type = "PUBLISH" /\ got' = got \cup {p.msg} /\ p.msg \in owed
  <2>1. p.msg \in FirstSent
    BY <1>5, <1>8 DEF SentOK
  <2>2. AbstractOK
    BY AbstractState
  <2>3. p.msg <= Highest
    BY <1>8, <2>1, <2>2 DEF AbstractOK
  <2>4. got' \cap owed' = (got \cap owed) \cup {p.msg}
    BY <1>2, <1>8
  <2> QED BY <1>2, <1>6, <1>8, <2>3, <2>4, AbstractSteps
<1>9. CASE got' = got \cup {p.msg} /\ p.msg \notin owed
  <2>1. got' \cap owed' = got \cap owed
    BY <1>2, <1>9
  <2> QED BY <1>2, <2>1 DEF Abstract!absVars, queue
<1> QED BY <1>2, <1>7, <1>8, <1>9

\* Steps that change the elements of the queue and not their messages.
LEMMA PromiseWaits ==
  ASSUME Inv, Inv', InflightExpiry, pollInflights \/ pubrecHandler \/ resume \/ expire
  PROVE  UNCHANGED Abstract!absVars
<1>1. QueueInv /\ QueueInv' /\ limit \in Limits
  BY DEF Inv, TypeInv
<1>2. CASE pollInflights
  <2>1. PICK r : r = MQ!ReadInflightResult(limit)
    OBVIOUS
  <2>2. MQ!ReadInflight(limit) /\ UNCHANGED <<got, owed, firstSent>>
    BY <1>2 DEF pollInflights, client, ghosts
  <2>3. /\ UNCHANGED dropped
        /\ Entries(r) \subseteq Waiting
        /\ \A x \in Entries(r) : \E y \in Written' : y.msg = x.msg /\ y.qos = x.qos
        /\ \A y \in Written' : y \in Written \/ \E x \in Entries(r) : y.msg = x.msg /\ y.qos = x.qos
        /\ Written \subseteq Written' /\ Waiting' = Waiting \ Entries(r)
    BY <1>1, <2>1, <2>2, ReadingInflight
  <2>4. \A x \in Written \cup Waiting : \E y \in (Written \cup Waiting)' : y.msg = x.msg /\ y.qos = x.qos
    BY <2>3
  <2>5. \A y \in (Written \cup Waiting)' : \E x \in Written \cup Waiting : y.msg = x.msg /\ y.qos = x.qos
    BY <2>3
  <2> QED BY <1>1, <2>2, <2>3, <2>4, <2>5, SameMessages
<1>3. CASE pubrecHandler
  <2>1. PICK pid : pid = Head(toServer).id
    OBVIOUS
  <2>2. MQ!Replace(pid) /\ UNCHANGED <<got, owed, firstSent>>
    BY <1>3, <2>1 DEF pubrecHandler, client, ghosts
  <2>3. /\ UNCHANGED dropped
        /\ \/ UNCHANGED <<Written, Waiting>>
           \/ \E x \in Written, y \in Elem :
                 Waiting' = Waiting /\ Written' = (Written \ {x}) \cup {y} /\ y.msg = x.msg /\ y.qos = x.qos
    BY <1>1, <2>2, Replacing
  <2>4. \A x \in Written \cup Waiting : \E y \in (Written \cup Waiting)' : y.msg = x.msg /\ y.qos = x.qos
    BY <2>3
  <2>5. \A y \in (Written \cup Waiting)' : \E x \in Written \cup Waiting : y.msg = x.msg /\ y.qos = x.qos
    BY <2>3
  <2> QED BY <1>1, <2>2, <2>3, <2>4, <2>5, SameMessages
<1>4. CASE resume
  <2>1. MQ!InitResume /\ UNCHANGED <<got, owed, firstSent>>
    BY <1>4 DEF resume, client, ghosts
  <2>2. UNCHANGED dropped /\ (Written \cup Waiting)' = Written \cup Waiting
    BY <1>1, <2>1, Resuming
  <2> QED BY <1>1, <2>1, <2>2, SameMessages
<1>5. CASE expire
  <2>1. PICK v \in 1 .. Len(l) : MQ!Expire(v) /\ UNCHANGED <<got, owed, firstSent>>
    BY <1>5 DEF expire, client, ghosts
  <2>2. /\ UNCHANGED dropped
        /\ \E y \in Elem :
              /\ y.msg = l[v].msg /\ y.qos = l[v].qos
              /\ \/ l[v] \in Written /\ Written' = (Written \ {l[v]}) \cup {y} /\ Waiting' = Waiting
                 \/ l[v] \in Waiting /\ Waiting' = (Waiting \ {l[v]}) \cup {y} /\ Written' = Written
    BY <1>1, <2>1, Expiring
  <2>3. \A x \in Written \cup Waiting : \E y \in (Written \cup Waiting)' : y.msg = x.msg /\ y.qos = x.qos
    BY <2>2
  <2>4. \A y \in (Written \cup Waiting)' : \E x \in Written \cup Waiting : y.msg = x.msg /\ y.qos = x.qos
    BY <2>2
  <2> QED BY <1>1, <2>1, <2>2, <2>3, <2>4, SameMessages
<1> QED BY <1>2, <1>3, <1>4, <1>5

\* What an Add takes out of the queue: nothing, or an element whose drop is reported.
Made(e) ==
  \/ Written' \cup Waiting' = Written \cup Waiting \cup {e} /\ dropped' = dropped
  \/ Written' \cup Waiting' = Written \cup Waiting /\ dropped' = dropped \cup {e.msg}
  \/ \E x \in Written \cup Waiting :
        /\ Written' \cup Waiting' = ((Written \cup Waiting) \ {x}) \cup {e}
        /\ dropped' = dropped \cup (IF x.kind = "publish" THEN {x.msg} ELSE {})

\* Every outcome of Add is one of the three.
LEMMA MakesRoom ==
  ASSUME QueueInv, NEW e \in Elem, e.id = 0, e.kind = "publish", e.msg = added + 1,
         MQ!AddRoom(e) \/ MQ!AddEvict(e) \/ MQ!AddReject(e) \/ MQ!AddPanic(e)
  PROVE  Made(e) /\ added' = added + 1
<1>1. CASE MQ!AddRoom(e)
  <2>1. Written' = Written /\ Waiting' = Waiting \cup {e} /\ added' = added + 1 /\ UNCHANGED dropped
    BY <1>1, AddingWithRoom
  <2> QED BY <2>1 DEF Made
<1>2. CASE MQ!AddEvict(e)
  <2>1. /\ added' = added + 1
        /\ \E x \in Written \cup Waiting :
              /\ dropped' = dropped \cup (IF x.kind = "publish" THEN {x.msg} ELSE {})
              /\ Written' = Written \ {x} /\ Waiting' = (Waiting \ {x}) \cup {e}
    BY <1>2, AddingEvicting
  <2>2. PICK x \in Written \cup Waiting :
           /\ dropped' = dropped \cup (IF x.kind = "publish" THEN {x.msg} ELSE {})
           /\ Written' = Written \ {x} /\ Waiting' = (Waiting \ {x}) \cup {e}
    BY <2>1
  <2>3. Written' \cup Waiting' = ((Written \cup Waiting) \ {x}) \cup {e}
    BY <2>2
  <2> QED BY <2>1, <2>2, <2>3 DEF Made
<1>3. CASE MQ!AddReject(e) \/ MQ!AddPanic(e)
  <2>1. Written' = Written /\ Waiting' = Waiting /\ added' = added + 1 /\ dropped' = dropped \cup {e.msg}
    BY <1>3, AddingDropping
  <2> QED BY <2>1 DEF Made
<1> QED BY <1>1, <1>2, <1>3

\* A message is accepted, or makes another one go.
LEMMA PromiseAccepts ==
  ASSUME Inv, Inv', addMsgToQueueLocked
  PROVE  Abstract!Accept \/ Abstract!Send \/ Abstract!Settle
<1>1. QueueInv /\ ElemInv
  BY DEF Inv, TypeInv
<1>2. PICK qos \in QoSs, expiry \in Expiries, big \in Sizes : \E e :
         /\ e = MQ!NewElem(qos, expiry, big)
         /\ MQ!AddRoom(e) \/ MQ!AddEvict(e) \/ MQ!AddReject(e) \/ MQ!AddPanic(e)
         /\ owed' = IF qos > 0 THEN owed \cup {e.msg} ELSE owed
  BY DEF addMsgToQueueLocked
<1>3. PICK e :
         /\ e = MQ!NewElem(qos, expiry, big)
         /\ MQ!AddRoom(e) \/ MQ!AddEvict(e) \/ MQ!AddReject(e) \/ MQ!AddPanic(e)
         /\ owed' = IF qos > 0 THEN owed \cup {e.msg} ELSE owed
  BY <1>2
<1>4. added < MaxMsgs /\ UNCHANGED <<got, firstSent>>
  BY DEF addMsgToQueueLocked, client
<1>5. e \in Elem /\ e.id = 0 /\ e.kind = "publish" /\ e.msg = added + 1 /\ e.qos = qos
  BY <1>1, <1>3, <1>4, NewElements
<1>6. Made(e)
  BY <1>1, <1>3, <1>5, MakesRoom
<1>7. AbstractOK /\ AbstractOK' /\ PendingIs /\ PendingIs'
  BY AbstractState, PTL DEF AbstractOK
<1>8. e.msg \notin owed /\ e.msg \notin FirstSent /\ e.msg \notin got /\ \A k \in owed : k < e.msg
  <2>1. added \in Nat
    BY <1>1, Counts
  <2>2. \A k \in 1 .. added : k < added + 1 /\ k # added + 1
    BY <2>1
  <2>3. owed \subseteq 1 .. added /\ FirstSent \subseteq 1 .. added /\ got \subseteq 1 .. added
    BY <1>1 DEF ElemInv
  <2> QED BY <1>5, <2>2, <2>3, Zenon
<1>9. Highest' = Highest
  <2>1. FirstSent' = FirstSent /\ FirstSent' \cap owed' = FirstSent \cap owed
    BY <1>3, <1>4, <1>8 DEF FirstSent
  <2> QED BY <2>1 DEF Highest, FirstSent, Entries
<1>10. \A x \in Written \cup Waiting :
         /\ x \in Elem
         /\ x.qos > 0 <=> x.msg \in owed
         /\ x.kind = "pubrel" => x.msg \in got
  BY <1>1, Parts DEF ElemInv, ElemOK
<1>11. \A x, y \in Written \cup Waiting : x.msg = y.msg => x = y
  BY <1>1, Parts
<1>12. got' \cap owed' = got \cap owed /\ dropped \cap owed \subseteq dropped' \cap owed'
  <2>1. dropped \subseteq dropped'
    BY <1>6 DEF Made
  <2> QED BY <1>3, <1>4, <1>8, <2>1
<1>13. \A z \in Written' \cup Waiting' : z = e \/ z \in Written \cup Waiting
  BY <1>6 DEF Made
<1>14. \A d \in Pending' : d \in Pending \/ (d = e.msg /\ qos > 0)
  BY <1>5, <1>7, <1>13 DEF PendingIs
\* What was pending and is not any more.
<1>15. ASSUME NEW d \in Pending, d \notin Pending'
       PROVE  /\ d \in owed
              /\ \E x \in Written \cup Waiting :
                    /\ x.msg = d /\ Written' \cup Waiting' = ((Written \cup Waiting) \ {x}) \cup {e}
                    /\ \/ x.kind = "publish" /\ dropped' = dropped \cup {d}
                       \/ x.kind = "pubrel" /\ d \in got /\ dropped' = dropped
  <2>1. PICK y \in Written \cup Waiting : y.msg = d /\ y.qos > 0
    BY <1>7, <1>15 DEF PendingIs
  <2>2. y \notin Written' \cup Waiting'
    BY <1>7, <1>15, <2>1 DEF PendingIs
  <2>3. PICK x \in Written \cup Waiting :
           /\ Written' \cup Waiting' = ((Written \cup Waiting) \ {x}) \cup {e}
           /\ dropped' = dropped \cup (IF x.kind = "publish" THEN {x.msg} ELSE {})
    BY <1>6, <2>2 DEF Made
  <2>4. x = y
    BY <2>2, <2>3
  <2>5. x.kind = "publish" \/ x.kind = "pubrel"
    BY <1>10, Elements
  <2>6. \/ x.kind = "publish" /\ dropped' = dropped \cup {d}
        \/ x.kind = "pubrel" /\ d \in got /\ dropped' = dropped
    BY <1>10, <2>1, <2>3, <2>4, <2>5
  <2> QED BY <1>10, <2>1, <2>3, <2>4, <2>6
<1>16. CASE qos > 0
  <2>1. owed' = owed \cup {e.msg} /\ e.msg \in owed' \ owed
    BY <1>3, <1>8, <1>16
  <2>2. Pending' \subseteq Pending \cup {e.msg}
    BY <1>14
  <2>3. ASSUME NEW k \in (Pending \cup {e.msg}) \ Pending'
        PROVE  k \in dropped' \cap owed' \/ k \in got \cap owed
    <3>1. CASE k \in Pending
      BY <1>15, <2>1, <2>3, <3>1
    <3>2. CASE k = e.msg
      <4>1. e \notin Written' \cup Waiting'
        BY <1>5, <1>7, <1>16, <2>3, <3>2 DEF PendingIs
      <4>2. dropped' = dropped \cup {e.msg}
        BY <1>6, <4>1 DEF Made
      <4> QED BY <2>1, <3>2, <4>2
    <3> QED BY <2>3, <3>1, <3>2
  <2>4. dropped' \cap owed' \subseteq owed' \cup (dropped \cap owed)
    OBVIOUS
  <2>5. Abstract!Accept
    BY <1>8, <1>9, <1>12, <2>1, <2>2, <2>3, <2>4, AbstractAccepts
  <2> QED BY <2>5
<1>17. CASE ~(qos > 0)
  <2>1. owed' = owed /\ Pending' \subseteq Pending
    BY <1>3, <1>14, <1>17
  <2>2. dropped' \cap owed' \subseteq (dropped \cap owed) \cup owed
    BY <2>1
  <2>3. Highest \in Nat
    BY <1>7 DEF AbstractOK
  <2>4. CASE Pending \ (dropped' \cap owed') \subseteq Pending'
    <3>1. Highest' >= Highest /\ Highest' \in Pending \cup {Highest}
      BY <1>9, <2>3
    <3> QED BY <1>12, <2>1, <2>2, <2>4, <3>1, AbstractSteps
  <2>5. CASE ~(Pending \ (dropped' \cap owed') \subseteq Pending')
    <3>1. PICK d \in Pending : d \notin Pending' /\ d \notin dropped' \cap owed'
      BY <2>5
    <3>2. PICK x \in Written \cup Waiting :
             /\ x.msg = d /\ Written' \cup Waiting' = ((Written \cup Waiting) \ {x}) \cup {e}
             /\ d \in owed /\ d \in got /\ dropped' = dropped
      BY <1>15, <2>1, <3>1
    <3>3. Pending' = Pending \ {d}
      <4>1. \A k \in Pending : k # d => k \in Pending'
        <5> SUFFICES ASSUME NEW k \in Pending, k # d PROVE k \in Pending'
          OBVIOUS
        <5>1. PICK y \in Written \cup Waiting : y.msg = k /\ y.qos > 0
          BY <1>7 DEF PendingIs
        <5>2. y \in Written' \cup Waiting'
          BY <3>2, <5>1
        <5> QED BY <1>7, <5>1, <5>2 DEF PendingIs
      <4> QED BY <2>1, <3>1, <4>1
    <3>4. dropped' \cap owed' = dropped \cap owed
      BY <2>1, <3>2
    <3> QED BY <1>9, <1>12, <2>1, <3>2, <3>3, <3>4, AbstractSteps
  <2> QED BY <2>4, <2>5
<1> QED BY <1>16, <1>17

\* Each step of the composition is a step of ReliableDelivery or changes nothing of it.
LEMMA PromiseSteps ==
  ASSUME Orderly, Inv, Inv', [Next]_vars
  PROVE  [Abstract!Next]_(Abstract!absVars)
<1>1. InflightExpiry /\ QueueInv
  BY DEF Orderly, Inv, TypeInv
<1>2. CASE addMsgToQueueLocked
  BY <1>2, PromiseAccepts DEF Abstract!Next
<1>3. CASE pollNewMessages
  BY <1>1, <1>3, PromiseSends DEF Abstract!Next
<1>4. CASE pubackHandler \/ pubcompHandler \/ pubrecHandlerError
  BY <1>4, PromiseSettles DEF pubackHandler, pubcompHandler, pubrecHandlerError, Abstract!Next
<1>5. CASE subscriberReceives
  BY <1>5, PromiseDelivers DEF Abstract!Next
<1>6. CASE pollInflights \/ pubrecHandler \/ resume \/ expire
  BY <1>1, <1>6, PromiseWaits
<1>7. CASE \/ pollInflightsWrite \/ pollPacketIDs \/ pollClosed \/ batchRelease
           \/ release \/ networkLost \/ closeLimiter \/ unregister \/ UNCHANGED vars
  <2>1. UNCHANGED <<queue, got, owed, firstSent>>
    BY <1>7 DEF pollInflightsWrite, pollPacketIDs, pollClosed, batchRelease, release, networkLost, closeLimiter,
                unregister, vars, client, ghosts
  <2> QED BY <1>1, <2>1, SameQueue
<1>8. CASE closeQueue
  BY <1>8 DEF closeQueue, MQ!Close, client, ghosts, Abstract!absVars
<1> QED BY <1>2, <1>3, <1>4, <1>5, <1>6, <1>7, <1>8 DEF Next, pollMessageHandler, readHandle, serve

\* The session implements ReliableDelivery: a QoS 1 or 2 message addMsgToQueueLocked accepted is
\* kept until the subscriber has it or its drop is reported, and messages are first sent in the
\* order they were accepted, over any number of connections.
THEOREM PromiseKept == ASSUME Orderly PROVE Spec => KeepsPromise
<1>1. Init => Abstract!Init
  <2> SUFFICES ASSUME Init PROVE Abstract!Init
    OBVIOUS
  <2>1. l = <<>> /\ owed = {} /\ got = {} /\ dropped = {} /\ firstSent = <<>> /\ 1 .. Len(<<>>) = {}
    BY DEF Init, MQ!Init
  <2> QED BY <2>1 DEF Abstract!Init
<1>2. Inv /\ Inv' /\ [Next]_vars => [Abstract!Next]_(Abstract!absVars)
  BY PromiseSteps
<1> QED BY <1>1, <1>2, Invariance, PTL DEF Spec, KeepsPromise, Abstract!Spec
=============================================================================
