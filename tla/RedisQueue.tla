----------------------------- MODULE RedisQueue -----------------------------
(***************************************************************************)
(* The message queue of one session kept in redis                          *)
(* (gmqtt/persistence/queue/redis/redis.go), with crashes of the broker.   *)
(*                                                                         *)
(* The list l is in redis and survives; len, current, inflightDrained,     *)
(* closed and readCache are fields of the Queue object and do not.  The    *)
(* elements, the batch a Read looks at and what it makes of it are those   *)
(* of MemQueue, which this module extends; the choice of what Add drops,   *)
(* Remove and Replace differ.  An operation holds the mutex, so it is one  *)
(* action; its redis commands are several, so a crash may leave the first  *)
(* of them done (addCrash, readCrash).                                     *)
(***************************************************************************)
EXTENDS MemQueue

CONSTANTS
    MaxCrashes,   \* bound
    LateAck       \* does the client acknowledge a message that Add has dropped
                  \* as an expired inflight one?

ASSUME RedisQueueAssumption == MaxCrashes \in Nat /\ LateAck \in BOOLEAN

VARIABLES
    len,        \* Queue.len
    readCache,  \* what is cached for a packet identifier: message and kind
    inited,     \* Init has been called on this Queue object
    owed,       \* identifiers the client has received and not acknowledged
    done,       \* messages acknowledged, or QoS 0 and read
    crashes

rqVars == <<mqVars, len, readCache, inited, owed, done, crashes>>

Pids == 1 .. MaxPacketID
NoEntry == [msg |-> 0, kind |-> "none"]
Entry(e) == [msg |-> e.msg, kind |-> e.kind]

RedisTypeOK ==
    /\ TypeOK
    /\ len \in Nat
    /\ readCache \in [Pids -> {NoEntry} \cup [msg : 1 .. MaxMsgs, kind : {"publish", "pubrel"}]]
    /\ inited \in BOOLEAN
    /\ owed \subseteq Pids
    /\ done \subseteq 1 .. MaxMsgs
    /\ crashes \in 0 .. MaxCrashes

\* The session exists and its client is connected for the first time.
RedisInit ==
    /\ Init
    /\ len = 0 /\ readCache = [p \in Pids |-> NoEntry]
    /\ inited = TRUE /\ owed = {} /\ done = {} /\ crashes = 0

-----------------------------------------------------------------------------
(* Add. *)

\* The part of the list that lrange 0 len returns, split at the cursor.
Scanned == {i \in 1 .. Len(l) : i <= len + 1}
InflightExpired == {i \in Scanned : i < current /\ ElemExpiry(i)}
UnreadScanned == {i \in Scanned : i >= current}
UnreadExpired == {i \in UnreadScanned : l[i].id = 0 /\ ElemExpiry(i)}
UnreadQoS0 == {i \in UnreadScanned : l[i].id = 0 /\ l[i].qos = 0}

\* The type assertion of the loop meets a Pubrel.
AddPanics ==
    /\ InflightExpired = {}
    /\ \E i \in UnreadScanned :
          l[i].kind = "pubrel" /\ \A j \in UnreadExpired : i < j

\* The element that gives way, or 0 for the incoming one.  The front message
\* is the one at the cursor, also when it is an inflight one not read again.
RedisVictim(e) ==
    CASE InflightExpired # {} -> Min(InflightExpired)
      [] InflightExpired = {} /\ UnreadExpired # {} -> Min(UnreadExpired)
      [] InflightExpired = {} /\ UnreadExpired = {} /\ UnreadQoS0 # {} -> Min(UnreadQoS0)
      [] OTHER -> IF e.qos = 0 \/ UnreadScanned = {} THEN 0 ELSE current

redisFull == len >= MaxQueuedMsg

redisAddRoom(e) ==
    /\ ~redisFull
    /\ l' = Append(l, e)
    /\ len' = len + 1
    /\ UNCHANGED <<current, dropped, readCache, owed>>

\* Mutant: the cached length grows although an element was dropped.
redisAddEvictGrows(e) ==
    LET v == RedisVictim(e)
    IN  /\ redisFull /\ ~AddPanics /\ v # 0
        /\ l' = Append(SeqExt!RemoveAt(l, v), e)
        /\ current' = IF v \in InflightExpired THEN current - 1 ELSE current
        /\ len' = len + 1
        /\ NotifyDropped({l[v].msg})
        /\ owed' = IF LateAck THEN owed ELSE owed \ {l[v].id}
        /\ UNCHANGED readCache

\* lrem and rpush.  The cache keeps the entry of an inflight message dropped.
redisAddEvict(e) ==
    LET v == RedisVictim(e)
    IN  /\ redisFull /\ ~AddPanics /\ v # 0
        /\ l' = Append(SeqExt!RemoveAt(l, v), e)
        /\ current' = IF v \in InflightExpired THEN current - 1 ELSE current
        /\ NotifyDropped({l[v].msg})
        /\ owed' = IF LateAck THEN owed ELSE owed \ {l[v].id}
        /\ UNCHANGED <<len, readCache>>

redisAddReject(e) ==
    /\ redisFull /\ (AddPanics \/ RedisVictim(e) = 0)
    /\ NotifyDropped({e.msg})
    /\ UNCHANGED <<l, current, len, readCache, owed>>

-----------------------------------------------------------------------------
(* The other operations. *)

\* Init with CleanStart false.
redisConnect ==
    /\ closed \/ ~inited
    /\ InitResume
    /\ len' = Len(l)
    /\ readCache' = [p \in Pids |-> NoEntry]
    /\ inited' = TRUE /\ owed' = {}
    /\ UNCHANGED <<done, crashes>>

redisDisconnect ==
    /\ ~closed /\ inited
    /\ Close
    /\ UNCHANGED <<len, readCache, inited, owed, done, crashes>>

\* Where lrem finds the cached element of pid.
Cached(pid) == {i \in 1 .. Len(l) :
                   l[i].id = pid /\ readCache[pid] = Entry(l[i])}

\* Remove goes by the cache: an entry lowers len and the cursor whether or not
\* lrem found an element.
redisRemove(pid) ==
    IF readCache[pid] = NoEntry
    THEN UNCHANGED <<l, current, len, readCache>>
    ELSE /\ l' = IF Cached(pid) = {} THEN l ELSE SeqExt!RemoveAt(l, Min(Cached(pid)))
         /\ len' = len - 1 /\ current' = current - 1
         /\ readCache' = [readCache EXCEPT ![pid] = NoEntry]

\* Replace searches the inflight part, and the first element when it is empty.
redisReplace(pid) ==
    LET at == {i \in 1 .. Len(l) : l[i].id = pid /\ (i < current \/ i = 1)}
    IN  IF at = {}
        THEN UNCHANGED <<l, readCache>>
        ELSE /\ l' = [l EXCEPT ![Min(at)].kind = "pubrel", ![Min(at)].expiry = "never"]
             /\ readCache' = [readCache EXCEPT ![pid] = [msg |-> l[Min(at)].msg, kind |-> "pubrel"]]

\* ReadInflight: the elements are cached and the client gets them again.
redisReadInflight(n) ==
    LET again == {l[i] : i \in current .. (current + InflightRun(n) - 1)}
    IN  /\ ReadInflight(n)
        /\ readCache' = [p \in Pids |->
              IF \E e \in again : e.id = p
              THEN Entry(CHOOSE e \in again : e.id = p) ELSE readCache[p]]
        /\ owed' = owed \cup {e.id : e \in again}
        /\ UNCHANGED <<len, inited, done, crashes>>

\* What Read takes out of the list for good.
Gone(n) == {i \in Window(n) : ~BecomesInflight(i)}

redisRead(pids) ==
    LET n == Len(pids)
        sent == {Inflighted(i, pids) : i \in Window(n) \ Gone(n)}
    IN  /\ current <= len
        /\ Read(pids)
        /\ len' = len - Cardinality(Gone(n))
        /\ readCache' = [p \in Pids |->
              IF \E e \in sent : e.id = p
              THEN Entry(CHOOSE e \in sent : e.id = p) ELSE readCache[p]]
        /\ owed' = owed \cup {e.id : e \in sent}
        /\ done' = done \cup {l[i].msg : i \in {j \in Gone(n) : ~Dead(j)}}
        /\ UNCHANGED <<inited, crashes>>

-----------------------------------------------------------------------------
(* Crashes.  The broker comes back with a Queue made by New, on which Init *)
(* is called only when the client connects.                                *)

Restarted ==
    /\ crashes < MaxCrashes /\ crashes' = crashes + 1
    /\ len' = 0 /\ readCache' = [p \in Pids |-> NoEntry] /\ inited' = FALSE
    /\ current' = 1 /\ inflightDrained' = FALSE /\ closed' = FALSE /\ owed' = {}

crash ==
    /\ Restarted
    /\ UNCHANGED <<l, added, dropped, done>>

\* The crash comes between lrem and rpush: the publisher gets no answer.
addCrash(e) ==
    /\ redisFull /\ ~AddPanics /\ RedisVictim(e) # 0
    /\ Restarted
    /\ l' = SeqExt!RemoveAt(l, RedisVictim(e))
    /\ dropped' = dropped \cup {e.msg, l[RedisVictim(e)].msg}
    /\ added' = added + 1
    /\ UNCHANGED done

\* Mutant: Read trims the batch off the list before it writes anything back.
readCrashTrims(pids, k) ==
    LET first == {i \in Window(Len(pids)) : i < current + k}
    IN  /\ inited /\ inflightDrained /\ ~closed /\ Unread # {}
        /\ Restarted
        /\ l' = SubSeq(l, 1, current - 1) \o SubSeq(l, current + Cardinality(first), Len(l))
        /\ dropped' = dropped \cup {l[i].msg : i \in {j \in first : Dead(j)}}
        /\ done' = done \cup {l[i].msg : i \in {j \in first : ~BecomesInflight(j)}}
        /\ UNCHANGED added

\* The crash comes after the commands for the first k elements of a batch.
readCrash(pids, k) ==
    LET first == {i \in Window(Len(pids)) : i < current + k}
        kept  == Taken({i \in first : BecomesInflight(i)}, pids)
    IN  /\ inited /\ inflightDrained /\ ~closed /\ Unread # {}
        /\ Restarted
        /\ l' = SubSeq(l, 1, current - 1) \o kept
                  \o SubSeq(l, current + Cardinality(first), Len(l))
        /\ dropped' = dropped \cup {l[i].msg : i \in {j \in first : Dead(j)}}
        /\ done' = done \cup {l[i].msg : i \in {j \in first : ~BecomesInflight(j)}}
        /\ UNCHANGED added

-----------------------------------------------------------------------------
(* How the broker uses the queue. *)

NewElems == {NewElem(qos, expiry, big) : qos \in QoSs, expiry \in Expiries, big \in Sizes}

redisPublish ==
    /\ added < MaxMsgs
    /\ added' = added + 1
    /\ \E e \in NewElems : redisAddRoom(e) \/ redisAddEvict(e) \/ redisAddReject(e)
    /\ UNCHANGED <<inflightDrained, closed, inited, done, crashes>>

redisDrain ==
    /\ inited /\ ~closed /\ ~inflightDrained
    /\ \E n \in Pids : redisReadInflight(n)

\* Batches of identifiers no element of the list carries.
Batches == {pids \in UNION {[1 .. n -> Pids \ IdsInList] : n \in 1 .. PollBatch} :
               \A i, j \in DOMAIN pids : i < j => pids[i] # pids[j]}

redisPollNew == inited /\ \E pids \in Batches : redisRead(pids)

\* PUBACK, PUBCOMP or a negative PUBREC for something the client received.
redisAcknowledge ==
    \E pid \in owed :
        /\ ~closed
        /\ redisRemove(pid)
        /\ owed' = owed \ {pid}
        /\ done' = done \cup {l[i].msg : i \in Cached(pid)}
        /\ UNCHANGED <<inflightDrained, closed, added, dropped, inited, crashes>>

redisReceived ==
    \E pid \in owed :
        /\ ~closed /\ \E i \in 1 .. Len(l) : l[i].id = pid /\ l[i].qos = 2
        /\ redisReplace(pid)
        /\ UNCHANGED <<current, inflightDrained, closed, added, dropped, len, inited,
                       owed, done, crashes>>

redisTick ==
    /\ \E i \in 1 .. Len(l) : Expire(i)
    /\ UNCHANGED <<len, readCache, inited, owed, done, crashes>>

redisCrash ==
    \/ crash
    \/ added < MaxMsgs /\ \E e \in NewElems : addCrash(e)
    \/ \E pids \in Batches : \E k \in 1 .. Len(pids) : readCrash(pids, k)

RedisNext ==
    \/ redisPublish \/ redisConnect \/ redisDisconnect \/ redisDrain
    \/ redisPollNew \/ redisAcknowledge \/ redisReceived \/ redisTick \/ redisCrash

RedisSpec == RedisInit /\ [][RedisNext]_rqVars

-----------------------------------------------------------------------------
(* Properties. *)

\* What the Queue object remembers agrees with redis: the length is that of
\* the list, the cursor is where the inflight messages end, and before the
\* cursor every element is in the cache under its identifier, so Remove finds
\* it.  A crash at any point of Add or Read, a reconnect and any order of
\* acknowledgements keep it so (until Init the new object knows nothing).
InStep ==
    inited =>
      /\ len = Len(l)
      /\ CursorSplitsInflight
      /\ \A i \in 1 .. (current - 1) : readCache[l[i].id] = Entry(l[i])

\* No message given to Add disappears: it is in the list, was acknowledged (or
\* read, for QoS 0), or was reported dropped, whatever crashes came between.
NothingLost ==
    1 .. added \subseteq {l[i].msg : i \in 1 .. Len(l)} \cup done \cup dropped
=============================================================================
