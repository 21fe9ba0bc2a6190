------------------------------ MODULE Delivery ------------------------------
(***************************************************************************)
(* Delivery of messages to one session: the session's queue (MemQueue),    *)
(* the packet id limiter of its current connection (PacketIDLimiter) and   *)
(* the goroutines of gmqtt/server/client.go that use both:                 *)
(*   - publishers, which add to the queue under the server's mutex;        *)
(*   - pollMessageHandler, which resends what is inflight, then polls      *)
(*     identifiers, reads the queue and writes PUBLISH packets;            *)
(*   - readHandle, which handles PUBACK, PUBREC and PUBCOMP;               *)
(*   - serve, which closes queue and limiter when the reader ends, waits   *)
(*     for the others and unregisters the client.                          *)
(* The subscriber (external) answers every packet it gets, keeps its QoS 2 *)
(* state across connections, and loses the network at any moment.          *)
(*                                                                         *)
(* queueStore.Remove and pl.release are two critical sections, and so are  *)
(* ReadInflight and the marking, pollPacketIDs, Read and batchRelease:     *)
(* each is an action of its own here.                                      *)
(***************************************************************************)
EXTENDS Naturals, FiniteSets, Sequences

CONSTANTS
    MaxQueuedMsg, InflightExpiry, MaxPacketID, MaxMsgs, QoSs, Expiries, Sizes,
    Limits, PollBatch,
    QueueQos0Msg,   \* config: queue QoS 0 messages for offline clients
    MaxConns,       \* bound: connections of the session in one behaviour
    Rejects,        \* TRUE iff the subscriber may refuse a QoS 2 message
    LossAfterPubrec,\* TRUE iff the network may fail while a PUBREL is stored
    LateAck         \* TRUE iff a message may expire in the middle of its handshake

\* What MemQueue and PacketIDLimiter assume of theirs.
ASSUME QueueAndLimiterAssumption ==
    /\ MaxQueuedMsg \in Nat \ {0}
    /\ InflightExpiry \in BOOLEAN
    /\ MaxPacketID \in Nat \ {0}
    /\ PollBatch \in Nat \ {0}
    /\ MaxMsgs \in Nat
    /\ QoSs \subseteq 0 .. 2
    /\ Expiries \subseteq {"never", "armed"}
    /\ Sizes \subseteq BOOLEAN
    /\ Limits \subseteq 1 .. MaxPacketID

ASSUME DeliveryAssumption ==
    /\ QueueQos0Msg \in BOOLEAN
    /\ MaxConns \in Nat \ {0}
    /\ Rejects \in BOOLEAN
    /\ LossAfterPubrec \in BOOLEAN
    /\ LateAck \in BOOLEAN

VARIABLES
    l, current, inflightDrained, closed, added, dropped,        \* MemQueue
    used, limit, lockedPid, freePid, exit, waiting, ids,        \* PacketIDLimiter
    pc,         \* pollMessageHandler: a phase of the limiter, or "mark"
    resend,     \* what ReadInflight returned and pollInflights has not written
    releasing,  \* identifier readHandle is about to release, or 0
    conn,       \* "online", "closing" (the reader has ended) or "offline"
    conns,      \* connections so far
    toClient,   \* packets written and not yet received
    toServer,   \* acknowledgements sent and not yet handled
    subscriber, \* external: identifiers of QoS 2 messages awaiting a PUBREL
    got,        \* messages the subscriber has
    owed,       \* QoS 1 and 2 messages accepted for it
    firstSent   \* messages in the order they were written for the first time

queue == <<l, current, inflightDrained, closed, added, dropped>>
limiter == <<used, limit, lockedPid, freePid, exit, waiting, ids>>
poller == <<pc, resend>>
network == <<conn, conns, toClient, toServer>>
client == <<subscriber, got>>
ghosts == <<owed, firstSent>>
vars == <<queue, limiter, poller, releasing, network, client, ghosts>>

MQ == INSTANCE MemQueue
PL == INSTANCE PacketIDLimiter WITH phase <- IF pc = "mark" THEN "drain" ELSE pc

PublishPacket(e, dup) ==
    [type |-> "PUBLISH", id |-> e.id, qos |-> e.qos, msg |-> e.msg, dup |-> dup]
Packet(type, id) == [type |-> type, id |-> id]

\* client.write: the packet is lost once the connection is closing.
write(packets) ==
    toClient' = IF conn = "online" THEN toClient \o packets ELSE toClient

Init ==
    /\ pc = "drain"
    /\ MQ!Init
    /\ PL!LimiterInit
    /\ resend = <<>>
    /\ releasing = 0
    /\ conn = "online" /\ conns = 1
    /\ toClient = <<>> /\ toServer = <<>>
    /\ subscriber = {} /\ got = {}
    /\ owed = {} /\ firstSent = <<>>

-----------------------------------------------------------------------------
(* Publishers: addMsgToQueueLocked. *)

\* pollInflights holds the limiter's mutex over its loop, so whoever releases
\* an identifier waits.  (The gap between ReadInflight and pl.lock() is taken
\* to be shorter than the inflight expiry that ReadInflight has just renewed.)
LimiterLocked == pc = "mark"

\* NotifyDropped gives the identifier of an expired inflight message back.
NotifyExpiredInflight ==
    IF MQ!FrontExpired
    THEN ~LimiterLocked /\ PL!release(l[1].id)
    ELSE UNCHANGED limiter

addMsgToQueueLocked ==
    /\ added < MaxMsgs
    /\ \E qos \in QoSs, expiry \in Expiries, big \in Sizes :
          LET e == MQ!NewElem(qos, expiry, big)
          IN  /\ qos = 0 => QueueQos0Msg \/ conn # "offline"
              /\ \/ MQ!AddRoom(e) /\ UNCHANGED limiter
                 \/ MQ!AddEvict(e) /\ NotifyExpiredInflight
                 \/ MQ!AddReject(e) /\ UNCHANGED limiter
                 \/ MQ!AddPanic(e) /\ UNCHANGED limiter
              /\ owed' = IF qos > 0 THEN owed \cup {e.msg} ELSE owed
    /\ UNCHANGED <<poller, releasing, network, client, firstSent>>

-----------------------------------------------------------------------------
(* pollMessageHandler. *)

\* pollInflights up to ReadInflight; an empty result ends the draining.
pollInflights ==
    LET elems == MQ!ReadInflightResult(limit)
    IN  /\ pc = "drain"
        /\ MQ!ReadInflight(limit)
        /\ resend' = elems
        /\ pc' = IF elems = <<>> THEN "poll" ELSE "mark"
        /\ UNCHANGED <<limiter, releasing, network, client, ghosts>>

\* Mutant: resent identifiers are not marked in use.
pollInflightsUnmarked ==
    LET e == Head(resend)
    IN  /\ pc = "mark"
        /\ write(<<IF e.kind = "publish" THEN PublishPacket(e, TRUE) ELSE Packet("PUBREL", e.id)>>)
        /\ resend' = Tail(resend)
        /\ pc' = IF Tail(resend) = <<>> THEN "drain" ELSE "mark"
        /\ UNCHANGED <<queue, limiter, releasing, conn, conns, toServer, client, ghosts>>

\* The loop of pollInflights: only a PUBLISH is marked in use.
pollInflightsWrite ==
    LET e == Head(resend)
    IN  /\ pc = "mark"
        /\ IF e.kind = "publish"
           THEN PL!markUsedLocked(e.id) /\ write(<<PublishPacket(e, TRUE)>>)
           ELSE UNCHANGED limiter /\ write(<<Packet("PUBREL", e.id)>>)
        /\ resend' = Tail(resend)
        /\ pc' = IF Tail(resend) = <<>> THEN "drain" ELSE "mark"
        /\ UNCHANGED <<queue, releasing, conn, conns, toServer, client, ghosts>>

pollPacketIDs ==
    /\ pc = "poll"
    /\ \/ PL!pollPacketIDs /\ pc' = "read"
       \/ PL!pollPacketIDsWait /\ UNCHANGED pc
       \/ PL!pollPacketIDsNil /\ pc' = "done"
    /\ UNCHANGED <<queue, resend, releasing, network, client, ghosts>>

pollNewMessages ==
    LET elems == MQ!ReadResult(ids)
        k     == Cardinality({i \in 1 .. Len(elems) : elems[i].qos # 0})
    IN  /\ pc = "read"
        /\ MQ!Read(ids)
        /\ write([i \in 1 .. Len(elems) |-> PublishPacket(elems[i], FALSE)])
        /\ firstSent' = firstSent \o [i \in 1 .. Len(elems) |-> elems[i].msg]
        /\ ids' = SubSeq(ids, k + 1, Len(ids))
        /\ pc' = "release"
        /\ UNCHANGED <<used, limit, lockedPid, freePid, exit, waiting>>
        /\ UNCHANGED <<resend, releasing, conn, conns, toServer, client, owed>>

\* Read returns ErrClosed.
pollClosed ==
    /\ pc = "read"
    /\ closed
    /\ ids' = <<>>
    /\ pc' = "done"
    /\ UNCHANGED <<queue, used, limit, lockedPid, freePid, exit, waiting>>
    /\ UNCHANGED <<resend, releasing, network, client, ghosts>>

batchRelease ==
    /\ pc = "release"
    /\ PL!batchRelease
    /\ pc' = "poll"
    /\ UNCHANGED <<queue, resend, releasing, network, client, ghosts>>

pollMessageHandler ==
    \/ pollInflights
    \/ pollInflightsWrite
    \/ pollPacketIDs
    \/ pollNewMessages
    \/ pollClosed
    \/ batchRelease

-----------------------------------------------------------------------------
(* readHandle. *)

\* pubackHandler, pubcompHandler and pubrecHandler on an error code: remove
\* the element, then release the identifier.
removeAndRelease(types) ==
    /\ conn # "offline" /\ releasing = 0 /\ toServer # <<>>
    /\ Head(toServer).type \in types
    /\ MQ!Remove(Head(toServer).id)
    /\ releasing' = Head(toServer).id
    /\ toServer' = Tail(toServer)
    /\ UNCHANGED <<limiter, poller, conn, conns, toClient, client, ghosts>>

pubackHandler == removeAndRelease({"PUBACK"})

pubcompHandler == removeAndRelease({"PUBCOMP"})

pubrecHandlerError == removeAndRelease({"PUBREC-ERROR"})

\* pubrecHandler: the PUBLISH becomes a PUBREL.
pubrecHandler ==
    /\ conn # "offline" /\ releasing = 0 /\ toServer # <<>>
    /\ Head(toServer).type = "PUBREC"
    /\ MQ!Replace(Head(toServer).id)
    /\ write(<<Packet("PUBREL", Head(toServer).id)>>)
    /\ toServer' = Tail(toServer)
    /\ UNCHANGED <<limiter, poller, releasing, conn, conns, client, ghosts>>

\* Mutant: an acknowledged identifier is not given back.
releaseForgotten ==
    /\ releasing # 0 /\ ~LimiterLocked
    /\ releasing' = 0
    /\ UNCHANGED <<queue, limiter, poller, network, client, ghosts>>

release ==
    /\ releasing # 0 /\ ~LimiterLocked
    /\ PL!release(releasing)
    /\ releasing' = 0
    /\ UNCHANGED <<queue, poller, network, client, ghosts>>

readHandle ==
    \/ pubackHandler
    \/ pubcompHandler
    \/ pubrecHandlerError
    \/ pubrecHandler
    \/ release

-----------------------------------------------------------------------------
(* serve, and the session's next connection. *)

\* readLoop ends.  Packets on their way out are lost; of the ones on their way
\* in, those already in client.in are still handled.
networkLost ==
    /\ conn = "online"
    /\ conns < MaxConns
    /\ conn' = "closing"
    /\ toClient' = <<>>
    /\ \E k \in 0 .. Len(toServer) : toServer' = SubSeq(toServer, 1, k)
    /\ ~LossAfterPubrec => /\ \A i \in 1 .. Len(l) : l[i].kind # "pubrel"
                           /\ \A i \in 1 .. Len(toServer') : toServer'[i].type # "PUBREC"
    /\ UNCHANGED <<queue, limiter, poller, releasing, conns, client, ghosts>>

\* serve after readWg.Wait: queueStore.Close, then pl.close.
closeQueue ==
    /\ conn = "closing" /\ ~closed
    /\ MQ!Close
    /\ UNCHANGED <<limiter, poller, releasing, network, client, ghosts>>

closeLimiter ==
    /\ conn = "closing" /\ closed /\ ~exit
    /\ PL!closeLimiter
    /\ UNCHANGED <<queue, poller, releasing, network, client, ghosts>>

\* client.wg.Wait, then internalClose unregisters the client.
unregister ==
    /\ conn = "closing" /\ exit
    /\ pc = "done" /\ releasing = 0 /\ toServer = <<>>
    /\ conn' = "offline"
    /\ UNCHANGED <<queue, limiter, poller, releasing, conns, toClient, toServer, client, ghosts>>

serve == closeQueue \/ closeLimiter \/ unregister

\* registerClient resumes the session for a new connection.
resume ==
    /\ conn = "offline"
    /\ MQ!InitResume
    /\ \E limitOfClient \in Limits : PL!newPacketIDLimiter(limitOfClient)
    /\ pc' = "drain" /\ resend' = <<>>
    /\ conn' = "online" /\ conns' = conns + 1
    /\ UNCHANGED <<releasing, toClient, toServer, client, ghosts>>

-----------------------------------------------------------------------------
(* The subscriber: external. *)

\* It answers each packet in turn and knows a repeated QoS 2 message by its
\* packet identifier.
subscriberReceives ==
    LET p == Head(toClient)
        answer(type) == toServer' = Append(toServer, Packet(type, p.id))
    IN  /\ conn = "online" /\ toClient # <<>>
        /\ toClient' = Tail(toClient)
        /\ \/ /\ p.type = "PUBLISH" /\ p.qos = 0
              /\ got' = got \cup {p.msg}
              /\ UNCHANGED <<toServer, subscriber>>
           \/ /\ p.type = "PUBLISH" /\ p.qos = 1
              /\ got' = got \cup {p.msg}
              /\ answer("PUBACK")
              /\ UNCHANGED subscriber
           \/ /\ p.type = "PUBLISH" /\ p.qos = 2
              /\ got' = IF p.id \in subscriber THEN got ELSE got \cup {p.msg}
              /\ subscriber' = subscriber \cup {p.id}
              /\ answer("PUBREC")
           \/ /\ p.type = "PUBLISH" /\ p.qos = 2
              /\ Rejects /\ p.id \notin subscriber
              /\ got' = got \cup {p.msg}
              /\ answer("PUBREC-ERROR")
              /\ UNCHANGED subscriber
           \/ /\ p.type = "PUBREL"
              /\ subscriber' = subscriber \ {p.id}
              /\ answer("PUBCOMP")
              /\ UNCHANGED got
        /\ UNCHANGED <<queue, limiter, poller, releasing, conn, conns, ghosts>>

\* Time passes for an element of the queue.
expire ==
    /\ \E i \in 1 .. Len(l) :
          /\ \/ LateAck
             \/ l[i].id = 0
             \/ conn = "offline" /\ l[i].id \notin subscriber
          /\ MQ!Expire(i)
    /\ UNCHANGED <<limiter, poller, releasing, network, client, ghosts>>

-----------------------------------------------------------------------------

Next ==
    \/ addMsgToQueueLocked
    \/ pollMessageHandler
    \/ readHandle
    \/ networkLost
    \/ serve
    \/ resume
    \/ subscriberReceives
    \/ expire

Spec == Init /\ [][Next]_vars

\* The goroutines are scheduled, the subscriber keeps reading and comes back
\* after a disconnect.  Nothing makes publishers publish, messages expire or
\* the network fail.
FairSpec ==
    /\ Spec
    /\ WF_vars(pollMessageHandler)
    /\ WF_vars(readHandle)
    /\ WF_vars(serve)
    /\ WF_vars(resume)
    /\ WF_vars(subscriberReceives)

-----------------------------------------------------------------------------
(* Properties. *)

Polling == pc \in {"poll", "read", "release"}
InflightIds == MQ!IdsInList
InflightPublishes == {i \in 1 .. Len(l) : l[i].id # 0 /\ l[i].kind = "publish"}

\* Queue and limiter agree although they are updated in separate critical
\* sections: an identifier is locked exactly while an inflight element carries
\* it, the poller holds it, or a handler is about to release it.  Nothing leaks
\* and nothing in use is handed out.
LimiterMatchesQueue ==
    Polling =>
        /\ InflightIds \subseteq lockedPid
        /\ lockedPid \subseteq InflightIds \cup PL!Held \cup {releasing}
        /\ InflightIds \cap PL!Held = {}

\* No two inflight elements share a packet identifier.
InflightIdsDistinct == MQ!IdsDistinct

\* "packetIDLimiter limit the generation of packet id to keep the number of
\* inflight messages always less or equal than receive maximum setting of the
\* client."
ReceiveMaximumRespected == Cardinality(InflightPublishes) <= limit

\* A QoS 1 or 2 message is in the queue, was reported as dropped, or has
\* reached the subscriber.
NoSilentLoss ==
    \A m \in owed :
        \/ \E i \in 1 .. Len(l) : l[i].msg = m
        \/ m \in dropped
        \/ m \in got

\* New messages are first written in the order they were published, each once.
FirstSentInOrder ==
    \A i, j \in 1 .. Len(firstSent) : i < j => firstSent[i] < firstSent[j]

\* The composition drives the limiter and the queue only the way their own
\* specifications allow, so what is shown of them alone holds here.
UsesLimiterProperly == PL!LimiterSpec
UsesQueueProperly == MQ!Spec

\* The session implements the abstract promise.
Abstract ==
    INSTANCE ReliableDelivery WITH
        pending  <- {l[i].msg : i \in {j \in 1 .. Len(l) : l[j].qos > 0}},
        got      <- got \cap owed,
        reported <- dropped \cap owed,
        sent     <- LET s == {firstSent[i] : i \in 1 .. Len(firstSent)} \cap owed
                    IN  IF s = {} THEN 0 ELSE MQ!Max(s)
KeepsPromise == Abstract!Spec

\* Every accepted message is eventually delivered or reported: no identifier
\* is lost, no goroutine waits for ever, and a reconnect resends.
EventuallySettled ==
    \A m \in 1 .. MaxMsgs : m \in owed ~> m \in got \cup dropped
=============================================================================
