----------------------------- MODULE PublishPath -----------------------------
(***************************************************************************)
(* SUBSCRIBE, UNSUBSCRIBE, PUBLISH and PUBREL in the gmqtt broker: the      *)
(* handlers of server/client.go, the delivery of server/server.go, the      *)
(* subscription tries, the retained messages, the store of unacknowledged   *)
(* QoS 2 packet ids and the inbound topic aliases.                          *)
(*                                                                         *)
(* Each client's readLoop handles its packets one after the other, and the  *)
(* clients' handlers run concurrently.  A handler is split where it leaves  *)
(* a lock and another handler can get in between: SUBSCRIBE stores the      *)
(* subscription, then reads the retained messages; PUBLISH stores the       *)
(* retained message, then walks the subscriptions under srv.mu, then adds   *)
(* to the queues.  The server itself publishes too (wills, the publish      *)
(* API): the process Server.                                                *)
(***************************************************************************)
EXTENDS TopicTrie

CONSTANTS
    Clients, Server,
    V5,               \* the clients that speak MQTT 5
    SubPackets,       \* <<client, subscription>> pairs the clients may ask for
    PubPackets,       \* [c, topic, alias, qos, retain, empty] the clients may send
    ServerPublishes,  \* [src, topic, qos]: wills and API messages
    HookResults,      \* outcomes of OnMsgArrived: "pass", "drop", "error"
    ServerTopicAliasMax,
    Overlap,          \* DeliveryMode: every matching subscription gets a copy
    MaxMsgs,          \* bound: messages published in a behaviour
    MaxChanges        \* bound: session and subscription operations in a behaviour

VARIABLES
    store,       \* srv.subscriptionsDB
    retained,    \* srv.retainedDB: topic -> the retained message
    session,     \* the clients with a session and a queue (srv.queueStore)
    online,      \* srv.clients
    unack,       \* unackStore: ids of QoS 2 messages not yet released
    aliases,     \* client.aliasMapper
    run,         \* the packet a client's readLoop is handling, and how far it is
    mu,          \* holder of srv.mu, or Nobody
    got,         \* messages added to the session's queue
    out,         \* publishing client: its QoS 2 message in flight
    acks,        \* acknowledgement on its way to the client
    msgs,        \* history of every message number: passes through delivery, and fate
    changes      \* session and subscription operations so far

vars == <<store, retained, session, online, unack, aliases, run, mu, got, out, acks, msgs,
          changes>>

Nobody == "nobody"
Idle   == [stage |-> "idle"]
Nothing == [phase |-> "none"]
Pid    == 1                                     \* the one packet id in use
NewMsg == [delivered |-> 0, done |-> FALSE, refused |-> FALSE]
Procs  == Clients \cup {Server}

Init ==
    /\ store = NewStore(Clients)
    /\ retained = <<>>
    /\ session = Clients /\ online = Clients    \* all have just connected
    /\ unack   = [c \in Clients |-> {}]
    /\ aliases = [c \in Clients |-> <<>>]
    /\ run     = [p \in Procs |-> Idle]
    /\ mu      = Nobody
    /\ got     = [c \in Clients |-> {}]
    /\ out     = [c \in Clients |-> Nothing]
    /\ acks    = [c \in Clients |-> {}]
    /\ msgs    = <<>>
    /\ changes = 0

\* One of the bounded operations.
Change == changes < MaxChanges /\ changes' = changes + 1

-----------------------------------------------------------------------------
(* Sessions (the registry has its own module; here: what it does to the     *)
(* subscriptions, the queue and the unack store).                           *)

Ready(c) == c \in online /\ run[c] = Idle

\* registerClient that resumes the session.
Resume(c) ==
    /\ Change
    /\ c \in session \ online /\ mu = Nobody
    /\ online' = online \cup {c}
    /\ aliases' = [aliases EXCEPT ![c] = <<>>]
    /\ UNCHANGED <<store, retained, session, unack, run, mu, got, out, acks, msgs>>

\* registerClient that starts a new session, removing the old one first.
NewSession(c) ==
    /\ Change
    /\ c \notin online /\ mu = Nobody
    /\ IF c \in session THEN store' \in UnsubscribeAllLocked(store, c)
                        ELSE UNCHANGED store
    /\ session' = session \cup {c}
    /\ online'  = online \cup {c}
    /\ unack'   = [unack EXCEPT ![c] = {}]
    /\ aliases' = [aliases EXCEPT ![c] = <<>>]
    /\ got'     = [got EXCEPT ![c] = {}]
    /\ out'     = [out EXCEPT ![c] = Nothing]   \* the client sees Session Present = 0
    /\ UNCHANGED <<retained, run, mu, acks, msgs>>

\* The connection ends between two packets; what was under way to the client is lost.
GoOffline(c) ==
    /\ online' = online \ {c}
    /\ acks'   = [acks EXCEPT ![c] = {}]
    /\ out'    = [out EXCEPT ![c] = IF @ = Nothing THEN @ ELSE [@ EXCEPT !.sent = FALSE]]

Disconnect(c) ==
    /\ Change
    /\ Ready(c) /\ mu = Nobody
    /\ GoOffline(c)
    /\ UNCHANGED <<store, retained, session, unack, aliases, run, mu, got, msgs>>

\* removeSessionLocked of an offline client whose session has expired.
EndSession(c) ==
    /\ Change
    /\ c \in session \ online /\ mu = Nobody
    /\ store' \in UnsubscribeAllLocked(store, c)
    /\ session' = session \ {c}
    /\ got' = [got EXCEPT ![c] = {}]
    /\ UNCHANGED <<retained, online, unack, aliases, run, mu, out, acks, msgs>>

-----------------------------------------------------------------------------
(* subscribeHandler and unsubscribeHandler, one topic of a packet.          *)

subscribeHandler(c, s) ==
    /\ Change
    /\ Ready(c)
    /\ store' = SubscribeLocked(store, c, s)
    /\ run' = [run EXCEPT ![c] =
                 [stage |-> "retained", sub |-> s,
                  existed |-> AlreadyExisted(store, c, s.share, s.filter)]]
    /\ UNCHANGED <<retained, session, online, unack, aliases, mu, got, out, acks, msgs>>

\* Whether a subscription is sent the retained messages.
WantsRetained(c, s, existed) ==
    /\ ~(c \in V5 /\ s.share # NoShare)
    /\ (~existed /\ s.rh # 2) \/ s.rh = 0

readRetained(c) ==
    /\ run[c].stage = "retained"
    /\ got' = [got EXCEPT ![c] = @ \cup
                 IF WantsRetained(c, run[c].sub, run[c].existed)
                 THEN {m.n : m \in GetMatchedMessages(retained, run[c].sub.filter)} ELSE {}]
    /\ run' = [run EXCEPT ![c] = Idle]
    /\ UNCHANGED <<store, retained, session, online, unack, aliases, mu, out, acks, msgs, changes>>

unsubscribeHandler(c, s) ==
    /\ Change
    /\ Ready(c)
    /\ store' = UnsubscribeLocked(store, c, s.share, s.filter)
    /\ UNCHANGED <<retained, session, online, unack, aliases, run, mu, got, out, acks, msgs>>

-----------------------------------------------------------------------------
(* publishHandler                                                          *)

\* The topic a PUBLISH means, given the aliases of its connection.
TopicOf(c, p) == IF p.topic = <<>> THEN aliases[c][p.alias] ELSE p.topic

BadAlias(c, p) ==
    /\ p.alias # 0 /\ c \in V5
    /\ p.alias >= ServerTopicAliasMax \/ (p.topic = <<>> /\ p.alias \notin DOMAIN aliases[c])

\* An invalid alias is an error, which closes the connection.
publishRefused(c, p) ==
    /\ Change
    /\ Ready(c) /\ p.c = c /\ p.qos # 2 /\ mu = Nobody
    /\ BadAlias(c, p)
    /\ GoOffline(c)
    /\ UNCHANGED <<store, retained, session, unack, aliases, run, mu, got, msgs>>

\* The handler up to the retained store: alias, duplicate check, retained message.
\* An empty retained message removes by the topic NAME IN THE PACKET.
Arrive(c, p, n) ==
    LET topic == TopicOf(c, p)
    IN  /\ aliases' = IF p.alias # 0 /\ p.topic # <<>>
                      THEN [aliases EXCEPT ![c] = (p.alias :> p.topic) @@ @] ELSE aliases
        /\ unack' = IF p.qos = 2 THEN [unack EXCEPT ![c] = @ \cup {Pid}] ELSE unack
        /\ retained' = CASE ~p.retain -> retained
                         [] p.retain /\ p.empty  -> Without(retained, p.topic)
                         [] p.retain /\ ~p.empty ->
                              (topic :> [n |-> n, qos |-> p.qos]) @@ retained
        /\ run' = [run EXCEPT ![c] =
                     [stage |-> "arrived", src |-> c, topic |-> topic, qos |-> p.qos, n |-> n,
                      dup |-> p.qos = 2 /\ Pid \in unack[c]]]

publishHandler(c, p) ==
    /\ Ready(c) /\ p.c = c /\ ~BadAlias(c, p)
    /\ Len(msgs) < MaxMsgs
    /\ p.qos = 2 => out[c] = Nothing
    /\ Arrive(c, p, Len(msgs) + 1)
    /\ msgs' = Append(msgs, NewMsg)
    /\ out' = IF p.qos = 2 THEN [out EXCEPT ![c] = [phase |-> "pub", p |-> p,
                                                    n |-> Len(msgs) + 1, sent |-> TRUE]]
                           ELSE out
    /\ UNCHANGED <<store, session, online, mu, got, acks, changes>>

\* A client that reconnected without having its PUBREC sends its PUBLISH again.
publishAgain(c) ==
    /\ Ready(c) /\ out[c].phase = "pub" /\ ~out[c].sent
    /\ Arrive(c, out[c].p, out[c].n)
    /\ out' = [out EXCEPT ![c].sent = TRUE]
    /\ UNCHANGED <<store, session, online, mu, got, acks, msgs, changes>>

\* Mutant: the id leaves the unack store with every PUBREC.
AckedForgets(c, err) ==
    /\ run' = [run EXCEPT ![c] = Idle]
    /\ IF c = Server \/ run[c].qos # 2 THEN UNCHANGED <<unack, acks>>
       ELSE /\ acks'  = [acks EXCEPT ![c] = @ \cup {IF err THEN "pubrec_error" ELSE "pubrec"}]
            /\ unack' = [unack EXCEPT ![c] = @ \ {Pid}]

\* The acknowledgement that ends the handler: an error code of 0x80 or more (only
\* MQTT 5 has one) takes the id back out of the unack store.
Acked(c, err) ==
    /\ run' = [run EXCEPT ![c] = Idle]
    /\ IF c = Server \/ run[c].qos # 2 THEN UNCHANGED <<unack, acks>>
       ELSE /\ acks'  = [acks EXCEPT ![c] = @ \cup {IF err THEN "pubrec_error" ELSE "pubrec"}]
            /\ unack' = IF err THEN [unack EXCEPT ![c] = @ \ {Pid}] ELSE unack

\* A duplicate is not delivered; the hook OnMsgArrived may drop or refuse a message.
notDelivered(c) ==
    /\ c # Server /\ run[c].stage = "arrived"
    /\ \/ run[c].dup /\ Acked(c, FALSE) /\ UNCHANGED msgs
       \/ \E r \in HookResults \ {"pass"} :
            /\ ~run[c].dup
            /\ Acked(c, r = "error" /\ c \in V5)
            /\ msgs' = [msgs EXCEPT ![run[c].n].refused = TRUE]
    /\ UNCHANGED <<store, retained, session, online, aliases, mu, got, out, changes>>

\* publishService.Publish and sendWillLocked.
serverPublish(p) ==
    /\ run[Server] = Idle /\ Len(msgs) < MaxMsgs
    /\ run' = [run EXCEPT ![Server] = [stage |-> "arrived", src |-> p.src, topic |-> p.topic,
                                       qos |-> p.qos, n |-> Len(msgs) + 1, dup |-> FALSE]]
    /\ msgs' = Append(msgs, NewMsg)
    /\ UNCHANGED <<store, retained, session, online, unack, aliases, mu, got, out, acks, changes>>

-----------------------------------------------------------------------------
(* deliverMessage, under srv.mu.                                            *)

\* The subscriptions that take part: a no-local one skips its own messages.
Matched(src, topic) ==
    {x \in IterateLocked(store, topic) : ~(x[2].noLocal /\ x[1] = src)}

\* Mutant: every message is skipped for an offline client.
ReachesOnline(c, qos) == c \in session /\ c \in online

\* addMsgToQueueLocked reaches the queue, unless there is none, or the message has
\* QoS 0 and the client is offline.
Reaches(c, qos) == c \in session /\ (c \in online \/ qos # 0)

\* Iterate: overlap mode queues at once, otherwise the matches are collected.
iterate(p) ==
    /\ run[p].stage = "arrived" /\ ~run[p].dup
    /\ p = Server \/ "pass" \in HookResults
    /\ mu = Nobody /\ mu' = p
    /\ LET all == Matched(run[p].src, run[p].topic)
           now == {x[1] : x \in {x \in all : x[2].share = NoShare}}
       IN  /\ run' = [run EXCEPT ![p] = [@ EXCEPT !.stage = "flush"] @@
                        [shared |-> {x \in all : x[2].share # NoShare},
                         once   |-> IF Overlap THEN {} ELSE now]]
           /\ got' = [c \in Clients |->
                        IF Overlap /\ c \in now /\ Reaches(c, run[p].qos)
                        THEN got[c] \cup {run[p].n} ELSE got[c]]
    /\ UNCHANGED <<store, retained, session, online, unack, aliases, out, acks, msgs, changes>>

\* flush: one random member of every share group, and each collected client once.
flush(p) ==
    /\ run[p].stage = "flush"
    /\ LET groups == {<<x[2].share, x[2].filter>> : x \in run[p].shared}
           of(g)  == {x[1] : x \in {x \in run[p].shared : <<x[2].share, x[2].filter>> = g}}
       IN  \E pick \in [groups -> Clients] :
             /\ \A g \in groups : pick[g] \in of(g)
             /\ got' = [c \in Clients |->
                          IF /\ c \in run[p].once \cup {pick[g] : g \in groups}
                             /\ Reaches(c, run[p].qos)
                          THEN got[c] \cup {run[p].n} ELSE got[c]]
    /\ mu' = Nobody
    /\ msgs' = [msgs EXCEPT ![run[p].n].delivered = @ + 1]
    /\ Acked(p, FALSE)
    /\ UNCHANGED <<store, retained, session, online, aliases, out, changes>>

-----------------------------------------------------------------------------
(* The rest of the QoS 2 exchange.                                          *)

\* The client takes its PUBREC; an error ends the exchange.
gotPubrec(c) ==
    /\ out[c].phase = "pub" /\ acks[c] \cap {"pubrec", "pubrec_error"} # {}
    /\ IF "pubrec" \in acks[c] THEN out' = [out EXCEPT ![c].phase = "rel", ![c].sent = FALSE]
                               ELSE out' = [out EXCEPT ![c] = Nothing]
    /\ acks' = [acks EXCEPT ![c] = {}]
    /\ UNCHANGED <<store, retained, session, online, unack, aliases, run, mu, got, msgs, changes>>

pubrelHandler(c) ==
    /\ Ready(c) /\ out[c].phase = "rel" /\ ~out[c].sent
    /\ unack' = [unack EXCEPT ![c] = @ \ {Pid}]
    /\ acks'  = [acks EXCEPT ![c] = @ \cup {"pubcomp"}]
    /\ out'   = [out EXCEPT ![c].sent = TRUE]
    /\ UNCHANGED <<store, retained, session, online, aliases, run, mu, got, msgs, changes>>

\* The client takes its PUBCOMP: the packet id is free again.
gotPubcomp(c) ==
    /\ "pubcomp" \in acks[c] /\ out[c].phase = "rel"
    /\ msgs' = [msgs EXCEPT ![out[c].n].done = TRUE]
    /\ out'  = [out EXCEPT ![c] = Nothing]
    /\ acks' = [acks EXCEPT ![c] = {}]
    /\ UNCHANGED <<store, retained, session, online, unack, aliases, run, mu, got, changes>>

-----------------------------------------------------------------------------
Subscriptions == {x[2] : x \in SubPackets}

Next ==
    \/ \E c \in Clients :
         \/ Resume(c) \/ NewSession(c) \/ Disconnect(c) \/ EndSession(c)
         \/ \E s \in Subscriptions : /\ <<c, s>> \in SubPackets
                                     /\ subscribeHandler(c, s) \/ unsubscribeHandler(c, s)
         \/ readRetained(c)
         \/ \E p \in PubPackets : publishHandler(c, p) \/ publishRefused(c, p)
         \/ publishAgain(c) \/ notDelivered(c)
         \/ gotPubrec(c) \/ pubrelHandler(c) \/ gotPubcomp(c)
    \/ \E p \in ServerPublishes : serverPublish(p)
    \/ \E p \in Procs : iterate(p) \/ flush(p)

Spec == Init /\ [][Next]_vars

-----------------------------------------------------------------------------
(* Properties                                                              *)

\* A topic filter matches a topic name as MQTT defines it, without a trie.
FilterMatches(f, t) ==
    /\ \A i \in 1..Len(f) : f[i] # "#" => i <= Len(t) /\ f[i] \in {"+", t[i]}
    /\ Last(f) # "#" => Len(f) = Len(t)
    /\ isSystemTopic(t) => f[1] \notin {"+", "#"}

Topics == {p.topic : p \in PubPackets \cup ServerPublishes} \ {<<>>}

\* A publish meets the subscriptions whose filter matches its topic and no others,
\* whatever subscribe, unsubscribe and session ends did to the tries before: the walk of
\* matchTopic over the pruned tries agrees with the definition of matching.
MatchExact ==
    \A t \in Topics : IterateLocked(store, t) = {x \in Stored(store) : FilterMatches(x[2].filter, t)}

\* The three tries and their pointer indexes implement the store's interface: a call changes
\* the subscriptions it names and no others (pruning a node never takes another's with it).
Store == INSTANCE SubscriptionStore WITH subs <- Stored(store)
StoreKeepsPromise == Store!Spec

\* What the interface says of UnsubscribeAll ("removes all subscriptions of a specific
\* client"), seen from the others: a subscription a client still has in its index is still in
\* the trie, so that a publish can meet it.
SubscriptionsKept ==
    \A t \in Tries, c \in Clients : \A f \in DOMAIN store.index[t][c] :
        \E x \in Stored(store) : x[1] = c /\ x[2].filter = f

\* A subscription and a retained publish that run concurrently do not miss each other: once
\* both handlers are through, the subscriber's queue has been given the retained message now
\* stored, as a live message or as a retained one.
RetainedNotMissed ==
    \A x \in Stored(store), t \in DOMAIN retained :
        LET c == x[1]
            n == retained[t].n
        IN  /\ c \in session /\ run[c] = Idle
            /\ x[2].share = NoShare /\ ~x[2].noLocal /\ x[2].rh # 2
            /\ FilterMatches(x[2].filter, t)
            /\ ~msgs[n].refused
            /\ \A p \in Procs : run[p] = Idle \/ run[p].stage = "retained" \/ run[p].n # n
            => n \in got[c]

\* A QoS 2 message goes through delivery exactly once: never twice, however often it is sent
\* again after lost connections, and once when its exchange is complete and no hook refused it.
InboundExactlyOnce ==
    \A n \in 1..Len(msgs) :
        /\ msgs[n].delivered <= 1
        /\ msgs[n].done => msgs[n].delivered = 1 \/ msgs[n].refused
==============================================================================
