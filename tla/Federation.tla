----------------------------- MODULE Federation ------------------------------
(***************************************************************************)
(* The federation plugin of gmqtt (plugin/federation): how one node tells   *)
(* another which topics it subscribes to and forwards messages to it.       *)
(*                                                                         *)
(* "Here" is the node that sends: its localSubStore, and the peer object    *)
(* that stands for the other node, with its event queue and the two loops   *)
(* of its stream.  "There" is the node that receives: its session for       *)
(* Here, the handler of the stream, and the topics it routes to Here        *)
(* (fedSubStore).  The other direction is the same with the names swapped.  *)
(*                                                                         *)
(* A hook changes the local store under one lock and queues the event under *)
(* another; the hooks of two clients, the peer's handshake and the two ends *)
(* of the stream interleave at those points.  Streams break, nodes restart  *)
(* or are taken for failed by serf.                                         *)
(***************************************************************************)
EXTENDS Integers, Sequences, FiniteSets, SequencesExt

CONSTANTS
    Clients, Topics,
    MsgKinds,          \* what messages match: sets of "ls", "rs", "rp" (see sendMessage)
    SeenSize,          \* size of the cache of seen events (100 in the code)
    BatchSize,         \* events fetched at once (100 in the code)
    BreakSeenBy,       \* who notices a broken stream first: "recv", "send"
    HelloReplyLost,    \* the answer to Hello may be lost
    MaxOps, MaxMsgs, MaxFaults   \* bounds

ASSUME FederationSizes ==
    SeenSize \in Nat \ {0} /\ BatchSize \in Nat \ {0} /\ IsFiniteSet(Topics)

VARIABLES
    index, topics,     \* localSubStore: topics of each client, reference counts
    hook,              \* event a client's hook has yet to queue
    peer,              \* the peer object for There, or NoPeer
    phase,             \* how far the peer's goroutine is
    batch,             \* events fetched by sendEvents and not yet sent
    up, down,          \* the stream: events on their way, acks on their way
    joined,            \* There has Here among its peers
    session,           \* There's session for Here, or NoSession
    inHand,            \* event the stream handler has applied and not yet acknowledged
    routes,            \* fedSubStore There: the topics routed to Here
    sharedSent,        \* round-robin counter of the shared topic
    applied,           \* history: ids of the events applied in There's session
    shareGot,          \* history: for each message, deliveries to its share group
    ops, sids, faults  \* bounded counters: hooks, session ids, faults

local  == <<index, topics, hook>>
there  == <<joined, session, inHand, routes, applied>>
stream == <<batch, up, down>>
counts == <<ops, sids, faults>>
vars == <<local, peer, phase, stream, there, sharedSent, shareGot, counts>>

None      == [none |-> TRUE]
NoPeer    == None
NoSession == None
Nil       == -1

-----------------------------------------------------------------------------
(* localSubStore                                                           *)

InitLocal == /\ index = [c \in Clients |-> {}]
             /\ topics = [t \in Topics |-> 0]
             /\ hook = [c \in Clients |-> <<>>]

Subscribed == {t \in Topics : topics[t] > 0}

\* Events a hook has yet to hand to the peers' queues, in order.
Pending(c) == hook[c] # <<>>

\* OnSubscribed, first half: subscribeLocked; only a new topic is broadcast.
OnSubscribed(c, t) ==
    /\ ops < MaxOps /\ ops' = ops + 1 /\ ~Pending(c)
    /\ t \notin index[c]
    /\ index'  = [index EXCEPT ![c] = @ \cup {t}]
    /\ topics' = [topics EXCEPT ![t] = @ + 1]
    /\ hook'   = [hook EXCEPT ![c] = IF topics[t] = 0 THEN <<[kind |-> "sub", t |-> t]>> ELSE @]
    /\ UNCHANGED <<peer, phase, stream, there, sharedSent, shareGot, sids, faults>>

\* Mutant: the reference count is compared before it is decreased.
OnUnsubscribedEarly(c, t) ==
    /\ ops < MaxOps /\ ops' = ops + 1 /\ ~Pending(c)
    /\ t \in index[c]
    /\ index'  = [index EXCEPT ![c] = @ \ {t}]
    /\ topics' = [topics EXCEPT ![t] = @ - 1]
    /\ hook'   = [hook EXCEPT ![c] = IF topics[t] = 0 THEN <<[kind |-> "unsub", t |-> t]>> ELSE @]
    /\ UNCHANGED <<peer, phase, stream, there, sharedSent, shareGot, sids, faults>>

\* OnUnsubscribed, first half: the last subscriber's topic is broadcast as removed.
OnUnsubscribed(c, t) ==
    /\ ops < MaxOps /\ ops' = ops + 1 /\ ~Pending(c)
    /\ t \in index[c]
    /\ index'  = [index EXCEPT ![c] = @ \ {t}]
    /\ topics' = [topics EXCEPT ![t] = @ - 1]
    /\ hook'   = [hook EXCEPT ![c] = IF topics[t] = 1 THEN <<[kind |-> "unsub", t |-> t]>> ELSE @]
    /\ UNCHANGED <<peer, phase, stream, there, sharedSent, shareGot, sids, faults>>

\* OnSessionTerminated, first half: unsubscribeAll.
OnSessionTerminated(c) ==
    /\ ops < MaxOps /\ ops' = ops + 1 /\ ~Pending(c)
    /\ index[c] # {}
    /\ index'  = [index EXCEPT ![c] = {}]
    /\ topics' = [t \in Topics |-> IF t \in index[c] THEN topics[t] - 1 ELSE topics[t]]
    /\ hook'   = [hook EXCEPT ![c] =
                    SetToSeq({[kind |-> "unsub", t |-> t] : t \in {t \in index[c] : topics[t] = 1}})]
    /\ UNCHANGED <<peer, phase, stream, there, sharedSent, shareGot, sids, faults>>

-----------------------------------------------------------------------------
(* eventQueue                                                              *)

newEventQueue == [q |-> <<>>, nextID |-> 0, nextRead |-> Nil]

\* add, for one event after the other.
addAll(q, es) ==
    [q        |-> q.q \o [i \in 1..Len(es) |-> [id |-> q.nextID + i - 1, e |-> es[i]]],
     nextID   |-> q.nextID + Len(es),
     nextRead |-> IF q.nextRead = Nil /\ es # <<>> THEN q.nextID ELSE q.nextRead]

add(q, e) == addAll(q, <<e>>)

\* An id that is not in the list leaves the read position where it is.
setReadPosition(q, id) ==
    IF \E i \in 1..Len(q.q) : q.q[i].id = id THEN [q EXCEPT !.nextRead = id] ELSE q

\* The ids grow along the list: the acknowledged events are at its front.
ack(q, id) ==
    LET n == CHOOSE n \in 0..Len(q.q) : \A i \in 1..Len(q.q) : q.q[i].id <= id <=> i <= n
    IN  [q EXCEPT !.q = SubSeq(@, n + 1, Len(@))]

\* fetchEvents: the next batch and the queue after it.
Fetched(q) ==
    LET first == CHOOSE i \in 1..Len(q.q) : q.q[i].id = q.nextRead
        last  == IF first + BatchSize <= Len(q.q) THEN first + BatchSize - 1 ELSE Len(q.q)
    IN  [events |-> SubSeq(q.q, first, last),
         queue  |-> [q EXCEPT !.nextRead = IF last < Len(q.q) THEN q.q[last + 1].id ELSE Nil]]

\* The second half of a hook, under memberMu: the events go to the queue of every peer.
Broadcast(c) ==
    /\ Pending(c)
    /\ hook' = [hook EXCEPT ![c] = <<>>]
    /\ peer' = IF peer = NoPeer THEN peer ELSE [peer EXCEPT !.queue = addAll(@, hook[c])]
    /\ UNCHANGED <<index, topics, phase, stream, there, sharedSent, shareGot, counts>>

\* Mutant: the share group's message goes to every node that has members.
sendMessageAll(kind) ==
    LET n == Len(shareGot) + 1
    IN  /\ n <= MaxMsgs
        /\ sharedSent' = sharedSent
        /\ shareGot' = Append(shareGot, IF "ls" \in kind THEN 1 ELSE 0)
        /\ peer' = IF peer = NoPeer THEN peer
                   ELSE [peer EXCEPT !.queue = add(@, [kind |-> "msg", n |-> n, rs |-> "rs" \in kind])]
        /\ UNCHANGED <<local, phase, stream, there, counts>>

\* sendMessage: kind tells which subscriptions the message matches: "ls" a shared one here,
\* "rs" the same share group there, "rp" a plain one there.  The share group's message goes
\* round robin to one of the nodes that have members; a plain match there sends it there too.
sendMessage(kind) ==
    LET n      == Len(shareGot) + 1
        nodes  == (IF "ls" \in kind THEN <<"here">> ELSE <<>>) \o
                  (IF "rs" \in kind THEN <<"there">> ELSE <<>>)
        chosen == IF nodes = <<>> THEN "nobody" ELSE nodes[(sharedSent % Len(nodes)) + 1]
        sent   == chosen = "there" \/ "rp" \in kind
    IN  /\ n <= MaxMsgs
        /\ sharedSent' = IF nodes = <<>> THEN sharedSent ELSE sharedSent + 1
        /\ shareGot' = Append(shareGot, IF chosen = "here" THEN 1 ELSE 0)
        /\ peer' = IF peer = NoPeer \/ ~sent THEN peer
                   ELSE [peer EXCEPT !.queue = add(@, [kind |-> "msg", n |-> n, rs |-> "rs" \in kind])]
        /\ UNCHANGED <<local, phase, stream, there, counts>>

-----------------------------------------------------------------------------
(* peer: handshake and stream, on the sending node.                         *)

\* nodeJoin here: a peer with a session id of its own.
nodeJoinHere ==
    /\ peer = NoPeer /\ phase = "none"
    /\ sids' = sids + 1
    /\ peer' = [sid |-> sids', queue |-> newEventQueue, reply |-> None]
    /\ phase' = "connect"
    /\ UNCHANGED <<local, stream, there, sharedSent, shareGot, ops, faults>>

\* Hello there: a session that is new, or has another id, starts clean.
Hello ==
    /\ phase = "connect" /\ joined
    /\ LET clean == session = NoSession \/ session.sid # peer.sid
       IN  /\ session' = IF clean THEN [sid |-> peer.sid, next |-> 0, seen |-> <<>>] ELSE session
           /\ routes'  = IF clean THEN {} ELSE routes
           /\ applied' = IF clean THEN <<>> ELSE applied
           /\ \/ /\ peer' = [peer EXCEPT !.reply = [clean |-> clean, next |-> session'.next]]
                 /\ phase' = "hello"
                 /\ UNCHANGED faults
              \/ /\ HelloReplyLost /\ faults < MaxFaults /\ faults' = faults + 1
                 /\ UNCHANGED <<peer, phase>>
    /\ UNCHANGED <<local, stream, joined, inHand, sharedSent, shareGot, ops, sids>>

\* initStream with CleanStart: the queue is emptied ...
initStreamClear ==
    /\ phase = "hello" /\ peer.reply.clean
    /\ peer' = [peer EXCEPT !.queue = newEventQueue]
    /\ phase' = "cleared"
    /\ UNCHANGED <<local, stream, there, sharedSent, shareGot, counts>>

\* ... and then gets the whole of localSubStore, under its lock.
initStreamSync ==
    /\ phase = "cleared"
    /\ peer' = [peer EXCEPT !.queue =
                  addAll(@, SetToSeq({[kind |-> "sub", t |-> t] : t \in Subscribed}))]
    /\ phase' = "synced"
    /\ UNCHANGED <<local, stream, there, sharedSent, shareGot, counts>>

\* The stream opens at the event There expects next.
initStreamOpen ==
    /\ phase = "synced" \/ (phase = "hello" /\ ~peer.reply.clean)
    /\ session # NoSession /\ inHand = None
    /\ peer' = [peer EXCEPT !.queue = setReadPosition(@, peer.reply.next)]
    /\ phase' = "stream"
    /\ batch' = <<>> /\ up' = <<>> /\ down' = <<>>
    /\ UNCHANGED <<local, there, sharedSent, shareGot, counts>>

\* The stream cannot open because There has lost the session meanwhile.
initStreamFails ==
    /\ phase \in {"hello", "cleared", "synced"} /\ session = NoSession
    /\ phase' = "connect"
    /\ UNCHANGED <<local, peer, stream, there, sharedSent, shareGot, counts>>

\* sendEvents: fetchEvents, then one Send after the other.
fetchEvents ==
    /\ phase = "stream" /\ batch = <<>>
    /\ peer.queue.q # <<>> /\ peer.queue.nextRead # Nil
    /\ batch' = Fetched(peer.queue).events
    /\ peer'  = [peer EXCEPT !.queue = Fetched(@).queue]
    /\ UNCHANGED <<local, phase, up, down, there, sharedSent, shareGot, counts>>

send ==
    /\ phase = "stream" /\ batch # <<>>
    /\ up' = Append(up, Head(batch))
    /\ batch' = Tail(batch)
    /\ UNCHANGED <<local, peer, phase, down, there, sharedSent, shareGot, counts>>

\* readLoop
recvAck ==
    /\ phase = "stream" /\ down # <<>>
    /\ peer' = [peer EXCEPT !.queue = ack(@, Head(down))]
    /\ down' = Tail(down)
    /\ UNCHANGED <<local, phase, batch, up, there, sharedSent, shareGot, counts>>

-----------------------------------------------------------------------------
(* The receiving node.                                                      *)

\* Mutant: the cache of seen events stays empty.
SeenNothing(seen, id) == seen

\* lruCache.set
Seen(seen, id) ==
    IF Len(seen) = SeenSize THEN Append(Tail(seen), id) ELSE Append(seen, id)

\* eventStreamHandler: apply the event unless it has been seen.  A message is published to
\* every matching subscription of this node, its shared ones included.
eventStreamHandler ==
    /\ up # <<>> /\ inHand = None /\ session # NoSession
    /\ LET x == Head(up)
       IN  /\ up' = Tail(up)
           /\ inHand' = [id |-> x.id]
           /\ IF Contains(session.seen, x.id)
              THEN UNCHANGED <<session, routes, applied, shareGot>>
              ELSE /\ session' = [session EXCEPT !.seen = Seen(@, x.id)]
                   /\ applied' = Append(applied, x.id)
                   /\ routes' = CASE x.e.kind = "sub"   -> routes \cup {x.e.t}
                                  [] x.e.kind = "unsub" -> routes \ {x.e.t}
                                  [] x.e.kind = "msg"   -> routes
                   /\ shareGot' = IF x.e.kind = "msg" /\ x.e.rs
                                  THEN [shareGot EXCEPT ![x.e.n] = @ + 1] ELSE shareGot
    /\ UNCHANGED <<local, peer, phase, batch, down, joined, sharedSent, counts>>

\* EventStream: the ack is sent, then the next expected id is recorded.
ackSent ==
    /\ inHand # None /\ session # NoSession
    /\ down' = IF phase = "stream" THEN Append(down, inHand.id) ELSE down
    /\ session' = [session EXCEPT !.next = inHand.id + 1]
    /\ inHand' = None
    /\ UNCHANGED <<local, peer, phase, batch, up, joined, routes, applied, sharedSent, shareGot, counts>>

-----------------------------------------------------------------------------
(* Faults, each counted.                                                    *)

Fault == faults < MaxFaults /\ faults' = faults + 1

\* What a broken stream leaves on either side.
Broken == batch' = <<>> /\ up' = <<>> /\ down' = <<>>

\* Mutant: the peer's goroutine ends with its stream.
streamBreaksForGood ==
    /\ Fault /\ phase = "stream"
    /\ Broken
    /\ inHand' = None
    /\ phase' = "ended"
    /\ UNCHANGED <<local, peer, joined, session, routes, applied, sharedSent, shareGot, ops, sids>>

\* The stream breaks.  readLoop reports the error and the peer reconnects; when Send is the
\* first to fail, its error is lost (the inner err shadows the outer) and the goroutine ends.
streamBreaks ==
    /\ Fault /\ phase = "stream"
    /\ Broken
    /\ inHand' = None
    /\ \E who \in BreakSeenBy : phase' = IF who = "recv" THEN "connect" ELSE "ended"
    /\ UNCHANGED <<local, peer, joined, session, routes, applied, sharedSent, shareGot, ops, sids>>

\* nodeFail here: the peer is stopped and forgotten, a later join makes a new one.
nodeFailHere ==
    /\ Fault /\ peer # NoPeer
    /\ peer' = NoPeer /\ phase' = "none"
    /\ Broken /\ inHand' = None
    /\ UNCHANGED <<local, joined, session, routes, applied, sharedSent, shareGot, ops, sids>>

\* nodeFail there: the session and the routes of Here go, the stream is closed.
nodeFailThere ==
    /\ Fault /\ joined
    /\ joined' = FALSE
    /\ session' = NoSession /\ routes' = {} /\ applied' = <<>> /\ inHand' = None
    /\ Broken
    /\ phase' = IF phase = "stream" THEN "connect" ELSE phase
    /\ UNCHANGED <<local, peer, sharedSent, shareGot, ops, sids>>

nodeJoinThere ==
    /\ ~joined /\ joined' = TRUE
    /\ UNCHANGED <<local, peer, phase, stream, session, inHand, routes, applied,
                   sharedSent, shareGot, counts>>

\* Here restarts: its sessions are in memory, so its subscriptions go with it.
restartHere ==
    /\ Fault
    /\ index' = [c \in Clients |-> {}] /\ topics' = [t \in Topics |-> 0]
    /\ hook' = [c \in Clients |-> <<>>]
    /\ peer' = NoPeer /\ phase' = "none"
    /\ sharedSent' = 0
    /\ Broken /\ inHand' = None
    /\ UNCHANGED <<joined, session, routes, applied, shareGot, ops, sids>>

Init ==
    /\ InitLocal
    /\ peer = NoPeer /\ phase = "none"
    /\ batch = <<>> /\ up = <<>> /\ down = <<>>
    /\ joined = FALSE /\ session = NoSession /\ inHand = None /\ routes = {} /\ applied = <<>>
    /\ sharedSent = 0 /\ shareGot = <<>>
    /\ ops = 0 /\ sids = 0 /\ faults = 0

Work ==
    \/ \E c \in Clients : Broadcast(c)
    \/ nodeJoinHere \/ nodeJoinThere
    \/ Hello \/ initStreamClear \/ initStreamSync \/ initStreamOpen \/ initStreamFails
    \/ fetchEvents \/ send \/ recvAck \/ eventStreamHandler \/ ackSent

Faults == streamBreaks \/ nodeFailHere \/ nodeFailThere \/ restartHere

Next ==
    \/ \E c \in Clients : \/ \E t \in Topics : OnSubscribed(c, t) \/ OnUnsubscribed(c, t)
                          \/ OnSessionTerminated(c)
    \/ \E kind \in MsgKinds : sendMessage(kind)
    \/ Work
    \/ Faults

Spec == Init /\ [][Next]_vars

\* The goroutines and RPC handlers go on while they have something to do.
Fairness ==
    /\ \A c \in Clients : WF_vars(Broadcast(c))
    /\ WF_vars(nodeJoinHere) /\ WF_vars(nodeJoinThere)
    /\ WF_vars(Hello) /\ WF_vars(initStreamClear) /\ WF_vars(initStreamSync)
    /\ WF_vars(initStreamOpen) /\ WF_vars(initStreamFails)
    /\ WF_vars(fetchEvents) /\ WF_vars(send) /\ WF_vars(recvAck)
    /\ WF_vars(eventStreamHandler) /\ WF_vars(ackSent)
FairSpec == Spec /\ Fairness

-----------------------------------------------------------------------------
(* Properties                                                              *)

\* Within a session There applies every event exactly once and in the order they were queued,
\* through broken streams, resent batches and lost acks: ids 0, 1, 2, ... without gap or repeat.
EventsInOrder == \A i \in 1..Len(applied) : applied[i] = i - 1

\* Nothing is under way between the two nodes.
Quiet ==
    /\ phase = "stream" /\ batch = <<>> /\ up = <<>> /\ inHand = None
    /\ peer.queue.nextRead = Nil
    /\ \A c \in Clients : ~Pending(c)

\* "only unsubscribe topic if there is no local subscriber anymore": once all events are
\* through, There routes to Here exactly the topics that have a subscriber here.
RoutesMatch == Quiet => routes = Subscribed

\* The routes there come to agree with the subscriptions here and stay so, once the operations
\* and faults (both bounded) are over: every peer reconnects, resynchronises and drains.
EventuallyRouted == <>[](routes = Subscribed)

\* "we should either only send the message to local subscriber or only send the message to one
\* node": a share group that spans the nodes is given a message once.
SharedOnce == \A n \in 1..Len(shareGot) : shareGot[n] <= 1
==============================================================================
