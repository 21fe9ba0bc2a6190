--------------------------- MODULE ClientTeardown ---------------------------
(***************************************************************************)
(* The goroutines of one client connection (gmqtt/server/client.go) from   *)
(* accept to internalClose: readLoop, writeLoop, serve (which also runs    *)
(* connectWithTimeOut), pollMessageHandler, readHandle, and "other", a     *)
(* goroutine of the server that takes the client over or closes it.  They  *)
(* meet in the channels in, out, close and connected, in errOnce and in    *)
(* the socket rwc.  The peer is external: it may send, stop reading and    *)
(* close at any time.                                                      *)
(***************************************************************************)
EXTENDS Naturals, Sequences, FiniteSets

CONSTANTS
    Versions,   \* subset of BOOLEAN: TRUE is MQTT 5
    InCap,      \* capacity of client.in (8)
    OutCap,     \* capacity of client.out (8)
    Kinds,      \* packets the peer sends after CONNECT
    MaxPackets, \* bound: packets the peer sends
    MaxMsgs     \* bound: messages pollMessageHandler has to write

ASSUME TeardownAssumption ==
    /\ Versions \subseteq BOOLEAN /\ Versions # {}
    /\ InCap \in Nat \ {0} /\ OutCap \in Nat \ {0}
    /\ Kinds \subseteq {"request", "bad", "overQuota", "disconnect"}
    /\ MaxPackets \in Nat /\ MaxMsgs \in Nat

VARIABLES
    v5,         \* client.version is MQTT 5
    in, inClosed, out,
    close,      \* client.close is closed
    connected,  \* client.connected is closed
    registered, \* the client is registered and IsConnected
    errOnce,    \* "idle", the goroutine inside, or "done"
    rwc,        \* "open" or "closed": our end of the socket
    peer,       \* "open", "stalled" (does not read) or "closed"
    stopped,    \* serve has closed the queue and the limiter
    closed,     \* client.closed is closed
    pc, err,    \* where each goroutine is, and its error
    hand,       \* the packet readLoop or writeLoop holds
    sentByPeer, msgs

channels == <<in, inClosed, out, close, connected>>
status == <<v5, registered, rwc, peer, stopped, closed, sentByPeer, msgs>>
vars == <<channels, status, errOnce, pc, err, hand>>

Goroutines == {"readLoop", "writeLoop", "serve", "pollMessageHandler", "readHandle", "other"}
OfClient == Goroutines \ {"serve", "other"}
Errors == {"nil", "plain", "code"}      \* no error, any error, a *codes.Error
Packets == {"connect", "refused"} \cup Kinds
Places == {"notStarted", "read", "send", "awaitConnected", "select", "write", "connect",
           "connack", "errConnack", "start", "readWait", "wgWait", "poll", "handle",
           "answer", "setError", "once", "closeClose", "return", "ended"}

TypeOK ==
    /\ v5 \in BOOLEAN /\ registered \in BOOLEAN /\ stopped \in BOOLEAN
    /\ inClosed \in BOOLEAN /\ close \in BOOLEAN /\ connected \in BOOLEAN
    /\ closed \in BOOLEAN
    /\ in \in Seq(Packets) /\ Len(in) <= InCap
    /\ out \in Seq({"packet", "disconnect"}) /\ Len(out) <= OutCap
    /\ errOnce \in Goroutines \cup {"idle", "done"}
    /\ rwc \in {"open", "closed"} /\ peer \in {"open", "stalled", "closed"}
    /\ pc \in [Goroutines -> Places] /\ err \in [Goroutines -> Errors]
    /\ hand["readLoop"] \in Packets \cup {"none"}
    /\ hand["writeLoop"] \in {"packet", "disconnect", "none"}
    /\ DOMAIN hand = {"readLoop", "writeLoop"}
    /\ sentByPeer \in 0 .. MaxPackets /\ msgs \in 0 .. MaxMsgs

Init ==
    /\ v5 \in Versions
    /\ in = <<>> /\ inClosed = FALSE /\ out = <<>>
    /\ close = FALSE /\ connected = FALSE /\ registered = FALSE
    /\ errOnce = "idle"
    /\ rwc = "open" /\ peer = "open"
    /\ stopped = FALSE /\ closed = FALSE
    /\ pc = [g \in Goroutines |->
               CASE g = "readLoop" -> "read"
                 [] g = "writeLoop" -> "select"
                 [] g = "serve" -> "connect"
                 [] OTHER -> "notStarted"]
    /\ err = [g \in Goroutines |-> "nil"]
    /\ hand = [g \in {"readLoop", "writeLoop"} |-> "none"]
    /\ sentByPeer = 0 /\ msgs = 0

Go(g, to) == pc' = [pc EXCEPT ![g] = to]
\* What is left to do after the deferred setError: nothing, for three of them.
After(g) == IF g \in {"readLoop", "serve", "other"} THEN "return" ELSE "ended"
Fail(g, e) == Go(g, "setError") /\ err' = [err EXCEPT ![g] = e]

-----------------------------------------------------------------------------
(* Shared: write and setError. *)

\* client.write: a select between close and room in out.
write(g, packet, to) ==
    /\ Go(g, to)
    /\ \/ close /\ UNCHANGED out
       \/ Len(out) < OutCap /\ out' = Append(out, packet)

\* errOnce.Do: the first caller runs the function, the others wait for it.
setErrorEnter(g) ==
    /\ pc[g] = "setError"
    /\ \/ errOnce = "idle" /\ errOnce' = g /\ Go(g, "once")
       \/ errOnce = "done" /\ UNCHANGED errOnce /\ Go(g, After(g))
    /\ UNCHANGED <<channels, status, err, hand>>

SendsDisconnect(g) == v5 /\ err[g] = "code" /\ registered

\* The function: an MQTT 5 client is sent a DISCONNECT, then close is closed.
setErrorWrite(g) ==
    /\ pc[g] = "once"
    /\ SendsDisconnect(g)
    /\ write(g, "disconnect", "closeClose")
    /\ UNCHANGED <<in, inClosed, close, connected, status, errOnce, err, hand>>

setErrorClose(g) ==
    /\ \/ pc[g] = "once" /\ ~SendsDisconnect(g)
       \/ pc[g] = "closeClose"
    /\ close' = TRUE
    /\ errOnce' = "done"
    /\ Go(g, After(g))
    /\ UNCHANGED <<in, inClosed, out, connected, status, err, hand>>

setError(g) == setErrorEnter(g) \/ setErrorWrite(g) \/ setErrorClose(g)

-----------------------------------------------------------------------------
(* readLoop. *)

\* ReadPacket returns a packet the peer has sent, CONNECT first.
readPacket ==
    /\ pc["readLoop"] = "read"
    /\ rwc = "open" /\ sentByPeer < MaxPackets
    /\ sentByPeer' = sentByPeer + 1
    /\ \E p \in IF sentByPeer = 0 THEN {"connect", "refused"} ELSE Kinds :
          IF v5 /\ p = "overQuota"
          THEN Fail("readLoop", "code") /\ UNCHANGED hand
          ELSE /\ Go("readLoop", "send")
               /\ hand' = [hand EXCEPT !["readLoop"] = p]
               /\ UNCHANGED err
    /\ UNCHANGED <<channels, v5, registered, rwc, peer, stopped, closed, msgs, errOnce>>

\* ReadPacket fails: our end is closed, or the peer's is and nothing is left to
\* read.
readError ==
    /\ pc["readLoop"] = "read"
    /\ \/ rwc = "closed" /\ Fail("readLoop", "plain")
       \/ rwc = "open" /\ peer = "closed" /\ Fail("readLoop", "nil")
    /\ UNCHANGED <<channels, status, errOnce, hand>>

\* The read deadline of a client that asked for a keep alive passes.
keepAliveTimeOut ==
    /\ pc["readLoop"] = "read"
    /\ rwc = "open" /\ registered
    /\ Fail("readLoop", "plain")
    /\ UNCHANGED <<channels, status, errOnce, hand>>

\* client.in <- packet is no select.
sendIn ==
    /\ pc["readLoop"] = "send"
    /\ Len(in) < InCap
    /\ in' = Append(in, hand["readLoop"])
    /\ Go("readLoop", "awaitConnected")
    /\ UNCHANGED <<inClosed, out, close, connected, status, errOnce, err, hand>>

awaitConnected ==
    /\ pc["readLoop"] = "awaitConnected"
    /\ connected
    /\ Go("readLoop", "read")
    /\ UNCHANGED <<channels, status, errOnce, err, hand>>

readLoopReturn ==
    /\ pc["readLoop"] = "return"
    /\ inClosed' = TRUE
    /\ Go("readLoop", "ended")
    /\ UNCHANGED <<in, out, close, connected, status, errOnce, err, hand>>

readLoop ==
    \/ readError \/ sendIn \/ awaitConnected \/ readLoopReturn
    \/ setError("readLoop")

-----------------------------------------------------------------------------
(* writeLoop. *)

writeSelect ==
    /\ pc["writeLoop"] = "select"
    /\ \/ /\ close
          /\ Fail("writeLoop", "nil")
          /\ UNCHANGED <<out, hand>>
       \/ /\ out # <<>>
          /\ out' = Tail(out)
          /\ hand' = [hand EXCEPT !["writeLoop"] = Head(out)]
          /\ Go("writeLoop", "write")
          /\ UNCHANGED err
    /\ UNCHANGED <<in, inClosed, close, connected, status, errOnce>>

\* writePacket waits while a peer that does not read keeps the socket open.
writePacket ==
    /\ pc["writeLoop"] = "write"
    /\ \/ /\ rwc = "open" /\ peer # "stalled"
          /\ IF hand["writeLoop"] = "disconnect"
             THEN rwc' = "closed" /\ Fail("writeLoop", "nil")
             ELSE UNCHANGED <<rwc, err>> /\ Go("writeLoop", "select")
       \/ /\ rwc = "closed" \/ peer = "closed"
          /\ Fail("writeLoop", "plain")
          /\ UNCHANGED rwc
    /\ UNCHANGED <<channels, v5, registered, peer, stopped, closed, sentByPeer, msgs, errOnce, hand>>

writeLoop ==
    \/ writeSelect \/ writePacket \/ setError("writeLoop")

-----------------------------------------------------------------------------
(* serve: connectWithTimeOut, then the wait for everybody. *)

\* connectWithTimeOut receives a packet: CONNECT registers the client, a
\* refused one or any other packet is answered with a CONNACK.
connectReceive ==
    /\ pc["serve"] = "connect"
    /\ in # <<>>
    /\ in' = Tail(in)
    /\ IF Head(in) = "connect"
       THEN registered' = TRUE /\ Go("serve", "connack")
       ELSE UNCHANGED registered /\ Go("serve", "errConnack")
    /\ UNCHANGED <<inClosed, out, close, connected, errOnce, err, hand>>
    /\ UNCHANGED <<v5, rwc, peer, stopped, closed, sentByPeer, msgs>>

\* client.in is closed and empty: p is nil, and the result is ok all the same.
connectInClosed ==
    /\ pc["serve"] = "connect"
    /\ in = <<>> /\ inClosed
    /\ Go("serve", "start")
    /\ UNCHANGED <<channels, status, errOnce, err, hand>>

connectTimeOut ==
    /\ pc["serve"] = "connect"
    /\ Fail("serve", "plain")
    /\ UNCHANGED <<channels, status, errOnce, hand>>

sendConnack ==
    /\ pc["serve"] = "connack"
    /\ write("serve", "packet", "start")
    /\ UNCHANGED <<in, inClosed, close, connected, status, errOnce, err, hand>>

\* sendErrConnack: out <- connack is no select.
sendErrConnack ==
    /\ pc["serve"] = "errConnack"
    /\ Len(out) < OutCap
    /\ out' = Append(out, "packet")
    /\ Fail("serve", "code")
    /\ UNCHANGED <<in, inClosed, close, connected, status, errOnce, hand>>

\* close(connected); on success the two handlers are started.
connectReturn ==
    /\ pc["serve"] \in {"start", "return"}
    /\ connected' = TRUE
    /\ pc' = IF pc["serve"] = "start"
             THEN [pc EXCEPT !["serve"] = "readWait", !["pollMessageHandler"] = "poll",
                             !["readHandle"] = "handle"]
             ELSE [pc EXCEPT !["serve"] = "readWait"]
    /\ UNCHANGED <<in, inClosed, out, close, status, errOnce, err, hand>>

\* Mutant: the queue and the limiter stay open.
serveStopForgotten ==
    /\ pc["serve"] = "readWait"
    /\ pc["readLoop"] = "ended"
    /\ Go("serve", "wgWait")
    /\ UNCHANGED <<channels, status, errOnce, err, hand>>

\* readWg.Wait, then the queue and the limiter are closed.
serveStop ==
    /\ pc["serve"] = "readWait"
    /\ pc["readLoop"] = "ended"
    /\ stopped' = TRUE
    /\ Go("serve", "wgWait")
    /\ UNCHANGED <<channels, v5, registered, rwc, peer, closed, sentByPeer, msgs, errOnce, err, hand>>

\* Mutant: client.wg is not waited for.
internalCloseEarly ==
    /\ pc["serve"] = "wgWait"
    /\ rwc' = "closed"
    /\ closed' = TRUE
    /\ Go("serve", "ended")
    /\ UNCHANGED <<channels, v5, registered, peer, stopped, sentByPeer, msgs, errOnce, err, hand>>

\* client.wg.Wait, rwc.Close and internalClose.
internalClose ==
    /\ pc["serve"] = "wgWait"
    /\ \A g \in OfClient : pc[g] \in {"notStarted", "ended"}
    /\ rwc' = "closed"
    /\ closed' = TRUE
    /\ Go("serve", "ended")
    /\ UNCHANGED <<channels, v5, registered, peer, stopped, sentByPeer, msgs, errOnce, err, hand>>

serve ==
    \/ connectReceive \/ connectInClosed \/ sendConnack \/ sendErrConnack
    \/ connectReturn \/ serveStop \/ internalClose
    \/ setError("serve")

-----------------------------------------------------------------------------
(* pollMessageHandler and readHandle. *)

\* A message to write; the queue is closed; or there is no queue, because the
\* client never connected, and the nil dereference is recovered.
poll ==
    /\ pc["pollMessageHandler"] = "poll"
    /\ \/ /\ registered /\ ~stopped /\ msgs < MaxMsgs
          /\ msgs' = msgs + 1
          /\ Go("pollMessageHandler", "write")
          /\ UNCHANGED err
       \/ /\ stopped \/ ~registered
          /\ \E e \in {"nil", "plain"} : Fail("pollMessageHandler", e)
          /\ UNCHANGED msgs
    /\ UNCHANGED <<channels, v5, registered, rwc, peer, stopped, closed, sentByPeer, errOnce, hand>>

pollWrite ==
    /\ pc["pollMessageHandler"] = "write"
    /\ write("pollMessageHandler", "packet", "poll")
    /\ UNCHANGED <<in, inClosed, close, connected, status, errOnce, err, hand>>

pollMessageHandler ==
    poll \/ pollWrite \/ setError("pollMessageHandler")

\* One packet of client.in.  A request is answered, a bad packet is an error
\* code, DISCONNECT ends the loop, and so does a closed channel.
handle ==
    /\ pc["readHandle"] = "handle"
    /\ \/ /\ in # <<>>
          /\ in' = Tail(in)
          /\ CASE Head(in) = "disconnect" -> Fail("readHandle", "nil")
               [] Head(in) = "bad" -> Fail("readHandle", "code")
               [] OTHER -> Go("readHandle", "answer") /\ UNCHANGED err
       \/ /\ in = <<>> /\ inClosed
          /\ Fail("readHandle", "nil")
          /\ UNCHANGED in
    /\ UNCHANGED <<inClosed, out, close, connected, status, errOnce, hand>>

answer ==
    /\ pc["readHandle"] = "answer"
    /\ write("readHandle", "packet", "handle")
    /\ UNCHANGED <<in, inClosed, close, connected, status, errOnce, err, hand>>

readHandle ==
    handle \/ answer \/ setError("readHandle")

-----------------------------------------------------------------------------
(* Another goroutine of the server, for a registered client. *)

\* lockDuplicatedID: setError(SessionTakenOver), then Close.  TerminateSession
\* and Stop: Close alone.
takeOver ==
    /\ pc["other"] = "notStarted" /\ registered
    /\ \/ Fail("other", "code")
       \/ Go("other", "return") /\ UNCHANGED err
    /\ UNCHANGED <<channels, status, errOnce, hand>>

\* Mutant: the socket stays open.
CloseForgotten ==
    /\ pc["other"] = "return"
    /\ Go("other", "ended")
    /\ UNCHANGED <<channels, status, errOnce, err, hand>>

Close ==
    /\ pc["other"] = "return"
    /\ rwc' = "closed"
    /\ Go("other", "ended")
    /\ UNCHANGED <<channels, v5, registered, peer, stopped, closed, sentByPeer, msgs, errOnce, err, hand>>

other == Close \/ setError("other")

-----------------------------------------------------------------------------
(* The peer: external. *)

peerStalls ==
    /\ peer = "open"
    /\ peer' = "stalled"
    /\ UNCHANGED <<channels, v5, registered, rwc, stopped, closed, sentByPeer, msgs, errOnce, pc, err, hand>>

\* The peer closes, or the network gives the connection up.
peerCloses ==
    /\ peer # "closed"
    /\ peer' = "closed"
    /\ UNCHANGED <<channels, v5, registered, rwc, stopped, closed, sentByPeer, msgs, errOnce, pc, err, hand>>

-----------------------------------------------------------------------------

Next ==
    \/ readPacket
    \/ keepAliveTimeOut
    \/ readLoop
    \/ writeLoop
    \/ serve
    \/ connectTimeOut
    \/ pollMessageHandler
    \/ readHandle
    \/ takeOver
    \/ other
    \/ peerStalls
    \/ peerCloses

Spec == Init /\ [][Next]_vars

\* Every goroutine that can run does, and the connect timer fires.  Nothing is
\* assumed of the peer: it need not send, read or close, and may have no keep
\* alive.
FairSpec ==
    /\ Spec
    /\ WF_vars(readLoop)
    /\ WF_vars(writeLoop)
    /\ WF_vars(serve)
    /\ WF_vars(connectTimeOut)
    /\ WF_vars(pollMessageHandler)
    /\ WF_vars(readHandle)
    /\ WF_vars(other)

-----------------------------------------------------------------------------
(* Properties. *)

\* Once the client is unregistered (client.closed) no goroutine of its own
\* can still touch the session's queue, so the next connection has it alone.
UnregisteredAlone ==
    closed => \A g \in OfClient : pc[g] \in {"notStarted", "ended"}

\* Taking a client over, or closing it, ends it, even when the peer has
\* stopped reading and never closes: lockDuplicatedID waits for that.
TakeOverEndsClient == pc["other"] # "notStarted" ~> closed

\* "server goroutine结束的条件:1客户端断开连接": serve ends when the client
\* disconnects.
DisconnectEndsServe == peer = "closed" ~> closed
=============================================================================
