-------------------------- MODULE ConnectionProofs --------------------------
(***************************************************************************)
(* One connection of a client.                                             *)
(*                                                                         *)
(* Its goroutines (ClientTeardown), for every channel capacity and any     *)
(* number of packets and messages: a client that is unregistered has no    *)
(* goroutine left, and no channel is closed twice or sent to after it was  *)
(* closed.                                                                 *)
(*                                                                         *)
(* The packet identifier limiter that two of them share (PacketIDLimiter), *)
(* for every number of identifiers, every set of limits and every batch    *)
(* size: its counter agrees with its bitmap, its search ends, and the      *)
(* poller does not sleep while there is room.                              *)
(***************************************************************************)
EXTENDS ClientTeardown, PacketIDLimiter, FiniteSetTheorems, TLAPS

\* A goroutine inside errOnce.Do is the one it was entered by, and close is
\* closed by nobody else.
OnceHeld ==
    /\ \A g \in Goroutines : pc[g] \in {"once", "closeClose"} => errOnce = g
    /\ close => errOnce = "done"

\* connected is closed, and the handlers started, by connectReturn alone.
ConnectedOnce ==
    /\ connected => pc["serve"] \in {"readWait", "wgWait", "ended"}
    /\ \A g \in {"pollMessageHandler", "readHandle"} : pc[g] # "notStarted" => connected

\* in is closed by readLoop's return; closed by serve's.
ReturnedOnce ==
    /\ inClosed => pc["readLoop"] = "ended"
    /\ closed <=> pc["serve"] = "ended"

\* Where readLoop, which feeds in, can be.
ReadPlaces ==
    /\ pc["readLoop"] \in {"read", "send", "awaitConnected", "setError", "once",
                           "closeClose", "return", "ended"}
    /\ pc["readLoop"] = "send" => hand["readLoop"] \in Packets

Inv == TypeOK /\ OnceHeld /\ ConnectedOnce /\ ReturnedOnce /\ ReadPlaces /\ UnregisteredAlone

\* A closed channel is not closed again and in is not sent to: each would panic
\* (setError, readLoop, connectWithTimeOut and internalClose of client.go).
ChannelsClosedOnce ==
    /\ \A g \in Goroutines : pc[g] \in {"once", "closeClose"} => ~close
    /\ pc["serve"] \in {"start", "return"} => ~connected
    /\ pc["readLoop"] \in {"send", "return"} => ~inClosed
    /\ pc["serve"] = "wgWait" => ~closed

Rest == OnceHeld /\ ConnectedOnce /\ ReturnedOnce /\ UnregisteredAlone

-----------------------------------------------------------------------------
\* Initial states satisfy the invariant.
LEMMA InitInv == Init => Inv
<1> SUFFICES ASSUME Init PROVE Inv
  OBVIOUS
<1>1. TypeOK
  <2>1. pc \in [Goroutines -> Places] /\ err \in [Goroutines -> Errors]
    BY DEF Init, Places, Errors
  <2>2. in \in Seq(Packets) /\ Len(in) <= InCap
    BY TeardownAssumption DEF Init
  <2>3. out \in Seq({"packet", "disconnect"}) /\ Len(out) <= OutCap
    BY TeardownAssumption DEF Init
  <2>4. v5 \in BOOLEAN
    BY TeardownAssumption DEF Init
  <2>5. /\ registered \in BOOLEAN /\ stopped \in BOOLEAN /\ inClosed \in BOOLEAN
        /\ close \in BOOLEAN /\ connected \in BOOLEAN /\ closed \in BOOLEAN
    BY DEF Init
  <2>6. /\ hand["readLoop"] = "none" /\ hand["writeLoop"] = "none"
        /\ DOMAIN hand = {"readLoop", "writeLoop"}
    BY DEF Init
  <2>7. sentByPeer \in 0 .. MaxPackets /\ msgs \in 0 .. MaxMsgs
    BY TeardownAssumption DEF Init
  <2>8. errOnce = "idle" /\ rwc = "open" /\ peer = "open"
    BY DEF Init
  <2> QED BY <2>1, <2>2, <2>3, <2>4, <2>5, <2>6, <2>7, <2>8 DEF TypeOK
<1>2. Rest /\ ReadPlaces
  BY DEF Init, Rest, OnceHeld, ConnectedOnce, ReturnedOnce, ReadPlaces, UnregisteredAlone,
         Goroutines, OfClient
<1> QED BY <1>1, <1>2 DEF Inv, Rest

\* A goroutine that moves on without touching errOnce or closing a channel.
LEMMA Moves ==
    ASSUME Inv, NEW g \in Goroutines, NEW to \in Places, Go(g, to),
           pc[g] # "ended", pc[g] = "notStarted" => g = "other",
           to \notin {"once", "closeClose"}, to = "ended" => g # "serve",
           g = "serve" /\ connected => to \in {"readWait", "wgWait"},
           UNCHANGED <<errOnce, inClosed, close, connected, closed>>
    PROVE  Rest'
<1>1. /\ pc'[g] = to
      /\ \A h \in Goroutines : h # g => pc'[h] = pc[h]
  BY DEF Go, Inv, TypeOK
<1>2. OnceHeld'
  BY <1>1 DEF Inv, OnceHeld
<1>3. ConnectedOnce'
  BY <1>1 DEF Inv, ConnectedOnce, Goroutines
<1>4. ReturnedOnce'
  BY <1>1 DEF Inv, ReturnedOnce, Goroutines
<1>5. UnregisteredAlone'
  BY <1>1 DEF Inv, UnregisteredAlone, Goroutines, OfClient
<1> QED BY <1>2, <1>3, <1>4, <1>5 DEF Rest

\* setError of any goroutine.
LEMMA SetErrorInv ==
    ASSUME Inv, NEW g \in Goroutines, setError(g)
    PROVE  Inv'
<1> USE DEF channels, status
<1>1. After(g) \in {"return", "ended"} /\ (g \in {"readLoop", "serve"} => After(g) = "return")
  BY DEF After
<1>2. pc[g] \in {"setError", "once", "closeClose"}
  BY DEF setError, setErrorEnter, setErrorWrite, setErrorClose
<1>3. PICK to \in {"once", "closeClose", After(g)} : Go(g, to)
  BY DEF setError, setErrorEnter, setErrorWrite, setErrorClose, write
<1>4. /\ pc' \in [Goroutines -> Places] /\ pc'[g] = to
      /\ \A h \in Goroutines : h # g => pc'[h] = pc[h]
  BY <1>1, <1>3 DEF Go, Inv, TypeOK, Places
<1>5. UNCHANGED <<in, inClosed, connected, status, err, hand>>
  BY DEF setError, setErrorEnter, setErrorWrite, setErrorClose
<1>6. out' \in Seq({"packet", "disconnect"}) /\ Len(out') <= OutCap
  <2>1. out' = out \/ (Len(out) < OutCap /\ out' = Append(out, "disconnect"))
    BY DEF setError, setErrorEnter, setErrorWrite, setErrorClose, write
  <2> QED BY <2>1, TeardownAssumption DEF Inv, TypeOK
<1>7. close' \in BOOLEAN /\ errOnce' \in Goroutines \cup {"idle", "done"}
  BY DEF setError, setErrorEnter, setErrorWrite, setErrorClose, Inv, TypeOK
<1>8. TypeOK'
  BY <1>4, <1>5, <1>6, <1>7 DEF Inv, TypeOK
<1>9. OnceHeld'
  <2>1. CASE setErrorEnter(g) /\ errOnce = "idle" /\ errOnce' = g /\ Go(g, "once")
    BY <1>4, <2>1 DEF setErrorEnter, Go, Inv, TypeOK, OnceHeld, Goroutines
  <2>2. CASE setErrorEnter(g) /\ errOnce = "done" /\ UNCHANGED errOnce /\ Go(g, After(g))
    BY <1>4, <2>2 DEF setErrorEnter, Go, Inv, TypeOK, OnceHeld, After
  <2>3. CASE setErrorWrite(g)
    BY <1>4, <2>3 DEF setErrorWrite, write, Go, Inv, TypeOK, OnceHeld
  <2>4. CASE setErrorClose(g)
    BY <1>4, <2>4 DEF setErrorClose, Go, Inv, TypeOK, OnceHeld, After, Goroutines
  <2> QED BY <2>1, <2>2, <2>3, <2>4 DEF setError, setErrorEnter
<1>10. ConnectedOnce' /\ ReturnedOnce'
  BY <1>1, <1>2, <1>4, <1>5 DEF Inv, ConnectedOnce, ReturnedOnce, Goroutines
<1>11. ReadPlaces' /\ UnregisteredAlone'
  BY <1>1, <1>2, <1>3, <1>4, <1>5 DEF Inv, ReadPlaces, UnregisteredAlone, Goroutines, OfClient
<1> QED BY <1>8, <1>9, <1>10, <1>11 DEF Inv

\* A move with an error noted keeps the types of pc and err.
LEMMA GoType ==
    ASSUME TypeOK, NEW g \in Goroutines, NEW to \in Places, Go(g, to)
    PROVE  /\ pc' \in [Goroutines -> Places] /\ pc'[g] = to
           /\ \A h \in Goroutines : h # g => pc'[h] = pc[h]
BY DEF Go, TypeOK

\* A failure is a move to setError.
LEMMA FailType ==
    ASSUME TypeOK, NEW g \in Goroutines, NEW e \in Errors, Fail(g, e)
    PROVE  /\ pc' \in [Goroutines -> Places] /\ pc'[g] = "setError" /\ Go(g, "setError")
           /\ \A h \in Goroutines : h # g => pc'[h] = pc[h]
           /\ err' \in [Goroutines -> Errors]
BY DEF Fail, Go, TypeOK, Places

\* write fills out within its capacity, or nothing is written.
LEMMA WriteType ==
    ASSUME TypeOK, NEW g \in Goroutines, NEW to \in Places, write(g, "packet", to)
    PROVE  out' \in Seq({"packet", "disconnect"}) /\ Len(out') <= OutCap /\ Go(g, to)
<1>1. Go(g, to) /\ (out' = out \/ (Len(out) < OutCap /\ out' = Append(out, "packet")))
  BY DEF write
<1> QED BY <1>1, TeardownAssumption DEF TypeOK

\* The steps of readLoop.
LEMMA ReadLoopInv ==
    ASSUME Inv,
           readPacket \/ keepAliveTimeOut \/ readError \/ sendIn \/ awaitConnected \/ readLoopReturn
    PROVE  Inv'
<1> USE DEF channels, status
<1> DEFINE g == "readLoop"
<1>0. g \in Goroutines /\ TypeOK
  BY DEF Goroutines, Inv
<1>1. CASE readPacket
  <2>1. /\ pc[g] = "read"
        /\ sentByPeer < MaxPackets /\ sentByPeer' = sentByPeer + 1
        /\ UNCHANGED <<in, inClosed, out, close, connected, v5, registered, rwc, peer, stopped,
                       closed, msgs, errOnce>>
    BY <1>1 DEF readPacket
  <2>2. PICK p \in Packets :
          \/ Fail(g, "code") /\ UNCHANGED hand
          \/ Go(g, "send") /\ hand' = [hand EXCEPT ![g] = p] /\ UNCHANGED err
    BY <1>1 DEF readPacket, Packets
  <2>3. PICK to \in {"setError", "send"} : Go(g, to) /\ (to = "send" => hand'[g] \in Packets)
    BY <1>0, <2>2 DEF Fail, TypeOK
  <2>4. /\ err' \in [Goroutines -> Errors]
        /\ hand'[g] \in Packets \cup {"none"} /\ hand'["writeLoop"] = hand["writeLoop"]
        /\ DOMAIN hand' = {"readLoop", "writeLoop"}
    BY <1>0, <2>2 DEF Fail, Errors, TypeOK
  <2>5. to \in Places /\ pc' \in [Goroutines -> Places] /\ pc'[g] = to
    BY <1>0, <2>3, GoType DEF Places
  <2>6. sentByPeer' \in 0 .. MaxPackets
    BY <1>0, <2>1, TeardownAssumption DEF TypeOK
  <2>7. TypeOK'
    BY <1>0, <2>1, <2>4, <2>5, <2>6 DEF TypeOK
  <2>8. Rest'
    BY <1>0, <2>1, <2>3, <2>5, Moves
  <2>9. ReadPlaces'
    BY <2>3, <2>5 DEF ReadPlaces
  <2> QED BY <2>7, <2>8, <2>9 DEF Inv, Rest
<1>2. CASE keepAliveTimeOut \/ readError
  <2>1. PICK e \in Errors : Fail(g, e)
    BY <1>2 DEF keepAliveTimeOut, readError, Errors
  <2>2. pc[g] = "read" /\ UNCHANGED <<channels, status, errOnce, hand>>
    BY <1>2 DEF keepAliveTimeOut, readError
  <2>3. "setError" \in Places
    BY DEF Places
  <2>4. TypeOK'
    BY <1>0, <2>1, <2>2, FailType DEF TypeOK
  <2>5. Rest'
    BY <1>0, <2>1, <2>2, <2>3, FailType, Moves
  <2>6. ReadPlaces'
    BY <1>0, <2>1, FailType DEF ReadPlaces
  <2> QED BY <2>4, <2>5, <2>6 DEF Inv, Rest
<1>3. CASE sendIn
  <2>1. /\ pc[g] = "send" /\ Len(in) < InCap /\ in' = Append(in, hand[g])
        /\ Go(g, "awaitConnected")
        /\ UNCHANGED <<inClosed, out, close, connected, status, errOnce, err, hand>>
    BY <1>3 DEF sendIn
  <2>2. hand[g] \in Packets
    BY <2>1 DEF Inv, ReadPlaces
  <2>3. in' \in Seq(Packets) /\ Len(in') <= InCap
    BY <1>0, <2>1, <2>2, TeardownAssumption DEF TypeOK
  <2>4. "awaitConnected" \in Places
    BY DEF Places
  <2>5. TypeOK'
    BY <1>0, <2>1, <2>3, <2>4, GoType DEF TypeOK
  <2>6. Rest'
    BY <1>0, <2>1, <2>4, Moves
  <2>7. ReadPlaces'
    BY <1>0, <2>1, <2>4, GoType DEF ReadPlaces
  <2> QED BY <2>5, <2>6, <2>7 DEF Inv, Rest
<1>4. CASE awaitConnected
  <2>1. /\ pc[g] = "awaitConnected" /\ Go(g, "read")
        /\ UNCHANGED <<channels, status, errOnce, err, hand>>
    BY <1>4 DEF awaitConnected
  <2>2. "read" \in Places
    BY DEF Places
  <2>3. TypeOK'
    BY <1>0, <2>1, <2>2, GoType DEF TypeOK
  <2>4. Rest'
    BY <1>0, <2>1, <2>2, Moves
  <2>5. ReadPlaces'
    BY <1>0, <2>1, <2>2, GoType DEF ReadPlaces
  <2> QED BY <2>3, <2>4, <2>5 DEF Inv, Rest
<1>5. CASE readLoopReturn
  <2>1. /\ pc[g] = "return" /\ Go(g, "ended") /\ inClosed' = TRUE
        /\ UNCHANGED <<in, out, close, connected, status, errOnce, err, hand>>
    BY <1>5 DEF readLoopReturn
  <2>2. "ended" \in Places
    BY DEF Places
  <2>3. /\ pc' \in [Goroutines -> Places] /\ pc'[g] = "ended"
        /\ \A h \in Goroutines : h # g => pc'[h] = pc[h]
    BY <1>0, <2>1, <2>2, GoType
  <2>4. TypeOK'
    BY <1>0, <2>1, <2>3 DEF TypeOK
  <2>5. OnceHeld' /\ ConnectedOnce'
    BY <2>1, <2>3 DEF Inv, OnceHeld, ConnectedOnce, Goroutines
  <2>6. ReturnedOnce' /\ UnregisteredAlone' /\ ReadPlaces'
    BY <2>1, <2>3 DEF Inv, ReturnedOnce, UnregisteredAlone, ReadPlaces, Goroutines, OfClient
  <2> QED BY <2>4, <2>5, <2>6 DEF Inv
<1> QED BY <1>1, <1>2, <1>3, <1>4, <1>5

\* Moves, for any goroutine but readLoop.
LEMMA MovesInv ==
    ASSUME Inv, NEW g \in Goroutines \ {"readLoop"}, NEW to \in Places, Go(g, to),
           pc[g] # "ended", pc[g] = "notStarted" => g = "other",
           to \notin {"once", "closeClose"}, to = "ended" => g # "serve",
           g = "serve" /\ connected => to \in {"readWait", "wgWait"},
           UNCHANGED <<errOnce, inClosed, close, connected, closed>>,
           hand'["readLoop"] = hand["readLoop"], TypeOK'
    PROVE  Inv'
<1>1. Rest'
  BY Moves
<1>2. pc'["readLoop"] = pc["readLoop"]
  BY DEF Go, Inv, TypeOK, Goroutines
<1>3. ReadPlaces'
  BY <1>2 DEF Inv, ReadPlaces
<1> QED BY <1>1, <1>3 DEF Inv, Rest

\* Taking a packet out of a channel.
LEMMA TailType ==
    ASSUME NEW S, NEW q \in Seq(S), NEW n \in Nat, Len(q) <= n, q # <<>>
    PROVE  Tail(q) \in Seq(S) /\ Len(Tail(q)) <= n /\ Head(q) \in S
OBVIOUS

\* The steps of writeLoop.
LEMMA WriteLoopInv ==
    ASSUME Inv, writeSelect \/ writePacket
    PROVE  Inv'
<1> USE DEF channels, status
<1> DEFINE g == "writeLoop"
<1>0. /\ g \in Goroutines \ {"readLoop"} /\ TypeOK /\ {"setError", "write", "select"} \subseteq Places
      /\ {"nil", "plain"} \subseteq Errors
  BY DEF Goroutines, Inv, Places, Errors
<1>1. CASE writeSelect
  <2>1. pc[g] = "select" /\ UNCHANGED <<in, inClosed, close, connected, status, errOnce>>
    BY <1>1 DEF writeSelect
  <2>2. CASE Fail(g, "nil") /\ UNCHANGED <<out, hand>>
    <3>1. TypeOK'
      BY <1>0, <2>1, <2>2, FailType DEF TypeOK
    <3> QED BY <1>0, <2>1, <2>2, <3>1, FailType, MovesInv
  <2>3. CASE /\ out # <<>> /\ out' = Tail(out) /\ hand' = [hand EXCEPT ![g] = Head(out)]
             /\ Go(g, "write") /\ UNCHANGED err
    <3>1. /\ out' \in Seq({"packet", "disconnect"}) /\ Len(out') <= OutCap
          /\ Head(out) \in {"packet", "disconnect"}
      BY <1>0, <2>3, TailType, TeardownAssumption DEF TypeOK
    <3>2. /\ hand'["readLoop"] = hand["readLoop"] /\ hand'[g] = Head(out)
          /\ DOMAIN hand' = {"readLoop", "writeLoop"}
      BY <1>0, <2>3 DEF TypeOK
    <3>3. TypeOK'
      BY <1>0, <2>1, <2>3, <3>1, <3>2, GoType DEF TypeOK
    <3> QED BY <1>0, <2>1, <2>3, <3>2, <3>3, MovesInv
  <2> QED BY <1>1, <2>2, <2>3 DEF writeSelect
<1>2. CASE writePacket
  <2>1. /\ pc[g] = "write"
        /\ UNCHANGED <<channels, v5, registered, peer, stopped, closed, sentByPeer, msgs,
                       errOnce, hand>>
        /\ rwc' \in {"open", "closed"}
    BY <1>0, <1>2 DEF writePacket, TypeOK
  <2>2. CASE \E e \in Errors : Fail(g, e)
    <3>1. TypeOK'
      BY <1>0, <2>1, <2>2, FailType DEF TypeOK
    <3> QED BY <1>0, <2>1, <2>2, <3>1, FailType, MovesInv
  <2>3. CASE UNCHANGED err /\ Go(g, "select")
    <3>1. TypeOK'
      BY <1>0, <2>1, <2>3, GoType DEF TypeOK
    <3> QED BY <1>0, <2>1, <2>3, <3>1, MovesInv
  <2> QED BY <1>0, <1>2, <2>2, <2>3 DEF writePacket
<1> QED BY <1>1, <1>2

\* The steps of serve up to the start of the handlers.
LEMMA ConnectInv ==
    ASSUME Inv,
           \/ connectReceive \/ connectInClosed \/ connectTimeOut
           \/ sendConnack \/ sendErrConnack
    PROVE  Inv'
<1> USE DEF channels, status
<1> DEFINE g == "serve"
<1>0. /\ g \in Goroutines \ {"readLoop"} /\ TypeOK
      /\ {"setError", "connack", "errConnack", "start"} \subseteq Places
      /\ {"plain", "code"} \subseteq Errors
  BY DEF Goroutines, Inv, Places, Errors
<1>1. pc[g] \in {"connect", "connack", "errConnack"} /\ ~connected
  BY DEF connectReceive, connectInClosed, connectTimeOut, sendConnack, sendErrConnack,
         Inv, ConnectedOnce
<1>2. CASE connectReceive
  <2>1. PICK to \in {"connack", "errConnack"} : Go(g, to)
    BY <1>2 DEF connectReceive
  <2>2. in' \in Seq(Packets) /\ Len(in') <= InCap
    BY <1>0, <1>2, TailType, TeardownAssumption DEF connectReceive, TypeOK
  <2>3. registered' \in BOOLEAN
    BY <1>0, <1>2 DEF connectReceive, TypeOK
  <2>4. UNCHANGED <<inClosed, out, close, connected, errOnce, err, hand, v5, rwc, peer, stopped,
                    closed, sentByPeer, msgs>>
    BY <1>2 DEF connectReceive
  <2>5. TypeOK'
    BY <1>0, <2>1, <2>2, <2>3, <2>4, GoType DEF TypeOK
  <2> QED BY <1>0, <1>1, <2>1, <2>4, <2>5, MovesInv
<1>3. CASE connectInClosed
  <2>1. Go(g, "start") /\ UNCHANGED <<channels, status, errOnce, err, hand>>
    BY <1>3 DEF connectInClosed
  <2>2. TypeOK'
    BY <1>0, <2>1, GoType DEF TypeOK
  <2> QED BY <1>0, <1>1, <2>1, <2>2, MovesInv
<1>4. CASE connectTimeOut
  <2>1. Fail(g, "plain") /\ UNCHANGED <<channels, status, errOnce, hand>>
    BY <1>4 DEF connectTimeOut
  <2>2. TypeOK'
    BY <1>0, <2>1, FailType DEF TypeOK
  <2> QED BY <1>0, <1>1, <2>1, <2>2, FailType, MovesInv
<1>5. CASE sendConnack
  <2>1. /\ write(g, "packet", "start")
        /\ UNCHANGED <<in, inClosed, close, connected, status, errOnce, err, hand>>
    BY <1>5 DEF sendConnack
  <2>2. out' \in Seq({"packet", "disconnect"}) /\ Len(out') <= OutCap /\ Go(g, "start")
    BY <1>0, <2>1, WriteType
  <2>3. TypeOK'
    BY <1>0, <2>1, <2>2, GoType DEF TypeOK
  <2> QED BY <1>0, <1>1, <2>1, <2>2, <2>3, MovesInv
<1>6. CASE sendErrConnack
  <2>1. /\ Len(out) < OutCap /\ out' = Append(out, "packet") /\ Fail(g, "code")
        /\ UNCHANGED <<in, inClosed, close, connected, status, errOnce, hand>>
    BY <1>6 DEF sendErrConnack
  <2>2. out' \in Seq({"packet", "disconnect"}) /\ Len(out') <= OutCap
    BY <1>0, <2>1, TeardownAssumption DEF TypeOK
  <2>3. TypeOK'
    BY <1>0, <2>1, <2>2, FailType DEF TypeOK
  <2> QED BY <1>0, <1>1, <2>1, <2>3, FailType, MovesInv
<1> QED BY <1>2, <1>3, <1>4, <1>5, <1>6

\* The end of connectWithTimeOut, readWg.Wait, and internalClose.
LEMMA ServeInv ==
    ASSUME Inv, connectReturn \/ serveStop \/ internalClose
    PROVE  Inv'
<1> USE DEF channels, status
<1>0. /\ "serve" \in Goroutines \ {"readLoop"} /\ TypeOK
      /\ {"readWait", "wgWait", "ended", "poll", "handle"} \subseteq Places
  BY DEF Goroutines, Inv, Places
<1>1. CASE connectReturn
  <2>1. /\ pc["serve"] \in {"start", "return"} /\ connected' = TRUE
        /\ UNCHANGED <<in, inClosed, out, close, status, errOnce, err, hand>>
    BY <1>1 DEF connectReturn
  <2>2. /\ pc' \in [Goroutines -> Places] /\ pc'["serve"] = "readWait"
        /\ \A g \in Goroutines \ {"serve"} :
             \/ pc'[g] = pc[g]
             \/ g \in {"pollMessageHandler", "readHandle"} /\ pc'[g] \in {"poll", "handle"}
    BY <1>0, <1>1 DEF connectReturn, TypeOK, Goroutines
  <2>3. ~closed
    BY <2>1 DEF Inv, ReturnedOnce
  <2>4. TypeOK'
    BY <1>0, <2>1, <2>2 DEF TypeOK
  <2>5. OnceHeld' /\ ConnectedOnce'
    BY <2>1, <2>2 DEF Inv, OnceHeld, ConnectedOnce, Goroutines
  <2>6. ReturnedOnce' /\ UnregisteredAlone' /\ ReadPlaces'
    BY <2>1, <2>2, <2>3 DEF Inv, ReturnedOnce, UnregisteredAlone, ReadPlaces, Goroutines
  <2> QED BY <2>4, <2>5, <2>6 DEF Inv
<1>2. CASE serveStop
  <2>1. /\ pc["serve"] = "readWait" /\ Go("serve", "wgWait") /\ stopped' = TRUE
        /\ UNCHANGED <<channels, v5, registered, rwc, peer, closed, sentByPeer, msgs, errOnce,
                       err, hand>>
    BY <1>2 DEF serveStop
  <2>2. TypeOK'
    BY <1>0, <2>1, GoType DEF TypeOK
  <2> QED BY <1>0, <2>1, <2>2, MovesInv
<1>3. CASE internalClose
  <2>1. /\ pc["serve"] = "wgWait" /\ Go("serve", "ended") /\ rwc' = "closed" /\ closed' = TRUE
        /\ \A g \in OfClient : pc[g] \in {"notStarted", "ended"}
        /\ UNCHANGED <<channels, v5, registered, peer, stopped, sentByPeer, msgs, errOnce,
                       err, hand>>
    BY <1>3 DEF internalClose
  <2>2. /\ pc' \in [Goroutines -> Places] /\ pc'["serve"] = "ended"
        /\ \A g \in Goroutines \ {"serve"} : pc'[g] = pc[g]
    BY <1>0, <2>1, GoType
  <2>3. TypeOK'
    BY <1>0, <2>1, <2>2 DEF TypeOK
  <2>4. OnceHeld' /\ ConnectedOnce'
    BY <2>1, <2>2 DEF Inv, OnceHeld, ConnectedOnce, Goroutines
  <2>5. ReturnedOnce' /\ UnregisteredAlone' /\ ReadPlaces'
    BY <2>1, <2>2 DEF Inv, ReturnedOnce, UnregisteredAlone, ReadPlaces, Goroutines, OfClient
  <2> QED BY <2>3, <2>4, <2>5 DEF Inv
<1> QED BY <1>1, <1>2, <1>3

\* The steps of the two handlers.
LEMMA HandlerInv ==
    ASSUME Inv, poll \/ pollWrite \/ handle \/ answer
    PROVE  Inv'
<1> USE DEF channels, status
<1>0. /\ {"pollMessageHandler", "readHandle"} \subseteq Goroutines \ {"readLoop"} /\ TypeOK
      /\ {"setError", "write", "poll", "handle", "answer"} \subseteq Places
      /\ {"nil", "plain", "code"} \subseteq Errors
  BY DEF Goroutines, Inv, Places, Errors
<1>1. CASE poll
  <2> DEFINE g == "pollMessageHandler"
  <2>1. /\ pc[g] = "poll"
        /\ UNCHANGED <<channels, v5, registered, rwc, peer, stopped, closed, sentByPeer,
                       errOnce, hand>>
    BY <1>1 DEF poll
  <2>2. CASE msgs < MaxMsgs /\ msgs' = msgs + 1 /\ Go(g, "write") /\ UNCHANGED err
    <3>1. msgs' \in 0 .. MaxMsgs
      BY <1>0, <2>2, TeardownAssumption DEF TypeOK
    <3>2. TypeOK'
      BY <1>0, <2>1, <2>2, <3>1, GoType DEF TypeOK
    <3> QED BY <1>0, <2>1, <2>2, <3>2, MovesInv
  <2>3. CASE (\E e \in {"nil", "plain"} : Fail(g, e)) /\ UNCHANGED msgs
    <3>1. PICK e \in Errors : Fail(g, e)
      BY <1>0, <2>3
    <3>2. TypeOK'
      BY <1>0, <2>1, <2>3, <3>1, FailType DEF TypeOK
    <3> QED BY <1>0, <2>1, <3>1, <3>2, FailType, MovesInv
  <2> QED BY <1>1, <2>2, <2>3 DEF poll
<1>2. CASE pollWrite
  <2> DEFINE g == "pollMessageHandler"
  <2>1. /\ pc[g] = "write" /\ write(g, "packet", "poll")
        /\ UNCHANGED <<in, inClosed, close, connected, status, errOnce, err, hand>>
    BY <1>2 DEF pollWrite
  <2>2. out' \in Seq({"packet", "disconnect"}) /\ Len(out') <= OutCap /\ Go(g, "poll")
    BY <1>0, <2>1, WriteType
  <2>3. TypeOK'
    BY <1>0, <2>1, <2>2, GoType DEF TypeOK
  <2> QED BY <1>0, <2>1, <2>2, <2>3, MovesInv
<1>3. CASE handle
  <2> DEFINE g == "readHandle"
  <2>1. /\ pc[g] = "handle"
        /\ UNCHANGED <<inClosed, out, close, connected, status, errOnce, hand>>
    BY <1>3 DEF handle
  <2>2. in' \in Seq(Packets) /\ Len(in') <= InCap
    <3>1. in' = in \/ (in # <<>> /\ in' = Tail(in))
      BY <1>3 DEF handle
    <3>2. in \in Seq(Packets) /\ Len(in) <= InCap /\ InCap \in Nat
      BY <1>0, TeardownAssumption DEF TypeOK
    <3>3. in # <<>> => Tail(in) \in Seq(Packets) /\ Len(Tail(in)) <= InCap
      BY <3>2, TailType
    <3> QED BY <3>1, <3>2, <3>3, Zenon
  <2>3. (\E e \in Errors : Fail(g, e)) \/ (Go(g, "answer") /\ UNCHANGED err)
    BY <1>0, <1>3 DEF handle
  <2>4. CASE \E e \in Errors : Fail(g, e)
    <3>1. TypeOK'
      BY <1>0, <2>1, <2>2, <2>4, FailType DEF TypeOK
    <3> QED BY <1>0, <2>1, <2>4, <3>1, FailType, MovesInv
  <2>5. CASE Go(g, "answer") /\ UNCHANGED err
    <3>1. TypeOK'
      BY <1>0, <2>1, <2>2, <2>5, GoType DEF TypeOK
    <3> QED BY <1>0, <2>1, <2>5, <3>1, MovesInv
  <2> QED BY <2>3, <2>4, <2>5
<1>4. CASE answer
  <2> DEFINE g == "readHandle"
  <2>1. /\ pc[g] = "answer" /\ write(g, "packet", "handle")
        /\ UNCHANGED <<in, inClosed, close, connected, status, errOnce, err, hand>>
    BY <1>4 DEF answer
  <2>2. out' \in Seq({"packet", "disconnect"}) /\ Len(out') <= OutCap /\ Go(g, "handle")
    BY <1>0, <2>1, WriteType
  <2>3. TypeOK'
    BY <1>0, <2>1, <2>2, GoType DEF TypeOK
  <2> QED BY <1>0, <2>1, <2>2, <2>3, MovesInv
<1> QED BY <1>1, <1>2, <1>3, <1>4

\* The steps of the goroutine that takes the client over, and of the peer.
LEMMA OtherInv ==
    ASSUME Inv, takeOver \/ Close \/ peerStalls \/ peerCloses
    PROVE  Inv'
<1> USE DEF channels, status
<1> DEFINE g == "other"
<1>0. /\ g \in Goroutines \ {"readLoop"} /\ TypeOK
      /\ {"setError", "return", "ended"} \subseteq Places /\ "code" \in Errors
  BY DEF Goroutines, Inv, Places, Errors
<1>1. CASE takeOver
  <2>1. pc[g] = "notStarted" /\ UNCHANGED <<channels, status, errOnce, hand>>
    BY <1>1 DEF takeOver
  <2>2. CASE Fail(g, "code")
    <3>1. TypeOK'
      BY <1>0, <2>1, <2>2, FailType DEF TypeOK
    <3> QED BY <1>0, <2>1, <2>2, <3>1, FailType, MovesInv
  <2>3. CASE Go(g, "return") /\ UNCHANGED err
    <3>1. TypeOK'
      BY <1>0, <2>1, <2>3, GoType DEF TypeOK
    <3> QED BY <1>0, <2>1, <2>3, <3>1, MovesInv
  <2> QED BY <1>1, <2>2, <2>3 DEF takeOver
<1>2. CASE Close
  <2>1. /\ pc[g] = "return" /\ Go(g, "ended") /\ rwc' = "closed"
        /\ UNCHANGED <<channels, v5, registered, peer, stopped, closed, sentByPeer, msgs,
                       errOnce, err, hand>>
    BY <1>2 DEF Close
  <2>2. TypeOK'
    BY <1>0, <2>1, GoType DEF TypeOK
  <2> QED BY <1>0, <2>1, <2>2, MovesInv
<1>3. CASE peerStalls \/ peerCloses
  BY <1>3 DEF peerStalls, peerCloses, Inv, TypeOK, OnceHeld, ConnectedOnce, ReturnedOnce,
              ReadPlaces, UnregisteredAlone
<1> QED BY <1>1, <1>2, <1>3

\* Every step keeps the invariant.
LEMMA NextInv == Inv /\ [Next]_vars => Inv'
<1> SUFFICES ASSUME Inv, [Next]_vars PROVE Inv'
  OBVIOUS
<1>1. CASE UNCHANGED vars
  BY <1>1 DEF vars, channels, status, Inv, TypeOK, OnceHeld, ConnectedOnce, ReturnedOnce,
              ReadPlaces, UnregisteredAlone
<1>2. CASE \E g \in Goroutines : setError(g)
  BY <1>2, SetErrorInv
<1>3. CASE Next
  <2>1. {"readLoop", "writeLoop", "serve", "pollMessageHandler", "readHandle", "other"}
          \subseteq Goroutines
    BY DEF Goroutines
  <2> QED BY <1>2, <1>3, <2>1, ReadLoopInv, WriteLoopInv, ConnectInv, ServeInv, HandlerInv, OtherInv
       DEF Next, readLoop, writeLoop, serve, pollMessageHandler, readHandle, other
<1> QED BY <1>1, <1>3

\* The invariant holds in every state a connection reaches.
THEOREM Invariance == Spec => []Inv
<1>1. Init => Inv
  BY InitInv
<1>2. Inv /\ [Next]_vars => Inv'
  BY NextInv
<1> QED BY <1>1, <1>2, PTL DEF Spec

\* Every variable keeps its type and no channel exceeds its capacity.
THEOREM TypesCorrect == Spec => []TypeOK
<1>1. Inv => TypeOK
  BY DEF Inv
<1> QED BY <1>1, Invariance, PTL

\* Once client.closed is closed none of the client's own goroutines is left to
\* touch the session: the next connection has it alone (serve, internalClose).
THEOREM UnregisteredIsAlone == Spec => []UnregisteredAlone
<1>1. Inv => UnregisteredAlone
  BY DEF Inv
<1> QED BY <1>1, Invariance, PTL

\* No channel is closed twice and in is not sent to after it was closed: either
\* would panic (errOnce in setError, readLoop, connectWithTimeOut).
THEOREM NoChannelPanics == Spec => []ChannelsClosedOnce
<1>1. Inv => ChannelsClosedOnce
  BY DEF Inv, TypeOK, OnceHeld, ConnectedOnce, ReturnedOnce, ChannelsClosedOnce, Goroutines
<1> QED BY <1>1, Invariance, PTL

-----------------------------------------------------------------------------
(* The packet identifier limiter. *)

\* The inductive invariant.  TypeOK alone is not inductive: that used stays a
\* uint16 and never drops below zero follows from the bitmap, and that a batch
\* release decrements by the right amount from what the poller holds.
LimiterInv ==
    /\ LimiterTypeOK
    /\ UsedMatchesBitmap
    /\ HeldIsLocked
    /\ NoLostWakeup

-----------------------------------------------------------------------------
\* The bitmap is a finite set with at most MaxPacketID elements, and so is
\* every part of it.
LEMMA BitmapFinite ==
    ASSUME NEW S \in SUBSET Pids
    PROVE  /\ IsFiniteSet(S)
           /\ Cardinality(S) \in 0 .. MaxPacketID
  <1>1. MaxPacketID \in Nat
    BY LimiterAssumption
  <1>2. IsFiniteSet(Pids) /\ Cardinality(Pids) = MaxPacketID
    BY <1>1, FS_Interval, LimiterAssumption DEF Pids
  <1>3. IsFiniteSet(S) /\ Cardinality(S) <= MaxPacketID
    BY <1>2, FS_Subset
  <1>4. Cardinality(S) \in Nat
    BY <1>3, FS_CardinalityType
  <1> QED
    BY <1>1, <1>3, <1>4

\* The search of pollPacketIDs returns n different identifiers: a walk that
\* moves strictly forward cannot come back to one it has already taken.
LEMMA FirstFreeCounts ==
    ASSUME NEW n \in Nat, NEW s, IsFirstFree(s, n), freePid \in Pids
    PROVE  /\ {s[i] : i \in 1 .. n} \subseteq FreePids
           /\ \A i, j \in 1 .. n : i # j => s[i] # s[j]
           /\ Cardinality({s[i] : i \in 1 .. n}) = n
  <1> DEFINE R == {s[i] : i \in 1 .. n}
  <1>0. MaxPacketID \in Nat
    BY LimiterAssumption
  <1>1. s \in [1 .. n -> FreePids] /\ R \subseteq FreePids
    BY DEF IsFirstFree
  <1>2. \A i \in 1 .. n : Rank(s[i]) \in Int
    BY <1>0, <1>1 DEF Rank, FreePids, Pids
  <1>3. \A i, j \in 1 .. n : i # j => s[i] # s[j]
    <2> SUFFICES ASSUME NEW i \in 1 .. n, NEW j \in 1 .. n, i # j
                 PROVE  s[i] # s[j]
      OBVIOUS
    <2>1. CASE i < j
      <3>1. Rank(s[i]) < Rank(s[j])
        BY <2>1 DEF IsFirstFree
      <3> QED
        BY <3>1, <1>2
    <2>2. CASE j < i
      <3>1. Rank(s[j]) < Rank(s[i])
        BY <2>2 DEF IsFirstFree
      <3> QED
        BY <3>1, <1>2
    <2> QED
      BY <2>1, <2>2
  <1>4. s \in Bijection(1 .. n, R)
    <2>1. s \in [1 .. n -> R]
      BY <1>1
    <2>2. s \in Injection(1 .. n, R)
      BY <2>1, <1>3 DEF Injection, IsInjective
    <2>3. s \in Surjection(1 .. n, R)
      BY <2>1 DEF Surjection
    <2> QED
      BY <2>2, <2>3 DEF Bijection
  <1>5. Cardinality(R) = n
    BY <1>4, FS_CountingElements DEF ExistsBijection
  <1> QED
    BY <1>1, <1>3, <1>5

\* What PollSize computes while there is room: at least one identifier and
\* never more than the room left below the limit.
LEMMA PollSizeBounds ==
    ASSUME used \in Nat, limit \in Nat, used < limit
    PROVE  PollSize \in Nat /\ 1 <= PollSize /\ used + PollSize <= limit
  BY LimiterAssumption DEF PollSize

\* Clearing the bits of S and subtracting how many of them were set keeps the
\* counter and the bitmap together.
LEMMA ReleaseKeepsCount ==
    ASSUME NEW S, releaseLocked(S), lockedPid \subseteq Pids, UsedMatchesBitmap
    PROVE  /\ lockedPid' \subseteq Pids
           /\ used' = Cardinality(lockedPid')
           /\ used' \in 0 .. MaxPacketID
  <1>1. lockedPid' = lockedPid \ S /\ lockedPid' \in SUBSET Pids
    BY DEF releaseLocked
  <1>2. IsFiniteSet(lockedPid)
    BY BitmapFinite
  <1>3. Cardinality(lockedPid \ S) = Cardinality(lockedPid) - Cardinality(lockedPid \cap S)
    BY <1>2, FS_Difference
  <1>4. used' = Cardinality(lockedPid')
    BY <1>1, <1>3 DEF releaseLocked, UsedMatchesBitmap
  <1>5. Cardinality(lockedPid') \in 0 .. MaxPacketID
    BY <1>1, BitmapFinite
  <1> QED
    BY <1>1, <1>4, <1>5

\* A fresh connection's limiter satisfies the invariant.
LEMMA LimiterInitInv ==
    LimiterInit => LimiterInv
  <1> SUFFICES ASSUME LimiterInit PROVE LimiterInv
    OBVIOUS
  <1>1. LimiterTypeOK
    <2>1. exit \in BOOLEAN /\ waiting \in BOOLEAN
      BY Zenon DEF LimiterInit
    <2>2. used \in 0 .. MaxPacketID /\ freePid \in Pids /\ ids \in Seq(Pids)
      BY LimiterAssumption DEF LimiterInit, Pids
    <2>3. limit \in Limits /\ lockedPid \subseteq Pids /\ phase \in Phases
      BY DEF LimiterInit, Phases
    <2> QED
      BY <2>1, <2>2, <2>3, Zenon DEF LimiterTypeOK
  <1>2. UsedMatchesBitmap
    BY FS_EmptySet DEF LimiterInit, UsedMatchesBitmap
  <1>3. HeldIsLocked /\ NoLostWakeup
    BY DEF LimiterInit, HeldIsLocked, Held, NoLostWakeup
  <1> QED
    BY <1>1, <1>2, <1>3 DEF LimiterInv

-----------------------------------------------------------------------------
\* Every step keeps the invariant.
LEMMA LimiterStepInv ==
    LimiterInv /\ [LimiterNext]_pollerVars => LimiterInv'
  <1> SUFFICES ASSUME LimiterInv, [LimiterNext]_pollerVars
               PROVE  LimiterInv'
    OBVIOUS
  <1> USE DEF LimiterInv
  <1>t. /\ used \in Nat /\ limit \in Nat /\ limit \in 1 .. MaxPacketID
        /\ MaxPacketID \in Nat /\ used \in 0 .. MaxPacketID
        /\ lockedPid \in SUBSET Pids /\ ids \in Seq(Pids) /\ freePid \in Pids
        /\ limit \in Limits /\ phase \in Phases
    BY LimiterAssumption DEF LimiterTypeOK
  <1>b. exit \in BOOLEAN /\ waiting \in BOOLEAN
    BY Zenon DEF LimiterTypeOK
  <1>f. FALSE \in BOOLEAN /\ TRUE \in BOOLEAN
    BY Zenon
  <1>1. CASE Mark
    <2>1. PICK id \in FreePids : markUsedLocked(id)
      BY <1>1 DEF Mark
    <2>2. /\ lockedPid' = lockedPid \cup {id} /\ lockedPid' \in SUBSET Pids
          /\ used' = used + 1
      BY <1>t, <2>1 DEF markUsedLocked, FreePids
    <2>3. IsFiniteSet(lockedPid) /\ id \notin lockedPid
      BY <1>t, <2>1, BitmapFinite DEF FreePids
    <2>4. Cardinality(lockedPid') = Cardinality(lockedPid) + 1
      BY <2>2, <2>3, FS_AddElement
    <2>5. used' = Cardinality(lockedPid') /\ used' \in 0 .. MaxPacketID
      BY <2>2, <2>4, BitmapFinite DEF UsedMatchesBitmap
    <2>6. UNCHANGED <<limit, freePid, exit, waiting, ids, phase>>
      BY <1>1, <2>1 DEF Mark, markUsedLocked
    <2>7. LimiterTypeOK'
      BY <1>t, <1>b, <2>2, <2>5, <2>6, Zenon DEF LimiterTypeOK, Pids
    <2>8. HeldIsLocked'
      BY <2>2, <2>6 DEF HeldIsLocked, Held
    <2>9. NoLostWakeup'
      <3>1. SUFFICES ASSUME waiting' PROVE used' >= limit' /\ ~exit'
        BY DEF NoLostWakeup
      <3>2. waiting /\ (exit' <=> exit)
        BY <3>1, <2>6, Zenon
      <3>3. used >= limit /\ ~exit
        BY <3>2, Zenon DEF NoLostWakeup
      <3>4. used' >= limit'
        BY <3>3, <2>2, <2>6, <1>t
      <3> QED
        BY <3>2, <3>3, <3>4, Zenon
    <2> QED
      BY <2>5, <2>7, <2>8, <2>9 DEF UsedMatchesBitmap
  <1>2. CASE Drained
    <2>1. UNCHANGED limiterVars /\ phase' \in Phases
      BY <1>2 DEF Drained, Phases
    <2> QED
      BY <1>t, <1>b, <2>1 DEF limiterVars, LimiterTypeOK, Pids, UsedMatchesBitmap, HeldIsLocked, Held, NoLostWakeup
  <1>3. CASE Poll
    <2>1. CASE pollPacketIDs /\ phase' = "read"
      <3>1. used < limit /\ ~waiting /\ ~exit /\ UNCHANGED <<limit, exit, waiting>>
        BY <2>1 DEF pollPacketIDs
      <3>2. PollSize \in Nat /\ 1 <= PollSize /\ used + PollSize <= limit
        BY <1>t, <3>1, PollSizeBounds
      <3> DEFINE n == PollSize
      <3>3. PICK s \in [1 .. n -> FreePids] :
              /\ IsFirstFree(s, n)
              /\ ids' = s
              /\ used' = used + n
              /\ lockedPid' = lockedPid \cup {s[i] : i \in 1 .. n}
              /\ freePid' = NextPid(s[n])
        BY <2>1 DEF pollPacketIDs
      <3> DEFINE R == {s[i] : i \in 1 .. n}
      <3>4. /\ R \subseteq FreePids /\ Cardinality(R) = n
            /\ \A i, j \in 1 .. n : i # j => s[i] # s[j]
        BY <1>t, <3>2, <3>3, FirstFreeCounts
      <3> HIDE DEF n
      <3>5. /\ IsFiniteSet(lockedPid) /\ IsFiniteSet(R) /\ lockedPid \cap R = {}
            /\ lockedPid' = lockedPid \cup R /\ lockedPid' \in SUBSET Pids
        BY <1>t, <3>3, <3>4, BitmapFinite DEF FreePids
      <3>6. Cardinality(lockedPid') = Cardinality(lockedPid) + n
        <4> HIDE DEF R
        <4>1. Cardinality(lockedPid \cup R)
                = Cardinality(lockedPid) + Cardinality(R) - Cardinality(lockedPid \cap R)
          BY <3>5, FS_Union, Zenon
        <4>2. Cardinality(lockedPid \cap R) = 0
          BY <3>5, FS_EmptySet
        <4>3. Cardinality(lockedPid) \in Nat /\ n \in Nat
          BY <3>2, <3>5, FS_CardinalityType DEF n
        <4> QED
          BY <3>4, <3>5, <4>1, <4>2, <4>3
      <3>7. used' = Cardinality(lockedPid') /\ used' \in 0 .. MaxPacketID
        BY <3>3, <3>5, <3>6, BitmapFinite DEF UsedMatchesBitmap
      <3>8. ids' = s /\ s \in Seq(Pids) /\ Len(s) = n /\ Held' = R
        BY <3>2, <3>3 DEF n, Held, FreePids
      <3>9. freePid' \in Pids
        BY <1>t, <3>2, <3>3 DEF n, NextPid, FreePids, Pids
      <3>10. LimiterTypeOK'
        <4>1. phase' \in Phases
          BY <2>1 DEF Phases
        <4>2. exit' \in BOOLEAN /\ waiting' \in BOOLEAN
          BY <1>b, <3>1, Zenon
        <4> QED
          BY <1>t, <3>1, <3>5, <3>7, <3>8, <3>9, <4>1, <4>2, Zenon DEF LimiterTypeOK, Pids
      <3>11. HeldIsLocked'
        BY <3>4, <3>5, <3>8 DEF HeldIsLocked
      <3>12. NoLostWakeup'
        BY <3>1, Zenon DEF NoLostWakeup
      <3> QED
        BY <3>7, <3>10, <3>11, <3>12 DEF UsedMatchesBitmap
    <2>2. CASE pollPacketIDsWait /\ UNCHANGED phase
      <3>1. /\ used >= limit /\ ~exit /\ waiting'
            /\ UNCHANGED <<used, limit, lockedPid, freePid, exit, ids, phase>>
        BY <2>2 DEF pollPacketIDsWait
      <3>2. waiting' \in BOOLEAN /\ exit' \in BOOLEAN
        BY <1>b, <1>f, <2>2, Zenon DEF pollPacketIDsWait
      <3>3. LimiterTypeOK'
        BY <1>t, <3>1, <3>2, Zenon DEF LimiterTypeOK, Pids
      <3>4. UsedMatchesBitmap' /\ HeldIsLocked'
        BY <3>1 DEF UsedMatchesBitmap, HeldIsLocked, Held
      <3>5. NoLostWakeup'
        BY <3>1, Zenon DEF NoLostWakeup
      <3> QED
        BY <3>3, <3>4, <3>5
    <2>3. CASE pollPacketIDsNil /\ phase' = "done"
      <3>1. UNCHANGED limiterVars /\ phase' \in Phases
        BY <2>3 DEF pollPacketIDsNil, Phases
      <3> QED
        BY <1>t, <1>b, <3>1 DEF limiterVars, LimiterTypeOK, Pids, UsedMatchesBitmap, HeldIsLocked, Held, NoLostWakeup
    <2> QED
      BY <1>3, <2>1, <2>2, <2>3 DEF Poll
  <1>4. CASE Use
    <2>1. PICK k \in 0 .. Len(ids) : ids' = SubSeq(ids, k + 1, Len(ids))
      BY <1>4 DEF Use
    <2>2. /\ phase' \in Phases
          /\ UNCHANGED <<used, limit, lockedPid, freePid, exit, waiting>>
      BY <1>4 DEF Use, Phases
    <2>3. ids' \in Seq(Pids) /\ Len(ids') = Len(ids) - k
      BY <1>t, <2>1
    <2>4. \A i \in 1 .. Len(ids') : ids'[i] = ids[i + k] /\ i + k \in 1 .. Len(ids)
      BY <1>t, <2>1, <2>3
    <2>5. LimiterTypeOK'
      BY <1>t, <1>b, <2>2, <2>3, Zenon DEF LimiterTypeOK, Pids
    <2>6. HeldIsLocked'
      <3>1. Held' \subseteq lockedPid'
        BY <2>2, <2>4 DEF HeldIsLocked, Held
      <3>2. ASSUME NEW i \in 1 .. Len(ids'), NEW j \in 1 .. Len(ids'), i # j
            PROVE  ids'[i] # ids'[j]
        BY <2>4, <3>2, <1>t, <2>3 DEF HeldIsLocked
      <3> QED
        BY <3>1, <3>2 DEF HeldIsLocked
    <2>7. UsedMatchesBitmap' /\ NoLostWakeup'
      BY <2>2 DEF UsedMatchesBitmap, NoLostWakeup
    <2> QED
      BY <2>5, <2>6, <2>7
  <1>5. CASE ReadClosed
    <2>1. /\ ids' = <<>> /\ ids' \in Seq(Pids) /\ phase' \in Phases
          /\ UNCHANGED <<used, limit, lockedPid, freePid, exit, waiting>>
      BY <1>5 DEF ReadClosed, Phases
    <2>2. LimiterTypeOK'
      BY <1>t, <1>b, <2>1, Zenon DEF LimiterTypeOK, Pids
    <2>3. HeldIsLocked'
      BY <2>1 DEF HeldIsLocked, Held
    <2>4. UsedMatchesBitmap' /\ NoLostWakeup'
      BY <2>1 DEF UsedMatchesBitmap, NoLostWakeup
    <2> QED
      BY <2>2, <2>3, <2>4
  <1>6. CASE Unused
    <2>1. /\ releaseLocked(Held) /\ ids' = <<>> /\ ids' \in Seq(Pids)
          /\ phase' \in Phases /\ UNCHANGED <<limit, freePid, exit>>
      BY <1>6 DEF Unused, batchRelease, Phases
    <2>2. waiting' = FALSE
      BY <1>6 DEF Unused, batchRelease, Signal
    <2>3. lockedPid' \subseteq Pids /\ used' = Cardinality(lockedPid') /\ used' \in 0 .. MaxPacketID
      BY <1>t, <2>1, ReleaseKeepsCount
    <2>4. LimiterTypeOK'
      BY <1>t, <1>b, <1>f, <2>1, <2>2, <2>3, Zenon DEF LimiterTypeOK, Pids
    <2>5. HeldIsLocked'
      BY <2>1 DEF HeldIsLocked, Held
    <2>6. NoLostWakeup'
      BY <2>2, Zenon DEF NoLostWakeup
    <2> QED
      BY <2>3, <2>4, <2>5, <2>6 DEF UsedMatchesBitmap
  <1>7. CASE Ack
    <2>1. PICK id \in Pids \ Held : release(id)
      BY <1>7 DEF Ack
    <2>2. /\ releaseLocked({id}) /\ UNCHANGED <<limit, freePid, exit, ids, phase>>
          /\ lockedPid' = lockedPid \ {id}
      BY <1>7, <2>1 DEF Ack, release, releaseLocked
    <2>3. waiting' = FALSE
      BY <2>1 DEF release, Signal
    <2>4. lockedPid' \subseteq Pids /\ used' = Cardinality(lockedPid') /\ used' \in 0 .. MaxPacketID
      BY <1>t, <2>2, ReleaseKeepsCount
    <2>5. LimiterTypeOK'
      BY <1>t, <1>b, <1>f, <2>2, <2>3, <2>4, Zenon DEF LimiterTypeOK, Pids
    <2>6. HeldIsLocked'
      BY <2>1, <2>2 DEF HeldIsLocked, Held
    <2>7. NoLostWakeup'
      BY <2>3, Zenon DEF NoLostWakeup
    <2> QED
      BY <2>4, <2>5, <2>6, <2>7 DEF UsedMatchesBitmap
  <1>8. CASE CloseLimiter
    <2>1. UNCHANGED <<used, limit, lockedPid, freePid, ids, phase>>
      BY <1>8 DEF CloseLimiter, closeLimiter
    <2>2. exit' = TRUE /\ waiting' = FALSE
      BY <1>8 DEF CloseLimiter, closeLimiter, Signal
    <2>3. LimiterTypeOK'
      BY <1>t, <1>f, <2>1, <2>2, Zenon DEF LimiterTypeOK, Pids
    <2>4. UsedMatchesBitmap' /\ HeldIsLocked'
      BY <2>1 DEF UsedMatchesBitmap, HeldIsLocked, Held
    <2>5. NoLostWakeup'
      BY <2>2, Zenon DEF NoLostWakeup
    <2> QED
      BY <2>3, <2>4, <2>5
  <1>9. CASE Reconnect
    <2>1. PICK l \in Limits : newPacketIDLimiter(l)
      BY <1>9 DEF Reconnect
    <2>2. /\ used' = 0 /\ limit' = l /\ lockedPid' = {} /\ freePid' = 1
          /\ ids' = <<>> /\ phase' = "drain"
      BY <1>9, <2>1 DEF Reconnect, newPacketIDLimiter
    <2>3. exit' = FALSE /\ waiting' = FALSE
      BY <2>1 DEF newPacketIDLimiter
    <2>4. /\ used' \in 0 .. MaxPacketID /\ freePid' \in Pids /\ ids' \in Seq(Pids)
          /\ limit' \in Limits /\ lockedPid' \subseteq Pids /\ phase' \in Phases
      BY <2>1, <2>2, LimiterAssumption DEF Pids, Phases
    <2>5. LimiterTypeOK'
      BY <1>f, <2>3, <2>4, Zenon DEF LimiterTypeOK, Pids
    <2>6. UsedMatchesBitmap'
      BY <2>2, FS_EmptySet DEF UsedMatchesBitmap
    <2>7. HeldIsLocked'
      BY <2>2 DEF HeldIsLocked, Held
    <2>8. NoLostWakeup'
      BY <2>3, Zenon DEF NoLostWakeup
    <2> QED
      BY <2>5, <2>6, <2>7, <2>8
  <1>10. CASE UNCHANGED pollerVars
    BY <1>10 DEF pollerVars, LimiterTypeOK, Pids, UsedMatchesBitmap, HeldIsLocked, Held, NoLostWakeup
  <1> QED
    BY <1>1, <1>2, <1>3, <1>4, <1>5, <1>6, <1>7, <1>8, <1>9, <1>10 DEF LimiterNext

-----------------------------------------------------------------------------
\* The limiter's fields keep their types in every execution; in particular the
\* uint16 counter of limiter.go never overflows and never wraps below zero.
THEOREM LimiterTypesCorrect ==
    LimiterSpec => []LimiterTypeOK
  <1>i. LimiterInit => LimiterInv
    BY LimiterInitInv
  <1>n. LimiterInv /\ [LimiterNext]_pollerVars => LimiterInv'
    BY LimiterStepInv
  <1>1. LimiterInv => LimiterTypeOK
    BY DEF LimiterInv
  <1> QED
    BY <1>1, <1>i, <1>n, PTL DEF LimiterSpec

\* The counter of limiter.go always equals the number of bits set in its
\* bitmap, whatever polls, acknowledgements (repeated ones too), marks and
\* closes do to it.
THEOREM LimiterCountsBitmap ==
    LimiterSpec => []UsedMatchesBitmap
  <1>i. LimiterInit => LimiterInv
    BY LimiterInitInv
  <1>n. LimiterInv /\ [LimiterNext]_pollerVars => LimiterInv'
    BY LimiterStepInv
  <1>1. LimiterInv => UsedMatchesBitmap
    BY DEF LimiterInv
  <1> QED
    BY <1>1, <1>i, <1>n, PTL DEF LimiterSpec

\* Identifiers the poller holds are locked and pairwise different.
THEOREM LimiterHeldIsLocked ==
    LimiterSpec => []HeldIsLocked
  <1>i. LimiterInit => LimiterInv
    BY LimiterInitInv
  <1>n. LimiterInv /\ [LimiterNext]_pollerVars => LimiterInv'
    BY LimiterStepInv
  <1>1. LimiterInv => HeldIsLocked
    BY DEF LimiterInv
  <1> QED
    BY <1>1, <1>i, <1>n, PTL DEF LimiterSpec

\* No operation that makes room in, or closes, the limiter leaves the poller
\* asleep.
THEOREM LimiterNoLostWakeup ==
    LimiterSpec => []NoLostWakeup
  <1>i. LimiterInit => LimiterInv
    BY LimiterInitInv
  <1>n. LimiterInv /\ [LimiterNext]_pollerVars => LimiterInv'
    BY LimiterStepInv
  <1>1. LimiterInv => NoLostWakeup
    BY DEF LimiterInv
  <1> QED
    BY <1>1, <1>i, <1>n, PTL DEF LimiterSpec

\* Whenever pollPacketIDs is allowed to search it finds what it looks for: the
\* inner loop of limiter.go terminates.
THEOREM LimiterSearchEnds ==
    LimiterSpec => []SearchEnds
  <1>i. LimiterInit => LimiterInv
    BY LimiterInitInv
  <1>n. LimiterInv /\ [LimiterNext]_pollerVars => LimiterInv'
    BY LimiterStepInv
  <1>1. LimiterInv => SearchEnds
    <2> SUFFICES ASSUME LimiterInv, used < limit
                 PROVE  Cardinality(FreePids) >= limit - used
      BY DEF SearchEnds
    <2>1. /\ used \in Nat /\ limit \in 1 .. MaxPacketID /\ MaxPacketID \in Nat
          /\ lockedPid \in SUBSET Pids
      BY LimiterAssumption DEF LimiterInv, LimiterTypeOK
    <2>2. IsFiniteSet(Pids) /\ Cardinality(Pids) = MaxPacketID
      BY <2>1, FS_Interval, LimiterAssumption DEF Pids
    <2>3. Pids \cap lockedPid = lockedPid
      BY <2>1
    <2>4. Cardinality(Pids \ lockedPid) = Cardinality(Pids) - Cardinality(Pids \cap lockedPid)
      BY <2>2, FS_Difference, Zenon
    <2>5. Cardinality(FreePids) = MaxPacketID - used
      BY <2>2, <2>3, <2>4 DEF FreePids, LimiterInv, UsedMatchesBitmap
    <2> QED
      BY <2>1, <2>5
  <1> QED
    BY <1>1, <1>i, <1>n, PTL DEF LimiterSpec

\* pollPacketIDs never takes the counter above the client's receive maximum,
\* and nothing else raises it once the inflight messages are drained.
THEOREM LimiterPollWithinLimit ==
    LimiterSpec => PollWithinLimit
  <1>i. LimiterInit => LimiterInv
    BY LimiterInitInv
  <1>n. LimiterInv /\ [LimiterNext]_pollerVars => LimiterInv'
    BY LimiterStepInv
  <1> DEFINE Grows == phase = "poll" /\ used' > used => used' <= limit
  <1>1. LimiterInv /\ [LimiterNext]_pollerVars => [Grows]_pollerVars
    <2> SUFFICES ASSUME LimiterInv, LimiterNext, phase = "poll", used' > used
                 PROVE  used' <= limit
      OBVIOUS
    <2>1. used \in Nat /\ limit \in Nat /\ lockedPid \in SUBSET Pids
      BY LimiterAssumption DEF LimiterInv, LimiterTypeOK
    <2>2. Poll \/ Ack \/ CloseLimiter
      BY DEF LimiterNext, Mark, Drained, Use, ReadClosed, Unused, Reconnect
    <2>3. ~CloseLimiter
      BY <2>1 DEF CloseLimiter, closeLimiter
    <2>4. ~Ack
      <3> SUFFICES ASSUME NEW id, release(id) PROVE FALSE
        BY DEF Ack
      <3>1. Cardinality(lockedPid \cap {id}) \in Nat
        BY <2>1, BitmapFinite
      <3> QED
        BY <2>1, <3>1 DEF release, releaseLocked
    <2>5. pollPacketIDs
      BY <2>1, <2>2, <2>3, <2>4 DEF Poll, pollPacketIDsWait, pollPacketIDsNil, limiterVars
    <2>6. used' = used + PollSize /\ used < limit
      BY <2>5 DEF pollPacketIDs
    <2> QED
      BY <2>1, <2>6, PollSizeBounds
  <1> QED
    BY <1>1, <1>i, <1>n, PTL DEF LimiterSpec, PollWithinLimit
=============================================================================
