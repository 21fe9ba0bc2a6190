--------------------------- MODULE SessionRegistry ---------------------------
(***************************************************************************)
(* What the broker keeps for one ClientID (gmqtt/server/server.go): the    *)
(* entries of clients, offlineClients, sessionStore, queueStore, unackStore*)
(* and willMessage, changed by the connections that use the ClientID, the  *)
(* goroutines that hold back a will message, the session expiry ticker and *)
(* the administration API.                                                 *)
(*                                                                         *)
(* Each action is what runs between taking and giving up srv.mu.           *)
(* lockDuplicatedID gives the mutex up and takes it again before it        *)
(* returns, so a registration is several actions.  A connection creates at *)
(* most one session object and one queue: both carry the connection's name,*)
(* and a variable that holds a name is a pointer.                          *)
(***************************************************************************)
EXTENDS Naturals, FiniteSets

CONSTANTS
    Conns,          \* connections that present the ClientID
    NoConn,         \* the nil pointer
    Connects,       \* CONNECT packets: [v5, clean, expiry, will, delay]
    DisconnectProps,\* Session Expiry Interval of a DISCONNECT: {} or {n}
    SessionExpiry,  \* config: session_expiry
    MaxTime         \* bound on the clock, in seconds

ASSUME RegistryAssumption ==
    /\ IsFiniteSet(Conns) /\ NoConn \notin Conns
    /\ Connects \subseteq [v5 : BOOLEAN, clean : BOOLEAN, expiry : Nat,
                           will : BOOLEAN, delay : Nat]
    /\ Connects # {}
    /\ \A p \in DisconnectProps : p \subseteq Nat /\ Cardinality(p) \in {0, 1}
    /\ SessionExpiry \in Nat
    /\ MaxTime \in Nat

VARIABLES
    now,            \* seconds
    clients,        \* the online client, or NoConn
    offlineClients, \* when the offline session expires; 0 is no entry
    sessionStore,   \* the stored session object, or NoConn
    queueStore,     \* the session's queue, or NoConn
    unackStore,     \* TRUE iff there is an entry (it is never deleted)
    willMessage,    \* whose goroutine the will entry belongs to, or NoConn
    session,        \* the session object each connection created
    will,           \* the goroutine that holds back each connection's will
    pc,             \* where each connection is
    connect,        \* its CONNECT packet
    connNow,        \* registerClient's now, taken before the mutex
    old,            \* lockDuplicatedID's oldSession, or the client it waits for
    disconnect,     \* the expiry its DISCONNECT carried: {} or {n}
    cleanWillFlag,
    forceRemove,    \* forceRemoveSession
    sent,           \* connections whose will was published
    resumedAt       \* when the session a connection created was resumed, or 0

registry == <<clients, offlineClients, sessionStore, queueStore, unackStore, willMessage>>
perConn == <<connect, connNow, disconnect, cleanWillFlag, forceRemove>>
vars == <<now, registry, session, will, pc, perConn, old, sent, resumedAt>>

Pointers == Conns \cup {NoConn}
PCs == {"new", "lock", "wait", "gap", "serving", "closing", "closed"}
WillStates == {"none", "waiting", "send", "discard", "sent", "discarded"}
Sessions == [connectedAt : Nat, expiry : Nat, will : BOOLEAN, delay : Nat]
Wills == [state : WillStates, deadline : Nat, chan : SUBSET BOOLEAN]

Init ==
    /\ now = 1
    /\ clients = NoConn /\ offlineClients = 0 /\ sessionStore = NoConn
    /\ queueStore = NoConn /\ unackStore = FALSE /\ willMessage = NoConn
    /\ session = [c \in Conns |-> [connectedAt |-> 0, expiry |-> 0, will |-> FALSE, delay |-> 0]]
    /\ will = [c \in Conns |-> [state |-> "none", deadline |-> 0, chan |-> {}]]
    /\ pc = [c \in Conns |-> "new"]
    /\ connect \in [Conns -> Connects]
    /\ connNow = [c \in Conns |-> 0]
    /\ old = [c \in Conns |-> NoConn]
    /\ disconnect = [c \in Conns |-> {}]
    /\ cleanWillFlag = [c \in Conns |-> FALSE]
    /\ forceRemove = [c \in Conns |-> FALSE]
    /\ sent = {}
    /\ resumedAt = [c \in Conns |-> 0]

-----------------------------------------------------------------------------
(* Helpers. *)

convertUint32(p, default) == IF p = {} THEN default ELSE CHOOSE n \in p : TRUE

Smaller(m, n) == IF m <= n THEN m ELSE n

IsExpired(s, t) == s.connectedAt + s.expiry < t

\* Mutant: the old client is not closed.
ClosingForgotten(c) == pc[c]

\* setError and Close: the reader of a client that serves ends.
Closing(c) == IF pc[c] = "serving" THEN "closing" ELSE pc[c]

\* willMsg.signal: a send on a channel of capacity 1 that never blocks.
signal(w, send) ==
    IF w # NoConn /\ will[w].chan = {}
    THEN will' = [will EXCEPT ![w].chan = {send}]
    ELSE UNCHANGED will

\* Mutants: the queue stays; the client stays.
removeSessionKeepsQueue ==
    /\ clients' = NoConn
    /\ offlineClients' = 0
    /\ sessionStore' = NoConn
    /\ UNCHANGED queueStore

removeSessionKeepsClient ==
    /\ offlineClients' = 0
    /\ queueStore' = NoConn
    /\ sessionStore' = NoConn
    /\ UNCHANGED clients

removeSessionLocked ==
    /\ clients' = NoConn
    /\ offlineClients' = 0
    /\ queueStore' = NoConn
    /\ sessionStore' = NoConn

\* The session object registerClient stores for c.
NewSession(c) ==
    LET p == connect[c]
    IN  [connectedAt |-> now,
         will |-> p.will,
         expiry |-> IF p.v5 THEN Smaller(p.expiry, SessionExpiry)
                    ELSE IF p.clean THEN 0 ELSE SessionExpiry,
         delay |-> IF p.v5 THEN p.delay ELSE 0]

-----------------------------------------------------------------------------
(* registerClient. *)

\* The client is registered with oldSession o, the mutex held throughout.
\* Inconsistent: the old session is valid but its stores are gone.
register(c, o) ==
    LET valid == o # NoConn /\ ~IsExpired(session[o], connNow[c]) /\ ~connect[c].clean
        resume == valid /\ queueStore # NoConn /\ unackStore
    IN  /\ IF resume
           THEN /\ signal(willMessage, FALSE)
                /\ resumedAt' = [resumedAt EXCEPT ![o] = now]
                /\ UNCHANGED queueStore
           ELSE /\ IF o # NoConn /\ ~valid
                   THEN signal(willMessage, TRUE)
                   ELSE UNCHANGED will
                /\ queueStore' = c
                /\ UNCHANGED resumedAt
        /\ session' = [session EXCEPT ![c] = NewSession(c)]
        /\ sessionStore' = c
        /\ clients' = c
        /\ offlineClients' = 0
        /\ unackStore' = TRUE
        /\ pc' = [pc EXCEPT ![c] = "serving"]
        /\ old' = [old EXCEPT ![c] = NoConn]
        /\ UNCHANGED <<now, willMessage, perConn, sent>>

\* A CONNECT is accepted; registerClient reads the clock and goes for the mutex.
connectAccepted(c) ==
    /\ pc[c] = "new"
    /\ pc' = [pc EXCEPT ![c] = "lock"]
    /\ connNow' = [connNow EXCEPT ![c] = now]
    /\ UNCHANGED <<now, registry, session, will, connect, disconnect, cleanWillFlag>>
    /\ UNCHANGED <<forceRemove, old, sent, resumedAt>>

\* lockDuplicatedID, no session: it returns with the mutex held.
lockNoSession(c) ==
    /\ pc[c] = "lock"
    /\ sessionStore = NoConn
    /\ register(c, NoConn)

\* lockDuplicatedID, offline session: the mutex is given up.
lockOffline(c) ==
    /\ pc[c] = "lock"
    /\ sessionStore # NoConn /\ clients = NoConn
    /\ pc' = [pc EXCEPT ![c] = "gap"]
    /\ old' = [old EXCEPT ![c] = sessionStore]
    /\ UNCHANGED <<now, registry, session, will, perConn, sent, resumedAt>>

\* ... and taken again, and whatever happened between is not looked at.
relock(c) ==
    /\ pc[c] = "gap"
    /\ register(c, old[c])

\* lockDuplicatedID, online client: it is closed and waited for.
takeOver(c) ==
    /\ pc[c] = "lock"
    /\ sessionStore # NoConn /\ clients # NoConn
    /\ pc' = [pc EXCEPT ![c] = "wait", ![clients] = Closing(clients)]
    /\ old' = [old EXCEPT ![c] = clients]
    /\ UNCHANGED <<now, registry, session, will, perConn, sent, resumedAt>>

oldClientClosed(c) ==
    /\ pc[c] = "wait"
    /\ pc[old[c]] = "closed"
    /\ pc' = [pc EXCEPT ![c] = "lock"]
    /\ old' = [old EXCEPT ![c] = NoConn]
    /\ UNCHANGED <<now, registry, session, will, perConn, sent, resumedAt>>

registerClient(c) ==
    \/ lockNoSession(c)
    \/ lockOffline(c)
    \/ relock(c)
    \/ takeOver(c)
    \/ oldClientClosed(c)

-----------------------------------------------------------------------------
(* The end of a connection. *)

connectionLost(c) ==
    /\ pc[c] = "serving"
    /\ pc' = [pc EXCEPT ![c] = "closing"]
    /\ UNCHANGED <<now, registry, session, will, perConn, old, sent, resumedAt>>

\* disconnectHandler with expiry property p.  Refused: raising an expiry of 0
\* is a protocol error; no session at all is a nil dereference, recovered in
\* readHandle.  Either way the connection ends and DISCONNECT has no effect.
disconnectHandler(c, p) ==
    LET s       == session[sessionStore]
        refused == connect[c].v5 /\ (sessionStore = NoConn \/ (s.expiry = 0 /\ convertUint32(p, 0) # 0))
    IN  /\ pc[c] = "serving"
        /\ connect[c].v5 \/ p = {}
        /\ pc' = [pc EXCEPT ![c] = "closing"]
        /\ IF refused
           THEN UNCHANGED <<session, disconnect, cleanWillFlag>>
           ELSE /\ session' = IF convertUint32(p, 0) # 0
                              THEN [session EXCEPT ![sessionStore].expiry = convertUint32(p, 0)]
                              ELSE session
                /\ disconnect' = [disconnect EXCEPT ![c] = p]
                /\ cleanWillFlag' = [cleanWillFlag EXCEPT ![c] = TRUE]
        /\ UNCHANGED <<now, registry, will, connect, connNow, forceRemove, old, sent, resumedAt>>

\* The session expiry that holds when c unregisters.
FinalExpiry(c) ==
    IF ~forceRemove[c] /\ connect[c].v5
    THEN convertUint32(disconnect[c], session[sessionStore].expiry)
    ELSE session[sessionStore].expiry

\* Mutant: the delay is not cut down to the session expiry.
WillDelayUncut(c) == session[sessionStore].delay

WillDelay(c) == Smaller(FinalExpiry(c), session[sessionStore].delay)

\* The will of the stored session: held back, published, or not there.
publishWill(c, storeSession) ==
    IF cleanWillFlag[c] \/ ~session[sessionStore].will
    THEN UNCHANGED <<will, willMessage, sent>>
    ELSE IF WillDelay(c) # 0 /\ storeSession
    THEN /\ will' = [will EXCEPT ![c] = [state |-> "waiting", deadline |-> now + WillDelay(c), chan |-> {}]]
         /\ willMessage' = c
         /\ UNCHANGED sent
    ELSE /\ sent' = sent \cup {c}
         /\ UNCHANGED <<will, willMessage>>

unregisterClient(c) ==
    LET storeSession == ~forceRemove[c] /\ FinalExpiry(c) # 0
    IN  /\ pc[c] = "closing"
        /\ pc' = [pc EXCEPT ![c] = "closed"]
        /\ IF sessionStore = NoConn
           THEN removeSessionLocked /\ UNCHANGED <<session, will, willMessage, sent>>
           ELSE /\ session' = [session EXCEPT ![sessionStore].expiry = FinalExpiry(c)]
                /\ publishWill(c, storeSession)
                /\ IF storeSession
                   THEN /\ offlineClients' = now + FinalExpiry(c)
                        /\ clients' = NoConn
                        /\ UNCHANGED <<sessionStore, queueStore>>
                   ELSE removeSessionLocked
        /\ UNCHANGED <<now, unackStore, perConn, old, resumedAt>>

-----------------------------------------------------------------------------
(* The goroutine of a delayed will: select, then the mutex. *)

\* Mutant: no timer.
willSelectNoTimer(c) ==
    /\ will[c].state = "waiting"
    /\ will[c].chan # {}
    /\ will' = [will EXCEPT ![c].state = IF TRUE \in will[c].chan THEN "send" ELSE "discard",
                            ![c].chan = {}]
    /\ UNCHANGED <<now, registry, session, pc, perConn, old, sent, resumedAt>>

willSelect(c) ==
    /\ will[c].state = "waiting"
    /\ \/ /\ will[c].chan # {}
          /\ will' = [will EXCEPT ![c].state = IF TRUE \in will[c].chan THEN "send" ELSE "discard",
                                  ![c].chan = {}]
       \/ /\ now >= will[c].deadline
          /\ will' = [will EXCEPT ![c].state = "send"]
    /\ UNCHANGED <<now, registry, session, pc, perConn, old, sent, resumedAt>>

willFinish(c) ==
    /\ will[c].state \in {"send", "discard"}
    /\ willMessage' = NoConn
    /\ IF will[c].state = "send"
       THEN sent' = sent \cup {c} /\ will' = [will EXCEPT ![c].state = "sent"]
       ELSE will' = [will EXCEPT ![c].state = "discarded"] /\ UNCHANGED sent
    /\ UNCHANGED <<now, clients, offlineClients, sessionStore, queueStore, unackStore>>
    /\ UNCHANGED <<session, pc, perConn, old, resumedAt>>

-----------------------------------------------------------------------------
(* The clock, the expiry ticker and the administration API. *)

WillRunnable(c) ==
    \/ will[c].state \in {"send", "discard"}
    \/ will[c].state = "waiting" /\ (will[c].chan # {} \/ now >= will[c].deadline)

\* A goroutine that can run does so within a second.
tick ==
    /\ now < MaxTime
    /\ \A c \in Conns : ~WillRunnable(c)
    /\ now' = now + 1
    /\ UNCHANGED <<registry, session, will, pc, perConn, old, sent, resumedAt>>

sessionExpireCheck ==
    /\ offlineClients # 0 /\ now > offlineClients
    /\ removeSessionLocked
    /\ UNCHANGED <<now, unackStore, willMessage, session, will, pc, perConn, old, sent, resumedAt>>

TerminateSession ==
    \/ /\ clients # NoConn
       /\ forceRemove' = [forceRemove EXCEPT ![clients] = TRUE]
       /\ pc' = [pc EXCEPT ![clients] = Closing(clients)]
       /\ UNCHANGED <<now, registry, session, will, connect, connNow, disconnect>>
       /\ UNCHANGED <<cleanWillFlag, old, sent, resumedAt>>
    \/ /\ clients = NoConn /\ offlineClients # 0
       /\ removeSessionLocked
       /\ UNCHANGED <<now, unackStore, willMessage, session, will, pc, perConn, old, sent, resumedAt>>

-----------------------------------------------------------------------------

Next ==
    \/ \E c \in Conns :
          \/ connectAccepted(c)
          \/ registerClient(c)
          \/ connectionLost(c)
          \/ \E p \in DisconnectProps : disconnectHandler(c, p)
          \/ unregisterClient(c)
          \/ willSelect(c)
          \/ willFinish(c)
    \/ tick
    \/ sessionExpireCheck
    \/ TerminateSession

Spec == Init /\ [][Next]_vars

\* The mutex is not starved, timers fire, time passes and the ticker runs.
FairSpec ==
    /\ Spec
    /\ \A c \in Conns : /\ WF_vars(registerClient(c))
                        /\ WF_vars(unregisterClient(c))
                        /\ WF_vars(willSelect(c))
                        /\ WF_vars(willFinish(c))
    /\ WF_vars(tick)
    /\ WF_vars(sessionExpireCheck)

-----------------------------------------------------------------------------
(* Properties. *)

TypeOK ==
    /\ now \in Nat
    /\ clients \in Pointers /\ sessionStore \in Pointers
    /\ queueStore \in Pointers /\ willMessage \in Pointers
    /\ offlineClients \in Nat /\ unackStore \in BOOLEAN
    /\ session \in [Conns -> Sessions]
    /\ will \in [Conns -> Wills]
    /\ pc \in [Conns -> PCs]
    /\ connect \in [Conns -> Connects]
    /\ connNow \in [Conns -> Nat]
    /\ old \in [Conns -> Pointers]
    /\ disconnect \in [Conns -> SUBSET Nat]
    /\ cleanWillFlag \in [Conns -> BOOLEAN]
    /\ forceRemove \in [Conns -> BOOLEAN]
    /\ sent \subseteq Conns
    /\ resumedAt \in [Conns -> Nat]

Registered == {c \in Conns : pc[c] \in {"serving", "closing"}}

\* No session leaks and none is half removed: a stored session has its queue
\* and is either owned by the online client or scheduled to expire, never
\* both; without a session there is no queue, client or expiry left.
SessionTracked ==
    /\ (sessionStore # NoConn) <=> (clients # NoConn \/ offlineClients # 0)
    /\ ~(clients # NoConn /\ offlineClients # 0)
    /\ (queueStore # NoConn) <=> (sessionStore # NoConn)

\* The client in the map is still registered and the stored session is the one
\* it created, whatever connections that lost a race do.
OwnerHasSession ==
    clients # NoConn => sessionStore = clients /\ clients \in Registered

\* At most one connection is registered for the ClientID: "if there is a
\* duplicated online client, close if first."
OneLive == Cardinality(Registered) <= 1

\* "If a new Network Connection to this Session is made before the Will Delay
\* Interval has passed, the Server MUST NOT send the Will Message
\* [MQTT-3.1.3-9]."
WillNotSentAfterResume ==
    \A c \in Conns :
        resumedAt[c] # 0 /\ resumedAt[c] < will[c].deadline => c \notin sent

\* A delayed will is discarded only because its own session was resumed.
WillDiscardedOnlyOnResume ==
    \A c \in Conns : will[c].state = "discarded" => resumedAt[c] # 0

\* A delayed will is published no later than its session expires, while no two
\* connections are registered at a time (OneLive): one that lost the race of
\* lockDuplicatedID may shorten the expiry of a session that is not its own.
WillBeforeExpiry ==
    [][sessionExpireCheck => \A c \in Conns : ~(will[c].state = "waiting" /\ c = sessionStore)]_vars

\* offlineClients holds "the expired time of all disconnected clients with
\* valid session(not expired)": a connection that does not ask for a clean
\* start gets such a session back.
ResumeKeepsSession ==
    [][\A c \in Conns :
          /\ clients' = c /\ clients # c
          /\ offlineClients >= now /\ ~connect[c].clean
          => queueStore' = queueStore]_vars

\* A client that presents a ClientID in use is registered in the end: the old
\* connection is closed, and no two wait for each other.
TakeoverCompletes ==
    \A c \in Conns : pc[c] = "lock" ~> pc[c] \in {"serving", "closing", "closed"}

\* A delayed will is published or discarded once its delay has passed.
WillResolved ==
    \A c \in Conns :
        will[c].state = "waiting" /\ will[c].deadline <= MaxTime
            ~> will[c].state \in {"sent", "discarded"}

\* An offline session is resumed or removed once it has expired.
ExpiredSessionRemoved ==
    offlineClients # 0 /\ offlineClients < MaxTime ~> offlineClients = 0
=============================================================================
