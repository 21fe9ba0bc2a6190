------------------------ MODULE SessionRegistryProofs ------------------------
(***************************************************************************)
(* For every set of connections and CONNECT packets: the registry never    *)
(* leaks a session and its owner is a registered client, even though       *)
(* lockDuplicatedID gives the mutex up in the middle of a registration.    *)
(* While no two connections are registered at a time, no delayed will      *)
(* outlives the session it belongs to.                                     *)
(***************************************************************************)
EXTENDS SessionRegistry, FiniteSetTheorems, TLAPS

\* The inductive invariant: neither part is preserved without the other two.
Inv == TypeOK /\ SessionTracked /\ OwnerHasSession

\* An optional expiry converts to a natural number.
LEMMA ConvertType ==
    ASSUME NEW p \in SUBSET Nat, NEW d \in Nat
    PROVE  convertUint32(p, d) \in Nat
BY Zenon DEF convertUint32

\* The final expiry of a registered connection is a natural number.
LEMMA FinalExpiryType ==
    ASSUME TypeOK, NEW c \in Conns, sessionStore # NoConn
    PROVE  FinalExpiry(c) \in Nat
<1>1. /\ sessionStore \in Conns
      /\ session[sessionStore].expiry \in Nat
      /\ disconnect[c] \in SUBSET Nat
  BY DEF TypeOK, Sessions, Pointers
<1>2. convertUint32(disconnect[c], session[sessionStore].expiry) \in Nat
  BY <1>1, ConvertType
<1> QED BY <1>1, <1>2 DEF FinalExpiry

\* The session object of a registration is well typed.
LEMMA NewSessionType ==
    ASSUME TypeOK, NEW c \in Conns
    PROVE  NewSession(c) \in Sessions
BY RegistryAssumption DEF TypeOK, NewSession, Sessions, Smaller

\* Initial states satisfy the invariant.
LEMMA InitInv == Init => Inv
<1> SUFFICES ASSUME Init PROVE Inv
  OBVIOUS
<1>1. /\ session \in [Conns -> Sessions]
      /\ will \in [Conns -> Wills]
  BY DEF Init, Sessions, Wills, WillStates
<1>2. TypeOK
  BY <1>1 DEF Init, TypeOK, Pointers, PCs
<1>3. SessionTracked /\ OwnerHasSession
  BY DEF Init, SessionTracked, OwnerHasSession
<1> QED BY <1>2, <1>3 DEF Inv

\* A signal keeps the will goroutines well typed.
LEMMA SignalType ==
    ASSUME TypeOK, NEW w \in Pointers, NEW b \in BOOLEAN, signal(w, b)
    PROVE  will' \in [Conns -> Wills]
<1>1. CASE w # NoConn /\ will[w].chan = {}
  <2>1. /\ w \in Conns
        /\ will[w] \in Wills
        /\ will' = [will EXCEPT ![w].chan = {b}]
    BY <1>1 DEF TypeOK, Pointers, signal
  <2>2. [will[w] EXCEPT !.chan = {b}] \in Wills
    BY <2>1 DEF Wills
  <2> QED BY <2>1, <2>2 DEF TypeOK
<1>2. CASE ~(w # NoConn /\ will[w].chan = {})
  BY <1>2 DEF TypeOK, signal
<1> QED BY <1>1, <1>2

\* A registration, whatever it found or missed, establishes the invariant.
LEMMA RegisterInv ==
    ASSUME Inv, NEW c \in Conns, NEW o \in Pointers, register(c, o)
    PROVE  Inv'
<1> USE DEF Inv
<1>1. will' \in [Conns -> Wills]
  <2>1. \/ \E b \in BOOLEAN : signal(willMessage, b)
        \/ UNCHANGED will
    BY DEF register
  <2>2. CASE UNCHANGED will
    BY <2>2 DEF TypeOK
  <2>3. CASE \E b \in BOOLEAN : signal(willMessage, b)
    BY <2>3, SignalType DEF TypeOK
  <2> QED BY <2>1, <2>2, <2>3
<1>2. /\ sessionStore' = c /\ clients' = c /\ offlineClients' = 0 /\ unackStore' = TRUE
      /\ pc' = [pc EXCEPT ![c] = "serving"]
      /\ old' = [old EXCEPT ![c] = NoConn]
      /\ session' = [session EXCEPT ![c] = NewSession(c)]
      /\ UNCHANGED <<now, willMessage, perConn, sent>>
  BY Zenon DEF register
<1>3. /\ queueStore' \in Conns
      /\ resumedAt' \in [Conns -> Nat]
  BY DEF register, TypeOK, Pointers
<1>4. TypeOK'
  BY <1>1, <1>2, <1>3, NewSessionType DEF TypeOK, Pointers, PCs, perConn
<1>5. SessionTracked'
  BY <1>2, <1>3, RegistryAssumption DEF SessionTracked
<1>6. OwnerHasSession'
  BY <1>2 DEF OwnerHasSession, Registered, TypeOK
<1> QED BY <1>4, <1>5, <1>6
\* Removing the session leaves nothing of it behind.
LEMMA RemoveInv ==
    ASSUME removeSessionLocked
    PROVE  /\ SessionTracked' /\ OwnerHasSession'
           /\ clients' = NoConn /\ offlineClients' = 0
           /\ sessionStore' = NoConn /\ queueStore' = NoConn
BY DEF removeSessionLocked, SessionTracked, OwnerHasSession

\* What a connection leaves behind when it unregisters.
LEMMA UnregisterInv ==
    ASSUME Inv, NEW c \in Conns, unregisterClient(c)
    PROVE  Inv'
<1> USE DEF Inv
<1>1. /\ pc' = [pc EXCEPT ![c] = "closed"]
      /\ UNCHANGED <<now, unackStore, perConn, old, resumedAt>>
  BY DEF unregisterClient
<1>2. CASE sessionStore = NoConn
  <2>1. removeSessionLocked /\ UNCHANGED <<session, will, willMessage, sent>>
    BY <1>2 DEF unregisterClient
  <2>2. TypeOK'
    BY <1>1, <2>1, RemoveInv DEF TypeOK, Pointers, PCs, perConn
  <2> QED BY <2>1, <2>2, RemoveInv
<1>3. CASE sessionStore # NoConn
  <2> DEFINE storeSession == ~forceRemove[c] /\ FinalExpiry(c) # 0
  <2>1. /\ sessionStore \in Conns
        /\ FinalExpiry(c) \in Nat
        /\ WillDelay(c) \in Nat
    BY <1>3, FinalExpiryType DEF TypeOK, Pointers, WillDelay, Smaller, Sessions
  <2>2. /\ session' = [session EXCEPT ![sessionStore].expiry = FinalExpiry(c)]
        /\ publishWill(c, storeSession)
        /\ \/ /\ storeSession
              /\ offlineClients' = now + FinalExpiry(c)
              /\ clients' = NoConn
              /\ UNCHANGED <<sessionStore, queueStore>>
           \/ removeSessionLocked
    BY <1>3, Zenon DEF unregisterClient
  <2>3. session' \in [Conns -> Sessions]
    BY <2>1, <2>2 DEF TypeOK, Sessions
  <2>4. /\ will' \in [Conns -> Wills]
        /\ willMessage' \in Pointers
        /\ sent' \subseteq Conns
    <3> DEFINE w == [state |-> "waiting", deadline |-> now + WillDelay(c), chan |-> {}]
    <3>1. /\ will \in [Conns -> Wills] /\ willMessage \in Pointers
          /\ sent \subseteq Conns /\ c \in Pointers
      BY DEF TypeOK, Pointers
    <3>2. w \in Wills
      BY <2>1 DEF TypeOK, Wills, WillStates
    <3> HIDE DEF w
    <3>3. \/ UNCHANGED <<will, willMessage, sent>>
          \/ will' = [will EXCEPT ![c] = w] /\ willMessage' = c /\ sent' = sent
          \/ sent' = sent \cup {c} /\ UNCHANGED <<will, willMessage>>
      BY <2>2 DEF publishWill, w
    <3> HIDE DEF Inv
    <3> QED BY <3>1, <3>2, <3>3
  <2>5. CASE removeSessionLocked
    <3>1. /\ clients' = NoConn /\ offlineClients' = 0
          /\ sessionStore' = NoConn /\ queueStore' = NoConn
      BY <2>5, RemoveInv
    <3>2. TypeOK'
      BY <1>1, <2>3, <2>4, <3>1 DEF TypeOK, Pointers, PCs, perConn
    <3> QED BY <3>2, <2>5, RemoveInv
  <2>6. CASE /\ storeSession
             /\ offlineClients' = now + FinalExpiry(c)
             /\ clients' = NoConn
             /\ UNCHANGED <<sessionStore, queueStore>>
    <3>1. now \in Nat /\ offlineClients' \in Nat /\ offlineClients' # 0
      BY <2>1, <2>6 DEF TypeOK
    <3>2. TypeOK'
      BY <1>1, <2>3, <2>4, <2>6, <3>1 DEF TypeOK, Pointers, PCs, perConn
    <3>3. SessionTracked' /\ OwnerHasSession'
      BY <1>3, <2>6, <3>1 DEF SessionTracked, OwnerHasSession
    <3> QED BY <3>2, <3>3
  <2> QED BY <2>2, <2>5, <2>6
<1> QED BY <1>2, <1>3

\* Every step keeps the invariant.
LEMMA StepInv ==
    ASSUME Inv, [Next]_vars
    PROVE  Inv'
<1> USE DEF Inv
<1>1. ASSUME NEW c \in Conns, connectAccepted(c) PROVE Inv'
  <2>1. TypeOK'
    BY <1>1 DEF connectAccepted, TypeOK, PCs, registry
  <2>2. SessionTracked' /\ OwnerHasSession'
    BY <1>1 DEF connectAccepted, SessionTracked, OwnerHasSession, Registered, registry, TypeOK
  <2> QED BY <2>1, <2>2
<1>2. ASSUME NEW c \in Conns, registerClient(c) PROVE Inv'
  <2>1. CASE lockNoSession(c)
    BY <2>1, RegisterInv DEF lockNoSession, Pointers
  <2>2. CASE lockOffline(c)
    <3>1. TypeOK'
      BY <2>2 DEF lockOffline, TypeOK, PCs, registry, perConn
    <3>2. SessionTracked' /\ OwnerHasSession'
      BY <2>2 DEF lockOffline, SessionTracked, OwnerHasSession, registry
    <3> QED BY <3>1, <3>2
  <2>3. CASE relock(c)
    BY <2>3, RegisterInv DEF relock, TypeOK
  <2>4. CASE takeOver(c)
    <3>1. /\ clients \in Conns
          /\ pc[clients] \in {"serving", "closing"} /\ clients # c
          /\ Closing(clients) = "closing"
      BY <2>4 DEF takeOver, OwnerHasSession, Registered, TypeOK, Pointers, Closing
    <3>2. TypeOK'
      BY <2>4, <3>1 DEF takeOver, TypeOK, PCs, registry, perConn
    <3>3. SessionTracked' /\ OwnerHasSession'
      BY <2>4, <3>1 DEF takeOver, SessionTracked, OwnerHasSession, Registered, registry, TypeOK
    <3> QED BY <3>2, <3>3
  <2>5. CASE oldClientClosed(c)
    <3>1. TypeOK'
      BY <2>5 DEF oldClientClosed, TypeOK, PCs, registry, perConn, Pointers
    <3>2. SessionTracked' /\ OwnerHasSession'
      BY <2>5 DEF oldClientClosed, SessionTracked, OwnerHasSession, Registered, registry, TypeOK
    <3> QED BY <3>1, <3>2
  <2> QED BY <1>2, <2>1, <2>2, <2>3, <2>4, <2>5 DEF registerClient
<1>3. ASSUME NEW c \in Conns, connectionLost(c) PROVE Inv'
  <2>1. TypeOK'
    BY <1>3 DEF connectionLost, TypeOK, PCs, registry, perConn
  <2>2. SessionTracked' /\ OwnerHasSession'
    BY <1>3 DEF connectionLost, SessionTracked, OwnerHasSession, Registered, registry, TypeOK
  <2> QED BY <2>1, <2>2
<1>4. ASSUME NEW c \in Conns, NEW p \in DisconnectProps, disconnectHandler(c, p) PROVE Inv'
  <2>1. p \in SUBSET Nat /\ convertUint32(p, 0) \in Nat
    BY RegistryAssumption, ConvertType
  <2>2. /\ session' \in [Conns -> Sessions]
        /\ disconnect' \in [Conns -> SUBSET Nat]
        /\ cleanWillFlag' \in [Conns -> BOOLEAN]
    <3>1. CASE UNCHANGED <<session, disconnect, cleanWillFlag>>
      BY <3>1 DEF TypeOK
    <3>2. CASE /\ session' \in {session, [session EXCEPT ![sessionStore].expiry = convertUint32(p, 0)]}
               /\ disconnect' = [disconnect EXCEPT ![c] = p]
               /\ cleanWillFlag' = [cleanWillFlag EXCEPT ![c] = TRUE]
      <4>1. PICK e \in Nat : e = convertUint32(p, 0)
        BY <2>1
      <4>2. session \in [Conns -> Sessions] /\ disconnect \in [Conns -> SUBSET Nat]
            /\ cleanWillFlag \in [Conns -> BOOLEAN]
        BY DEF TypeOK
      <4>3. [session EXCEPT ![sessionStore].expiry = e] \in [Conns -> Sessions]
        BY <4>2 DEF Sessions
      <4>4. session' \in [Conns -> Sessions]
        BY <3>2, <4>1, <4>2, <4>3
      <4>5. disconnect' \in [Conns -> SUBSET Nat] /\ cleanWillFlag' \in [Conns -> BOOLEAN]
        BY <2>1, <3>2, <4>2
      <4> QED BY <4>4, <4>5
    <3> QED BY <1>4, <3>1, <3>2 DEF disconnectHandler
  <2>3. /\ pc[c] = "serving" /\ pc' = [pc EXCEPT ![c] = "closing"]
        /\ UNCHANGED <<now, registry, will, connect, connNow, forceRemove, old, sent, resumedAt>>
    BY <1>4 DEF disconnectHandler
  <2>4. TypeOK'
    BY <2>2, <2>3 DEF TypeOK, PCs, registry
  <2>5. SessionTracked' /\ OwnerHasSession'
    BY <2>3 DEF SessionTracked, OwnerHasSession, Registered, registry, TypeOK
  <2> QED BY <2>4, <2>5
<1>5. ASSUME NEW c \in Conns, unregisterClient(c) PROVE Inv'
  BY <1>5, UnregisterInv
<1>6. ASSUME NEW c \in Conns, willSelect(c) \/ willFinish(c) PROVE Inv'
  <2>1. /\ will' \in [Conns -> Wills]
        /\ willMessage' \in Pointers
        /\ sent' \subseteq Conns
    <3>1. CASE willSelect(c)
      <4>1. PICK w \in Wills : will' = [will EXCEPT ![c] = w]
        <5>1. will[c] \in Wills
          BY DEF TypeOK
        <5>2. /\ [will[c] EXCEPT !.state = "send"] \in Wills
              /\ [will[c] EXCEPT !.state = "send", !.chan = {}] \in Wills
              /\ [will[c] EXCEPT !.state = "discard", !.chan = {}] \in Wills
          BY <5>1 DEF Wills, WillStates
        <5>3. \/ will' = [will EXCEPT ![c] = [will[c] EXCEPT !.state = "send"]]
              \/ will' = [will EXCEPT ![c] = [will[c] EXCEPT !.state = "send", !.chan = {}]]
              \/ will' = [will EXCEPT ![c] = [will[c] EXCEPT !.state = "discard", !.chan = {}]]
          BY <3>1 DEF willSelect, TypeOK
        <5> QED BY <5>2, <5>3
      <4> QED BY <3>1, <4>1 DEF willSelect, TypeOK, registry
    <3>2. CASE willFinish(c)
      <4>1. will[c] \in Wills
        BY DEF TypeOK
      <4>2. /\ [will[c] EXCEPT !.state = "sent"] \in Wills
            /\ [will[c] EXCEPT !.state = "discarded"] \in Wills
        BY <4>1 DEF Wills, WillStates
      <4>3. \/ will' = [will EXCEPT ![c] = [will[c] EXCEPT !.state = "sent"]]
            \/ will' = [will EXCEPT ![c] = [will[c] EXCEPT !.state = "discarded"]]
        BY <3>2 DEF willFinish, TypeOK
      <4>4. will' \in [Conns -> Wills]
        BY <4>2, <4>3 DEF TypeOK
      <4> QED BY <3>2, <4>4 DEF willFinish, TypeOK, Pointers
    <3> QED BY <1>6, <3>1, <3>2
  <2>2. UNCHANGED <<now, clients, offlineClients, sessionStore, queueStore, unackStore,
                    session, pc, perConn, old, resumedAt>>
    BY <1>6 DEF willSelect, willFinish, registry
  <2>3. TypeOK'
    BY <2>1, <2>2 DEF TypeOK, perConn
  <2>4. SessionTracked' /\ OwnerHasSession'
    BY <2>2 DEF SessionTracked, OwnerHasSession, Registered
  <2> QED BY <2>3, <2>4
<1>7. CASE tick
  <2>1. TypeOK'
    BY <1>7 DEF tick, TypeOK, registry, perConn
  <2>2. SessionTracked' /\ OwnerHasSession'
    BY <1>7 DEF tick, SessionTracked, OwnerHasSession, Registered, registry
  <2> QED BY <2>1, <2>2
<1>8. CASE removeSessionLocked /\ UNCHANGED <<now, unackStore, willMessage, session, will, pc,
                                             perConn, old, sent, resumedAt>>
  <2>1. TypeOK'
    BY <1>8, RemoveInv DEF TypeOK, Pointers, perConn
  <2> QED BY <2>1, <1>8, RemoveInv
<1>9. CASE TerminateSession
  <2>1. CASE clients = NoConn
    BY <1>8, <1>9, <2>1 DEF TerminateSession
  <2>2. CASE clients # NoConn
    <3>1. /\ clients \in Conns
          /\ pc[clients] \in {"serving", "closing"}
          /\ Closing(clients) = "closing"
      BY <2>2 DEF OwnerHasSession, Registered, TypeOK, Pointers, Closing
    <3>2. /\ forceRemove' = [forceRemove EXCEPT ![clients] = TRUE]
          /\ pc' = [pc EXCEPT ![clients] = "closing"]
          /\ UNCHANGED <<now, registry, session, will, connect, connNow, disconnect>>
          /\ UNCHANGED <<cleanWillFlag, old, sent, resumedAt>>
      BY <1>9, <2>2, <3>1 DEF TerminateSession
    <3>3. TypeOK'
      BY <3>1, <3>2 DEF TypeOK, PCs, registry
    <3>4. SessionTracked' /\ OwnerHasSession'
      BY <3>1, <3>2 DEF SessionTracked, OwnerHasSession, Registered, registry, TypeOK
    <3> QED BY <3>3, <3>4
  <2> QED BY <2>1, <2>2
<1>10. CASE UNCHANGED vars
  <2>1. TypeOK'
    BY <1>10 DEF vars, TypeOK, registry, perConn
  <2>2. SessionTracked' /\ OwnerHasSession'
    BY <1>10 DEF vars, SessionTracked, OwnerHasSession, Registered, registry
  <2> QED BY <2>1, <2>2
<1> QED
  BY <1>1, <1>2, <1>3, <1>4, <1>5, <1>6, <1>7, <1>8, <1>9, <1>10 DEF Next, sessionExpireCheck

-----------------------------------------------------------------------------

\* Type correctness of the registry of server.go.
THEOREM RegistryTypeOK == Spec => []TypeOK
<1>1. Inv => TypeOK
  BY DEF Inv
<1> QED BY InitInv, StepInv, <1>1, PTL DEF Spec

\* removeSessionLocked, registerClient and unregisterClient never leave a
\* session behind that nobody owns and nobody will expire, in any interleaving
\* of any number of connections.
THEOREM RegistrySessionTracked == Spec => []SessionTracked
<1>1. Inv => SessionTracked
  BY DEF Inv
<1> QED BY InitInv, StepInv, <1>1, PTL DEF Spec

\* The entry of srv.clients is a client that has not unregistered, and the
\* stored session is its own.
THEOREM RegistryOwnerHasSession == Spec => []OwnerHasSession
<1>1. Inv => OwnerHasSession
  BY DEF Inv
<1> QED BY InitInv, StepInv, <1>1, PTL DEF Spec

-----------------------------------------------------------------------------
(* A delayed will and the expiry of its session. *)

\* A registered connection is the online client.
OwnersOnly == Registered \subseteq {clients}

\* A will is held back when its connection has been unregistered, never earlier;
\* its timer has not been passed over, and fires before the session expires.
Timely ==
    \A c \in Conns :
        /\ pc[c] # "closed" => will[c].state = "none"
        /\ will[c].state = "waiting" =>
             /\ now <= will[c].deadline
             /\ c = sessionStore /\ offlineClients # 0 => will[c].deadline <= offlineClients

\* Two registered connections are one too many.
LEMMA OnlyOne ==
    ASSUME NEW S \in SUBSET Conns, Cardinality(S) <= 1, NEW a \in S, NEW b \in S
    PROVE  a = b
<1> SUFFICES ASSUME a # b PROVE FALSE
  OBVIOUS
<1>1. IsFiniteSet(S)
  BY RegistryAssumption, FS_Subset, Zenon
<1>2. IsFiniteSet({a}) /\ Cardinality({a}) = 1
  BY FS_Singleton, Zenon
<1>3. IsFiniteSet({a} \cup {b}) /\ Cardinality({a} \cup {b}) = Cardinality({a}) + 1
  <2>1. b \notin {a}
    OBVIOUS
  <2> QED BY <1>2, <2>1, FS_AddElement, Zenon
<1>4. {a} \cup {b} \in SUBSET S
  OBVIOUS
<1>5. Cardinality({a} \cup {b}) <= Cardinality(S)
  BY <1>1, <1>4, FS_Subset, Zenon
<1>6. Cardinality(S) \in Nat
  BY <1>1, FS_CardinalityType, Zenon
<1> QED BY <1>2, <1>3, <1>5, <1>6

\* A signal reaches the goroutine's channel and changes nothing else of it.
LEMMA SignalKeeps ==
    ASSUME TypeOK, NEW w \in Pointers, NEW b \in BOOLEAN, signal(w, b), NEW c \in Conns
    PROVE  will'[c].state = will[c].state /\ will'[c].deadline = will[c].deadline
<1>1. will \in [Conns -> Wills]
  BY DEF TypeOK
<1>2. CASE UNCHANGED will
  BY <1>2
<1>3. CASE w \in Conns /\ will' = [will EXCEPT ![w].chan = {b}]
  BY <1>1, <1>3 DEF Wills
<1> QED BY <1>2, <1>3 DEF signal, Pointers

\* A registration touches no will but through a signal, and has the session online.
LEMMA RegisterTimely ==
    ASSUME Inv, Timely, NEW c \in Conns, NEW o \in Pointers, register(c, o), pc[c] # "closed"
    PROVE  Timely'
<1>1. /\ offlineClients' = 0 /\ UNCHANGED now /\ pc' = [pc EXCEPT ![c] = "serving"]
      /\ pc \in [Conns -> PCs] /\ TypeOK /\ willMessage \in Pointers
  BY DEF register, Inv, TypeOK
<1>2. \A d \in Conns : will'[d].state = will[d].state /\ will'[d].deadline = will[d].deadline
  <2>1. \/ \E b \in BOOLEAN : signal(willMessage, b)
        \/ UNCHANGED will
    BY DEF register
  <2> QED BY <1>1, <2>1, SignalKeeps
<1>3. \A d \in Conns : pc'[d] # "closed" => pc[d] # "closed"
  BY <1>1
<1> QED BY <1>1, <1>2, <1>3 DEF Timely

\* The delay of a will is cut down to the expiry of its session.
LEMMA UnregisterTimely ==
    ASSUME Inv, OwnersOnly, Timely, NEW c \in Conns, unregisterClient(c)
    PROVE  Timely'
<1>1. /\ TypeOK /\ will \in [Conns -> Wills] /\ pc \in [Conns -> PCs] /\ now \in Nat
      /\ pc[c] = "closing" /\ pc' = [pc EXCEPT ![c] = "closed"] /\ UNCHANGED now
  BY DEF Inv, TypeOK, unregisterClient
<1>2. clients = c /\ sessionStore = c /\ c # NoConn
  BY <1>1, RegistryAssumption DEF OwnersOnly, Registered, Inv, OwnerHasSession
<1>3. will[c].state = "none"
  BY <1>1 DEF Timely
<1>4. \A d \in Conns : pc'[d] # "closed" => d # c /\ pc[d] # "closed"
  BY <1>1
<1>5. PICK e \in Nat : e = FinalExpiry(c)
  BY <1>1, <1>2, FinalExpiryType
<1>6. PICK n \in Nat : n = WillDelay(c) /\ n <= e
  <2>1. session[sessionStore].delay \in Nat
    BY <1>1, <1>2 DEF TypeOK, Sessions
  <2> QED BY <1>5, <2>1 DEF WillDelay, Smaller
<1>7. /\ \/ UNCHANGED will
         \/ will' = [will EXCEPT ![c] = [state |-> "waiting", deadline |-> now + n, chan |-> {}]]
      /\ offlineClients' = 0 \/ offlineClients' = now + e
  BY <1>2, <1>5, <1>6 DEF unregisterClient, publishWill, removeSessionLocked
<1>8. sessionStore' \in {c, NoConn}
  BY <1>2 DEF unregisterClient, removeSessionLocked
<1> SUFFICES ASSUME NEW d \in Conns
             PROVE  /\ pc'[d] # "closed" => will'[d].state = "none"
                    /\ will'[d].state = "waiting" =>
                         /\ now <= will'[d].deadline
                         /\ d = sessionStore' /\ offlineClients' # 0 => will'[d].deadline <= offlineClients'
  BY <1>1 DEF Timely
<1>9. CASE d = c
  <2>1. pc'[c] = "closed"
    BY <1>1
  <2>2. CASE UNCHANGED will
    BY <1>3, <1>9, <2>1, <2>2
  <2>3. CASE will' = [will EXCEPT ![c] = [state |-> "waiting", deadline |-> now + n, chan |-> {}]]
    <3>1. will'[c].deadline = now + n
      BY <1>1, <2>3
    <3> QED BY <1>1, <1>6, <1>7, <1>9, <2>1, <3>1
  <2> QED BY <1>7, <2>2, <2>3
<1>10. CASE d # c
  <2>1. will'[d] = will[d] /\ d # sessionStore'
    BY <1>1, <1>7, <1>8, <1>10, RegistryAssumption
  <2> QED BY <1>4, <2>1 DEF Timely
<1> QED BY <1>9, <1>10

\* While no two connections are registered at a time, every step keeps the registered one
\* the owner and the wills timely.
LEMMA StepTimely ==
    ASSUME Inv, OwnersOnly, Timely, OneLive, OneLive', [Next]_vars
    PROVE  OwnersOnly' /\ Timely'
<1>1. /\ TypeOK /\ pc \in [Conns -> PCs] /\ will \in [Conns -> Wills] /\ now \in Nat
      /\ clients \in Pointers /\ SessionTracked /\ OwnerHasSession
  BY DEF Inv, TypeOK
<1>2. ASSUME UNCHANGED <<now, offlineClients, sessionStore, will>>,
             \A d \in Conns : pc'[d] # "closed" => pc[d] # "closed"
      PROVE  Timely'
  BY <1>2 DEF Timely
<1>3. ASSUME UNCHANGED clients, Registered' \subseteq Registered
      PROVE  OwnersOnly'
  BY <1>3 DEF OwnersOnly
<1>4. ASSUME NEW c \in Conns, NEW o \in Pointers, register(c, o), pc[c] # "closed"
      PROVE  OwnersOnly' /\ Timely'
  <2>1. clients' = c /\ pc' = [pc EXCEPT ![c] = "serving"]
    BY <1>4 DEF register
  <2>2. c \in Registered' /\ Registered' \in SUBSET Conns
    BY <1>1, <2>1 DEF Registered
  <2>3. PICK S \in SUBSET Conns : S = Registered'
    BY <2>2
  <2>4. \A d \in S : d = c
    <3>1. Cardinality(S) <= 1 /\ c \in S
      BY <2>2, <2>3 DEF OneLive
    <3> QED BY <3>1, OnlyOne, Zenon
  <2>5. OwnersOnly'
    BY <2>1, <2>3, <2>4 DEF OwnersOnly
  <2>6. Timely'
    BY <1>4, RegisterTimely
  <2> QED BY <2>5, <2>6
<1>5. ASSUME NEW c \in Conns, connectAccepted(c) PROVE OwnersOnly' /\ Timely'
  <2>1. /\ pc' = [pc EXCEPT ![c] = "lock"] /\ pc[c] = "new"
        /\ UNCHANGED <<clients, now, offlineClients, sessionStore, will>>
    BY <1>5 DEF connectAccepted, registry
  <2>2. Registered' \subseteq Registered /\ \A d \in Conns : pc'[d] # "closed" => pc[d] # "closed"
    BY <1>1, <2>1 DEF Registered
  <2> QED BY <1>2, <1>3, <2>1, <2>2
<1>6. ASSUME NEW c \in Conns, registerClient(c) PROVE OwnersOnly' /\ Timely'
  <2>1. CASE lockNoSession(c)
    BY <1>4, <2>1 DEF lockNoSession, Pointers
  <2>2. CASE relock(c)
    <3>1. old[c] \in Pointers /\ pc[c] # "closed" /\ register(c, old[c])
      BY <1>1, <2>2 DEF TypeOK, relock
    <3> QED BY <1>4, <3>1
  <2>3. CASE lockOffline(c) \/ takeOver(c) \/ oldClientClosed(c)
    <3>1. UNCHANGED <<clients, now, offlineClients, sessionStore, will>>
      BY <2>3 DEF lockOffline, takeOver, oldClientClosed, registry
    <3>2. Registered' \subseteq Registered /\ \A d \in Conns : pc'[d] # "closed" => pc[d] # "closed"
      BY <1>1, <2>3 DEF lockOffline, takeOver, oldClientClosed, Registered, Closing
    <3> QED BY <1>2, <1>3, <3>1, <3>2
  <2> QED BY <1>6, <2>1, <2>2, <2>3 DEF registerClient
<1>7. ASSUME NEW c \in Conns, connectionLost(c) \/ \E p \in DisconnectProps : disconnectHandler(c, p)
      PROVE  OwnersOnly' /\ Timely'
  <2>1. /\ pc' = [pc EXCEPT ![c] = "closing"] /\ pc[c] = "serving"
        /\ UNCHANGED <<clients, now, offlineClients, sessionStore, will>>
    BY <1>7 DEF connectionLost, disconnectHandler, registry
  <2>2. Registered' \subseteq Registered /\ \A d \in Conns : pc'[d] # "closed" => pc[d] # "closed"
    BY <1>1, <2>1 DEF Registered
  <2> QED BY <1>2, <1>3, <2>1, <2>2
<1>8. ASSUME NEW c \in Conns, unregisterClient(c) PROVE OwnersOnly' /\ Timely'
  <2>1. Timely'
    BY <1>8, UnregisterTimely
  <2>2. pc[c] = "closing" /\ pc' = [pc EXCEPT ![c] = "closed"]
    BY <1>8 DEF unregisterClient
  <2>3. c \in Registered /\ Registered' = Registered \ {c}
    BY <1>1, <2>2 DEF Registered
  <2>4. Registered' = {}
    BY <2>3 DEF OwnersOnly
  <2> QED BY <2>1, <2>4 DEF OwnersOnly
<1>9. ASSUME NEW c \in Conns, willSelect(c) \/ willFinish(c) PROVE OwnersOnly' /\ Timely'
  <2>1. /\ UNCHANGED <<clients, pc, now, offlineClients, sessionStore>>
        /\ will[c].state \in {"waiting", "send", "discard"}
    BY <1>9 DEF willSelect, willFinish, registry
  <2>2. /\ \A d \in Conns : d # c => will'[d] = will[d]
        /\ will'[c].state \in {"send", "discard", "sent", "discarded"}
    BY <1>1, <1>9 DEF willSelect, willFinish, Wills
  <2>3. pc[c] = "closed"
    BY <2>1 DEF Timely
  <2>4. Timely'
    BY <2>1, <2>2, <2>3 DEF Timely
  <2>5. Registered' \subseteq Registered
    BY <2>1 DEF Registered
  <2> QED BY <1>3, <2>1, <2>4, <2>5
<1>10. CASE tick
  <2>1. /\ now' = now + 1 /\ UNCHANGED <<clients, pc, offlineClients, sessionStore, will>>
        /\ \A c \in Conns : will[c].state = "waiting" => ~(now >= will[c].deadline)
    BY <1>10 DEF tick, WillRunnable, registry
  <2>2. \A c \in Conns : will[c].deadline \in Nat
    BY <1>1 DEF Wills
  <2>3. Timely'
    BY <1>1, <2>1, <2>2 DEF Timely
  <2>4. Registered' \subseteq Registered
    BY <2>1 DEF Registered
  <2> QED BY <1>3, <2>1, <2>3, <2>4
<1>11. CASE sessionExpireCheck \/ (TerminateSession /\ clients = NoConn)
  <2>1. /\ clients' = NoConn /\ offlineClients' = 0 /\ UNCHANGED <<now, pc, will>>
        /\ offlineClients # 0
    BY <1>11 DEF sessionExpireCheck, TerminateSession, removeSessionLocked
  <2>2. clients = NoConn
    BY <1>1, <2>1 DEF SessionTracked
  <2>3. Registered' \subseteq Registered
    BY <2>1 DEF Registered
  <2>4. Timely'
    BY <2>1 DEF Timely
  <2>5. OwnersOnly'
    BY <2>1, <2>2, <2>3 DEF OwnersOnly
  <2> QED BY <2>4, <2>5
<1>12. CASE TerminateSession /\ clients # NoConn
  <2>1. /\ pc' = [pc EXCEPT ![clients] = Closing(clients)]
        /\ UNCHANGED <<clients, now, offlineClients, sessionStore, will>>
    BY <1>12 DEF TerminateSession, registry
  <2>2. clients \in Conns /\ pc[clients] \in {"serving", "closing"}
    BY <1>1, <1>12 DEF OwnerHasSession, Registered, Pointers
  <2>3. Registered' \subseteq Registered /\ \A d \in Conns : pc'[d] # "closed" => pc[d] # "closed"
    BY <1>1, <2>1, <2>2 DEF Registered, Closing
  <2> QED BY <1>2, <1>3, <2>1, <2>3
<1>13. CASE UNCHANGED vars
  <2>1. UNCHANGED <<clients, pc, now, offlineClients, sessionStore, will>>
    BY <1>13 DEF vars, registry
  <2>2. Registered' \subseteq Registered
    BY <2>1 DEF Registered
  <2> QED BY <1>2, <1>3, <2>1, <2>2
<1> QED BY <1>5, <1>6, <1>7, <1>8, <1>9, <1>10, <1>11, <1>12, <1>13 DEF Next

\* sessionExpireCheck removes no session whose will is still held back, as long as no two
\* connections of the ClientID are registered at a time.  Without that a connection that lost the
\* race of lockDuplicatedID unregisters later, and its DISCONNECT shortens the expiry of the
\* session that the other connection left behind together with its will.
THEOREM RegistryWillBeforeExpiry == Spec /\ []OneLive => WillBeforeExpiry
<1> DEFINE Published == sessionExpireCheck =>
                          \A c \in Conns : ~(will[c].state = "waiting" /\ c = sessionStore)
<1>1. Init => OwnersOnly /\ Timely
  BY DEF Init, OwnersOnly, Timely, Registered
<1>2. Inv /\ OwnersOnly /\ Timely /\ OneLive /\ OneLive' /\ [Next]_vars => OwnersOnly' /\ Timely'
  BY StepTimely
<1>3. Inv /\ Timely => [Published]_vars
  <2> SUFFICES ASSUME Inv, Timely, sessionExpireCheck, NEW c \in Conns,
                      will[c].state = "waiting", c = sessionStore
               PROVE  FALSE
    OBVIOUS
  <2>1. now \in Nat /\ offlineClients \in Nat /\ will[c].deadline \in Nat
    BY DEF Inv, TypeOK, Wills
  <2>2. now <= will[c].deadline /\ will[c].deadline <= offlineClients /\ now > offlineClients
    BY DEF Timely, sessionExpireCheck
  <2> QED BY <2>1, <2>2
<1>4. Inv /\ [Next]_vars => Inv'
  BY StepInv
<1>5. Spec /\ []OneLive => [][Published]_vars
  <2> HIDE DEF Published
  <2> QED BY <1>1, <1>2, <1>3, <1>4, InitInv, PTL DEF Spec
<1> QED BY <1>5 DEF WillBeforeExpiry

=============================================================================
