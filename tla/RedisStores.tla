----------------------------- MODULE RedisStores -----------------------------
(***************************************************************************)
(* The subscription store and the store of unacknowledged QoS 2            *)
(* identifiers with redis behind them                                      *)
(* (gmqtt/persistence/subscription/redis, gmqtt/persistence/unack/redis):  *)
(* each keeps a copy in memory, writes to redis first and answers from     *)
(* memory.  A restart of the broker leaves redis and makes new stores.     *)
(***************************************************************************)
EXTENDS Naturals, FiniteSets

CONSTANTS Clients, Topics, Pids,
          TrimLeft,      \* external: strings.TrimLeft(clientID, "sub:"), which
                         \* cuts any of the letters s, u, b and the colon
          MaxRestarts    \* bound

VARIABLES
  hash,       \* redis: sub:<client>, the topics of a client
  memStore,   \* the TrieDB in memory, by client id
  unackHash,  \* redis: the identifiers of a client's unack key
  unack,      \* Store.unackpublish
  made,       \* what the clients were told they are subscribed to
  unreleased, \* identifiers received and not released by a PUBREL
  restarts

vars == <<hash, memStore, unackHash, unack, made, unreleased, restarts>>

Nothing(S) == [c \in S |-> {}]
Names == Clients \cup {TrimLeft[c] : c \in Clients}

Init ==
  /\ hash = Nothing(Clients) /\ memStore = Nothing(Names) /\ made = Nothing(Clients)
  /\ unackHash = Nothing(Clients) /\ unack = Nothing(Clients)
  /\ unreleased = Nothing(Clients)
  /\ restarts = 0

Subscribe(c, t) ==
  /\ hash' = [hash EXCEPT ![c] = @ \cup {t}]
  /\ memStore' = [memStore EXCEPT ![c] = @ \cup {t}]
  /\ made' = [made EXCEPT ![c] = @ \cup {t}]
  /\ UNCHANGED <<unackHash, unack, unreleased, restarts>>

\* The topics are given to hdel as one slice, which is written as one field
\* name that does not exist: redis keeps the subscriptions.
Unsubscribe(c, t) ==
  /\ memStore' = [memStore EXCEPT ![c] = @ \ {t}]
  /\ made' = [made EXCEPT ![c] = @ \ {t}]
  /\ UNCHANGED <<hash, unackHash, unack, unreleased, restarts>>

UnsubscribeAll(c) ==
  /\ hash' = [hash EXCEPT ![c] = {}]
  /\ memStore' = [memStore EXCEPT ![c] = {}]
  /\ made' = [made EXCEPT ![c] = {}]
  /\ UNCHANGED <<unackHash, unack, unreleased, restarts>>

\* unack Set and Remove, from a PUBLISH of QoS 2 and its PUBREL.
Set(c, id) ==
  /\ unack' = [unack EXCEPT ![c] = @ \cup {id}]
  /\ unackHash' = [unackHash EXCEPT ![c] = @ \cup {id}]
  /\ unreleased' = [unreleased EXCEPT ![c] = @ \cup {id}]
  /\ UNCHANGED <<hash, memStore, made, restarts>>

Remove(c, id) ==
  /\ unackHash' = [unackHash EXCEPT ![c] = @ \ {id}]
  /\ unack' = [unack EXCEPT ![c] = @ \ {id}]
  /\ unreleased' = [unreleased EXCEPT ![c] = @ \ {id}]
  /\ UNCHANGED <<hash, memStore, made, restarts>>

\* server.init: sub.Init loads every session's subscriptions; the unack stores
\* are new, and their Init without CleanStart reads nothing.
restart ==
  /\ restarts < MaxRestarts
  /\ restarts' = restarts + 1
  /\ memStore' = [n \in Names |->
                    UNION {hash[c] : c \in {d \in Clients : TrimLeft[d] = n}}]
  /\ unack' = Nothing(Clients)
  /\ UNCHANGED <<hash, unackHash, made, unreleased>>

Next ==
  \/ \E c \in Clients :
       \/ \E t \in Topics : Subscribe(c, t) \/ Unsubscribe(c, t)
       \/ UnsubscribeAll(c)
       \/ \E id \in Pids : Set(c, id) \/ Remove(c, id)
  \/ restart

Spec == Init /\ [][Next]_vars

-----------------------------------------------------------------------------
\* Before and after a restart, a client receives what it has subscribed to and
\* not unsubscribed from ("the implementation should load the subscriptions of
\* the given clients into memory").
SubscriptionsRestored == \A c \in Clients : memStore[c] = made[c]

\* A QoS 2 identifier is recognised until its PUBREL, also after a restart
\* ("the implementation should retrieve the associated data from backend
\* store").
UnackRestored == unack = unreleased
=============================================================================
