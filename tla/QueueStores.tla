----------------------------- MODULE QueueStores ----------------------------
(***************************************************************************)
(* The queue of one session with either persistence backend: the server    *)
(* creates one persistence from persistence.type of the configuration and  *)
(* takes every session's queue from it                                     *)
(* (gmqtt/server/persistence.go, gmqtt/persistence/{memory,redis}.go).     *)
(* Both backends implement the same interface, queue.Store, whose          *)
(* promises are the properties below.                                      *)
(***************************************************************************)
EXTENDS RedisQueue

CONSTANT Backends

ASSUME BackendsAssumption == Backends \subseteq {"memory", "redis"}

VARIABLE backend

redisVars == <<len, readCache, inited, owed, done, crashes>>
storeVars == <<rqVars, backend>>

\* The configuration is read once, at the start.
StoreInit == RedisInit /\ backend \in Backends

memory == backend = "memory" /\ Next /\ UNCHANGED redisVars
redis == backend = "redis" /\ RedisNext

StoreNext == (memory \/ redis) /\ UNCHANGED backend

StoreSpec == StoreInit /\ [][StoreNext]_storeVars

-----------------------------------------------------------------------------
(* Properties of the stores; the others that both promise are MemQueue's. *)

\* Both backends drop a live QoS 1 or 2 message not read yet only as the last
\* resort of queue.go: DropsLastResort of MemQueue.  Until Init the redis one
\* counts the messages since the restart only, and looks for a victim among
\* as many from the front of the list: there it does not hold.
StoreDropsLastResort ==
    [][(backend = "redis" => inited) => DropsByPriority]_storeVars

\* The fields of the redis Queue object agree with the list in redis after any
\* crash, reconnect and order of acknowledgements: InStep of RedisQueue.
RedisInStep == backend = "redis" => InStep

\* Whatever crashes come in the middle of Add and Read, the redis backend
\* accounts for every message given to Add: NothingLost of RedisQueue.
RedisNothingLost == backend = "redis" => NothingLost
=============================================================================
