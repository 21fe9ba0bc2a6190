--------------------------- MODULE MCQueueStores ----------------------------
(* The queue of one session in memory and in redis, driven in every order    *)
(* the broker allows, with crashes for the one in redis.                     *)
EXTENDS QueueStores
=============================================================================
