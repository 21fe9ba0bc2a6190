---------------------------- MODULE MCRedisStores ----------------------------
(* A client id that TrimLeft leaves alone, and one that it cuts.              *)
EXTENDS RedisStores, TLC

CONSTANTS dev1, sensor1, ensor1

MCTrimLeft == (dev1 :> dev1) @@ (sensor1 :> ensor1)
=============================================================================
