--------------------------- MODULE MCRedisClient ----------------------------
(***************************************************************************)
(* Small instances of the connection to redis for TLC.  The banker's save  *)
(* is a call without a timeout, select() and test() are calls with one.    *)
(***************************************************************************)
EXTENDS RedisClient, TLC

CONSTANTS save, ping, multi

SaveAndPing == save :> 1 @@ ping :> 1
Sizes == SaveAndPing @@ multi :> 2
=============================================================================
