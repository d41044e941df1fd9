---------------------------- MODULE MCBatchLock ----------------------------
(* Three keys: 1 and 3 in one shard, 2 in another. *)
EXTENDS BatchLock

MCShardOf == [k \in Keys |-> k % 2]

=============================================================================
