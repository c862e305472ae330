----------------------------- MODULE MCKVServer -----------------------------
(* KVServer for TLC.  The sets of threads, connections, keys and values are  *)
(* those of the .cfg; all keys share one cache shard, and as many as fit     *)
(* into it are fewer than there are.                                         *)
EXTENDS KVServer, TLC

MCShardOf == [k \in Keys |-> 0]

(* Threads, connections, keys and values are interchangeable.  Used where    *)
(* only invariants are checked.                                              *)
MCSymmetry ==
    Permutations(Threads) \cup Permutations(Conns)
        \cup Permutations(Keys) \cup Permutations(Values)

=============================================================================
