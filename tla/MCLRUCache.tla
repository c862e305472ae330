----------------------------- MODULE MCLRUCache -----------------------------
(* LRUCache for TLC: a shard of capacity two that three keys compete for,    *)
(* and a second shard; one node more than a full list has, so that a freed   *)
(* node may be used again at once or not.                                    *)
EXTENDS LRUCache

CONSTANTS k1, k2, k3, k4, v1, v2, s1, s2, n1, n2, n3

MCKeys == {k1, k2, k3, k4}
MCValues == {v1, v2}
MCShards == {s1, s2}
MCShardOf == [k \in MCKeys |-> IF k = k4 THEN s2 ELSE s1]
MCNodes == {n1, n2, n3}

=============================================================================
