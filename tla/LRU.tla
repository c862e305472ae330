-------------------------------- MODULE LRU ---------------------------------
(***************************************************************************)
(* What a sharded LRU cache does to its contents, without lists, maps or   *)
(* iterators: which keys have a value, and which of two keys of one shard  *)
(* was used before the other.                                              *)
(***************************************************************************)
EXTENDS Naturals, FiniteSets

CONSTANTS
    Keys,
    Values,
    NoValue,    \* "not in the cache"
    ShardOf,    \* ShardOf[k]: the shard of key k
    Capacity    \* the number of keys a shard can hold

VARIABLES
    store,      \* store[k]: the cached value of k, or NoValue
    usedBefore  \* pairs <<j, k>> of one shard: j's last use is older than k's

CacheInit ==
    /\ store = [k \in Keys |-> NoValue]
    /\ usedBefore = {}

Cached == {k \in Keys : store[k] # NoValue}

(* The cached keys that share k's shard. *)
Shard(k) == {j \in Cached : ShardOf[j] = ShardOf[k]}

(* The order of use without the keys in gone ... *)
Forget(gone) == {p \in usedBefore : p[1] \notin gone /\ p[2] \notin gone}

(* ... and when k, too, has just been used. *)
UseLast(k, gone) ==
    Forget(gone \cup {k}) \cup {<<j, k>> : j \in Shard(k) \ (gone \cup {k})}

Get(k) ==
    /\ usedBefore' = IF store[k] = NoValue THEN usedBefore
                     ELSE UseLast(k, {})
    /\ UNCHANGED store

(* The key is in the cache, or there is room for it in its shard. *)
PutInPlace(k, v) ==
    /\ store[k] # NoValue \/ Cardinality(Shard(k)) < Capacity
    /\ store' = [store EXCEPT ![k] = v]
    /\ usedBefore' = UseLast(k, {})

(* The shard is full: the key used longest ago goes. *)
PutEvicting(k, v) ==
    /\ store[k] = NoValue
    /\ Cardinality(Shard(k)) >= Capacity
    /\ \E old \in Shard(k) :
          /\ \A j \in Shard(k) : <<j, old>> \notin usedBefore
          /\ store' = [store EXCEPT ![old] = NoValue, ![k] = v]
          /\ usedBefore' = UseLast(k, {old})

Put(k, v) == PutInPlace(k, v) \/ PutEvicting(k, v)

Delete(k) ==
    /\ store' = [store EXCEPT ![k] = NoValue]
    /\ usedBefore' = Forget({k})

=============================================================================
