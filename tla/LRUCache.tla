------------------------------ MODULE LRUCache ------------------------------
(***************************************************************************)
(* ShardedLRUCache (src/Server/src/cache.cpp).  A shard is a std::list of  *)
(* keys, the one used last in front, and a hash map from a key to its      *)
(* value and an iterator into that list.  Every operation holds its        *)
(* shard's mutex from beginning to end: each is one action.                *)
(*                                                                         *)
(* An iterator is a list node.  Nodes have an identity: push_front takes   *)
(* any node that is not in the shard's list, in particular one an erase    *)
(* has just freed, so that an iterator that is not kept up to date can     *)
(* come to point to another key's node.                                    *)
(*                                                                         *)
(* An operator marked "Faulty" is not part of the specification: it is the *)
(* next operation as a plausible bug would have it, and breaks a property. *)
(***************************************************************************)
EXTENDS Naturals, Sequences, FiniteSets, SequencesExt

CONSTANTS
    Keys,
    Values,
    NoValue,    \* "cache_get found nothing"
    Shards,
    ShardOf,    \* shard_index: hash(key) % num_shards
    Capacity,   \* per_shard_capacity
    Nodes,      \* the nodes the allocator has for a list
    NoNode,     \* an iterator that points nowhere
    NoEntry     \* "key not in the map"

ASSUME ShardOfAssumption == ShardOf \in [Keys -> Shards]
ASSUME CapacityAssumption == Capacity \in Nat \ {0}
ASSUME NoValueAssumption == NoValue \notin Values
ASSUME NodesAssumption == IsFiniteSet(Nodes) /\ Cardinality(Nodes) >= Capacity

VARIABLES
    lru_list,   \* lru_list[s]: the nodes of shard s, with their keys
    map,        \* map[s][k]: value and iterator of k, or NoEntry
    answer      \* the value the last call returned, NoValue if none

vars == <<lru_list, map, answer>>

ListNode == [node : Nodes, key : Keys]
Entry == [value : Values, it : Nodes]

ASSUME NoEntryAssumption == NoEntry \notin Entry

InMap(s) == {k \in Keys : map[s][k] # NoEntry}

TypeOK ==
    /\ lru_list \in [Shards -> Seq(ListNode)]
    /\ map \in [Shards -> [Keys -> Entry \cup {NoEntry}]]
    /\ answer \in Values \cup {NoValue}

-----------------------------------------------------------------------------
(* std::list operations on a sequence of nodes. *)
Erase(nodes, it) ==
    RemoveAt(nodes, CHOOSE i \in DOMAIN nodes : nodes[i].node = it)

PushFront(nodes, n, k) == Cons([node |-> n, key |-> k], nodes)

FreeNodes(nodes) == Nodes \ {x.node : x \in Range(nodes)}

Init ==
    /\ lru_list = [s \in Shards |-> <<>>]
    /\ map = [s \in Shards |-> [k \in Keys |-> NoEntry]]
    /\ answer = NoValue

-----------------------------------------------------------------------------
(* k gets a new node in front of rest, what remains of its shard's list,   *)
(* and the entry <<v, that node>> in entries, what remains of the map.     *)
AddFront(k, v, rest, entries) ==
    LET s == ShardOf[k] IN
    \E n \in FreeNodes(rest) :
       /\ lru_list' = [lru_list EXCEPT ![s] = PushFront(rest, n, k)]
       /\ map' = [map EXCEPT ![s] = [entries EXCEPT ![k] = [value |-> v, it |-> n]]]

list(k) == lru_list[ShardOf[k]]
entry(k) == map[ShardOf[k]][k]
full(k) == Cardinality(InMap(ShardOf[k])) >= Capacity

(* Faulty: cache_get with map[key] for map.find(key) inserts an entry. *)
GetMissInserts(k) ==
    /\ entry(k) = NoEntry
    /\ \E v \in Values :
          map' = [map EXCEPT ![ShardOf[k]][k] = [value |-> v, it |-> NoNode]]
    /\ answer' = NoValue
    /\ UNCHANGED lru_list

(* cache_get that finds nothing. *)
GetMiss(k) ==
    /\ entry(k) = NoEntry
    /\ answer' = NoValue
    /\ UNCHANGED <<lru_list, map>>

(* Faulty: the node is moved, the old iterator stays in the map. *)
GetHitStaleIterator(k) ==
    /\ entry(k) # NoEntry
    /\ LET rest == Erase(list(k), entry(k).it) IN
       \E n \in FreeNodes(rest) :
          lru_list' = [lru_list EXCEPT ![ShardOf[k]] = PushFront(rest, n, k)]
    /\ answer' = entry(k).value
    /\ UNCHANGED map

(* Faulty: the key is not moved to the front. *)
GetHitNoMove(k) ==
    /\ entry(k) # NoEntry
    /\ answer' = entry(k).value
    /\ UNCHANGED <<lru_list, map>>

(* cache_get: erase the node, push a new one, take its iterator. *)
GetHit(k) ==
    /\ entry(k) # NoEntry
    /\ AddFront(k, entry(k).value, Erase(list(k), entry(k).it), map[ShardOf[k]])
    /\ answer' = entry(k).value

(* cache_put of a key that is there. *)
PutUpdate(k, v) ==
    /\ entry(k) # NoEntry
    /\ AddFront(k, v, Erase(list(k), entry(k).it), map[ShardOf[k]])
    /\ answer' = NoValue

(* Faulty: a shard is full when size() > capacity. *)
PutNewLate(k, v) ==
    /\ entry(k) = NoEntry
    /\ Cardinality(InMap(ShardOf[k])) <= Capacity
    /\ AddFront(k, v, list(k), map[ShardOf[k]])
    /\ answer' = NoValue

(* cache_put of a new key, with room for it. *)
PutNew(k, v) ==
    /\ entry(k) = NoEntry
    /\ ~full(k)
    /\ AddFront(k, v, list(k), map[ShardOf[k]])
    /\ answer' = NoValue

(* cache_put of a new key into a full shard: the key at the back goes. *)
PutEvict(k, v) ==
    /\ entry(k) = NoEntry
    /\ full(k)
    /\ AddFront(k, v, Front(list(k)),
                [map[ShardOf[k]] EXCEPT ![Last(list(k)).key] = NoEntry])
    /\ answer' = NoValue

(* cache_delete. *)
DeleteHit(k) ==
    /\ entry(k) # NoEntry
    /\ lru_list' = [lru_list EXCEPT ![ShardOf[k]] = Erase(@, entry(k).it)]
    /\ map' = [map EXCEPT ![ShardOf[k]][k] = NoEntry]
    /\ answer' = NoValue

DeleteMiss(k) ==
    /\ entry(k) = NoEntry
    /\ answer' = NoValue
    /\ UNCHANGED <<lru_list, map>>

Next ==
    \E k \in Keys :
       \/ GetMiss(k)
       \/ GetHit(k)
       \/ \E v \in Values : PutUpdate(k, v) \/ PutNew(k, v) \/ PutEvict(k, v)
       \/ DeleteHit(k)
       \/ DeleteMiss(k)

Spec == Init /\ [][Next]_vars

-----------------------------------------------------------------------------
(* Every iterator in the map points to the one node of the list that holds *)
(* its key, and the list has no other nodes: lru_list.erase(it) never      *)
(* meets a freed node or another key's, and back() has a map entry.        *)
IteratorsValid ==
    \A s \in Shards :
       /\ Len(lru_list[s]) = Cardinality(InMap(s))
       /\ \A k \in InMap(s) :
             \E i \in DOMAIN lru_list[s] :
                lru_list[s][i] = [node |-> map[s][k].it, key |-> k]

(* A shard never holds more keys than its capacity, in list or map. *)
WithinCapacity ==
    \A s \in Shards :
       Len(lru_list[s]) <= Capacity /\ Cardinality(InMap(s)) <= Capacity

(* Pairs of keys whose first stands behind the second in a list: it was    *)
(* used before it.                                                         *)
usedBefore ==
    {p \in Keys \X Keys :
        \E s \in Shards : \E m, n \in DOMAIN lru_list[s] :
           m < n /\ lru_list[s][n].key = p[1] /\ lru_list[s][m].key = p[2]}

(* What the cache holds for each key. *)
contents ==
    [k \in Keys |-> IF entry(k) = NoEntry THEN NoValue ELSE entry(k).value]

(* Lists and iterators implement an LRU cache: the order of use, the       *)
(* eviction of the key used longest ago and of no other, the values.       *)
Abstract == INSTANCE LRUSpec WITH store <- contents

LRURefinement == Abstract!Specification

=============================================================================
