--------------------------- MODULE LRUCacheProofs ---------------------------
(***************************************************************************)
(* Proofs about ShardedLRUCache, for any keys, values, shards and (finite  *)
(* and large enough) capacity and node supply.  The properties of LRUCache *)
(* count entries and nodes; the inductive invariant CacheInv says instead  *)
(* which node belongs to which entry, from which the counts follow.        *)
(***************************************************************************)
EXTENDS LRUCache, FiniteSetTheorems, SequenceTheorems, TLAPS

(* List l and map m of a shard agree on every key but those in gone: each  *)
(* node has a node of its own, the map's iterator for its key points to    *)
(* it, and each key in the map has such a node.                            *)
LinkedBut(l, m, gone) ==
    /\ \A i, j \in 1 .. Len(l) : l[i].node = l[j].node => i = j
    /\ \A i \in 1 .. Len(l) :
          /\ l[i].key \notin gone
          /\ m[l[i].key] # NoEntry
          /\ m[l[i].key].it = l[i].node
    /\ \A k \in Keys \ gone :
          m[k] # NoEntry =>
             \E i \in 1 .. Len(l) : l[i].key = k /\ l[i].node = m[k].it

Linked(l, m) == LinkedBut(l, m, {})

Maps == [Keys -> Entry \cup {NoEntry}]

(* m has entries for the keys of shard s only. *)
AtHome(m, s) == \A k \in Keys : m[k] # NoEntry => ShardOf[k] = s

CacheInv ==
    /\ TypeOK
    /\ \A s \in Shards :
          /\ Linked(lru_list[s], map[s])
          /\ Len(lru_list[s]) <= Capacity
          /\ AtHome(map[s], s)

-----------------------------------------------------------------------------
(* r is l without its node at position i. *)
Without(r, l, i) ==
    /\ r \in Seq(ListNode)
    /\ Len(r) = Len(l) - 1
    /\ \A j \in 1 .. Len(r) : r[j] = IF j < i THEN l[j] ELSE l[j + 1]

(* What remains when position i is removed: what RemoveAt is for. *)
LEMMA RemoveAtWithout ==
    ASSUME NEW l \in Seq(ListNode), NEW i \in 1 .. Len(l)
    PROVE  Without(RemoveAt(l, i), l, i)
<1> DEFINE a == SubSeq(l, 1, i - 1)
           b == SubSeq(l, i + 1, Len(l))
<1>1. Len(l) \in Nat /\ \A j \in 1 .. Len(l) : l[j] \in ListNode
  BY LenProperties, ElementOfSeq
<1>2. /\ a \in Seq(ListNode) /\ Len(a) = i - 1
      /\ \A j \in 1 .. i - 1 : a[j] = l[j]
  <2>1. \A j \in 1 .. i - 1 : l[j] \in ListNode
    BY <1>1
  <2> QED BY <1>1, <2>1, SubSeqProperties
<1>3. /\ b \in Seq(ListNode) /\ Len(b) = Len(l) - i
      /\ \A j \in 1 .. Len(l) - i : b[j] = l[i + j]
  <2>1. \A j \in i + 1 .. Len(l) : l[j] \in ListNode
    BY <1>1
  <2> QED BY <1>1, <2>1, SubSeqProperties
<1> HIDE DEF a, b
<1>4. RemoveAt(l, i) = a \o b
  BY DEF RemoveAt, a, b
<1>5. /\ a \o b \in Seq(ListNode) /\ Len(a \o b) = Len(l) - 1
      /\ \A j \in 1 .. Len(l) - 1 :
            (a \o b)[j] = IF j <= i - 1 THEN a[j] ELSE b[j - (i - 1)]
  <2>1. /\ a \o b \in Seq(ListNode)
        /\ Len(a \o b) = Len(a) + Len(b)
        /\ \A j \in 1 .. Len(a) + Len(b) :
              (a \o b)[j] = IF j <= Len(a) THEN a[j] ELSE b[j - Len(a)]
    BY ONLY <1>2, <1>3, ConcatProperties
  <2>2. Len(a) + Len(b) = Len(l) - 1
    BY <1>1, <1>2, <1>3
  <2> QED BY <1>2, <2>1, <2>2
<1>6. ASSUME NEW j \in 1 .. Len(l) - 1
      PROVE  (a \o b)[j] = IF j < i THEN l[j] ELSE l[j + 1]
  <2>1. CASE j < i
    BY <2>1, <1>1, <1>2, <1>5
  <2>2. CASE j >= i
    <3>1. j - (i - 1) \in 1 .. Len(l) - i /\ i + (j - (i - 1)) = j + 1
      BY <2>2, <1>1
    <3>2. (a \o b)[j] = b[j - (i - 1)]
      BY <2>2, <1>1, <1>5
    <3> QED BY <3>1, <3>2, <2>2, <1>1, <1>3
  <2>3. j < i \/ j >= i
    BY <1>1
  <2> QED BY <2>1, <2>2, <2>3
<1> QED BY <1>4, <1>5, <1>6 DEF Without

(* pop_back. *)
LEMMA FrontWithout ==
    ASSUME NEW l \in Seq(ListNode), l # <<>>
    PROVE  /\ Len(l) \in 1 .. Len(l)
           /\ Without(Front(l), l, Len(l))
<1>1. Len(l) \in Nat \ {0} /\ \A j \in 1 .. Len(l) : l[j] \in ListNode
  BY EmptySeq, ElementOfSeq
<1>2. \A j \in 1 .. Len(l) - 1 : l[j] \in ListNode
  BY <1>1
<1> DEFINE r == SubSeq(l, 1, Len(l) - 1)
<1>3. /\ r \in Seq(ListNode)
      /\ Len(r) = IF 1 <= Len(l) - 1 THEN (Len(l) - 1) - 1 + 1 ELSE 0
      /\ \A j \in 1 .. (Len(l) - 1) - 1 + 1 : r[j] = l[1 + j - 1]
  <2>1. 1 \in Int /\ Len(l) - 1 \in Int
    BY <1>1
  <2> QED BY ONLY <1>2, <2>1, SubSeqProperties
<1> HIDE DEF r
<1>4. Len(r) = Len(l) - 1 /\ \A j \in 1 .. Len(r) : r[j] = l[j]
  <2>1. Len(r) = Len(l) - 1
    <3>1. Len(l) \in Nat /\ (Len(l) = 1 \/ 1 <= Len(l) - 1)
      <4>1. \A n \in Nat : n # 0 => n = 1 \/ 1 <= n - 1
        OBVIOUS
      <4> QED BY <4>1, <1>1
    <3>2. CASE 1 <= Len(l) - 1
      <4>1. Len(r) = (Len(l) - 1) - 1 + 1
        BY ONLY <3>2, <1>3
      <4> QED BY ONLY <4>1, <3>1
    <3>3. CASE Len(l) = 1
      <4>1. ~(1 <= Len(l) - 1)
        BY ONLY <3>3
      <4>2. Len(r) = 0
        BY ONLY <4>1, <1>3
      <4> QED BY ONLY <4>2, <3>3
    <3> QED BY <3>1, <3>2, <3>3
  <2>2. ASSUME NEW j \in 1 .. Len(r)
        PROVE  r[j] = l[j]
    <3>1. j \in 1 .. (Len(l) - 1) - 1 + 1 /\ 1 + j - 1 = j
      BY <1>1, <2>1
    <3> QED BY <3>1, <1>3
  <2> QED BY <2>1, <2>2
<1>5. Front(l) = r
  BY DEF Front, r
<1>6. \A j \in 1 .. Len(r) : r[j] = IF j < Len(l) THEN l[j] ELSE l[j + 1]
  BY <1>1, <1>4
<1>7. Without(r, l, Len(l))
  BY <1>3, <1>4, <1>6 DEF Without
<1> QED BY <1>1, <1>5, <1>7

(* push_front. *)
LEMMA PushedFront ==
    ASSUME NEW r \in Seq(ListNode), NEW n \in Nodes, NEW k \in Keys
    PROVE  /\ PushFront(r, n, k) \in Seq(ListNode)
           /\ Len(PushFront(r, n, k)) = Len(r) + 1
           /\ PushFront(r, n, k)[1] = [node |-> n, key |-> k]
           /\ \A j \in 2 .. Len(r) + 1 : PushFront(r, n, k)[j] = r[j - 1]
<1> DEFINE x == [node |-> n, key |-> k]
<1>1. Len(r) \in Nat
  BY LenProperties
<1>2. <<x>> \in Seq(ListNode) /\ Len(<<x>>) = 1 /\ <<x>>[1] = x
  BY DEF ListNode
<1>3. /\ <<x>> \o r \in Seq(ListNode)
      /\ Len(<<x>> \o r) = 1 + Len(r)
      /\ \A j \in 1 .. 1 + Len(r) :
            (<<x>> \o r)[j] = IF j <= 1 THEN <<x>>[j] ELSE r[j - 1]
  BY <1>2, ConcatProperties
<1>4. PushFront(r, n, k) = <<x>> \o r
  BY DEF PushFront, Cons
<1> QED BY <1>1, <1>2, <1>3, <1>4

-----------------------------------------------------------------------------
(* Erasing the node at i unlinks its key and no other. *)
LEMMA Unlink ==
    ASSUME NEW l \in Seq(ListNode), NEW m \in Maps, NEW gone, Linked(l, m),
           NEW i \in 1 .. Len(l), NEW r, Without(r, l, i)
    PROVE  LinkedBut(r, m, {l[i].key})
<1>1. Len(l) \in Nat /\ \A j \in 1 .. Len(l) : l[j] \in ListNode
  BY LenProperties, ElementOfSeq
<1> DEFINE at(j) == IF j < i THEN j ELSE j + 1
<1>2. /\ Len(r) = Len(l) - 1
      /\ \A j \in 1 .. Len(r) : at(j) \in 1 .. Len(l) /\ at(j) # i /\ r[j] = l[at(j)]
      /\ \A j, h \in 1 .. Len(r) : at(j) = at(h) => j = h
      /\ \A j \in 1 .. Len(l) : j # i => \E h \in 1 .. Len(r) : at(h) = j
  <2>1. Len(r) = Len(l) - 1
    BY DEF Without
  <2>2. \A j \in 1 .. Len(r) : at(j) \in 1 .. Len(l) /\ at(j) # i /\ r[j] = l[at(j)]
    BY <1>1, <2>1 DEF Without
  <2>3. \A j, h \in 1 .. Len(r) : at(j) = at(h) => j = h
    BY <1>1, <2>1
  <2>4. ASSUME NEW j \in 1 .. Len(l), j # i
        PROVE  \E h \in 1 .. Len(r) : at(h) = j
    <3>1. CASE j < i
      BY <3>1, <1>1, <2>1
    <3>2. CASE j > i
      <4>1. j - 1 \in 1 .. Len(r) /\ at(j - 1) = j
        BY <3>2, <1>1, <2>1
      <4> QED BY <4>1
    <3> QED BY <3>1, <3>2, <2>4, <1>1
  <2> QED BY <2>1, <2>2, <2>3, <2>4
<1> HIDE DEF at
<1>3. \A j, h \in 1 .. Len(r) : r[j].node = r[h].node => j = h
  BY SMTT(30), <1>2 DEF Linked, LinkedBut
<1>4. ASSUME NEW j \in 1 .. Len(r)
      PROVE  /\ r[j].key \notin {l[i].key}
             /\ m[r[j].key] # NoEntry
             /\ m[r[j].key].it = r[j].node
  <2>1. /\ at(j) \in 1 .. Len(l) /\ at(j) # i /\ r[j] = l[at(j)]
    BY <1>2
  <2>2. r[j].key # l[i].key
    BY <2>1 DEF Linked, LinkedBut
  <2> QED BY <2>1, <2>2 DEF Linked, LinkedBut
<1>5. ASSUME NEW k \in Keys \ {l[i].key}, m[k] # NoEntry
      PROVE  \E j \in 1 .. Len(r) : r[j].key = k /\ r[j].node = m[k].it
  <2>1. PICK h \in 1 .. Len(l) : l[h].key = k /\ l[h].node = m[k].it
    BY <1>5 DEF Linked, LinkedBut
  <2>2. h # i
    BY <2>1
  <2>3. PICK j \in 1 .. Len(r) : at(j) = h
    BY <1>2, <2>2
  <2> QED BY <2>1, <2>3, <1>2
<1> QED BY <1>3, <1>4, <1>5 DEF LinkedBut

(* A new front node links its key. *)
LEMMA Link ==
    ASSUME NEW r \in Seq(ListNode), NEW m \in Maps, NEW k \in Keys,
           LinkedBut(r, m, {k}), NEW n \in FreeNodes(r), NEW v \in Values
    PROVE  /\ PushFront(r, n, k) \in Seq(ListNode)
           /\ Len(PushFront(r, n, k)) = Len(r) + 1
           /\ [m EXCEPT ![k] = [value |-> v, it |-> n]] \in Maps
           /\ Linked(PushFront(r, n, k), [m EXCEPT ![k] = [value |-> v, it |-> n]])
<1> DEFINE p == PushFront(r, n, k)
           e == [value |-> v, it |-> n]
           q == [m EXCEPT ![k] = e]
<1>1. Len(r) \in Nat /\ DOMAIN r = 1 .. Len(r) /\ \A j \in 1 .. Len(r) : r[j] \in ListNode
  BY LenProperties, ElementOfSeq
<1>2. n \in Nodes /\ \A j \in 1 .. Len(r) : r[j].node # n
  BY <1>1 DEF FreeNodes, Range
<1>3. /\ p \in Seq(ListNode) /\ Len(p) = Len(r) + 1
      /\ p[1] = [node |-> n, key |-> k]
      /\ \A j \in 2 .. Len(r) + 1 : p[j] = r[j - 1]
  BY <1>2, PushedFront
<1>4. e \in Entry /\ e # NoEntry /\ e.it = n
  BY <1>2, NoEntryAssumption DEF Entry
<1>5. q \in Maps /\ q[k] = e /\ \A j \in Keys \ {k} : q[j] = m[j]
  BY <1>4 DEF Maps
<1> HIDE DEF p, q, e
<1>6. \A j \in 2 .. Len(r) + 1 : j - 1 \in 1 .. Len(r) /\ p[j] = r[j - 1]
  BY <1>1, <1>3
<1>7. ASSUME NEW i \in 1 .. Len(p), NEW j \in 1 .. Len(p), p[i].node = p[j].node
      PROVE  i = j
  <2>1. \A h \in 2 .. Len(r) + 1 : p[h].node # n
    BY <1>2, <1>6
  <2>2. CASE i = 1 \/ j = 1
    BY <2>1, <2>2, <1>7, <1>1, <1>3
  <2>3. CASE i # 1 /\ j # 1
    <3>1. i \in 2 .. Len(r) + 1 /\ j \in 2 .. Len(r) + 1
      BY <2>3, <1>1, <1>3
    <3>2. r[i - 1].node = r[j - 1].node
      BY <3>1, <1>6, <1>7
    <3>3. i - 1 = j - 1
      BY <3>1, <3>2, <1>6 DEF LinkedBut
    <3> QED BY <3>1, <3>3, <1>1
  <2> QED BY <2>2, <2>3
<1>8. ASSUME NEW i \in 1 .. Len(p)
      PROVE  q[p[i].key] # NoEntry /\ q[p[i].key].it = p[i].node
  <2>1. CASE i = 1
    BY <2>1, <1>3, <1>4, <1>5
  <2>2. CASE i # 1
    <3>1. i \in 2 .. Len(r) + 1
      BY <2>2, <1>1, <1>3
    <3>2. r[i - 1] \in ListNode
      BY <3>1, <1>6, <1>1
    <3>3. p[i].key \in Keys \ {k}
      BY <3>1, <3>2, <1>6 DEF LinkedBut, ListNode
    <3> QED BY SMTT(30), <3>1, <3>3, <1>5, <1>6 DEF LinkedBut
  <2> QED BY <2>1, <2>2
<1>9. ASSUME NEW j \in Keys, q[j] # NoEntry
      PROVE  \E i \in 1 .. Len(p) : p[i].key = j /\ p[i].node = q[j].it
  <2>1. CASE j = k
    <3>1. 1 \in 1 .. Len(p) /\ p[1].key = j /\ p[1].node = q[j].it
      BY <2>1, <1>1, <1>3, <1>4, <1>5
    <3> QED BY <3>1
  <2>2. CASE j # k
    <3>1. q[j] = m[j] /\ j \in Keys \ {k}
      BY <2>2, <1>5
    <3>2. PICK i \in 1 .. Len(r) : r[i].key = j /\ r[i].node = m[j].it
      BY <3>1, <1>9 DEF LinkedBut
    <3>3. i + 1 \in 1 .. Len(p) /\ p[i + 1] = r[i]
      BY <3>2, <1>1, <1>3
    <3> QED BY <3>1, <3>2, <3>3
  <2> QED BY <2>1, <2>2
<1>10. Linked(p, q)
  BY <1>7, <1>8, <1>9 DEF Linked, LinkedBut
<1> QED BY <1>3, <1>5, <1>10 DEF p, q, e

(* A key without an entry is unlinked; erasing the entry links what is left. *)
LEMMA Unmapped ==
    ASSUME NEW l \in Seq(ListNode), NEW m \in Maps, NEW k \in Keys
    PROVE  /\ Linked(l, m) /\ m[k] = NoEntry => LinkedBut(l, m, {k})
           /\ [m EXCEPT ![k] = NoEntry] \in Maps
           /\ LinkedBut(l, m, {k}) => Linked(l, [m EXCEPT ![k] = NoEntry])
           /\ \A s : AtHome(m, s) => AtHome([m EXCEPT ![k] = NoEntry], s)
<1>1. Len(l) \in Nat /\ \A j \in 1 .. Len(l) : l[j].key \in Keys
  <2>1. Len(l) \in Nat /\ \A j \in 1 .. Len(l) : l[j] \in ListNode
    BY LenProperties, ElementOfSeq
  <2> QED BY <2>1 DEF ListNode
<1>2. [m EXCEPT ![k] = NoEntry] \in Maps
  BY DEF Maps
<1>3. Linked(l, m) /\ m[k] = NoEntry => LinkedBut(l, m, {k})
  BY <1>1 DEF Linked, LinkedBut
<1>4. LinkedBut(l, m, {k}) => Linked(l, [m EXCEPT ![k] = NoEntry])
  BY <1>1 DEF Linked, LinkedBut, Maps
<1>5. \A s : AtHome(m, s) => AtHome([m EXCEPT ![k] = NoEntry], s)
  BY DEF AtHome, Maps
<1> QED BY <1>2, <1>3, <1>4, <1>5

(* Linked list and map have the same number of elements: the keys of the   *)
(* list are a bijection from its positions to the keys in the map.         *)
LEMMA Counted ==
    ASSUME NEW l \in Seq(ListNode), NEW m \in Maps, Linked(l, m)
    PROVE  LET used == {k \in Keys : m[k] # NoEntry} IN
           IsFiniteSet(used) /\ Cardinality(used) = Len(l)
<1> DEFINE used == {k \in Keys : m[k] # NoEntry}
           f == [i \in 1 .. Len(l) |-> l[i].key]
<1>1. Len(l) \in Nat /\ \A j \in 1 .. Len(l) : l[j].key \in Keys
  <2>1. Len(l) \in Nat /\ \A j \in 1 .. Len(l) : l[j] \in ListNode
    BY LenProperties, ElementOfSeq
  <2> QED BY <2>1 DEF ListNode
<1>2. \A i, j \in 1 .. Len(l) : l[i].key = l[j].key => i = j
  BY DEF Linked, LinkedBut
<1>3. \A i \in 1 .. Len(l) : l[i].key \in used
  BY <1>1 DEF Linked, LinkedBut
<1>4. \A k \in used : \E i \in 1 .. Len(l) : l[i].key = k
  BY DEF Linked, LinkedBut
<1> HIDE DEF used
<1>5. f \in Bijection(1 .. Len(l), used)
  <2>1. f \in [1 .. Len(l) -> used] /\ DOMAIN f = 1 .. Len(l)
    BY <1>3
  <2>2. IsInjective(f)
    BY <1>2, <2>1 DEF IsInjective
  <2>3. \A k \in used : \E i \in 1 .. Len(l) : f[i] = k
    BY <1>4
  <2> QED BY <2>1, <2>2, <2>3 DEF Bijection, Injection, Surjection
<1>6. ExistsBijection(1 .. Len(l), used)
  BY <1>5 DEF ExistsBijection
<1>7. IsFiniteSet(1 .. Len(l)) /\ Cardinality(1 .. Len(l)) = Len(l)
  <2>1. /\ IsFiniteSet(1 .. Len(l))
        /\ Cardinality(1 .. Len(l)) = IF 1 > Len(l) THEN 0 ELSE Len(l) - 1 + 1
    BY <1>1, 1 \in Int, Len(l) \in Int, FS_Interval
  <2> QED BY <2>1, <1>1
<1> QED BY <1>6, <1>7, FS_Bijection DEF used

(* std::list::erase with the iterator of k's entry. *)
LEMMA Erased ==
    ASSUME NEW l \in Seq(ListNode), NEW m \in Maps, Linked(l, m),
           NEW k \in Keys, m[k] # NoEntry
    PROVE  \E i \in 1 .. Len(l) :
              /\ l[i].key = k
              /\ Without(Erase(l, m[k].it), l, i)
              /\ LinkedBut(Erase(l, m[k].it), m, {k})
<1>1. Len(l) \in Nat /\ DOMAIN l = 1 .. Len(l)
  BY LenProperties
<1>2. PICK i \in 1 .. Len(l) : l[i].key = k /\ l[i].node = m[k].it
  BY DEF Linked, LinkedBut
<1>3. i = CHOOSE j \in DOMAIN l : l[j].node = m[k].it
  BY <1>1, <1>2 DEF Linked, LinkedBut
<1>4. Erase(l, m[k].it) = RemoveAt(l, i)
  BY <1>3 DEF Erase
<1>5. Without(RemoveAt(l, i), l, i)
  BY RemoveAtWithout
<1>6. LinkedBut(RemoveAt(l, i), m, {k})
  BY <1>2, <1>5, Unlink
<1> QED BY <1>2, <1>4, <1>5, <1>6

-----------------------------------------------------------------------------
(* list, map: one shard is replaced by a list and a map that are linked. *)
Replaced(s, l, m) ==
    /\ lru_list' = [lru_list EXCEPT ![s] = l]
    /\ map' = [map EXCEPT ![s] = m]

LEMMA ShardReplaced ==
    ASSUME CacheInv, NEW s \in Shards, NEW l \in Seq(ListNode), NEW m \in Maps,
           Linked(l, m), Len(l) <= Capacity, AtHome(m, s), Replaced(s, l, m),
           answer' \in Values \cup {NoValue}
    PROVE  CacheInv'
<1>1. TypeOK'
  BY DEF CacheInv, TypeOK, Replaced, Maps
<1>2. ASSUME NEW t \in Shards
      PROVE  /\ Linked(lru_list[t], map[t])'
             /\ Len(lru_list[t])' <= Capacity
             /\ AtHome(map[t], t)'
  <2>1. CASE t = s
    <3>1. lru_list'[t] = l /\ map'[t] = m
      BY <2>1 DEF CacheInv, TypeOK, Replaced
    <3> QED BY <2>1, <3>1 DEF Linked, LinkedBut, AtHome
  <2>2. CASE t # s
    <3>1. lru_list'[t] = lru_list[t] /\ map'[t] = map[t]
      BY <2>2 DEF CacheInv, TypeOK, Replaced
    <3> QED BY <3>1 DEF CacheInv, Linked, LinkedBut, AtHome
  <2> QED BY <2>1, <2>2
<1> QED BY <1>1, <1>2 DEF CacheInv

(* What the invariant says of k's shard. *)
LEMMA ShardOfKey ==
    ASSUME CacheInv, NEW k \in Keys
    PROVE  /\ ShardOf[k] \in Shards
           /\ list(k) \in Seq(ListNode)
           /\ Len(list(k)) \in Nat
           /\ map[ShardOf[k]] \in Maps
           /\ entry(k) = map[ShardOf[k]][k]
           /\ Linked(list(k), map[ShardOf[k]])
           /\ Len(list(k)) <= Capacity
           /\ AtHome(map[ShardOf[k]], ShardOf[k])
           /\ Cardinality(InMap(ShardOf[k])) = Len(list(k))
           /\ entry(k) # NoEntry => entry(k).value \in Values
<1>1. /\ ShardOf[k] \in Shards
      /\ list(k) \in Seq(ListNode)
      /\ map[ShardOf[k]] \in Maps
      /\ entry(k) = map[ShardOf[k]][k]
  BY ShardOfAssumption DEF CacheInv, TypeOK, Maps, list, entry
<1>2. /\ Linked(list(k), map[ShardOf[k]])
      /\ Len(list(k)) <= Capacity
      /\ AtHome(map[ShardOf[k]], ShardOf[k])
  BY <1>1 DEF CacheInv, list
<1>3. Cardinality(InMap(ShardOf[k])) = Len(list(k))
  BY <1>1, <1>2, Counted DEF InMap
<1>4. entry(k) # NoEntry => entry(k).value \in Values
  BY <1>1 DEF Maps, Entry
<1>5. Len(list(k)) \in Nat
  BY <1>1, LenProperties
<1> QED BY <1>1, <1>2, <1>3, <1>4, <1>5

(* What erasing the node of a key leaves of its shard's list. *)
LEMMA RestOfShard ==
    ASSUME CacheInv, NEW k \in Keys, entry(k) # NoEntry
    PROVE  /\ Erase(list(k), entry(k).it) \in Seq(ListNode)
           /\ Len(Erase(list(k), entry(k).it)) < Capacity
           /\ LinkedBut(Erase(list(k), entry(k).it), map[ShardOf[k]], {k})
<1> DEFINE l == list(k)
           m == map[ShardOf[k]]
<1>1. /\ l \in Seq(ListNode) /\ m \in Maps /\ Linked(l, m)
      /\ Len(l) \in Nat /\ Len(l) <= Capacity
      /\ entry(k) = m[k]
  BY ShardOfKey
<1> HIDE DEF l, m
<1>2. PICK i \in 1 .. Len(l) :
         /\ Without(Erase(l, m[k].it), l, i)
         /\ LinkedBut(Erase(l, m[k].it), m, {k})
  BY <1>1, Erased
<1>3. /\ Erase(l, m[k].it) \in Seq(ListNode)
      /\ Len(Erase(l, m[k].it)) < Capacity
  BY <1>1, <1>2, CapacityAssumption DEF Without
<1> QED BY <1>1, <1>2, <1>3 DEF l, m

(* AddFront keeps the invariant when what remains of the shard is linked   *)
(* but for k and has room for it.                                          *)
LEMMA AddFrontStep ==
    ASSUME CacheInv, NEW k \in Keys, NEW v \in Values,
           NEW r \in Seq(ListNode), NEW m \in Maps, LinkedBut(r, m, {k}),
           AtHome(m, ShardOf[k]), Len(r) < Capacity, AddFront(k, v, r, m),
           answer' \in Values \cup {NoValue}
    PROVE  CacheInv'
<1>1. PICK n \in FreeNodes(r) :
         Replaced(ShardOf[k], PushFront(r, n, k),
                  [m EXCEPT ![k] = [value |-> v, it |-> n]])
  BY DEF AddFront, Replaced
<1>2. ShardOf[k] \in Shards
  BY ShardOfKey
<1>3. /\ PushFront(r, n, k) \in Seq(ListNode)
      /\ Len(PushFront(r, n, k)) = Len(r) + 1
      /\ [m EXCEPT ![k] = [value |-> v, it |-> n]] \in Maps
      /\ Linked(PushFront(r, n, k), [m EXCEPT ![k] = [value |-> v, it |-> n]])
  BY Link
<1>4. Len(PushFront(r, n, k)) <= Capacity
  BY <1>3, LenProperties, CapacityAssumption
<1>5. AtHome([m EXCEPT ![k] = [value |-> v, it |-> n]], ShardOf[k])
  BY DEF AtHome, Maps
<1> QED BY <1>1, <1>2, <1>3, <1>4, <1>5, ShardReplaced

-----------------------------------------------------------------------------
LEMMA CacheInitial == Init => CacheInv
<1> SUFFICES ASSUME Init PROVE CacheInv
  OBVIOUS
<1>1. <<>> \in Seq(ListNode) /\ Len(<<>>) = 0
  BY EmptySeq
<1>2. TypeOK
  BY <1>1 DEF Init, TypeOK
<1>3. ASSUME NEW s \in Shards
      PROVE  /\ Linked(lru_list[s], map[s])
             /\ Len(lru_list[s]) <= Capacity
             /\ AtHome(map[s], s)
  <2>1. lru_list[s] = <<>> /\ \A k \in Keys : map[s][k] = NoEntry
    BY DEF Init
  <2> QED BY <1>1, <2>1, CapacityAssumption DEF Linked, LinkedBut, AtHome
<1> QED BY <1>2, <1>3 DEF CacheInv

(* Every call keeps lists and maps linked and within capacity. *)
LEMMA CacheStep == CacheInv /\ [Next]_vars => CacheInv'
<1> SUFFICES ASSUME CacheInv, [Next]_vars PROVE CacheInv'
  OBVIOUS
<1>1. CASE UNCHANGED vars
  BY <1>1 DEF vars, CacheInv, TypeOK, Linked, LinkedBut, AtHome
<1>2. ASSUME NEW k \in Keys, GetMiss(k) \/ DeleteMiss(k) PROVE CacheInv'
  BY <1>2 DEF GetMiss, DeleteMiss, CacheInv, TypeOK, Linked, LinkedBut, AtHome
<1>3. ASSUME NEW k \in Keys, NEW v \in Values, entry(k) # NoEntry,
             AddFront(k, v, Erase(list(k), entry(k).it), map[ShardOf[k]]),
             answer' \in Values \cup {NoValue}
      PROVE  CacheInv'
  <2> DEFINE r == Erase(list(k), entry(k).it)
             m == map[ShardOf[k]]
  <2>1. /\ r \in Seq(ListNode) /\ Len(r) < Capacity
        /\ m \in Maps /\ LinkedBut(r, m, {k}) /\ AtHome(m, ShardOf[k])
    BY <1>3, ShardOfKey, RestOfShard
  <2> HIDE DEF r, m
  <2>2. AddFront(k, v, r, m)
    BY <1>3 DEF r, m
  <2> QED BY <1>3, <2>1, <2>2, AddFrontStep
<1>4. ASSUME NEW k \in Keys, GetHit(k) PROVE CacheInv'
  BY <1>3, <1>4, ShardOfKey DEF GetHit
<1>5. ASSUME NEW k \in Keys, NEW v \in Values, PutUpdate(k, v) PROVE CacheInv'
  BY <1>3, <1>5 DEF PutUpdate
<1>6. ASSUME NEW k \in Keys, NEW v \in Values, PutNew(k, v) PROVE CacheInv'
  <2>1. /\ list(k) \in Seq(ListNode) /\ map[ShardOf[k]] \in Maps
        /\ LinkedBut(list(k), map[ShardOf[k]], {k})
        /\ AtHome(map[ShardOf[k]], ShardOf[k])
    BY <1>6, ShardOfKey, Unmapped DEF PutNew
  <2>2. Len(list(k)) < Capacity
    BY <1>6, ShardOfKey, CapacityAssumption DEF PutNew, full
  <2> QED BY <1>6, <2>1, <2>2, AddFrontStep DEF PutNew
<1>7. ASSUME NEW k \in Keys, NEW v \in Values, PutEvict(k, v) PROVE CacheInv'
  <2> DEFINE l == list(k)
             old == Last(l).key
             m == map[ShardOf[k]]
             q == [m EXCEPT ![old] = NoEntry]
  <2>1. /\ l \in Seq(ListNode) /\ m \in Maps /\ Linked(l, m) /\ m[k] = NoEntry
        /\ Len(l) \in Nat /\ Len(l) >= 1 /\ Len(l) <= Capacity
        /\ AtHome(m, ShardOf[k])
    BY <1>7, ShardOfKey, CapacityAssumption DEF PutEvict, full
  <2>2. AddFront(k, v, Front(l), q) /\ answer' = NoValue
    BY <1>7 DEF PutEvict
  <2>3. l # <<>>
    BY <2>1, EmptySeq
  <2> HIDE DEF l, m
  <2>4. /\ Len(l) \in 1 .. Len(l)
        /\ Without(Front(l), l, Len(l))
    BY <2>1, <2>3, FrontWithout
  <2>5. Last(l) = l[Len(l)] /\ old \in Keys
    <3>1. l[Len(l)] \in ListNode
      BY <2>1, <2>4, ElementOfSeq
    <3> QED BY <3>1 DEF Last, ListNode
  <2>6. /\ Front(l) \in Seq(ListNode) /\ Len(Front(l)) < Capacity
        /\ LinkedBut(Front(l), m, {old})
    BY <2>1, <2>4, <2>5, Unlink, CapacityAssumption DEF Without
  <2> HIDE DEF old
  <2>7. q \in Maps /\ Linked(Front(l), q) /\ AtHome(q, ShardOf[k])
    BY <2>1, <2>5, <2>6, Unmapped
  <2>8. q[k] = NoEntry
    BY <2>1, <2>5 DEF Maps
  <2> HIDE DEF q
  <2>9. LinkedBut(Front(l), q, {k})
    BY <2>6, <2>7, <2>8, Unmapped
  <2> QED BY <2>2, <2>6, <2>7, <2>9, AddFrontStep
<1>8. ASSUME NEW k \in Keys, DeleteHit(k) PROVE CacheInv'
  <2> DEFINE r == Erase(list(k), entry(k).it)
             m == map[ShardOf[k]]
  <2>1. /\ r \in Seq(ListNode) /\ Len(r) < Capacity
        /\ m \in Maps /\ LinkedBut(r, m, {k}) /\ AtHome(m, ShardOf[k])
    BY <1>8, ShardOfKey, RestOfShard DEF DeleteHit
  <2>2. Len(r) <= Capacity
    BY <2>1, LenProperties, CapacityAssumption
  <2>3. Replaced(ShardOf[k], r, [m EXCEPT ![k] = NoEntry])
    BY <1>8, ShardOfKey DEF DeleteHit, Replaced, list, CacheInv, TypeOK
  <2> HIDE DEF r, m
  <2>4. /\ [m EXCEPT ![k] = NoEntry] \in Maps
        /\ Linked(r, [m EXCEPT ![k] = NoEntry])
        /\ AtHome([m EXCEPT ![k] = NoEntry], ShardOf[k])
    BY <2>1, Unmapped
  <2> QED BY <1>8, <2>1, <2>2, <2>3, <2>4, ShardOfKey, ShardReplaced DEF DeleteHit
<1> QED BY <1>1, <1>2, <1>4, <1>5, <1>6, <1>7, <1>8 DEF Next

LEMMA CacheInductive == Spec => []CacheInv
<1> QED BY CacheInitial, CacheStep, PTL DEF Spec

-----------------------------------------------------------------------------
(* The types, for any keys, values, shards and capacity. *)
THEOREM CacheTypeCorrect == Spec => []TypeOK
<1>1. CacheInv => TypeOK
  BY DEF CacheInv
<1> QED BY <1>1, CacheInductive, PTL

(* The iterators in cache.cpp's map always point to their key's node, and  *)
(* map and list have the same size.                                        *)
THEOREM IteratorsStayValid == Spec => []IteratorsValid
<1>1. ASSUME CacheInv PROVE IteratorsValid
  <2> SUFFICES ASSUME NEW s \in Shards
               PROVE  /\ Len(lru_list[s]) = Cardinality(InMap(s))
                      /\ \A k \in InMap(s) :
                            \E i \in DOMAIN lru_list[s] :
                               lru_list[s][i] = [node |-> map[s][k].it, key |-> k]
    BY DEF IteratorsValid
  <2>1. lru_list[s] \in Seq(ListNode) /\ map[s] \in Maps /\ Linked(lru_list[s], map[s])
    BY <1>1 DEF CacheInv, TypeOK, Maps
  <2>2. Len(lru_list[s]) = Cardinality(InMap(s))
    BY <2>1, Counted DEF InMap
  <2>3. ASSUME NEW k \in InMap(s)
        PROVE  \E i \in DOMAIN lru_list[s] :
                  lru_list[s][i] = [node |-> map[s][k].it, key |-> k]
    <3>1. PICK i \in 1 .. Len(lru_list[s]) :
             lru_list[s][i].key = k /\ lru_list[s][i].node = map[s][k].it
      BY <2>1 DEF InMap, Linked, LinkedBut
    <3>2. i \in DOMAIN lru_list[s] /\ lru_list[s][i] \in ListNode
      BY <2>1, LenProperties, ElementOfSeq
    <3>3. lru_list[s][i] = [node |-> map[s][k].it, key |-> k]
      BY <3>1, <3>2 DEF ListNode
    <3> QED BY <3>2, <3>3
  <2> QED BY <2>2, <2>3
<1> QED BY <1>1, CacheInductive, PTL

(* No shard outgrows its capacity, in list or map. *)
THEOREM CapacityKept == Spec => []WithinCapacity
<1>1. ASSUME CacheInv PROVE WithinCapacity
  <2> SUFFICES ASSUME NEW s \in Shards
               PROVE  /\ Len(lru_list[s]) <= Capacity
                      /\ Cardinality(InMap(s)) <= Capacity
    BY DEF WithinCapacity
  <2>1. lru_list[s] \in Seq(ListNode) /\ map[s] \in Maps /\ Linked(lru_list[s], map[s])
    BY <1>1 DEF CacheInv, TypeOK, Maps
  <2> QED BY <1>1, <2>1, Counted DEF CacheInv, InMap
<1> QED BY <1>1, CacheInductive, PTL

-----------------------------------------------------------------------------
(* The order of use: a stands behind b in list l; a stands in l at all.    *)
Behind(l, a, b) ==
    \E m, n \in 1 .. Len(l) : m < n /\ l[n].key = a /\ l[m].key = b

Stands(l, a) == \E i \in 1 .. Len(l) : l[i].key = a

(* r holds l's keys but for those in g, in the same order. *)
Trimmed(r, l, g) ==
    /\ \A a, b \in Keys : Behind(r, a, b) <=> Behind(l, a, b) /\ a \notin g /\ b \notin g
    /\ \A a \in Keys : Stands(r, a) <=> Stands(l, a) /\ a \notin g

(* Removing a node trims the list by its key. *)
LEMMA WithoutTrims ==
    ASSUME NEW l \in Seq(ListNode), NEW m \in Maps, Linked(l, m),
           NEW i \in 1 .. Len(l), NEW r, Without(r, l, i)
    PROVE  Trimmed(r, l, {l[i].key})
<1> DEFINE at(j) == IF j < i THEN j ELSE j + 1
<1>1. Len(l) \in Nat
  BY LenProperties
<1>2. \A j, h \in 1 .. Len(l) : l[j].key = l[h].key => j = h
  BY DEF Linked, LinkedBut
<1>3. Len(r) = Len(l) - 1
  BY DEF Without
<1>4. \A j \in 1 .. Len(r) : at(j) \in 1 .. Len(l) /\ at(j) # i /\ r[j] = l[at(j)]
  BY <1>1, <1>3 DEF Without
<1>5. \A j, h \in 1 .. Len(r) : j < h <=> at(j) < at(h)
  BY <1>1, <1>3
<1>6. ASSUME NEW j \in 1 .. Len(l), j # i
      PROVE  \E h \in 1 .. Len(r) : at(h) = j
  <2>1. CASE j < i
    BY <2>1, <1>1, <1>3
  <2>2. CASE j > i
    <3>1. j - 1 \in 1 .. Len(r) /\ at(j - 1) = j
      BY <2>2, <1>1, <1>3
    <3> QED BY <3>1
  <2> QED BY <2>1, <2>2, <1>6, <1>1
<1> HIDE DEF at
<1>7. ASSUME NEW a \in Keys
      PROVE  Stands(r, a) <=> Stands(l, a) /\ a \notin {l[i].key}
  <2>1. ASSUME Stands(r, a) PROVE Stands(l, a) /\ a # l[i].key
    BY <2>1, <1>2, <1>4 DEF Stands
  <2>2. ASSUME Stands(l, a), a # l[i].key PROVE Stands(r, a)
    <3>1. PICK j \in 1 .. Len(l) : l[j].key = a
      BY <2>2 DEF Stands
    <3>2. PICK h \in 1 .. Len(r) : at(h) = j
      BY <3>1, <2>2, <1>6
    <3> QED BY <3>1, <3>2, <1>4 DEF Stands
  <2> QED BY <2>1, <2>2
<1>8. ASSUME NEW a \in Keys, NEW b \in Keys
      PROVE  Behind(r, a, b) <=>
                Behind(l, a, b) /\ a \notin {l[i].key} /\ b \notin {l[i].key}
  <2>1. ASSUME Behind(r, a, b)
        PROVE  Behind(l, a, b) /\ a # l[i].key /\ b # l[i].key
    <3>1. PICK j, h \in 1 .. Len(r) : j < h /\ r[h].key = a /\ r[j].key = b
      BY <2>1 DEF Behind
    <3> QED BY <3>1, <1>2, <1>4, <1>5 DEF Behind
  <2>2. ASSUME Behind(l, a, b), a # l[i].key, b # l[i].key
        PROVE  Behind(r, a, b)
    <3>1. PICK j, h \in 1 .. Len(l) : j < h /\ l[h].key = a /\ l[j].key = b
      BY <2>2 DEF Behind
    <3>2. PICK x \in 1 .. Len(r) : at(x) = j
      BY <3>1, <2>2, <1>6
    <3>3. PICK y \in 1 .. Len(r) : at(y) = h
      BY <3>1, <2>2, <1>6
    <3> QED BY <3>1, <3>2, <3>3, <1>4, <1>5 DEF Behind
  <2> QED BY <2>1, <2>2
<1> QED BY <1>7, <1>8 DEF Trimmed

(* A new front node stands before all others. *)
LEMMA FrontOrder ==
    ASSUME NEW r \in Seq(ListNode), NEW n \in Nodes, NEW k \in Keys,
           NEW a \in Keys, NEW b \in Keys
    PROVE  Behind(PushFront(r, n, k), a, b) <=>
              Behind(r, a, b) \/ (b = k /\ Stands(r, a))
<1> DEFINE p == PushFront(r, n, k)
<1>1. /\ Len(p) = Len(r) + 1 /\ Len(r) \in Nat
      /\ p[1].key = k
      /\ \A j \in 2 .. Len(r) + 1 : p[j] = r[j - 1]
      /\ \A j \in 1 .. Len(r) : p[j + 1] = r[j]
  <2>1. /\ Len(p) = Len(r) + 1
        /\ p[1] = [node |-> n, key |-> k]
        /\ \A j \in 2 .. Len(r) + 1 : p[j] = r[j - 1]
    BY PushedFront
  <2>2. Len(r) \in Nat
    BY LenProperties
  <2> HIDE DEF p
  <2>3. ASSUME NEW j \in 1 .. Len(r) PROVE p[j + 1] = r[j]
    <3>1. j + 1 \in 2 .. Len(r) + 1 /\ (j + 1) - 1 = j
      BY <2>2
    <3> QED BY <3>1, <2>1
  <2> QED BY <2>1, <2>2, <2>3
<1> HIDE DEF p
<1>2. ASSUME Behind(p, a, b) PROVE Behind(r, a, b) \/ (b = k /\ Stands(r, a))
  <2>1. PICK x, y \in 1 .. Len(p) : x < y /\ p[y].key = a /\ p[x].key = b
    BY <1>2 DEF Behind
  <2>2. y - 1 \in 1 .. Len(r) /\ r[y - 1].key = a
    BY <2>1, <1>1
  <2>3. CASE x = 1
    BY <2>1, <2>2, <2>3, <1>1 DEF Stands
  <2>4. CASE x # 1
    <3>1. x - 1 \in 1 .. Len(r) /\ r[x - 1].key = b /\ x - 1 < y - 1
      BY <2>1, <2>4, <1>1
    <3> QED BY <3>1, <2>2 DEF Behind
  <2> QED BY <2>3, <2>4
<1>3. ASSUME Behind(r, a, b) PROVE Behind(p, a, b)
  <2>1. PICK x, y \in 1 .. Len(r) : x < y /\ r[y].key = a /\ r[x].key = b
    BY <1>3 DEF Behind
  <2>2. /\ x + 1 \in 1 .. Len(p) /\ y + 1 \in 1 .. Len(p) /\ x + 1 < y + 1
        /\ p[x + 1] = r[x] /\ p[y + 1] = r[y]
    BY <2>1, <1>1
  <2> QED BY <2>1, <2>2 DEF Behind
<1>4. ASSUME b = k, Stands(r, a) PROVE Behind(p, a, b)
  <2>1. PICK y \in 1 .. Len(r) : r[y].key = a
    BY <1>4 DEF Stands
  <2>2. 1 \in 1 .. Len(p) /\ y + 1 \in 1 .. Len(p) /\ 1 < y + 1 /\ p[y + 1] = r[y]
    BY <2>1, <1>1
  <2> QED BY <1>1, <1>4, <2>1, <2>2 DEF Behind
<1> QED BY <1>2, <1>3, <1>4 DEF p

-----------------------------------------------------------------------------
(* Each key stands in its own shard's list only, so that the order of use  *)
(* is the order in the lists.                                              *)
LEMMA OrderOfShards ==
    ASSUME NEW L \in [Shards -> Seq(ListNode)], NEW M,
           \A s \in Shards : Linked(L[s], M[s]) /\ AtHome(M[s], s),
           NEW a \in Keys, NEW b \in Keys
    PROVE  (\E s \in Shards : \E m, n \in DOMAIN L[s] :
               m < n /\ L[s][n].key = a /\ L[s][m].key = b)
           <=> ShardOf[a] = ShardOf[b] /\ Behind(L[ShardOf[a]], a, b)
<1>1. \A s \in Shards : DOMAIN L[s] = 1 .. Len(L[s])
  BY LenProperties
<1>2. \A s \in Shards : \A i \in 1 .. Len(L[s]) :
         L[s][i].key \in Keys => ShardOf[L[s][i].key] = s
  BY DEF Linked, LinkedBut, AtHome
<1>3. ShardOf[a] \in Shards
  BY ShardOfAssumption
<1> QED BY <1>1, <1>2, <1>3 DEF Behind

LEMMA UsedBefore ==
    ASSUME CacheInv, NEW a \in Keys, NEW b \in Keys
    PROVE  <<a, b>> \in usedBefore <=>
              ShardOf[a] = ShardOf[b] /\ Behind(lru_list[ShardOf[a]], a, b)
<1>1. /\ lru_list \in [Shards -> Seq(ListNode)]
      /\ \A s \in Shards : Linked(lru_list[s], map[s]) /\ AtHome(map[s], s)
  BY DEF CacheInv, TypeOK
<1>2. <<a, b>> \in usedBefore <=>
         \E s \in Shards : \E m, n \in DOMAIN lru_list[s] :
            m < n /\ lru_list[s][n].key = a /\ lru_list[s][m].key = b
  BY DEF usedBefore
<1>3. (\E s \in Shards : \E m, n \in DOMAIN lru_list[s] :
            m < n /\ lru_list[s][n].key = a /\ lru_list[s][m].key = b)
      <=> ShardOf[a] = ShardOf[b] /\ Behind(lru_list[ShardOf[a]], a, b)
  BY ONLY <1>1, OrderOfShards, a \in Keys, b \in Keys, Zenon
<1> QED BY ONLY <1>2, <1>3, Zenon

LEMMA UsedBeforeNext ==
    ASSUME CacheInv', NEW a \in Keys, NEW b \in Keys
    PROVE  <<a, b>> \in usedBefore' <=>
              ShardOf[a] = ShardOf[b] /\ Behind(lru_list'[ShardOf[a]], a, b)
<1>1. /\ lru_list' \in [Shards -> Seq(ListNode)]
      /\ \A s \in Shards : Linked(lru_list'[s], map'[s]) /\ AtHome(map'[s], s)
  BY DEF CacheInv, TypeOK, Linked, LinkedBut, AtHome
<1>2. <<a, b>> \in usedBefore' <=>
         \E s \in Shards : \E m, n \in DOMAIN lru_list'[s] :
            m < n /\ lru_list'[s][n].key = a /\ lru_list'[s][m].key = b
  BY DEF usedBefore
<1>3. (\E s \in Shards : \E m, n \in DOMAIN lru_list'[s] :
            m < n /\ lru_list'[s][n].key = a /\ lru_list'[s][m].key = b)
      <=> ShardOf[a] = ShardOf[b] /\ Behind(lru_list'[ShardOf[a]], a, b)
  BY ONLY <1>1, OrderOfShards, a \in Keys, b \in Keys, Zenon
<1> QED BY ONLY <1>2, <1>3, Zenon

(* A key stands in its shard's list if and only if it has an entry, and    *)
(* these are the keys of the abstract shard.                               *)
LEMMA ShardContents ==
    ASSUME CacheInv, NEW k \in Keys, NEW a \in Keys
    PROVE  /\ Stands(list(k), a) <=> map[ShardOf[k]][a] # NoEntry
           /\ Stands(list(k), a) => ShardOf[a] = ShardOf[k]
           /\ contents[a] # NoValue <=> entry(a) # NoEntry
           /\ a \in Abstract!Shard(k) <=> Stands(list(k), a)
<1>1. /\ Linked(list(k), map[ShardOf[k]])
      /\ AtHome(map[ShardOf[k]], ShardOf[k])
      /\ entry(a) = map[ShardOf[a]][a]
      /\ entry(a) # NoEntry => entry(a).value \in Values
  BY ShardOfKey
<1>2. Stands(list(k), a) <=> map[ShardOf[k]][a] # NoEntry
  BY <1>1 DEF Linked, LinkedBut, Stands
<1>3. map[ShardOf[k]][a] # NoEntry => ShardOf[a] = ShardOf[k]
  BY <1>1 DEF AtHome
<1>4. contents[a] # NoValue <=> entry(a) # NoEntry
  BY <1>1, NoValueAssumption DEF contents
<1>5. a \in Abstract!Shard(k) <=> contents[a] # NoValue /\ ShardOf[a] = ShardOf[k]
  BY DEF Abstract!Shard, Abstract!Cached
<1> QED BY <1>1, <1>2, <1>3, <1>4, <1>5

(* Two orders are the same when they relate the same keys. *)
LEMMA SameOrder ==
    ASSUME NEW X \in SUBSET (Keys \X Keys), NEW Y \in SUBSET (Keys \X Keys),
           \A a, b \in Keys : <<a, b>> \in X <=> <<a, b>> \in Y
    PROVE  X = Y
<1>1. ASSUME NEW p \in Keys \X Keys PROVE p \in X <=> p \in Y
  <2>1. PICK a \in Keys, b \in Keys : p = <<a, b>>
    OBVIOUS
  <2> QED BY <2>1
<1> QED BY <1>1

(* What UseLast and Forget say of two keys. *)
LEMMA AbstractOrder ==
    ASSUME NEW k \in Keys, NEW gone \in SUBSET Keys, NEW a \in Keys, NEW b \in Keys
    PROVE  /\ <<a, b>> \in Abstract!Forget(gone) <=>
                 <<a, b>> \in usedBefore /\ a \notin gone /\ b \notin gone
           /\ <<a, b>> \in Abstract!UseLast(k, gone) <=>
                 \/ <<a, b>> \in usedBefore /\ a \notin gone \cup {k} /\ b \notin gone \cup {k}
                 \/ b = k /\ a \in Abstract!Shard(k) \ (gone \cup {k})
           /\ usedBefore \in SUBSET (Keys \X Keys)
           /\ usedBefore' \in SUBSET (Keys \X Keys)
           /\ Abstract!Forget(gone) \in SUBSET (Keys \X Keys)
           /\ Abstract!UseLast(k, gone) \in SUBSET (Keys \X Keys)
<1>1. /\ usedBefore \in SUBSET (Keys \X Keys)
      /\ usedBefore' \in SUBSET (Keys \X Keys)
  BY DEF usedBefore
<1>2. /\ <<a, b>> \in Abstract!Forget(gone) <=>
            <<a, b>> \in usedBefore /\ a \notin gone /\ b \notin gone
      /\ Abstract!Forget(gone) \in SUBSET (Keys \X Keys)
  BY <1>1 DEF Abstract!Forget
<1>3. <<a, b>> \in Abstract!UseLast(k, gone) <=>
         \/ <<a, b>> \in usedBefore /\ a \notin gone \cup {k} /\ b \notin gone \cup {k}
         \/ b = k /\ a \in Abstract!Shard(k) \ (gone \cup {k})
  BY DEF Abstract!UseLast, Abstract!Forget
<1>4. Abstract!Shard(k) \subseteq Keys
  BY DEF Abstract!Shard, Abstract!Cached
<1>5. Abstract!UseLast(k, gone) \in SUBSET (Keys \X Keys)
  BY <1>1, <1>4 DEF Abstract!UseLast, Abstract!Forget
<1> QED BY <1>1, <1>2, <1>3, <1>5

(* AddFront on a list trimmed by k and the keys that are gone is the       *)
(* abstract cache's UseLast.                                               *)
LEMMA FrontStep ==
    ASSUME CacheInv, CacheInv', NEW k \in Keys, NEW v \in Values,
           NEW gone \in SUBSET Keys, k \notin gone,
           \A j \in gone : ShardOf[j] = ShardOf[k],
           NEW r \in Seq(ListNode), Trimmed(r, list(k), gone \cup {k}),
           NEW m \in Maps,
           \A j \in Keys \ {k} :
              m[j] = IF j \in gone THEN NoEntry ELSE map[ShardOf[k]][j],
           AddFront(k, v, r, m)
    PROVE  /\ contents' = [j \in Keys |-> IF j = k THEN v
                                          ELSE IF j \in gone THEN NoValue
                                          ELSE contents[j]]
           /\ usedBefore' = Abstract!UseLast(k, gone)
<1>1. PICK n \in FreeNodes(r) :
         Replaced(ShardOf[k], PushFront(r, n, k),
                  [m EXCEPT ![k] = [value |-> v, it |-> n]])
  BY DEF AddFront, Replaced
<1>2. n \in Nodes /\ ShardOf[k] \in Shards
  BY ShardOfKey DEF FreeNodes
<1>3. /\ lru_list'[ShardOf[k]] = PushFront(r, n, k)
      /\ \A s \in Shards \ {ShardOf[k]} :
            lru_list'[s] = lru_list[s] /\ map'[s] = map[s]
      /\ map'[ShardOf[k]] = [m EXCEPT ![k] = [value |-> v, it |-> n]]
  BY <1>1, <1>2 DEF Replaced, CacheInv, TypeOK
<1>4. contents' = [j \in Keys |-> IF j = k THEN v
                                  ELSE IF j \in gone THEN NoValue ELSE contents[j]]
  <2> DEFINE e == [value |-> v, it |-> n]
  <2>1. e # NoEntry /\ e.value = v
    BY <1>2, NoEntryAssumption DEF Entry
  <2> HIDE DEF e
  <2>2. ASSUME NEW j \in Keys
        PROVE  map'[ShardOf[j]][j] = IF j = k THEN e
                                     ELSE IF j \in gone THEN NoEntry
                                     ELSE map[ShardOf[j]][j]
    <3>1. ShardOf[j] \in Shards
      BY ShardOfAssumption
    <3>2. CASE j = k
      BY <3>2, <1>3 DEF Maps, e
    <3>3. CASE j # k /\ ShardOf[j] = ShardOf[k]
      BY <3>3, <1>3 DEF Maps, e
    <3>4. CASE ShardOf[j] # ShardOf[k]
      BY <3>1, <3>4, <1>3
    <3> QED BY <3>2, <3>3, <3>4
  <2> QED BY <2>1, <2>2 DEF contents, entry
<1>5. ASSUME NEW a \in Keys, NEW b \in Keys
      PROVE  <<a, b>> \in usedBefore' <=> <<a, b>> \in Abstract!UseLast(k, gone)
  <2>1. <<a, b>> \in usedBefore' <=>
           ShardOf[a] = ShardOf[b] /\ Behind(lru_list'[ShardOf[a]], a, b)
    BY UsedBeforeNext
  <2>2. <<a, b>> \in usedBefore <=>
           ShardOf[a] = ShardOf[b] /\ Behind(lru_list[ShardOf[a]], a, b)
    BY UsedBefore
  <2>3. <<a, b>> \in Abstract!UseLast(k, gone) <=>
           \/ <<a, b>> \in usedBefore /\ a \notin gone \cup {k} /\ b \notin gone \cup {k}
           \/ b = k /\ a \in Abstract!Shard(k) \ (gone \cup {k})
    BY AbstractOrder
  <2>4. /\ a \in Abstract!Shard(k) <=> Stands(list(k), a)
        /\ Stands(list(k), a) => ShardOf[a] = ShardOf[k]
    BY ShardContents
  <2>5. CASE ShardOf[a] # ShardOf[b]
    BY <2>1, <2>2, <2>3, <2>4, <2>5
  <2>6. CASE ShardOf[a] = ShardOf[b] /\ ShardOf[a] # ShardOf[k]
    <3>1. lru_list'[ShardOf[a]] = lru_list[ShardOf[a]]
      BY <2>6, <1>3, ShardOfAssumption
    <3>2. a \notin gone \cup {k} /\ b \notin gone \cup {k}
      BY <2>6
    <3> QED BY <2>1, <2>2, <2>3, <2>4, <2>6, <3>1, <3>2
  <2>7. CASE ShardOf[a] = ShardOf[b] /\ ShardOf[a] = ShardOf[k]
    <3>1. <<a, b>> \in usedBefore' <=> Behind(r, a, b) \/ (b = k /\ Stands(r, a))
      BY <2>1, <2>7, <1>2, <1>3, FrontOrder
    <3>2. <<a, b>> \in usedBefore <=> Behind(list(k), a, b)
      BY <2>2, <2>7 DEF list
    <3> QED BY <3>1, <3>2, <2>3, <2>4 DEF Trimmed
  <2> QED BY <2>5, <2>6, <2>7
<1>6. usedBefore' = Abstract!UseLast(k, gone)
  <2>1. /\ usedBefore' \in SUBSET (Keys \X Keys)
        /\ Abstract!UseLast(k, gone) \in SUBSET (Keys \X Keys)
    BY ONLY AbstractOrder, k \in Keys, gone \in SUBSET Keys
  <2> QED BY ONLY <1>5, <2>1, SameOrder
<1> QED BY <1>4, <1>6

-----------------------------------------------------------------------------
(* Erasing the node of k trims its shard's list by k. *)
LEMMA RestTrimmed ==
    ASSUME CacheInv, NEW k \in Keys, entry(k) # NoEntry
    PROVE  Trimmed(Erase(list(k), entry(k).it), list(k), {k})
<1> DEFINE l == list(k)
           m == map[ShardOf[k]]
<1>1. /\ l \in Seq(ListNode) /\ m \in Maps /\ Linked(l, m)
      /\ entry(k) = m[k]
  BY ShardOfKey
<1> HIDE DEF l, m
<1>2. PICK i \in 1 .. Len(l) :
         l[i].key = k /\ Without(Erase(l, m[k].it), l, i)
  BY <1>1, Erased
<1>3. Trimmed(Erase(l, m[k].it), l, {k})
  BY <1>1, <1>2, WithoutTrims
<1> QED BY <1>1, <1>3 DEF l

(* A put or get hit of k that replaces its node. *)
LEMMA MoveStep ==
    ASSUME CacheInv, CacheInv', NEW k \in Keys, NEW v \in Values,
           entry(k) # NoEntry,
           AddFront(k, v, Erase(list(k), entry(k).it), map[ShardOf[k]])
    PROVE  /\ contents' = [contents EXCEPT ![k] = v]
           /\ usedBefore' = Abstract!UseLast(k, {})
<1> DEFINE r == Erase(list(k), entry(k).it)
           m == map[ShardOf[k]]
<1>1. r \in Seq(ListNode) /\ m \in Maps
  BY RestOfShard, ShardOfKey
<1>2. Trimmed(r, list(k), {k})
  BY RestTrimmed
<1>3. \A j \in Keys \ {k} : m[j] = IF j \in {} THEN NoEntry ELSE map[ShardOf[k]][j]
  OBVIOUS
<1>4. AddFront(k, v, r, m)
  OBVIOUS
<1> HIDE DEF r, m
<1>5. Trimmed(r, list(k), {} \cup {k})
  BY <1>2
<1>6. /\ contents' = [j \in Keys |-> IF j = k THEN v
                                     ELSE IF j \in {} THEN NoValue ELSE contents[j]]
      /\ usedBefore' = Abstract!UseLast(k, {})
  BY <1>1, <1>3, <1>4, <1>5, FrontStep
<1>7. contents' = [contents EXCEPT ![k] = v]
  BY <1>6 DEF contents
<1> QED BY <1>6, <1>7

(* cache_get on a hit. *)
LEMMA GetHitRefines ==
    ASSUME CacheInv, CacheInv', NEW k \in Keys, GetHit(k)
    PROVE  Abstract!Get(k) /\ answer' = contents[k]
<1>1. entry(k) # NoEntry /\ entry(k).value \in Values
  BY ShardOfKey DEF GetHit
<1>2. contents[k] = entry(k).value /\ contents[k] # NoValue
  BY <1>1, NoValueAssumption DEF contents
<1>3. /\ contents' = [contents EXCEPT ![k] = entry(k).value]
      /\ usedBefore' = Abstract!UseLast(k, {})
  BY <1>1, MoveStep DEF GetHit
<1>4. contents' = contents
  BY <1>2, <1>3 DEF contents
<1> QED BY <1>2, <1>3, <1>4 DEF GetHit, Abstract!Get

(* cache_put of a key that is there. *)
LEMMA PutUpdateRefines ==
    ASSUME CacheInv, CacheInv', NEW k \in Keys, NEW v \in Values, PutUpdate(k, v)
    PROVE  Abstract!PutInPlace(k, v)
<1>1. /\ contents' = [contents EXCEPT ![k] = v]
      /\ usedBefore' = Abstract!UseLast(k, {})
  BY MoveStep DEF PutUpdate
<1>2. contents[k] # NoValue
  BY ShardContents DEF PutUpdate
<1> QED BY <1>1, <1>2 DEF Abstract!PutInPlace

(* The instance's Cardinality is the usual one. *)
LEMMA SameCardinality == \A S : Abstract!Cardinality(S) = Cardinality(S)
  BY DEF Abstract!Cardinality, Cardinality, Abstract!IsFiniteSet, IsFiniteSet

(* The abstract shard has as many keys as the map. *)
LEMMA SameSize ==
    ASSUME CacheInv, NEW k \in Keys
    PROVE  Abstract!Cardinality(Abstract!Shard(k)) = Cardinality(InMap(ShardOf[k]))
<1>1. \A a \in Keys : a \in Abstract!Shard(k) <=> a \in InMap(ShardOf[k])
  BY ShardContents DEF InMap
<1>2. Abstract!Shard(k) = InMap(ShardOf[k])
  BY <1>1 DEF InMap, Abstract!Shard, Abstract!Cached
<1> QED BY <1>2, SameCardinality

(* A key without an entry stands nowhere. *)
LEMMA NotStanding ==
    ASSUME CacheInv, NEW k \in Keys, entry(k) = NoEntry
    PROVE  /\ ~Stands(list(k), k)
           /\ \A r, g : Trimmed(r, list(k), g) => Trimmed(r, list(k), g \cup {k})
<1>1. ~Stands(list(k), k)
  BY ShardContents, ShardOfKey
<1>2. \A a, b \in Keys : Behind(list(k), a, b) => Stands(list(k), a) /\ Stands(list(k), b)
  BY DEF Behind, Stands
<1> QED BY <1>1, <1>2 DEF Trimmed

(* cache_put of a new key with room for it. *)
LEMMA PutNewRefines ==
    ASSUME CacheInv, CacheInv', NEW k \in Keys, NEW v \in Values, PutNew(k, v)
    PROVE  Abstract!PutInPlace(k, v)
<1>1. /\ list(k) \in Seq(ListNode) /\ map[ShardOf[k]] \in Maps
      /\ Cardinality(InMap(ShardOf[k])) = Len(list(k)) /\ Len(list(k)) \in Nat
  BY ShardOfKey
<1>2. Trimmed(list(k), list(k), {} \cup {k})
  <2>1. Trimmed(list(k), list(k), {})
    BY DEF Trimmed
  <2> QED BY <2>1, NotStanding DEF PutNew
<1>3. /\ contents' = [j \in Keys |-> IF j = k THEN v
                                     ELSE IF j \in {} THEN NoValue ELSE contents[j]]
      /\ usedBefore' = Abstract!UseLast(k, {})
  BY <1>1, <1>2, FrontStep DEF PutNew
<1>4. contents' = [contents EXCEPT ![k] = v]
  BY <1>3 DEF contents
<1>5. Abstract!Cardinality(Abstract!Shard(k)) < Capacity
  BY <1>1, SameSize, CapacityAssumption DEF PutNew, full
<1> QED BY <1>3, <1>4, <1>5 DEF Abstract!PutInPlace

(* cache_put of a new key into a full shard. *)
LEMMA PutEvictRefines ==
    ASSUME CacheInv, CacheInv', NEW k \in Keys, NEW v \in Values, PutEvict(k, v)
    PROVE  Abstract!PutEvicting(k, v)
<1> DEFINE l == list(k)
           old == Last(l).key
           m == map[ShardOf[k]]
           q == [m EXCEPT ![old] = NoEntry]
<1>1. /\ l \in Seq(ListNode) /\ m \in Maps /\ Linked(l, m)
      /\ Len(l) \in Nat /\ Cardinality(InMap(ShardOf[k])) = Len(l)
      /\ entry(k) = NoEntry /\ Cardinality(InMap(ShardOf[k])) >= Capacity
  BY ShardOfKey DEF PutEvict, full
<1>2. Len(l) \in 1 .. Len(l) /\ l # <<>>
  BY <1>1, CapacityAssumption, EmptySeq
<1>3. l[Len(l)] \in ListNode /\ Last(l) = l[Len(l)]
  BY <1>1, <1>2, ElementOfSeq DEF Last
<1>4. old \in Keys /\ Stands(l, old)
  BY <1>2, <1>3 DEF ListNode, Stands
<1>5. old # k
  BY <1>1, <1>4, NotStanding
<1>6. Front(l) \in Seq(ListNode) /\ Trimmed(Front(l), l, {old})
  BY <1>1, <1>2, <1>3, FrontWithout, WithoutTrims DEF Without
<1>7. Trimmed(Front(l), l, {old} \cup {k})
  BY <1>1, <1>6, NotStanding
<1>8. /\ old \in Abstract!Shard(k)
      /\ ShardOf[old] = ShardOf[k]
  BY <1>4, ShardContents
<1>9. q \in Maps /\ \A j \in Keys \ {k} : q[j] = IF j \in {old} THEN NoEntry ELSE m[j]
  BY <1>1, <1>4 DEF Maps
<1>10. AddFront(k, v, Front(l), q)
  BY DEF PutEvict
<1>11. /\ contents' = [j \in Keys |-> IF j = k THEN v
                                      ELSE IF j \in {old} THEN NoValue ELSE contents[j]]
       /\ usedBefore' = Abstract!UseLast(k, {old})
  <2> HIDE DEF q, old
  <2> QED BY <1>4, <1>5, <1>6, <1>7, <1>8, <1>9, <1>10, FrontStep
<1>12. contents' = [contents EXCEPT ![old] = NoValue, ![k] = v]
  <2> HIDE DEF old
  <2> QED BY <1>4, <1>5, <1>11 DEF contents
<1>13. contents[k] = NoValue
  BY <1>1, ShardContents
<1>14. Abstract!Cardinality(Abstract!Shard(k)) >= Capacity
  BY <1>1, SameSize
<1>15. ASSUME NEW j \in Abstract!Shard(k) PROVE <<j, old>> \notin usedBefore
  <2>1. j \in Keys
    BY <1>15 DEF Abstract!Shard, Abstract!Cached
  <2>2. Stands(l, j) /\ ShardOf[j] = ShardOf[k]
    BY <1>15, <2>1, ShardContents
  <2>3. ~Behind(l, j, old)
    <3>1. \A x \in 1 .. Len(l) : l[x].key = old => x = Len(l)
      BY <1>1, <1>2, <1>3 DEF Linked, LinkedBut
    <3> HIDE DEF old
    <3> QED BY <1>1, <3>1 DEF Behind
  <2> QED BY <2>1, <2>2, <2>3, <1>4, UsedBefore DEF list
<1> HIDE DEF old
<1> QED BY <1>8, <1>11, <1>12, <1>13, <1>14, <1>15 DEF Abstract!PutEvicting

(* cache_delete of a key that is there. *)
LEMMA DeleteHitRefines ==
    ASSUME CacheInv, CacheInv', NEW k \in Keys, DeleteHit(k)
    PROVE  Abstract!Delete(k)
<1> DEFINE r == Erase(list(k), entry(k).it)
<1>1. Trimmed(r, list(k), {k}) /\ ShardOf[k] \in Shards
  BY RestTrimmed, ShardOfKey DEF DeleteHit
<1>2. /\ lru_list'[ShardOf[k]] = r
      /\ \A s \in Shards \ {ShardOf[k]} :
            lru_list'[s] = lru_list[s] /\ map'[s] = map[s]
      /\ map'[ShardOf[k]] = [map[ShardOf[k]] EXCEPT ![k] = NoEntry]
  BY <1>1 DEF DeleteHit, list, CacheInv, TypeOK
<1> HIDE DEF r
<1>3. contents' = [contents EXCEPT ![k] = NoValue]
  <2>1. ASSUME NEW j \in Keys
        PROVE  map'[ShardOf[j]][j] = IF j = k THEN NoEntry ELSE map[ShardOf[j]][j]
    <3>1. ShardOf[j] \in Shards /\ map[ShardOf[j]] \in Maps
      BY ShardOfKey
    <3> QED BY <3>1, <1>2 DEF Maps
  <2> QED BY <2>1 DEF contents, entry
<1>4. ASSUME NEW a \in Keys, NEW b \in Keys
      PROVE  <<a, b>> \in usedBefore' <=> <<a, b>> \in Abstract!Forget({k})
  <2>1. <<a, b>> \in usedBefore' <=>
           ShardOf[a] = ShardOf[b] /\ Behind(lru_list'[ShardOf[a]], a, b)
    BY UsedBeforeNext
  <2>2. <<a, b>> \in usedBefore <=>
           ShardOf[a] = ShardOf[b] /\ Behind(lru_list[ShardOf[a]], a, b)
    BY UsedBefore
  <2>3. <<a, b>> \in Abstract!Forget({k}) <=>
           <<a, b>> \in usedBefore /\ a # k /\ b # k
    BY AbstractOrder
  <2>4. CASE ShardOf[a] = ShardOf[b] /\ ShardOf[a] # ShardOf[k]
    <3>1. lru_list'[ShardOf[a]] = lru_list[ShardOf[a]]
      BY <2>4, <1>2, ShardOfAssumption
    <3> QED BY <2>1, <2>2, <2>3, <2>4, <3>1
  <2>5. CASE ShardOf[a] = ShardOf[b] /\ ShardOf[a] = ShardOf[k]
    BY <2>1, <2>2, <2>3, <2>5, <1>1, <1>2 DEF Trimmed, list
  <2> QED BY <2>1, <2>2, <2>3, <2>4, <2>5
<1>5. usedBefore' = Abstract!Forget({k})
  <2>1. /\ usedBefore' \in SUBSET (Keys \X Keys)
        /\ Abstract!Forget({k}) \in SUBSET (Keys \X Keys)
    BY ONLY AbstractOrder, k \in Keys, {k} \in SUBSET Keys
  <2> QED BY ONLY <1>4, <2>1, SameOrder
<1> QED BY <1>3, <1>5 DEF Abstract!Delete

(* Calls that find nothing change nothing. *)
LEMMA MissRefines ==
    ASSUME CacheInv, NEW k \in Keys, GetMiss(k) \/ DeleteMiss(k)
    PROVE  /\ contents[k] = NoValue /\ answer' = NoValue
           /\ Abstract!Get(k) /\ Abstract!Delete(k)
<1>1. entry(k) = NoEntry /\ answer' = NoValue /\ UNCHANGED <<lru_list, map>>
  BY DEF GetMiss, DeleteMiss
<1>2. contents' = contents /\ usedBefore' = usedBefore
  BY <1>1 DEF contents, entry, usedBefore
<1>3. contents[k] = NoValue /\ contents = [contents EXCEPT ![k] = NoValue]
  BY <1>1 DEF contents
<1>4. Abstract!Get(k)
  BY <1>2, <1>3 DEF Abstract!Get
<1>5. ASSUME NEW a \in Keys, NEW b \in Keys
      PROVE  <<a, b>> \in usedBefore' <=> <<a, b>> \in Abstract!Forget({k})
  <2>1. <<a, b>> \in usedBefore => a # k /\ b # k
    <3>1. ~Stands(list(k), k)
      BY <1>1, NotStanding
    <3> QED BY <3>1, UsedBefore DEF Behind, Stands, list
  <2> QED BY <1>2, <2>1, AbstractOrder
<1>6. usedBefore' = Abstract!Forget({k})
  <2>1. /\ usedBefore' \in SUBSET (Keys \X Keys)
        /\ Abstract!Forget({k}) \in SUBSET (Keys \X Keys)
    BY ONLY AbstractOrder, k \in Keys, {k} \in SUBSET Keys
  <2> QED BY ONLY <1>5, <2>1, SameOrder
<1>7. Abstract!Delete(k)
  BY <1>2, <1>3, <1>6 DEF Abstract!Delete
<1> QED BY <1>1, <1>3, <1>4, <1>7

LEMMA LRUStep ==
    CacheInv /\ CacheInv' /\ [Next]_vars => [Abstract!SpecNext]_(Abstract!SpecVars)
<1> SUFFICES ASSUME CacheInv, CacheInv', [Next]_vars
             PROVE  Abstract!SpecNext \/ UNCHANGED Abstract!SpecVars
  OBVIOUS
<1>1. CASE UNCHANGED vars
  BY <1>1 DEF vars, Abstract!SpecVars, contents, entry, usedBefore
<1>2. ASSUME NEW k \in Keys, GetMiss(k) \/ DeleteMiss(k) PROVE Abstract!SpecNext
  BY <1>2, MissRefines DEF Abstract!SpecNext
<1>3. ASSUME NEW k \in Keys, GetHit(k) PROVE Abstract!SpecNext
  BY <1>3, GetHitRefines DEF Abstract!SpecNext
<1>4. ASSUME NEW k \in Keys, NEW v \in Values, PutUpdate(k, v) PROVE Abstract!SpecNext
  BY <1>4, PutUpdateRefines DEF PutUpdate, Abstract!SpecNext, Abstract!Put
<1>5. ASSUME NEW k \in Keys, NEW v \in Values, PutNew(k, v) PROVE Abstract!SpecNext
  BY <1>5, PutNewRefines DEF PutNew, Abstract!SpecNext, Abstract!Put
<1>6. ASSUME NEW k \in Keys, NEW v \in Values, PutEvict(k, v) PROVE Abstract!SpecNext
  BY <1>6, PutEvictRefines DEF PutEvict, Abstract!SpecNext, Abstract!Put
<1>7. ASSUME NEW k \in Keys, DeleteHit(k) PROVE Abstract!SpecNext
  BY <1>7, DeleteHitRefines DEF DeleteHit, Abstract!SpecNext
<1> QED BY <1>1, <1>2, <1>3, <1>4, <1>5, <1>6, <1>7 DEF Next

(* Lists, maps and iterators implement the cache without them: the same    *)
(* answers, the same order of use, the same key evicted.                   *)
THEOREM CacheImplementsLRU == Spec => LRURefinement
<1>1. Init => Abstract!SpecInit
  <2> SUFFICES ASSUME Init PROVE Abstract!SpecInit
    OBVIOUS
  <2>1. contents = [k \in Keys |-> NoValue]
    BY ShardOfAssumption DEF Init, contents, entry
  <2>2. usedBefore = {}
    BY DEF Init, usedBefore
  <2> QED BY <2>1, <2>2 DEF Init, Abstract!SpecInit, Abstract!CacheInit
<1> QED BY <1>1, CacheInductive, LRUStep, PTL
        DEF Spec, LRURefinement, Abstract!Specification

=============================================================================
