----------------------- MODULE HandlerRegistryProofs ------------------------
(***************************************************************************)
(* Proofs about HandlerRegistry, for any handlers, URIs and patterns, any  *)
(* number of threads that register handlers and fewer requests than        *)
(* refcount can count.  What is proved of the counts and of the table      *)
(* needs that authorization granted once is granted again: refused after   *)
(* its callback has been given back, a request would give it back twice.   *)
(***************************************************************************)
EXTENDS HandlerRegistry, Integers, SequenceTheorems, FiniteSetTheorems, TLAPS

(* TypeOK, and what it leaves out: an entry in the list has a callback.    *)
RegTypes ==
    /\ TypeOK
    /\ info = [n \in Nodes |-> info[n]]
    /\ \A n \in Listed : info[n].cb \in Callbacks
    /\ call = [t \in Registrars |-> call[t]]
    /\ uri = [c \in Requests |-> uri[c]]
    /\ method = [c \in Requests |-> method[c]]
    /\ \A c \in Requests : pc[c] # "idle" => uri[c] \in RequestUris
    /\ again \in [Requests -> BOOLEAN]
    /\ steady \in [Requests -> BOOLEAN]

(* What a request knows at each point: its entry's callback until it has   *)
(* given it back.  An entry in use is in the list, one for requests, and   *)
(* has the callback that is going to be called.                            *)
Knows(c) ==
    /\ pc[c] \in {"idle", "lookup"} =>
         handler_info[c] = NoNode /\ callback[c] = NoCallback /\ ~ again[c]
    /\ pc[c] # "answered" => answer[c] = 0
    /\ pc[c] \in {"auth", "asked", "calling"} /\ ~ again[c] =>
         (handler_info[c] # NoNode <=> callback[c] # NoCallback)
    /\ again[c] => callback[c] = NoCallback
    /\ pc[c] = "calling" => callback[c] # NoCallback

Keeps(c) ==
    Holding(c) => /\ handler_info[c] \in Listed
                  /\ info[handler_info[c]].cb = callback[c]
                  /\ info[handler_info[c]].kind = "request"

(* A request whose URI is registered all the time finds its entry, has     *)
(* found it, or its callback did not handle it.                            *)
Finds(c) ==
    steady[c] =>
       /\ pc[c] = "lookup" =>
            /\ \E n \in Listed : info[n].kind = "request" /\ info[n].uri = uri[c]
                                 /\ ~ info[n].removing
            /\ \A t \in Registrars :
                  Removes(t) => call[t].kind # "request" \/ call[t].uri # uri[c]
       /\ pc[c] \in {"auth", "asked", "calling"} => again[c] \/ callback[c] # NoCallback
       /\ answer[c] \in {404, 405} => again[c]

RegistryInv ==
    /\ RegTypes
    /\ NoDuplicates
    /\ Counted
    /\ \A c \in Requests : Knows(c) /\ Keeps(c) /\ Finds(c)

LEMMA InvKeeps == RegistryInv => HandlersKept
BY DEF RegistryInv, HandlersKept, HeldStays, RegisteredIsServed, Keeps, Finds

LEMMA RegistryInit == Init => RegistryInv
<1> SUFFICES ASSUME Init PROVE RegistryInv
  OBVIOUS
<1> USE DistinctAssumption DEF Init
<1>1. Listed = {} /\ handlers \in Seq(Nodes)
  BY DEF Listed
<1>2. RegTypes
  BY <1>1 DEF RegTypes, TypeOK
<1>3. NoDuplicates /\ Counted
  BY <1>1 DEF NoDuplicates, Counted
<1>4. ASSUME NEW c \in Requests PROVE Knows(c) /\ Keeps(c) /\ Finds(c)
  BY <1>4 DEF Knows, Keeps, Finds, Holding
<1> QED BY <1>2, <1>3, <1>4 DEF RegistryInv

-----------------------------------------------------------------------------
(* The list. *)
LEMMA InList ==
    ASSUME handlers \in Seq(Nodes)
    PROVE  /\ Len(handlers) \in Nat /\ DOMAIN handlers = 1 .. Len(handlers)
           /\ \A i \in DOMAIN handlers : handlers[i] \in Nodes /\ handlers[i] \in Listed
           /\ \A n \in Listed : n \in Nodes /\ \E i \in DOMAIN handlers : handlers[i] = n
<1>1. /\ Len(handlers) \in Nat /\ DOMAIN handlers = 1 .. Len(handlers)
      /\ \A i \in DOMAIN handlers : handlers[i] \in Nodes
  OBVIOUS
<1> QED BY <1>1 DEF Listed

LEMMA RemoveAt ==
    ASSUME NEW S, NEW s \in Seq(S), NEW i \in DOMAIN s, NEW r,
           r = SubSeq(s, 1, i - 1) \o SubSeq(s, i + 1, Len(s))
    PROVE  /\ r \in Seq(S) /\ Len(r) = Len(s) - 1
           /\ \A j \in 1 .. Len(r) : r[j] = s[IF j < i THEN j ELSE j + 1]
<1>1. i \in 1 .. Len(s) /\ Len(s) \in Nat
  OBVIOUS
<1>2. PICK a, b : a = SubSeq(s, 1, i - 1) /\ b = SubSeq(s, i + 1, Len(s))
  OBVIOUS
<1>3. /\ a \in Seq(S) /\ Len(a) = i - 1
      /\ \A j \in 1 .. i - 1 : a[j] = s[j]
  BY ONLY <1>1, <1>2, s \in Seq(S), SubSeqProperties
<1>4. /\ b \in Seq(S) /\ Len(b) = Len(s) - i
      /\ \A j \in 1 .. Len(s) - i : b[j] = s[i + j]
  <2>1. CASE i = Len(s)
    <3>1. b = <<>>
      BY ONLY <1>1, <1>2, <2>1, s \in Seq(S), SubSeqProperties
    <3> QED BY ONLY <1>1, <2>1, <3>1
  <2>2. CASE i # Len(s)
    BY ONLY <1>1, <1>2, <2>2, s \in Seq(S), SubSeqProperties
  <2> QED BY <2>1, <2>2
<1>5. /\ a \o b \in Seq(S) /\ Len(a \o b) = Len(a) + Len(b)
      /\ \A j \in 1 .. Len(a) + Len(b) :
            (a \o b)[j] = IF j <= Len(a) THEN a[j] ELSE b[j - Len(a)]
  BY ONLY <1>3, <1>4, ConcatProperties
<1>6. PICK l : l = Len(s)
  OBVIOUS
<1>7. i \in 1 .. l /\ l \in Nat
  BY ONLY <1>1, <1>6
<1>8. /\ r \in Seq(S) /\ Len(r) = l - 1
      /\ \A j \in 1 .. l - 1 : r[j] = IF j <= i - 1 THEN a[j] ELSE b[j - (i - 1)]
  <2>1. r = a \o b
    BY <1>2
  <2>2. Len(a) = i - 1 /\ Len(b) = l - i /\ (i - 1) + (l - i) = l - 1
    BY ONLY <1>3, <1>4, <1>6, <1>7
  <2> QED BY ONLY <1>5, <2>1, <2>2
<1>9. ASSUME NEW j \in 1 .. l - 1
      PROVE  r[j] = s[IF j < i THEN j ELSE j + 1]
  <2>1. CASE j < i
    BY ONLY <1>3, <1>7, <1>8, <1>9, <2>1
  <2>2. CASE ~ (j < i)
    <3>1. PICK k : k = j - (i - 1)
      OBVIOUS
    <3>2. k \in 1 .. l - i /\ i + k = j + 1 /\ ~ (j <= i - 1)
      BY ONLY <1>7, <1>9, <2>2, <3>1
    <3>3. r[j] = b[k]
      BY ONLY <1>8, <1>9, <3>1, <3>2
    <3>4. b[k] = s[i + k]
      BY ONLY <1>4, <1>6, <3>2
    <3> QED BY ONLY <2>2, <3>2, <3>3, <3>4
  <2> QED BY <2>1, <2>2
<1> QED BY ONLY <1>6, <1>8, <1>9

(* An entry goes, and the others keep their order. *)
LEMMA ListRemoved ==
    ASSUME handlers \in Seq(Nodes), NEW i \in DOMAIN handlers,
           handlers' = SubSeq(handlers, 1, i - 1) \o SubSeq(handlers, i + 1, Len(handlers)),
           NoDuplicates, \A n \in Listed : info'[n] = info[n]
    PROVE  /\ handlers' \in Seq(Nodes) /\ NoDuplicates'
           /\ \A j \in DOMAIN handlers' : \E k \in DOMAIN handlers \ {i} : handlers'[j] = handlers[k]
           /\ \A k \in DOMAIN handlers \ {i} : \E j \in DOMAIN handlers' : handlers'[j] = handlers[k]
           /\ Listed' = Listed \ {handlers[i]}
<1>1. PICK s, r : s = handlers /\ r = handlers'
  OBVIOUS
<1>2. /\ r \in Seq(Nodes) /\ Len(r) = Len(s) - 1
      /\ \A j \in 1 .. Len(r) : r[j] = s[IF j < i THEN j ELSE j + 1]
  <2>1. /\ s \in Seq(Nodes) /\ i \in DOMAIN s
        /\ r = SubSeq(s, 1, i - 1) \o SubSeq(s, i + 1, Len(s))
    BY <1>1
  <2> QED BY ONLY SMTT(30), <2>1, RemoveAt
<1>3. /\ i \in 1 .. Len(s) /\ Len(s) \in Nat
      /\ DOMAIN s = 1 .. Len(s) /\ DOMAIN r = 1 .. Len(r)
  BY <1>1, <1>2, InList
<1> DEFINE old(j) == IF j < i THEN j ELSE j + 1
<1>4. /\ \A j \in DOMAIN r : old(j) \in DOMAIN s \ {i} /\ r[j] = s[old(j)]
      /\ \A j, k \in DOMAIN r : old(j) = old(k) => j = k
      /\ \A k \in DOMAIN s \ {i} : \E j \in DOMAIN r : old(j) = k
  <2>1. ASSUME NEW k \in DOMAIN s \ {i} PROVE \E j \in DOMAIN r : old(j) = k
    <3>1. CASE k < i
      <4>1. k \in DOMAIN r
        BY ONLY <1>2, <1>3, <2>1, <3>1
      <4> QED BY ONLY <3>1, <4>1
    <3>2. CASE ~ (k < i)
      <4>1. k - 1 \in DOMAIN r /\ ~ (k - 1 < i) /\ (k - 1) + 1 = k
        BY ONLY <1>2, <1>3, <2>1, <3>2
      <4> QED BY ONLY <4>1
    <3> QED BY <3>1, <3>2
  <2> QED BY ONLY <1>2, <1>3, <2>1
<1> HIDE DEF old
<1>5. \A j, k \in DOMAIN s :
         info[s[j]].kind = info[s[k]].kind /\ info[s[j]].uri = info[s[k]].uri => j = k
  BY <1>1 DEF NoDuplicates
<1>6. \A j \in DOMAIN s : s[j] \in Listed /\ info'[s[j]] = info[s[j]]
  BY <1>1, InList
<1>7. \A j, k \in DOMAIN r :
         info'[r[j]].kind = info'[r[k]].kind /\ info'[r[j]].uri = info'[r[k]].uri => j = k
  <2> SUFFICES ASSUME NEW j \in DOMAIN r, NEW k \in DOMAIN r,
                      info'[r[j]].kind = info'[r[k]].kind, info'[r[j]].uri = info'[r[k]].uri
               PROVE  j = k
    OBVIOUS
  <2>1. info'[r[j]] = info[s[old(j)]] /\ info'[r[k]] = info[s[old(k)]]
    BY ONLY <1>4, <1>6, j \in DOMAIN r, k \in DOMAIN r
  <2>2. old(j) = old(k)
    <3>1. old(j) \in DOMAIN s /\ old(k) \in DOMAIN s
      BY <1>4
    <3> QED BY ONLY <1>5, <2>1, <3>1,
                    info'[r[j]].kind = info'[r[k]].kind, info'[r[j]].uri = info'[r[k]].uri
  <2> QED BY <1>4, <2>2
<1>8. \A k \in DOMAIN s : s[k] = s[i] => k = i
  BY <1>1, <1>5
<1>9. /\ Listed = {s[k] : k \in DOMAIN s}
      /\ Listed' = {r[j] : j \in DOMAIN r}
  BY <1>1 DEF Listed
<1>10. Listed' = Listed \ {s[i]}
  BY ONLY <1>4, <1>8, <1>9
<1>11. NoDuplicates'
  BY <1>1, <1>7 DEF NoDuplicates
<1>12. /\ \A j \in DOMAIN r : \E k \in DOMAIN s \ {i} : r[j] = s[k]
       /\ \A k \in DOMAIN s \ {i} : \E j \in DOMAIN r : r[j] = s[k]
  BY ONLY <1>4
<1> QED BY ONLY <1>1, <1>2, <1>10, <1>11, <1>12

(* A new entry comes to the end. *)
LEMMA ListAppended ==
    ASSUME handlers \in Seq(Nodes), NEW n \in Nodes, n \notin Listed,
           handlers' = Append(handlers, n), NoDuplicates,
           \A m \in Listed : /\ info'[m] = info[m]
                             /\ info[m].kind = info'[n].kind => info[m].uri # info'[n].uri
    PROVE  handlers' \in Seq(Nodes) /\ NoDuplicates' /\ Listed' = Listed \cup {n}
<1>1. PICK s, r, l : s = handlers /\ r = handlers' /\ l = Len(s)
  OBVIOUS
<1>2. /\ l \in Nat /\ DOMAIN s = 1 .. l /\ r \in Seq(Nodes) /\ DOMAIN r = 1 .. l + 1
      /\ \A j \in 1 .. l : r[j] = s[j]
      /\ r[l + 1] = n
  BY ONLY <1>1, handlers \in Seq(Nodes), n \in Nodes, handlers' = Append(handlers, n)
<1>3. \A j \in DOMAIN r : j = l + 1 \/ j \in DOMAIN s
  BY ONLY <1>2
<1>4. \A j \in DOMAIN s : s[j] \in Listed /\ info'[s[j]] = info[s[j]] /\ r[j] = s[j] /\ j \in DOMAIN r
  <2>1. \A j \in DOMAIN s : s[j] \in Listed
    BY <1>1, InList
  <2>2. \A j \in DOMAIN s : r[j] = s[j] /\ j \in DOMAIN r
    BY ONLY <1>2
  <2> QED BY <2>1, <2>2
<1>5. \A j, k \in DOMAIN s :
         info[s[j]].kind = info[s[k]].kind /\ info[s[j]].uri = info[s[k]].uri => j = k
  BY <1>1 DEF NoDuplicates
<1>6. \A j, k \in DOMAIN r :
         info'[r[j]].kind = info'[r[k]].kind /\ info'[r[j]].uri = info'[r[k]].uri => j = k
  <2>1. \A m \in Listed : ~ (info'[m].kind = info'[n].kind /\ info'[m].uri = info'[n].uri)
    OBVIOUS
  <2> QED BY ONLY <1>2, <1>3, <1>4, <1>5, <2>1
<1>7. Listed = {s[k] : k \in DOMAIN s} /\ Listed' = {r[j] : j \in DOMAIN r}
  BY <1>1 DEF Listed
<1>8. l + 1 \in DOMAIN r
  BY ONLY <1>2
<1>9. Listed' = Listed \cup {n}
  BY ONLY SMTT(30), <1>2, <1>3, <1>4, <1>7, <1>8
<1>10. NoDuplicates'
  BY <1>1, <1>6 DEF NoDuplicates
<1> QED BY <1>1, <1>2, <1>9, <1>10

-----------------------------------------------------------------------------
(* The users of an entry. *)
Users(n) == {c \in Requests : Holding(c) /\ handler_info[c] = n}

LEMMA FiniteUsers ==
    ASSUME NEW n
    PROVE  /\ IsFiniteSet(Users(n)) /\ Cardinality(Users(n)) \in Nat
           /\ Cardinality(Users(n)) <= Cardinality(Requests)
           /\ Cardinality(Requests) \in Nat
<1>1. Users(n) \subseteq Requests
  BY DEF Users
<1> QED BY <1>1, RefAssumption, FS_Subset, FS_CardinalityType

(* An entry that may be changed or removed has none. *)
LEMMA Unused ==
    ASSUME RegistryInv, NEW n \in Listed, ~ Busy(n)
    PROVE  \A c \in Requests : ~ (Holding(c) /\ handler_info[c] = n)
<1>1. info[n] \in Entry
  BY DEF RegistryInv, RegTypes, TypeOK
<1>2. CASE info[n].kind = "request"
  <2>1. info[n].refcount = 0
    BY <1>2 DEF Busy
  <2>2. Cardinality(Users(n)) = 0
    BY <1>2, <2>1 DEF RegistryInv, Counted, Users
  <2>3. Users(n) = {}
    BY <2>2, FiniteUsers, FS_EmptySet
  <2> QED BY <2>3 DEF Users
<1>3. CASE info[n].kind # "request"
  BY <1>3 DEF RegistryInv, Keeps
<1> QED BY <1>2, <1>3

-----------------------------------------------------------------------------
LEMMA OneEntry ==
    ASSUME RegistryInv, NEW m \in Listed, NEW n \in Listed,
           info[m].kind = info[n].kind, info[m].uri = info[n].uri
    PROVE  m = n
<1>1. PICK i \in DOMAIN handlers : handlers[i] = m
  BY InList DEF RegistryInv, RegTypes, TypeOK
<1>2. PICK j \in DOMAIN handlers : handlers[j] = n
  BY InList DEF RegistryInv, RegTypes, TypeOK
<1> QED BY <1>1, <1>2 DEF RegistryInv, NoDuplicates

(* The list stays, with the same kinds and URIs. *)
LEMMA ListSame ==
    ASSUME RegistryInv, handlers' = handlers,
           \A n \in Listed : info'[n].kind = info[n].kind /\ info'[n].uri = info[n].uri
    PROVE  NoDuplicates'
<1>1. \A i \in DOMAIN handlers : handlers[i] \in Listed
  BY InList DEF RegistryInv, RegTypes, TypeOK
<1>2. NoDuplicates
  BY DEF RegistryInv
<1>3. PICK h : h = handlers /\ h = handlers'
  OBVIOUS
<1>4. \A i, j \in DOMAIN h : info[h[i]].kind = info[h[j]].kind /\ info[h[i]].uri = info[h[j]].uri
                             => i = j
  BY ONLY <1>2, <1>3 DEF NoDuplicates
<1>5. \A i \in DOMAIN h : info'[h[i]].kind = info[h[i]].kind /\ info'[h[i]].uri = info[h[i]].uri
  BY <1>1, <1>3
<1>6. \A i, j \in DOMAIN h : info'[h[i]].kind = info'[h[j]].kind /\ info'[h[i]].uri = info'[h[j]].uri
                             => i = j
  BY ONLY <1>4, <1>5
<1> QED BY ONLY <1>3, <1>6 DEF NoDuplicates

(* The registrars.  They leave entries in use alone.                       *)
LEMMA RegistrarCounted ==
    ASSUME RegistryInv, UNCHANGED requestVars,
           \A n \in Listed' :
              \/ /\ n \in Listed /\ info'[n].kind = info[n].kind
                 /\ info'[n].refcount = info[n].refcount
              \/ /\ \A c \in Requests : ~ (Holding(c) /\ handler_info[c] = n)
                 /\ info'[n].refcount = 0
    PROVE  Counted'
<1>1. SUFFICES ASSUME NEW n \in Listed', info'[n].kind = "request"
               PROVE  info'[n].refcount = Cardinality(Users(n))
  <2>1. \A n : {c \in Requests : Holding(c)' /\ handler_info'[c] = n} = Users(n)
    BY DEF requestVars, Holding, Users
  <2> QED BY <2>1 DEF Counted
<1>2. CASE n \in Listed /\ info'[n].kind = info[n].kind /\ info'[n].refcount = info[n].refcount
  BY <1>1, <1>2 DEF RegistryInv, Counted, Users
<1>3. CASE /\ \A c \in Requests : ~ (Holding(c) /\ handler_info[c] = n)
           /\ info'[n].refcount = 0
  <2>1. Users(n) = {}
    BY <1>3 DEF Users
  <2> QED BY <1>3, <2>1, FS_EmptySet
<1> QED BY <1>1, <1>2, <1>3

LEMMA RegistrarKeeps ==
    ASSUME RegistryInv, UNCHANGED requestVars,
           \A n \in Listed : /\ n \in Listed' /\ info'[n].kind = info[n].kind
                             /\ info'[n].cb = info[n].cb
                          \/ \A c \in Requests : ~ (Holding(c) /\ handler_info[c] = n)
    PROVE  \A c \in Requests : Knows(c)' /\ Keeps(c)'
<1> SUFFICES ASSUME NEW c \in Requests PROVE Knows(c)' /\ Keeps(c)'
  OBVIOUS
<1>1. Knows(c) /\ Keeps(c)
  BY DEF RegistryInv
<1>2. /\ pc' = pc /\ handler_info' = handler_info /\ callback' = callback
      /\ again' = again /\ answer' = answer
  BY DEF requestVars
<1>3. Knows(c)'
  BY ONLY <1>1, <1>2 DEF Knows
<1>4. Keeps(c)'
  <2>1. Holding(c)' <=> Holding(c)
    BY ONLY <1>2 DEF Holding
  <2> QED BY <1>1, <1>2, <2>1 DEF Keeps
<1> QED BY <1>3, <1>4

(* The steady requests, after a call is over. *)
LEMMA RegistrarFinds ==
    ASSUME RegistryInv, UNCHANGED requestVars, NEW t \in Registrars, steady' = steady,
           \A v \in Registrars \ {t} : call'[v] = call[v], call'[t] = NoCall \/ call'[t] = call[t],
           \A n \in Listed : info[n].kind = "request" /\ ~ info[n].removing =>
              \/ /\ n \in Listed' /\ info'[n].kind = info[n].kind
                 /\ info'[n].uri = info[n].uri /\ info'[n].removing = info[n].removing
              \/ Removes(t) /\ call[t].kind = info[n].kind /\ call[t].uri = info[n].uri
    PROVE  \A c \in Requests : Finds(c)'
<1> SUFFICES ASSUME NEW c \in Requests, steady[c] PROVE Finds(c)'
  BY DEF Finds
<1>1. Finds(c) /\ \A v \in Registrars : Removes(v)' => Removes(v) /\ call'[v] = call[v]
  BY DEF RegistryInv, Removes
<1>2. /\ pc' = pc /\ handler_info' = handler_info /\ callback' = callback
      /\ again' = again /\ answer' = answer /\ uri' = uri
  BY DEF requestVars
<1>3. ASSUME pc[c] = "lookup"
      PROVE  \E n \in Listed' : info'[n].kind = "request" /\ info'[n].uri = uri[c]
                                /\ ~ info'[n].removing
  <2>1. PICK n \in Listed : info[n].kind = "request" /\ info[n].uri = uri[c] /\ ~ info[n].removing
    BY <1>1, <1>3 DEF Finds
  <2>2. ~ (Removes(t) /\ call[t].kind = info[n].kind /\ call[t].uri = info[n].uri)
    BY <1>1, <1>3, <2>1 DEF Finds
  <2> QED BY <2>1, <2>2
<1> QED BY <1>1, <1>2, <1>3 DEF Finds

(* What a call does to the table: it sets what is registered for one URI,  *)
(* which no request uses, or leaves the table as it is.                    *)
SameEntry(m) == info'[m].kind = info[m].kind /\ info'[m].uri = info[m].uri /\ info'[m].cb = info[m].cb
About(m, k, u) == info[m].kind = k /\ info[m].uri = u

SetsEntry(k, u, x) ==
    /\ k \in Kinds /\ u \in Uris /\ x \in Callbacks \cup {NoCallback}
    /\ UNCHANGED requestVars
    /\ \A c \in Requests : Holding(c) => ~ About(handler_info[c], k, u)
    /\ \A m \in Listed : info'[m].uri = info[m].uri
    /\ \A m \in Listed : ~ About(m, k, u) => m \in Listed' /\ SameEntry(m)
    /\ \A m \in Listed' : ~ (info'[m].kind = k /\ info'[m].uri = u) => m \in Listed /\ SameEntry(m)
    /\ \/ \E n \in Listed' : info'[n].kind = k /\ info'[n].uri = u /\ info'[n].cb = x
       \/ x = NoCallback /\ \A m \in Listed' : ~ (info'[m].kind = k /\ info'[m].uri = u)

LeavesTable ==
    UNCHANGED requestVars /\ Listed' = Listed /\ \A m \in Listed : SameEntry(m)

LEMMA CallTypes ==
    ASSUME RegTypes, NEW t \in Registrars, call[t] # NoCall
    PROVE  /\ call[t] \in Calls /\ call[t].kind \in Kinds /\ call[t].uri \in Uris
           /\ call[t].cb \in Callbacks \cup {NoCallback}
<1>1. call[t] \in Calls
  BY DEF RegTypes, TypeOK
<1> QED BY <1>1, CallsAssumption DEF Kinds

LEMMA SetHandlerStep ==
    ASSUME RegistryInv, NEW t \in Registrars, NEW s \in Calls, SetHandler(t, s)
    PROVE  RegistryInv' /\ LeavesTable
<1>1. /\ call' = [call EXCEPT ![t] = s] /\ UNCHANGED <<handlers, info>> /\ UNCHANGED requestVars
      /\ steady' = [c \in Requests |->
            steady[c] /\ ~ (s.kind = "request" /\ s.uri = uri[c] /\ s.cb = NoCallback)]
  BY DEF SetHandler, registryVars
<1>2. Listed' = Listed
  BY <1>1 DEF Listed
<1>3. RegTypes'
  BY SMTT(30), <1>1, <1>2 DEF RegistryInv, RegTypes, TypeOK, requestVars
<1>4. NoDuplicates'
  BY <1>1 DEF RegistryInv, NoDuplicates
<1>5. Counted' /\ \A c \in Requests : Knows(c)' /\ Keeps(c)'
  BY <1>1, <1>2, RegistrarCounted, RegistrarKeeps
<1>6. ASSUME NEW c \in Requests PROVE Finds(c)'
  <2>1. Finds(c)
    BY DEF RegistryInv
  <2>2. \A v \in Registrars \ {t} : call'[v] = call[v]
    BY <1>1 DEF RegistryInv, RegTypes
  <2>3. call'[t] = s
    BY <1>1 DEF RegistryInv, RegTypes
  <2>4. /\ pc' = pc /\ callback' = callback /\ again' = again /\ answer' = answer /\ uri' = uri
        /\ info' = info
    BY <1>1 DEF requestVars
  <2>5. steady'[c] => steady[c] /\ ~ (s.kind = "request" /\ s.uri = uri[c] /\ s.cb = NoCallback)
    BY <1>1
  <2>6. ASSUME NEW v \in Registrars, Removes(v)', steady'[c], pc[c] = "lookup"
        PROVE  call'[v].kind # "request" \/ call'[v].uri # uri[c]
    <3>1. CASE v = t
      BY <2>3, <2>5, <2>6, <3>1 DEF Removes
    <3>2. CASE v # t
      BY <2>1, <2>2, <2>5, <2>6, <3>2 DEF Removes, Finds
    <3> QED BY <3>1, <3>2
  <2> QED BY <1>2, <2>1, <2>4, <2>5, <2>6 DEF Finds
<1>7. LeavesTable
  BY <1>1, <1>2 DEF LeavesTable, SameEntry
<1> QED BY <1>3, <1>4, <1>5, <1>6, <1>7 DEF RegistryInv

LEMMA UpdateStep ==
    ASSUME RegistryInv, NEW t \in Registrars, Update(t)
    PROVE  RegistryInv' /\ SetsEntry(call[t].kind, call[t].uri, call[t].cb)
<1>1. PICK i \in Found(t) : ~ Busy(handlers[i]) /\ info' = [info EXCEPT ![handlers[i]].cb = call[t].cb]
  BY DEF Update
<1>2. PICK n : n = handlers[i]
  OBVIOUS
<1>3. /\ handlers' = handlers /\ steady' = steady /\ UNCHANGED requestVars
      /\ call' = [call EXCEPT ![t] = NoCall]
      /\ call[t].cb \in Callbacks
  BY CallTypes DEF Update, Returned, Adds, RegistryInv
<1>4. n \in Listed /\ n \in Nodes /\ Listed \subseteq Nodes
  BY <1>1, <1>2, InList DEF Found, RegistryInv, RegTypes, TypeOK
<1>5. /\ info'[n] = [info[n] EXCEPT !.cb = call[t].cb] /\ info[n] \in Entry
      /\ \A m \in Nodes \ {n} : info'[m] = info[m]
      /\ info' = [m \in Nodes |-> info'[m]]
  BY <1>1, <1>2, <1>4 DEF RegistryInv, RegTypes, TypeOK
<1>6. Listed' = Listed
  BY <1>3 DEF Listed
<1>7. /\ info'[n].kind = info[n].kind /\ info'[n].uri = info[n].uri
      /\ info'[n].refcount = info[n].refcount /\ info'[n].removing = info[n].removing
      /\ info'[n].cb = call[t].cb /\ info'[n] \in Entry
  BY <1>3, <1>5 DEF Entry
<1>8. \A m \in Listed : info'[m].kind = info[m].kind /\ info'[m].uri = info[m].uri
                        /\ info'[m].refcount = info[m].refcount
                        /\ info'[m].removing = info[m].removing
  BY <1>4, <1>5, <1>7
<1>9. RegTypes'
  <2>1. \A m \in Listed : info'[m] \in Entry /\ info'[m].cb \in Callbacks
    BY <1>3, <1>4, <1>5, <1>7 DEF RegistryInv, RegTypes, TypeOK
  <2> QED BY <1>3, <1>5, <1>6, <2>1 DEF RegistryInv, RegTypes, TypeOK, requestVars
<1>10. NoDuplicates'
  BY <1>3, <1>8, ListSame
<1>11. Counted'
  BY <1>3, <1>6, <1>8, RegistrarCounted
<1>12. \A c \in Requests : Knows(c)' /\ Keeps(c)'
  <2>1. \A c \in Requests : ~ (Holding(c) /\ handler_info[c] = n)
    BY <1>1, <1>2, <1>4, Unused
  <2>2. \A m \in Listed : m # n => info'[m].cb = info[m].cb
    BY <1>4, <1>5
  <2> QED BY <1>3, <1>6, <1>8, <2>1, <2>2, RegistrarKeeps
<1>13. \A c \in Requests : Finds(c)'
  <2>1. /\ call'[t] = NoCall
        /\ \A v \in Registrars \ {t} : call'[v] = call[v]
    BY <1>3 DEF RegistryInv, RegTypes
  <2> QED BY <1>3, <1>6, <1>8, <2>1, RegistrarFinds
<1>14. SetsEntry(call[t].kind, call[t].uri, call[t].cb)
  <2>1. call[t].kind \in Kinds /\ call[t].uri \in Uris
    BY CallTypes DEF Update, Adds, RegistryInv
  <2>2. About(n, call[t].kind, call[t].uri)
    BY <1>1, <1>2 DEF Found, About
  <2>3. ASSUME NEW c \in Requests, Holding(c), About(handler_info[c], call[t].kind, call[t].uri)
        PROVE  FALSE
    <3>1. handler_info[c] = n
      BY <1>4, <2>2, <2>3, OneEntry DEF About, RegistryInv, Keeps
    <3> QED BY <1>1, <1>2, <1>4, <2>3, <3>1, Unused
  <2>4. \A m \in Listed : m = n \/ SameEntry(m)
    BY <1>4, <1>5 DEF SameEntry
  <2>5. info'[n].kind = call[t].kind /\ info'[n].uri = call[t].uri /\ info'[n].cb = call[t].cb
    BY <1>7, <2>2 DEF About
  <2> QED BY <1>3, <1>4, <1>6, <1>8, <2>1, <2>2, <2>3, <2>4, <2>5 DEF SetsEntry
<1> QED BY <1>9, <1>10, <1>11, <1>12, <1>13, <1>14 DEF RegistryInv

LEMMA RemoveStep ==
    ASSUME RegistryInv, NEW t \in Registrars, Remove(t)
    PROVE  RegistryInv' /\ SetsEntry(call[t].kind, call[t].uri, call[t].cb)
<1>1. PICK i \in Found(t) :
         /\ ~ Busy(handlers[i])
         /\ handlers' = SubSeq(handlers, 1, i - 1) \o SubSeq(handlers, i + 1, Len(handlers))
  BY DEF Remove
<1>2. PICK n : n = handlers[i]
  OBVIOUS
<1>3. /\ info' = info /\ steady' = steady /\ UNCHANGED requestVars
      /\ call' = [call EXCEPT ![t] = NoCall] /\ Removes(t)
      /\ handlers \in Seq(Nodes) /\ NoDuplicates
  BY DEF Remove, Returned, RegistryInv, RegTypes, TypeOK
<1>4. i \in DOMAIN handlers /\ info[n].kind = call[t].kind /\ info[n].uri = call[t].uri
  BY <1>1, <1>2 DEF Found
<1>5. handlers' \in Seq(Nodes) /\ NoDuplicates' /\ Listed' = Listed \ {n}
  <2>1. \A m \in Listed : info'[m] = info[m]
    BY <1>3
  <2> QED BY <1>1, <1>2, <1>3, <1>4, <2>1, ListRemoved
<1>6. n \in Listed /\ ~ Busy(n)
  BY <1>1, <1>2, <1>3, <1>4, InList
<1>7. \A c \in Requests : ~ (Holding(c) /\ handler_info[c] = n)
  BY <1>6, Unused
<1>8. RegTypes'
  BY SMTT(30), <1>3, <1>5 DEF RegistryInv, RegTypes, TypeOK, requestVars
<1>9. Counted' /\ \A c \in Requests : Knows(c)' /\ Keeps(c)'
  <2>1. \A m \in Listed' : m \in Listed /\ info'[m] = info[m]
    BY <1>3, <1>5
  <2>2. \A m \in Listed : \/ m \in Listed' /\ info'[m] = info[m]
                          \/ \A c \in Requests : ~ (Holding(c) /\ handler_info[c] = m)
    BY <1>3, <1>5, <1>7
  <2> QED BY <1>3, <2>1, <2>2, RegistrarCounted, RegistrarKeeps
<1>10. \A c \in Requests : Finds(c)'
  <2>1. /\ call'[t] = NoCall
        /\ \A v \in Registrars \ {t} : call'[v] = call[v]
    BY <1>3 DEF RegistryInv, RegTypes
  <2>2. \A m \in Listed : \/ m \in Listed' /\ info'[m] = info[m]
                          \/ Removes(t) /\ call[t].kind = info[m].kind /\ call[t].uri = info[m].uri
    BY <1>3, <1>4, <1>5
  <2> QED BY <1>3, <2>1, <2>2, RegistrarFinds
<1>11. SetsEntry(call[t].kind, call[t].uri, call[t].cb)
  <2>1. call[t].kind \in Kinds /\ call[t].uri \in Uris /\ call[t].cb = NoCallback
    BY <1>3, CallTypes DEF Removes, RegistryInv
  <2>2. \A m \in Listed : About(m, call[t].kind, call[t].uri) => m = n
    BY <1>4, <1>6, OneEntry DEF About
  <2>3. \A c \in Requests : Holding(c) => ~ About(handler_info[c], call[t].kind, call[t].uri)
    BY <1>7, <2>2 DEF RegistryInv, Keeps
  <2>4. /\ \A m : SameEntry(m)
        /\ \A m : info'[m].kind = info[m].kind /\ info'[m].uri = info[m].uri
    BY <1>3 DEF SameEntry
  <2>5. About(n, call[t].kind, call[t].uri)
    BY <1>4 DEF About
  <2>6. \A m \in Listed' : m \in Listed /\ ~ About(m, call[t].kind, call[t].uri)
    BY <1>5, <2>2
  <2> QED BY <1>3, <1>5, <2>1, <2>2, <2>3, <2>4, <2>5, <2>6 DEF SetsEntry, About
<1> QED BY <1>5, <1>8, <1>9, <1>10, <1>11 DEF RegistryInv

LEMMA NothingStep ==
    ASSUME RegistryInv, NEW t \in Registrars, RemoveNothing(t) \/ AddFails(t)
    PROVE  RegistryInv' /\ LeavesTable
<1>1. /\ handlers' = handlers /\ info' = info /\ steady' = steady /\ UNCHANGED requestVars
      /\ call' = [call EXCEPT ![t] = NoCall]
  BY DEF RemoveNothing, AddFails, Returned, registryVars
<1>2. Listed' = Listed
  BY <1>1 DEF Listed
<1>3. RegTypes'
  BY ZenonT(40), <1>1, <1>2 DEF RegistryInv, RegTypes, TypeOK, requestVars
<1>4. NoDuplicates' /\ Counted' /\ \A c \in Requests : Knows(c)' /\ Keeps(c)'
  BY <1>1, <1>2, ListSame, RegistrarCounted, RegistrarKeeps
<1>5. \A c \in Requests : Finds(c)'
  <2>1. /\ call'[t] = NoCall
        /\ \A v \in Registrars \ {t} : call'[v] = call[v]
    BY <1>1 DEF RegistryInv, RegTypes
  <2> QED BY <1>1, <1>2, <2>1, RegistrarFinds
<1>6. LeavesTable
  BY <1>1, <1>2 DEF LeavesTable, SameEntry
<1> QED BY <1>3, <1>4, <1>5, <1>6 DEF RegistryInv

LEMMA WaitStep ==
    ASSUME RegistryInv, NEW t \in Registrars, WaitForEndOfUse(t)
    PROVE  RegistryInv' /\ LeavesTable
<1>1. PICK i \in Found(t) : info' = [info EXCEPT ![handlers[i]].removing = TRUE]
  BY DEF WaitForEndOfUse
<1>2. PICK n : n = handlers[i]
  OBVIOUS
<1>3. /\ handlers' = handlers /\ steady' = steady /\ UNCHANGED requestVars
      /\ call' = call /\ Removes(t)
  BY DEF WaitForEndOfUse
<1>4. /\ n \in Listed /\ n \in Nodes /\ Listed \subseteq Nodes
      /\ info[n].kind = call[t].kind /\ info[n].uri = call[t].uri
  BY <1>1, <1>2, InList DEF Found, RegistryInv, RegTypes, TypeOK
<1>5. /\ info'[n] = [info[n] EXCEPT !.removing = TRUE] /\ info[n] \in Entry
      /\ \A m \in Nodes \ {n} : info'[m] = info[m]
      /\ info' = [m \in Nodes |-> info'[m]]
  BY <1>1, <1>2, <1>4 DEF RegistryInv, RegTypes, TypeOK
<1>6. Listed' = Listed
  BY <1>3 DEF Listed
<1>7. /\ info'[n].kind = info[n].kind /\ info'[n].uri = info[n].uri
      /\ info'[n].refcount = info[n].refcount /\ info'[n].cb = info[n].cb
      /\ info'[n] \in Entry
  BY <1>5 DEF Entry
<1>8. \A m \in Listed : /\ info'[m].kind = info[m].kind /\ info'[m].uri = info[m].uri
                        /\ info'[m].refcount = info[m].refcount
                        /\ info'[m].cb = info[m].cb
  BY <1>4, <1>5, <1>7
<1>9. RegTypes'
  <2>1. \A m \in Listed : info'[m] \in Entry /\ info'[m].cb \in Callbacks
    BY ZenonT(40), <1>4, <1>5, <1>7 DEF RegistryInv, RegTypes, TypeOK
  <2> QED BY <1>3, <1>5, <1>6, <2>1 DEF RegistryInv, RegTypes, TypeOK, requestVars
<1>10. NoDuplicates' /\ Counted' /\ \A c \in Requests : Knows(c)' /\ Keeps(c)'
  BY <1>3, <1>6, <1>8, ListSame, RegistrarCounted, RegistrarKeeps
<1>11. \A c \in Requests : Finds(c)'
  <2>1. \A m \in Listed : m # n => info'[m].removing = info[m].removing
    BY <1>4, <1>5
  <2> QED BY <1>3, <1>4, <1>6, <1>8, <2>1, RegistrarFinds
<1>12. LeavesTable
  BY <1>3, <1>6, <1>8 DEF LeavesTable, SameEntry
<1> QED BY <1>9, <1>10, <1>11, <1>12 DEF RegistryInv

LEMMA AddStep ==
    ASSUME RegistryInv, NEW t \in Registrars, Add(t)
    PROVE  RegistryInv' /\ SetsEntry(call[t].kind, call[t].uri, call[t].cb)
<1>1. PICK n \in Nodes : Append1(t, n)
  BY DEF Add
<1>2. /\ steady' = steady /\ UNCHANGED requestVars /\ Found(t) = {}
      /\ call' = [call EXCEPT ![t] = NoCall]
      /\ call[t].kind \in Kinds /\ call[t].uri \in Uris /\ call[t].cb \in Callbacks
      /\ handlers \in Seq(Nodes) /\ NoDuplicates
  BY CallTypes DEF Add, Returned, Adds, RegistryInv, RegTypes, TypeOK
<1>3. n \notin Listed /\ handlers' = Append(handlers, n)
  BY <1>1 DEF Append1
<1>4. PICK e : /\ e = [kind |-> call[t].kind, uri |-> call[t].uri, cb |-> call[t].cb,
                       refcount |-> 0, removing |-> FALSE]
               /\ info' = [info EXCEPT ![n] = e]
  BY <1>1 DEF Append1
<1>5. /\ info'[n] = e
      /\ \A m \in Nodes \ {n} : info'[m] = info[m]
      /\ info' = [m \in Nodes |-> info'[m]]
  BY <1>4 DEF RegistryInv, RegTypes
<1>6. e \in Entry /\ e.kind = call[t].kind /\ e.uri = call[t].uri /\ e.refcount = 0 /\ e.cb \in Callbacks
  BY <1>2, <1>4, RefAssumption, FS_CardinalityType DEF Entry
<1>7. \A m \in Listed : /\ m \in Nodes \ {n} /\ info'[m] = info[m]
                        /\ info[m].kind = e.kind => info[m].uri # e.uri
  <2>1. ASSUME NEW m \in Listed, info[m].kind = e.kind, info[m].uri = e.uri PROVE FALSE
    <3>1. PICK i \in DOMAIN handlers : handlers[i] = m
      BY <1>2, InList
    <3> QED BY <1>2, <1>6, <2>1, <3>1 DEF Found
  <2>2. \A m \in Listed : m \in Nodes \ {n}
    BY <1>2, <1>3, InList
  <2> QED BY <1>5, <2>1, <2>2
<1>8. handlers' \in Seq(Nodes) /\ NoDuplicates' /\ Listed' = Listed \cup {n}
  BY <1>2, <1>3, <1>5, <1>7, ListAppended
<1>9. \A c \in Requests : ~ (Holding(c) /\ handler_info[c] = n)
  BY <1>3 DEF RegistryInv, Keeps
<1>10. RegTypes'
  <2>1. \A m \in Listed' : info'[m] \in Entry /\ info'[m].cb \in Callbacks
    <3>1. \A m \in Listed : info[m] \in Entry /\ info[m].cb \in Callbacks
      BY DEF RegistryInv, RegTypes, TypeOK
    <3> QED BY ONLY <1>5, <1>6, <1>7, <1>8, <3>1
  <2> QED BY ZenonT(40), <1>2, <1>5, <1>8, <2>1 DEF RegistryInv, RegTypes, TypeOK, requestVars
<1>11. Counted' /\ \A c \in Requests : Knows(c)' /\ Keeps(c)'
  <2>1. \A m \in Listed : m \in Listed' /\ info'[m] = info[m]
    BY <1>7, <1>8
  <2>2. \A m \in Listed' : \/ m \in Listed /\ info'[m] = info[m]
                           \/ /\ \A c \in Requests : ~ (Holding(c) /\ handler_info[c] = m)
                              /\ info'[m].refcount = 0
    BY <1>5, <1>6, <1>7, <1>8, <1>9
  <2> QED BY <1>2, <2>1, <2>2, RegistrarCounted, RegistrarKeeps
<1>12. \A c \in Requests : Finds(c)'
  <2>1. /\ call'[t] = NoCall
        /\ \A v \in Registrars \ {t} : call'[v] = call[v]
    BY <1>2 DEF RegistryInv, RegTypes
  <2>2. \A m \in Listed : m \in Listed' /\ info'[m] = info[m]
    BY <1>7, <1>8
  <2> QED BY <1>2, <2>1, <2>2, RegistrarFinds
<1>13. SetsEntry(call[t].kind, call[t].uri, call[t].cb)
  <2>1. \A m \in Listed : ~ About(m, call[t].kind, call[t].uri)
    BY <1>6, <1>7 DEF About
  <2>2. \A m \in Listed : SameEntry(m) /\ info'[m].uri = info[m].uri /\ m \in Listed'
    BY <1>7, <1>8 DEF SameEntry
  <2>3. info'[n].kind = call[t].kind /\ info'[n].uri = call[t].uri /\ info'[n].cb = call[t].cb
    BY <1>4, <1>5, <1>6
  <2>4. \A m \in Listed' : m = n \/ m \in Listed
    BY <1>8
  <2>5. n \in Listed'
    BY <1>8
  <2>6. \A c \in Requests : Holding(c) => ~ About(handler_info[c], call[t].kind, call[t].uri)
    BY <2>1 DEF RegistryInv, Keeps
  <2> QED BY <1>2, <2>1, <2>2, <2>3, <2>4, <2>5, <2>6 DEF SetsEntry
<1> QED BY <1>8, <1>10, <1>11, <1>12, <1>13 DEF RegistryInv

LEMMA RegistrarStep ==
    ASSUME RegistryInv, NEW t \in Registrars,
           Searches(t) \/ \E s \in Calls : SetHandler(t, s)
    PROVE  /\ RegistryInv'
           /\ LeavesTable \/ SetsEntry(call[t].kind, call[t].uri, call[t].cb)
BY SetHandlerStep, UpdateStep, RemoveStep, NothingStep, WaitStep, AddStep DEF Searches, Look

-----------------------------------------------------------------------------
(* The requests.  A step of one leaves the others and the list alone, and  *)
(* of the entries it changes the counts only.                              *)
Others(c) ==
    /\ handlers' = handlers /\ call' = call
    /\ info' = [n \in Nodes |-> info'[n]]
    /\ \A n \in Listed : /\ info'[n] \in Entry
                         /\ info'[n].kind = info[n].kind /\ info'[n].uri = info[n].uri
                         /\ info'[n].cb = info[n].cb /\ info'[n].removing = info[n].removing
    /\ \A d \in Requests \ {c} :
          /\ pc'[d] = pc[d] /\ uri'[d] = uri[d] /\ handler_info'[d] = handler_info[d]
          /\ callback'[d] = callback[d] /\ again'[d] = again[d]
          /\ answer'[d] = answer[d] /\ steady'[d] = steady[d]

LEMMA OthersKept ==
    ASSUME RegistryInv, NEW c \in Requests, Others(c), RegTypes',
           Counted', Knows(c)', Keeps(c)', Finds(c)'
    PROVE  RegistryInv'
<1>1. NoDuplicates' /\ Listed' = Listed
  BY ListSame DEF Others, Listed
<1>2. ASSUME NEW d \in Requests \ {c} PROVE Knows(d)' /\ Keeps(d)' /\ Finds(d)'
  <2>1. Knows(d) /\ Keeps(d) /\ Finds(d)
    BY DEF RegistryInv
  <2>2. Knows(d)'
    BY <2>1 DEF Knows, Others
  <2>3. Keeps(d)'
    BY <1>1, <2>1 DEF Keeps, Holding, Others
  <2>4. Finds(d)'
    BY <1>1, <2>1 DEF Finds, Others, Removes
  <2> QED BY <2>2, <2>3, <2>4
<1> QED BY <1>1, <1>2 DEF RegistryInv

(* refcount, modulo 2^32, is not at its ends.                              *)
LEMMA Counting ==
    /\ RefMod \in Nat \ {0}
    /\ \A k \in 0 .. RefMod - 2 : (k + 1) % RefMod = k + 1
    /\ \A k \in 1 .. RefMod - 1 : (k + RefMod - 1) % RefMod = k - 1
<1>1. RefMod \in Nat \ {0}
  BY RefAssumption, FS_CardinalityType
<1>2. \A x, q \in Int : \A r \in 0 .. RefMod - 1 : x = RefMod * q + r => x % RefMod = r
  BY ONLY <1>1
<1>3. ASSUME NEW k \in 0 .. RefMod - 2 PROVE (k + 1) % RefMod = k + 1
  <2>1. k + 1 \in 0 .. RefMod - 1 /\ k + 1 \in Int /\ k + 1 = RefMod * 0 + (k + 1) /\ 0 \in Int
    BY ONLY <1>1, <1>3
  <2> QED BY ONLY <1>2, <2>1
<1>4. ASSUME NEW k \in 1 .. RefMod - 1 PROVE (k + RefMod - 1) % RefMod = k - 1
  <2>1. /\ k - 1 \in 0 .. RefMod - 1 /\ k + RefMod - 1 \in Int
        /\ k + RefMod - 1 = RefMod * 1 + (k - 1) /\ 1 \in Int
    BY ONLY <1>1, <1>4
  <2> QED BY ONLY <1>2, <2>1
<1> QED BY <1>1, <1>3, <1>4

LEMMA CountedBy ==
    ASSUME RegistryInv, NEW c \in Requests, Others(c),
           \A n \in Listed : info[n].kind = "request" =>
              info'[n].refcount = Cardinality({d \in Requests : Holding(d)' /\ handler_info'[d] = n})
    PROVE  Counted'
<1>1. Listed' = Listed
  BY DEF Others, Listed
<1> QED BY <1>1 DEF Counted, Others

LEMMA CountSame ==
    ASSUME RegistryInv, NEW c \in Requests, Others(c),
           \A n \in Listed : info'[n].refcount = info[n].refcount,
           Holding(c)' <=> Holding(c),
           Holding(c) => handler_info'[c] = handler_info[c]
    PROVE  Counted'
<1>1. ASSUME NEW n \in Listed
      PROVE  {d \in Requests : Holding(d)' /\ handler_info'[d] = n} = Users(n)
  BY DEF Others, Holding, Users
<1>2. \A n \in Listed : info[n].kind = "request" => info[n].refcount = Cardinality(Users(n))
  BY DEF RegistryInv, Counted, Users
<1> QED BY <1>1, <1>2, CountedBy

LEMMA CountTake ==
    ASSUME RegistryInv, NEW c \in Requests, Others(c), NEW m \in Listed,
           info[m].kind = "request",
           info'[m].refcount = (info[m].refcount + 1) % RefMod,
           \A n \in Listed \ {m} : info'[n].refcount = info[n].refcount,
           ~ Holding(c), Holding(c)', handler_info'[c] = m
    PROVE  Counted'
<1>1. \A n \in Listed : info[n].kind = "request" => info[n].refcount = Cardinality(Users(n))
  BY DEF RegistryInv, Counted, Users
<1>2. ASSUME NEW n \in Listed
      PROVE  {d \in Requests : Holding(d)' /\ handler_info'[d] = n}
                = IF n = m THEN Users(n) \cup {c} ELSE Users(n)
  BY DEF Others, Holding, Users
<1>3. Cardinality(Users(m) \cup {c}) = Cardinality(Users(m)) + 1
  <2>1. c \notin Users(m)
    BY DEF Users
  <2> QED BY <2>1, FiniteUsers, FS_AddElement
<1>4. Cardinality(Users(m)) + 1 <= Cardinality(Requests)
  <2>1. IsFiniteSet(Requests) /\ Users(m) \cup {c} \subseteq Requests
    BY RefAssumption DEF Users
  <2> QED BY ONLY <1>3, <2>1, FS_Subset
<1>5. info'[m].refcount = Cardinality(Users(m)) + 1
  <2>1. info[m].refcount \in 0 .. RefMod - 2
    <3>1. info[m].refcount = Cardinality(Users(m)) /\ Cardinality(Users(m)) \in Nat
          /\ Cardinality(Requests) \in Nat
      BY <1>1, FiniteUsers
    <3> QED BY ONLY <1>4, <3>1, RefAssumption
  <2>2. (info[m].refcount + 1) % RefMod = info[m].refcount + 1
    BY ONLY <2>1, Counting
  <2> QED BY <1>1, <2>2
<1>6. ASSUME NEW n \in Listed, info[n].kind = "request"
      PROVE  info'[n].refcount
                = Cardinality({d \in Requests : Holding(d)' /\ handler_info'[d] = n})
  <2>1. CASE n = m
    BY <1>2, <1>3, <1>5, <2>1
  <2>2. CASE n # m
    BY <1>1, <1>2, <1>6, <2>2
  <2> QED BY <2>1, <2>2
<1> QED BY <1>6, CountedBy

LEMMA CountGive ==
    ASSUME RegistryInv, NEW c \in Requests, Others(c), NEW m \in Listed,
           info[m].kind = "request",
           info'[m].refcount = (info[m].refcount + RefMod - 1) % RefMod,
           \A n \in Listed \ {m} : info'[n].refcount = info[n].refcount,
           Holding(c), ~ Holding(c)', handler_info[c] = m
    PROVE  Counted'
<1>1. \A n \in Listed : info[n].kind = "request" => info[n].refcount = Cardinality(Users(n))
  BY DEF RegistryInv, Counted, Users
<1>2. ASSUME NEW n \in Listed
      PROVE  {d \in Requests : Holding(d)' /\ handler_info'[d] = n}
                = IF n = m THEN Users(n) \ {c} ELSE Users(n)
  BY DEF Others, Holding, Users
<1>3. c \in Users(m)
  BY DEF Users
<1>4. Cardinality(Users(m) \ {c}) = Cardinality(Users(m)) - 1
  BY <1>3, FiniteUsers, FS_RemoveElement
<1>5. info'[m].refcount = Cardinality(Users(m)) - 1
  <2>1. info[m].refcount \in 1 .. RefMod - 1
    <3>1. /\ info[m].refcount = Cardinality(Users(m)) /\ Cardinality(Users(m)) \in Nat
          /\ Cardinality(Users(m)) <= Cardinality(Requests) /\ Cardinality(Requests) \in Nat
      BY <1>1, FiniteUsers
    <3>2. Cardinality(Users(m)) # 0
      BY <1>3, FiniteUsers, FS_EmptySet
    <3> QED BY ONLY <3>1, <3>2, RefAssumption
  <2>2. (info[m].refcount + RefMod - 1) % RefMod = info[m].refcount - 1
    BY ONLY <2>1, Counting
  <2> QED BY <1>1, <2>2
<1>6. ASSUME NEW n \in Listed, info[n].kind = "request"
      PROVE  info'[n].refcount
                = Cardinality({d \in Requests : Holding(d)' /\ handler_info'[d] = n})
  <2>1. CASE n = m
    BY <1>2, <1>4, <1>5, <2>1
  <2>2. CASE n # m
    BY <1>1, <1>2, <1>6, <2>2
  <2> QED BY <2>1, <2>2
<1> QED BY <1>6, CountedBy

(* What a request's step does with its entry.                              *)
Idles(c) == ~ Holding(c)' /\ ~ Holding(c)
Holds(c) ==
    /\ Holding(c)' /\ Holding(c)
    /\ handler_info'[c] = handler_info[c] /\ callback'[c] = callback[c] /\ uri'[c] = uri[c]
Takes(c) ==
    \E i \in Matched("request", uri[c]) :
       /\ ~ Holding(c) /\ Holding(c)' /\ uri'[c] = uri[c] /\ uri[c] \in Uris
       /\ handler_info'[c] = handlers[i] /\ callback'[c] = info[handlers[i]].cb

(* Steps that leave the registry alone, with nothing taken or given back.  *)
LEMMA QuietStep ==
    ASSUME RegistryInv, NEW c \in Requests,
           (\E r \in RequestUris, m \in Methods : Request(c, r, m))
             \/ FindAuth(c) \/ NotAllowed(c) \/ Granted(c) \/ NextRequest(c)
    PROVE  RegistryInv' /\ Others(c) /\ (Idles(c) \/ Holds(c))
<1> USE DEF registryVars
<1>0. Knows(c) /\ Keeps(c) /\ Finds(c) /\ RegTypes
  BY DEF RegistryInv
<1>1. UNCHANGED <<handlers, info, call>>
  BY DEF Request, FindAuth, NotAllowed, Granted, NextRequest
<1>2. Listed' = Listed
  BY <1>1 DEF Listed
<1>3. Others(c)
  <2>1. \A d \in Requests \ {c} :
          /\ pc'[d] = pc[d] /\ uri'[d] = uri[d] /\ handler_info'[d] = handler_info[d]
          /\ callback'[d] = callback[d] /\ again'[d] = again[d]
          /\ answer'[d] = answer[d] /\ steady'[d] = steady[d]
    BY <1>0 DEF Request, FindAuth, NotAllowed, Granted, NextRequest, Answer, RegTypes, TypeOK
  <2> QED BY <1>0, <1>1, <2>1 DEF Others, RegTypes, TypeOK
<1>4. RegTypes'
  <2> USE <1>0, <1>1, <1>2 DEF RegTypes, TypeOK
  <2>1. ASSUME NEW q \in RequestUris, NEW m \in Methods, Request(c, q, m) PROVE RegTypes'
    BY ZenonT(40), <2>1 DEF Request
  <2>2. CASE FindAuth(c)
    BY <2>2 DEF FindAuth
  <2>3. CASE NotAllowed(c)
    BY <2>3 DEF NotAllowed, Answer
  <2>4. CASE Granted(c)
    BY <2>4 DEF Granted, Answer
  <2>5. CASE NextRequest(c)
    <3>1. /\ pc' = [pc EXCEPT ![c] = "idle"]
          /\ \A d \in Requests : pc'[d] # "idle" => d # c /\ pc[d] # "idle"
      BY <2>5 DEF NextRequest
    <3>2. \E u : uri' = [uri EXCEPT ![c] = u]
      BY <2>5 DEF NextRequest
    <3>3. \E u : method' = [method EXCEPT ![c] = u]
      BY <2>5 DEF NextRequest
    <3>4. /\ uri' = [d \in Requests |-> uri'[d]] /\ method' = [d \in Requests |-> method'[d]]
          /\ \A d \in Requests \ {c} : uri'[d] = uri[d]
      BY ZenonT(40), <3>2, <3>3
    <3> QED BY <2>5, <3>1, <3>4 DEF NextRequest
  <2> HIDE <1>0, <1>1, <1>2 DEF RegTypes, TypeOK
  <2> QED BY <2>1, <2>2, <2>3, <2>4, <2>5
<1>5. Holding(c)' <=> Holding(c)
  BY <1>0 DEF Request, FindAuth, NotAllowed, Granted, NextRequest, Answer, RegTypes, TypeOK,
              Holding, Knows
<1>6. Holding(c) => handler_info'[c] = handler_info[c] /\ callback'[c] = callback[c]
  BY DEF Request, FindAuth, NotAllowed, Granted, NextRequest, Holding
<1>7. Counted'
  BY <1>1, <1>3, <1>5, <1>6, CountSame
<1>8. Knows(c)'
  BY <1>0 DEF Request, FindAuth, NotAllowed, Granted, NextRequest, Answer, RegTypes, TypeOK, Knows
<1>9. Keeps(c)'
  BY <1>0, <1>1, <1>2, <1>5, <1>6 DEF Keeps
<1>10. Finds(c)'
  <2>1. ASSUME NEW q \in RequestUris, NEW m \in Methods, Request(c, q, m) PROVE Finds(c)'
    BY <1>0, <1>1, <1>2, <2>1 DEF Request, RegTypes, TypeOK, Finds, Knows, Removes
  <2>2. CASE FindAuth(c)
    BY <1>0, <2>2 DEF FindAuth, RegTypes, TypeOK, Finds, Knows
  <2>3. CASE NotAllowed(c)
    BY <1>0, <2>3 DEF NotAllowed, Answer, RegTypes, TypeOK, Finds, Knows
  <2>4. CASE Granted(c)
    BY <1>0, <2>4 DEF Granted, Answer, RegTypes, TypeOK, Finds, Knows
  <2>5. CASE NextRequest(c)
    BY <1>0, <2>5 DEF NextRequest, RegTypes, TypeOK, Finds
  <2> QED BY <2>1, <2>2, <2>3, <2>4, <2>5
<1>11. Holding(c) => uri'[c] = uri[c]
  BY <1>0 DEF Request, FindAuth, NotAllowed, Granted, NextRequest, Holding
<1> QED BY <1>3, <1>4, <1>5, <1>6, <1>7, <1>8, <1>9, <1>10, <1>11, OthersKept DEF Holds, Idles

(* get_request_handler finds an entry for the URI itself.                  *)
LEMMA ExactFound ==
    ASSUME RegistryInv, NEW u, NEW n \in Listed, info[n].kind = "request", info[n].uri = u
    PROVE  \E i \in Matched("request", u) : handlers[i] = n
<1>1. PICK i \in DOMAIN handlers : handlers[i] = n
  BY InList DEF RegistryInv, RegTypes, TypeOK
<1>2. i \in OfKind("request") /\ Step(i, 0, u)
  BY <1>1 DEF OfKind, Step
<1>3. \A j \in OfKind("request") : Step(j, 0, u) => j = i
  BY <1>1 DEF RegistryInv, NoDuplicates, OfKind, Step
<1>4. i \in Int /\ ~ (i < i)
  BY <1>1, InList DEF RegistryInv, RegTypes, TypeOK
<1>5. 0 \in 0 .. 2 /\ 0 .. 0 - 1 = {}
  OBVIOUS
<1>6. \A j \in OfKind("request") : j < i => ~ Step(j, 0, u)
  BY <1>3, <1>4
<1>7. i \in Matched("request", u)
  BY ONLY <1>2, <1>5, <1>6 DEF Matched
<1> QED BY <1>1, <1>7

LEMMA LookupStep ==
    ASSUME RegistryInv, NEW c \in Requests, Lookup(c)
    PROVE  RegistryInv' /\ Others(c) /\ (Idles(c) \/ Takes(c))
<1> DEFINE usable == {i \in Matched("request", uri[c]) : ~ info[handlers[i]].removing}
<1>0. Knows(c) /\ Keeps(c) /\ Finds(c) /\ RegTypes
  BY DEF RegistryInv
<1>1. /\ pc[c] = "lookup" /\ pc' = [pc EXCEPT ![c] = "auth"]
      /\ UNCHANGED <<handlers, call, uri, method, again, answer, steady>>
  BY DEF Lookup
<1>2. Listed' = Listed
  BY <1>1 DEF Listed
<1>3. /\ handler_info[c] = NoNode /\ callback[c] = NoCallback /\ ~ again[c] /\ answer[c] = 0
      /\ ~ Holding(c)
  BY <1>0, <1>1 DEF Knows, Holding
<1>4. CASE usable = {}
  <2>1. UNCHANGED <<info, handler_info, callback>>
    BY <1>4 DEF Lookup
  <2>2. ~ steady[c]
    <3>1. SUFFICES ASSUME steady[c] PROVE FALSE
      BY <1>0 DEF RegTypes
    <3>2. PICK n \in Listed : /\ info[n].kind = "request" /\ info[n].uri = uri[c]
                              /\ ~ info[n].removing
      BY <1>0, <1>1, <3>1 DEF Finds
    <3>3. PICK i \in Matched("request", uri[c]) : handlers[i] = n
      BY <3>2, ExactFound
    <3> QED BY <1>4, <3>2, <3>3
  <2>3. Others(c)
    BY <1>0, <1>1, <2>1 DEF Others, RegTypes, TypeOK
  <2>4. RegTypes'
    BY <1>0, <1>1, <1>2, <2>1 DEF RegTypes, TypeOK
  <2>5. Knows(c)' /\ Keeps(c)' /\ Finds(c)' /\ ~ Holding(c)'
    BY <1>0, <1>1, <1>3, <2>1, <2>2 DEF RegTypes, TypeOK, Knows, Keeps, Finds, Holding
  <2>6. Counted'
    BY <1>3, <2>1, <2>3, <2>5, CountSame
  <2> QED BY <1>3, <2>3, <2>4, <2>5, <2>6, OthersKept DEF Idles
<1>5. CASE usable # {}
  <2>1. PICK i \in usable :
          /\ info' = [info EXCEPT ![handlers[i]].refcount = (@ + 1) % RefMod]
          /\ handler_info' = [handler_info EXCEPT ![c] = handlers[i]]
          /\ callback' = [callback EXCEPT ![c] = info[handlers[i]].cb]
    BY <1>5 DEF Lookup
  <2>2. PICK m : m = handlers[i]
    OBVIOUS
  <2>3. i \in DOMAIN handlers /\ info[m].kind = "request"
    BY <2>2 DEF Matched, OfKind
  <2>4. m \in Listed /\ m \in Nodes /\ Listed \subseteq Nodes
    BY <1>0, <2>2, <2>3, InList DEF RegTypes, TypeOK
  <2>5. PICK k : k = (info[m].refcount + 1) % RefMod
    OBVIOUS
  <2>6. k \in 0 .. RefMod - 1
    <3>1. info[m].refcount \in 0 .. RefMod - 1
      BY <1>0, <2>4 DEF RegTypes, TypeOK, Entry
    <3>2. info[m].refcount + 1 \in Int
      BY <3>1
    <3> QED BY ONLY <2>5, <3>2, Counting
  <2>7. /\ info' = [info EXCEPT ![m] = [@ EXCEPT !.refcount = k]]
        /\ info[m] \in Entry /\ info[m].cb \in Callbacks
    BY <1>0, <2>1, <2>2, <2>4, <2>5 DEF RegTypes, TypeOK
  <2>8. /\ info'[m] = [info[m] EXCEPT !.refcount = k]
        /\ \A n \in Nodes \ {m} : info'[n] = info[n]
        /\ info' = [n \in Nodes |-> info'[n]]
    BY <1>0, <2>4, <2>7 DEF RegTypes
  <2>9. /\ info'[m] \in Entry /\ info'[m].kind = info[m].kind /\ info'[m].uri = info[m].uri
        /\ info'[m].cb = info[m].cb /\ info'[m].removing = info[m].removing
        /\ info'[m].refcount = k
    BY ONLY <2>6, <2>7, <2>8 DEF Entry
  <2>10. \A n \in Listed : info[n] \in Entry
    BY <1>0 DEF RegTypes, TypeOK
  <2>11. \A n \in Listed : /\ info'[n] \in Entry
                           /\ info'[n].kind = info[n].kind /\ info'[n].uri = info[n].uri
                           /\ info'[n].cb = info[n].cb /\ info'[n].removing = info[n].removing
    BY ONLY <2>4, <2>8, <2>9, <2>10
  <2>12. /\ handler_info' = [handler_info EXCEPT ![c] = m]
         /\ callback' = [callback EXCEPT ![c] = info[m].cb]
    BY <2>1, <2>2
  <2>13. Others(c)
    BY <1>0, <1>1, <2>8, <2>11, <2>12 DEF Others, RegTypes, TypeOK
  <2>14. RegTypes'
    <3>1. \A n \in Listed' : info'[n] \in Entry /\ info'[n].cb \in Callbacks
      BY <1>0, <1>2, <2>11 DEF RegTypes
    <3> QED BY SMTT(30), <1>0, <1>1, <2>4, <2>7, <2>8, <2>12, <3>1 DEF RegTypes, TypeOK
  <2>15. /\ handler_info'[c] = m /\ m # NoNode /\ pc'[c] = "auth"
         /\ callback'[c] = info[m].cb /\ callback'[c] # NoCallback
    BY <1>0, <1>1, <2>4, <2>7, <2>12, DistinctAssumption DEF RegTypes, TypeOK
  <2>16. Holding(c)'
    BY <2>15 DEF Holding
  <2>17. Counted'
    <3>1. \A n \in Listed \ {m} : info'[n].refcount = info[n].refcount
      BY <2>4, <2>8
    <3>2. info'[m].refcount = (info[m].refcount + 1) % RefMod
      BY <2>5, <2>9
    <3> QED BY <1>3, <2>3, <2>4, <2>13, <2>15, <2>16, <3>1, <3>2, CountTake
  <2>18. Knows(c)'
    BY <1>1, <1>3, <2>15 DEF Knows
  <2>19. Keeps(c)'
    BY <1>2, <2>3, <2>4, <2>9, <2>15 DEF Keeps
  <2>20. Finds(c)'
    BY <1>1, <1>3, <2>15 DEF Finds
  <2>21. Takes(c)
    <3>1. uri[c] \in Uris /\ uri'[c] = uri[c]
      BY <1>0, <1>1, UriAssumption DEF RegTypes
    <3> QED BY <1>3, <2>2, <2>15, <2>16, <3>1 DEF Takes
  <2> QED BY <2>13, <2>14, <2>17, <2>18, <2>19, <2>20, <2>21, OthersKept
<1> QED BY <1>4, <1>5

(* A request gives its entry back: its callback has handled it or has not, *)
(* or it is refused.                                                       *)
LEMMA GiveStep ==
    ASSUME RegistryInv, NEW c \in Requests, Holding(c),
           CallReturns(c) \/ FallThrough(c) \/ Refused(c)
    PROVE  RegistryInv' /\ Others(c) /\ ~ Holding(c)'
<1>0. Knows(c) /\ Keeps(c) /\ Finds(c) /\ RegTypes
  BY DEF RegistryInv
<1>1. /\ Release(c) /\ UNCHANGED <<handlers, call, uri, method, handler_info, steady>>
      /\ callback[c] # NoCallback /\ pc[c] \in {"auth", "asked", "calling"}
  BY DEF CallReturns, FallThrough, Refused, Holding
<1>2. Listed' = Listed
  BY <1>1 DEF Listed
<1>3. PICK m : m = handler_info[c]
  OBVIOUS
<1>4. m \in Listed /\ info[m].kind = "request" /\ info[m].cb = callback[c]
  BY <1>0, <1>3 DEF Keeps
<1>5. m \in Nodes /\ Listed \subseteq Nodes /\ m # NoNode
  BY <1>0, <1>4, InList, DistinctAssumption DEF RegTypes, TypeOK
<1>6. PICK k : k = (info[m].refcount + RefMod - 1) % RefMod
  OBVIOUS
<1>7. k \in 0 .. RefMod - 1
  <2>1. info[m].refcount \in 0 .. RefMod - 1
    BY <1>0, <1>4 DEF RegTypes, TypeOK, Entry
  <2>2. info[m].refcount + RefMod - 1 \in Int
    BY ONLY <2>1, Counting
  <2> QED BY ONLY <1>6, <2>2, Counting
<1>8. /\ info' = [info EXCEPT ![m] = [@ EXCEPT !.refcount = k]]
      /\ info[m] \in Entry /\ \A n \in Listed : info[n] \in Entry
  BY <1>0, <1>1, <1>3, <1>4, <1>5, <1>6 DEF RegTypes, TypeOK, Release
<1>9. /\ info'[m] = [info[m] EXCEPT !.refcount = k]
      /\ \A n \in Nodes \ {m} : info'[n] = info[n]
      /\ info' = [n \in Nodes |-> info'[n]]
  BY <1>0, <1>5, <1>8 DEF RegTypes
<1>10. /\ info'[m] \in Entry /\ info'[m].kind = info[m].kind /\ info'[m].uri = info[m].uri
       /\ info'[m].cb = info[m].cb /\ info'[m].removing = info[m].removing
       /\ info'[m].refcount = k
  BY ONLY <1>7, <1>8, <1>9 DEF Entry
<1>11. \A n \in Listed : /\ info'[n] \in Entry
                         /\ info'[n].kind = info[n].kind /\ info'[n].uri = info[n].uri
                         /\ info'[n].cb = info[n].cb /\ info'[n].removing = info[n].removing
  BY ONLY <1>5, <1>8, <1>9, <1>10
<1>12. \/ /\ pc' = [pc EXCEPT ![c] = "answered"]
          /\ \E s \in {200, 401} : answer' = [answer EXCEPT ![c] = s]
          /\ UNCHANGED <<callback, again>>
       \/ /\ pc' = [pc EXCEPT ![c] = "auth"]
          /\ callback' = [callback EXCEPT ![c] = NoCallback]
          /\ again' = [again EXCEPT ![c] = TRUE]
          /\ UNCHANGED answer
  BY DEF CallReturns, FallThrough, Refused, Answer
<1>13. Others(c)
  BY <1>0, <1>1, <1>9, <1>11, <1>12 DEF Others, RegTypes, TypeOK
<1>14. RegTypes'
  <2>1. \A n \in Listed' : info'[n] \in Entry /\ info'[n].cb \in Callbacks
    BY <1>0, <1>2, <1>11 DEF RegTypes
  <2>2. /\ pc' \in [Requests -> {"idle", "lookup", "auth", "asked", "calling", "answered"}]
        /\ callback' \in [Requests -> Callbacks \cup {NoCallback}]
        /\ again' \in [Requests -> BOOLEAN]
        /\ answer' \in [Requests -> {0, 200, 401, 404, 405}]
    <3>1. /\ pc \in [Requests -> {"idle", "lookup", "auth", "asked", "calling", "answered"}]
          /\ callback \in [Requests -> Callbacks \cup {NoCallback}]
          /\ again \in [Requests -> BOOLEAN]
          /\ answer \in [Requests -> {0, 200, 401, 404, 405}]
      BY <1>0 DEF RegTypes, TypeOK
    <3>2. pc' \in [Requests -> {"idle", "lookup", "auth", "asked", "calling", "answered"}]
      BY ONLY <1>12, <3>1
    <3>3. callback' \in [Requests -> Callbacks \cup {NoCallback}]
      BY ONLY <1>12, <3>1
    <3>4. again' \in [Requests -> BOOLEAN]
      <4>1. again' = again \/ again' = [again EXCEPT ![c] = TRUE]
        BY ONLY <1>12
      <4>2. again \in [Requests -> BOOLEAN]
        BY ONLY <3>1
      <4>3. ASSUME again' = again PROVE again' \in [Requests -> BOOLEAN]
        BY ONLY <4>2, <4>3
      <4>4. ASSUME again' = [again EXCEPT ![c] = TRUE] PROVE again' \in [Requests -> BOOLEAN]
        BY ONLY <4>2, <4>4
      <4> QED BY ONLY <4>1, <4>3, <4>4
    <3>5. answer' \in [Requests -> {0, 200, 401, 404, 405}]
      BY ONLY <1>12, <3>1
    <3> QED BY <3>2, <3>3, <3>4, <3>5
  <2>3. \A d \in Requests : pc'[d] # "idle" => uri[d] \in RequestUris
    BY <1>0, <1>1, <1>12 DEF RegTypes, TypeOK
  <2> QED BY <1>0, <1>1, <1>9, <2>1, <2>2, <2>3 DEF RegTypes, TypeOK
<1>15. /\ pc'[c] = "answered" \/ (pc'[c] = "auth" /\ callback'[c] = NoCallback /\ again'[c])
       /\ pc'[c] = "answered" => answer'[c] \in {200, 401} /\ ~ again'[c]
       /\ pc'[c] # "answered" => answer'[c] = 0
  BY <1>0, <1>1, <1>12 DEF RegTypes, TypeOK, Knows
<1>16. ~ Holding(c)'
  BY <1>15 DEF Holding
<1>17. Counted'
  <2>1. \A n \in Listed \ {m} : info'[n].refcount = info[n].refcount
    BY <1>5, <1>9
  <2>2. info'[m].refcount = (info[m].refcount + RefMod - 1) % RefMod
    BY <1>6, <1>10
  <2> QED BY <1>3, <1>4, <1>13, <1>16, <2>1, <2>2, CountGive
<1>18. Knows(c)' /\ Keeps(c)' /\ Finds(c)'
  BY <1>15, <1>16 DEF Knows, Keeps, Finds
<1> QED BY <1>13, <1>14, <1>16, <1>17, <1>18, OthersKept

(* Refused without an entry.                                               *)
LEMMA RefusedStep ==
    ASSUME SameAnswer, RegistryInv, NEW c \in Requests, ~ Holding(c), Refused(c)
    PROVE  RegistryInv' /\ Others(c) /\ ~ Holding(c)'
<1>0. Knows(c) /\ Keeps(c) /\ Finds(c) /\ RegTypes
  BY DEF RegistryInv
<1>1. /\ pc[c] \in {"auth", "asked"} /\ callback[c] = NoCallback /\ ~ again[c]
      /\ handler_info[c] = NoNode
  BY <1>0 DEF Refused, Holding, Knows
<1>2. /\ UNCHANGED <<handlers, info, call, uri, method, handler_info, callback, again, steady>>
      /\ pc' = [pc EXCEPT ![c] = "answered"]
      /\ answer' = [answer EXCEPT ![c] = 401]
  BY <1>1 DEF Refused, Release, Answer
<1>3. Listed' = Listed
  BY <1>2 DEF Listed
<1>4. Others(c) /\ RegTypes'
  <2>1. Others(c)
    BY <1>0, <1>2 DEF Others, RegTypes, TypeOK
  <2>2. /\ pc' \in [Requests -> {"idle", "lookup", "auth", "asked", "calling", "answered"}]
        /\ \A d \in Requests : pc'[d] # "idle" => uri[d] \in RequestUris
    BY <1>0, <1>1, <1>2 DEF RegTypes, TypeOK
  <2>3. answer' \in [Requests -> {0, 200, 401, 404, 405}]
    BY <1>0, <1>2 DEF RegTypes, TypeOK
  <2>4. RegTypes'
    BY <1>0, <1>2, <1>3, <2>2, <2>3 DEF RegTypes, TypeOK
  <2> QED BY <2>1, <2>4
<1>5. pc'[c] = "answered" /\ answer'[c] = 401
  BY <1>0, <1>2 DEF RegTypes, TypeOK
<1>6. ~ Holding(c)' /\ Counted'
  BY <1>2, <1>4, <1>5, CountSame DEF Holding
<1>7. Knows(c)' /\ Keeps(c)' /\ Finds(c)'
  BY <1>1, <1>2, <1>5, <1>6 DEF Knows, Keeps, Finds
<1> QED BY <1>4, <1>6, <1>7, OthersKept

LEMMA RegistryStep ==
    ASSUME SameAnswer, RegistryInv, [Next]_vars
    PROVE  RegistryInv'
<1>1. ASSUME NEW c \in Requests, Handles(c) PROVE RegistryInv'
  <2>1. CASE CallReturns(c) \/ FallThrough(c)
    <3>1. Holding(c)
      BY <2>1 DEF CallReturns, FallThrough, Holding, RegistryInv, Knows
    <3> QED BY <2>1, <3>1, GiveStep
  <2>2. CASE Refused(c)
    BY <2>2, GiveStep, RefusedStep
  <2> QED BY <1>1, <2>1, <2>2, LookupStep, QuietStep DEF Handles
<1>2. CASE UNCHANGED vars
  <2>1. Listed' = Listed
    BY <1>2 DEF vars, registryVars, Listed
  <2>2. RegTypes'
    BY <1>2, <2>1 DEF vars, registryVars, requestVars, RegistryInv, RegTypes, TypeOK
  <2>3. \A c \in Requests : Others(c)
    BY <1>2 DEF vars, registryVars, requestVars, Others, RegistryInv, RegTypes, TypeOK
  <2>4. UNCHANGED requestVars /\ UNCHANGED <<handlers, info, steady, call>>
    BY <1>2 DEF vars, registryVars
  <2>5. NoDuplicates' /\ Counted' /\ \A c \in Requests : Knows(c)' /\ Keeps(c)'
    BY <2>1, <2>4, ListSame, RegistrarCounted, RegistrarKeeps
  <2>6. ASSUME NEW c \in Requests PROVE Finds(c)'
    BY <2>1, <2>4 DEF requestVars, RegistryInv, Finds, Removes
  <2> QED BY <2>2, <2>5, <2>6 DEF RegistryInv
<1> QED BY <1>1, <1>2, RegistrarStep, QuietStep DEF Next

(* Whatever the handlers, URIs and patterns, the list and the requests     *)
(* keep the values the code gives them.                                    *)
THEOREM RegistryTypes == ASSUME SameAnswer PROVE Spec => []TypeOK
<1>1. RegistryInv /\ [Next]_vars => RegistryInv'
  BY RegistryStep
<1>2. RegistryInv => TypeOK
  BY DEF RegistryInv, RegTypes
<1> QED BY <1>1, <1>2, RegistryInit, PTL DEF Spec

(* refcount is the number of requests that use an entry, an entry in use   *)
(* stays in the list and keeps its callback, there is one entry for a URI, *)
(* and a URI registered all the time is served (get_request_handler,       *)
(* release_handler_ref, mg_set_handler_type, handle_request).              *)
THEOREM RegistrySafe == ASSUME SameAnswer PROVE Spec => []HandlersKept
<1>1. RegistryInv /\ [Next]_vars => RegistryInv'
  BY RegistryStep
<1> QED BY <1>1, RegistryInit, InvKeeps, PTL DEF Spec

-----------------------------------------------------------------------------
(* The table: what the list h of the entries f registers.                  *)
tableOf(h, f) ==
    [e \in Kinds \X Uris |->
        LET is == {i \in DOMAIN h : f[h[i]].kind = e[1] /\ f[h[i]].uri = e[2]}
        IN IF is = {} THEN NoCallback ELSE f[h[CHOOSE i \in is : TRUE]].cb]

LEMMA TableIs == table = tableOf(handlers, info) /\ table' = tableOf(handlers', info')
BY DEF table, tableOf

LEMMA TableAt ==
    ASSUME NEW h, NEW f, NEW k \in Kinds, NEW u \in Uris
    PROVE  /\ (\A i \in DOMAIN h : ~ (f[h[i]].kind = k /\ f[h[i]].uri = u))
                 => tableOf(h, f)[<<k, u>>] = NoCallback
           /\ \A i \in DOMAIN h :
                 /\ f[h[i]].kind = k /\ f[h[i]].uri = u
                 /\ \A j \in DOMAIN h : f[h[j]].kind = k /\ f[h[j]].uri = u => j = i
                 => tableOf(h, f)[<<k, u>>] = f[h[i]].cb
<1> DEFINE is == {i \in DOMAIN h : f[h[i]].kind = k /\ f[h[i]].uri = u}
<1>1. tableOf(h, f)[<<k, u>>] = IF is = {} THEN NoCallback ELSE f[h[CHOOSE i \in is : TRUE]].cb
  BY SMTT(30) DEF tableOf
<1>2. ASSUME \A i \in DOMAIN h : ~ (f[h[i]].kind = k /\ f[h[i]].uri = u)
      PROVE  tableOf(h, f)[<<k, u>>] = NoCallback
  BY <1>1, <1>2
<1>3. ASSUME NEW i \in DOMAIN h, f[h[i]].kind = k, f[h[i]].uri = u,
             \A j \in DOMAIN h : f[h[j]].kind = k /\ f[h[j]].uri = u => j = i
      PROVE  tableOf(h, f)[<<k, u>>] = f[h[i]].cb
  <2>1. is = {i}
    BY <1>3
  <2> HIDE DEF is
  <2>2. (CHOOSE j \in is : TRUE) = i
    BY ONLY <2>1
  <2>3. is # {}
    BY ONLY <2>1
  <2> QED BY <1>1, <2>2, <2>3
<1> QED BY <1>2, <1>3

(* The table, told from the entries in the list.                           *)
LEMMA TableEntries ==
    ASSUME RegistryInv, NEW k \in Kinds, NEW u \in Uris
    PROVE  /\ (\A n \in Listed : ~ About(n, k, u)) => table[<<k, u>>] = NoCallback
           /\ \A n \in Listed : About(n, k, u) => table[<<k, u>>] = info[n].cb
<1>1. handlers \in Seq(Nodes) /\ NoDuplicates
  BY DEF RegistryInv, RegTypes, TypeOK
<1>2. ASSUME \A n \in Listed : ~ About(n, k, u) PROVE table[<<k, u>>] = NoCallback
  BY SMTT(30), <1>1, <1>2, InList, TableAt, TableIs DEF About
<1>3. ASSUME NEW n \in Listed, About(n, k, u) PROVE table[<<k, u>>] = info[n].cb
  <2>1. PICK i \in DOMAIN handlers : handlers[i] = n
    BY <1>1, InList
  <2>2. \A j \in DOMAIN handlers :
           info[handlers[j]].kind = k /\ info[handlers[j]].uri = u => j = i
    BY <1>1, <1>3, <2>1 DEF NoDuplicates, About
  <2> QED BY <1>3, <2>1, <2>2, TableAt, TableIs DEF About
<1> QED BY <1>2, <1>3

LEMMA TableEntriesNext ==
    ASSUME RegistryInv', NEW k \in Kinds, NEW u \in Uris
    PROVE  /\ (\A n \in Listed' : ~ (info'[n].kind = k /\ info'[n].uri = u))
                => table'[<<k, u>>] = NoCallback
           /\ \A n \in Listed' :
                info'[n].kind = k /\ info'[n].uri = u => table'[<<k, u>>] = info'[n].cb
<1>1. PICK h, f : h = handlers' /\ f = info'
  OBVIOUS
<1>2. /\ \A i, j \in DOMAIN h : f[h[i]].kind = f[h[j]].kind /\ f[h[i]].uri = f[h[j]].uri => i = j
  BY <1>1 DEF RegistryInv, NoDuplicates
<1>3. table' = tableOf(h, f) /\ Listed' = {h[i] : i \in DOMAIN h}
  BY <1>1, TableIs DEF Listed
<1>4. ASSUME \A n \in Listed' : ~ (f[n].kind = k /\ f[n].uri = u)
      PROVE  table'[<<k, u>>] = NoCallback
  BY <1>3, <1>4, TableAt
<1>5. ASSUME NEW n \in Listed', f[n].kind = k, f[n].uri = u
      PROVE  table'[<<k, u>>] = f[n].cb
  <2>1. PICK i \in DOMAIN h : h[i] = n
    BY <1>3
  <2>2. \A j \in DOMAIN h : f[h[j]].kind = k /\ f[h[j]].uri = u => j = i
    BY <1>2, <1>5, <2>1
  <2> QED BY <1>3, <1>5, <2>1, <2>2, TableAt
<1> QED BY <1>1, <1>4, <1>5

LEMMA TableFunction ==
    /\ table = [e \in Kinds \X Uris |-> table[e]]
    /\ table' = [e \in Kinds \X Uris |-> table'[e]]
    /\ \A e \in Kinds \X Uris : \E k \in Kinds, u \in Uris : e = <<k, u>>
BY SMTT(30) DEF table

(* The actions of HandlerTable, in these terms.                            *)
LEMMA TableSet ==
    ASSUME NEW k \in Kinds, NEW u \in Uris, NEW x \in Callbacks \cup {NoCallback},
           \A c \in Requests : ~ (taken[c] # NoCallback /\ taken[c].uri = u /\ k = "request"),
           table' = [table EXCEPT ![<<k, u>>] = x], taken' = taken
    PROVE  Table!Next
<1>1. Table!Set(k, u, x)
  BY DEF Table!Set, Table!InUse, table, taken, tableOf
<1> QED BY <1>1 DEF Table!Next

LEMMA TableGiveBack ==
    ASSUME NEW c \in Requests, taken[c] # NoCallback,
           taken' = [taken EXCEPT ![c] = NoCallback], table' = table
    PROVE  Table!Next
<1>1. Table!GiveBack(c)
  BY DEF Table!GiveBack, table, taken, tableOf
<1> QED BY <1>1 DEF Table!Next

Registered(k) == {u \in Uris : table[<<k, u>>] # NoCallback}
LEMMA TableTake ==
    ASSUME NEW c \in Requests, taken[c] = NoCallback, NEW r \in Uris, NEW u \in Uris,
           u \in Registered("request"), Table!Rank(u, r) < 3,
           \A v \in Registered("request") : Table!Rank(u, r) <= Table!Rank(v, r),
           taken' = [taken EXCEPT ![c] = [uri |-> u, for |-> r, cb |-> table[<<"request", u>>]]],
           table' = table
    PROVE  Table!Next
<1>1. u \in Table!Best("request", r)
  BY DEF Table!Best, Table!Registered, Registered, table
<1>2. Table!Take(c, r)
  BY <1>1 DEF Table!Take, table, taken, tableOf
<1> QED BY <1>2 DEF Table!Next

LEMMA TableStutter ==
    ASSUME taken' = taken, table' = table
    PROVE  [Table!Next]_<<table, taken>>
OBVIOUS

(* The three passes over the list find the entry that fits best.           *)
LEMMA MatchedIsBest ==
    ASSUME RegistryInv, NEW r \in Uris, NEW i \in Matched("request", r),
           NEW u, u = info[handlers[i]].uri
    PROVE  /\ u \in Uris /\ u \in Registered("request")
           /\ table[<<"request", u>>] = info[handlers[i]].cb
           /\ Table!Rank(u, r) < 3
           /\ \A v \in Registered("request") : Table!Rank(u, r) <= Table!Rank(v, r)
<1>1. /\ i \in OfKind("request") /\ i \in DOMAIN handlers
      /\ \E s \in 0 .. 2 : /\ Step(i, s, r)
                           /\ \A j \in OfKind("request") :
                                 \A s0 \in 0 .. s - 1 : ~ Step(j, s0, r)
  BY DEF Matched, OfKind
<1>2. PICK n : n = handlers[i]
  OBVIOUS
<1>3. /\ n \in Listed /\ info[n] \in Entry /\ info[n].cb \in Callbacks
      /\ info[n].kind = "request" /\ info[n].uri = u
  BY <1>1, <1>2, InList DEF RegistryInv, RegTypes, TypeOK, OfKind
<1>4. "request" \in Kinds /\ u \in Uris
  BY <1>3 DEF Kinds, Entry
<1>5. table[<<"request", u>>] = info[n].cb
  BY <1>3, <1>4, TableEntries DEF About
<1>6. u \in Registered("request")
  BY <1>3, <1>4, <1>5, DistinctAssumption DEF Registered
<1>7. PICK s \in 0 .. 2 : /\ Step(i, s, r)
                          /\ \A j \in OfKind("request") : \A s0 \in 0 .. s - 1 : ~ Step(j, s0, r)
  BY <1>1
<1>8. \/ s = 0 /\ u = r
      \/ s = 1 /\ <<u, r>> \in Inside
      \/ s = 2 /\ <<u, r>> \in Matching
  BY <1>2, <1>3, <1>7 DEF Step
<1>9. Table!Rank(u, r) <= s /\ Table!Rank(u, r) \in 0 .. 3
  BY ONLY <1>8 DEF Table!Rank
<1>10. ASSUME NEW v \in Registered("request") PROVE s <= Table!Rank(v, r) /\ Table!Rank(v, r) \in 0 .. 3
  <2>1. v \in Uris /\ table[<<"request", v>>] # NoCallback
    BY DEF Registered
  <2>2. PICK m \in Listed : About(m, "request", v)
    BY <1>4, <2>1, TableEntries
  <2>3. PICK j \in DOMAIN handlers : handlers[j] = m
    BY InList DEF RegistryInv, RegTypes, TypeOK
  <2>4. j \in OfKind("request") /\ info[handlers[j]].uri = v
    BY <2>2, <2>3 DEF OfKind, About
  <2>5. \A s0 \in 0 .. s - 1 : ~ Step(j, s0, r)
    BY <1>7, <2>4
  <2>6. /\ s > 0 => v # r
        /\ s > 1 => <<v, r>> \notin Inside
    <3>1. ASSUME s > 0 PROVE v # r
      <4>1. 0 \in 0 .. s - 1
        BY <3>1
      <4> QED BY <2>4, <2>5, <4>1 DEF Step
    <3>2. ASSUME s > 1 PROVE <<v, r>> \notin Inside
      <4>1. 1 \in 0 .. s - 1
        BY <3>2
      <4> QED BY <2>4, <2>5, <4>1 DEF Step
    <3> QED BY <3>1, <3>2
  <2>7. s \in 0 .. 2
    OBVIOUS
  <2> QED BY ONLY <2>6, <2>7 DEF Table!Rank
<1> QED BY <1>2, <1>4, <1>5, <1>6, <1>9, <1>10

-----------------------------------------------------------------------------
(* Every step sets an entry that is not in use, takes one, gives one back, *)
(* or is none of the table's.                                              *)
LEMMA SetsIsSet ==
    ASSUME RegistryInv, RegistryInv', NEW k, NEW u, NEW x, SetsEntry(k, u, x)
    PROVE  Table!Next
<1>1. k \in Kinds /\ u \in Uris /\ x \in Callbacks \cup {NoCallback}
  BY DEF SetsEntry
<1>2. \A c \in Requests : ~ (taken[c] # NoCallback /\ taken[c].uri = u /\ k = "request")
  <2> SUFFICES ASSUME NEW c \in Requests, taken[c] # NoCallback, taken[c].uri = u, k = "request"
               PROVE  FALSE
    OBVIOUS
  <2>1. Holding(c) /\ info[handler_info[c]].uri = u
    BY DEF taken
  <2>2. info[handler_info[c]].kind = "request"
    BY <2>1 DEF RegistryInv, Keeps
  <2> QED BY <2>1, <2>2 DEF SetsEntry, About
<1>3. ASSUME NEW j \in Kinds, NEW v \in Uris
      PROVE  table'[<<j, v>>] = IF <<j, v>> = <<k, u>> THEN x ELSE table[<<j, v>>]
  <2>1. CASE j = k /\ v = u
    <3>1. \/ \E n \in Listed' : info'[n].kind = k /\ info'[n].uri = u /\ info'[n].cb = x
          \/ x = NoCallback /\ \A m \in Listed' : ~ (info'[m].kind = k /\ info'[m].uri = u)
      BY DEF SetsEntry
    <3>2. table'[<<k, u>>] = x
      BY <1>1, <3>1, TableEntriesNext
    <3> QED BY <2>1, <3>2
  <2>2. CASE ~ (j = k /\ v = u)
    <3>1. ASSUME NEW m \in Listed, About(m, j, v)
          PROVE  table'[<<j, v>>] = table[<<j, v>>]
      <4>1. table[<<j, v>>] = info[m].cb
        BY <3>1, TableEntries
      <4>2. m \in Listed' /\ SameEntry(m)
        BY <2>2, <3>1 DEF SetsEntry, About
      <4>3. table'[<<j, v>>] = info'[m].cb
        BY <3>1, <4>2, TableEntriesNext DEF SameEntry, About
      <4> QED BY <4>1, <4>2, <4>3 DEF SameEntry
    <3>2. ASSUME \A m \in Listed : ~ About(m, j, v)
          PROVE  table'[<<j, v>>] = table[<<j, v>>]
      <4>1. table[<<j, v>>] = NoCallback
        BY <3>2, TableEntries
      <4>2. \A m \in Listed' : ~ (info'[m].kind = j /\ info'[m].uri = v)
        BY <2>2, <3>2 DEF SetsEntry, SameEntry, About
      <4> QED BY <4>1, <4>2, TableEntriesNext
    <3>3. <<j, v>> # <<k, u>>
      BY <2>2
    <3> QED BY <3>1, <3>2, <3>3
  <2> QED BY <2>1, <2>2
<1>4. table' = [table EXCEPT ![<<k, u>>] = x]
  <2>1. \A e \in Kinds \X Uris : table'[e] = IF e = <<k, u>> THEN x ELSE table[e]
    BY <1>3, TableFunction
  <2>2. PICK f, g : f = table /\ g = table'
    OBVIOUS
  <2>3. /\ f = [e \in Kinds \X Uris |-> f[e]] /\ g = [e \in Kinds \X Uris |-> g[e]]
        /\ \A e \in Kinds \X Uris : g[e] = IF e = <<k, u>> THEN x ELSE f[e]
    BY <2>1, <2>2, TableFunction
  <2>4. g = [f EXCEPT ![<<k, u>>] = x]
    BY ONLY <2>3
  <2> QED BY ONLY <2>2, <2>4
<1>5. taken' = taken
  <2>1. ASSUME NEW c \in Requests
        PROVE  /\ Holding(c)' <=> Holding(c)
               /\ Holding(c) => info'[handler_info[c]].uri = info[handler_info[c]].uri
    BY DEF SetsEntry, requestVars, Holding, RegistryInv, Keeps
  <2> QED BY <2>1 DEF taken, SetsEntry, requestVars
<1> QED BY <1>1, <1>2, <1>4, <1>5, TableSet

LEMMA SameTable ==
    ASSUME RegistryInv, RegistryInv', Listed' = Listed, \A m \in Listed : SameEntry(m)
    PROVE  table' = table
<1>1. ASSUME NEW j \in Kinds, NEW v \in Uris PROVE table'[<<j, v>>] = table[<<j, v>>]
  <2>1. ASSUME NEW m \in Listed, About(m, j, v)
        PROVE  table'[<<j, v>>] = table[<<j, v>>]
    BY <2>1, TableEntries, TableEntriesNext DEF SameEntry, About
  <2>2. ASSUME \A m \in Listed : ~ About(m, j, v)
        PROVE  table'[<<j, v>>] = table[<<j, v>>]
    BY <2>2, TableEntries, TableEntriesNext DEF SameEntry, About
  <2> QED BY <2>1, <2>2
<1>2. PICK f, g : f = table /\ g = table'
  OBVIOUS
<1>3. /\ f = [e \in Kinds \X Uris |-> f[e]] /\ g = [e \in Kinds \X Uris |-> g[e]]
      /\ \A e \in Kinds \X Uris : \E k \in Kinds, u \in Uris : e = <<k, u>>
      /\ \A k \in Kinds, u \in Uris : g[<<k, u>>] = f[<<k, u>>]
  BY <1>1, <1>2, TableFunction
<1>4. ASSUME NEW e \in Kinds \X Uris PROVE g[e] = f[e]
  <2>1. PICK k \in Kinds, u \in Uris : e = <<k, u>>
    BY <1>3
  <2>2. g[<<k, u>>] = f[<<k, u>>]
    BY <1>3
  <2> QED BY ONLY <2>1, <2>2
<1>5. g = f
  BY ONLY <1>3, <1>4
<1> QED BY ONLY <1>2, <1>5

LEMMA OthersTable ==
    ASSUME RegistryInv, RegistryInv', NEW c \in Requests, Others(c)
    PROVE  /\ table' = table
           /\ \A d \in Requests \ {c} : taken'[d] = taken[d]
           /\ taken' = [d \in Requests |-> taken'[d]]
           /\ taken = [d \in Requests |-> taken[d]]
<1>1. Listed' = Listed /\ \A m \in Listed : SameEntry(m)
  BY DEF Others, Listed, SameEntry
<1>2. table' = table
  BY <1>1, SameTable
<1>3. ASSUME NEW d \in Requests \ {c} PROVE taken'[d] = taken[d]
  <2>1. /\ Holding(d)' <=> Holding(d)
        /\ uri'[d] = uri[d] /\ callback'[d] = callback[d] /\ handler_info'[d] = handler_info[d]
    BY DEF Others, Holding
  <2>2. Holding(d) => info'[handler_info[d]].uri = info[handler_info[d]].uri
    BY DEF Others, RegistryInv, Keeps
  <2> QED BY <2>1, <2>2 DEF taken
<1>4. taken' = [d \in Requests |-> taken'[d]] /\ taken = [d \in Requests |-> taken[d]]
  BY DEF taken
<1> QED BY <1>2, <1>3, <1>4

LEMMA RequestTable ==
    ASSUME RegistryInv, RegistryInv', NEW c \in Requests, Others(c),
           Idles(c) \/ Holds(c) \/ Takes(c) \/ (Holding(c) /\ ~ Holding(c)')
    PROVE  [Table!Next]_<<table, taken>>
<1>1. /\ table' = table
      /\ \A d \in Requests \ {c} : taken'[d] = taken[d]
      /\ taken' = [d \in Requests |-> taken'[d]]
      /\ taken = [d \in Requests |-> taken[d]]
  BY OthersTable
<1>2. ASSUME taken'[c] = taken[c] PROVE taken' = taken
  BY <1>1, <1>2
<1>3. CASE Idles(c)
  BY <1>1, <1>2, <1>3, TableStutter DEF Idles, taken
<1>4. CASE Holds(c)
  <2>1. info'[handler_info[c]].uri = info[handler_info[c]].uri
    BY <1>4 DEF Holds, Others, RegistryInv, Keeps
  <2>2. taken'[c] = taken[c]
    BY <1>4, <2>1 DEF Holds, taken
  <2> QED BY <1>1, <1>2, <2>2, TableStutter
<1>5. CASE Takes(c)
  <2>1. PICK i \in Matched("request", uri[c]) :
           /\ ~ Holding(c) /\ Holding(c)' /\ uri'[c] = uri[c] /\ uri[c] \in Uris
           /\ handler_info'[c] = handlers[i] /\ callback'[c] = info[handlers[i]].cb
    BY <1>5 DEF Takes
  <2>2. PICK u : u = info[handlers[i]].uri
    OBVIOUS
  <2>3. /\ u \in Uris /\ u \in Registered("request")
        /\ table[<<"request", u>>] = info[handlers[i]].cb
        /\ Table!Rank(u, uri[c]) < 3
        /\ \A v \in Registered("request") : Table!Rank(u, uri[c]) <= Table!Rank(v, uri[c])
    BY <2>1, <2>2, MatchedIsBest
  <2>4. info'[handler_info'[c]].uri = u
    <3>1. handlers[i] \in Listed
      BY InList DEF RegistryInv, RegTypes, TypeOK, Matched, OfKind
    <3> QED BY <2>1, <2>2, <3>1 DEF Others
  <2>5. taken'[c] = [uri |-> u, for |-> uri[c], cb |-> table[<<"request", u>>]] /\ taken[c] = NoCallback
    BY <2>1, <2>3, <2>4 DEF taken
  <2>6. taken' = [taken EXCEPT ![c] = [uri |-> u, for |-> uri[c], cb |-> table[<<"request", u>>]]]
    BY <1>1, <2>5
  <2> QED BY <1>1, <2>1, <2>3, <2>5, <2>6, TableTake
<1>6. CASE Holding(c) /\ ~ Holding(c)'
  <2>1. taken'[c] = NoCallback
    BY <1>6 DEF taken
  <2>2. taken' = [taken EXCEPT ![c] = NoCallback]
    BY <1>1, <2>1
  <2> QED BY <1>1, <1>2, <2>1, <2>2, TableGiveBack, TableStutter
<1> QED BY <1>3, <1>4, <1>5, <1>6

LEMMA TableStep ==
    ASSUME SameAnswer, RegistryInv, RegistryInv', [Next]_vars
    PROVE  [Table!Next]_<<table, taken>>
<1>1. ASSUME NEW c \in Requests, Handles(c) PROVE [Table!Next]_<<table, taken>>
  <2>1. CASE CallReturns(c) \/ FallThrough(c)
    <3>1. Holding(c)
      BY <2>1 DEF CallReturns, FallThrough, Holding, RegistryInv, Knows
    <3> QED BY <2>1, <3>1, GiveStep, RequestTable
  <2>2. CASE Refused(c)
    BY <2>2, GiveStep, RefusedStep, RequestTable DEF Idles
  <2>3. CASE Lookup(c)
    BY <2>3, LookupStep, RequestTable
  <2> QED BY <1>1, <2>1, <2>2, <2>3, QuietStep, RequestTable DEF Handles
<1>2. ASSUME NEW t \in Registrars, Searches(t) \/ \E s \in Calls : SetHandler(t, s)
      PROVE  [Table!Next]_<<table, taken>>
  <2>1. CASE LeavesTable
    <3>1. table' = table
      BY <2>1, SameTable DEF LeavesTable
    <3>2. \A c \in Requests : /\ Holding(c)' <=> Holding(c)
                              /\ Holding(c) => info'[handler_info[c]].uri = info[handler_info[c]].uri
      BY <2>1 DEF LeavesTable, SameEntry, requestVars, Holding, RegistryInv, Keeps
    <3>3. taken' = taken
      BY <2>1, <3>2 DEF LeavesTable, requestVars, taken
    <3> QED BY <3>1, <3>3, TableStutter
  <2>2. CASE SetsEntry(call[t].kind, call[t].uri, call[t].cb)
    BY <2>2, SetsIsSet
  <2> QED BY <1>2, <2>1, <2>2, RegistrarStep
<1>3. ASSUME UNCHANGED vars PROVE [Table!Next]_<<table, taken>>
  <2>1. table' = table /\ taken' = taken
    BY <1>3 DEF vars, registryVars, requestVars, table, taken, Holding
  <2> QED BY <2>1, TableStutter
<1>4. ASSUME NEW c \in Requests, \E r \in RequestUris, m \in Methods : Request(c, r, m)
      PROVE  [Table!Next]_<<table, taken>>
  BY <1>4, QuietStep, RequestTable
<1>5. ASSUME NEW c \in Requests, NextRequest(c) PROVE [Table!Next]_<<table, taken>>
  BY <1>5, QuietStep, RequestTable
<1> QED BY <1>1, <1>2, <1>3, <1>4, <1>5 DEF Next

LEMMA TableInit == Init => Table!Init
<1> SUFFICES ASSUME Init PROVE Table!Init
  OBVIOUS
<1>1. DOMAIN handlers = {}
  BY DEF Init
<1>2. table = [e \in Kinds \X Uris |-> NoCallback]
  BY <1>1 DEF table
<1>3. taken = [c \in Requests |-> NoCallback]
  BY DEF taken, Init, Holding
<1> QED BY <1>2, <1>3 DEF Table!Init, table, taken

(* The list, with its three passes and its counts, is the table of         *)
(* callbacks civetweb.h promises: a request gets the entry that fits best, *)
(* and an entry in use is not changed (mg_set_handler_type,                *)
(* get_request_handler, release_handler_ref).                              *)
THEOREM RegistryIsTable == ASSUME SameAnswer PROVE Spec => TableRefinement
<1>1. RegistryInv /\ [Next]_vars => RegistryInv'
  BY RegistryStep
<1>2. RegistryInv /\ RegistryInv' /\ [Next]_vars => [Table!Next]_<<table, taken>>
  BY TableStep
<1> QED BY <1>1, <1>2, RegistryInit, TableInit, PTL DEF Spec, TableRefinement, Table!Spec
=============================================================================
