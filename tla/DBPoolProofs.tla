---------------------------- MODULE DBPoolProofs ----------------------------
(***************************************************************************)
(* Proofs about MySQLPool, for any finite number of threads and of         *)
(* connections.  The inductive invariant PoolInv adds to the properties of *)
(* DBPool what they leave unsaid: which threads hold a connection, and     *)
(* what the constructor has built so far.                                  *)
(***************************************************************************)
EXTENDS DBPool, FiniteSetTheorems, SequenceTheorems, TLAPS

(* A thread has a connection from the end of acquire() until release(). *)
HolderHolds == \A t \in Threads : pc[t] = "holding" <=> held[t] # NoConn

(* Nobody uses the pool before its constructor has returned, and the loop  *)
(* of create_pool() has made a new session in every round.                 *)
Construction ==
    /\ phase \in {"creating", "failed"} =>
          \A t \in Threads : pc[t] = "idle"
    /\ phase = "creating" =>
          /\ Len(conns) = Cardinality(live)
          /\ live # Conns
    /\ phase \in {"failed", "closed"} => conns = <<>>

PoolInv ==
    /\ TypeOK
    /\ Exclusive
    /\ Conservation
    /\ HolderHolds
    /\ Construction

-----------------------------------------------------------------------------
(* push_back on a stack without repetitions. *)
LEMMA Push ==
    ASSUME NEW S, NEW s \in Seq(S), NEW e \in S
    PROVE  /\ Append(s, e) \in Seq(S)
           /\ Append(s, e) # <<>>
           /\ Len(Append(s, e)) = Len(s) + 1
           /\ Range(Append(s, e)) = Range(s) \cup {e}
           /\ IsInjective(s) /\ e \notin Range(s) => IsInjective(Append(s, e))
<1> DEFINE r == Append(s, e)
<1>1. /\ r \in Seq(S) /\ r # <<>> /\ Len(r) = Len(s) + 1
      /\ \A i \in 1 .. Len(s) : r[i] = s[i]
      /\ r[Len(s) + 1] = e
  BY AppendProperties
<1>2. /\ Len(s) \in Nat
      /\ DOMAIN s = 1 .. Len(s)
      /\ DOMAIN r = 1 .. Len(s) + 1
  BY <1>1, LenProperties
<1> HIDE DEF r
<1>3. Range(r) = Range(s) \cup {e}
  BY <1>1, <1>2 DEF Range
<1>4. ASSUME IsInjective(s), e \notin Range(s)
      PROVE  IsInjective(r)
  <2> SUFFICES ASSUME NEW i \in DOMAIN r, NEW j \in DOMAIN r, r[i] = r[j]
               PROVE  i = j
    BY DEF IsInjective
  <2>1. \A k \in DOMAIN s : s[k] # e
    BY <1>4 DEF Range
  <2>2. CASE i \in DOMAIN s /\ j \in DOMAIN s
    BY <2>2, <1>1, <1>2, <1>4 DEF IsInjective
  <2>3. CASE i \notin DOMAIN s \/ j \notin DOMAIN s
    BY <2>1, <2>3, <1>1, <1>2
  <2> QED BY <2>2, <2>3
<1> QED BY <1>1, <1>3, <1>4 DEF r

(* back and pop_back on a stack without repetitions. *)
LEMMA Pop ==
    ASSUME NEW S, NEW s \in Seq(S), s # <<>>, IsInjective(s)
    PROVE  LET r == SubSeq(s, 1, Len(s) - 1)
               top == s[Len(s)]
           IN  /\ r \in Seq(S)
               /\ Len(r) = Len(s) - 1
               /\ IsInjective(r)
               /\ top \in Range(s)
               /\ top \in S
               /\ Range(r) = Range(s) \ {top}
<1> DEFINE r == SubSeq(s, 1, Len(s) - 1)
           n == Len(s)
<1>1. /\ n \in Nat \ {0}
      /\ DOMAIN s = 1 .. n
      /\ \A i \in 1 .. n : s[i] \in S
  BY EmptySeq, LenProperties, ElementOfSeq
<1>2. /\ r \in Seq(S)
      /\ Len(r) = n - 1
      /\ \A i \in 1 .. n - 1 : r[i] = s[i]
  <2>1. \A i \in 1 .. n - 1 : s[i] \in S
    BY <1>1
  <2>2. /\ r \in Seq(S)
        /\ Len(r) = IF 1 <= n - 1 THEN (n - 1) - 1 + 1 ELSE 0
        /\ \A i \in 1 .. (n - 1) - 1 + 1 : r[i] = s[1 + i - 1]
    <3> HIDE DEF n
    <3>1. 1 \in Int /\ n - 1 \in Int
      BY <1>1
    <3> QED BY <2>1, <3>1, SubSeqProperties DEF n
  <2> HIDE DEF r, n
  <2> QED BY <1>1, <2>2
<1>3. DOMAIN r = 1 .. n - 1
  BY <1>2, LenProperties
<1>4. s[n] \in Range(s) /\ s[n] \in S
  BY <1>1 DEF Range
<1> HIDE DEF r, n
<1>5. IsInjective(r)
  BY <1>1, <1>2, <1>3 DEF IsInjective
<1>6. Range(r) = Range(s) \ {s[n]}
  <2>1. ASSUME NEW i \in 1 .. n - 1 PROVE s[i] # s[n]
    BY <1>1 DEF IsInjective
  <2>2. \A i \in 1 .. n : i \in 1 .. n - 1 \/ i = n
    BY <1>1
  <2>3. Range(r) = {s[i] : i \in 1 .. n - 1}
    BY <1>2, <1>3 DEF Range
  <2>4. Range(s) = {s[i] : i \in 1 .. n}
    BY <1>1 DEF Range
  <2>5. 1 .. n - 1 \subseteq 1 .. n
    BY <1>1
  <2> QED BY <2>1, <2>2, <2>3, <2>4, <2>5
<1> QED BY <1>2, <1>4, <1>5, <1>6 DEF r, n

-----------------------------------------------------------------------------
(* The constructor starts with nothing. *)
LEMMA PoolInit == Init => PoolInv
<1> SUFFICES ASSUME Init PROVE PoolInv
  OBVIOUS
<1> USE DEF Init
<1>1. /\ Range(conns) = {}
      /\ inUse = {}
      /\ IsInjective(conns)
      /\ Len(conns) = 0
  BY DEF Range, inUse, IsInjective
<1>2. TypeOK
  BY DEF TypeOK, Places
<1>3. Exclusive /\ Conservation
  BY <1>1 DEF Exclusive, Conservation
<1>4. HolderHolds /\ Construction
  BY <1>1, FS_EmptySet, ConnsAssumption DEF HolderHolds, Construction
<1> QED BY <1>2, <1>3, <1>4 DEF PoolInv

(* Every step of every thread keeps the invariant. *)
LEMMA PoolStep == PoolInv /\ [Next]_vars => PoolInv'
<1> SUFFICES ASSUME PoolInv, [Next]_vars PROVE PoolInv'
  OBVIOUS
<1> USE DEF PoolInv, HolderHolds
<1>1. ASSUME NEW c \in Conns, CreateConn(c) PROVE PoolInv'
  <2> USE <1>1 DEF CreateConn
  <2>1. /\ live = Range(conns)
        /\ inUse = {} /\ inUse' = {}
        /\ \A t \in Threads : held[t] = NoConn /\ pc[t] = "idle"
    BY DEF Construction, Conservation, inUse, TypeOK
  <2>2. /\ conns' \in Seq(Conns)
        /\ Len(conns') = Len(conns) + 1
        /\ Range(conns') = Range(conns) \cup {c}
        /\ IsInjective(conns')
    BY <2>1, Push DEF TypeOK, Exclusive
  <2>3. /\ IsFiniteSet(live)
        /\ Cardinality(live') = Cardinality(live) + 1
        /\ Len(conns') = Cardinality(live')
    <3>1. IsFiniteSet(live) /\ c \notin live /\ live' = live \cup {c}
      BY ConnsAssumption, FS_Subset DEF TypeOK
    <3>2. Cardinality(live') = Cardinality(live) + 1
      BY <3>1, FS_AddElement
    <3>3. Len(conns) = Cardinality(live)
      BY DEF Construction
    <3> QED BY <2>2, <3>1, <3>2, <3>3
  <2>4. live' \subseteq Conns
    BY DEF TypeOK
  <2>5. phase' = "open" <=> live' = Conns
    <3>1. live' = Conns => Len(conns) + 1 = Cardinality(Conns)
      BY <2>2, <2>3
    <3>2. Len(conns) + 1 = Cardinality(Conns) => live' = Conns
      BY <2>2, <2>3, <2>4, ConnsAssumption, FS_Subset
    <3> QED BY <3>1, <3>2
  <2>6. TypeOK'
    BY <2>2, <2>4 DEF TypeOK
  <2>7. Exclusive' /\ Conservation'
    BY <2>1, <2>2, <2>5 DEF Exclusive, Conservation
  <2>8. HolderHolds' /\ Construction'
    BY <2>1, <2>3, <2>5 DEF Construction
  <2> QED BY <2>6, <2>7, <2>8
<1>2. CASE CreateFail
  <2> USE <1>2 DEF CreateFail
  <2>1. Range(conns') = {} /\ IsInjective(conns') /\ inUse' = inUse
    BY DEF Range, IsInjective, inUse
  <2>2. TypeOK'
    BY DEF TypeOK
  <2> QED BY <2>1, <2>2
       DEF Exclusive, Conservation, Construction
<1>3. ASSUME NEW t \in Threads, Acquire(t) PROVE PoolInv'
  <2> USE <1>3 DEF Acquire, Enter, TakeTop
  <2> DEFINE c == conns[Len(conns)]
  <2>1. /\ conns' \in Seq(Conns)
        /\ IsInjective(conns')
        /\ c \in Range(conns) /\ c \in Conns
        /\ Range(conns') = Range(conns) \ {c}
    BY Pop DEF TypeOK, Exclusive
  <2>2. /\ held[t] = NoConn
        /\ held' = [held EXCEPT ![t] = c]
        /\ pc' = [pc EXCEPT ![t] = "holding"]
        /\ held \in [Threads -> Conns \cup {NoConn}]
        /\ pc \in [Threads -> Places]
        /\ c # NoConn
    BY <2>1, NoConnAssumption DEF TypeOK
  <2> HIDE DEF c
  <2>3. inUse' = inUse \cup {c}
    BY <2>2 DEF inUse
  <2>4. c \notin inUse
    BY <2>1 DEF Exclusive
  <2>5. TypeOK'
    BY <2>1, <2>2 DEF TypeOK, Places
  <2>6. \A u \in Threads : u # t => held[u] # c
    BY <2>2, <2>4 DEF inUse
  <2>7. \A u, w \in Threads : held'[u] = held'[w] /\ held'[u] # NoConn => u = w
    BY <2>2, <2>6 DEF Exclusive
  <2>8. Exclusive'
    BY <2>1, <2>3, <2>7 DEF Exclusive
  <2>9. Conservation'
    BY <2>1, <2>3 DEF Conservation
  <2>10. HolderHolds' /\ Construction'
    BY <2>2 DEF Construction
  <2> QED BY <2>5, <2>8, <2>9, <2>10
<1>4. ASSUME NEW t \in Threads, Block(t) \/ SpuriousWake(t) PROVE PoolInv'
  <2>1. /\ UNCHANGED <<phase, conns, held, live>>
        /\ phase = "open"
        /\ pc[t] # "holding"
        /\ \/ pc' = [pc EXCEPT ![t] = "asleep"]
           \/ pc' = [pc EXCEPT ![t] = "woken"]
    BY <1>4 DEF Block, Enter, SpuriousWake
  <2>2. inUse' = inUse
    BY <2>1 DEF inUse
  <2>3. TypeOK'
    BY <2>1 DEF TypeOK, Places
  <2>4. HolderHolds'
    BY <2>1 DEF TypeOK
  <2> QED BY <2>1, <2>2, <2>3, <2>4
       DEF Exclusive, Conservation, Construction
<1>5. ASSUME NEW t \in Threads, Release(t) PROVE PoolInv'
  <2> USE <1>5 DEF Release, GiveBack, NotifyOne, NotifyNone, GiveBack, NotifyOne, NotifyNone
  <2> DEFINE c == held[t]
  <2>1. /\ held \in [Threads -> Conns \cup {NoConn}]
        /\ pc \in [Threads -> Places]
        /\ c # NoConn /\ c \in Conns /\ c \in inUse
    BY DEF TypeOK, inUse
  <2>2. c \notin Range(conns)
    BY <2>1 DEF Exclusive
  <2>3. /\ conns' \in Seq(Conns)
        /\ IsInjective(conns')
        /\ Range(conns') = Range(conns) \cup {c}
    BY <2>1, <2>2, Push DEF TypeOK, Exclusive
  <2>4. held' = [held EXCEPT ![t] = NoConn]
    OBVIOUS
  <2>5. /\ pc' \in [Threads -> Places]
        /\ \A u \in Threads :
              pc'[u] = "holding" <=> u # t /\ pc[u] = "holding"
    <3>1. CASE pc' = [pc EXCEPT ![t] = "idle"]
      BY <2>1, <3>1 DEF Places
    <3>2. ASSUME NEW w \in asleep,
                 pc' = [pc EXCEPT ![t] = "idle", ![w] = "woken"]
          PROVE  <2>5!1 /\ <2>5!2
      BY <2>1, <3>2 DEF Places, asleep
    <3> QED BY <3>1, <3>2
  <2> HIDE DEF c
  <2>6. inUse' = inUse \ {c}
    <3>1. \A u \in Threads : u # t => held[u] # c
      BY <2>1 DEF Exclusive, c
    <3> QED BY <2>1, <2>4, <3>1 DEF inUse, c
  <2>7. \A u, w \in Threads : held'[u] = held'[w] /\ held'[u] # NoConn => u = w
    BY <2>1, <2>4 DEF Exclusive
  <2>8. Exclusive'
    BY <2>2, <2>3, <2>6, <2>7 DEF Exclusive
  <2>9. Conservation'
    BY <2>1, <2>3, <2>6 DEF Conservation
  <2>10. TypeOK'
    BY <2>1, <2>3, <2>4, <2>5 DEF TypeOK
  <2>11. HolderHolds' /\ Construction'
    BY <2>1, <2>4, <2>5 DEF Construction
  <2> QED BY <2>8, <2>9, <2>10, <2>11
<1>6. CASE ClosePool
  <2> USE <1>6 DEF ClosePool
  <2>1. Range(conns') = {} /\ IsInjective(conns') /\ inUse' = inUse
    BY DEF Range, IsInjective, inUse
  <2>2. TypeOK'
    BY DEF TypeOK
  <2> QED BY <2>1, <2>2
       DEF Exclusive, Conservation, Construction
<1>7. CASE UNCHANGED vars
  BY <1>7 DEF vars, TypeOK, Exclusive, Conservation,
              Construction, inUse
<1> QED BY <1>1, <1>2, <1>3, <1>4, <1>5, <1>6, <1>7 DEF Next

(* The types, for any finite pool and any finite number of threads. *)
THEOREM TypeCorrect == Spec => []TypeOK
<1>1. PoolInv => TypeOK
  BY DEF PoolInv
<1> QED BY <1>1, PoolInit, PoolStep, PTL DEF Spec

(* No connection has two users or is free while in use, and none is used   *)
(* that is closed, however the threads interleave in acquire(), release()  *)
(* and close_pool().                                                       *)
THEOREM PoolSafety == Spec => []Exclusive
<1>1. PoolInv => Exclusive
  BY DEF PoolInv
<1> QED BY <1>1, PoolInit, PoolStep, PTL DEF Spec

(* No connection is lost on any path: while the pool is open each is free  *)
(* or held, and unless the constructor has thrown every open session is in *)
(* the pool or with the thread that uses it.                               *)
THEOREM PoolConserves == Spec => []Conservation
<1>1. PoolInv => Conservation
  BY DEF PoolInv
<1> QED BY <1>1, PoolInit, PoolStep, PTL DEF Spec

-----------------------------------------------------------------------------
(* Wakeups.  A thread moves in and out of the wait set one at a time.      *)
LEMMA WokenFinite ==
    /\ IsFiniteSet(woken)
    /\ Cardinality(woken) \in Nat
<1>1. woken \in SUBSET Threads
  BY DEF woken
<1> QED BY <1>1, ThreadsAssumption, FS_Subset, FS_CardinalityType

LEMMA WakeupStep == PoolInv /\ NoLostWakeup /\ [Next]_vars => NoLostWakeup'
<1> SUFFICES ASSUME PoolInv, NoLostWakeup, [Next]_vars, asleep' # {}
             PROVE  Len(conns') <= Cardinality(woken')
  BY DEF NoLostWakeup
<1> DEFINE n == Cardinality(woken)
<1>0. /\ IsFiniteSet(woken) /\ n \in Nat
      /\ pc \in [Threads -> Places]
      /\ conns \in Seq(Conns) /\ Len(conns) \in Nat
  BY WokenFinite, LenProperties DEF PoolInv, TypeOK
<1>1. ASSUME NEW c \in Conns, CreateConn(c) PROVE FALSE
  BY <1>1 DEF CreateConn, asleep, PoolInv, Construction
<1>2. CASE CreateFail
  BY <1>2 DEF CreateFail, asleep, PoolInv, Construction
<1>3. ASSUME NEW t \in Threads, Acquire(t)
      PROVE  Len(conns') <= Cardinality(woken')
  <2>1. /\ Len(conns') = Len(conns) - 1
        /\ pc' = [pc EXCEPT ![t] = "holding"]
    BY <1>3, Pop DEF Acquire, Enter, TakeTop, PoolInv, TypeOK, Exclusive
  <2>2. asleep' = asleep /\ woken' = woken \ {t}
    BY <1>0, <1>3, <2>1 DEF Acquire, Enter, TakeTop, asleep, woken
  <2>3. Cardinality(woken') = IF t \in woken THEN n - 1 ELSE n
    BY <1>0, <2>2, FS_RemoveElement
  <2>4. Len(conns) <= n
    BY <2>2 DEF NoLostWakeup
  <2>5. Cardinality(woken') \in Nat
    BY <1>0, <2>2, FS_RemoveElement, FS_CardinalityType
  <2> QED BY <1>0, <2>1, <2>3, <2>4, <2>5
<1>4. ASSUME NEW t \in Threads, Block(t)
      PROVE  Len(conns') <= Cardinality(woken')
  <2>1. /\ conns' = <<>>
        /\ pc' = [pc EXCEPT ![t] = "asleep"]
    BY <1>4 DEF Block, Enter, Enter
  <2>2. woken' = woken \ {t}
    BY <1>0, <2>1 DEF woken
  <2>3. Cardinality(woken') \in Nat
    BY <1>0, <2>2, FS_RemoveElement, FS_CardinalityType
  <2> QED BY <2>1, <2>3, EmptySeq
<1>5. ASSUME NEW t \in Threads, SpuriousWake(t)
      PROVE  Len(conns') <= Cardinality(woken')
  <2>1. /\ conns' = conns /\ t \in asleep
        /\ woken' = woken \cup {t} /\ t \notin woken
    BY <1>0, <1>5 DEF SpuriousWake, asleep, woken
  <2>2. Len(conns) <= n
    BY <2>1 DEF NoLostWakeup
  <2>3. Cardinality(woken') = n + 1
    BY <1>0, <2>1, FS_AddElement
  <2> QED BY <1>0, <2>1, <2>2, <2>3
<1>6. ASSUME NEW t \in Threads, Release(t)
      PROVE  Len(conns') <= Cardinality(woken')
  <2>1. Len(conns') = Len(conns) + 1
    <3>1. held[t] \in Conns
      BY <1>6 DEF Release, GiveBack, NotifyOne, NotifyNone, PoolInv, TypeOK, HolderHolds
    <3> QED BY <1>0, <1>6, <3>1, Push DEF Release, GiveBack, NotifyOne, NotifyNone, GiveBack, NotifyOne, NotifyNone
  <2>2. PICK w \in asleep : pc' = [pc EXCEPT ![t] = "idle", ![w] = "woken"]
    <3>1. CASE asleep = {}
      <4>1. pc' = [pc EXCEPT ![t] = "idle"]
        BY <1>6, <3>1 DEF Release, GiveBack, NotifyOne, NotifyNone, GiveBack, NotifyOne, NotifyNone
      <4>2. asleep' = {}
        BY <1>0, <3>1, <4>1 DEF asleep
      <4> QED BY <4>2
    <3> QED BY <1>6, <3>1 DEF Release, GiveBack, NotifyOne, NotifyNone, GiveBack, NotifyOne, NotifyNone
  <2>3. /\ woken' = woken \cup {w}
        /\ w \notin woken
    BY <1>0, <1>6, <2>2 DEF Release, GiveBack, NotifyOne, NotifyNone, asleep, woken
  <2>4. Cardinality(woken') = n + 1
    BY <1>0, <2>3, FS_AddElement
  <2>5. Len(conns) <= n
    BY <2>2 DEF NoLostWakeup
  <2> QED BY <1>0, <2>1, <2>4, <2>5
<1>7. CASE ClosePool
  <2>1. conns' = <<>> /\ woken' = woken
    BY <1>7 DEF ClosePool, woken
  <2> QED BY <1>0, <2>1, EmptySeq
<1>8. CASE UNCHANGED vars
  BY <1>8 DEF vars, NoLostWakeup, asleep, woken
<1> QED BY <1>1, <1>2, <1>3, <1>4, <1>5, <1>6, <1>7, <1>8 DEF Next

(* release() never wakes too few: as long as a thread sleeps, there are at *)
(* least as many woken threads on their way as there are free connections, *)
(* whoever takes those connections meanwhile.                              *)
THEOREM WakeupsKept == Spec => []NoLostWakeup
<1>1. Init => NoLostWakeup
  BY DEF Init, NoLostWakeup, asleep
<1> QED BY <1>1, PoolInit, PoolStep, WakeupStep, PTL DEF Spec

-----------------------------------------------------------------------------
(* Every step of the pool is a step, or a stutter, of the abstract pool.   *)
LEMMA RefinementStep ==
    PoolInv /\ PoolInv' /\ [Next]_vars => [Pool!SpecNext]_(Pool!specVars)
<1> SUFFICES ASSUME PoolInv, PoolInv', [Next]_vars
             PROVE  [Pool!SpecNext]_(Pool!specVars)
  OBVIOUS
<1> USE DEF PoolInv, HolderHolds
<1>1. ASSUME NEW c \in Conns, CreateConn(c)
      PROVE  Pool!Open \/ UNCHANGED Pool!specVars
  <2>1. /\ held' = held
        /\ phase = "creating"
        /\ phase' \in {"creating", "open"}
    BY <1>1 DEF CreateConn
  <2>2. CASE phase' = "creating"
    BY <2>1, <2>2 DEF Pool!specVars
  <2>3. CASE phase' = "open"
    <3>1. inUse' = {}
      BY <1>1 DEF CreateConn, Construction, inUse
    <3>2. Range(conns') = Conns
      BY <2>3, <3>1 DEF Conservation
    <3> QED BY <2>1, <2>3, <3>2 DEF Pool!Open
  <2> QED BY <2>1, <2>2, <2>3
<1>2. CASE CreateFail
  BY <1>2 DEF CreateFail, Pool!Fail, Pool!SpecNext
<1>3. ASSUME NEW t \in Threads, Acquire(t) PROVE Pool!Take(t)
  <2> DEFINE c == conns[Len(conns)]
  <2>1. /\ c \in Range(conns)
        /\ Range(conns') = Range(conns) \ {c}
    BY <1>3, Pop DEF Acquire, Enter, TakeTop, TypeOK, Exclusive
  <2>2. /\ phase = "open" /\ phase' = "open"
        /\ held[t] = NoConn
        /\ held' = [held EXCEPT ![t] = c]
    BY <1>3 DEF Acquire, Enter, TakeTop, TypeOK
  <2> HIDE DEF c
  <2> QED BY <2>1, <2>2 DEF Pool!Take
<1>4. ASSUME NEW t \in Threads, Block(t) \/ SpuriousWake(t)
      PROVE  UNCHANGED Pool!specVars
  BY <1>4 DEF Block, Enter, SpuriousWake, Pool!specVars
<1>5. ASSUME NEW t \in Threads, Release(t) PROVE Pool!Give(t)
  <2>1. /\ held[t] # NoConn /\ held[t] \in Conns
        /\ phase = "open" /\ phase' = "open"
        /\ held' = [held EXCEPT ![t] = NoConn]
        /\ conns' = Append(conns, held[t])
    BY <1>5 DEF Release, GiveBack, NotifyOne, NotifyNone, TypeOK
  <2>2. Range(conns') = Range(conns) \cup {held[t]}
    BY <2>1, Push DEF TypeOK
  <2> QED BY <2>1, <2>2 DEF Pool!Give
<1>6. CASE ClosePool
  BY <1>6 DEF ClosePool, Pool!Close, Pool!SpecNext
<1>7. CASE UNCHANGED vars
  BY <1>7 DEF vars, Pool!specVars
<1> QED BY <1>1, <1>2, <1>3, <1>4, <1>5, <1>6, <1>7 DEF Next, Pool!SpecNext

(* MySQLPool implements the pool its header describes.                     *)
THEOREM PoolImplemented == Spec => PoolRefinement
<1>1. Init => Pool!SpecInit
  BY DEF Init, Pool!SpecInit
<1> QED BY <1>1, PoolInit, PoolStep, RefinementStep, PTL
        DEF Spec, PoolRefinement, Pool!PoolSpecification
=============================================================================
