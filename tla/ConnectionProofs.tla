-------------------------- MODULE ConnectionProofs --------------------------
(***************************************************************************)
(* Proofs about the connections of the HTTP front end and the programs at  *)
(* their other end: the queue of accepted sockets and the threads that     *)
(* serve them (SocketQueue), for any connections, any size of the ring     *)
(* buffer and any number of workers, whether workers may fail or not; a    *)
(* connection (Connection), for any requests of a client that frames their *)
(* bodies as it says, any buffer and any sizes of reads; the HTTP client   *)
(* (Client), for any responses that are framed as they say, any buffer,    *)
(* room for messages and waits; the load generator (LoadGen), for any      *)
(* number of workers, workloads, keys and rounds.                          *)
(***************************************************************************)
EXTENDS SocketQueue, Integers, SequenceTheorems, FiniteSetTheorems,
        WellFoundedInduction, TLAPS

CONSTANTS
    Streams, KeepAlive, ReadSizes,                  \* Connection
    BufSize, Faults,                                \* Connection, Client
    Responses, Default, Timeouts, EbufLens, MaxWait,  \* Client
    LoadWorkers, Workloads, POPULAR_KEY_COUNT, MaxRounds  \* LoadGen

VARIABLES
    pc,                                             \* Connection, Client, LoadGen
    reqs, wire, buf, conn, call, stop, gone, body,
    answered, said,                                 \* Connection
    mode, ebuf_len, ebuf, mem, mutex, script, todo, open, response,
    timeout, waited, sent, seen,                    \* Client, with wire, buf, sock
    workload, main, next, popular_keys, stored, stop_test, total_requests,
    total_failed, handle, ok, request, rounds, index  \* LoadGen

Conn == INSTANCE Connection
Caller == INSTANCE Client
Load == INSTANCE LoadGen WITH Workers <- LoadWorkers

-----------------------------------------------------------------------------
(* The queue of sockets *)

(* Where the threads can be: workers are started in order, the master has  *)
(* a socket in hand only on its way to the buffer, and it is done only     *)
(* when every worker has ended.                                            *)
ThreadsInv ==
    /\ master \in {"produce", "asleep"} <=> so # NoSocket
    /\ \A w \in Workers :
          /\ worker[w] = "none" <=> w > spawned
          /\ client[w] # NoSocket => worker[w] \in {"taken", "serving"}
    /\ master = "starting" => spawned < MaxWorkers
    /\ master = "done" => 1 .. spawned \subseteq finished
    /\ stop_flag = 2 <=> master = "done"
    /\ stop_flag = 0 => master \notin {"closing", "broadcast", "joining", "done"}
    /\ stopper = "running" => stop_flag = 0
    /\ stopper = "stopped" => stop_flag = 2

(* One place for a connection, told apart place by place: places(s) counts *)
(* at most one then.                                                       *)
InHand(s) == so = s
InSlot(s) == \E i \in 1 .. filled : queue[i] = s
AtWorker(s) == \E w \in Workers : client[w] = s

PlacedInv ==
    /\ \A i \in 1 .. filled : queue[i] \in Sockets
    /\ \A i, j \in 1 .. filled : queue[i] = queue[j] => i = j
    /\ \A w, v \in Workers : client[w] = client[v] /\ client[w] # NoSocket => w = v
    /\ \A s \in Sockets :
          /\ InSlot(s) => ~AtWorker(s)
          /\ InHand(s) => ~InSlot(s) /\ ~AtWorker(s)
          /\ InHand(s) \/ InSlot(s) \/ AtWorker(s) => sock[s] = "open"
          /\ sock[s] = "open" /\ stop_flag = 0 => InHand(s) \/ InSlot(s) \/ AtWorker(s)

QueueInv == TypeOK /\ ThreadsInv /\ IdleCounted /\ PlacedInv

-----------------------------------------------------------------------------
(* pthread_cond_signal wakes sleepers only. *)
LEMMA SignalWakes ==
    ASSUME TypeOK, SignalFull
    PROVE  /\ worker' \in [Workers -> WorkerPlaces]
           /\ \A w \in Workers : worker'[w] = worker[w] \/
                                 (worker[w] = "asleep" /\ worker'[w] = "awake")
BY DEF TypeOK, SignalFull, WorkerPlaces

LEMMA ThreadsInit == Init => ThreadsInv
<1> SUFFICES ASSUME Init PROVE ThreadsInv
  OBVIOUS
<1> QED BY SizeAssumption DEF Init, ThreadsInv, Workers

LEMMA MasterThreads ==
    ASSUME TypeOK, ThreadsInv, Master
    PROVE  ThreadsInv'
<1> USE SizeAssumption, NoSocketAssumption DEF TypeOK, ThreadsInv, Workers, finished
<1>1. CASE Poll \/ AcceptNothing \/ ProduceWait \/ CloseListeners \/ SpawnFail
  BY <1>1 DEF Poll, AcceptNothing, ProduceWait, CloseListeners, SpawnFail
<1>2. ASSUME NEW s \in Sockets, Accept(s) PROVE ThreadsInv'
  BY <1>2 DEF Accept
<1>3. CASE ProducePush
  BY <1>3, SignalWakes DEF ProducePush
<1>4. CASE ProduceGiveUp
  BY <1>4, SignalWakes DEF ProduceGiveUp
<1>5. CASE Spawn
  BY <1>5 DEF Spawn
<1>6. CASE SpawnThread
  BY <1>6 DEF SpawnThread
<1>7. CASE Broadcast
  BY <1>7 DEF Broadcast
<1>8. CASE Join
  BY <1>8 DEF Join
<1> QED BY <1>1, <1>2, <1>3, <1>4, <1>5, <1>6, <1>7, <1>8 DEF Master

LEMMA WorkerThreads ==
    ASSUME TypeOK, ThreadsInv, NEW w \in Workers, WorkerStep(w)
    PROVE  ThreadsInv'
<1> USE SizeAssumption, NoSocketAssumption DEF TypeOK, ThreadsInv, Workers, finished
<1>1. CASE Start(w)
  BY <1>1 DEF Start
<1>2. CASE StartFail(w)
  BY <1>2 DEF StartFail
<1>3. CASE ConsumeWait(w)
  BY <1>3 DEF ConsumeWait, inConsume
<1>4. CASE Consume(w)
  BY <1>4 DEF Consume, inConsume, Pop, SignalEmpty
<1>5. CASE ConsumeNothing(w)
  BY <1>5 DEF ConsumeNothing, inConsume, SignalEmpty
<1>6. CASE ConsumeReturn(w)
  BY <1>6 DEF ConsumeReturn
<1>7. CASE Served(w)
  BY <1>7 DEF Served
<1> QED BY <1>1, <1>2, <1>3, <1>4, <1>5, <1>6, <1>7 DEF WorkerStep

LEMMA ThreadsStep ==
    ASSUME TypeOK, ThreadsInv, [Next]_vars
    PROVE  ThreadsInv'
<1>1. CASE Stop \/ StopReturn \/ SpuriousWakeup \/ UNCHANGED vars
  BY <1>1, SizeAssumption
  DEF Stop, StopReturn, SpuriousWakeup, vars, TypeOK, ThreadsInv, Workers, finished
<1> QED BY <1>1, MasterThreads, WorkerThreads DEF Next

-----------------------------------------------------------------------------
(* The ring buffer.  Its indices are less than two rounds apart from the   *)
(* first slot, so that a position is found by taking one round off.        *)
LEMMA Wrap ==
    \A x \in 0 .. 2 * SqSize - 1 : x % SqSize = IF x < SqSize THEN x ELSE x - SqSize
<1> SUFFICES ASSUME NEW x \in 0 .. 2 * SqSize - 1
             PROVE  x % SqSize = IF x < SqSize THEN x ELSE x - SqSize
  OBVIOUS
<1> USE SizeAssumption
<1>1. CASE x < SqSize
  BY <1>1
<1>2. CASE ~(x < SqSize)
  <2>1. x - SqSize \in 0 .. SqSize - 1
    BY <1>2
  <2>2. x = SqSize * 1 + (x - SqSize)
    BY <1>2
  <2>3. \A q \in Int, r \in 0 .. SqSize - 1 : x = SqSize * q + r => x % SqSize = r
    OBVIOUS
  <2> QED BY <1>2, <2>1, <2>2, <2>3
<1> QED BY <1>1, <1>2

(* Where position i of a queue that begins at t is. *)
slot(t, i) == IF t + i - 1 < SqSize THEN t + i - 1 ELSE t + i - 1 - SqSize

LEMMA Slot ==
    ASSUME NEW t \in 0 .. SqSize
    PROVE  /\ \A i \in 1 .. SqSize : (t + i - 1) % SqSize = slot(t, i) /\ slot(t, i) \in Slots
           /\ \A i, j \in 1 .. SqSize : slot(t, i) = slot(t, j) => i = j
<1>1. ASSUME NEW i \in 1 .. SqSize
      PROVE  (t + i - 1) % SqSize = slot(t, i) /\ slot(t, i) \in Slots
  <2>1. PICK x : x = t + i - 1
    OBVIOUS
  <2>2. x \in 0 .. 2 * SqSize - 1
    BY <2>1, SizeAssumption
  <2>3. x % SqSize = IF x < SqSize THEN x ELSE x - SqSize
    BY ONLY <2>2, Wrap
  <2>4. slot(t, i) \in Slots
    BY <2>1, <2>2, SizeAssumption DEF slot, Slots
  <2>5. t \in Int /\ i \in Int /\ SqSize \in Int /\ x \in Int
    BY <2>2, SizeAssumption
  <2>6. slot(t, i) = IF x < SqSize THEN x ELSE x - SqSize
    BY ONLY <2>1, <2>5 DEF slot
  <2> QED BY ONLY <2>1, <2>3, <2>4, <2>6
<1>2. \A i, j \in 1 .. SqSize : slot(t, i) = slot(t, j) => i = j
  BY SizeAssumption DEF slot
<1> QED BY <1>1, <1>2

LEMMA QueueSlots ==
    ASSUME TypeOK
    PROVE  /\ filled \in 0 .. SqSize
           /\ \A i \in 1 .. filled : queue[i] = squeue[slot(sq_tail, i)]
<1>1. /\ sq_tail \in 0 .. SqSize /\ sq_head \in sq_tail .. sq_tail + SqSize
      /\ SqSize \in Nat
  BY SizeAssumption DEF TypeOK
<1>2. filled \in 0 .. SqSize
  BY <1>1 DEF filled
<1>3. ASSUME NEW i \in 1 .. filled PROVE queue[i] = squeue[slot(sq_tail, i)]
  <2>1. i \in 1 .. SqSize
    BY ONLY <1>1, <1>2
  <2>2. (sq_tail + i - 1) % SqSize = slot(sq_tail, i)
    BY ONLY <1>1, <2>1, Slot
  <2>3. queue[i] = squeue[(sq_tail + i - 1) % SqSize]
    BY DEF queue
  <2> QED BY ONLY <2>2, <2>3
<1> QED BY <1>2, <1>3

LEMMA QueueSlotsNext ==
    ASSUME TypeOK'
    PROVE  /\ filled' \in 0 .. SqSize
           /\ \A i \in 1 .. filled' : queue'[i] = squeue'[slot(sq_tail', i)]
<1>1. /\ sq_tail' \in 0 .. SqSize /\ sq_head' \in sq_tail' .. sq_tail' + SqSize
      /\ SqSize \in Nat
  BY SizeAssumption DEF TypeOK
<1>2. filled' \in 0 .. SqSize
  <2>1. filled' = sq_head' - sq_tail'
    BY DEF filled
  <2>2. \A n \in Nat : \A t \in 0 .. n : \A x \in t .. t + n : x - t \in 0 .. n
    OBVIOUS
  <2> QED BY ONLY <1>1, <2>1, <2>2
<1>3. ASSUME NEW i \in 1 .. filled' PROVE queue'[i] = squeue'[slot(sq_tail', i)]
  <2>1. i \in 1 .. SqSize
    BY ONLY <1>1, <1>2
  <2>2. (sq_tail' + i - 1) % SqSize = slot(sq_tail', i)
    BY ONLY <1>1, <2>1, Slot
  <2>3. queue'[i] = squeue'[(sq_tail' + i - 1) % SqSize]
    BY DEF queue
  <2> QED BY ONLY <2>2, <2>3
<1> QED BY <1>2, <1>3

(* produce_socket appends, consume_socket takes the first.                 *)
LEMMA PushAppends ==
    ASSUME TypeOK, TypeOK', NEW s \in Sockets, Push(s), filled < SqSize
    PROVE  /\ filled' = filled + 1
           /\ \A i \in 1 .. filled : queue'[i] = queue[i]
           /\ queue'[filled + 1] = s
<1>1. /\ squeue' = [squeue EXCEPT ![sq_head % SqSize] = s]
      /\ sq_head' = sq_head + 1 /\ sq_tail' = sq_tail
  BY DEF Push
<1>2. /\ sq_tail \in 0 .. SqSize /\ SqSize \in Nat \ {0}
      /\ sq_head \in Int
      /\ squeue \in [Slots -> Sockets \cup {NoSocket}]
  BY SizeAssumption DEF TypeOK
<1>3. filled' = filled + 1 /\ filled \in 0 .. SqSize - 1
  BY <1>1, <1>2, QueueSlots DEF filled
<1>4. sq_head % SqSize = slot(sq_tail, filled + 1)
  <2>1. sq_tail + (filled + 1) - 1 = sq_head
    BY <1>2 DEF filled
  <2>2. filled + 1 \in 1 .. SqSize
    BY <1>2, <1>3
  <2> QED BY ONLY <1>2, <2>1, <2>2, Slot
<1>5. squeue' = [squeue EXCEPT ![slot(sq_tail, filled + 1)] = s]
  BY ONLY <1>1, <1>4
<1>6. ASSUME NEW i \in 1 .. filled PROVE queue'[i] = queue[i]
  <2>1. queue[i] = squeue[slot(sq_tail, i)] /\ queue'[i] = squeue'[slot(sq_tail, i)]
    <3>1. i \in 1 .. filled'
      BY <1>3
    <3> QED BY <1>1, <3>1, QueueSlots, QueueSlotsNext
  <2>2. slot(sq_tail, i) \in Slots /\ slot(sq_tail, i) # slot(sq_tail, filled + 1)
    <3>1. i \in 1 .. SqSize /\ filled + 1 \in 1 .. SqSize /\ i # filled + 1
      BY ONLY <1>2, <1>3
    <3> QED BY ONLY <1>2, <3>1, Slot
  <2> QED BY ONLY <1>2, <1>5, <2>1, <2>2
<1>7. queue'[filled + 1] = s
  <2>1. filled + 1 \in 1 .. SqSize /\ filled + 1 \in 1 .. filled'
    BY ONLY <1>2, <1>3
  <2>2. queue'[filled + 1] = squeue'[slot(sq_tail, filled + 1)]
    BY <1>1, <2>1, QueueSlotsNext
  <2>3. slot(sq_tail, filled + 1) \in Slots
    BY ONLY <1>2, <2>1, Slot
  <2> QED BY ONLY <1>2, <1>5, <2>2, <2>3
<1> QED BY <1>3, <1>6, <1>7

LEMMA PopTakesFirst ==
    ASSUME TypeOK, TypeOK', NEW w \in Workers, Pop(w), sq_head > sq_tail
    PROVE  /\ filled \in 1 .. SqSize /\ filled' = filled - 1
           /\ \A i \in 1 .. filled - 1 : queue'[i] = queue[i + 1]
           /\ client' = [client EXCEPT ![w] = queue[1]]
<1>1. PICK back : /\ back = IF sq_tail + 1 > SqSize THEN SqSize ELSE 0
                  /\ client' = [client EXCEPT ![w] = squeue[sq_tail % SqSize]]
                  /\ sq_tail' = sq_tail + 1 - back
                  /\ sq_head' = sq_head - back
                  /\ squeue' = squeue
  BY DEF Pop
<1>2. /\ sq_tail \in 0 .. SqSize /\ SqSize \in Nat \ {0}
      /\ sq_head \in Int /\ back \in Int
  BY <1>1, SizeAssumption DEF TypeOK
<1>3. filled \in 1 .. SqSize /\ filled' = filled - 1
  BY <1>1, <1>2, QueueSlots DEF filled
<1>4. client' = [client EXCEPT ![w] = queue[1]]
  <2>1. 1 \in 1 .. SqSize /\ sq_tail + 1 - 1 = sq_tail
    BY ONLY <1>2
  <2>2. sq_tail % SqSize = slot(sq_tail, 1)
    BY ONLY <1>2, <2>1, Slot
  <2>3. queue[1] = squeue[slot(sq_tail, 1)]
    BY <1>3, QueueSlots
  <2> QED BY ONLY <1>1, <2>2, <2>3
<1>5. ASSUME NEW i \in 1 .. filled - 1 PROVE queue'[i] = queue[i + 1]
  <2>1. slot(sq_tail', i) = slot(sq_tail, i + 1)
    BY ONLY <1>1, <1>2, <1>3 DEF slot
  <2>2. i \in 1 .. filled' /\ i + 1 \in 1 .. filled
    BY ONLY <1>3
  <2>3. queue'[i] = squeue'[slot(sq_tail', i)] /\ queue[i + 1] = squeue[slot(sq_tail, i + 1)]
    BY <2>2, QueueSlots, QueueSlotsNext
  <2> QED BY ONLY <1>1, <2>1, <2>3
<1> QED BY <1>3, <1>4, <1>5

-----------------------------------------------------------------------------
(* The idle workers. *)
Ready == {w \in Workers : worker[w] \in {"starting", "asleep", "awake", "failed"}}
starting == IF master = "starting" THEN 1 ELSE 0

LEMMA FiniteReady ==
    /\ IsFiniteSet(Workers) /\ IsFiniteSet(Ready) /\ IsFiniteSet(Ready')
    /\ Cardinality(Ready) \in Nat /\ Cardinality(Ready') \in Nat
<1>1. IsFiniteSet(Workers)
  BY SizeAssumption, FS_Interval DEF Workers
<1>2. Ready \in SUBSET Workers /\ Ready' \in SUBSET Workers
  BY DEF Ready
<1>3. IsFiniteSet(Ready) /\ IsFiniteSet(Ready')
  BY ONLY <1>1, <1>2, FS_Subset
<1> QED BY ONLY <1>1, <1>3, FS_CardinalityType

LEMMA IdleIs == IdleCounted <=> idle = Cardinality(Ready) + starting
BY DEF IdleCounted, Ready, starting

LEMMA IdleIsNext == IdleCounted' <=> idle' = Cardinality(Ready') + starting'
BY DEF IdleCounted, Ready, starting

(* What a step does to the idle workers: nobody comes or goes, one comes,  *)
(* or one goes.                                                            *)
LEMMA ReadySame ==
    ASSUME \A w \in Workers : worker'[w] = worker[w] \/
              {worker[w], worker'[w]} \subseteq {"starting", "asleep", "awake", "failed"}
    PROVE  Ready' = Ready
BY DEF Ready

LEMMA ReadyComes ==
    ASSUME NEW w \in Workers, w \notin Ready, w \in Ready',
           \A v \in Workers \ {w} : worker'[v] = worker[v]
    PROVE  Cardinality(Ready') = Cardinality(Ready) + 1
<1>1. Ready' = Ready \cup {w}
  BY DEF Ready
<1> QED BY <1>1, FiniteReady, FS_AddElement

LEMMA ReadyGoes ==
    ASSUME NEW w \in Workers, w \in Ready, w \notin Ready',
           \A v \in Workers \ {w} : worker'[v] = worker[v]
    PROVE  Cardinality(Ready') = Cardinality(Ready) - 1
<1>1. Ready' = Ready \ {w}
  BY DEF Ready
<1> QED BY <1>1, FiniteReady, FS_RemoveElement

LEMMA MasterIdle ==
    ASSUME TypeOK, ThreadsInv, IdleCounted, Master
    PROVE  IdleCounted'
<1> USE FiniteReady, IdleIs, IdleIsNext DEF starting
<1>1. CASE Poll \/ AcceptNothing \/ ProduceWait \/ CloseListeners \/ Join
  <2>1. UNCHANGED <<idle, worker>> /\ starting' = starting
    BY <1>1 DEF Poll, AcceptNothing, ProduceWait, CloseListeners, Join
  <2> QED BY <2>1, ReadySame
<1>2. ASSUME NEW s \in Sockets, Accept(s) PROVE IdleCounted'
  <2>1. UNCHANGED <<idle, worker>> /\ starting' = starting
    BY <1>2 DEF Accept
  <2> QED BY <2>1, ReadySame
<1>3. CASE ProducePush \/ ProduceGiveUp
  <2>1. idle' = idle /\ starting' = starting /\ SignalFull
    BY <1>3 DEF ProducePush, ProduceGiveUp
  <2> QED BY <2>1, SignalWakes, ReadySame
<1>4. CASE Spawn
  <2>1. idle' = idle + (starting' - starting) /\ worker' = worker
    BY <1>4 DEF Spawn, TypeOK
  <2> QED BY <2>1, ReadySame
<1>5. CASE SpawnFail
  <2>1. idle' = idle - 1 /\ starting = 1 /\ starting' = 0 /\ worker' = worker
    BY <1>5 DEF SpawnFail
  <2> QED BY <2>1, ReadySame
<1>6. CASE SpawnThread
  <2> DEFINE w == spawned + 1
  <2>1. /\ w \in Workers /\ worker[w] = "none"
        /\ worker' = [worker EXCEPT ![w] = "starting"]
        /\ idle' = idle /\ starting = 1 /\ starting' = 0
    BY <1>6, SizeAssumption DEF SpawnThread, TypeOK, ThreadsInv, Workers
  <2> HIDE DEF w
  <2>2. /\ w \notin Ready /\ w \in Ready'
        /\ \A v \in Workers \ {w} : worker'[v] = worker[v]
    BY <2>1 DEF Ready, TypeOK
  <2> QED BY <2>1, <2>2, ReadyComes
<1>7. CASE Broadcast
  <2>1. idle' = idle /\ starting' = starting
    BY <1>7 DEF Broadcast
  <2>2. \A w \in Workers : worker'[w] = worker[w] \/
                           (worker[w] = "asleep" /\ worker'[w] = "awake")
    BY <1>7 DEF Broadcast
  <2> QED BY <2>1, <2>2, ReadySame
<1> QED BY <1>1, <1>2, <1>3, <1>4, <1>5, <1>6, <1>7 DEF Master

(* A worker in consume_socket counts, or is about to be counted. *)
LEMMA ConsumeCounts ==
    ASSUME TypeOK, IdleCounted, NEW w \in Workers, inConsume(w), starting' = starting,
           NEW place \in {"asleep", "taken"}, worker' = [worker EXCEPT ![w] = place],
           idle' = IF place = "asleep" THEN counted(w) ELSE counted(w) - 1
    PROVE  IdleCounted'
<1> USE FiniteReady, IdleIs, IdleIsNext
<1>1. worker'[w] = place /\ \A v \in Workers \ {w} : worker'[v] = worker[v]
  BY DEF TypeOK
<1>2. starting \in Int
  BY DEF starting
<1>3. CASE worker[w] = "entering" /\ place = "asleep"
  <2>1. w \notin Ready /\ w \in Ready'
    BY <1>1, <1>3 DEF Ready
  <2>2. idle' = idle + 1
    BY <1>3 DEF counted
  <2> QED BY <1>1, <1>2, <2>1, <2>2, ReadyComes
<1>4. CASE worker[w] = "awake" /\ place = "asleep"
  <2>1. Ready' = Ready
    BY <1>1, <1>4, ReadySame
  <2>2. idle' = idle
    BY <1>4 DEF counted
  <2> QED BY <2>1, <2>2
<1>5. CASE worker[w] = "entering" /\ place = "taken"
  <2>1. Ready' = Ready
    BY <1>1, <1>5 DEF Ready
  <2>2. idle' = idle
    BY <1>5 DEF counted, TypeOK
  <2> QED BY <2>1, <2>2
<1>6. CASE worker[w] = "awake" /\ place = "taken"
  <2>1. w \in Ready /\ w \notin Ready'
    BY <1>1, <1>6 DEF Ready
  <2>2. idle' = idle - 1
    BY <1>6 DEF counted
  <2> QED BY <1>1, <1>2, <2>1, <2>2, ReadyGoes
<1> QED BY <1>3, <1>4, <1>5, <1>6 DEF inConsume

LEMMA WorkerIdle ==
    ASSUME TypeOK, ThreadsInv, IdleCounted, NEW w \in Workers, WorkerStep(w)
    PROVE  IdleCounted'
<1> USE FiniteReady, IdleIs, IdleIsNext
<1>1. CASE Start(w) \/ StartFail(w)
  <2>1. idle' = idle /\ starting' = starting
    BY <1>1 DEF Start, StartFail, starting
  <2>2. \A v \in Workers : worker'[v] = worker[v] \/
           {worker[v], worker'[v]} \subseteq {"starting", "asleep", "awake", "failed"}
    BY <1>1 DEF Start, StartFail, TypeOK
  <2> QED BY <2>1, <2>2, ReadySame
<1>2. CASE ConsumeWait(w)
  BY <1>2, ConsumeCounts DEF ConsumeWait, starting
<1>3. CASE Consume(w)
  <2>1. starting' = starting
    BY <1>3 DEF Consume, SignalEmpty, starting
  <2> QED BY <1>3, <2>1, ConsumeCounts DEF Consume
<1>4. CASE ConsumeNothing(w)
  <2>1. starting' = starting
    BY <1>4 DEF ConsumeNothing, SignalEmpty, starting
  <2> QED BY <1>4, <2>1, ConsumeCounts DEF ConsumeNothing
<1>5. CASE ConsumeReturn(w) \/ Served(w)
  <2>1. idle' = idle /\ starting' = starting
    BY <1>5 DEF ConsumeReturn, Served, starting
  <2>2. Ready' = Ready
    BY <1>5 DEF ConsumeReturn, Served, TypeOK, Ready
  <2> QED BY <2>1, <2>2
<1> QED BY <1>1, <1>2, <1>3, <1>4, <1>5 DEF WorkerStep

LEMMA IdleStep ==
    ASSUME TypeOK, ThreadsInv, IdleCounted, [Next]_vars
    PROVE  IdleCounted'
<1>1. CASE Stop \/ StopReturn \/ SpuriousWakeup \/ UNCHANGED vars
  <2>1. idle' = idle /\ starting' = starting
    BY <1>1 DEF Stop, StopReturn, SpuriousWakeup, vars, starting
  <2>2. \A v \in Workers : worker'[v] = worker[v] \/
           {worker[v], worker'[v]} \subseteq {"starting", "asleep", "awake", "failed"}
    BY <1>1 DEF Stop, StopReturn, SpuriousWakeup, vars, TypeOK
  <2> QED BY <2>1, <2>2, ReadySame, IdleIs, IdleIsNext
<1> QED BY <1>1, MasterIdle, WorkerIdle DEF Next

(* Counted as idle, a worker has been or is being started: there are never *)
(* more than MaxWorkers.                                                   *)
LEMMA IdleBound ==
    ASSUME ThreadsInv', IdleCounted', spawned' \in 0 .. MaxWorkers
    PROVE  idle' \in 0 .. MaxWorkers
<1>1. Ready' \subseteq 1 .. spawned'
  BY DEF ThreadsInv, Ready, Workers
<1>2. IsFiniteSet(1 .. spawned') /\ Cardinality(1 .. spawned') = spawned'
  <2>1. spawned' \in Nat
    BY SizeAssumption
  <2> QED BY <2>1, FS_Interval
<1>3. Cardinality(Ready') <= spawned'
  BY ONLY <1>1, <1>2, FS_Subset
<1>4. PICK m, c, k, x : /\ m = starting' /\ c = Cardinality(Ready')
                        /\ k = spawned' /\ x = idle'
  OBVIOUS
<1>5. m = (IF master' = "starting" THEN 1 ELSE 0) /\ (master' = "starting" => k < MaxWorkers)
  BY <1>4 DEF starting, ThreadsInv
<1>6. /\ x = c + m /\ c \in Nat /\ c <= k /\ k \in 0 .. MaxWorkers
  BY ONLY <1>3, <1>4, FiniteReady, IdleIsNext, IdleCounted', spawned' \in 0 .. MaxWorkers
<1>7. x \in 0 .. MaxWorkers
  BY ONLY <1>5, <1>6, SizeAssumption
<1> QED BY ONLY <1>4, <1>7

-----------------------------------------------------------------------------
(* The values every variable keeps. *)
LEMMA MasterTypes ==
    ASSUME QueueInv, Master, ThreadsInv', IdleCounted'
    PROVE  TypeOK'
<1> USE SizeAssumption, NoSocketAssumption
<1> DEFINE others == /\ stop_flag' \in 0 .. 2
                     /\ so' \in Sockets \cup {NoSocket}
                     /\ client' \in [Workers -> Sockets \cup {NoSocket}]
                     /\ stopper' \in {"running", "notify", "waiting", "stopped"}
                     /\ sock' \in [Sockets -> {"new", "open", "closed"}]
           buffer == /\ squeue' \in [Slots -> Sockets \cup {NoSocket}]
                     /\ sq_tail' \in 0 .. SqSize
                     /\ sq_head' \in sq_tail' .. sq_tail' + SqSize
           threads == /\ master' \in MasterPlaces
                      /\ worker' \in [Workers -> WorkerPlaces]
                      /\ spawned' \in 0 .. MaxWorkers
<1>0. TypeOK /\ ThreadsInv
  BY DEF QueueInv
<1>1. others
  BY <1>0 DEF Master, Poll, AcceptNothing, Accept, ProduceWait, ProducePush, ProduceGiveUp,
              Spawn, SpawnThread, SpawnFail, CloseListeners, Broadcast, Join, TypeOK
<1>2. buffer
  <2>1. CASE ProducePush
    <3>1. squeue' = [squeue EXCEPT ![sq_head % SqSize] = so]
      BY <2>1 DEF ProducePush, Push
    <3>2. so \in Sockets
      BY <1>0, <2>1 DEF ProducePush, ThreadsInv, TypeOK
    <3>3. squeue \in [Slots -> Sockets \cup {NoSocket}]
      BY <1>0 DEF TypeOK
    <3>4. squeue' \in [Slots -> Sockets \cup {NoSocket}]
      BY ONLY <3>1, <3>2, <3>3
    <3>5. /\ sq_head' = sq_head + 1 /\ sq_tail' = sq_tail /\ sq_head - sq_tail < SqSize
          /\ sq_tail \in 0 .. SqSize /\ sq_head \in sq_tail .. sq_tail + SqSize
      BY <1>0, <2>1 DEF ProducePush, Push, filled, TypeOK
    <3>6. sq_tail' \in 0 .. SqSize /\ sq_head' \in sq_tail' .. sq_tail' + SqSize
      BY ONLY <3>5, SizeAssumption
    <3> QED BY <3>4, <3>6
  <2>2. CASE UNCHANGED queueVars
    BY <1>0, <2>2 DEF TypeOK, queueVars
  <2> QED BY <2>1, <2>2
          DEF Master, Poll, AcceptNothing, Accept, ProduceWait, ProduceGiveUp, queueVars,
              Spawn, SpawnThread, SpawnFail, CloseListeners, Broadcast, Join
<1>3. threads
  <2>1. CASE ProducePush \/ ProduceGiveUp
    BY <1>0, <2>1, SignalWakes DEF ProducePush, ProduceGiveUp, TypeOK, MasterPlaces
  <2>2. CASE SpawnThread
    <3>1. spawned + 1 \in 0 .. MaxWorkers
      BY <1>0, <2>2 DEF SpawnThread, TypeOK, ThreadsInv
    <3> QED BY <1>0, <2>2, <3>1 DEF SpawnThread, TypeOK, MasterPlaces, WorkerPlaces
  <2>3. CASE Broadcast
    BY <1>0, <2>3 DEF Broadcast, TypeOK, MasterPlaces, WorkerPlaces
  <2>4. CASE Poll \/ AcceptNothing \/ ProduceWait \/ Spawn
    BY <1>0, <2>4 DEF Poll, AcceptNothing, ProduceWait, Spawn, TypeOK, MasterPlaces
  <2>5. CASE SpawnFail \/ CloseListeners \/ Join
    BY <1>0, <2>5 DEF SpawnFail, CloseListeners, Join, TypeOK, MasterPlaces
  <2>6. ASSUME NEW s \in Sockets, Accept(s) PROVE threads
    BY <1>0, <2>6 DEF Accept, TypeOK, MasterPlaces
  <2> QED BY <2>1, <2>2, <2>3, <2>4, <2>5, <2>6 DEF Master
<1>4. idle' \in 0 .. MaxWorkers
  BY <1>3, IdleBound
<1> HIDE DEF others, buffer, threads
<1>5. others /\ buffer /\ threads /\ idle' \in 0 .. MaxWorkers
  BY <1>1, <1>2, <1>3, <1>4
<1> QED BY ONLY <1>5 DEF TypeOK, others, buffer, threads

LEMMA WorkerTypes ==
    ASSUME QueueInv, NEW w \in Workers, WorkerStep(w), ThreadsInv', IdleCounted'
    PROVE  TypeOK'
<1> USE SizeAssumption, NoSocketAssumption
<1> DEFINE buffer == /\ squeue' \in [Slots -> Sockets \cup {NoSocket}]
                     /\ sq_tail' \in 0 .. SqSize
                     /\ sq_head' \in sq_tail' .. sq_tail' + SqSize
                     /\ client' \in [Workers -> Sockets \cup {NoSocket}]
           others == /\ stop_flag' \in 0 .. 2
                     /\ so' \in Sockets \cup {NoSocket}
                     /\ stopper' \in {"running", "notify", "waiting", "stopped"}
                     /\ sock' \in [Sockets -> {"new", "open", "closed"}]
           threads == /\ master' \in MasterPlaces
                      /\ worker' \in [Workers -> WorkerPlaces]
                      /\ spawned' \in 0 .. MaxWorkers
<1>0. TypeOK
  BY DEF QueueInv
<1>1. others
  BY <1>0 DEF WorkerStep, Start, StartFail, ConsumeWait, Consume, ConsumeNothing,
              ConsumeReturn, Served, TypeOK
<1>2. threads
  BY <1>0 DEF WorkerStep, Start, StartFail, ConsumeWait, Consume, ConsumeNothing,
              ConsumeReturn, Served, SignalEmpty, TypeOK, MasterPlaces, WorkerPlaces
<1>3. buffer
  <2>1. CASE Consume(w)
    <3>1. PICK back : /\ back = IF sq_tail + 1 > SqSize THEN SqSize ELSE 0
                      /\ client' = [client EXCEPT ![w] = squeue[sq_tail % SqSize]]
                      /\ sq_tail' = sq_tail + 1 - back
                      /\ sq_head' = sq_head - back
                      /\ squeue' = squeue
      BY <2>1 DEF Consume, Pop
    <3>2. /\ sq_tail \in 0 .. SqSize /\ sq_head \in sq_tail .. sq_tail + SqSize
          /\ sq_head > sq_tail
          /\ squeue \in [Slots -> Sockets \cup {NoSocket}]
          /\ client \in [Workers -> Sockets \cup {NoSocket}]
      BY <1>0, <2>1 DEF TypeOK, Consume
    <3>3. sq_tail' \in 0 .. SqSize /\ sq_head' \in sq_tail' .. sq_tail' + SqSize
      BY ONLY <3>1, <3>2, SizeAssumption
    <3>4. sq_tail % SqSize \in Slots
      <4>1. 1 \in 1 .. SqSize /\ sq_tail + 1 - 1 = sq_tail
        BY ONLY <3>2, SizeAssumption
      <4> QED BY ONLY <3>2, <4>1, Slot
    <3>5. squeue[sq_tail % SqSize] \in Sockets \cup {NoSocket}
      BY ONLY <3>2, <3>4
    <3>6. client' \in [Workers -> Sockets \cup {NoSocket}]
      BY ONLY <3>1, <3>2, <3>5
    <3> QED BY <3>1, <3>2, <3>3, <3>6
  <2>2. CASE UNCHANGED queueVars /\ UNCHANGED client
    BY <1>0, <2>2 DEF TypeOK, queueVars
  <2>3. CASE ConsumeReturn(w) \/ Served(w)
    BY <1>0, <2>3 DEF ConsumeReturn, Served, TypeOK, queueVars
  <2> QED BY <2>1, <2>2, <2>3 DEF WorkerStep, Start, StartFail, ConsumeWait, ConsumeNothing
<1>4. idle' \in 0 .. MaxWorkers
  BY <1>2, IdleBound
<1> HIDE DEF others, buffer, threads
<1>5. others /\ buffer /\ threads /\ idle' \in 0 .. MaxWorkers
  BY <1>1, <1>2, <1>3, <1>4
<1> QED BY ONLY <1>5 DEF TypeOK, others, buffer, threads

LEMMA TypesStep ==
    ASSUME QueueInv, [Next]_vars
    PROVE  TypeOK' /\ ThreadsInv' /\ IdleCounted'
<1>1. ThreadsInv' /\ IdleCounted'
  BY ThreadsStep, IdleStep DEF QueueInv
<1>2. ASSUME Stop \/ StopReturn \/ SpuriousWakeup \/ UNCHANGED vars PROVE TypeOK'
  <2> USE DEF QueueInv, TypeOK, queueVars
  <2>1. CASE Stop
    BY <2>1 DEF Stop
  <2>2. CASE StopReturn
    BY <2>2 DEF StopReturn
  <2>3. CASE SpuriousWakeup
    BY <2>3 DEF SpuriousWakeup, MasterPlaces, WorkerPlaces
  <2>4. CASE UNCHANGED vars
    BY <2>4 DEF vars
  <2> QED BY <1>2, <2>1, <2>2, <2>3, <2>4
<1>3. ASSUME Master PROVE TypeOK'
  BY <1>1, <1>3, MasterTypes
<1>4. ASSUME NEW w \in Workers, WorkerStep(w) PROVE TypeOK'
  BY <1>1, <1>4, WorkerTypes
<1> QED BY <1>1, <1>2, <1>3, <1>4 DEF Next

-----------------------------------------------------------------------------
(* Where the connections are.  A step that adds none to the buffer leaves  *)
(* everything in its place, or drops what a thread has in hand once the    *)
(* server is being stopped.                                                *)
LEMMA PlacedKept ==
    ASSUME TypeOK, PlacedInv, UNCHANGED queueVars, sock' = sock,
           so' \in {so, NoSocket},
           \A w \in Workers : client'[w] \in {client[w], NoSocket},
           stop_flag' = 0 => stop_flag = 0 /\ so' = so /\ client' = client
    PROVE  PlacedInv'
<1>1. filled' = filled /\ queue' = queue
  BY DEF queueVars, filled, queue
<1>2. \A s \in Sockets : /\ InSlot(s)' <=> InSlot(s)
                         /\ InHand(s)' => InHand(s)
                         /\ AtWorker(s)' => AtWorker(s)
                         /\ stop_flag' = 0 => (InHand(s)' <=> InHand(s))
                                              /\ (AtWorker(s)' <=> AtWorker(s))
  BY <1>1, NoSocketAssumption DEF InSlot, InHand, AtWorker
<1>3. \A w, v \in Workers : client'[w] = client'[v] /\ client'[w] # NoSocket => w = v
  BY DEF PlacedInv
<1>4. /\ \A i \in 1 .. filled' : queue'[i] \in Sockets
      /\ \A i, j \in 1 .. filled' : queue'[i] = queue'[j] => i = j
  BY <1>1 DEF PlacedInv
<1> QED BY <1>2, <1>3, <1>4 DEF PlacedInv

(* accept_new_connection: the connection was nowhere. *)
LEMMA PlacedAccept ==
    ASSUME TypeOK, ThreadsInv, PlacedInv, NEW s \in Sockets, Accept(s)
    PROVE  PlacedInv'
<1>1. filled' = filled /\ queue' = queue /\ client' = client /\ stop_flag' = stop_flag
  BY DEF Accept, queueVars, filled, queue
<1>2. so = NoSocket /\ sock[s] = "new"
  BY DEF Accept, ThreadsInv
<1>3. ~InSlot(s) /\ ~InHand(s) /\ ~AtWorker(s)
  BY <1>2 DEF PlacedInv
<1>4. \A x \in Sockets : /\ InSlot(x)' <=> InSlot(x)
                         /\ AtWorker(x)' <=> AtWorker(x)
                         /\ ~InHand(x)
                         /\ x # s => ~InHand(x)' /\ sock'[x] = sock[x]
  BY <1>1, <1>2, NoSocketAssumption DEF InSlot, InHand, AtWorker, Accept, TypeOK
<1>5. InHand(s)' <=> sock'[s] = "open"
  BY <1>2, NoSocketAssumption DEF InHand, Accept, TypeOK
<1>6. \A w, v \in Workers : client'[w] = client'[v] /\ client'[w] # NoSocket => w = v
  BY <1>1 DEF PlacedInv
<1>7. /\ \A i \in 1 .. filled' : queue'[i] \in Sockets
      /\ \A i, j \in 1 .. filled' : queue'[i] = queue'[j] => i = j
  BY <1>1 DEF PlacedInv
<1> QED BY <1>1, <1>3, <1>4, <1>5, <1>6, <1>7 DEF PlacedInv

(* produce_socket: from the master's hand into the last slot. *)
LEMMA PlacedPush ==
    ASSUME TypeOK, TypeOK', ThreadsInv, PlacedInv, ProducePush
    PROVE  PlacedInv'
<1>1. /\ so \in Sockets /\ so' = NoSocket /\ Push(so) /\ filled < SqSize
      /\ client' = client /\ stop_flag' = stop_flag /\ sock' = sock
  BY DEF ProducePush, ThreadsInv, TypeOK
<1>2. /\ filled' = filled + 1
      /\ \A i \in 1 .. filled : queue'[i] = queue[i]
      /\ queue'[filled + 1] = so
  BY <1>1, PushAppends
<1>3. filled \in Nat
  BY QueueSlots
<1>4. ~InSlot(so) /\ ~AtWorker(so)
  BY <1>1 DEF PlacedInv, InHand
<1>5. \A i \in 1 .. filled' : i \in 1 .. filled \/ i = filled + 1
  BY ONLY <1>2, <1>3
<1>6. \A i \in 1 .. filled : i \in 1 .. filled'
  BY ONLY <1>2, <1>3
<1>7. filled + 1 \in 1 .. filled'
  BY ONLY <1>2, <1>3
<1>8. \A i \in 1 .. filled' : queue'[i] \in Sockets
  BY <1>1, <1>2, <1>5 DEF PlacedInv
<1>9. \A i, j \in 1 .. filled' : queue'[i] = queue'[j] => i = j
  BY <1>2, <1>4, <1>5 DEF PlacedInv, InSlot
<1>10. \A s \in Sockets : /\ InSlot(s)' <=> InSlot(s) \/ InHand(s)
                          /\ AtWorker(s)' <=> AtWorker(s)
                          /\ ~InHand(s)'
  <2> TAKE s \in Sockets
  <2>1. InSlot(s)' <=> InSlot(s) \/ InHand(s)
    BY <1>2, <1>5, <1>6, <1>7 DEF InSlot, InHand
  <2> QED BY <1>1, <2>1, NoSocketAssumption DEF AtWorker, InHand
<1>11. \A w, v \in Workers : client'[w] = client'[v] /\ client'[w] # NoSocket => w = v
  BY <1>1 DEF PlacedInv
<1> QED BY <1>1, <1>8, <1>9, <1>10, <1>11 DEF PlacedInv

(* consume_socket: from the first slot to the worker. *)
LEMMA PlacedPop ==
    ASSUME TypeOK, TypeOK', ThreadsInv, PlacedInv, NEW w \in Workers, Consume(w)
    PROVE  PlacedInv'
<1>1. /\ Pop(w) /\ sq_head > sq_tail /\ client[w] = NoSocket
      /\ so' = so /\ stop_flag' = stop_flag /\ sock' = sock
  BY DEF Consume, ThreadsInv, inConsume
<1>2. /\ filled \in 1 .. SqSize /\ filled' = filled - 1
      /\ \A i \in 1 .. filled - 1 : queue'[i] = queue[i + 1]
      /\ client' = [client EXCEPT ![w] = queue[1]]
  BY <1>1, PopTakesFirst
<1>3. filled \in Nat \ {0}
  BY <1>2, SizeAssumption
<1>4. /\ \A i \in 1 .. filled' : i \in 1 .. filled - 1 /\ i + 1 \in 1 .. filled /\ i + 1 # 1
      /\ 1 \in 1 .. filled
      /\ \A i \in 1 .. filled : i = 1 \/ (i - 1 \in 1 .. filled' /\ (i - 1) + 1 = i)
      /\ \A i, j \in 1 .. filled' : i + 1 = j + 1 => i = j
  BY ONLY <1>2, <1>3
<1>5. queue[1] \in Sockets /\ InSlot(queue[1]) /\ ~AtWorker(queue[1]) /\ ~InHand(queue[1])
  BY <1>4 DEF PlacedInv, InSlot
<1>6. \A i \in 1 .. filled' : queue'[i] = queue[i + 1]
  BY <1>2, <1>4
<1>7. \A i \in 1 .. filled' : queue'[i] \in Sockets /\ queue'[i] # queue[1]
  BY <1>4, <1>6 DEF PlacedInv
<1>8. \A i, j \in 1 .. filled' : queue'[i] = queue'[j] => i = j
  BY <1>4, <1>6 DEF PlacedInv
<1>9. \A s \in Sockets : InSlot(s)' <=> InSlot(s) /\ s # queue[1]
  <2> TAKE s \in Sockets
  <2>1. ASSUME InSlot(s)' PROVE InSlot(s) /\ s # queue[1]
    BY <1>4, <1>6, <1>7, <2>1 DEF InSlot
  <2>2. ASSUME InSlot(s), s # queue[1] PROVE InSlot(s)'
    <3>1. PICK i \in 1 .. filled : queue[i] = s
      BY <2>2 DEF InSlot
    <3>2. i - 1 \in 1 .. filled' /\ (i - 1) + 1 = i
      BY <1>4, <2>2, <3>1
    <3>3. PICK j \in 1 .. filled' : j + 1 = i
      BY <3>2
    <3> QED BY <1>6, <3>1, <3>3 DEF InSlot
  <2> QED BY <2>1, <2>2
<1>10. /\ client'[w] = queue[1]
       /\ \A v \in Workers \ {w} : client'[v] = client[v]
  BY <1>2 DEF TypeOK
<1>11. \A s \in Sockets : /\ AtWorker(s)' <=> AtWorker(s) \/ s = queue[1]
                          /\ InHand(s)' <=> InHand(s)
  BY <1>1, <1>10, NoSocketAssumption DEF AtWorker, InHand
<1>12. \A u, v \in Workers : client'[u] = client'[v] /\ client'[u] # NoSocket => u = v
  BY <1>5, <1>10 DEF PlacedInv, AtWorker
<1> QED BY <1>1, <1>5, <1>7, <1>8, <1>9, <1>11, <1>12 DEF PlacedInv

(* process_new_connection has closed the worker's connection. *)
LEMMA PlacedServed ==
    ASSUME TypeOK, PlacedInv, NEW w \in Workers, Served(w)
    PROVE  PlacedInv'
<1>1. filled' = filled /\ queue' = queue /\ so' = so /\ stop_flag' = stop_flag
  BY DEF Served, queueVars, filled, queue
<1>2. /\ client'[w] = NoSocket
      /\ \A v \in Workers \ {w} : client'[v] = client[v]
      /\ \A s \in Sockets \ {client[w]} : sock'[s] = sock[s]
  BY DEF Served, TypeOK
<1>3. \A s \in Sockets : /\ InSlot(s)' <=> InSlot(s)
                         /\ InHand(s)' <=> InHand(s)
                         /\ AtWorker(s)' <=> AtWorker(s) /\ s # client[w]
                         /\ s = client[w] => AtWorker(s) /\ sock'[s] # "open"
  BY <1>1, <1>2, NoSocketAssumption DEF PlacedInv, InSlot, InHand, AtWorker, Served, TypeOK
<1>4. \A u, v \in Workers : client'[u] = client'[v] /\ client'[u] # NoSocket => u = v
  BY <1>2 DEF PlacedInv
<1>5. /\ \A i \in 1 .. filled' : queue'[i] \in Sockets
      /\ \A i, j \in 1 .. filled' : queue'[i] = queue'[j] => i = j
  BY <1>1 DEF PlacedInv
<1> QED BY <1>1, <1>2, <1>3, <1>4, <1>5 DEF PlacedInv

LEMMA PlacedStep ==
    ASSUME QueueInv, [Next]_vars
    PROVE  PlacedInv'
<1> USE TypesStep DEF QueueInv
<1>1. CASE /\ UNCHANGED <<queueVars, so, client, sock>>
           /\ stop_flag' = 0 => stop_flag = 0
  BY <1>1, PlacedKept DEF queueVars
<1>2. CASE Master
  <2>1. CASE ProduceGiveUp
    BY <2>1, PlacedKept DEF ProduceGiveUp, TypeOK
  <2>2. CASE Spawn \/ SpawnThread \/ SpawnFail \/ CloseListeners \/ Broadcast \/ Join
    BY <1>1, <2>2 DEF Spawn, SpawnThread, SpawnFail, CloseListeners, Broadcast, Join
  <2>3. CASE Poll \/ AcceptNothing \/ ProduceWait
    BY <1>1, <2>3 DEF Poll, AcceptNothing, ProduceWait
  <2> QED BY <1>2, <2>1, <2>2, <2>3, PlacedAccept, PlacedPush DEF Master
<1>3. ASSUME NEW w \in Workers, WorkerStep(w) PROVE PlacedInv'
  <2>1. CASE Start(w) \/ StartFail(w) \/ ConsumeWait(w) \/ ConsumeNothing(w)
    BY <1>1, <2>1 DEF Start, StartFail, ConsumeWait, ConsumeNothing
  <2>2. CASE ConsumeReturn(w)
    BY <2>2, PlacedKept DEF ConsumeReturn, TypeOK
  <2> QED BY <1>3, <2>1, <2>2, PlacedPop, PlacedServed DEF WorkerStep
<1>4. CASE Stop \/ StopReturn \/ SpuriousWakeup \/ UNCHANGED vars
  BY <1>1, <1>4 DEF Stop, StopReturn, SpuriousWakeup, vars
<1> QED BY <1>2, <1>3, <1>4 DEF Next

LEMMA QueueInit == Init => QueueInv
<1> SUFFICES ASSUME Init PROVE QueueInv
  OBVIOUS
<1> USE SizeAssumption, NoSocketAssumption DEF Init
<1>1. TypeOK
  BY DEF TypeOK, MasterPlaces, WorkerPlaces, Workers
<1>2. Ready = {} /\ starting = 0
  BY DEF Ready, starting
<1>3. IdleCounted
  BY <1>2, IdleIs, FS_EmptySet
<1>4. filled = 0
  BY DEF filled
<1>5. PlacedInv
  BY <1>4 DEF PlacedInv, InSlot, InHand, AtWorker
<1> QED BY <1>1, <1>3, <1>5, ThreadsInit DEF QueueInv

LEMMA QueueStep == QueueInv /\ [Next]_vars => QueueInv'
BY TypesStep, PlacedStep DEF QueueInv

LEMMA QueueAlways == Spec => []QueueInv
BY QueueInit, QueueStep, PTL DEF Spec

-----------------------------------------------------------------------------
(* A set whose elements are all equal has at most one. *)
LEMMA AtMostOne ==
    ASSUME NEW S, \A x, y \in S : x = y
    PROVE  Cardinality(S) = IF S = {} THEN 0 ELSE 1
<1>1. CASE S = {}
  BY <1>1, FS_EmptySet
<1>2. CASE S # {}
  <2>1. PICK x : S = {x}
    BY <1>2
  <2> QED BY ONLY <1>2, <2>1, FS_Singleton
<1> QED BY <1>1, <1>2

LEMMA OwnedOnce == QueueInv => ConnectionsOwned
<1> SUFFICES ASSUME QueueInv PROVE ConnectionsOwned
  OBVIOUS
<1> USE DEF QueueInv
<1>1. ASSUME NEW s \in Sockets
      PROVE  places(s) = IF InHand(s) \/ InSlot(s) \/ AtWorker(s) THEN 1 ELSE 0
  <2> DEFINE slots == {i \in 1 .. filled : queue[i] = s}
             workers == {w \in Workers : client[w] = s}
  <2>1. Cardinality(slots) = IF InSlot(s) THEN 1 ELSE 0
    <3>1. \A i, j \in slots : i = j
      BY DEF PlacedInv
    <3>2. slots = {} <=> ~InSlot(s)
      BY DEF InSlot
    <3> HIDE DEF slots
    <3> QED BY <3>1, <3>2, AtMostOne
  <2>2. Cardinality(workers) = IF AtWorker(s) THEN 1 ELSE 0
    <3>1. \A w, v \in workers : w = v
      BY NoSocketAssumption DEF PlacedInv
    <3>2. workers = {} <=> ~AtWorker(s)
      BY DEF AtWorker
    <3> HIDE DEF workers
    <3> QED BY <3>1, <3>2, AtMostOne
  <2>3. places(s) = Cardinality(slots) + Cardinality(workers) + (IF InHand(s) THEN 1 ELSE 0)
    BY DEF places, InHand
  <2>4. /\ InSlot(s) => ~AtWorker(s)
        /\ InHand(s) => ~InSlot(s) /\ ~AtWorker(s)
    BY DEF PlacedInv
  <2> HIDE DEF slots, workers
  <2> QED BY ONLY <2>1, <2>2, <2>3, <2>4
<1>2. OneOwner
  BY <1>1 DEF OneOwner, PlacedInv
<1>3. StopQuiesces
  <2> SUFFICES ASSUME stopper = "stopped"
               PROVE  /\ master = "done"
                      /\ \A w \in Workers : worker[w] \in {"none", "exited", "failed"}
    BY DEF StopQuiesces
  <2>1. master = "done" /\ 1 .. spawned \subseteq finished
    BY DEF ThreadsInv
  <2>2. \A w \in Workers : w > spawned \/ w \in 1 .. spawned
    BY SizeAssumption DEF Workers, TypeOK
  <2> QED BY <2>1, <2>2 DEF ThreadsInv, finished
<1> QED BY <1>2, <1>3 DEF ConnectionsOwned

(* Whatever the sizes, the threads, the indices of the ring buffer and the *)
(* counters keep the values the code's types and bounds give them.         *)
THEOREM ServingTypes == Spec => []TypeOK
BY QueueAlways, PTL DEF QueueInv

(* A connection is in one slot or in the hands of one thread, and not once *)
(* it is closed; idle_worker_thread_count counts the idle workers; when    *)
(* mg_stop returns no thread is left (produce_socket, consume_socket,      *)
(* mg_start_worker_thread, master_thread).                                 *)
THEOREM ServingOwned == Spec => []ConnectionsOwned
BY QueueAlways, OwnedOnce, PTL

-----------------------------------------------------------------------------
(* The ring buffer is a queue. *)
LEMMA QueueIsSeq ==
    ASSUME QueueInv
    PROVE  queue \in Seq(Sockets) /\ Len(queue) = filled
<1>1. filled \in Nat /\ \A i \in 1 .. filled : queue[i] \in Sockets
  BY QueueSlots DEF QueueInv, PlacedInv
<1>2. queue = [i \in 1 .. filled |-> queue[i]]
  BY DEF queue
<1> QED BY ONLY <1>1, <1>2

LEMMA QueueIsSeqNext ==
    ASSUME QueueInv'
    PROVE  queue' \in Seq(Sockets) /\ Len(queue') = filled'
<1>1. filled' \in 0 .. SqSize /\ \A i \in 1 .. filled' : queue'[i] \in Sockets
  BY QueueSlotsNext DEF QueueInv, PlacedInv
<1>2. queue' = [i \in 1 .. filled' |-> queue'[i]]
  BY DEF queue
<1>3. PICK n, q : n = filled' /\ q = queue'
  OBVIOUS
<1>4. n \in Nat /\ q = [i \in 1 .. n |-> q[i]] /\ \A i \in 1 .. n : q[i] \in Sockets
  BY <1>1, <1>2, <1>3, SizeAssumption
<1>5. q \in Seq(Sockets) /\ Len(q) = n
  BY ONLY <1>4
<1> QED BY ONLY <1>3, <1>5

LEMMA PushIsPut ==
    ASSUME QueueInv, QueueInv', ProducePush
    PROVE  Abstract!Put(so)
<1> PICK n, m, q, r : n = filled /\ m = filled' /\ q = queue /\ r = queue'
  OBVIOUS
<1>1. /\ so \in Sockets /\ Push(so) /\ filled < SqSize /\ client' = client
  BY DEF QueueInv, ProducePush, ThreadsInv, TypeOK
<1>2. m = n + 1 /\ (\A i \in 1 .. n : r[i] = q[i]) /\ r[n + 1] = so
  BY <1>1, PushAppends DEF QueueInv
<1>3. q \in Seq(Sockets) /\ Len(q) = n /\ r \in Seq(Sockets) /\ Len(r) = m
  BY QueueIsSeq, QueueIsSeqNext
<1>4. r = Append(q, so)
  BY ONLY <1>1, <1>2, <1>3
<1> QED BY <1>1, <1>3, <1>4 DEF Abstract!Put

LEMMA PopIsTake ==
    ASSUME QueueInv, QueueInv', NEW w \in Workers, Consume(w)
    PROVE  Abstract!Take(w)
<1> PICK n, m, q, r : n = filled /\ m = filled' /\ q = queue /\ r = queue'
  OBVIOUS
<1>1. Pop(w) /\ sq_head > sq_tail /\ client[w] = NoSocket
  BY DEF QueueInv, Consume, ThreadsInv, inConsume
<1>2. /\ n \in 1 .. SqSize /\ m = n - 1
      /\ \A i \in 1 .. n - 1 : r[i] = q[i + 1]
      /\ client' = [client EXCEPT ![w] = q[1]]
  BY <1>1, PopTakesFirst DEF QueueInv
<1>3. q \in Seq(Sockets) /\ Len(q) = n /\ r \in Seq(Sockets) /\ Len(r) = m
  BY QueueIsSeq, QueueIsSeqNext
<1>4. q # <<>> /\ Head(q) = q[1]
  BY ONLY <1>2, <1>3, SizeAssumption
<1>5. r = Tail(q)
  BY ONLY <1>2, <1>3, <1>4
<1> QED BY <1>1, <1>2, <1>4, <1>5 DEF Abstract!Take

LEMMA QueueImplements ==
    ASSUME QueueInv, QueueInv', [Next]_vars
    PROVE  [Abstract!Next]_<<queue, client>>
<1>1. CASE UNCHANGED <<queueVars, client>>
  BY <1>1 DEF queueVars, queue, filled
<1>2. CASE Master
  <2>1. CASE ProducePush
    <3>1. so \in Sockets
      BY <2>1 DEF QueueInv, ProducePush, ThreadsInv, TypeOK
    <3> QED BY <2>1, <3>1, PushIsPut DEF Abstract!Next
  <2> QED BY <1>1, <1>2, <2>1
          DEF Master, Poll, AcceptNothing, Accept, ProduceWait, ProduceGiveUp, Spawn,
              SpawnThread, SpawnFail, CloseListeners, Broadcast, Join
<1>3. ASSUME NEW w \in Workers, WorkerStep(w)
      PROVE  [Abstract!Next]_<<queue, client>>
  <2>1. CASE Consume(w)
    BY <2>1, PopIsTake DEF Abstract!Next
  <2>2. CASE ConsumeReturn(w) \/ Served(w)
    <3>1. queue' = queue
      BY <2>2 DEF ConsumeReturn, Served, queueVars, queue, filled
    <3>2. client' = client \/ Abstract!Finish(w)
      BY <2>2, <3>1 DEF ConsumeReturn, Served, Abstract!Finish
    <3> QED BY <3>1, <3>2 DEF Abstract!Next
  <2> QED BY <1>1, <1>3, <2>1, <2>2
          DEF WorkerStep, Start, StartFail, ConsumeWait, ConsumeNothing
<1>4. CASE Stop \/ StopReturn \/ SpuriousWakeup \/ UNCHANGED vars
  BY <1>1, <1>4 DEF Stop, StopReturn, SpuriousWakeup, vars
<1> QED BY <1>2, <1>3, <1>4 DEF Next

LEMMA QueueInitImplements == Init => Abstract!Init
<1> SUFFICES ASSUME Init PROVE queue = <<>> /\ client = [t \in Workers |-> NoSocket]
  BY DEF Abstract!Init
<1>1. filled = 0
  BY DEF Init, filled
<1>2. queue = <<>>
  BY <1>1 DEF queue
<1> QED BY <1>2 DEF Init

(* The ring buffer, with the indices that consume_socket takes back by one *)
(* round, is the bounded queue it promises to be: first in, first out,     *)
(* each connection to one worker (produce_socket, consume_socket).         *)
THEOREM ServingQueue == Spec => QueueRefinement
<1>1. QueueInv /\ QueueInv' /\ [Next]_vars => [Abstract!Next]_<<queue, client>>
  BY QueueImplements
<1> QED BY <1>1, QueueInitImplements, QueueAlways, PTL
        DEF Spec, QueueRefinement, Abstract!Specification

-----------------------------------------------------------------------------
(* Every set of natural numbers has a least one, which is what Min and the *)
(* operators that look for the first of several things choose.             *)
LEMMA LeastNat ==
    ASSUME NEW S \in SUBSET Nat, S # {}
    PROVE  \E m \in S : \A n \in S : m <= n
<1> DEFINE R == OpToRel(<, Nat)
<1>1. IsWellFoundedOn(R, Nat)
  BY NatLessThanWellFounded, Zenon
<1>2. PICK m \in S : \A n \in S : <<n, m>> \notin R
  <2> HIDE DEF R
  <2> QED BY <1>1, WFMin
<1>3. \A n \in S : ~ (n < m)
  BY <1>2, Zenon DEF OpToRel
<1> QED BY <1>3

-----------------------------------------------------------------------------
(* Sequences one behind another, and what remains of one. *)

(* g[i]: the first i of the sequences s, one behind the other.  Such a     *)
(* function exists (Built), and FlattenSeq is its last value (Flat): what  *)
(* induction would give comes from the least number where it fails.        *)
Grows(g, s, n) == g = [i \in 1 .. n |-> IF i = 1 THEN s[i] ELSE g[i - 1] \o s[i]]

LEMMA GrowsSo ==
    ASSUME NEW n \in Nat, NEW s, NEW g, Grows(g, s, n)
    PROVE  \A i \in 1 .. n : g[i] = IF i = 1 THEN s[1] ELSE g[i - 1] \o s[i]
<1> DEFINE E(i) == IF i = 1 THEN s[i] ELSE g[i - 1] \o s[i]
<1>1. g = [i \in 1 .. n |-> E(i)]
  BY DEF Grows
<1>2. \A i \in 1 .. n : g[i] = E(i)
  <2> HIDE DEF E
  <2> QED BY <1>1
<1> QED BY <1>2

LEMMA Built ==
    ASSUME NEW n \in Nat, NEW s
    PROVE  \A m \in 0 .. n : \E g : Grows(g, s, m)
<1> DEFINE bad == {m \in 0 .. n : ~ \E g : Grows(g, s, m)}
<1>1. SUFFICES ASSUME bad # {} PROVE FALSE
  OBVIOUS
<1>2. PICK m \in bad : \A k \in bad : m <= k
  <2>1. bad \in SUBSET Nat
    OBVIOUS
  <2> HIDE DEF bad
  <2> QED BY <1>1, <2>1, LeastNat
<1>3. m \in 0 .. n /\ ~ \E g : Grows(g, s, m)
  BY <1>2
<1>4. m # 0
  <2>1. Grows([i \in 1 .. 0 |-> 0], s, 0)
    BY DEF Grows
  <2> QED BY <1>3, <2>1
<1>5. m - 1 \in 0 .. n /\ ~ m <= m - 1
  BY <1>3, <1>4
<1>6. PICK g : Grows(g, s, m - 1)
  BY <1>2, <1>5
<1>7. \A i \in 1 .. m - 1 : g[i] = IF i = 1 THEN s[i] ELSE g[i - 1] \o s[i]
  <2>1. m - 1 \in Nat
    BY <1>5
  <2> QED BY <1>6, <2>1, GrowsSo
<1> DEFINE h == [i \in 1 .. m |-> IF i < m THEN g[i] ELSE IF m = 1 THEN s[m] ELSE g[m - 1] \o s[m]]
<1>8. \A i \in 1 .. m : h[i] = IF i = 1 THEN s[i] ELSE h[i - 1] \o s[i]
  BY <1>3, <1>4, <1>7
<1>9. Grows(h, s, m)
  BY <1>8 DEF Grows
<1> QED BY <1>3, <1>9

LEMMA Flat ==
    ASSUME NEW X, NEW s \in Seq(Seq(X)), s # <<>>
    PROVE  \E F \in [1 .. Len(s) -> Seq(X)] :
             /\ F[1] = s[1] /\ \A i \in 2 .. Len(s) : F[i] = F[i - 1] \o s[i]
             /\ Conn!FlattenSeq(s) = F[Len(s)]
<1> DEFINE F == CHOOSE g : Grows(g, s, Len(s))
<1>1. Len(s) \in Nat /\ Len(s) # 0
  OBVIOUS
<1>2. Conn!FlattenSeq(s) = F[Len(s)]
  BY <1>1 DEF Conn!FlattenSeq, Grows
<1>3. \E g : Grows(g, s, Len(s))
  <2>1. Len(s) \in 0 .. Len(s)
    BY <1>1
  <2> QED BY <1>1, <2>1, Built
<1>4. Grows(F, s, Len(s))
  BY <1>3
<1> HIDE DEF F
<1>5. \A i \in 1 .. Len(s) : F[i] = IF i = 1 THEN s[1] ELSE F[i - 1] \o s[i]
  BY <1>1, <1>4, GrowsSo
<1> DEFINE bad == {i \in 1 .. Len(s) : F[i] \notin Seq(X)}
<1>6. bad = {}
  <2>1. SUFFICES ASSUME bad # {} PROVE FALSE
    OBVIOUS
  <2>2. bad \in SUBSET Nat
    BY <1>1
  <2>3. PICK m \in bad : \A k \in bad : m <= k
    <3> HIDE DEF bad
    <3> QED BY <2>1, <2>2, LeastNat
  <2>4. m \in 1 .. Len(s) /\ F[m] \notin Seq(X) /\ s[m] \in Seq(X) /\ s[1] \in Seq(X)
    BY <2>3
  <2>5. m # 1
    BY <1>5, <2>4
  <2>6. m - 1 \in 1 .. Len(s) /\ ~ m <= m - 1
    BY <1>1, <2>4, <2>5
  <2>7. F[m - 1] \in Seq(X)
    BY <2>3, <2>6
  <2>8. F[m] = F[m - 1] \o s[m]
    BY <1>1, <1>5, <2>4, <2>5
  <2>9. F[m] \in Seq(X)
    BY <2>4, <2>7, <2>8, ConcatProperties
  <2> QED BY <2>4, <2>9
<1>7. F \in [1 .. Len(s) -> Seq(X)]
  <2>1. \A i \in 1 .. Len(s) : F[i] \in Seq(X)
    BY <1>6
  <2> QED BY <1>4, <2>1 DEF Grows
<1> HIDE DEF bad
<1>8. F[1] = s[1]
  BY <1>1, <1>5
<1>9. ASSUME NEW i \in 2 .. Len(s) PROVE F[i] = F[i - 1] \o s[i]
  <2>1. i \in 1 .. Len(s) /\ i # 1
    BY <1>1
  <2> QED BY <1>5, <2>1
<1> QED BY <1>2, <1>7, <1>8, <1>9

(* Concatenation as a predicate, which the provers do not take apart.  *)
Joined(d, a, b) == d = a \o b

LEMMA Rejoined ==
    ASSUME NEW X, NEW a \in Seq(X), NEW b \in Seq(X), NEW t \in Seq(X), NEW d, NEW S,
           Joined(d, a, b), Joined(S, d, t)
    PROVE  \E u \in Seq(X) : Joined(u, b, t) /\ Joined(S, a, u)
<1>1. b \o t \in Seq(X)
  OBVIOUS
<1>2. S = a \o (b \o t)
  BY SMTT(30) DEF Joined
<1> QED BY <1>1, <1>2 DEF Joined

LEMMA Behind ==
    ASSUME NEW X, NEW a \in Seq(X), NEW b \in Seq(X)
    PROVE  SubSeq(a \o b, Len(a) + 1, Len(a \o b)) = b
<1>1. a \o b \in Seq(X) /\ Len(a \o b) = Len(a) + Len(b) /\ Len(a) \in Nat /\ Len(b) \in Nat
  BY ConcatProperties, LenProperties
<1>2. \A i \in 1 .. Len(b) : (a \o b)[Len(a) + i] = b[i]
  BY <1>1
<1> DEFINE t == SubSeq(a \o b, Len(a) + 1, Len(a \o b))
<1>3. t \in Seq(X) /\ Len(t) = Len(b) /\ \A i \in 1 .. Len(b) : t[i] = b[i]
  BY <1>1, <1>2
<1> HIDE DEF t
<1> QED BY <1>3, SeqEqual

(* What remains of the sequences s from each of them on.  *)
LEMMA Rests ==
    ASSUME NEW X, NEW s \in Seq(Seq(X))
    PROVE  \E T \in [1 .. Len(s) + 1 -> Seq(X)] :
             /\ T[1] = Conn!FlattenSeq(s) /\ T[Len(s) + 1] = <<>>
             /\ \A r \in 1 .. Len(s) : T[r] = s[r] \o T[r + 1]
<1> DEFINE n == Len(s) S == Conn!FlattenSeq(s)
<1>1. n \in Nat /\ \A i \in 1 .. n : s[i] \in Seq(X)
  OBVIOUS
<1>2. CASE n = 0
  <2>1. s = <<>> /\ Conn!FlattenSeq(s) = <<>>
    BY <1>2 DEF Conn!FlattenSeq
  <2> DEFINE T == [r \in 1 .. 1 |-> <<>>]
  <2>2. T \in [1 .. n + 1 -> Seq(X)] /\ T[1] = <<>> /\ n + 1 = 1
    BY <1>2
  <2>3. 1 .. n = {}
    BY <1>2
  <2> HIDE DEF T
  <2> QED BY <2>1, <2>2, <2>3
<1>3. CASE n # 0
  <2>1. s # <<>> /\ 1 \in 1 .. n /\ n \in 1 .. n
    BY <1>1, <1>3
  <2>2. PICK F \in [1 .. n -> Seq(X)] :
          /\ F[1] = s[1] /\ \A i \in 2 .. n : F[i] = F[i - 1] \o s[i]
          /\ S = F[n]
    BY <2>1, Flat
  <2>3. S \in Seq(X)
    BY <2>1, <2>2
  <2> HIDE DEF S
  <2>4. \A k \in 0 .. n - 1 : \E t \in Seq(X) : Joined(S, F[n - k], t)
    <3> DEFINE bad == {k \in 0 .. n - 1 : ~ \E t \in Seq(X) : Joined(S, F[n - k], t)}
    <3>1. SUFFICES ASSUME bad # {} PROVE FALSE
      OBVIOUS
    <3>2. PICK k \in bad : \A i \in bad : k <= i
      <4>1. bad \in SUBSET Nat
        BY <1>1
      <4> HIDE DEF bad
      <4> QED BY <3>1, <4>1, LeastNat
    <3>3. k \in 0 .. n - 1 /\ ~ \E t \in Seq(X) : Joined(S, F[n - k], t)
      OBVIOUS
    <3>4. k # 0
      <4>1. <<>> \in Seq(X) /\ Joined(S, F[n], <<>>)
        BY <2>2, <2>3 DEF Joined
      <4>2. n - 0 = n
        BY <1>1
      <4> QED BY <3>3, <4>1, <4>2
    <3>5. k - 1 \in 0 .. n - 1 /\ ~ k <= k - 1
      BY <1>1, <3>3, <3>4
    <3>6. PICK t \in Seq(X) : Joined(S, F[n - (k - 1)], t)
      BY <3>2, <3>5
    <3> DEFINE i == n - (k - 1)
    <3>7. i \in 2 .. n /\ i - 1 = n - k /\ i - 1 \in 1 .. n /\ i \in 1 .. n
      BY <1>1, <3>3, <3>4
    <3>8. Joined(F[i], F[n - k], s[i])
      BY <2>2, <3>7 DEF Joined
    <3>9. F[n - k] \in Seq(X) /\ s[i] \in Seq(X)
      BY <1>1, <2>2, <3>7
    <3>10. \E u \in Seq(X) : Joined(S, F[n - k], u)
      <4> HIDE DEF i
      <4> QED BY <3>6, <3>8, <3>9, Rejoined DEF i
    <3> QED BY <3>3, <3>10
  <2>5. \A r \in 1 .. n : \E t \in Seq(X) : Joined(S, F[r], t)
    <3> SUFFICES ASSUME NEW r \in 1 .. n PROVE \E t \in Seq(X) : Joined(S, F[r], t)
      OBVIOUS
    <3>1. n - r \in 0 .. n - 1 /\ n - (n - r) = r
      BY <1>1
    <3> QED BY <2>4, <3>1
  <2> DEFINE T == [r \in 1 .. n + 1 |-> IF r = 1 THEN S ELSE SubSeq(S, Len(F[r - 1]) + 1, Len(S))]
  <2>6. ASSUME NEW r \in 1 .. n, NEW t \in Seq(X), Joined(S, F[r], t) PROVE T[r + 1] = t
    <3>1. T[r + 1] = SubSeq(S, Len(F[r]) + 1, Len(S))
      <4>1. r + 1 \in 1 .. n + 1 /\ r + 1 # 1 /\ (r + 1) - 1 = r
        BY <1>1
      <4> QED BY <4>1
    <3>2. F[r] \in Seq(X)
      BY <2>2
    <3> HIDE DEF T
    <3> QED BY <2>6, <3>1, <3>2, Behind DEF Joined
  <2>7. T \in [1 .. n + 1 -> Seq(X)]
    <3>1. \A r \in 1 .. n : T[r + 1] \in Seq(X)
      BY <2>5, <2>6
    <3>2. \A r \in 1 .. n + 1 : T[r] \in Seq(X)
      <4> SUFFICES ASSUME NEW r \in 1 .. n + 1 PROVE T[r] \in Seq(X)
        OBVIOUS
      <4>1. CASE r = 1
        BY <1>1, <2>3, <4>1
      <4>2. CASE r # 1
        <5>1. r - 1 \in 1 .. n /\ (r - 1) + 1 = r
          BY <1>1, <4>2
        <5> HIDE DEF T
        <5> QED BY <3>1, <5>1
      <4> QED BY <4>1, <4>2
    <3> QED BY <3>2
  <2>8. T[1] = S /\ T[n + 1] = <<>>
    <3>1. Joined(S, F[n], <<>>) /\ <<>> \in Seq(X)
      BY <2>2, <2>3 DEF Joined
    <3>2. T[n + 1] = <<>>
      <4> HIDE DEF T
      <4> QED BY <2>1, <2>6, <3>1
    <3>3. 1 \in 1 .. n + 1
      BY <1>1
    <3>4. T[1] = S
      BY <3>3
    <3> QED BY <3>2, <3>4
  <2>9. ASSUME NEW r \in 1 .. n PROVE T[r] = s[r] \o T[r + 1]
    <3>1. PICK t \in Seq(X) : Joined(S, F[r], t)
      BY <2>5
    <3>2. T[r + 1] = t
      <4> HIDE DEF T
      <4> QED BY <2>6, <3>1
    <3>3. CASE r = 1
      <4> HIDE DEF T
      <4> QED BY <2>2, <2>8, <3>1, <3>2, <3>3 DEF Joined
    <3>4. CASE r # 1
      <4>1. r \in 2 .. n /\ r - 1 \in 1 .. n /\ (r - 1) + 1 = r
        BY <1>1, <3>4
      <4>2. F[r - 1] \in Seq(X) /\ s[r] \in Seq(X) /\ Joined(F[r], F[r - 1], s[r])
        BY <1>1, <2>2, <4>1 DEF Joined
      <4>3. PICK u \in Seq(X) : Joined(u, s[r], t) /\ Joined(S, F[r - 1], u)
        BY <3>1, <4>2, Rejoined
      <4> HIDE DEF T
      <4>4. T[(r - 1) + 1] = u
        BY <2>6, <4>1, <4>3
      <4> QED BY <3>2, <4>1, <4>3, <4>4 DEF Joined
    <3> QED BY <3>3, <3>4
  <2> HIDE DEF T
  <2> QED BY <2>7, <2>8, <2>9 DEF S
<1> QED BY <1>1, <1>2, <1>3

(* d is a and then b; t is what follows the first m of s. *)
IsCat(d, a, b) ==
    /\ Len(d) = Len(a) + Len(b)
    /\ \A i \in 1 .. Len(a) : d[i] = a[i]
    /\ \A i \in 1 .. Len(b) : d[Len(a) + i] = b[i]
IsRest(t, s, m) ==
    /\ m \in 0 .. Len(s) /\ Len(t) = Len(s) - m
    /\ \A i \in 1 .. Len(t) : t[i] = s[m + i]

LEMMA CatSo ==
    ASSUME NEW X, NEW a \in Seq(X), NEW b \in Seq(X)
    PROVE  a \o b \in Seq(X) /\ IsCat(a \o b, a, b)
BY DEF IsCat

LEMMA CatIs ==
    ASSUME NEW X, NEW a \in Seq(X), NEW b \in Seq(X), NEW d \in Seq(X), NEW e \in Seq(X),
           IsCat(d, a, b), IsCat(e, a, b)
    PROVE  d = e
<1>1. Len(a) \in Nat /\ Len(b) \in Nat /\ Len(d) = Len(a) + Len(b) /\ Len(e) = Len(d)
  BY DEF IsCat
<1>2. \A i \in 1 .. Len(d) : d[i] = e[i]
  <2> SUFFICES ASSUME NEW i \in 1 .. Len(d) PROVE d[i] = e[i]
    OBVIOUS
  <2>1. CASE i \in 1 .. Len(a)
    BY <2>1 DEF IsCat
  <2>2. CASE i \notin 1 .. Len(a)
    <3>1. PICK j \in 1 .. Len(b) : i = Len(a) + j
      <4>1. i - Len(a) \in 1 .. Len(b) /\ i = Len(a) + (i - Len(a))
        BY <1>1, <2>2
      <4> QED BY <4>1
    <3> QED BY <3>1 DEF IsCat
  <2> QED BY <2>1, <2>2
<1> QED BY <1>1, <1>2, SeqEqual

LEMMA RestSo ==
    ASSUME NEW X, NEW s \in Seq(X), NEW m \in 0 .. Len(s)
    PROVE  SubSeq(s, m + 1, Len(s)) \in Seq(X) /\ IsRest(SubSeq(s, m + 1, Len(s)), s, m)
BY DEF IsRest

LEMMA RestOfRest ==
    ASSUME NEW X, NEW s \in Seq(X), NEW t \in Seq(X), NEW u \in Seq(X), NEW m, NEW k,
           IsRest(t, s, m), IsRest(u, t, k)
    PROVE  IsRest(u, s, m + k)
<1>1. /\ m \in 0 .. Len(s) /\ Len(t) = Len(s) - m /\ k \in 0 .. Len(t) /\ Len(u) = Len(t) - k
      /\ m + k \in 0 .. Len(s) /\ Len(u) = Len(s) - (m + k) /\ Len(s) \in Nat
  BY DEF IsRest
<1>2. ASSUME NEW i \in 1 .. Len(u) PROVE u[i] = s[(m + k) + i]
  <2>1. k + i \in 1 .. Len(t) /\ m + (k + i) = (m + k) + i
    BY <1>1
  <2>2. u[i] = t[k + i] /\ t[k + i] = s[m + (k + i)]
    BY <2>1 DEF IsRest
  <2> QED BY <2>1, <2>2
<1> QED BY <1>1, <1>2 DEF IsRest

(* What follows a in a and then b is b. *)
LEMMA RestOfCat ==
    ASSUME NEW X, NEW a \in Seq(X), NEW b \in Seq(X), NEW d \in Seq(X), IsCat(d, a, b)
    PROVE  IsRest(b, d, Len(a))
<1>1. Len(a) \in Nat /\ Len(b) \in Nat /\ Len(d) = Len(a) + Len(b)
  BY DEF IsCat
<1> QED BY <1>1 DEF IsCat, IsRest

(* A part f of w that moves behind b. *)
LEMMA Moved ==
    ASSUME NEW X, NEW b \in Seq(X), NEW w \in Seq(X), NEW k \in 0 .. Len(w),
           NEW d \in Seq(X), IsCat(d, b, w)
    PROVE  /\ b \o SubSeq(w, 1, k) \in Seq(X) /\ SubSeq(w, k + 1, Len(w)) \in Seq(X)
           /\ Len(b \o SubSeq(w, 1, k)) = Len(b) + k
           /\ IsCat(d, b \o SubSeq(w, 1, k), SubSeq(w, k + 1, Len(w)))
<1> DEFINE f == SubSeq(w, 1, k) g == SubSeq(w, k + 1, Len(w)) h == b \o f
<1>1. f \in Seq(X) /\ Len(f) = k /\ \A i \in 1 .. k : f[i] = w[i]
  OBVIOUS
<1>2. g \in Seq(X) /\ IsRest(g, w, k)
  BY RestSo
<1>3. h \in Seq(X) /\ IsCat(h, b, f)
  BY <1>1, CatSo
<1> HIDE DEF f, g, h
<1>4. Len(b) \in Nat /\ Len(w) \in Nat /\ Len(h) = Len(b) + k /\ Len(g) = Len(w) - k
      /\ Len(d) = Len(b) + Len(w)
  BY <1>1, <1>2, <1>3 DEF IsCat, IsRest
<1>5. ASSUME NEW i \in 1 .. Len(h) PROVE d[i] = h[i]
  <2>1. CASE i \in 1 .. Len(b)
    BY <1>3, <2>1 DEF IsCat
  <2>2. CASE i \notin 1 .. Len(b)
    <3>1. PICK j \in 1 .. k : i = Len(b) + j
      <4>1. i - Len(b) \in 1 .. k /\ i = Len(b) + (i - Len(b))
        BY <1>4, <2>2
      <4> QED BY <4>1
    <3>2. j \in 1 .. Len(w) /\ j \in 1 .. Len(f)
      BY <1>1, <1>4
    <3> QED BY <1>1, <1>3, <3>1, <3>2 DEF IsCat
  <2> QED BY <2>1, <2>2
<1>6. ASSUME NEW i \in 1 .. Len(g) PROVE d[Len(h) + i] = g[i]
  <2>1. k + i \in 1 .. Len(w) /\ Len(b) + (k + i) = Len(h) + i
    BY <1>4
  <2>2. g[i] = w[k + i] /\ d[Len(b) + (k + i)] = w[k + i]
    BY <1>2, <2>1 DEF IsCat, IsRest
  <2> QED BY <2>1, <2>2
<1>7. IsCat(d, h, g)
  BY <1>4, <1>5, <1>6 DEF IsCat
<1> QED BY <1>2, <1>3, <1>4, <1>7 DEF f, g, h

(* A buffer b with the begin of s, without the first l of s, and what of s *)
(* is neither in the buffer nor among these.                               *)
LEMMA Discarded ==
    ASSUME NEW X, NEW s \in Seq(X), NEW b \in Seq(X), NEW w \in Seq(X), Len(b) <= Len(s),
           \A i \in 1 .. Len(b) : b[i] = s[i], NEW l \in 0 .. Len(s),
           IsRest(w, s, IF l > Len(b) THEN l ELSE Len(b)),
           NEW c \in Seq(X), IsRest(c, b, IF l < Len(b) THEN l ELSE Len(b)),
           NEW r \in Seq(X), IsRest(r, s, l)
    PROVE  IsCat(r, c, w)
<1>1. Len(b) \in Nat /\ Len(s) \in Nat /\ Len(r) = Len(s) - l /\ \A i \in 1 .. Len(r) : r[i] = s[l + i]
  BY DEF IsRest
<1>2. CASE l > Len(b)
  <2>1. Len(c) = 0 /\ Len(w) = Len(s) - l /\ \A i \in 1 .. Len(w) : w[i] = s[l + i]
    BY <1>1, <1>2 DEF IsRest
  <2>2. ASSUME NEW i \in 1 .. Len(w) PROVE r[Len(c) + i] = w[i]
    <3>1. Len(c) + i = i /\ i \in 1 .. Len(r)
      BY <1>1, <2>1
    <3> QED BY <1>1, <2>1, <3>1
  <2>3. Len(r) = Len(c) + Len(w) /\ 1 .. Len(c) = {}
    BY <1>1, <2>1
  <2> QED BY <2>2, <2>3 DEF IsCat
<1>3. CASE ~ l > Len(b)
  <2>1. /\ Len(w) = Len(s) - Len(b) /\ \A i \in 1 .. Len(w) : w[i] = s[Len(b) + i]
        /\ Len(c) = Len(b) - l /\ \A i \in 1 .. Len(c) : c[i] = b[l + i]
    <3>1. (IF l > Len(b) THEN l ELSE Len(b)) = Len(b) /\ (IF l < Len(b) THEN l ELSE Len(b)) = l
      BY <1>1, <1>3
    <3> QED BY <3>1 DEF IsRest
  <2>2. ASSUME NEW i \in 1 .. Len(c) PROVE r[i] = c[i]
    <3>1. i \in 1 .. Len(r) /\ l + i \in 1 .. Len(b)
      BY <1>1, <1>3, <2>1
    <3> QED BY <1>1, <2>1, <3>1
  <2>3. ASSUME NEW i \in 1 .. Len(w) PROVE r[Len(c) + i] = w[i]
    <3>1. Len(c) + i \in 1 .. Len(r) /\ l + (Len(c) + i) = Len(b) + i
      BY <1>1, <1>3, <2>1
    <3> QED BY <1>1, <2>1, <3>1
  <2>4. Len(r) = Len(c) + Len(w)
    BY <1>1, <1>3, <2>1
  <2> QED BY <2>2, <2>3, <2>4 DEF IsCat
<1> QED BY <1>2, <1>3

-----------------------------------------------------------------------------
(* Connection *)

BodyKinds == {"data", "size", "crlf", "trailer", "blank"}
Token == [r : Nat, k : {"head", "end", "bad"} \cup BodyKinds, n : Nat]

(* Requests whose bodies are framed as their headers say: without a length *)
(* there is none, and a chunked one ends with its only blank line, which   *)
(* no chunk reaches.  What a size line is followed by is left open.        *)
Requests ==
    [head : Nat \ {0}, ends : {"end", "bad"}, line : STRING, version : STRING,
     connection : STRING, te : STRING, length : STRING, uri : STRING,
     body : Seq(BodyKinds \X Nat)]
WellFramed(q) ==
    /\ q.te # "chunked" /\ q.length = "none" => q.body = <<>>
    /\ q.te = "chunked" =>
         /\ q.body # <<>>
         /\ \A i \in 1 .. Len(q.body) :
              /\ q.body[i][1] = "blank" <=> i = Len(q.body)
              /\ q.body[i][1] = "size" => i + q.body[i][2] < Len(q.body)

ConnHypothesis ==
    /\ Conn!BufferAssumption
    /\ Streams \subseteq Seq({q \in Requests : WellFramed(q)})

(* T[r]: what the client sends from its request r on. *)
RestsSo(T, s) ==
    /\ T \in [1 .. Len(s) + 1 -> Seq(Token)]
    /\ T[1] = Conn!FlattenSeq([r \in DOMAIN s |-> Conn!Tokens(r, s[r])])
    /\ T[Len(s) + 1] = <<>>
    /\ \A r \in 1 .. Len(s) : T[r] = Conn!Tokens(r, s[r]) \o T[r + 1]
RestsOf(s) == CHOOSE T : RestsSo(T, s)

(* The tokens of a request: its header, then its body.  *)
LEMMA TokensSo ==
    ASSUME NEW r \in Nat, NEW q \in Requests
    PROVE  /\ Conn!Tokens(r, q) \in Seq(Token)
           /\ Len(Conn!Tokens(r, q)) = q.head + Len(q.body)
           /\ \A i \in 1 .. q.head :
                Conn!Tokens(r, q)[i] = [r |-> r, k |-> IF i < q.head THEN "head" ELSE q.ends, n |-> 0]
           /\ \A i \in 1 .. Len(q.body) :
                Conn!Tokens(r, q)[q.head + i] = [r |-> r, k |-> q.body[i][1], n |-> q.body[i][2]]
<1> DEFINE a == [i \in 1 .. q.head |-> [r |-> r, k |-> IF i < q.head THEN "head" ELSE q.ends, n |-> 0]]
           b == [i \in 1 .. Len(q.body) |-> [r |-> r, k |-> q.body[i][1], n |-> q.body[i][2]]]
<1>1. /\ q.head \in Nat /\ Len(q.body) \in Nat /\ q.ends \in {"end", "bad"}
      /\ \A i \in 1 .. Len(q.body) : q.body[i] \in BodyKinds \X Nat
  BY DEF Requests
<1>2. a \in Seq(Token) /\ Len(a) = q.head
  <2>1. \A i \in 1 .. q.head : a[i] \in Token
    BY <1>1 DEF Token
  <2>2. a \in [1 .. q.head -> Token]
    BY <2>1
  <2> HIDE DEF a
  <2> QED BY <1>1, <2>2
<1>3. b \in Seq(Token) /\ Len(b) = Len(q.body)
  <2>1. \A i \in 1 .. Len(q.body) : b[i] \in Token
    BY <1>1 DEF Token
  <2>2. b \in [1 .. Len(q.body) -> Token]
    BY <2>1
  <2> HIDE DEF b
  <2> QED BY <1>1, <2>2
<1>4. Conn!Tokens(r, q) = a \o b
  BY DEF Conn!Tokens
<1>5. \A i \in 1 .. q.head : a[i] = [r |-> r, k |-> IF i < q.head THEN "head" ELSE q.ends, n |-> 0]
  OBVIOUS
<1>6. \A i \in 1 .. Len(q.body) : b[i] = [r |-> r, k |-> q.body[i][1], n |-> q.body[i][2]]
  OBVIOUS
<1> HIDE DEF a, b
<1> DEFINE t == a \o b
<1>7. t \in Seq(Token) /\ IsCat(t, a, b)
  BY <1>2, <1>3, CatSo
<1>8. Conn!Tokens(r, q) = t
  BY <1>4
<1> HIDE DEF t
<1>9. Len(t) = q.head + Len(q.body)
  BY <1>2, <1>3, <1>7 DEF IsCat
<1>10. ASSUME NEW i \in 1 .. q.head PROVE t[i] = a[i]
  <2>1. i \in 1 .. Len(a)
    BY <1>2, <1>10
  <2> QED BY <1>7, <2>1 DEF IsCat
<1>11. ASSUME NEW i \in 1 .. Len(q.body) PROVE t[q.head + i] = b[i]
  <2>1. i \in 1 .. Len(b)
    BY <1>3, <1>11
  <2> QED BY <1>2, <1>7, <2>1 DEF IsCat
<1> QED BY <1>5, <1>6, <1>7, <1>8, <1>9, <1>10, <1>11

LEMMA RestsThere ==
    ASSUME ConnHypothesis, NEW s \in Streams
    PROVE  s \in Seq(Requests) /\ RestsSo(RestsOf(s), s) /\ \A i \in 1 .. Len(s) : WellFramed(s[i])
<1>1. /\ s \in Seq(Requests) /\ Len(s) \in Nat /\ DOMAIN s = 1 .. Len(s)
      /\ \A i \in 1 .. Len(s) : s[i] \in Requests /\ WellFramed(s[i])
  <2> DEFINE Framed == {q \in Requests : WellFramed(q)}
  <2>1. s \in Seq(Framed) /\ \A q \in Framed : q \in Requests /\ WellFramed(q)
    BY DEF ConnHypothesis
  <2> HIDE DEF Framed
  <2>2. Len(s) \in Nat /\ DOMAIN s = 1 .. Len(s) /\ \A i \in 1 .. Len(s) : s[i] \in Framed
    BY <2>1
  <2>3. \A i \in 1 .. Len(s) : s[i] \in Requests /\ WellFramed(s[i])
    BY <2>1, <2>2
  <2>4. s \in [1 .. Len(s) -> Framed]
    BY <2>1
  <2>5. s \in [1 .. Len(s) -> Requests]
    BY <2>3, <2>4
  <2> QED BY <2>2, <2>3, <2>5
<1> DEFINE z == [r \in DOMAIN s |-> Conn!Tokens(r, s[r])]
<1>2. z \in Seq(Seq(Token)) /\ Len(z) = Len(s)
  <2>1. \A r \in 1 .. Len(s) : z[r] \in Seq(Token)
    <3> SUFFICES ASSUME NEW r \in 1 .. Len(s) PROVE z[r] \in Seq(Token)
      OBVIOUS
    <3>1. z[r] = Conn!Tokens(r, s[r])
      BY <1>1
    <3>2. Conn!Tokens(r, s[r]) \in Seq(Token)
      <4>1. s[r] \in Requests /\ r \in Nat
        BY <1>1
      <4> QED BY <4>1, TokensSo
    <3> QED BY <3>1, <3>2
  <2>2. z \in [1 .. Len(s) -> Seq(Token)]
    BY <1>1, <2>1
  <2> HIDE DEF z
  <2> QED BY <1>1, <2>2
<1>3. \A r \in 1 .. Len(s) : z[r] = Conn!Tokens(r, s[r])
  BY <1>1
<1> HIDE DEF z
<1>4. PICK T \in [1 .. Len(z) + 1 -> Seq(Token)] :
        /\ T[1] = Conn!FlattenSeq(z) /\ T[Len(z) + 1] = <<>>
        /\ \A r \in 1 .. Len(z) : T[r] = z[r] \o T[r + 1]
  BY <1>2, Rests
<1>5. RestsSo(T, s)
  BY <1>2, <1>3, <1>4 DEF RestsSo, z
<1>6. RestsSo(RestsOf(s), s)
  BY <1>5 DEF RestsOf
<1> QED BY <1>1, <1>6

(* What the client sends from request r on: its header, its body, and what *)
(* it sends from the next request on.                                      *)
FromOn(S, N, q, r) ==
    /\ q \in Requests /\ WellFramed(q)
    /\ S \in Seq(Token) /\ N \in Seq(Token) /\ q.head \in Nat \ {0} /\ Len(q.body) \in Nat
    /\ IsRest(N, S, q.head + Len(q.body))
    /\ \A i \in 1 .. q.head : S[i].r = r /\ S[i].k = IF i < q.head THEN "head" ELSE q.ends
    /\ \A i \in 1 .. Len(q.body) : S[q.head + i].k = q.body[i][1] /\ S[q.head + i].n = q.body[i][2]

LEMMA RestAt ==
    ASSUME ConnHypothesis, NEW s \in Streams, NEW r \in 1 .. Len(s)
    PROVE  FromOn(RestsOf(s)[r], RestsOf(s)[r + 1], s[r], r)
<1>1. PICK S, N, q : S = RestsOf(s)[r] /\ N = RestsOf(s)[r + 1] /\ q = s[r]
  OBVIOUS
<1>2. /\ s \in Seq(Requests) /\ RestsSo(RestsOf(s), s) /\ Len(s) \in Nat /\ s[r] \in Requests
      /\ WellFramed(s[r])
  BY RestsThere
<1>3. /\ q \in Requests /\ WellFramed(q) /\ q.head \in Nat \ {0} /\ Len(q.body) \in Nat
  BY <1>1, <1>2 DEF Requests
<1> DEFINE t == Conn!Tokens(r, q)
<1>4. r \in Nat /\ q \in Requests
  BY <1>2, <1>3
<1>5. S \in Seq(Token) /\ N \in Seq(Token) /\ S = t \o N
  <2>1. r + 1 \in 1 .. Len(s) + 1 /\ r \in 1 .. Len(s) + 1
    BY <1>2
  <2> QED BY <1>1, <1>2, <2>1 DEF RestsSo
<1>6. t \in Seq(Token) /\ Len(t) = q.head + Len(q.body)
  BY <1>4, TokensSo
<1>7. \A i \in 1 .. q.head : t[i].r = r /\ t[i].k = IF i < q.head THEN "head" ELSE q.ends
  <2>1. \A i \in 1 .. q.head : t[i] = [r |-> r, k |-> IF i < q.head THEN "head" ELSE q.ends, n |-> 0]
    BY <1>4, TokensSo
  <2> HIDE DEF t
  <2>2. ASSUME NEW i \in 1 .. q.head
        PROVE  t[i].r = r /\ t[i].k = IF i < q.head THEN "head" ELSE q.ends
    <3>1. t[i] = [r |-> r, k |-> IF i < q.head THEN "head" ELSE q.ends, n |-> 0]
      BY <2>1
    <3> QED BY <3>1
  <2> QED BY <2>2
<1>8. \A i \in 1 .. Len(q.body) : t[q.head + i].k = q.body[i][1] /\ t[q.head + i].n = q.body[i][2]
  <2>1. \A i \in 1 .. Len(q.body) : t[q.head + i] = [r |-> r, k |-> q.body[i][1], n |-> q.body[i][2]]
    BY <1>4, TokensSo
  <2> HIDE DEF t
  <2>2. ASSUME NEW i \in 1 .. Len(q.body)
        PROVE  t[q.head + i].k = q.body[i][1] /\ t[q.head + i].n = q.body[i][2]
    <3>1. t[q.head + i] = [r |-> r, k |-> q.body[i][1], n |-> q.body[i][2]]
      BY <2>1
    <3> QED BY <3>1
  <2> QED BY <2>2
<1> HIDE DEF t
<1>9. IsCat(S, t, N)
  BY <1>5, <1>6, CatSo
<1>10. IsRest(N, S, q.head + Len(q.body))
  BY <1>5, <1>6, <1>9, RestOfCat
<1>11. \A i \in 1 .. Len(t) : S[i] = t[i]
  BY <1>9 DEF IsCat
<1>12. ASSUME NEW i \in 1 .. q.head
       PROVE  S[i].r = r /\ S[i].k = IF i < q.head THEN "head" ELSE q.ends
  <2>1. i \in 1 .. Len(t)
    BY <1>3, <1>6
  <2>2. S[i] = t[i]
    BY <1>11, <2>1
  <2> QED BY <1>7, <2>2
<1>13. ASSUME NEW i \in 1 .. Len(q.body)
       PROVE  S[q.head + i].k = q.body[i][1] /\ S[q.head + i].n = q.body[i][2]
  <2>1. q.head + i \in 1 .. Len(t)
    BY <1>3, <1>6
  <2>2. S[q.head + i] = t[q.head + i]
    BY <1>11, <2>1
  <2> QED BY <1>8, <2>2
<1>14. FromOn(S, N, q, r)
  BY <1>3, <1>5, <1>10, <1>12, <1>13 DEF FromOn
<1> QED BY <1>1, <1>14

Larger(a, b) == IF a > b THEN a ELSE b
ConnRecord == [request_len : -3 .. BufSize, consumed : Nat, content_len : Nat \cup {-1},
               is_chunked : 0 .. 4, must_close : BOOLEAN]
CallRecord == [len : Nat, all_read : Nat, ret : Nat \cup {-1}]
InCall == {"handle", "chunk", "data", "crlf", "size", "trailer"}

ConnTyped ==
    /\ reqs \in Streams /\ wire \in Seq(Token) /\ buf \in Seq(Token) /\ Len(buf) <= BufSize
    /\ conn \in ConnRecord /\ call \in CallRecord
    /\ pc \in InCall \cup {"read", "after", "close", "closed"}
    /\ answered \in Seq([r : Nat, status : Nat])
    /\ conn.request_len <= Len(buf) \/ conn.request_len = 0

(* While a header is looked for, the buffer and the wire hold together     *)
(* what the client sends from the next request on, and nothing is left of  *)
(* the request before.                                                     *)
AtRead ==
    pc = "read" =>
      /\ Len(answered) + 1 \in 1 .. Len(reqs) + 1 /\ conn = Conn!Fresh /\ said = "nothing"
      /\ IsCat(RestsOf(reqs)[Len(answered) + 1], buf, wire)

(* c, b and w are a connection, its buffer and its wire inside request q,  *)
(* where S is what the client sends from q on: the next byte of the body   *)
(* is the one that has been counted to, in the buffer or on the wire.  A   *)
(* chunk ends before the body does.                                        *)
Matches(c, b, w, q, S) ==
    /\ ~c.must_close
    /\ c.request_len = q.head /\ q.head <= Len(b) /\ Len(b) <= Len(S)
    /\ \A i \in 1 .. Len(b) : b[i] = S[i]
    /\ c.is_chunked # 2 => IsRest(w, S, Larger(c.request_len + c.consumed, Len(b)))
    /\ c.is_chunked = 0 =>
         q.te # "chunked" /\ c.content_len = Len(q.body) /\ c.consumed <= c.content_len
    /\ c.is_chunked # 0 => q.te = "chunked"
    /\ c.is_chunked \in {1, 3} => c.consumed <= c.content_len /\ c.content_len < Len(q.body)
    /\ c.is_chunked = 4 => c.consumed = Len(q.body) /\ c.content_len = Len(q.body)

(* Where mg_read's loop is.  *)
InLoop(p, c, l) ==
    /\ p \in {"data", "crlf", "size"} => c.is_chunked = 1
    /\ p = "data" => l.len > 0
    /\ p \in {"crlf", "size", "trailer"} => c.consumed = c.content_len
    /\ p = "trailer" => c.is_chunked = 3

AtWork == pc \in InCall \/ (pc = "after" /\ ~conn.must_close)
InRequest ==
    AtWork =>
      /\ Len(answered) \in 1 .. Len(reqs)
      /\ Matches(conn, buf, wire, reqs[Len(answered)], RestsOf(reqs)[Len(answered)])
      /\ InLoop(pc, conn, call)
      /\ said = "close" => ~Conn!ShouldKeepAlive

ConnInv == ConnTyped /\ AtRead /\ InRequest

-----------------------------------------------------------------------------
LEMMA ConnInit == ASSUME ConnHypothesis PROVE Conn!Init => ConnInv
<1> SUFFICES ASSUME Conn!Init PROVE ConnInv
  OBVIOUS
<1>1. /\ reqs \in Streams /\ reqs \in Seq(Requests) /\ Len(reqs) \in Nat /\ BufSize \in Nat \ {0}
      /\ RestsSo(RestsOf(reqs), reqs)
  BY RestsThere DEF Conn!Init, ConnHypothesis, Conn!BufferAssumption
<1> DEFINE T == RestsOf(reqs)
<1>2. wire = T[1] /\ T[1] \in Seq(Token)
  <2>1. 1 \in 1 .. Len(reqs) + 1
    BY <1>1
  <2> QED BY <1>1, <2>1 DEF RestsSo, Conn!Init
<1> HIDE DEF T
<1>3. buf = <<>> /\ Len(buf) = 0 /\ buf \in Seq(Token)
  BY DEF Conn!Init
<1>4. answered = <<>> /\ Len(answered) = 0 /\ Len(answered) + 1 = 1
      /\ answered \in Seq([r : Nat, status : Nat])
  BY DEF Conn!Init
<1>5. conn = Conn!Fresh /\ call = Conn!NoCall /\ pc = "read" /\ said = "nothing"
  BY DEF Conn!Init
<1>6. conn \in ConnRecord /\ conn.request_len = 0
  BY <1>1, <1>5 DEF Conn!Fresh, ConnRecord
<1>7. call \in CallRecord
  BY <1>5 DEF Conn!NoCall, CallRecord
<1>8. ConnTyped
  BY <1>1, <1>2, <1>3, <1>4, <1>5, <1>6, <1>7 DEF ConnTyped, InCall
<1>9. AtRead
  <2>1. IsCat(T[1], buf, wire)
    BY <1>2, <1>3 DEF IsCat
  <2>2. Len(answered) + 1 \in 1 .. Len(reqs) + 1
    BY <1>1, <1>4
  <2> QED BY <1>4, <1>5, <2>1, <2>2 DEF AtRead, T
<1>10. InRequest
  BY <1>5 DEF InRequest, AtWork, InCall
<1> QED BY <1>8, <1>9, <1>10 DEF ConnInv

(* Fewer than are left come off the wire.  *)
LEMMA WireShrinks ==
    ASSUME wire \in Seq(Token), NEW k \in 0 .. Len(wire)
    PROVE  /\ SubSeq(wire, k + 1, Len(wire)) \in Seq(Token)
           /\ IsRest(SubSeq(wire, k + 1, Len(wire)), wire, k)
BY RestSo

LEMMA FirstOfCat ==
    ASSUME NEW X, NEW a \in Seq(X), NEW b \in Seq(X)
    PROVE  /\ Len(a) > 0 => (a \o b)[1] = a[1]
           /\ Len(a) = 0 /\ Len(b) > 0 => (a \o b)[1] = b[1]
OBVIOUS

(* What a read of len tokens within the content length cl comes to, when   *)
(* header and body so far are P tokens.                                    *)
LEMMA ReadsSo ==
    ASSUME ConnTyped, NEW len \in Nat, NEW cl \in Nat \cup {-1}, NEW o \in Conn!Reads(len, cl),
           NEW P, P = conn.request_len + conn.consumed, P >= 0
    PROVE  /\ o.n \in Nat /\ o.ret \in Nat \cup {-1} /\ o.ret <= len /\ o.pulled \in 0 .. Len(wire)
           /\ o.n > 0 => conn.consumed + o.n <= cl
           /\ o.pulled + Larger(P, Len(buf)) = Larger(P + o.n, Len(buf))
           /\ len = 1 /\ o.ret = 1 =>
                /\ o.n = 1
                /\ P < Len(buf) => o.toks[1] = buf[P + 1]
                /\ ~ P < Len(buf) => o.pulled = 1 /\ o.toks[1] = wire[1]
<1>1. /\ conn.request_len \in Int /\ conn.consumed \in Nat /\ P \in Nat
      /\ wire \in Seq(Token) /\ buf \in Seq(Token) /\ Len(buf) \in Nat /\ Len(wire) \in Nat
      /\ cl \in Int
  BY DEF ConnTyped, ConnRecord
<1>2. CASE conn.consumed >= cl
  <2>1. o = [toks |-> <<>>, pulled |-> 0, ret |-> 0, n |-> 0]
    BY <1>2 DEF Conn!Reads
  <2>2. o.toks = <<>> /\ o.pulled = 0 /\ o.ret = 0 /\ o.n = 0
    BY <2>1
  <2> HIDE <2>1
  <2> QED BY <1>1, <2>2 DEF Larger
<1>3. CASE ~ conn.consumed >= cl
  <2> DEFINE want == Conn!Smaller(len, cl - conn.consumed)
             there == Len(buf) - conn.request_len - conn.consumed
             b == IF there > 0 THEN Conn!Smaller(want, there) ELSE 0
             front == SubSeq(buf, conn.request_len + conn.consumed + 1, conn.request_len + conn.consumed + b)
             k(m) == IF m < 0 THEN 0 ELSE m
             got(m) == [toks |-> front \o SubSeq(wire, 1, k(m)),
                        pulled |-> k(m), ret |-> Conn!Total(b, m), n |-> b + k(m)]
  <2>1. PICK m \in Conn!PullAll(want - b) : o = got(m)
    BY <1>3 DEF Conn!Reads, Conn!Unread
  <2>2. want \in Nat /\ want <= len /\ want <= cl - conn.consumed
    BY <1>1, <1>3 DEF Conn!Smaller
  <2> HIDE DEF want
  <2>3. there = Len(buf) - P /\ there \in Int
    BY <1>1
  <2> HIDE DEF there
  <2>4. b \in Nat /\ b <= want /\ (there > 0 => b <= there) /\ (there <= 0 => b = 0) /\ (there > 0 => b = want \/ b = there)
    BY <2>2, <2>3 DEF Conn!Smaller
  <2>5. m \in {-1} \cup 0 .. want - b /\ (m > 0 => m <= Len(wire)) /\ (m = -1 => want - b > 0)
    <3> HIDE DEF b
    <3> QED BY <1>1, <2>2, <2>4 DEF Conn!PullAll, Conn!Arrives
  <2>6. /\ o.toks = front \o SubSeq(wire, 1, k(m)) /\ o.pulled = k(m)
        /\ o.ret = Conn!Total(b, m) /\ o.n = b + k(m)
    BY <2>1
  <2>7. PICK j \in Nat, c \in Nat :
          /\ j = k(m) /\ c = b /\ j <= Len(wire) /\ c + j <= want
          /\ (m >= 0 => j = m) /\ (m < 0 => j = 0)
    <3>1. k(m) \in Nat /\ k(m) <= Len(wire) /\ k(m) <= want - b /\ (m >= 0 => k(m) = m) /\ (m < 0 => k(m) = 0)
      <4> HIDE DEF b
      <4> QED BY <1>1, <2>2, <2>4, <2>5
    <3> HIDE DEF k, b
    <3>2. b + k(m) <= want
      BY <2>2, <2>4, <3>1
    <3> QED BY <2>4, <3>1, <3>2
  <2>8. /\ o.toks = front \o SubSeq(wire, 1, j) /\ o.pulled = j
        /\ o.ret = (IF m >= 0 THEN c + m ELSE IF c > 0 THEN c ELSE m) /\ o.n = c + j
        /\ c <= want /\ (there > 0 => c <= there) /\ (there <= 0 => c = 0)
        /\ (there > 0 => c = want \/ c = there) /\ (m = -1 => want - c > 0) /\ m \in Int /\ m >= -1
    <3> HIDE DEF k, b, front
    <3> QED BY <2>4, <2>5, <2>6, <2>7 DEF Conn!Total
  <2>9. front = SubSeq(buf, P + 1, P + c)
    <3> HIDE DEF b
    <3> QED BY <2>7
  <2> HIDE DEF b, front, k
  <2>10. o.ret \in Nat \cup {-1} /\ o.ret <= len
    BY <2>2, <2>7, <2>8
  <2>11. o.n \in Nat /\ conn.consumed + o.n <= cl
    <3>1. c + j <= cl - conn.consumed
      BY <1>1, <2>2, <2>7
    <3>2. o.n = c + j /\ c + j \in Nat
      BY <2>7, <2>8
    <3> QED BY <1>1, <3>1, <3>2
  <2>12. o.pulled + Larger(P, Len(buf)) = Larger(P + o.n, Len(buf))
    <3>0. /\ o.pulled = j /\ o.n = c + j /\ j \in Nat /\ c \in Nat
          /\ P \in Nat /\ Len(buf) \in Nat
      BY <1>1, <2>7, <2>8
    <3>1. CASE there <= 0
      <4>1. c = 0 /\ P >= Len(buf)
        BY <1>1, <2>3, <2>8, <3>1
      <4>2. Larger(P, Len(buf)) = P /\ Larger(P + j, Len(buf)) = P + j
        BY ONLY <3>0, <4>1 DEF Larger
      <4> QED BY ONLY <3>0, <4>1, <4>2
    <3>2. CASE there > 0 /\ c = there
      <4>1. P + c = Len(buf) /\ P <= Len(buf)
        <5>1. c = Len(buf) - P
          BY <2>3, <3>2
        <5>2. P + c = Len(buf)
          BY <1>1, <5>1
        <5> QED BY <1>1, <2>7, <5>2
      <4>2. P + (c + j) = Len(buf) + j
        BY ONLY <3>0, <4>1
      <4>3. Larger(P, Len(buf)) = Len(buf) /\ Larger(Len(buf) + j, Len(buf)) = Len(buf) + j
        BY ONLY <3>0, <4>1 DEF Larger
      <4> QED BY ONLY <3>0, <4>2, <4>3
    <3>3. CASE there > 0 /\ c # there
      <4>1. c = want /\ j = 0 /\ P + c <= Len(buf) /\ P <= Len(buf)
        BY SMTT(30), <1>1, <2>2, <2>3, <2>7, <2>8, <3>3
      <4>2. P + (c + j) = P + c
        BY ONLY <3>0, <4>1
      <4>3. Larger(P, Len(buf)) = Len(buf) /\ Larger(P + c, Len(buf)) = Len(buf)
        BY ONLY <3>0, <4>1 DEF Larger
      <4> QED BY ONLY <3>0, <4>1, <4>2, <4>3
    <3> QED BY <2>3, <3>1, <3>2, <3>3
  <2>13. ASSUME len = 1, o.ret = 1
         PROVE  /\ o.n = 1
                /\ P < Len(buf) => o.toks[1] = buf[P + 1]
                /\ ~ P < Len(buf) => o.pulled = 1 /\ o.toks[1] = wire[1]
    <3>1. m # -1 /\ c + j = 1
      BY <2>2, <2>7, <2>8, <2>13
    <3> DEFINE back == SubSeq(wire, 1, j)
    <3>2. back \in Seq(Token) /\ Len(back) = j /\ (j = 1 => back[1] = wire[1])
      <4>1. j \in 0 .. Len(wire)
        BY <1>1, <2>7
      <4> QED BY <1>1, <4>1
    <3> HIDE DEF back
    <3>3. o.toks = front \o back
      BY <2>8 DEF back
    <3>4. CASE P < Len(buf)
      <4>1. c = 1 /\ j = 0
        <5>0. there > 0
          BY ONLY <1>1, <2>3, <3>4
        <5>1. there > 0 /\ (c = want \/ c = there) /\ c + j <= want
          BY <2>7, <2>8, <5>0
        <5>2. there \in Nat
          BY <1>1, <2>3, <3>4
        <5> QED BY <2>2, <2>7, <3>1, <5>1, <5>2
      <4>2. front \in Seq(Token) /\ Len(front) = 1 /\ front[1] = buf[P + 1]
        <5> DEFINE i == P + 1
        <5>1. front = SubSeq(buf, i, i) /\ i \in 1 .. Len(buf)
          <6>1. P + c = i /\ i \in 1 .. Len(buf)
            BY <1>1, <3>4, <4>1
          <6> QED BY <2>9, <6>1
        <5> HIDE DEF i
        <5>2. SubSeq(buf, i, i) \in Seq(Token) /\ Len(SubSeq(buf, i, i)) = 1
              /\ SubSeq(buf, i, i)[1] = buf[i]
          BY <1>1, <5>1
        <5> QED BY <5>1, <5>2 DEF i
      <4>3. o.toks[1] = front[1]
        BY <3>2, <3>3, <4>2, FirstOfCat
      <4> QED BY <2>8, <3>1, <3>4, <4>2, <4>3
    <3>5. CASE ~ P < Len(buf)
      <4>1. c = 0 /\ j = 1
        BY <1>1, <2>3, <2>8, <3>1, <3>5
      <4>2. front \in Seq(Token) /\ Len(front) = 0
        <5>1. front = SubSeq(buf, P + 1, P)
          <6>1. P + c = P
            BY <1>1, <4>1
          <6> QED BY <2>9, <6>1
        <5>2. SubSeq(buf, P + 1, P) = <<>>
          BY <1>1, SubSeqEmpty
        <5> QED BY <5>1, <5>2
      <4>3. o.toks[1] = wire[1]
        <5>1. Len(back) > 0 /\ back[1] = wire[1]
          BY <3>2, <4>1
        <5>2. (front \o back)[1] = back[1]
          BY <3>2, <4>2, <5>1, FirstOfCat
        <5> QED BY <3>3, <5>1, <5>2
      <4> QED BY <2>8, <3>1, <3>5, <4>1, <4>3
    <3> QED BY <3>4, <3>5
  <2>14. o.pulled \in 0 .. Len(wire)
    BY <1>1, <2>7, <2>8
  <2> QED BY <2>10, <2>11, <2>12, <2>13, <2>14
<1> QED BY <1>2, <1>3

(* What holds inside a request.  *)
LEMMA InServed ==
    ASSUME ConnHypothesis, ConnInv, AtWork,
           NEW q, q = reqs[Len(answered)], NEW S, S = RestsOf(reqs)[Len(answered)]
    PROVE  /\ Len(answered) \in 1 .. Len(reqs) /\ Len(reqs) \in Nat
           /\ Matches(conn, buf, wire, q, S) /\ InLoop(pc, conn, call)
           /\ said = "close" => ~Conn!ShouldKeepAlive
           /\ q \in Requests /\ WellFramed(q)
           /\ S \in Seq(Token) /\ q.head \in Nat \ {0} /\ Len(q.body) \in Nat
           /\ RestsOf(reqs)[Len(answered) + 1] \in Seq(Token)
           /\ IsRest(RestsOf(reqs)[Len(answered) + 1], S, q.head + Len(q.body))
           /\ \A i \in 1 .. Len(q.body) : S[q.head + i].k = q.body[i][1]
              /\ S[q.head + i].n = q.body[i][2]
           /\ conn.request_len + conn.consumed \in Nat
           /\ conn.request_len = q.head /\ conn.consumed \in Nat /\ conn.content_len \in Nat \cup {-1}
           /\ conn.is_chunked \in 0 .. 4 /\ Len(buf) \in Nat /\ Len(wire) \in Nat
           /\ wire \in Seq(Token) /\ buf \in Seq(Token) /\ conn \in ConnRecord /\ call \in CallRecord
<1>1. /\ Len(answered) \in 1 .. Len(reqs) /\ Matches(conn, buf, wire, q, S) /\ InLoop(pc, conn, call)
      /\ said = "close" => ~Conn!ShouldKeepAlive
  BY DEF ConnInv, InRequest
<1>2. reqs \in Streams /\ wire \in Seq(Token) /\ buf \in Seq(Token) /\ conn \in ConnRecord
      /\ call \in CallRecord
  BY DEF ConnInv, ConnTyped
<1>3. Len(reqs) \in Nat
  BY <1>2, RestsThere
<1>4. conn.consumed \in Nat /\ conn.content_len \in Nat \cup {-1} /\ conn.is_chunked \in 0 .. 4
  BY <1>2 DEF ConnRecord
<1>5. conn.request_len = q.head
  BY <1>1 DEF Matches
<1>6. /\ q \in Requests /\ WellFramed(q)
      /\ S \in Seq(Token) /\ q.head \in Nat \ {0} /\ Len(q.body) \in Nat
      /\ RestsOf(reqs)[Len(answered) + 1] \in Seq(Token)
      /\ IsRest(RestsOf(reqs)[Len(answered) + 1], S, q.head + Len(q.body))
      /\ \A i \in 1 .. Len(q.body) : S[q.head + i].k = q.body[i][1] /\ S[q.head + i].n = q.body[i][2]
  <2>1. FromOn(S, RestsOf(reqs)[Len(answered) + 1], q, Len(answered))
    BY <1>1, <1>2, RestAt
  <2> QED BY <2>1 DEF FromOn
<1>7. conn.request_len + conn.consumed \in Nat /\ Len(buf) \in Nat /\ Len(wire) \in Nat
  BY SMTT(30), <1>2, <1>4, <1>5, <1>6
<1> QED BY <1>1, <1>2, <1>3, <1>4, <1>5, <1>6, <1>7

(* The step of a read or of a handler that leaves the rest alone. *)
LEMMA StillServed ==
    ASSUME ConnHypothesis, ConnInv, AtWork, UNCHANGED <<reqs, buf, answered, said>>,
           wire' \in Seq(Token), conn' \in ConnRecord, call' \in CallRecord, pc' \in InCall \cup {"after"},
           Matches(conn', buf, wire', reqs[Len(answered)], RestsOf(reqs)[Len(answered)]),
           InLoop(pc', conn', call')
    PROVE  ConnInv'
<1>1. /\ Len(answered) \in 1 .. Len(reqs)
      /\ said = "close" => ~Conn!ShouldKeepAlive
      /\ ~conn.must_close /\ conn'.request_len = conn.request_len /\ ~conn'.must_close
      /\ conn.request_len <= Len(buf)
  <2>1. /\ Len(answered) \in 1 .. Len(reqs)
        /\ said = "close" => ~Conn!ShouldKeepAlive
        /\ Matches(conn, buf, wire, reqs[Len(answered)], RestsOf(reqs)[Len(answered)])
    BY DEF ConnInv, InRequest
  <2> QED BY <2>1 DEF Matches
<1>2. ConnTyped'
  BY <1>1 DEF ConnInv, ConnTyped
<1>3. pc' # "read"
  BY DEF InCall
<1>4. Conn!ShouldKeepAlive' <=> Conn!ShouldKeepAlive
  BY <1>1 DEF Conn!ShouldKeepAlive, Conn!Current
<1>5. InRequest'
  <2>1. Len(answered)' = Len(answered) /\ reqs' = reqs /\ buf' = buf /\ said' = said
    OBVIOUS
  <2>2. Matches(conn', buf', wire', reqs'[Len(answered)'], RestsOf(reqs')[Len(answered)'])
    BY <2>1
  <2>3. said' = "close" => ~Conn!ShouldKeepAlive'
    BY <1>1, <1>4, <2>1
  <2>4. Len(answered)' \in 1 .. Len(reqs')
    BY <1>1, <2>1
  <2> QED BY <2>2, <2>3, <2>4 DEF InRequest
<1> QED BY <1>2, <1>3, <1>5 DEF ConnInv, AtRead

(* What a read o of len tokens within the content length cl has taken, and *)
(* that the wire goes on where the count then says.                        *)
Taken(o, len, cl, w, S) ==
    /\ w \in Seq(Token) /\ o.n \in Nat /\ o.ret \in Nat \cup {-1} /\ o.ret <= len
    /\ o.n > 0 => conn.consumed + o.n <= cl
    /\ IsRest(w, S, Larger(conn.request_len + (conn.consumed + o.n), Len(buf)))

LEMMA TookSo ==
    ASSUME ConnHypothesis, ConnInv, AtWork, conn.is_chunked # 2,
           NEW len \in Nat, NEW cl \in Nat \cup {-1}, NEW o \in Conn!Reads(len, cl)
    PROVE  Taken(o, len, cl, SubSeq(wire, o.pulled + 1, Len(wire)), RestsOf(reqs)[Len(answered)])
<1>0. PICK S, w : S = RestsOf(reqs)[Len(answered)] /\ w = SubSeq(wire, o.pulled + 1, Len(wire))
  OBVIOUS
<1> DEFINE P == conn.request_len + conn.consumed
<1>1. /\ P \in Nat /\ P >= 0 /\ S \in Seq(Token) /\ wire \in Seq(Token) /\ ConnTyped /\ Len(buf) \in Nat
      /\ conn.request_len \in Int /\ conn.consumed \in Int
      /\ Matches(conn, buf, wire, reqs[Len(answered)], S)
  <2>1. /\ S \in Seq(Token) /\ wire \in Seq(Token) /\ ConnTyped /\ Len(buf) \in Nat
        /\ conn.consumed \in Nat /\ P \in Nat
        /\ Matches(conn, buf, wire, reqs[Len(answered)], S)
    BY <1>0, InServed DEF ConnInv
  <2>2. conn.request_len \in Int
    BY <2>1 DEF ConnTyped, ConnRecord
  <2> HIDE DEF P
  <2> QED BY <2>1, <2>2
<1>2. IsRest(wire, S, Larger(P, Len(buf)))
  BY <1>1 DEF Matches
<1>3. /\ o.n \in Nat /\ o.ret \in Nat \cup {-1} /\ o.ret <= len /\ o.pulled \in 0 .. Len(wire)
      /\ o.n > 0 => conn.consumed + o.n <= cl
      /\ o.pulled + Larger(P, Len(buf)) = Larger(P + o.n, Len(buf))
  <2> HIDE DEF P
  <2> QED BY <1>1, ReadsSo DEF P
<1>4. P + o.n = conn.request_len + (conn.consumed + o.n) /\ Larger(P, Len(buf)) \in Nat
  <2>1. Larger(P, Len(buf)) \in Nat
    BY <1>1 DEF Larger
  <2>2. o.n \in Nat
    BY <1>3
  <2> QED BY <1>1, <2>1, <2>2
<1> HIDE DEF P
<1>5. w \in Seq(Token) /\ IsRest(w, wire, o.pulled)
  BY <1>0, <1>1, <1>3, WireShrinks
<1>6. IsRest(w, S, Larger(P, Len(buf)) + o.pulled)
  BY <1>1, <1>2, <1>5, RestOfRest
<1>7. Larger(P, Len(buf)) + o.pulled = Larger(P + o.n, Len(buf))
  BY <1>3, <1>4
<1>8. Taken(o, len, cl, w, S)
  BY <1>3, <1>4, <1>5, <1>6, <1>7 DEF Taken
<1> QED BY <1>0, <1>8

(* The connection's record after a step that counts. *)
Counts(k, c, l, h) ==
    /\ k \in ConnRecord /\ k.consumed = c /\ k.content_len = l /\ k.is_chunked = h
    /\ k.request_len = conn.request_len /\ k.must_close = conn.must_close
LEMMA Counting ==
    ASSUME conn \in ConnRecord, NEW c \in Nat, NEW l \in Nat \cup {-1}
    PROVE  \A k : k = [conn EXCEPT !.consumed = c, !.content_len = l] => Counts(k, c, l, conn.is_chunked)
BY DEF ConnRecord, Counts
LEMMA CountingChunk ==
    ASSUME conn \in ConnRecord, NEW c \in Nat, NEW l \in Nat \cup {-1}, NEW h \in 0 .. 4
    PROVE  \A k : k = [conn EXCEPT !.consumed = c, !.content_len = l, !.is_chunked = h] => Counts(k, c, l, h)
BY DEF ConnRecord, Counts

(* mg_read_inner of a single token returns the next one of the body. *)
LEMMA NextToken ==
    ASSUME ConnHypothesis, ConnInv, AtWork, conn.is_chunked # 2,
           NEW q, q = reqs[Len(answered)], NEW o \in Conn!Reads(1, conn.content_len + 1), o.ret = 1,
           conn.consumed < Len(q.body)
    PROVE  /\ o.n = 1 /\ conn.consumed + 1 \in 1 .. Len(q.body)
           /\ o.toks[1].k = q.body[conn.consumed + 1][1] /\ o.toks[1].n = q.body[conn.consumed + 1][2]
<1> DEFINE P == conn.request_len + conn.consumed
<1>0. PICK S : S = RestsOf(reqs)[Len(answered)]
  OBVIOUS
<1>1. /\ P \in Nat /\ P >= 0 /\ S \in Seq(Token) /\ wire \in Seq(Token) /\ ConnTyped /\ Len(buf) \in Nat
      /\ conn.request_len \in Int /\ conn.consumed \in Nat /\ conn.request_len = q.head
      /\ conn.content_len + 1 \in Nat \cup {-1} /\ Len(q.body) \in Nat
      /\ \A i \in 1 .. Len(q.body) : S[q.head + i].k = q.body[i][1] /\ S[q.head + i].n = q.body[i][2]
      /\ Matches(conn, buf, wire, q, S) /\ q.head \in Nat
  <2>1. conn.content_len + 1 \in Nat
    <3>1. conn.content_len \in Nat \cup {-1}
      BY InServed
    <3> QED BY <3>1
  <2>2. /\ S \in Seq(Token) /\ wire \in Seq(Token) /\ ConnTyped /\ Len(buf) \in Nat
        /\ conn.consumed \in Nat /\ conn.request_len = q.head /\ Len(q.body) \in Nat
        /\ Matches(conn, buf, wire, q, S) /\ q.head \in Nat
    BY <1>0, InServed DEF ConnInv
  <2>3. \A i \in 1 .. Len(q.body) : S[q.head + i].k = q.body[i][1] /\ S[q.head + i].n = q.body[i][2]
    <3>1. FromOn(S, RestsOf(reqs)[Len(answered) + 1], q, Len(answered))
      BY <1>0, RestAt DEF ConnInv, ConnTyped, InRequest
    <3> QED BY <3>1 DEF FromOn
  <2>4. P \in Nat /\ P >= 0 /\ conn.request_len \in Int
    BY <2>2
  <2> HIDE DEF P
  <2> QED BY <2>1, <2>2, <2>3, <2>4
<1>2. IsRest(wire, S, Larger(P, Len(buf))) /\ \A i \in 1 .. Len(buf) : buf[i] = S[i]
  BY <1>1 DEF Matches
<1>3. conn.consumed + 1 \in 1 .. Len(q.body) /\ P + 1 = q.head + (conn.consumed + 1)
  BY SMTT(30), <1>1
<1> HIDE DEF P
<1>4. /\ o.n = 1 /\ o.pulled \in 0 .. Len(wire)
      /\ P < Len(buf) => o.toks[1] = buf[P + 1]
      /\ ~ P < Len(buf) => o.pulled = 1 /\ o.toks[1] = wire[1]
  BY <1>1, ReadsSo DEF P
<1>5. o.toks[1] = S[P + 1]
  <2>1. CASE P < Len(buf)
    <3>1. P + 1 \in 1 .. Len(buf)
      BY <1>1, <2>1
    <3> QED BY <1>2, <1>4, <2>1, <3>1
  <2>2. CASE ~ P < Len(buf)
    <3>1. Larger(P, Len(buf)) = P /\ 1 \in 1 .. Len(wire)
      BY <1>1, <1>4, <2>2 DEF Larger
    <3>2. wire[1] = S[P + 1]
      BY <1>2, <3>1 DEF IsRest
    <3> QED BY <1>4, <2>2, <3>2
  <2> QED BY <2>1, <2>2
<1> QED BY ZenonT(40), <1>1, <1>3, <1>4, <1>5

(* The first end of a header, or illegal character, in the buffer.  *)
LEMMA HeaderSo ==
    ASSUME ConnTyped
    PROVE  /\ Conn!HeaderLen \in -1 .. Len(buf)
           /\ Conn!HeaderLen > 0 =>
                /\ buf[Conn!HeaderLen].k = "end"
                /\ \A i \in 1 .. Conn!HeaderLen - 1 : buf[i].k \notin {"end", "bad"}
<1> DEFINE marks == {i \in DOMAIN buf : buf[i].k \in {"end", "bad"}}
           first == CHOOSE i \in marks : \A j \in marks : i <= j
<1>1. Conn!HeaderLen = IF marks = {} THEN 0 ELSE IF buf[first].k = "bad" THEN -1 ELSE first
  BY DEF Conn!HeaderLen
<1>2. DOMAIN buf = 1 .. Len(buf) /\ Len(buf) \in Nat
  BY DEF ConnTyped
<1>3. marks \in SUBSET Nat /\ \A i \in 1 .. Len(buf) : i \in marks <=> buf[i].k \in {"end", "bad"}
  BY <1>2
<1>4. marks \in SUBSET (1 .. Len(buf))
  BY <1>2
<1>5. CASE marks = {}
  BY <1>1, <1>2, <1>5
<1>6. CASE marks # {}
  <2> HIDE DEF marks
  <2>1. first \in marks /\ \A j \in marks : first <= j
    BY <1>3, <1>6, LeastNat
  <2> HIDE DEF first
  <2>2. first \in 1 .. Len(buf) /\ buf[first].k \in {"end", "bad"}
    BY <1>3, <1>4, <2>1
  <2>3. \A i \in 1 .. first - 1 : buf[i].k \notin {"end", "bad"}
    <3> SUFFICES ASSUME NEW i \in 1 .. first - 1 PROVE buf[i].k \notin {"end", "bad"}
      OBVIOUS
    <3>1. i \in 1 .. Len(buf) /\ ~ first <= i
      BY <1>2, <2>2
    <3> QED BY <1>3, <2>1, <3>1
  <2> QED BY <1>1, <1>2, <1>6, <2>2, <2>3
<1> QED BY <1>5, <1>6

(* A header that is complete is the next request's, and ends where that    *)
(* request's header does.                                                  *)
LEMMA HeaderIs ==
    ASSUME ConnHypothesis, ConnInv, pc = "read", Conn!HeaderLen > 0,
           NEW r, r = Len(answered) + 1
    PROVE  /\ r \in 1 .. Len(reqs) /\ Len(reqs) \in Nat
           /\ FromOn(RestsOf(reqs)[r], RestsOf(reqs)[r + 1], reqs[r], r)
           /\ IsCat(RestsOf(reqs)[r], buf, wire)
           /\ Conn!HeaderLen = reqs[r].head /\ Conn!HeaderLen \in 1 .. Len(buf)
           /\ buf[Conn!HeaderLen].r = r
<1>1. /\ ConnTyped /\ reqs \in Streams /\ Len(buf) \in Nat /\ Len(wire) \in Nat
      /\ r \in 1 .. Len(reqs) + 1 /\ IsCat(RestsOf(reqs)[r], buf, wire)
  BY DEF ConnInv, ConnTyped, AtRead
<1>2. Len(reqs) \in Nat /\ RestsSo(RestsOf(reqs), reqs)
  BY <1>1, RestsThere
<1> DEFINE L == Conn!HeaderLen
<1>3. L \in 1 .. Len(buf) /\ buf[L].k = "end" /\ \A i \in 1 .. L - 1 : buf[i].k \notin {"end", "bad"}
  BY <1>1, HeaderSo
<1> HIDE DEF L
<1>4. r \in 1 .. Len(reqs)
  <2>1. SUFFICES ASSUME r = Len(reqs) + 1 PROVE FALSE
    BY <1>1, <1>2
  <2>2. RestsOf(reqs)[r] = <<>>
    BY <1>2, <2>1 DEF RestsSo
  <2>3. Len(<<>>) = Len(buf) + Len(wire)
    BY <1>1, <2>2 DEF IsCat
  <2> QED BY <1>1, <1>3, <2>3
<1>5. FromOn(RestsOf(reqs)[r], RestsOf(reqs)[r + 1], reqs[r], r)
  BY <1>1, <1>4, RestAt
<1>6. PICK S, q : S = RestsOf(reqs)[r] /\ q = reqs[r]
  OBVIOUS
<1>7. /\ q.head \in Nat \ {0} /\ q.ends \in {"end", "bad"}
      /\ \A i \in 1 .. q.head : S[i].r = r /\ S[i].k = IF i < q.head THEN "head" ELSE q.ends
      /\ \A i \in 1 .. Len(buf) : buf[i] = S[i]
  <2>1. q.head \in Nat \ {0} /\ q.ends \in {"end", "bad"}
    BY <1>5, <1>6 DEF FromOn, Requests
  <2>2. \A i \in 1 .. q.head : S[i].r = r /\ S[i].k = IF i < q.head THEN "head" ELSE q.ends
    BY <1>5, <1>6 DEF FromOn
  <2>3. \A i \in 1 .. Len(buf) : buf[i] = S[i]
    BY <1>1, <1>6 DEF IsCat
  <2> QED BY <2>1, <2>2, <2>3
<1>8. ~ L < q.head
  <2>1. SUFFICES ASSUME L < q.head PROVE FALSE
    OBVIOUS
  <2>2. L \in 1 .. q.head
    BY <1>1, <1>3, <1>7, <2>1
  <2>3. S[L].k = "head" /\ buf[L] = S[L]
    BY <1>3, <1>7, <2>1, <2>2
  <2> QED BY <1>3, <2>3
<1>9. ~ q.head < L
  <2>1. SUFFICES ASSUME q.head < L PROVE FALSE
    OBVIOUS
  <2>2. q.head \in 1 .. L - 1 /\ q.head \in 1 .. Len(buf) /\ q.head \in 1 .. q.head
    BY <1>1, <1>3, <1>7, <2>1
  <2>3. S[q.head].k = q.ends /\ buf[q.head] = S[q.head]
    BY <1>7, <2>2
  <2> QED BY <1>3, <1>7, <2>2, <2>3
<1>10. L = q.head
  BY <1>1, <1>3, <1>7, <1>8, <1>9
<1>11. buf[L].r = r
  <2>1. L \in 1 .. q.head
    BY <1>3, <1>7, <1>10
  <2> QED BY <1>3, <1>7, <2>1
<1> QED BY <1>1, <1>2, <1>3, <1>4, <1>5, <1>6, <1>10, <1>11 DEF L

-----------------------------------------------------------------------------
LEMMA ConnReceive == ASSUME ConnHypothesis, ConnInv, Conn!Receive PROVE ConnInv'
<1>1. /\ pc = "read" /\ ConnTyped /\ reqs \in Streams /\ wire \in Seq(Token) /\ buf \in Seq(Token)
      /\ UNCHANGED <<reqs, conn, call, pc, answered, said>> /\ Len(buf) \in Nat /\ Len(wire) \in Nat
  BY DEF ConnInv, ConnTyped, Conn!Receive
<1>2. PICK k \in 1 .. Conn!Smaller(BufSize - Len(buf), Len(wire)) :
        buf' = buf \o SubSeq(wire, 1, k) /\ wire' = SubSeq(wire, k + 1, Len(wire))
  BY DEF Conn!Receive
<1>3. k \in 0 .. Len(wire) /\ Len(buf) + k <= BufSize
  BY <1>1, <1>2 DEF Conn!Smaller, ConnHypothesis, Conn!BufferAssumption
<1> DEFINE r == Len(answered) + 1
<1>4. r \in 1 .. Len(reqs) + 1 /\ conn = Conn!Fresh /\ said = "nothing"
      /\ IsCat(RestsOf(reqs)[r], buf, wire)
  BY <1>1 DEF ConnInv, AtRead
<1>5. RestsOf(reqs)[r] \in Seq(Token)
  BY <1>1, <1>4, RestsThere DEF RestsSo
<1>6. PICK d \in Seq(Token) : d = RestsOf(reqs)[r]
  BY <1>5
<1>7. r' = r
  BY <1>1
<1> HIDE DEF r
<1>8. /\ buf \o SubSeq(wire, 1, k) \in Seq(Token) /\ SubSeq(wire, k + 1, Len(wire)) \in Seq(Token)
      /\ Len(buf \o SubSeq(wire, 1, k)) = Len(buf) + k
      /\ IsCat(d, buf \o SubSeq(wire, 1, k), SubSeq(wire, k + 1, Len(wire)))
  BY <1>1, <1>3, <1>4, <1>6, Moved
<1>9. buf' \in Seq(Token) /\ wire' \in Seq(Token) /\ Len(buf') <= BufSize /\ IsCat(d, buf', wire')
  BY <1>2, <1>3, <1>8
<1>10. ConnTyped'
  <2>1. conn.request_len = 0
    BY <1>4 DEF Conn!Fresh
  <2> QED BY <1>1, <1>9, <2>1 DEF ConnTyped
<1>11. AtRead'
  BY <1>1, <1>4, <1>6, <1>7, <1>9 DEF AtRead, r
<1>12. InRequest'
  BY <1>1 DEF InRequest, AtWork, InCall
<1> QED BY <1>10, <1>11, <1>12 DEF ConnInv

LEMMA ConnGiveUp == ASSUME ConnHypothesis, ConnInv, Conn!GiveUp PROVE ConnInv'
<1>1. PICK len \in {-1, -2, -3} : Conn!NoMessage(len)
  BY DEF Conn!GiveUp
<1>2. /\ conn' = [conn EXCEPT !.request_len = len, !.must_close = TRUE]
      /\ pc' = "after" /\ UNCHANGED <<reqs, wire, buf, call, said>>
  BY <1>1 DEF Conn!NoMessage, Conn!GiveUp
<1>3. /\ ConnTyped /\ conn \in ConnRecord /\ buf \in Seq(Token) /\ BufSize \in Nat
      /\ answered \in Seq([r : Nat, status : Nat])
  BY DEF ConnInv, ConnTyped, ConnHypothesis, Conn!BufferAssumption
<1>4. conn' \in ConnRecord /\ conn'.request_len = len /\ conn'.must_close
  <2>1. len \in -3 .. BufSize
    BY <1>1, <1>3
  <2> QED BY <1>2, <1>3, <2>1 DEF ConnRecord
<1>5. answered' \in Seq([r : Nat, status : Nat])
  <2>1. CASE UNCHANGED answered
    BY <1>3, <2>1
  <2>2. CASE Conn!Answer(IF buf = <<>> THEN 0 ELSE buf[1].r, Conn!MessageStatus(len))
    <3>1. (IF buf = <<>> THEN 0 ELSE buf[1].r) \in Nat
      <4>1. CASE buf = <<>>
        BY <4>1
      <4>2. CASE buf # <<>>
        <5>1. buf[1] \in Token
          BY <1>3, <4>2
        <5> QED BY <4>2, <5>1 DEF Token
      <4> QED BY <4>1, <4>2
    <3>2. Conn!MessageStatus(len) \in Nat
      BY DEF Conn!MessageStatus, Conn!Closing
    <3> QED BY <1>3, <2>2, <3>1, <3>2 DEF Conn!Answer
  <2> QED BY <1>1, <2>1, <2>2 DEF Conn!NoMessage
<1>6. ConnTyped'
  <2>1. conn'.request_len <= Len(buf)
    BY <1>1, <1>3, <1>4
  <2> QED BY <1>2, <1>3, <1>4, <1>5, <2>1 DEF ConnTyped
<1>7. AtRead' /\ InRequest'
  BY <1>2, <1>4 DEF AtRead, InRequest, AtWork, InCall
<1> QED BY <1>6, <1>7 DEF ConnInv

LEMMA ConnGetRequest == ASSUME ConnHypothesis, ConnInv, Conn!GetRequest PROVE ConnInv'
<1> DEFINE n == Len(answered) + 1
<1>1. /\ pc = "read" /\ Conn!HeaderLen > 0 /\ ConnTyped /\ reqs \in Streams
      /\ conn = Conn!Fresh /\ said = "nothing" /\ call' = Conn!NoCall
      /\ UNCHANGED <<reqs, wire, buf, said>> /\ BufSize \in Nat
      /\ wire \in Seq(Token) /\ buf \in Seq(Token) /\ Len(buf) \in Nat /\ Len(buf) <= BufSize
      /\ answered \in Seq([r : Nat, status : Nat])
  BY DEF Conn!GetRequest, ConnInv, AtRead, ConnTyped, ConnHypothesis, Conn!BufferAssumption
<1>2. PICK r : r = n
  OBVIOUS
<1> HIDE DEF n
<1>3. PICK S, N, q, L : S = RestsOf(reqs)[r] /\ N = RestsOf(reqs)[r + 1] /\ q = reqs[r]
      /\ L = Conn!HeaderLen
  OBVIOUS
<1>4. /\ r \in 1 .. Len(reqs) /\ Len(reqs) \in Nat
      /\ FromOn(S, N, q, r) /\ IsCat(S, buf, wire)
      /\ L = q.head /\ L \in 1 .. Len(buf) /\ buf[L].r = r
  BY <1>1, <1>2, <1>3, HeaderIs DEF n
<1> DEFINE status == Conn!Refusal(q)
<1>5. /\ conn' = [Conn!Framed(q, L) EXCEPT !.must_close = status # Conn!Handled]
      /\ IF status = Conn!Closing THEN UNCHANGED answered ELSE Conn!Answer(r, status)
      /\ pc' = IF status = Conn!Handled THEN "handle" ELSE "after"
  BY <1>3, <1>4 DEF Conn!GetRequest
<1>6. q \in Requests /\ WellFramed(q) /\ S \in Seq(Token) /\ N \in Seq(Token)
      /\ q.head \in Nat \ {0} /\ Len(q.body) \in Nat
  BY <1>4 DEF FromOn
<1>7. /\ conn'.request_len = L /\ conn'.consumed = 0 /\ conn'.must_close = (status # Conn!Handled)
      /\ conn'.is_chunked = IF q.te = "chunked" THEN 1 ELSE 0
      /\ conn'.content_len = IF q.line = "bad" \/ q.te = "other" THEN -1
                              ELSE IF q.te = "chunked" \/ q.length = "none" THEN 0
                              ELSE IF q.length = "bad" THEN -1
                              ELSE Len(q.body)
  BY <1>1, <1>5 DEF Conn!Framed, Conn!Fresh
<1>8. conn' \in ConnRecord
  <2>1. conn' = [request_len |-> conn'.request_len, consumed |-> conn'.consumed,
                 content_len |-> conn'.content_len, is_chunked |-> conn'.is_chunked,
                 must_close |-> conn'.must_close]
    <3>1. conn' = [request_len |-> L, consumed |-> 0,
                   content_len |-> IF q.line = "bad" \/ q.te = "other" THEN -1
                                   ELSE IF q.te = "chunked" \/ q.length = "none" THEN 0
                                   ELSE IF q.length = "bad" THEN -1
                                   ELSE Len(q.body),
                   is_chunked |-> IF q.te = "chunked" THEN 1 ELSE 0,
                   must_close |-> status # Conn!Handled]
      BY <1>1, <1>5 DEF Conn!Framed, Conn!Fresh
    <3> HIDE DEF status
    <3> QED BY <3>1
  <2>2. /\ conn'.request_len \in -3 .. BufSize /\ conn'.consumed \in Nat
        /\ conn'.content_len \in Nat \cup {-1} /\ conn'.is_chunked \in 0 .. 4
        /\ conn'.must_close \in BOOLEAN
    <3> HIDE DEF status
    <3> QED BY <1>1, <1>4, <1>6, <1>7
  <2> QED BY <2>1, <2>2 DEF ConnRecord
<1>9. status \in Nat
  BY DEF Conn!Refusal, Conn!Closing, Conn!Handled
<1>10. answered' \in Seq([r : Nat, status : Nat]) /\ (status = Conn!Handled => Len(answered') = r)
  <2> HIDE DEF status
  <2>1. r \in Nat /\ r = Len(answered) + 1 /\ Conn!Handled # Conn!Closing
    BY <1>2, <1>4 DEF n, Conn!Handled, Conn!Closing
  <2>2. CASE status = Conn!Closing
    BY <1>1, <1>5, <2>1, <2>2
  <2>3. CASE status # Conn!Closing
    <3>1. answered' = Append(answered, [r |-> r, status |-> status])
      BY <1>5, <2>3 DEF Conn!Answer
    <3>2. [r |-> r, status |-> status] \in [r : Nat, status : Nat]
      BY <1>9, <2>1
    <3> QED BY <1>1, <2>1, <3>1, <3>2
  <2> QED BY <2>2, <2>3
<1> HIDE DEF status
<1>11. call' \in CallRecord
  BY <1>1 DEF Conn!NoCall, CallRecord
<1>12. pc' # "read" /\ pc' \in InCall \cup {"after"}
  BY <1>5 DEF InCall
<1>13. ConnTyped'
  BY <1>1, <1>4, <1>7, <1>8, <1>10, <1>11, <1>12 DEF ConnTyped
<1>14. CASE status # Conn!Handled
  <2>1. conn'.must_close /\ pc' = "after"
    BY <1>5, <1>7, <1>14
  <2> QED BY <1>12, <1>13, <2>1 DEF ConnInv, AtRead, InRequest, AtWork, InCall
<1>15. CASE status = Conn!Handled
  <2>1. /\ q.line # "bad" /\ q.te # "other" /\ (q.te # "chunked" => q.length # "bad")
        /\ ~conn'.must_close /\ pc' = "handle" /\ Len(answered') = r
    <3>1. Conn!Refusal(q) = Conn!Handled
      BY <1>15 DEF status
    <3>2. q.line # "bad" /\ q.te # "other" /\ (q.te # "chunked" => q.length # "bad")
      <4>1. Conn!Handled = 200 /\ Conn!Closing = 0
        BY DEF Conn!Handled, Conn!Closing
      <4>2. \/ Conn!Refusal(q) \in {400, 411, 505, Conn!Closing}
            \/ q.line # "bad" /\ q.te # "other" /\ ~(q.te # "chunked" /\ q.length = "bad")
        BY DEF Conn!Refusal
      <4> QED BY <3>1, <4>1, <4>2
    <3> QED BY <1>5, <1>7, <1>10, <1>15, <3>2
  <2>2. conn'.content_len = IF q.te = "chunked" THEN 0 ELSE Len(q.body)
    <3>1. q.te # "chunked" /\ q.length = "none" => Len(q.body) = 0
      BY <1>6 DEF WellFramed
    <3> QED BY <1>7, <2>1, <3>1
  <2>3. q.te = "chunked" => 0 < Len(q.body)
    BY <1>6 DEF WellFramed, Requests
  <2>4. IsRest(wire, S, Len(buf)) /\ Len(buf) <= Len(S) /\ \A i \in 1 .. Len(buf) : buf[i] = S[i]
    <3>1. IsRest(wire, S, Len(buf))
      BY <1>1, <1>4, <1>6, RestOfCat
    <3> QED BY <1>1, <1>4, <3>1 DEF IsCat, IsRest
  <2>5. Larger(conn'.request_len + conn'.consumed, Len(buf)) = Len(buf)
    BY <1>1, <1>4, <1>7 DEF Larger
  <2>6. Matches(conn', buf, wire, q, S)
    BY <1>1, <1>4, <1>6, <1>7, <2>1, <2>2, <2>3, <2>4, <2>5 DEF Matches
  <2>7. InLoop(pc', conn', call')
    BY <2>1 DEF InLoop
  <2>8. InRequest'
    BY <1>1, <1>3, <1>4, <2>1, <2>6, <2>7 DEF InRequest
  <2> QED BY <1>12, <1>13, <2>8 DEF ConnInv, AtRead
<1> QED BY <1>14, <1>15

-----------------------------------------------------------------------------
(* The world's steps change nothing the invariant speaks of.  *)
LEMMA ConnFrame ==
    ASSUME ConnInv, UNCHANGED <<reqs, wire, buf, conn, call, pc, answered, said>>
    PROVE  ConnInv'
<1>1. ConnTyped'
  BY DEF ConnInv, ConnTyped
<1>2. AtRead'
  BY DEF ConnInv, AtRead
<1>3. InRequest'
  BY DEF ConnInv, InRequest, AtWork, Conn!ShouldKeepAlive, Conn!Current
<1> QED BY <1>1, <1>2, <1>3 DEF ConnInv

(* A broken body: nothing more is read of it, nor of the connection. *)
LEMMA ConnBroken ==
    ASSUME ConnHypothesis, ConnInv, AtWork, conn.is_chunked # 0, Conn!Broken, wire' \in Seq(Token),
           UNCHANGED <<reqs, buf, answered, said>>
    PROVE  ConnInv'
<1>1. PICK q, S : q = reqs[Len(answered)] /\ S = RestsOf(reqs)[Len(answered)]
  OBVIOUS
<1>2. conn \in ConnRecord /\ call \in CallRecord /\ Matches(conn, buf, wire, q, S)
  BY <1>1 DEF ConnInv, ConnTyped, InRequest
<1>3. conn' = [conn EXCEPT !.is_chunked = 2] /\ call' = [call EXCEPT !.ret = -1] /\ pc' = "handle"
  BY DEF Conn!Broken, Conn!Returns
<1>4. /\ conn'.is_chunked = 2 /\ conn'.request_len = conn.request_len
      /\ conn'.must_close = conn.must_close
      /\ conn' \in ConnRecord
  BY <1>2, <1>3 DEF ConnRecord
<1>5. call' \in CallRecord
  BY <1>2, <1>3 DEF CallRecord
<1>6. Matches(conn', buf, wire', q, S)
  BY <1>2, <1>4 DEF Matches
<1>7. InLoop(pc', conn', call') /\ pc' \in InCall \cup {"after"}
  BY <1>3 DEF InLoop, InCall
<1> QED BY <1>1, <1>4, <1>5, <1>6, <1>7, StillServed

LEMMA ConnRead == ASSUME ConnHypothesis, ConnInv, Conn!Read PROVE ConnInv'
<1>1. /\ pc = "handle" /\ AtWork /\ UNCHANGED <<reqs, buf, answered, said>>
  BY DEF Conn!Read, Conn!SameRequest, AtWork, InCall
<1>2. PICK len \in ReadSizes : Conn!ReadPlain(len) \/ Conn!ReadChunked(len)
  BY DEF Conn!Read
<1>3. len \in Nat
  BY DEF ConnHypothesis, Conn!BufferAssumption
<1>4. PICK q, S : q = reqs[Len(answered)] /\ S = RestsOf(reqs)[Len(answered)]
  OBVIOUS
<1>5. /\ conn \in ConnRecord /\ call \in CallRecord /\ wire \in Seq(Token)
      /\ Matches(conn, buf, wire, q, S)
  BY <1>1, <1>4 DEF ConnInv, ConnTyped, InRequest
<1>6. CASE Conn!ReadChunked(len)
  <2>1. /\ call' = [len |-> len, all_read |-> 0, ret |-> 0] /\ pc' = "chunk" /\ UNCHANGED <<conn, wire>>
    BY <1>6 DEF Conn!ReadChunked
  <2>2. call' \in CallRecord
    BY <1>3, <2>1 DEF CallRecord
  <2>3. InLoop(pc', conn', call') /\ pc' \in InCall \cup {"after"}
    BY <2>1 DEF InLoop, InCall
  <2>4. Matches(conn', buf, wire', q, S) /\ conn' \in ConnRecord /\ wire' \in Seq(Token)
    BY <1>5, <2>1
  <2> QED BY <1>1, <1>4, <2>2, <2>3, <2>4, StillServed
<1>7. CASE Conn!ReadPlain(len)
  <2>1. conn.is_chunked = 0 /\ pc' = "handle"
    BY <1>1, <1>7 DEF Conn!ReadPlain
  <2>2. PICK o \in Conn!Reads(len, conn.content_len) :
          Conn!Took(o, conn.content_len) /\ call' = [len |-> len, all_read |-> 0, ret |-> o.ret]
    BY <1>7 DEF Conn!ReadPlain
  <2>3. /\ wire' = SubSeq(wire, o.pulled + 1, Len(wire))
        /\ conn' = [conn EXCEPT !.consumed = @ + o.n, !.content_len = conn.content_len]
    BY <2>2 DEF Conn!Took
  <2>4. /\ conn.request_len \in Int /\ conn.consumed \in Nat /\ conn.content_len \in Nat \cup {-1}
    BY <1>5 DEF ConnRecord
  <2>5. /\ wire' \in Seq(Token) /\ o.n \in Nat /\ o.ret \in Nat \cup {-1}
        /\ o.n > 0 => conn.consumed + o.n <= conn.content_len
        /\ IsRest(wire', S, Larger(conn.request_len + (conn.consumed + o.n), Len(buf)))
    <3>1. Taken(o, len, conn.content_len, wire', S)
      BY <1>1, <1>3, <1>4, <2>1, <2>3, <2>4, TookSo
    <3> QED BY <3>1 DEF Taken
  <2>6. /\ conn'.consumed = conn.consumed + o.n /\ conn'.content_len = conn.content_len
        /\ conn'.is_chunked = 0 /\ conn'.request_len = conn.request_len
        /\ conn'.must_close = conn.must_close
        /\ conn' \in ConnRecord
    <3>1. conn' = [conn EXCEPT !.consumed = conn.consumed + o.n, !.content_len = conn.content_len]
      BY <2>3
    <3>2. conn.consumed + o.n \in Nat
      BY <2>4, <2>5
    <3>3. Counts(conn', conn.consumed + o.n, conn.content_len, conn.is_chunked)
      <4> DEFINE c == conn.consumed + o.n
      <4> HIDE DEF c
      <4> QED BY <1>5, <2>4, <3>1, <3>2, Counting DEF c
    <3> QED BY <2>1, <3>3 DEF Counts
  <2>7. conn.consumed <= conn.content_len
    BY <1>5, <2>1 DEF Matches
  <2>8. conn'.consumed <= conn'.content_len
    BY <2>4, <2>5, <2>6, <2>7
  <2>9. Matches(conn', buf, wire', q, S)
    BY <1>5, <2>1, <2>5, <2>6, <2>8 DEF Matches
  <2>10. call' \in CallRecord
    BY <1>3, <2>2, <2>5 DEF CallRecord
  <2>11. InLoop(pc', conn', call') /\ pc' \in InCall \cup {"after"}
    BY <2>1 DEF InLoop, InCall
  <2> QED BY <1>1, <1>4, <2>5, <2>6, <2>9, <2>10, <2>11, StillServed
<1> QED BY <1>2, <1>6, <1>7

LEMMA ConnRound == ASSUME ConnHypothesis, ConnInv, Conn!Round PROVE ConnInv'
<1>1. /\ pc = "chunk" /\ AtWork /\ UNCHANGED <<reqs, buf, answered, said, conn, wire>>
  BY DEF Conn!Round, Conn!SameRequest, AtWork, InCall
<1>2. PICK q, S : q = reqs[Len(answered)] /\ S = RestsOf(reqs)[Len(answered)]
  OBVIOUS
<1>3. /\ conn \in ConnRecord /\ call \in CallRecord /\ wire \in Seq(Token)
      /\ Matches(conn, buf, wire, q, S)
  BY <1>1, <1>2 DEF ConnInv, ConnTyped, InRequest
<1>4. Matches(conn', buf, wire', q, S) /\ conn' \in ConnRecord /\ wire' \in Seq(Token)
  BY <1>1, <1>3
<1>5. call.len \in Nat /\ call.all_read \in Nat
  BY <1>3 DEF CallRecord
<1>6. call' \in CallRecord /\ InLoop(pc', conn', call') /\ pc' \in InCall \cup {"after"}
  <2>1. ASSUME NEW n \in Nat \cup {-1}, Conn!Returns(n)
        PROVE  call' \in CallRecord /\ InLoop(pc', conn', call') /\ pc' \in InCall \cup {"after"}
    <3>1. call' = [call EXCEPT !.ret = n] /\ pc' = "handle"
      BY <2>1 DEF Conn!Returns
    <3>2. call' \in CallRecord
      BY <1>3, <3>1 DEF CallRecord
    <3> QED BY <3>1, <3>2 DEF InLoop, InCall
  <2>2. CASE /\ call.len > 0 /\ conn.is_chunked = 1
             /\ pc' = IF conn.consumed # conn.content_len THEN "data" ELSE "size"
             /\ UNCHANGED call
    BY <1>1, <1>3, <2>2 DEF InLoop, InCall
  <2> QED BY <1>5, <2>1, <2>2 DEF Conn!Round
<1> QED BY <1>1, <1>2, <1>4, <1>6, StillServed

LEMMA ConnReadData == ASSUME ConnHypothesis, ConnInv, Conn!ReadData PROVE ConnInv'
<1>1. /\ pc = "data" /\ AtWork /\ UNCHANGED <<reqs, buf, answered, said>>
  BY DEF Conn!ReadData, Conn!SameRequest, AtWork, InCall
<1>2. PICK q, S : q = reqs[Len(answered)] /\ S = RestsOf(reqs)[Len(answered)]
  OBVIOUS
<1>3. /\ conn \in ConnRecord /\ call \in CallRecord /\ wire \in Seq(Token)
      /\ Matches(conn, buf, wire, q, S) /\ InLoop(pc, conn, call)
  BY <1>1, <1>2 DEF ConnInv, ConnTyped, InRequest
<1>4. /\ conn.is_chunked = 1 /\ q.te = "chunked" /\ conn.consumed <= conn.content_len
      /\ conn.content_len < Len(q.body)
  BY <1>1, <1>3 DEF Matches, InLoop
<1>5. /\ conn.request_len \in Int /\ conn.consumed \in Nat /\ conn.content_len \in Nat \cup {-1}
      /\ call.len \in Nat /\ call.all_read \in Nat
  BY <1>3 DEF ConnRecord, CallRecord
<1>6. PICK o \in Conn!Reads(call.len, conn.content_len) :
        IF o.ret < 1 THEN Conn!Broken /\ UNCHANGED <<wire, body>>
        ELSE /\ Conn!Took(o, conn.content_len)
             /\ call' = [call EXCEPT !.all_read = @ + o.ret, !.len = @ - o.ret]
             /\ pc' = IF conn.consumed + o.n = conn.content_len THEN "crlf" ELSE "chunk"
  BY DEF Conn!ReadData
<1>7. CASE o.ret < 1
  BY <1>1, <1>3, <1>4, <1>6, <1>7, ConnBroken
<1>8. CASE ~ o.ret < 1
  <2>1. /\ wire' = SubSeq(wire, o.pulled + 1, Len(wire))
        /\ conn' = [conn EXCEPT !.consumed = @ + o.n, !.content_len = conn.content_len]
        /\ call' = [call EXCEPT !.all_read = @ + o.ret, !.len = @ - o.ret]
        /\ pc' = IF conn.consumed + o.n = conn.content_len THEN "crlf" ELSE "chunk"
    BY <1>6, <1>8 DEF Conn!Took
  <2>2. /\ wire' \in Seq(Token) /\ o.n \in Nat /\ o.ret \in Nat \cup {-1} /\ o.ret <= call.len
        /\ o.n > 0 => conn.consumed + o.n <= conn.content_len
        /\ IsRest(wire', S, Larger(conn.request_len + (conn.consumed + o.n), Len(buf)))
    <3>1. Taken(o, call.len, conn.content_len, wire', S)
      BY <1>1, <1>2, <1>4, <1>5, <2>1, TookSo
    <3> QED BY <3>1 DEF Taken
  <2>3. /\ conn'.consumed = conn.consumed + o.n /\ conn'.content_len = conn.content_len
        /\ conn'.is_chunked = 1 /\ conn'.request_len = conn.request_len
        /\ conn'.must_close = conn.must_close
        /\ conn' \in ConnRecord
    <3>1. conn' = [conn EXCEPT !.consumed = conn.consumed + o.n, !.content_len = conn.content_len]
      BY <2>1
    <3>2. conn.consumed + o.n \in Nat
      BY <1>5, <2>2
    <3>3. Counts(conn', conn.consumed + o.n, conn.content_len, conn.is_chunked)
      BY <1>3, <1>5, <3>1, <3>2, Counting
    <3> QED BY <1>4, <3>3 DEF Counts
  <2>4. conn'.consumed <= conn'.content_len
    BY <1>4, <1>5, <2>2, <2>3
  <2>5. Matches(conn', buf, wire', q, S)
    BY <1>3, <1>4, <2>2, <2>3, <2>4 DEF Matches
  <2>6. call' \in CallRecord
    <3>1. call.all_read + o.ret \in Nat /\ call.len - o.ret \in Nat
      BY <1>5, <1>8, <2>2
    <3> QED BY <1>3, <2>1, <3>1 DEF CallRecord
  <2>7. InLoop(pc', conn', call') /\ pc' \in InCall \cup {"after"}
    BY <2>1, <2>3 DEF InLoop, InCall
  <2> QED BY <1>1, <1>2, <2>2, <2>3, <2>5, <2>6, <2>7, StillServed
<1> QED BY <1>7, <1>8

LEMMA ConnReadCrlf == ASSUME ConnHypothesis, ConnInv, Conn!ReadCrlf PROVE ConnInv'
<1>1. /\ pc = "crlf" /\ AtWork /\ UNCHANGED <<reqs, buf, answered, said>>
  BY DEF Conn!ReadCrlf, Conn!SameRequest, AtWork, InCall
<1>2. PICK q, S : q = reqs[Len(answered)] /\ S = RestsOf(reqs)[Len(answered)]
  OBVIOUS
<1>3. /\ conn \in ConnRecord /\ call \in CallRecord /\ wire \in Seq(Token) /\ q \in Requests
      /\ Matches(conn, buf, wire, q, S) /\ InLoop(pc, conn, call) /\ WellFramed(q)
  BY <1>1, <1>2, InServed
<1>4. /\ conn.is_chunked = 1 /\ q.te = "chunked" /\ conn.consumed = conn.content_len
      /\ conn.content_len < Len(q.body)
  BY <1>1, <1>3 DEF Matches, InLoop
<1>5. conn.request_len \in Int /\ conn.consumed \in Nat /\ Len(q.body) \in Nat
  BY <1>3 DEF ConnRecord, Requests
<1>6. PICK o \in Conn!Reads(1, conn.content_len + 1) :
        IF o.ret = 1 /\ o.toks[1].k = "crlf"
        THEN Conn!Took(o, conn.content_len + 1) /\ pc' = "chunk" /\ UNCHANGED call
        ELSE Conn!Broken /\ wire' = SubSeq(wire, o.pulled + 1, Len(wire))
  BY DEF Conn!ReadCrlf
<1>7. /\ SubSeq(wire, o.pulled + 1, Len(wire)) \in Seq(Token) /\ o.n \in Nat
      /\ IsRest(SubSeq(wire, o.pulled + 1, Len(wire)), S,
                Larger(conn.request_len + (conn.consumed + o.n), Len(buf)))
  <2>1. conn.content_len + 1 \in Nat \cup {-1} /\ 1 \in Nat
    BY <1>4, <1>5
  <2>2. Taken(o, 1, conn.content_len + 1, SubSeq(wire, o.pulled + 1, Len(wire)), S)
    BY <1>1, <1>2, <1>4, <2>1, TookSo
  <2> QED BY <2>2 DEF Taken
<1>8. CASE ~(o.ret = 1 /\ o.toks[1].k = "crlf")
  <2>1. Conn!Broken /\ wire' = SubSeq(wire, o.pulled + 1, Len(wire))
    BY <1>6, <1>8
  <2>2. wire' \in Seq(Token) /\ conn.is_chunked # 0
    BY <1>4, <1>7, <2>1
  <2> QED BY <1>1, <2>1, <2>2, ConnBroken
<1>9. CASE o.ret = 1 /\ o.toks[1].k = "crlf"
  <2>1. /\ wire' = SubSeq(wire, o.pulled + 1, Len(wire))
        /\ conn' = [conn EXCEPT !.consumed = @ + o.n, !.content_len = conn.content_len + 1]
        /\ pc' = "chunk" /\ call' = call
    BY <1>6, <1>9 DEF Conn!Took
  <2>2. /\ o.n = 1 /\ conn.consumed + 1 \in 1 .. Len(q.body)
        /\ o.toks[1].k = q.body[conn.consumed + 1][1]
    BY <1>1, <1>2, <1>4, <1>9, NextToken
  <2>3. conn.consumed + 1 < Len(q.body)
    <3>1. q.body[conn.consumed + 1][1] # "blank"
      BY <1>9, <2>2
    <3>2. conn.consumed + 1 # Len(q.body)
      BY <1>3, <1>4, <2>2, <3>1 DEF WellFramed
    <3> QED BY <1>5, <2>2, <3>2
  <2>4. /\ conn'.consumed = conn.consumed + 1 /\ conn'.content_len = conn.consumed + 1
        /\ conn'.is_chunked = 1 /\ conn'.request_len = conn.request_len
        /\ conn'.must_close = conn.must_close
        /\ conn' \in ConnRecord
    <3>1. conn' = [conn EXCEPT !.consumed = conn.consumed + 1, !.content_len = conn.consumed + 1]
      BY <1>4, <2>1, <2>2
    <3>2. conn.consumed + 1 \in Nat /\ conn.is_chunked \in 0 .. 4
      BY <1>4, <1>5
    <3>3. Counts(conn', conn.consumed + 1, conn.consumed + 1, conn.is_chunked)
      BY <1>3, <3>1, <3>2, Counting
    <3> QED BY <1>4, <3>3 DEF Counts
  <2>5. /\ IsRest(wire', S, Larger(conn'.request_len + conn'.consumed, Len(buf)))
        /\ conn'.consumed <= conn'.content_len /\ conn'.content_len < Len(q.body)
    BY <1>5, <1>7, <2>1, <2>2, <2>3, <2>4
  <2>6. Matches(conn', buf, wire', q, S)
    BY <1>3, <1>4, <2>4, <2>5 DEF Matches
  <2>7. InLoop(pc', conn', call') /\ pc' \in InCall \cup {"after"}
    BY <2>1 DEF InLoop, InCall
  <2> QED BY <1>1, <1>2, <1>3, <1>7, <2>1, <2>4, <2>6, <2>7, StillServed
<1> QED BY <1>8, <1>9

LEMMA ConnReadSize == ASSUME ConnHypothesis, ConnInv, Conn!ReadSize PROVE ConnInv'
<1>1. /\ pc = "size" /\ AtWork /\ UNCHANGED <<reqs, buf, answered, said>>
  BY DEF Conn!ReadSize, Conn!SameRequest, AtWork, InCall
<1>2. PICK q, S : q = reqs[Len(answered)] /\ S = RestsOf(reqs)[Len(answered)]
  OBVIOUS
<1>3. /\ conn \in ConnRecord /\ call \in CallRecord /\ wire \in Seq(Token) /\ q \in Requests
      /\ Matches(conn, buf, wire, q, S) /\ InLoop(pc, conn, call) /\ WellFramed(q)
  BY <1>1, <1>2, InServed
<1>4. /\ conn.is_chunked = 1 /\ q.te = "chunked" /\ conn.consumed = conn.content_len
      /\ conn.content_len < Len(q.body)
  BY <1>1, <1>3 DEF Matches, InLoop
<1>5. conn.request_len \in Int /\ conn.consumed \in Nat /\ Len(q.body) \in Nat
  BY <1>3 DEF ConnRecord, Requests
<1>6. PICK o \in Conn!Reads(1, conn.content_len + 1) :
        IF o.ret = 1 /\ o.toks[1].k = "size"
        THEN /\ wire' = SubSeq(wire, o.pulled + 1, Len(wire))
             /\ conn' = [conn EXCEPT !.consumed = @ + 1,
                                     !.content_len = @ + 1 + o.toks[1].n,
                                     !.is_chunked = IF o.toks[1].n = 0 THEN 3 ELSE 1]
             /\ pc' = IF o.toks[1].n = 0 THEN "trailer" ELSE "chunk"
             /\ UNCHANGED call
        ELSE Conn!Broken /\ wire' = SubSeq(wire, o.pulled + 1, Len(wire))
  BY DEF Conn!ReadSize
<1>7. /\ SubSeq(wire, o.pulled + 1, Len(wire)) \in Seq(Token) /\ o.n \in Nat
      /\ IsRest(SubSeq(wire, o.pulled + 1, Len(wire)), S,
                Larger(conn.request_len + (conn.consumed + o.n), Len(buf)))
  <2>1. conn.content_len + 1 \in Nat \cup {-1} /\ 1 \in Nat
    BY <1>4, <1>5
  <2>2. Taken(o, 1, conn.content_len + 1, SubSeq(wire, o.pulled + 1, Len(wire)), S)
    BY <1>1, <1>2, <1>4, <2>1, TookSo
  <2> QED BY <2>2 DEF Taken
<1>8. CASE ~(o.ret = 1 /\ o.toks[1].k = "size")
  <2>1. Conn!Broken /\ wire' = SubSeq(wire, o.pulled + 1, Len(wire))
    BY <1>6, <1>8
  <2>2. wire' \in Seq(Token) /\ conn.is_chunked # 0
    BY <1>4, <1>7, <2>1
  <2> QED BY <1>1, <2>1, <2>2, ConnBroken
<1>9. CASE o.ret = 1 /\ o.toks[1].k = "size"
  <2>1. PICK size : size = o.toks[1].n
    OBVIOUS
  <2>2. /\ wire' = SubSeq(wire, o.pulled + 1, Len(wire))
        /\ conn' = [conn EXCEPT !.consumed = conn.consumed + 1, !.content_len = conn.content_len + 1 + size,
                                !.is_chunked = IF size = 0 THEN 3 ELSE 1]
        /\ pc' = (IF size = 0 THEN "trailer" ELSE "chunk") /\ call' = call
    BY <1>6, <1>9, <2>1
  <2>3. /\ o.n = 1 /\ conn.consumed + 1 \in 1 .. Len(q.body)
        /\ q.body[conn.consumed + 1][1] = "size" /\ q.body[conn.consumed + 1][2] = size
    BY <1>1, <1>2, <1>4, <1>9, <2>1, NextToken
  <2>4. size \in Nat
    <3>1. q.body[conn.consumed + 1] \in BodyKinds \X Nat
      BY <1>3, <2>3 DEF Requests
    <3> QED BY <2>3, <3>1
  <2>5. (conn.consumed + 1) + size < Len(q.body)
    BY <1>3, <1>4, <2>3 DEF WellFramed
  <2> DEFINE h == IF size = 0 THEN 3 ELSE 1
  <2>6. Counts(conn', conn.consumed + 1, (conn.consumed + 1) + size, h)
    <3>1. conn.consumed + 1 \in Nat /\ (conn.consumed + 1) + size \in Nat /\ h \in 0 .. 4
          /\ conn.content_len + 1 + size = (conn.consumed + 1) + size
      BY <1>4, <1>5, <2>4
    <3>2. conn' = [conn EXCEPT !.consumed = conn.consumed + 1,
                               !.content_len = (conn.consumed + 1) + size, !.is_chunked = h]
      BY <2>2, <3>1
    <3> HIDE DEF h
    <3> QED BY <1>3, <3>1, <3>2, CountingChunk
  <2>7. /\ conn'.consumed = conn.consumed + 1 /\ conn'.content_len = (conn.consumed + 1) + size
        /\ conn'.is_chunked = h /\ conn'.request_len = conn.request_len
        /\ conn'.must_close = conn.must_close
        /\ conn' \in ConnRecord
    BY <2>6 DEF Counts
  <2>8. /\ IsRest(wire', S, Larger(conn'.request_len + conn'.consumed, Len(buf)))
        /\ conn'.consumed <= conn'.content_len /\ conn'.content_len < Len(q.body)
    BY <1>5, <1>7, <2>2, <2>3, <2>4, <2>5, <2>7
  <2>9. Matches(conn', buf, wire', q, S)
    BY <1>3, <1>4, <2>7, <2>8 DEF Matches
  <2>10. InLoop(pc', conn', call') /\ pc' \in InCall \cup {"after"}
    <3>1. size = 0 => conn'.consumed = conn'.content_len
      BY <1>5, <2>7
    <3> QED BY <2>2, <2>7, <3>1 DEF InLoop, InCall
  <2> QED BY <1>1, <1>2, <1>3, <1>7, <2>2, <2>7, <2>9, <2>10, StillServed
<1> QED BY <1>8, <1>9

LEMMA ConnReadTrailer == ASSUME ConnHypothesis, ConnInv, Conn!ReadTrailer PROVE ConnInv'
<1>1. /\ pc = "trailer" /\ AtWork /\ UNCHANGED <<reqs, buf, answered, said>>
  BY DEF Conn!ReadTrailer, Conn!SameRequest, AtWork, InCall
<1>2. PICK q, S : q = reqs[Len(answered)] /\ S = RestsOf(reqs)[Len(answered)]
  OBVIOUS
<1>3. /\ conn \in ConnRecord /\ call \in CallRecord /\ wire \in Seq(Token) /\ q \in Requests
      /\ Matches(conn, buf, wire, q, S) /\ InLoop(pc, conn, call) /\ WellFramed(q)
  BY <1>1, <1>2, InServed
<1>4. /\ conn.is_chunked = 3 /\ q.te = "chunked" /\ conn.consumed = conn.content_len
      /\ conn.content_len < Len(q.body)
  BY <1>1, <1>3 DEF Matches, InLoop
<1>5. conn.request_len \in Int /\ conn.consumed \in Nat /\ Len(q.body) \in Nat /\ call.all_read \in Nat
  BY <1>3 DEF ConnRecord, Requests, CallRecord
<1>6. PICK o \in Conn!Reads(1, conn.content_len + 1) :
        \/ /\ o.ret = 1 /\ o.toks[1].k = "blank"
           /\ wire' = SubSeq(wire, o.pulled + 1, Len(wire))
           /\ conn' = [conn EXCEPT !.consumed = @ + 1, !.content_len = @ + 1, !.is_chunked = 4]
           /\ Conn!Returns(call.all_read)
        \/ /\ o.ret = 1 /\ o.toks[1].k = "trailer"
           /\ Conn!Took(o, conn.content_len + 1) /\ UNCHANGED <<call, pc>>
        \/ Conn!Broken /\ wire' = SubSeq(wire, o.pulled + 1, Len(wire))
  <2>1. PICK o \in Conn!Reads(1, conn.content_len + 1) :
          CASE o.ret = 1 /\ o.toks[1].k = "blank" ->
                 /\ wire' = SubSeq(wire, o.pulled + 1, Len(wire))
                 /\ conn' = [conn EXCEPT !.consumed = @ + 1, !.content_len = @ + 1, !.is_chunked = 4]
                 /\ Conn!Returns(call.all_read)
            [] o.ret = 1 /\ o.toks[1].k = "trailer" ->
                 Conn!Took(o, conn.content_len + 1) /\ UNCHANGED <<call, pc>>
            [] OTHER -> Conn!Broken /\ wire' = SubSeq(wire, o.pulled + 1, Len(wire))
    BY DEF Conn!ReadTrailer
  <2> QED BY <2>1
<1>7. /\ SubSeq(wire, o.pulled + 1, Len(wire)) \in Seq(Token) /\ o.n \in Nat
      /\ IsRest(SubSeq(wire, o.pulled + 1, Len(wire)), S,
                Larger(conn.request_len + (conn.consumed + o.n), Len(buf)))
  <2>1. conn.content_len + 1 \in Nat \cup {-1} /\ 1 \in Nat
    BY <1>4, <1>5
  <2>2. Taken(o, 1, conn.content_len + 1, SubSeq(wire, o.pulled + 1, Len(wire)), S)
    BY <1>1, <1>2, <1>4, <2>1, TookSo
  <2> QED BY <2>2 DEF Taken
<1>8. CASE Conn!Broken /\ wire' = SubSeq(wire, o.pulled + 1, Len(wire))
  <2>1. wire' \in Seq(Token) /\ conn.is_chunked # 0
    BY <1>4, <1>7, <1>8
  <2> QED BY <1>1, <1>8, <2>1, ConnBroken
<1>9. ASSUME o.ret = 1
      PROVE  /\ o.n = 1 /\ conn.consumed + 1 \in 1 .. Len(q.body)
             /\ o.toks[1].k = q.body[conn.consumed + 1][1]
             /\ o.toks[1].k = "blank" <=> conn.consumed + 1 = Len(q.body)
  <2>1. /\ o.n = 1 /\ conn.consumed + 1 \in 1 .. Len(q.body)
        /\ o.toks[1].k = q.body[conn.consumed + 1][1]
    BY <1>1, <1>2, <1>4, <1>9, NextToken
  <2>2. q.body[conn.consumed + 1][1] = "blank" <=> conn.consumed + 1 = Len(q.body)
    BY <1>3, <1>4, <2>1 DEF WellFramed
  <2> QED BY <2>1, <2>2
<1>10. CASE /\ o.ret = 1 /\ o.toks[1].k = "blank"
            /\ wire' = SubSeq(wire, o.pulled + 1, Len(wire))
            /\ conn' = [conn EXCEPT !.consumed = @ + 1, !.content_len = @ + 1, !.is_chunked = 4]
            /\ Conn!Returns(call.all_read)
  <2>1. o.n = 1 /\ conn.consumed + 1 = Len(q.body)
    BY <1>9, <1>10
  <2>2. Counts(conn', conn.consumed + 1, conn.consumed + 1, 4)
    <3>1. conn.consumed + 1 \in Nat /\ 4 \in 0 .. 4
      BY <1>5
    <3>2. conn' = [conn EXCEPT !.consumed = conn.consumed + 1, !.content_len = conn.consumed + 1, !.is_chunked = 4]
      BY <1>4, <1>10
    <3> QED BY <1>3, <3>1, <3>2, CountingChunk
  <2>3. /\ conn'.consumed = Len(q.body) /\ conn'.content_len = Len(q.body)
        /\ conn'.is_chunked = 4 /\ conn'.request_len = conn.request_len
        /\ conn'.must_close = conn.must_close
        /\ conn' \in ConnRecord
    BY <2>1, <2>2 DEF Counts
  <2>4. IsRest(wire', S, Larger(conn'.request_len + conn'.consumed, Len(buf)))
    BY <1>7, <1>10, <2>1, <2>3
  <2>5. Matches(conn', buf, wire', q, S)
    BY <1>3, <1>4, <2>3, <2>4 DEF Matches
  <2>6. call' = [call EXCEPT !.ret = call.all_read] /\ pc' = "handle"
    BY <1>10 DEF Conn!Returns
  <2>7. call' \in CallRecord
    BY <1>3, <1>5, <2>6 DEF CallRecord
  <2>8. InLoop(pc', conn', call') /\ pc' \in InCall \cup {"after"}
    BY <2>6 DEF InLoop, InCall
  <2> QED BY <1>1, <1>2, <1>7, <1>10, <2>3, <2>5, <2>7, <2>8, StillServed
<1>11. CASE /\ o.ret = 1 /\ o.toks[1].k = "trailer"
            /\ Conn!Took(o, conn.content_len + 1) /\ UNCHANGED <<call, pc>>
  <2>1. /\ o.n = 1 /\ conn.consumed + 1 < Len(q.body)
    <3>1. /\ o.n = 1 /\ conn.consumed + 1 \in 1 .. Len(q.body) /\ conn.consumed + 1 # Len(q.body)
      BY <1>9, <1>11
    <3> QED BY <1>5, <3>1
  <2>2. /\ wire' = SubSeq(wire, o.pulled + 1, Len(wire))
        /\ conn' = [conn EXCEPT !.consumed = conn.consumed + 1, !.content_len = conn.consumed + 1]
    BY <1>4, <1>11, <2>1 DEF Conn!Took
  <2>3. Counts(conn', conn.consumed + 1, conn.consumed + 1, conn.is_chunked)
    <3>1. conn.consumed + 1 \in Nat
      BY <1>5
    <3> QED BY <1>3, <2>2, <3>1, Counting
  <2>4. /\ conn'.consumed = conn.consumed + 1 /\ conn'.content_len = conn.consumed + 1
        /\ conn'.is_chunked = 3 /\ conn'.request_len = conn.request_len
        /\ conn'.must_close = conn.must_close
        /\ conn' \in ConnRecord
    BY <1>4, <2>3 DEF Counts
  <2>5. /\ IsRest(wire', S, Larger(conn'.request_len + conn'.consumed, Len(buf)))
        /\ conn'.consumed <= conn'.content_len /\ conn'.content_len < Len(q.body)
    BY <1>5, <1>7, <2>1, <2>2, <2>4
  <2>6. Matches(conn', buf, wire', q, S)
    BY <1>3, <1>4, <2>4, <2>5 DEF Matches
  <2>7. InLoop(pc', conn', call') /\ pc' \in InCall \cup {"after"} /\ call' \in CallRecord
    BY <1>1, <1>3, <1>11, <2>4 DEF InLoop, InCall
  <2> QED BY <1>1, <1>2, <1>7, <2>2, <2>4, <2>6, <2>7, StillServed
<1> QED BY <1>6, <1>8, <1>10, <1>11

-----------------------------------------------------------------------------
LEMMA ConnSay == ASSUME ConnHypothesis, ConnInv, Conn!SayConnection PROVE ConnInv'
<1>1. /\ pc = "handle" /\ UNCHANGED <<reqs, wire, buf, conn, call, pc, answered>>
      /\ said' = IF Conn!ShouldKeepAlive THEN "keep-alive" ELSE "close"
  BY DEF Conn!SayConnection
<1>2. ConnTyped' /\ AtRead'
  BY <1>1 DEF ConnInv, ConnTyped, AtRead
<1>3. Conn!ShouldKeepAlive' <=> Conn!ShouldKeepAlive
  BY <1>1 DEF Conn!ShouldKeepAlive, Conn!Current
<1>4. InRequest'
  <2>1. said' = "close" => ~Conn!ShouldKeepAlive'
    BY <1>1, <1>3
  <2>2. Len(answered) \in 1 .. Len(reqs)
        /\ Matches(conn, buf, wire, reqs[Len(answered)], RestsOf(reqs)[Len(answered)])
        /\ InLoop(pc, conn, call)
    BY <1>1 DEF ConnInv, InRequest, AtWork, InCall
  <2> QED BY <1>1, <2>1, <2>2 DEF InRequest
<1> QED BY <1>2, <1>4 DEF ConnInv

LEMMA ConnHandlerReturns == ASSUME ConnHypothesis, ConnInv, Conn!HandlerReturns PROVE ConnInv'
<1>1. /\ pc = "handle" /\ AtWork /\ pc' = "after" /\ UNCHANGED <<reqs, wire, buf, conn, call, answered, said>>
  BY DEF Conn!HandlerReturns, AtWork, InCall
<1>2. PICK q, S : q = reqs[Len(answered)] /\ S = RestsOf(reqs)[Len(answered)]
  OBVIOUS
<1>3. /\ conn \in ConnRecord /\ call \in CallRecord /\ wire \in Seq(Token)
      /\ Matches(conn, buf, wire, q, S)
  BY <1>1, <1>2 DEF ConnInv, ConnTyped, InRequest
<1>4. Matches(conn', buf, wire', q, S) /\ conn' \in ConnRecord /\ wire' \in Seq(Token)
      /\ call' \in CallRecord
  BY <1>1, <1>3
<1>5. InLoop(pc', conn', call') /\ pc' \in InCall \cup {"after"}
  BY <1>1 DEF InLoop
<1> QED BY <1>1, <1>2, <1>4, <1>5, StillServed

LEMMA ConnNextRequest == ASSUME ConnHypothesis, ConnInv, Conn!NextRequest PROVE ConnInv'
<1>1. /\ pc = "after" /\ said' = "nothing" /\ call' = Conn!NoCall /\ UNCHANGED <<reqs, wire, answered>>
      /\ ConnTyped
  BY DEF Conn!NextRequest, ConnInv
<1>2. call' \in CallRecord
  BY <1>1 DEF Conn!NoCall, CallRecord
<1>3. CASE ~Conn!Keep
  <2>1. pc' = "close" /\ UNCHANGED <<buf, conn>>
    BY <1>3 DEF Conn!NextRequest
  <2>2. ConnTyped'
    BY <1>1, <1>2, <2>1 DEF ConnTyped
  <2> QED BY <2>1, <2>2 DEF ConnInv, AtRead, InRequest, AtWork, InCall
<1>4. CASE Conn!Keep
  <2>1. buf' = Conn!Rest /\ conn' = Conn!Fresh /\ pc' = "read"
    BY <1>4 DEF Conn!NextRequest
  <2>2. Conn!Discardable /\ ~conn.must_close /\ AtWork
    BY <1>1, <1>4 DEF Conn!Keep, Conn!ShouldKeepAlive, AtWork
  <2>3. PICK q, S, N : q = reqs[Len(answered)] /\ S = RestsOf(reqs)[Len(answered)]
        /\ N = RestsOf(reqs)[Len(answered) + 1]
    OBVIOUS
  <2>4. /\ Len(answered) \in 1 .. Len(reqs) /\ Len(reqs) \in Nat /\ Matches(conn, buf, wire, q, S)
        /\ S \in Seq(Token) /\ N \in Seq(Token) /\ q.head \in Nat \ {0} /\ Len(q.body) \in Nat
        /\ IsRest(N, S, q.head + Len(q.body))
        /\ conn.request_len = q.head /\ conn.consumed \in Nat
        /\ conn.is_chunked \in 0 .. 4 /\ Len(buf) \in Nat
        /\ wire \in Seq(Token) /\ buf \in Seq(Token) /\ conn \in ConnRecord
    BY <2>2, <2>3, InServed
  <2> DEFINE l == q.head + Len(q.body)
  <2>5. /\ conn.is_chunked # 2 /\ conn.content_len = Len(q.body)
        /\ conn.consumed = Len(q.body) \/ (conn.consumed <= Len(q.body) /\ l <= Len(buf))
    BY <2>2, <2>4 DEF Conn!Discardable, Matches
  <2>6. l \in 0 .. Len(S) /\ Len(buf) <= Len(S) /\ \A i \in 1 .. Len(buf) : buf[i] = S[i]
    BY <2>4 DEF IsRest, Matches
  <2>7. IsRest(wire, S, IF l > Len(buf) THEN l ELSE Len(buf))
    <3>1. Larger(conn.request_len + conn.consumed, Len(buf)) = IF l > Len(buf) THEN l ELSE Len(buf)
      BY SMTT(30), <2>4, <2>5 DEF Larger
    <3>2. IsRest(wire, S, Larger(conn.request_len + conn.consumed, Len(buf)))
      BY <2>4, <2>5 DEF Matches
    <3> QED BY <3>1, <3>2
  <2>8. /\ buf' \in Seq(Token) /\ IsRest(buf', buf, IF l < Len(buf) THEN l ELSE Len(buf))
    <3> DEFINE m == IF l < Len(buf) THEN l ELSE Len(buf)
    <3>1. m \in 0 .. Len(buf)
      BY <2>4
    <3>2. buf' = SubSeq(buf, m + 1, Len(buf))
      BY <2>1, <2>4, <2>5 DEF Conn!Rest, Conn!Smaller
    <3> HIDE DEF m
    <3>3. buf' \in Seq(Token) /\ IsRest(buf', buf, m)
      BY <2>4, <3>1, <3>2, RestSo
    <3> QED BY <3>3 DEF m
  <2> HIDE DEF l
  <2>9. IsCat(N, buf', wire)
    BY <2>4, <2>6, <2>7, <2>8, Discarded DEF l
  <2>10. Len(buf') <= BufSize
    <3>1. Len(buf') \in Nat /\ Len(buf') <= Len(buf) /\ Len(buf) <= BufSize
      BY <1>1, <2>4, <2>8 DEF IsRest, ConnTyped
    <3> QED BY <2>4, <3>1 DEF ConnHypothesis, Conn!BufferAssumption
  <2>11. conn' \in ConnRecord /\ conn'.request_len = 0
    BY <2>1 DEF Conn!Fresh, ConnRecord, ConnHypothesis, Conn!BufferAssumption
  <2>12. ConnTyped'
    BY <1>1, <1>2, <2>1, <2>8, <2>10, <2>11 DEF ConnTyped
  <2>13. AtRead'
    <3>1. Len(answered) + 1 \in 1 .. Len(reqs) + 1
      BY <2>4
    <3> QED BY <1>1, <2>1, <2>3, <2>9, <3>1 DEF AtRead
  <2> QED BY <2>1, <2>12, <2>13 DEF ConnInv, InRequest, AtWork, InCall
<1> QED BY <1>3, <1>4

LEMMA ConnClose == ASSUME ConnInv, Conn!CloseConnection PROVE ConnInv'
<1>1. /\ pc' = "closed" /\ conn' = [conn EXCEPT !.must_close = TRUE]
      /\ UNCHANGED <<reqs, wire, buf, call, answered>>
      /\ conn \in ConnRecord
  BY DEF Conn!CloseConnection, ConnInv, ConnTyped
<1>2. conn' \in ConnRecord /\ conn'.request_len = conn.request_len
  BY <1>1 DEF ConnRecord
<1>3. ConnTyped'
  BY <1>1, <1>2 DEF ConnInv, ConnTyped
<1> QED BY <1>1, <1>3 DEF ConnInv, AtRead, InRequest, AtWork, InCall

LEMMA ConnStep == ASSUME ConnHypothesis PROVE ConnInv /\ [Conn!Next]_(Conn!vars) => ConnInv'
<1> SUFFICES ASSUME ConnInv, [Conn!Next]_(Conn!vars) PROVE ConnInv'
  OBVIOUS
<1>1. CASE UNCHANGED Conn!vars
  BY <1>1, ConnFrame DEF Conn!vars
<1>2. CASE Conn!Stop \/ Conn!Leave
  BY <1>2, ConnFrame DEF Conn!Stop, Conn!Leave
<1> QED BY <1>1, <1>2, ConnReceive, ConnGiveUp, ConnGetRequest, ConnRound, ConnReadData,
     ConnReadCrlf,
           ConnReadSize, ConnReadTrailer, ConnNextRequest, ConnClose, ConnRead, ConnSay,
           ConnHandlerReturns DEF Conn!Next, Conn!Worker

(* What a connection's attributes, and the call of mg_read, may be.        *)
THEOREM ConnTypes == ASSUME ConnHypothesis PROVE Conn!Spec => []Conn!TypeOK
<1>1. ConnInv => Conn!TypeOK
  BY DEF ConnInv, ConnTyped, ConnRecord, CallRecord, InCall, Conn!TypeOK
<1> QED BY <1>1, ConnInit, ConnStep, PTL DEF Conn!Spec

(* DEBUG_ASSERTs of get_message and process_new_connection: the buffer is  *)
(* never filled beyond its size, and a header that was found is in it.     *)
THEOREM ConnBuffer == ASSUME ConnHypothesis PROVE Conn!Spec => []Conn!BufferSound
<1>1. ConnInv => Conn!BufferSound
  BY DEF ConnInv, ConnTyped, ConnRecord, Conn!BufferSound
<1> QED BY <1>1, ConnInit, ConnStep, PTL DEF Conn!Spec

(* However a client's bytes arrive, whatever its handlers read of a body,  *)
(* and after whatever broken body: where the next request is looked for,   *)
(* one of the client's requests starts, the one whose turn it is           *)
(* (process_new_connection's discard).                                     *)
THEOREM ConnInStep == ASSUME ConnHypothesis PROVE Conn!Spec => []Conn!InStep
<1>1. ConnInv => Conn!InStep
  <2> SUFFICES ASSUME ConnInv, pc = "read", buf \o wire # <<>>
               PROVE  (buf \o wire)[1].k \in {"head", "end", "bad"} /\ (buf \o wire)[1].r = Len(answered) + 1
    BY DEF Conn!InStep
  <2>1. PICK r : r = Len(answered) + 1
    OBVIOUS
  <2>2. /\ reqs \in Streams /\ wire \in Seq(Token) /\ buf \in Seq(Token)
        /\ r \in 1 .. Len(reqs) + 1 /\ IsCat(RestsOf(reqs)[r], buf, wire)
    BY <2>1 DEF ConnInv, ConnTyped, AtRead
  <2>3. Len(reqs) \in Nat /\ RestsSo(RestsOf(reqs), reqs) /\ RestsOf(reqs)[r] \in Seq(Token)
    <3>1. reqs \in Seq(Requests) /\ RestsSo(RestsOf(reqs), reqs)
      BY <2>2, RestsThere
    <3>2. RestsOf(reqs) \in [1 .. Len(reqs) + 1 -> Seq(Token)]
      BY <3>1 DEF RestsSo
    <3>3. Len(reqs) \in Nat
      BY <3>1
    <3> QED BY <2>2, <3>1, <3>2, <3>3
  <2>4. RestsOf(reqs)[r] = buf \o wire
    BY <2>2, <2>3, CatSo, CatIs
  <2>5. r # Len(reqs) + 1
    BY <2>3, <2>4 DEF RestsSo
  <2>6. r \in 1 .. Len(reqs)
    BY <2>2, <2>3, <2>5
  <2>7. FromOn(RestsOf(reqs)[r], RestsOf(reqs)[r + 1], reqs[r], r)
    BY <2>2, <2>6, RestAt
  <2>8. 1 \in 1 .. reqs[r].head /\ reqs[r].ends \in {"end", "bad"}
    BY <2>7 DEF FromOn, Requests
  <2>9. RestsOf(reqs)[r][1].r = r /\ RestsOf(reqs)[r][1].k \in {"head", "end", "bad"}
    BY <2>7, <2>8 DEF FromOn
  <2> QED BY <2>1, <2>4, <2>9
<1> QED BY <1>1, ConnInit, ConnStep, PTL DEF Conn!Spec

(* A handler that has told its client "Connection: close" is followed by   *)
(* no other request on that connection (suggest_connection_header and      *)
(* process_new_connection ask should_keep_alive the same).                 *)
THEOREM ConnClosedAsSaid == ASSUME ConnHypothesis PROVE Conn!Spec => [][Conn!ClosedAsSaid]_(Conn!vars)
<1>1. ConnInv /\ [Conn!Next]_(Conn!vars) => [Conn!ClosedAsSaid]_(Conn!vars)
  <2> SUFFICES ASSUME ConnInv, Conn!Next, said = "close", pc' = "read" PROVE FALSE
    BY DEF Conn!ClosedAsSaid
  <2>1. pc # "read"
    BY DEF ConnInv, AtRead
  <2>2. Conn!NextRequest
    BY <2>1 DEF Conn!Next, Conn!Worker, Conn!Stop, Conn!Leave, Conn!Receive, Conn!GiveUp,
         Conn!NoMessage,
           Conn!GetRequest, Conn!Round, Conn!Returns, Conn!ReadData, Conn!Broken, Conn!ReadCrlf, Conn!ReadSize,
           Conn!ReadTrailer, Conn!CloseConnection, Conn!Read, Conn!ReadPlain, Conn!ReadChunked,
           Conn!SayConnection, Conn!HandlerReturns
  <2>3. pc = "after" /\ Conn!Keep
    BY <2>2 DEF Conn!NextRequest
  <2>4. Conn!ShouldKeepAlive /\ AtWork
    BY <2>3 DEF Conn!Keep, Conn!ShouldKeepAlive, AtWork
  <2> QED BY <2>4 DEF ConnInv, InRequest
<1> QED BY <1>1, ConnInit, ConnStep, PTL DEF Conn!Spec

-----------------------------------------------------------------------------
(* The HTTP client *)

Piece == [r : Nat, k : {"h", "H", "b", "e"}]

(* Of the tokens of a stream: a header goes on until its end, and after    *)
(* the end of the header of a chunked response comes its body, as far as   *)
(* the stream goes.                                                        *)
BodyFrom(q, i, n) ==
    /\ \A j \in 1 .. n : i + j <= Len(q) => q[i + j].k = "b"
    /\ i + n + 1 <= Len(q) => q[i + n + 1].k = "e"
HeadGoesOn(q, i) == i < Len(q) => q[i + 1].r = q[i].r /\ q[i + 1].k \in {"h", "H"}
IsChunkedEnd(s, t) == t.k = "H" /\ s[t.r].framing = "chunked"
Shape(s, q) ==
    \A i \in 1 .. Len(q) :
       /\ q[i].r \in 1 .. Len(s)
       /\ q[i].k = "h" => HeadGoesOn(q, i)
       /\ IsChunkedEnd(s, q[i]) => BodyFrom(q, i, s[q[i].r].body)
(* Neither a header nor a chunked body is broken off.                      *)
Ended(s, q) ==
    \A i \in 1 .. Len(q) :
       /\ q[i].k = "h" => i < Len(q)
       /\ IsChunkedEnd(s, q[i]) => i + s[q[i].r].body + 1 <= Len(q)

Answer == [status : Nat, framing : {"length", "chunked", "close"}, head : Nat, body : Nat,
           interim : BOOLEAN]
IsScript(s) == s \in Seq(Answer)

LEMMA AnswerIs ==
    ASSUME NEW s, IsScript(s), NEW r \in 1 .. Len(s)
    PROVE  s[r] \in Answer /\ s[r].body \in Nat /\ s[r].head \in Nat
<1>1. s[r] \in Answer
  BY ElementOfSeq DEF IsScript
<1> QED BY <1>1 DEF Answer

LEMMA BodyShift ==
    ASSUME NEW q \in Seq(Piece), NEW t \in Seq(Piece), NEW m, IsRest(t, q, m), NEW i \in Nat, NEW n \in Nat
    PROVE  BodyFrom(q, m + i, n) <=> BodyFrom(t, i, n)
<1>1. /\ m \in Nat /\ Len(q) \in Nat /\ Len(t) = Len(q) - m /\ Len(t) \in Nat
      /\ \A x \in 1 .. Len(t) : t[x] = q[m + x]
  BY DEF IsRest
<1>2. ASSUME NEW j \in Nat, j >= 1
      PROVE  /\ m + i + j <= Len(q) <=> i + j <= Len(t)
             /\ i + j <= Len(t) => t[i + j] = q[m + i + j]
  <2>1. i + j \in Nat /\ i + j >= 1 /\ m + (i + j) = m + i + j
    BY <1>1, <1>2
  <2> QED BY <1>1, <2>1
<1>3. ASSUME NEW j \in 1 .. n
      PROVE  /\ m + i + j <= Len(q) <=> i + j <= Len(t)
             /\ i + j <= Len(t) => t[i + j] = q[m + i + j]
  <2>1. j \in Nat /\ j >= 1
    OBVIOUS
  <2> QED BY <2>1, <1>2
<1>5. /\ m + i + n + 1 <= Len(q) <=> i + n + 1 <= Len(t)
      /\ i + n + 1 <= Len(t) => t[i + n + 1] = q[m + i + n + 1]
  <2> DEFINE j == n + 1
  <2>1. j \in Nat /\ j >= 1
    OBVIOUS
  <2>2. m + i + n + 1 = m + i + j /\ i + n + 1 = i + j
    BY <1>1
  <2> HIDE DEF j
  <2>3. /\ m + i + j <= Len(q) <=> i + j <= Len(t)
        /\ i + j <= Len(t) => t[i + j] = q[m + i + j]
    BY <2>1, <1>2
  <2> QED BY <2>2, <2>3
<1> QED BY <1>3, <1>5 DEF BodyFrom

LEMMA ShapeRest ==
    ASSUME NEW s, IsScript(s), NEW q \in Seq(Piece), NEW t \in Seq(Piece), NEW m, IsRest(t, q, m),
           Shape(s, q)
    PROVE  Shape(s, t) /\ (Ended(s, q) => Ended(s, t))
<1>1. /\ m \in Nat /\ Len(q) \in Nat /\ Len(t) = Len(q) - m
      /\ \A x \in 1 .. Len(t) : t[x] = q[m + x]
  BY DEF IsRest
<1> SUFFICES ASSUME NEW i \in 1 .. Len(t)
             PROVE  /\ t[i].r \in 1 .. Len(s)
                    /\ t[i].k = "h" => HeadGoesOn(t, i)
                    /\ IsChunkedEnd(s, t[i]) => BodyFrom(t, i, s[t[i].r].body)
                    /\ Ended(s, q) => /\ t[i].k = "h" => i < Len(t)
                                      /\ IsChunkedEnd(s, t[i]) => i + s[t[i].r].body + 1 <= Len(t)
  BY DEF Shape, Ended
<1>2. i \in Nat /\ m + i \in 1 .. Len(q) /\ t[i] = q[m + i] /\ m + (i + 1) = m + i + 1
  BY <1>1
<1>3. i < Len(t) <=> m + i < Len(q)
  BY <1>1
<1>4. i < Len(t) => t[i + 1] = q[m + i + 1]
  BY <1>1, <1>2
<1>5. t[i].r \in 1 .. Len(s)
  BY <1>2 DEF Shape
<1>6. t[i].k = "h" => HeadGoesOn(t, i)
  BY <1>2, <1>3, <1>4 DEF Shape, HeadGoesOn
<1>7. s[t[i].r].body \in Nat
  BY <1>5, AnswerIs
<1>8. IsChunkedEnd(s, t[i]) => BodyFrom(t, i, s[t[i].r].body)
  BY <1>2, <1>7, BodyShift DEF Shape
<1>9. ASSUME Ended(s, q)
      PROVE  /\ t[i].k = "h" => i < Len(t)
             /\ IsChunkedEnd(s, t[i]) => i + s[t[i].r].body + 1 <= Len(t)
  <2>1. /\ t[i].k = "h" => m + i < Len(q)
        /\ IsChunkedEnd(s, t[i]) => m + i + s[t[i].r].body + 1 <= Len(q)
    BY <1>2, <1>9 DEF Ended
  <2> QED BY <1>1, <1>2, <1>3, <1>7, <2>1
<1> QED BY <1>5, <1>6, <1>8, <1>9

LEMMA BodyFront ==
    ASSUME NEW d \in Seq(Piece), NEW a \in Seq(Piece), NEW b \in Seq(Piece), IsCat(d, a, b),
           NEW i \in Nat, NEW n \in Nat, BodyFrom(d, i, n)
    PROVE  BodyFrom(a, i, n)
<1>0. Len(d) \in Nat /\ Len(a) \in Nat /\ Len(b) \in Nat
  OBVIOUS
<1>1. Len(a) <= Len(d) /\ \A x \in 1 .. Len(a) : a[x] = d[x]
  <2>1. Len(d) = Len(a) + Len(b)
    BY DEF IsCat
  <2>2. \A x \in 1 .. Len(a) : d[x] = a[x]
    BY DEF IsCat
  <2> QED BY <1>0, <2>1, <2>2
<1>2. ASSUME NEW j \in 1 .. n, i + j <= Len(a) PROVE a[i + j].k = "b"
  <2>1. i + j \in 1 .. Len(a) /\ i + j <= Len(d)
    BY <1>0, <1>1, <1>2
  <2>2. d[i + j].k = "b"
    BY <2>1 DEF BodyFrom
  <2> QED BY <1>1, <2>1, <2>2
<1>3. ASSUME i + n + 1 <= Len(a) PROVE a[i + n + 1].k = "e"
  <2>1. i + n + 1 \in 1 .. Len(a) /\ i + n + 1 <= Len(d)
    BY <1>0, <1>1, <1>3
  <2>2. d[i + n + 1].k = "e"
    BY <2>1 DEF BodyFrom
  <2> QED BY <1>1, <2>1, <2>2
<1> QED BY <1>2, <1>3 DEF BodyFrom

LEMMA ShapeFront ==
    ASSUME NEW s, IsScript(s), NEW d \in Seq(Piece), NEW a \in Seq(Piece), NEW b \in Seq(Piece),
           IsCat(d, a, b), Shape(s, d)
    PROVE  Shape(s, a)
<1>1. Len(d) \in Nat /\ Len(a) \in Nat /\ Len(a) <= Len(d) /\ \A x \in 1 .. Len(a) : a[x] = d[x]
  BY DEF IsCat
<1> SUFFICES ASSUME NEW i \in 1 .. Len(a)
             PROVE  /\ a[i].r \in 1 .. Len(s)
                    /\ a[i].k = "h" => HeadGoesOn(a, i)
                    /\ IsChunkedEnd(s, a[i]) => BodyFrom(a, i, s[a[i].r].body)
  BY DEF Shape
<1>2. i \in 1 .. Len(d) /\ a[i] = d[i]
  BY <1>1
<1>3. i < Len(a) => i < Len(d) /\ a[i + 1] = d[i + 1]
  BY <1>1
<1>4. a[i].r \in 1 .. Len(s) /\ (a[i].k = "h" => HeadGoesOn(a, i))
  BY <1>2, <1>3 DEF Shape, HeadGoesOn
<1>5. s[a[i].r].body \in Nat
  BY <1>4, AnswerIs
<1>6. IsChunkedEnd(s, a[i]) => BodyFrom(a, i, s[a[i].r].body)
  BY <1>2, <1>5, BodyFront DEF Shape
<1> QED BY <1>4, <1>6

LEMMA ShapeCat ==
    ASSUME NEW s, IsScript(s), NEW d \in Seq(Piece), NEW a \in Seq(Piece), NEW b \in Seq(Piece),
           IsCat(d, a, b), Shape(s, a), Ended(s, a), Shape(s, b), Ended(s, b)
    PROVE  Shape(s, d) /\ Ended(s, d)
<1>1. /\ Len(d) \in Nat /\ Len(a) \in Nat /\ Len(b) \in Nat /\ Len(d) = Len(a) + Len(b)
      /\ \A x \in 1 .. Len(a) : d[x] = a[x]
  BY DEF IsCat
<1> SUFFICES ASSUME NEW i \in 1 .. Len(d)
             PROVE  /\ d[i].r \in 1 .. Len(s)
                    /\ d[i].k = "h" => HeadGoesOn(d, i)
                    /\ IsChunkedEnd(s, d[i]) => BodyFrom(d, i, s[d[i].r].body)
                    /\ d[i].k = "h" => i < Len(d)
                    /\ IsChunkedEnd(s, d[i]) => i + s[d[i].r].body + 1 <= Len(d)
  BY DEF Shape, Ended
<1>2. CASE i \in 1 .. Len(a)
  <2>1. /\ d[i] = a[i] /\ a[i].r \in 1 .. Len(s)
        /\ a[i].k = "h" => HeadGoesOn(a, i) /\ i < Len(a)
        /\ IsChunkedEnd(s, a[i]) => /\ BodyFrom(a, i, s[a[i].r].body)
                                    /\ i + s[a[i].r].body + 1 <= Len(a)
    BY <1>1, <1>2 DEF Shape, Ended
  <2>2. d[i].k = "h" => HeadGoesOn(d, i) /\ i < Len(d)
    BY <1>1, <1>2, <2>1 DEF HeadGoesOn
  <2>3. s[a[i].r].body \in Nat
    BY <2>1, AnswerIs
  <2>4. ASSUME NEW n \in Nat, BodyFrom(a, i, n), i + n + 1 <= Len(a) PROVE BodyFrom(d, i, n)
    <3>1. \A j \in 1 .. n : i + j \in 1 .. Len(a)
      BY <1>1, <1>2, <2>4
    <3>2. i + n + 1 \in 1 .. Len(a)
      BY <1>1, <1>2, <2>4
    <3>3. ASSUME NEW j \in 1 .. n PROVE i + j <= Len(d) /\ d[i + j].k = "b"
      <4>1. a[i + j].k = "b"
        <5>1. i + j <= Len(a)
          <6>1. i + j \in 1 .. Len(a)
            BY <3>1
          <6> QED BY <6>1
        <5>2. \A y \in 1 .. n : i + y <= Len(a) => a[i + y].k = "b"
          BY <2>4 DEF BodyFrom
        <5> QED BY <5>1, <5>2
      <4>2. i + j \in 1 .. Len(a)
        BY <3>1
      <4>3. PICK y \in 1 .. Len(a) : y = i + j
        BY <4>2
      <4>4. y <= Len(d) /\ d[y] = a[y]
        BY <1>1
      <4> QED BY <4>1, <4>3, <4>4
    <3>4. d[i + n + 1].k = "e"
      <4>1. a[i + n + 1].k = "e"
        BY <2>4, <3>2 DEF BodyFrom
      <4> QED BY <1>1, <3>2, <4>1
    <3> QED BY <3>3, <3>4 DEF BodyFrom
  <2>5. IsChunkedEnd(s, d[i]) => BodyFrom(d, i, s[d[i].r].body)
    BY <2>1, <2>3, <2>4
  <2>6. IsChunkedEnd(s, d[i]) => i + s[d[i].r].body + 1 <= Len(d)
    BY <1>1, <2>1, <2>3
  <2> QED BY <2>1, <2>2, <2>5, <2>6
<1>3. CASE i \notin 1 .. Len(a)
  <2>1. PICK x \in 1 .. Len(b) : i = Len(a) + x
    <3>1. i - Len(a) \in 1 .. Len(b) /\ i = Len(a) + (i - Len(a))
      BY <1>1, <1>3
    <3> QED BY <3>1
  <2>2. /\ d[i] = b[x] /\ b[x].r \in 1 .. Len(s)
        /\ b[x].k = "h" => HeadGoesOn(b, x) /\ x < Len(b)
        /\ IsChunkedEnd(s, b[x]) => /\ BodyFrom(b, x, s[b[x].r].body)
                                    /\ x + s[b[x].r].body + 1 <= Len(b)
    BY <2>1 DEF IsCat, Shape, Ended
  <2>3. x < Len(b) => d[i + 1] = b[x + 1]
    <3>1. ASSUME x < Len(b) PROVE x + 1 \in 1 .. Len(b) /\ Len(a) + (x + 1) = i + 1
      BY <1>1, <2>1, <3>1
    <3> QED BY <3>1 DEF IsCat
  <2>4. d[i].k = "h" => HeadGoesOn(d, i) /\ i < Len(d)
    BY <1>1, <2>1, <2>2, <2>3 DEF HeadGoesOn
  <2>5. s[b[x].r].body \in Nat
    BY <2>2, AnswerIs
  <2>6. IsRest(b, d, Len(a))
    BY RestOfCat
  <2>7. x \in Nat
    BY <2>1
  <2>8. \A n \in Nat : BodyFrom(d, Len(a) + x, n) <=> BodyFrom(b, x, n)
    BY <2>6, <2>7, BodyShift
  <2>9. IsChunkedEnd(s, d[i]) => BodyFrom(d, i, s[d[i].r].body)
    BY <2>1, <2>2, <2>5, <2>8
  <2>10. IsChunkedEnd(s, d[i]) => i + s[d[i].r].body + 1 <= Len(d)
    <3>1. ASSUME NEW n \in Nat, x + n + 1 <= Len(b) PROVE i + n + 1 <= Len(d)
      BY <1>1, <2>1, <2>7, <3>1
    <3> QED BY <2>2, <2>5, <3>1
  <2> QED BY <2>2, <2>4, <2>9, <2>10
<1> QED BY <1>2, <1>3

(* The first token that ends a header is of the response the header begins. *)
LEMMA FirstHeader ==
    ASSUME NEW s, NEW q \in Seq(Piece), Shape(s, q), NEW e \in 1 .. Len(q), q[e].k = "H",
           \A i \in 1 .. e - 1 : q[i].k # "H", q[1].k = "h"
    PROVE  q[e].r = q[1].r
<1> DEFINE Odd == {i \in 1 .. e : ~ (q[i].r = q[1].r /\ q[i].k \in {"h", "H"})}
<1> SUFFICES ASSUME Odd # {} PROVE FALSE
  OBVIOUS
<1>1. PICK m \in Odd : \A n \in Odd : m <= n
  <2>1. Odd \in SUBSET Nat
    OBVIOUS
  <2> HIDE DEF Odd
  <2> QED BY <2>1, LeastNat
<1>2. m \in 2 .. e
  BY <1>1
<1>3. m - 1 \in 1 .. e - 1 /\ m - 1 \notin Odd /\ m - 1 + 1 = m /\ m - 1 < Len(q) /\ m - 1 \in 1 .. Len(q)
  BY <1>1, <1>2
<1>4. q[m - 1].r = q[1].r /\ q[m - 1].k = "h"
  BY <1>3
<1>5. q[m].r = q[1].r /\ q[m].k \in {"h", "H"}
  BY <1>3, <1>4 DEF Shape, HeadGoesOn
<1> QED BY <1>1, <1>5

(* EndOfHeader is the first of them.                                       *)
LEMMA EndOfHeaderIs ==
    ASSUME NEW b \in Seq(Piece)
    PROVE  /\ Caller!EndOfHeader(b) \in 0 .. Len(b)
           /\ Caller!EndOfHeader(b) = 0 => \A i \in 1 .. Len(b) : b[i].k # "H"
           /\ Caller!EndOfHeader(b) > 0 =>
                /\ b[Caller!EndOfHeader(b)].k = "H"
                /\ \A i \in 1 .. Caller!EndOfHeader(b) - 1 : b[i].k # "H"
           /\ \A e \in 1 .. Len(b) :
                b[e].k = "H" /\ (\A i \in 1 .. e - 1 : b[i].k # "H") => Caller!EndOfHeader(b) = e
<1> DEFINE S == {i \in 1 .. Len(b) : b[i].k = "H"}
<1>1. Caller!EndOfHeader(b) = IF S # {} THEN Caller!Min(S) ELSE 0
  BY DEF Caller!EndOfHeader, Caller!SelectInSeq
<1>2. S # {} => Caller!Min(S) \in S /\ \A n \in S : Caller!Min(S) <= n
  <2>1. S \in SUBSET Nat
    OBVIOUS
  <2> HIDE DEF S
  <2>2. S # {} => \E m \in S : \A n \in S : m <= n
    BY <2>1, LeastNat
  <2> QED BY <2>2 DEF Caller!Min
<1>3. CASE S = {}
  BY <1>1, <1>3
<1>4. CASE S # {}
  <2>1. PICK m \in S : m = Caller!EndOfHeader(b) /\ \A n \in S : m <= n
    BY <1>1, <1>2, <1>4
  <2>2. m \in 1 .. Len(b) /\ b[m].k = "H"
    OBVIOUS
  <2>3. \A i \in 1 .. m - 1 : b[i].k # "H"
    BY <2>1, <2>2
  <2>4. \A e \in 1 .. Len(b) :
                b[e].k = "H" /\ (\A i \in 1 .. e - 1 : b[i].k # "H") => m = e
    BY <2>1, <2>2, <2>3
  <2> QED BY <2>1, <2>2, <2>3, <2>4
<1> QED BY <1>3, <1>4

LEMMA FourParts ==
    ASSUME NEW X, NEW a \in Seq(X), NEW b \in Seq(X), NEW c \in Seq(X), NEW x \in X
    PROVE  /\ a \o <<x>> \o b \o c \in Seq(X)
           /\ Len(a \o <<x>> \o b \o c) = Len(a) + 1 + Len(b) + Len(c)
           /\ \A i \in 1 .. Len(a) : (a \o <<x>> \o b \o c)[i] = a[i]
           /\ (a \o <<x>> \o b \o c)[Len(a) + 1] = x
           /\ \A i \in 1 .. Len(b) : (a \o <<x>> \o b \o c)[Len(a) + 1 + i] = b[i]
           /\ \A i \in 1 .. Len(c) : (a \o <<x>> \o b \o c)[Len(a) + 1 + Len(b) + i] = c[i]
<1> DEFINE u == <<x>> v == a \o u w == v \o b d == w \o c
<1>1. u \in Seq(X) /\ Len(u) = 1 /\ u[1] = x
  OBVIOUS
<1> HIDE DEF u
<1>2. v \in Seq(X) /\ IsCat(v, a, u)
  BY <1>1, CatSo
<1> HIDE DEF v
<1>3. w \in Seq(X) /\ IsCat(w, v, b)
  BY <1>2, CatSo
<1> HIDE DEF w
<1>4. d \in Seq(X) /\ IsCat(d, w, c)
  BY <1>3, CatSo
<1>5. d = a \o <<x>> \o b \o c
  BY DEF w, v, u
<1> HIDE DEF d
<1>6. /\ Len(a) \in Nat /\ Len(b) \in Nat /\ Len(c) \in Nat
      /\ Len(v) = Len(a) + 1 /\ Len(w) = Len(v) + Len(b) /\ Len(d) = Len(w) + Len(c)
  BY <1>1, <1>2, <1>3, <1>4 DEF IsCat
<1>7. \A i \in 1 .. Len(v) : d[i] = v[i]
  BY <1>3, <1>4, <1>6 DEF IsCat
<1>8. \A i \in 1 .. Len(a) : d[i] = a[i]
  <2>1. \A i \in 1 .. Len(a) : v[i] = a[i]
    BY <1>2 DEF IsCat
  <2>2. \A i \in 1 .. Len(a) : i \in 1 .. Len(v)
    BY <1>6
  <2> QED BY <1>7, <2>1, <2>2
<1>9. d[Len(a) + 1] = x
  <2>1. 1 \in 1 .. Len(u) /\ Len(a) + 1 \in 1 .. Len(v)
    BY <1>1, <1>6
  <2>2. v[Len(a) + 1] = u[1]
    BY <1>2, <2>1 DEF IsCat
  <2> QED BY <1>1, <1>7, <2>1, <2>2
<1>10. ASSUME NEW i \in 1 .. Len(b) PROVE d[Len(a) + 1 + i] = b[i]
  <2>1. Len(v) + i \in 1 .. Len(w) /\ Len(v) + i = Len(a) + 1 + i
    BY <1>6
  <2>2. w[Len(v) + i] = b[i] /\ d[Len(v) + i] = w[Len(v) + i]
    BY <1>3, <1>4, <2>1 DEF IsCat
  <2> QED BY <2>1, <2>2
<1>11. ASSUME NEW i \in 1 .. Len(c) PROVE d[Len(a) + 1 + Len(b) + i] = c[i]
  <2>1. Len(w) + i = Len(a) + 1 + Len(b) + i
    BY <1>6
  <2>2. d[Len(w) + i] = c[i]
    BY <1>4 DEF IsCat
  <2> QED BY <2>1, <2>2
<1>12. Len(d) = Len(a) + 1 + Len(b) + Len(c)
  BY <1>6
<1> QED BY <1>4, <1>5, <1>8, <1>9, <1>10, <1>11, <1>12

(* t is h parts of a header, its end, n tokens of a body and, if it is     *)
(* chunked, the end of the body.                                           *)
Kind(i, h, n) == IF i <= h THEN "h" ELSE IF i = h + 1 THEN "H" ELSE IF i <= h + 1 + n THEN "b" ELSE "e"
Laid(t, r, h, n, chunked) ==
    /\ Len(t) = h + 1 + n + (IF chunked THEN 1 ELSE 0)
    /\ \A i \in 1 .. Len(t) : t[i].r = r /\ t[i].k = Kind(i, h, n)

LEMMA LaidShape ==
    ASSUME NEW s, IsScript(s), NEW r \in 1 .. Len(s), NEW n \in Nat, NEW h \in Nat, n = s[r].body,
           NEW t \in Seq(Piece), Laid(t, r, h, n, s[r].framing = "chunked")
    PROVE  Shape(s, t) /\ Ended(s, t)
<1>1. Len(t) \in Nat /\ Len(t) >= h + 1 + n /\ (s[r].framing = "chunked" => Len(t) = h + 2 + n)
  <2>1. Len(t) = h + 1 + n + (IF s[r].framing = "chunked" THEN 1 ELSE 0)
    BY DEF Laid
  <2>2. CASE s[r].framing = "chunked"
    <3>1. Len(t) = h + 1 + n + 1
      BY <2>1, <2>2
    <3> QED BY <3>1
  <2>3. CASE s[r].framing # "chunked"
    <3>1. Len(t) = h + 1 + n + 0
      BY <2>1, <2>3
    <3> QED BY <2>3, <3>1
  <2> QED BY <2>2, <2>3
<1>2. \A i \in 1 .. Len(t) : t[i].r = r /\ t[i].k = Kind(i, h, n)
  BY DEF Laid
<1>3. ASSUME NEW i \in 1 .. Len(t)
      PROVE  /\ t[i].r \in 1 .. Len(s)
             /\ t[i].k = "h" => HeadGoesOn(t, i) /\ i < Len(t)
             /\ IsChunkedEnd(s, t[i]) => /\ BodyFrom(t, i, s[t[i].r].body)
                                         /\ i + s[t[i].r].body + 1 <= Len(t)
  <2>1. t[i].r = r /\ (t[i].k = "h" => i <= h) /\ (t[i].k = "H" => i = h + 1)
    BY <1>2 DEF Kind
  <2>2. ASSUME t[i].k = "h" PROVE HeadGoesOn(t, i) /\ i < Len(t)
    <3>1. i <= h
      BY <2>1, <2>2
    <3>2. i + 1 \in 1 .. Len(t) /\ i < Len(t) /\ i + 1 <= h + 1
      BY <1>1, <3>1
    <3>3. t[i + 1].r = r /\ t[i + 1].k = Kind(i + 1, h, n)
      BY <1>2, <3>2
    <3>4. Kind(i + 1, h, n) \in {"h", "H"}
      BY <3>2 DEF Kind
    <3> QED BY <2>1, <3>2, <3>3, <3>4 DEF HeadGoesOn
  <2>3. ASSUME IsChunkedEnd(s, t[i])
        PROVE  /\ BodyFrom(t, i, s[t[i].r].body)
               /\ i + s[t[i].r].body + 1 <= Len(t)
    <3>1. i = h + 1 /\ s[r].framing = "chunked" /\ s[t[i].r].body = n
      BY <2>1, <2>3 DEF IsChunkedEnd
    <3>2. ASSUME NEW j \in 1 .. n PROVE t[i + j].k = "b"
      <4>1. i + j \in 1 .. Len(t) /\ ~ (i + j <= h) /\ i + j # h + 1 /\ i + j <= h + 1 + n
        BY SMTT(30), <1>1, <3>1
      <4>2. t[i + j].k = Kind(i + j, h, n)
        BY <1>2, <4>1
      <4> QED BY <4>1, <4>2 DEF Kind
    <3>3. t[i + n + 1].k = "e" /\ i + n + 1 <= Len(t)
      <4>1. /\ i + n + 1 \in 1 .. Len(t) /\ ~ (i + n + 1 <= h) /\ i + n + 1 # h + 1
            /\ ~ (i + n + 1 <= h + 1 + n) /\ i + n + 1 <= Len(t)
        BY <1>1, <3>1
      <4>2. t[i + n + 1].k = Kind(i + n + 1, h, n)
        BY <1>2, <4>1
      <4> QED BY <4>1, <4>2 DEF Kind
    <3> QED BY <3>1, <3>2, <3>3 DEF BodyFrom
  <2> QED BY <2>1, <2>2, <2>3
<1> QED BY <1>3 DEF Shape, Ended

LEMMA PartsLaid ==
    ASSUME NEW r \in Nat, NEW h \in Nat, NEW n \in Nat, NEW chunked \in BOOLEAN
    PROVE  LET t == [i \in 1 .. h |-> [r |-> r, k |-> "h"]] \o <<[r |-> r, k |-> "H"]>>
                    \o [i \in 1 .. n |-> [r |-> r, k |-> "b"]]
                    \o (IF chunked THEN <<[r |-> r, k |-> "e"]>> ELSE <<>>)
           IN t \in Seq(Piece) /\ Laid(t, r, h, n, chunked)
<1> DEFINE hs == [i \in 1 .. h |-> [r |-> r, k |-> "h"]]
           bs == [i \in 1 .. n |-> [r |-> r, k |-> "b"]]
           es == IF chunked THEN <<[r |-> r, k |-> "e"]>> ELSE <<>>
           x == [r |-> r, k |-> "H"]
           t == hs \o <<x>> \o bs \o es
<1>1. hs \in Seq(Piece) /\ Len(hs) = h /\ \A i \in 1 .. h : hs[i].r = r /\ hs[i].k = "h"
  BY DEF Piece
<1>2. bs \in Seq(Piece) /\ Len(bs) = n /\ \A i \in 1 .. n : bs[i].r = r /\ bs[i].k = "b"
  BY DEF Piece
<1>3. /\ es \in Seq(Piece) /\ Len(es) = IF chunked THEN 1 ELSE 0
      /\ \A i \in 1 .. Len(es) : es[i].r = r /\ es[i].k = "e"
  <2>1. CASE chunked
    <3>1. es = <<[r |-> r, k |-> "e"]>>
      BY <2>1
    <3>2. [r |-> r, k |-> "e"] \in Piece
      BY DEF Piece
    <3> HIDE DEF es
    <3>3. es \in Seq(Piece) /\ Len(es) = 1 /\ es[1] = [r |-> r, k |-> "e"]
      BY <3>1, <3>2
    <3>4. \A i \in 1 .. Len(es) : i = 1
      BY <3>3
    <3> QED BY <2>1, <3>3, <3>4
  <2>2. CASE ~ chunked
    <3>1. es = <<>>
      BY <2>2
    <3> HIDE DEF es
    <3> QED BY <2>2, <3>1
  <2> QED BY <2>1, <2>2
<1>4. x \in Piece /\ x.r = r /\ x.k = "H"
  BY DEF Piece
<1> HIDE DEF hs, bs, es, x
<1>5. /\ t \in Seq(Piece) /\ Len(t) = Len(hs) + 1 + Len(bs) + Len(es)
      /\ \A i \in 1 .. Len(hs) : t[i] = hs[i]
      /\ t[Len(hs) + 1] = x
      /\ \A i \in 1 .. Len(bs) : t[Len(hs) + 1 + i] = bs[i]
      /\ \A i \in 1 .. Len(es) : t[Len(hs) + 1 + Len(bs) + i] = es[i]
  <2>1. hs \in Seq(Piece) /\ bs \in Seq(Piece) /\ es \in Seq(Piece) /\ x \in Piece
    BY <1>1, <1>2, <1>3, <1>4
  <2> QED BY <2>1, FourParts
<1> HIDE DEF t
<1>6. PICK l \in Nat : l = Len(es) /\ Len(t) = h + 1 + n + l
  BY <1>1, <1>2, <1>3, <1>5
<1>7. ASSUME NEW i \in 1 .. Len(t) PROVE t[i].r = r /\ t[i].k = Kind(i, h, n)
  <2>1. i \in Nat /\ i >= 1 /\ i <= h + 1 + n + l
    BY <1>6
  <2>2. CASE i <= h
    <3>1. i \in 1 .. Len(hs)
      BY <1>1, <2>1, <2>2
    <3>2. t[i] = hs[i]
      BY <1>5, <3>1
    <3> QED BY <1>1, <2>2, <3>1, <3>2 DEF Kind
  <2>3. CASE i = h + 1
    <3>1. t[i] = x
      BY <1>1, <1>5, <2>3
    <3> QED BY <1>4, <2>3, <3>1 DEF Kind
  <2>4. CASE i > h + 1 /\ i <= h + 1 + n
    <3>1. PICK j \in 1 .. n : i = h + 1 + j
      <4>1. i - h - 1 \in 1 .. n /\ i = h + 1 + (i - h - 1)
        BY <2>1, <2>4
      <4> QED BY <4>1
    <3>2. t[i] = bs[j]
      BY <1>1, <1>2, <1>5, <3>1
    <3>3. ~ (i <= h) /\ i # h + 1
      BY <2>1, <2>4
    <3> QED BY <1>2, <2>4, <3>2, <3>3 DEF Kind
  <2>5. CASE i > h + 1 + n
    <3>1. PICK j \in 1 .. l : i = h + 1 + n + j
      <4>1. i - h - 1 - n \in 1 .. l /\ i = h + 1 + n + (i - h - 1 - n)
        BY <2>1, <2>5
      <4> QED BY <4>1
    <3>2. t[i] = es[j] /\ j \in 1 .. Len(es)
      BY <1>1, <1>2, <1>5, <1>6, <3>1
    <3>3. ~ (i <= h) /\ i # h + 1 /\ ~ (i <= h + 1 + n)
      BY <2>1, <2>5
    <3> QED BY <1>3, <3>2, <3>3 DEF Kind
  <2> QED BY <2>1, <2>2, <2>3, <2>4, <2>5
<1>8. Len(t) = h + 1 + n + (IF chunked THEN 1 ELSE 0)
  BY <1>3, <1>6
<1> QED BY <1>5, <1>7, <1>8 DEF Laid, t, hs, bs, es, x

(* The tokens of a response are whole.                                     *)
LEMMA TokensAre ==
    ASSUME IsScript(script), NEW r \in 1 .. Len(script)
    PROVE  /\ Caller!Tokens(r) \in Seq(Piece)
           /\ Shape(script, Caller!Tokens(r)) /\ Ended(script, Caller!Tokens(r))
<1>1. r \in Nat /\ script[r].head \in Nat /\ script[r].body \in Nat
  BY AnswerIs DEF IsScript
<1>2. /\ Caller!Tokens(r) \in Seq(Piece)
      /\ Laid(Caller!Tokens(r), r, script[r].head, script[r].body, script[r].framing = "chunked")
  BY <1>1, PartsLaid DEF Caller!Tokens
<1>3. PICK h \in Nat, n \in Nat : h = script[r].head /\ n = script[r].body
  BY <1>1
<1>4. Laid(Caller!Tokens(r), r, h, n, script[r].framing = "chunked")
  BY <1>2, <1>3
<1> QED BY <1>2, <1>3, <1>4, LaidShape

LEMMA AfterCat ==
    ASSUME NEW X, NEW f \in Seq(X), NEW g \in Seq(X)
    PROVE  SubSeq(f \o g, Len(f) + 1, Len(f \o g)) = g
<1>1. f \o g \in Seq(X) /\ Len(f) \in 0 .. Len(f \o g) /\ IsCat(f \o g, f, g)
  BY CatSo
<1>2. IsRest(SubSeq(f \o g, Len(f) + 1, Len(f \o g)), f \o g, Len(f))
      /\ SubSeq(f \o g, Len(f) + 1, Len(f \o g)) \in Seq(X)
  BY <1>1, RestSo
<1>3. IsRest(g, f \o g, Len(f))
  BY <1>1, RestOfCat
<1> QED BY <1>2, <1>3, SeqEqual DEF IsRest

LEMMA TailCat ==
    ASSUME NEW X, NEW a \in Seq(X), NEW b \in Seq(X), a # <<>>
    PROVE  /\ Tail(a) \in Seq(X) /\ Tail(a) \o b \in Seq(X) /\ IsRest(Tail(a) \o b, a \o b, 1)
           /\ Len(a \o b) >= 1 /\ (a \o b)[1] = Head(a)
<1>1. /\ Tail(a) \in Seq(X) /\ Len(Tail(a)) = Len(a) - 1 /\ Len(a) \in Nat /\ Len(a) >= 1
      /\ \A i \in 1 .. Len(a) - 1 : Tail(a)[i] = a[i + 1]
  BY HeadTailProperties
<1>2. Tail(a) \o b \in Seq(X) /\ IsCat(Tail(a) \o b, Tail(a), b) /\ a \o b \in Seq(X) /\ IsCat(a \o b, a, b)
  BY <1>1, CatSo
<1>3. /\ Len(b) \in Nat /\ Len(Tail(a) \o b) = Len(a) - 1 + Len(b) /\ Len(a \o b) = Len(a) + Len(b)
  BY <1>1, <1>2 DEF IsCat
<1>4. ASSUME NEW i \in 1 .. Len(Tail(a) \o b) PROVE (Tail(a) \o b)[i] = (a \o b)[1 + i]
  <2>1. CASE i \in 1 .. Len(a) - 1
    <3>1. (Tail(a) \o b)[i] = a[i + 1]
      BY <1>1, <1>2, <2>1 DEF IsCat
    <3>2. i + 1 \in 1 .. Len(a) /\ i + 1 = 1 + i
      BY <1>1, <2>1
    <3> QED BY <1>2, <3>1, <3>2 DEF IsCat
  <2>2. CASE i \notin 1 .. Len(a) - 1
    <3>1. PICK j \in 1 .. Len(b) : i = Len(a) - 1 + j
      <4>1. i - (Len(a) - 1) \in 1 .. Len(b) /\ i = Len(a) - 1 + (i - (Len(a) - 1))
        BY <1>1, <1>3, <2>2
      <4> QED BY <4>1
    <3>2. Len(Tail(a)) + j = i /\ Len(a) + j = 1 + i
      BY <1>1, <3>1
    <3> QED BY <1>2, <3>2 DEF IsCat
  <2> QED BY <2>1, <2>2
<1>5. IsRest(Tail(a) \o b, a \o b, 1)
  BY <1>1, <1>3, <1>4 DEF IsRest
<1>6. (a \o b)[1] = Head(a)
  BY <1>1, <1>2 DEF IsCat
<1> QED BY <1>1, <1>2, <1>3, <1>5, <1>6

LEMMA RestCat ==
    ASSUME NEW X, NEW f \in Seq(X), NEW g \in Seq(X), NEW e \in 0 .. Len(f)
    PROVE  /\ SubSeq(f, e + 1, Len(f)) \o g \in Seq(X)
           /\ IsRest(SubSeq(f, e + 1, Len(f)) \o g, f \o g, e)
<1> DEFINE r == SubSeq(f, e + 1, Len(f))
<1>1. r \in Seq(X) /\ IsRest(r, f, e)
  BY RestSo
<1> HIDE DEF r
<1>2. r \o g \in Seq(X) /\ IsCat(r \o g, r, g) /\ f \o g \in Seq(X) /\ IsCat(f \o g, f, g)
  BY <1>1, CatSo
<1>3. /\ Len(f) \in Nat /\ Len(g) \in Nat /\ Len(r) = Len(f) - e /\ Len(r \o g) = Len(f) - e + Len(g)
      /\ Len(f \o g) = Len(f) + Len(g)
  BY <1>1, <1>2 DEF IsCat, IsRest
<1>4. ASSUME NEW i \in 1 .. Len(r \o g) PROVE (r \o g)[i] = (f \o g)[e + i]
  <2>1. CASE i \in 1 .. Len(r)
    <3>1. (r \o g)[i] = r[i] /\ r[i] = f[e + i]
      BY <1>1, <1>2, <2>1 DEF IsCat, IsRest
    <3>2. e + i \in 1 .. Len(f)
      BY <1>3, <2>1
    <3> QED BY <1>2, <3>1, <3>2 DEF IsCat
  <2>2. CASE i \notin 1 .. Len(r)
    <3>1. PICK j \in 1 .. Len(g) : i = Len(r) + j
      <4>1. i - Len(r) \in 1 .. Len(g) /\ i = Len(r) + (i - Len(r))
        BY <1>3, <2>2
      <4> QED BY <4>1
    <3>2. Len(f) + j = e + i
      BY <1>3, <3>1
    <3> QED BY <1>2, <3>1, <3>2 DEF IsCat
  <2> QED BY <2>1, <2>2
<1>5. IsRest(r \o g, f \o g, e)
  BY <1>3, <1>4 DEF IsRest
<1> QED BY <1>2, <1>5 DEF r

(* The first of b moves behind a.                                          *)
LEMMA OneMoved ==
    ASSUME NEW X, NEW a \in Seq(X), NEW b \in Seq(X), b # <<>>
    PROVE  /\ Append(a, Head(b)) \in Seq(X) /\ Tail(b) \in Seq(X)
           /\ Append(a, Head(b)) \o Tail(b) = a \o b
<1>1. /\ Tail(b) \in Seq(X) /\ Len(Tail(b)) = Len(b) - 1 /\ Len(b) \in Nat /\ Len(b) >= 1
      /\ \A i \in 1 .. Len(b) - 1 : Tail(b)[i] = b[i + 1]
      /\ Head(b) = b[1] /\ Head(b) \in X
  BY HeadTailProperties, ElementOfSeq
<1> DEFINE c == Append(a, Head(b))
<1>2. /\ c \in Seq(X) /\ Len(c) = Len(a) + 1 /\ Len(a) \in Nat
      /\ \A i \in 1 .. Len(a) : c[i] = a[i]
      /\ c[Len(a) + 1] = b[1]
  BY <1>1
<1> HIDE DEF c
<1>3. c \o Tail(b) \in Seq(X) /\ IsCat(c \o Tail(b), c, Tail(b)) /\ a \o b \in Seq(X) /\ IsCat(a \o b, a, b)
  BY <1>1, <1>2, CatSo
<1>4. Len(c \o Tail(b)) = Len(a) + Len(b) /\ Len(a \o b) = Len(a) + Len(b)
  BY <1>1, <1>2, <1>3 DEF IsCat
<1>5. ASSUME NEW i \in 1 .. Len(a) + Len(b) PROVE (c \o Tail(b))[i] = (a \o b)[i]
  <2>1. CASE i \in 1 .. Len(a)
    <3>1. i \in 1 .. Len(c)
      BY <1>2, <2>1
    <3> QED BY <1>2, <1>3, <2>1, <3>1 DEF IsCat
  <2>2. CASE i = Len(a) + 1
    <3>1. i \in 1 .. Len(c) /\ 1 \in 1 .. Len(b)
      BY <1>1, <1>2, <2>2
    <3>2. (c \o Tail(b))[i] = c[i] /\ (a \o b)[Len(a) + 1] = b[1]
      BY <1>3, <3>1 DEF IsCat
    <3> QED BY <1>2, <2>2, <3>2
  <2>3. CASE i \in Len(a) + 2 .. Len(a) + Len(b)
    <3>1. PICK j \in 1 .. Len(b) - 1 : i = Len(a) + 1 + j
      <4>1. i - Len(a) - 1 \in 1 .. Len(b) - 1 /\ i = Len(a) + 1 + (i - Len(a) - 1)
        BY <1>1, <1>2, <2>3
      <4> QED BY <4>1
    <3>2. j + 1 \in 1 .. Len(b) /\ Len(a) + (j + 1) = i /\ Len(c) + j = i /\ j \in 1 .. Len(Tail(b))
      BY <1>1, <1>2, <3>1
    <3>3. (c \o Tail(b))[i] = Tail(b)[j] /\ (a \o b)[i] = b[j + 1]
      BY <1>3, <3>2 DEF IsCat
    <3> QED BY <1>1, <3>1, <3>3
  <2> QED BY <1>1, <1>2, <2>1, <2>2, <2>3
<1>6. c \o Tail(b) = a \o b
  BY <1>3, <1>4, <1>5, SeqEqual
<1> QED BY <1>1, <1>2, <1>6 DEF c

(* The first k of w, with what follows.                                    *)
FirstMoved(X, b, w, p, k) ==
    /\ b \o SubSeq(w, 1, k) \in Seq(X) /\ SubSeq(w, k + 1, Len(w)) \in Seq(X)
    /\ SubSeq(w, k + 1, Len(w)) \o p \in Seq(X)
    /\ Len(b \o SubSeq(w, 1, k)) = Len(b) + k
    /\ IsRest(SubSeq(w, k + 1, Len(w)) \o p, w \o p, k)
    /\ (b \o SubSeq(w, 1, k)) \o (SubSeq(w, k + 1, Len(w)) \o p) = b \o (w \o p)
LEMMA SomeMoved ==
    ASSUME NEW X, NEW b \in Seq(X), NEW w \in Seq(X), NEW p \in Seq(X), NEW k \in 0 .. Len(w)
    PROVE  FirstMoved(X, b, w, p, k)
<1> DEFINE f == SubSeq(w, 1, k) g == SubSeq(w, k + 1, Len(w))
<1>1. /\ f \in Seq(X) /\ Len(f) = k /\ \A i \in 1 .. k : f[i] = w[i]
      /\ g \in Seq(X) /\ IsRest(g, w, k)
  BY RestSo
<1>2. g \o p \in Seq(X) /\ IsRest(g \o p, w \o p, k)
  BY RestCat
<1> DEFINE v == w \o p d == b \o v
<1>3. v \in Seq(X) /\ IsCat(v, w, p) /\ Len(w) \in Nat /\ Len(p) \in Nat
  BY CatSo
<1>4. k \in 0 .. Len(v) /\ \A i \in 1 .. k : v[i] = w[i]
  <2> HIDE DEF v
  <2> QED BY <1>3 DEF IsCat
<1>5. SubSeq(v, 1, k) = f
  <2> HIDE DEF v
  <2> DEFINE u == SubSeq(v, 1, k)
  <2>1. u \in Seq(X) /\ Len(u) = k /\ \A i \in 1 .. k : u[i] = v[i]
    BY <1>3, <1>4
  <2> HIDE DEF u, f
  <2>2. u = f
    BY <1>1, <1>4, <2>1, SeqEqual
  <2> QED BY <2>2 DEF u
<1>6. SubSeq(v, k + 1, Len(v)) = g \o p
  <2> DEFINE u == SubSeq(v, k + 1, Len(v)) r == g \o p
  <2>1. u \in Seq(X) /\ IsRest(u, v, k)
    BY <1>3, <1>4, RestSo
  <2>2. r \in Seq(X) /\ IsRest(r, v, k)
    BY <1>2
  <2> HIDE DEF u, r, v
  <2>3. u = r
    BY <2>1, <2>2, SeqEqual DEF IsRest
  <2> QED BY <2>3 DEF u, r
<1>7. d \in Seq(X) /\ IsCat(d, b, v)
  BY <1>3, CatSo
<1> HIDE DEF v, d, f, g
<1>8. /\ b \o f \in Seq(X) /\ Len(b \o f) = Len(b) + k
      /\ IsCat(d, b \o f, g \o p)
  <2>1. /\ b \o SubSeq(v, 1, k) \in Seq(X) /\ Len(b \o SubSeq(v, 1, k)) = Len(b) + k
        /\ IsCat(d, b \o SubSeq(v, 1, k), SubSeq(v, k + 1, Len(v)))
    BY <1>3, <1>4, <1>7, Moved
  <2> QED BY <1>5, <1>6, <2>1
<1>9. (b \o f) \o (g \o p) \in Seq(X) /\ IsCat((b \o f) \o (g \o p), b \o f, g \o p)
  BY <1>2, <1>8, CatSo
<1>10. d = (b \o f) \o (g \o p)
  BY <1>2, <1>7, <1>8, <1>9, CatIs
<1> QED BY <1>1, <1>2, <1>8, <1>10 DEF f, g, v, d, FirstMoved

LEMMA BodyFirst ==
    ASSUME NEW q \in Seq(Piece), NEW n \in Nat, BodyFrom(q, 0, n), Len(q) >= 1
    PROVE  (n = 0 => q[1].k = "e") /\ (n >= 1 => q[1].k = "b")
<1>1. ASSUME n = 0 PROVE q[1].k = "e"
  BY <1>1 DEF BodyFrom
<1>2. ASSUME n >= 1 PROVE q[1].k = "b"
  <2>1. 1 \in 1 .. n /\ 0 + 1 = 1
    BY <1>2
  <2> QED BY <2>1 DEF BodyFrom
<1> QED BY <1>1, <1>2

LEMMA BodyNext ==
    ASSUME NEW q \in Seq(Piece), NEW t \in Seq(Piece), IsRest(t, q, 1), NEW n \in Nat, n >= 1,
           BodyFrom(q, 0, n)
    PROVE  BodyFrom(t, 0, n - 1)
<1>1. n - 1 \in Nat
  OBVIOUS
<1>2. \A j \in 1 .. n - 1 : 1 + j \in 1 .. n /\ 0 + (1 + j) = 1 + j
  OBVIOUS
<1>3. \A j \in 1 .. n - 1 : 1 + j <= Len(q) => q[1 + j].k = "b"
  BY <1>2 DEF BodyFrom
<1>4. 1 + (n - 1) + 1 = 0 + n + 1
  OBVIOUS
<1>5. BodyFrom(q, 1, n - 1)
  BY <1>3, <1>4 DEF BodyFrom
<1>6. BodyFrom(q, 1 + 0, n - 1)
  BY <1>5
<1> QED BY <1>1, <1>6, BodyShift

LEMMA CatFront ==
    ASSUME NEW X, NEW b \in Seq(X), NEW w \in Seq(X), NEW p \in Seq(X)
    PROVE  b \o (w \o p) \in Seq(X) /\ b \o w \in Seq(X) /\ IsCat(b \o (w \o p), b \o w, p)
<1> DEFINE v == w \o p d == b \o v
<1>1. v \in Seq(X) /\ IsCat(v, w, p) /\ Len(w) \in 0 .. Len(v)
  BY CatSo
<1>2. SubSeq(v, Len(w) + 1, Len(v)) = p
  BY AfterCat
<1>3. SubSeq(v, 1, Len(w)) = w
  <2> HIDE DEF v
  <2> DEFINE u == SubSeq(v, 1, Len(w))
  <2>1. u \in Seq(X) /\ Len(u) = Len(w) /\ \A i \in 1 .. Len(w) : u[i] = v[i]
    BY <1>1
  <2> HIDE DEF u
  <2>2. u = w
    BY <1>1, <2>1, SeqEqual DEF IsCat
  <2> QED BY <2>2 DEF u
<1>4. d \in Seq(X) /\ IsCat(d, b, v)
  BY <1>1, CatSo
<1> HIDE DEF d, v
<1>5. /\ b \o SubSeq(v, 1, Len(w)) \in Seq(X)
      /\ IsCat(d, b \o SubSeq(v, 1, Len(w)), SubSeq(v, Len(w) + 1, Len(v)))
  BY <1>1, <1>4, Moved
<1>6. b \o w \in Seq(X) /\ IsCat(d, b \o w, p)
  BY <1>2, <1>3, <1>5
<1> QED BY <1>4, <1>6 DEF d, v
(* What is on its way: what the server has still to send, unless it has    *)
(* closed, comes after what is in the network; the buffer, or what mg_read *)
(* has left of it, comes before.                                           *)
Pending == IF open THEN todo ELSE <<>>
Coming == wire \o Pending
Ahead == buf \o Coming
Unpassed == Caller!AfterHeader \o Coming

Got == [r : Nat, body : Nat, cut : BOOLEAN]
Setup == {"new", "resolve", "socket", "connect", "poll", "mutex"}

(* A status that has no body has none, and another response follows one    *)
(* that is not the last to its request.                                    *)
WellScripted(s) ==
    /\ IsScript(s)
    /\ \A i \in 1 .. Len(s) : /\ s[i].status \in {100, 204, 304} => s[i].body = 0
                              /\ s[i].interim => i < Len(s)

(* ClientAssumption, and that the server's responses are such.             *)
ClientHypothesis ==
    /\ Caller!ClientAssumption /\ EbufLens \subseteq Nat
    /\ \A s \in Responses : WellScripted(s)

(* TypeOK, and what it leaves out.                                         *)
ClientTyped ==
    /\ mode \in {"download", "calls"} /\ ebuf_len \in Nat /\ ebuf \in {"clear", "text"}
    /\ WellScripted(script) /\ sent \in 0 .. Len(script)
    /\ buf \in Seq(Piece) /\ Len(buf) <= BufSize
    /\ wire \in Seq(Piece) /\ todo \in Seq(Piece) /\ open \in BOOLEAN
    /\ response \in [r : Nat, content_len : Int, is_chunked : BOOLEAN]
    /\ waited \in 0 .. MaxWait + 1
    /\ pc \in Setup \cup {"up", "get", "body", "failed", "closing", "closed"}
    /\ seen \in Seq(Got) /\ \A i \in 1 .. Len(seen) : seen[i].r <= Len(script)
    /\ pc \in Setup \cup {"failed"} => seen = <<>>
    /\ pc = "body" => seen # <<>>

(* What the connection holds, also while it is being made.                 *)
ClientHolds ==
    /\ Caller!Released
    /\ pc \in Setup \ {"new"} => mem
    /\ pc \in {"connect", "poll", "mutex"} => sock

(* With room for a message there is none while the caller waits, and one   *)
(* as soon as it has failed without a response.                            *)
ClientTold ==
    ebuf_len > 0 =>
       /\ pc = "get" => ebuf = "clear"
       /\ pc = "body" => seen[Len(seen)].r # 0
       /\ pc \in {"failed", "closing"} /\ seen = <<>> => ebuf = "text"

(* The streams have the shape of what the server sends.                    *)
ClientStream ==
    /\ Shape(script, Coming)
    /\ open => Ended(script, Coming)
    /\ pc = "get" => Shape(script, Ahead)

(* The body of a chunked response is ahead of mg_read; the body of one     *)
(* that has been read is whole.                                            *)
InBody ==
    pc = "body" /\ seen[Len(seen)].r # 0 =>
       LET got == seen[Len(seen)]
       IN /\ response = Caller!Framed(got.r) /\ Caller!EndOfHeader(buf) > 0
          /\ script[got.r].framing = "chunked" =>
                /\ got.body <= script[got.r].body
                /\ BodyFrom(Unpassed, 0, script[got.r].body - got.body)
ClientWhole ==
    \A i \in 1 .. Len(seen) :
       seen[i].r # 0 /\ ~seen[i].cut /\ (i < Len(seen) \/ pc \in {"up", "get"})
          => seen[i].body = script[seen[i].r].body

ClientInv == ClientTyped /\ ClientHolds /\ ClientTold /\ ClientStream /\ InBody /\ ClientWhole

LEMMA FramedIs ==
    ASSUME WellScripted(script), NEW r \in 1 .. Len(script)
    PROVE  /\ Caller!Framed(r) \in [r : Nat, content_len : Int, is_chunked : BOOLEAN]
           /\ Caller!Framed(r).is_chunked = (script[r].framing = "chunked")
           /\ script[r].framing # "chunked" => Caller!Framed(r).content_len \in {script[r].body, -1}
<1>1. script[r] \in Answer /\ r \in Nat /\ (script[r].status \in {100, 204, 304} => script[r].body = 0)
  BY AnswerIs DEF WellScripted, IsScript
<1> DEFINE q == script[r]
<1>2. q.framing \in {"length", "chunked", "close"} /\ q.body \in Nat
  BY <1>1 DEF Answer
<1> HIDE DEF q
<1>3. Caller!Framed(r) = [r |-> r,
           content_len |-> IF q.framing = "chunked" \/ q.status \in {100, 204, 304} THEN 0
                           ELSE IF q.framing = "length" THEN q.body ELSE -1,
           is_chunked |-> q.framing = "chunked"]
  BY DEF Caller!Framed, q
<1>4. q.status \in {100, 204, 304} => q.body = 0
  BY <1>1 DEF q
<1>5. CASE q.framing = "chunked"
  BY <1>1, <1>2, <1>3, <1>5 DEF q
<1>6. CASE q.framing # "chunked" /\ q.status \in {100, 204, 304}
  BY <1>1, <1>2, <1>3, <1>4, <1>6 DEF q
<1>7. CASE q.framing # "chunked" /\ q.status \notin {100, 204, 304}
  BY <1>1, <1>2, <1>3, <1>7 DEF q
<1> QED BY <1>5, <1>6, <1>7

(* The sequences that are on their way are sequences of tokens.            *)
LEMMA StreamTypes ==
    ASSUME ClientTyped
    PROVE  /\ Pending \in Seq(Piece) /\ Coming \in Seq(Piece) /\ Ahead \in Seq(Piece)
           /\ Caller!AfterHeader \in Seq(Piece) /\ Unpassed \in Seq(Piece)
<1>1. Pending \in Seq(Piece)
  BY DEF ClientTyped, Pending
<1>2. Coming \in Seq(Piece) /\ Ahead \in Seq(Piece)
  <2>1. Coming \in Seq(Piece)
    BY <1>1 DEF ClientTyped, Coming
  <2> QED BY <2>1 DEF ClientTyped, Ahead
<1>3. Caller!AfterHeader \in Seq(Piece)
  <2>1. buf \in Seq(Piece) /\ Caller!EndOfHeader(buf) \in 0 .. Len(buf)
    BY EndOfHeaderIs DEF ClientTyped
  <2> QED BY <2>1, RestSo DEF Caller!AfterHeader
<1> QED BY <1>1, <1>2, <1>3 DEF Unpassed

(* A step that leaves buffer, network and server alone.                    *)
LEMMA StreamSame ==
    ASSUME UNCHANGED <<buf, wire, todo, open>>
    PROVE  Coming' = Coming /\ Ahead' = Ahead /\ Unpassed' = Unpassed
<1>1. Coming' = Coming
  BY DEF Coming, Pending
<1>2. Caller!AfterHeader' = Caller!AfterHeader
  BY DEF Caller!AfterHeader, Caller!EndOfHeader, Caller!SelectInSeq
<1> QED BY <1>1, <1>2 DEF Ahead, Unpassed

LEMMA ClientInit == ASSUME ClientHypothesis PROVE Caller!Init => ClientInv
<1> SUFFICES ASSUME ClientHypothesis, Caller!Init PROVE ClientInv
  OBVIOUS
<1> USE DEF Caller!Init
<1>1. ClientTyped
  BY DEF ClientTyped, ClientHypothesis, Caller!ClientAssumption, Caller!NoResponse, Setup, WellScripted, IsScript
<1>2. ClientHolds /\ ClientTold /\ InBody /\ ClientWhole
  BY DEF ClientHolds, Caller!Released, ClientTold, InBody, ClientWhole, Setup
<1>3. ClientStream
  <2>1. Len(Coming) = 0
    BY DEF Coming, Pending
  <2> QED BY <2>1 DEF ClientStream, Shape, Ended
<1> QED BY <1>1, <1>2, <1>3 DEF ClientInv

LEMMA EstablishStep ==
    ASSUME ClientHypothesis, ClientInv, Caller!Establish
    PROVE  ClientInv'
<1> USE DEF Caller!Establish, Caller!Allocate, Caller!Resolve, Caller!OpenSocket, Caller!Connect, Caller!Poll,
            Caller!InitMutex, Caller!MutexFails, Caller!Fail, Caller!Goto, Caller!Say, Caller!Connecting,
            Caller!server, Caller!holds, Setup, ClientInv
<1>1. /\ pc \in Setup /\ pc' \in Setup \cup {"up", "failed"}
      /\ UNCHANGED <<mode, ebuf_len, script, todo, wire, open, sent, buf, response, timeout, waited, seen>>
      /\ seen = <<>> /\ ebuf' \in {"clear", "text"}
  BY DEF ClientTyped
<1>2. ClientTyped'
  BY <1>1 DEF ClientTyped
<1>3. ClientHolds'
  BY DEF ClientHolds, Caller!Released
<1>4. ClientTold'
  BY <1>1 DEF ClientTold
<1>5. ClientStream' /\ InBody' /\ ClientWhole'
  <2>1. Coming' = Coming
    BY <1>1, StreamSame
  <2> QED BY <1>1, <2>1 DEF ClientStream, InBody, ClientWhole
<1> QED BY <1>2, <1>3, <1>4, <1>5

(* A new request, or the rest of the answer to an old one: what has been   *)
(* in the buffer is gone.                                                  *)
LEMMA GetStep ==
    ASSUME ClientHypothesis, ClientInv, NEW t \in Timeouts, Caller!Get(t), pc = "up",
           UNCHANGED <<mode, ebuf_len, mem, sock, mutex, script, wire, open, seen>>,
           sent' \in 0 .. Len(script), todo' \in Seq(Piece),
           Shape(script, Coming'), open => Ended(script, Coming')
    PROVE  ClientInv'
<1> USE DEF Caller!Get, Caller!BufferCleared, ClientInv
<1>1. ClientTyped'
  BY DEF ClientTyped, ClientHypothesis, Caller!ClientAssumption, Caller!NoResponse, Setup
<1>2. ClientHolds'
  BY DEF ClientHolds, Caller!Released, Setup
<1>3. ClientTold'
  BY DEF ClientTold, ClientTyped
<1>4. Ahead' = Coming'
  <2>1. Coming' \in Seq(Piece)
    BY <1>1, StreamTypes DEF ClientTyped, Coming, Pending
  <2> QED BY <2>1 DEF Ahead
<1>5. ClientStream'
  BY <1>4 DEF ClientStream
<1>6. InBody' /\ ClientWhole'
  BY DEF InBody, ClientWhole
<1> QED BY <1>1, <1>2, <1>3, <1>5, <1>6

LEMMA SendStep ==
    ASSUME ClientHypothesis, ClientInv, Caller!Send
    PROVE  ClientInv'
<1> USE DEF ClientInv
<1>1. CASE "send" \in Faults /\ Caller!Say /\ pc' = "closing" /\ UNCHANGED <<sent, todo, buf, response, timeout, waited>>
  <2> USE <1>1 DEF Caller!Send, Caller!Say, Caller!holds
  <2>1. ClientTyped'
    BY DEF ClientTyped, Setup
  <2>2. ClientHolds' /\ ClientTold'
    BY DEF ClientHolds, ClientTold, Caller!Released, Setup
  <2>3. Coming' = Coming
    BY StreamSame
  <2>4. ClientStream' /\ InBody' /\ ClientWhole'
    BY <2>3 DEF ClientStream, InBody, ClientWhole
  <2> QED BY <2>1, <2>2, <2>4
<1>2. CASE /\ sent' = sent + 1
           /\ todo' = todo \o Caller!Tokens(sent + 1)
                     \o (IF script[sent + 1].interim THEN Caller!Tokens(sent + 2) ELSE <<>>)
           /\ \E t \in Timeouts : Caller!Get(t)
  <2>1. /\ pc = "up" /\ sent < Len(script)
        /\ UNCHANGED <<mode, ebuf_len, mem, sock, mutex, script, wire, open, seen>>
    BY DEF Caller!Send, Caller!holds
  <2>2. sent \in Nat /\ Len(script) \in Nat /\ sent + 1 \in 1 .. Len(script) /\ IsScript(script)
        /\ (script[sent + 1].interim => sent + 2 \in 1 .. Len(script))
    BY <2>1 DEF ClientTyped, WellScripted, IsScript
  <2> DEFINE a == Caller!Tokens(sent + 1)
             b == IF script[sent + 1].interim THEN Caller!Tokens(sent + 2) ELSE <<>>
  <2>3. a \in Seq(Piece) /\ Shape(script, a) /\ Ended(script, a)
    BY <2>2, TokensAre
  <2>4. b \in Seq(Piece) /\ Shape(script, b) /\ Ended(script, b)
    <3>1. CASE script[sent + 1].interim
      <4>1. b = Caller!Tokens(sent + 2)
        BY <3>1
      <4> HIDE DEF b
      <4> QED BY <2>2, <3>1, <4>1, TokensAre
    <3>2. CASE ~ script[sent + 1].interim
      <4>1. b = <<>>
        BY <3>2
      <4>2. Shape(script, <<>>) /\ Ended(script, <<>>)
        BY DEF Shape, Ended
      <4> HIDE DEF b
      <4> QED BY <4>1, <4>2
    <3> HIDE DEF a, b
    <3> QED BY <3>1, <3>2
  <2> HIDE DEF a, b
  <2>5. todo' = (todo \o a) \o b /\ todo \in Seq(Piece) /\ wire \in Seq(Piece)
    BY <1>2 DEF a, b, ClientTyped
  <2>6. todo \o a \in Seq(Piece) /\ todo' \in Seq(Piece)
    BY <2>3, <2>4, <2>5
  <2>7. Shape(script, Coming') /\ (open => Ended(script, Coming'))
    <3>1. CASE ~ open
      <4>1. Coming' = Coming
        BY <2>1, <3>1 DEF Coming, Pending
      <4> QED BY <3>1, <4>1 DEF ClientStream
    <3>2. CASE open
      <4>1. Coming = wire \o todo /\ Coming' = wire \o ((todo \o a) \o b) /\ Shape(script, Coming) /\ Ended(script, Coming)
        BY <2>1, <2>5, <3>2 DEF Coming, Pending, ClientStream
      <4> DEFINE c == todo \o a
                 d == wire \o todo
                 e == wire \o c
                 f == wire \o (c \o b)
      <4>2. d \in Seq(Piece) /\ e \in Seq(Piece) /\ IsCat(e, d, a)
        BY <2>3, <2>5, CatFront
      <4>3. Shape(script, e) /\ Ended(script, e)
        <5> HIDE DEF d, e
        <5> QED BY <2>2, <2>3, <4>1, <4>2, ShapeCat DEF d
      <4>4. c \in Seq(Piece)
        BY <2>6
      <4>5. f \in Seq(Piece) /\ IsCat(f, e, b)
        <5> HIDE DEF c
        <5> QED BY <2>4, <2>5, <4>4, CatFront
      <4>6. Shape(script, f) /\ Ended(script, f)
        <5> HIDE DEF e, f
        <5> QED BY <2>2, <2>4, <4>2, <4>3, <4>5, ShapeCat
      <4> QED BY <4>1, <4>6
    <3> QED BY <3>1, <3>2
  <2>8. PICK t \in Timeouts : Caller!Get(t)
    BY <1>2
  <2>9. sent' \in 0 .. Len(script)
    BY <1>2, <2>2
  <2> QED BY <2>1, <2>6, <2>7, <2>8, <2>9, GetStep
<1> QED BY <1>1, <1>2 DEF Caller!Send

LEMMA GetNextStep ==
    ASSUME ClientHypothesis, ClientInv, Caller!GetNext
    PROVE  ClientInv'
<1>1. /\ pc = "up" /\ sent' = sent + 1 /\ sent > 0 /\ script[sent].interim
      /\ UNCHANGED <<mode, ebuf_len, mem, sock, mutex, script, wire, open, seen, todo>>
  BY DEF Caller!GetNext, Caller!holds, Caller!server
<1>2. PICK t \in Timeouts : Caller!Get(t)
  BY DEF Caller!GetNext
<1>3. sent' \in 0 .. Len(script) /\ todo' \in Seq(Piece)
  BY <1>1 DEF ClientInv, ClientTyped, WellScripted, IsScript
<1>4. Coming' = Coming
  BY <1>1 DEF Coming, Pending
<1>5. Shape(script, Coming') /\ (open => Ended(script, Coming'))
  BY <1>4 DEF ClientInv, ClientStream
<1> QED BY <1>1, <1>2, <1>3, <1>5, GetStep

(* What becomes of the responses when one more is there.                   *)
LEMMA OneMoreGot ==
    ASSUME ClientTyped, ClientWhole, pc = "get", NEW g \in Got, g.r <= Len(script), script' = script,
           seen' = Append(seen, g), pc' = "body"
    PROVE  /\ seen' \in Seq(Got) /\ \A i \in 1 .. Len(seen') : seen'[i].r <= Len(script)
           /\ seen' # <<>> /\ seen'[Len(seen')] = g
           /\ ClientWhole'
<1>1. /\ seen \in Seq(Got) /\ Len(seen) \in Nat /\ seen' \in Seq(Got) /\ Len(seen') = Len(seen) + 1
      /\ \A i \in 1 .. Len(seen) : seen'[i] = seen[i]
      /\ seen'[Len(seen) + 1] = g
  BY DEF ClientTyped
<1>2. \A i \in 1 .. Len(seen') : i \in 1 .. Len(seen) \/ i = Len(seen')
  BY <1>1
<1>3. \A i \in 1 .. Len(seen') : seen'[i].r <= Len(script)
  BY <1>1, <1>2 DEF ClientTyped
<1>4. ClientWhole'
  <2> SUFFICES ASSUME NEW i \in 1 .. Len(seen'), seen'[i].r # 0, ~seen'[i].cut, i < Len(seen')
               PROVE  seen'[i].body = script[seen'[i].r].body
    BY DEF ClientWhole
  <2>1. i \in 1 .. Len(seen) /\ seen'[i] = seen[i]
    BY <1>1
  <2> QED BY <2>1 DEF ClientWhole
<1> QED BY <1>1, <1>3, <1>4

(* get_response has failed, and the caller may or may not see it.          *)
LEMMA FailsStep ==
    ASSUME ClientHypothesis, ClientInv, pc = "get", Caller!GetFails,
           UNCHANGED <<mode, ebuf_len, mem, sock, mutex, script, todo, open, sent>>,
           buf' \in Seq(Piece), Len(buf') <= BufSize, wire' \in Seq(Piece), waited' \in 0 .. MaxWait + 1,
           Shape(script, Coming'), open => Ended(script, Coming')
    PROVE  ClientInv'
<1> USE DEF ClientInv
<1>1. ebuf' \in {"clear", "text"} /\ (ebuf_len > 0 => ebuf' = "text")
  BY DEF Caller!GetFails, Caller!Say, ClientTyped
<1>2. ClientHolds' /\ pc' \in {"closing", "body"}
  BY DEF ClientHolds, Caller!Released, Caller!GetFails, Setup
<1>3. ClientStream'
  BY <1>2 DEF ClientStream
<1>4. CASE pc' = "closing" /\ UNCHANGED <<response, seen>>
  <2>1. ClientTyped'
    BY <1>1, <1>4 DEF ClientTyped, Setup
  <2>2. ClientTold' /\ InBody' /\ ClientWhole'
    BY <1>1, <1>4 DEF ClientTold, InBody, ClientWhole
  <2> QED BY <1>2, <1>3, <2>1, <2>2
<1>5. CASE /\ pc' = "body" /\ ebuf' # "text" /\ UNCHANGED response
           /\ seen' = Append(seen, [r |-> 0, body |-> 0, cut |-> FALSE])
  <2> DEFINE g == [r |-> 0, body |-> 0, cut |-> FALSE]
  <2>1. g \in Got /\ g.r = 0 /\ g.r <= Len(script)
    BY DEF Got, ClientTyped, WellScripted, IsScript
  <2>2. /\ seen' \in Seq(Got) /\ \A i \in 1 .. Len(seen') : seen'[i].r <= Len(script)
        /\ seen' # <<>> /\ seen'[Len(seen')] = g /\ ClientWhole'
    <3>1. seen' = Append(seen, g)
      BY <1>5
    <3> HIDE DEF g
    <3> QED BY <1>5, <2>1, <3>1, OneMoreGot
  <2>3. ClientTyped'
    BY <1>1, <1>5, <2>2 DEF ClientTyped, Setup
  <2>4. ClientTold' /\ InBody'
    BY <1>1, <1>5, <2>1, <2>2 DEF ClientTold, InBody
  <2> QED BY <1>2, <1>3, <2>2, <2>3, <2>4
<1> QED BY <1>2, <1>4, <1>5 DEF Caller!GetFails

LEMMA GiveUpStep ==
    ASSUME ClientHypothesis, ClientInv, Caller!GiveUp \/ Caller!TooLarge
    PROVE  ClientInv'
<1>1. /\ pc = "get" /\ Caller!GetFails
      /\ UNCHANGED <<mode, ebuf_len, mem, sock, mutex, script, todo, open, sent, buf, wire, waited>>
  BY DEF Caller!GiveUp, Caller!TooLarge, Caller!holds, Caller!server
<1>2. Coming' = Coming
  BY <1>1, StreamSame
<1>3. /\ buf' \in Seq(Piece) /\ Len(buf') <= BufSize /\ wire' \in Seq(Piece) /\ waited' \in 0 .. MaxWait + 1
      /\ Shape(script, Coming') /\ (open => Ended(script, Coming'))
  BY <1>1, <1>2 DEF ClientInv, ClientTyped, ClientStream
<1> QED BY <1>1, <1>3, FailsStep

LEMMA ReceiveStep ==
    ASSUME ClientHypothesis, ClientInv, Caller!Receive
    PROVE  ClientInv'
<1> USE DEF ClientInv
<1>1. /\ pc = "get" /\ UNCHANGED <<mode, ebuf_len, mem, sock, mutex, script, todo, open, sent>>
  BY DEF Caller!Receive, Caller!holds
<1>2. PICK k \in 1 .. Len(wire) : /\ Len(buf) + k <= BufSize
                                   /\ wire' = SubSeq(wire, k + 1, Len(wire))
                                   /\ buf' = buf \o SubSeq(wire, 1, k)
  BY DEF Caller!Receive, Caller!Room
<1>3. /\ buf \in Seq(Piece) /\ wire \in Seq(Piece) /\ Pending \in Seq(Piece) /\ Pending' = Pending
      /\ k \in 0 .. Len(wire) /\ IsScript(script) /\ Coming \in Seq(Piece) /\ Ahead \in Seq(Piece)
  BY <1>1, StreamTypes DEF ClientTyped, Pending, WellScripted
<1>4. /\ buf' \in Seq(Piece) /\ wire' \in Seq(Piece) /\ Len(buf') = Len(buf) + k
      /\ Coming' \in Seq(Piece) /\ IsRest(Coming', Coming, k) /\ Ahead' = Ahead
  <2>1. Coming' = SubSeq(wire, k + 1, Len(wire)) \o Pending /\ Coming = wire \o Pending
    BY <1>2, <1>3 DEF Coming
  <2>2. Ahead' = (buf \o SubSeq(wire, 1, k)) \o (SubSeq(wire, k + 1, Len(wire)) \o Pending)
        /\ Ahead = buf \o (wire \o Pending)
    BY <1>2, <2>1 DEF Ahead, Coming
  <2>3. FirstMoved(Piece, buf, wire, Pending, k)
    BY <1>3, SomeMoved
  <2> QED BY <1>2, <2>1, <2>2, <2>3 DEF FirstMoved
<1>5. Shape(script, Coming') /\ (open => Ended(script, Coming')) /\ Shape(script, Ahead')
  BY <1>1, <1>3, <1>4, ShapeRest DEF ClientStream
<1>6. Len(buf') <= BufSize
  BY <1>2, <1>4
<1>7. waited' \in 0 .. MaxWait + 1
  <2>1. waited' = 0 \/ waited' = waited
    BY DEF Caller!Receive
  <2> QED BY <2>1 DEF ClientTyped, ClientHypothesis, Caller!ClientAssumption
<1> DEFINE e == Caller!EndOfHeader(buf')
<1>8. /\ e \in 0 .. Len(buf')
      /\ e > 0 => buf'[e].k = "H" /\ \A i \in 1 .. e - 1 : buf'[i].k # "H"
  BY <1>4, EndOfHeaderIs
<1>9. \/ e = 0 /\ UNCHANGED <<response, seen, pc, ebuf>>
      \/ Caller!GetFails
      \/ /\ e # 0 /\ buf'[1].k = "h" /\ response' = Caller!Framed(buf'[1].r) /\ UNCHANGED ebuf
         /\ \/ mode = "download" /\ ebuf = "text" /\ pc' = "closing" /\ UNCHANGED seen
            \/ /\ pc' = "body"
               /\ seen' = Append(seen, [r |-> buf'[1].r, body |-> 0, cut |-> FALSE])
  BY DEF Caller!Receive
<1>10. CASE e = 0 /\ UNCHANGED <<response, seen, pc, ebuf>>
  <2>1. ClientTyped'
    BY <1>1, <1>4, <1>6, <1>7, <1>10 DEF ClientTyped, Setup
  <2>2. ClientHolds' /\ ClientTold'
    BY <1>1, <1>10 DEF ClientHolds, Caller!Released, ClientTold
  <2>3. ClientStream'
    BY <1>1, <1>5 DEF ClientStream
  <2>4. InBody' /\ ClientWhole'
    BY <1>1, <1>10 DEF InBody, ClientWhole
  <2> QED BY <2>1, <2>2, <2>3, <2>4
<1>11. CASE Caller!GetFails
  BY <1>1, <1>4, <1>5, <1>6, <1>7, <1>11, FailsStep
<1>12. CASE /\ e # 0 /\ buf'[1].k = "h" /\ response' = Caller!Framed(buf'[1].r) /\ UNCHANGED ebuf
            /\ \/ mode = "download" /\ ebuf = "text" /\ pc' = "closing" /\ UNCHANGED seen
               \/ /\ pc' = "body"
                  /\ seen' = Append(seen, [r |-> buf'[1].r, body |-> 0, cut |-> FALSE])
  <2>0. PICK r : r = buf'[1].r
    OBVIOUS
  <2>1. e \in 1 .. Len(buf') /\ 1 \in 1 .. Len(buf') /\ Len(buf') \in Nat /\ buf'[e].k = "H"
        /\ \A i \in 1 .. e - 1 : buf'[i].k # "H"
    BY <1>4, <1>8, <1>12
  <2>2. IsCat(Ahead', buf', Coming')
    BY <1>4, CatSo DEF Ahead
  <2>3. Ahead' \in Seq(Piece) /\ e \in 1 .. Len(Ahead') /\ \A i \in 1 .. e : Ahead'[i] = buf'[i]
    BY <1>3, <1>4, <2>1, <2>2 DEF IsCat
  <2>4. r \in 1 .. Len(script) /\ r \in Nat /\ buf'[e].r = r
    <3>1. Ahead'[1] = buf'[1] /\ Ahead'[e] = buf'[e] /\ 1 \in 1 .. Len(Ahead')
      BY <2>1, <2>3
    <3>2. r \in 1 .. Len(script)
      BY <1>5, <2>0, <3>1 DEF Shape
    <3>3. Ahead'[e].r = Ahead'[1].r
      BY SMTT(30), <1>5, <1>12, <2>1, <2>3, <3>1, FirstHeader
    <3> QED BY <1>3, <2>0, <3>1, <3>2, <3>3 DEF IsScript
  <2>5. response' \in [r : Nat, content_len : Int, is_chunked : BOOLEAN]
    BY <1>12, <2>0, <2>4, FramedIs DEF ClientTyped
  <2>6. ClientHolds' /\ ClientStream'
    BY <1>1, <1>5, <1>12 DEF ClientHolds, Caller!Released, ClientStream, Setup
  <2>7. CASE mode = "download" /\ ebuf = "text" /\ pc' = "closing" /\ UNCHANGED seen
    <3>1. ClientTyped'
      BY <1>1, <1>4, <1>6, <1>7, <1>12, <2>5, <2>7 DEF ClientTyped, Setup
    <3>2. ClientTold' /\ InBody' /\ ClientWhole'
      BY <1>1, <1>12, <2>7 DEF ClientTold, InBody, ClientWhole
    <3> QED BY <2>6, <3>1, <3>2
  <2>8. CASE pc' = "body" /\ seen' = Append(seen, [r |-> buf'[1].r, body |-> 0, cut |-> FALSE])
    <3> DEFINE g == [r |-> r, body |-> 0, cut |-> FALSE]
    <3>1. g \in Got /\ g.r = r /\ g.body = 0 /\ g.r <= Len(script)
      BY <1>3, <2>4 DEF Got, IsScript
    <3>2. seen' = Append(seen, g)
      BY <2>0, <2>8
    <3> HIDE DEF g, e
    <3>3. /\ seen' \in Seq(Got) /\ \A i \in 1 .. Len(seen') : seen'[i].r <= Len(script)
          /\ seen' # <<>> /\ seen'[Len(seen')] = g /\ ClientWhole'
      BY <1>1, <2>8, <3>1, <3>2, OneMoreGot
    <3>4. ClientTyped'
      BY <1>1, <1>4, <1>6, <1>7, <1>12, <2>5, <2>8, <3>3 DEF ClientTyped, Setup
    <3>5. ClientTold'
      BY <1>1, <2>4, <2>8, <3>1, <3>3 DEF ClientTold
    <3>6. ASSUME script[r].framing = "chunked" PROVE BodyFrom(Unpassed', 0, script[r].body - 0)
      <4>1. script[r].body \in Nat
        BY <1>3, <2>4, AnswerIs
      <4>2. BodyFrom(Ahead', e, script[r].body)
        <5>1. IsChunkedEnd(script, Ahead'[e]) /\ Ahead'[e].r = r
          BY <2>1, <2>3, <2>4, <3>6 DEF IsChunkedEnd
        <5> QED BY <1>5, <2>3, <5>1 DEF Shape
      <4>3. Unpassed' \in Seq(Piece) /\ IsRest(Unpassed', Ahead', e)
        <5>1. e \in 0 .. Len(buf')
          BY <2>1
        <5>2. Unpassed' = SubSeq(buf', e + 1, Len(buf')) \o Coming' /\ Ahead' = buf' \o Coming'
          BY DEF Unpassed, Caller!AfterHeader, e, Ahead
        <5> QED BY <1>4, <5>1, <5>2, RestCat
      <4>4. e \in Nat /\ e + 0 = e
        BY <2>1
      <4>5. BodyFrom(Ahead', e + 0, script[r].body) <=> BodyFrom(Unpassed', 0, script[r].body)
        BY <2>3, <4>1, <4>3, BodyShift
      <4> QED BY <4>1, <4>2, <4>4, <4>5
    <3>7. InBody'
      <4>1. seen'[Len(seen')] = g /\ g.r = r /\ g.body = 0 /\ script' = script
        BY <1>1, <3>1, <3>3
      <4>2. response' = Caller!Framed(r)' /\ Caller!EndOfHeader(buf)' > 0
        <5>1. response' = Caller!Framed(r)
          BY <1>12, <2>0
        <5>2. Caller!Framed(r)' = Caller!Framed(r)
          BY <1>1 DEF Caller!Framed
        <5>3. Caller!EndOfHeader(buf)' = e
          BY DEF e, Caller!EndOfHeader, Caller!SelectInSeq
        <5> QED BY <2>1, <5>1, <5>2, <5>3
      <4>3. 0 <= script[r].body
        BY <1>3, <2>4, AnswerIs
      <4> QED BY <3>6, <4>1, <4>2, <4>3 DEF InBody
    <3> QED BY <2>6, <3>3, <3>4, <3>5, <3>7
  <2> QED BY <1>12, <2>7, <2>8
<1> QED BY <1>9, <1>10, <1>11, <1>12

(* mg_read takes the first token of what is behind the header.             *)
LEMMA BehindNext ==
    ASSUME ClientTyped, Caller!EndOfHeader(buf) > 0, Caller!AfterHeader \o wire # <<>>,
           UNCHANGED <<todo, open>>,
           IF Caller!AfterHeader # <<>>
           THEN /\ buf' = SubSeq(buf, 1, Caller!EndOfHeader(buf)) \o Tail(Caller!AfterHeader)
                /\ UNCHANGED wire
           ELSE wire' = Tail(wire) /\ UNCHANGED buf
    PROVE  /\ buf' \in Seq(Piece) /\ Len(buf') <= Len(buf) /\ wire' \in Seq(Piece)
           /\ Caller!EndOfHeader(buf)' > 0
           /\ Len(Unpassed) >= 1 /\ Head(Caller!AfterHeader \o wire) = Unpassed[1]
           /\ Unpassed' \in Seq(Piece) /\ IsRest(Unpassed', Unpassed, 1)
           /\ Coming' \in Seq(Piece) /\ \E m : IsRest(Coming', Coming, m)
<1> DEFINE e == Caller!EndOfHeader(buf)
           after == Caller!AfterHeader
<1>1. /\ buf \in Seq(Piece) /\ wire \in Seq(Piece) /\ after \in Seq(Piece) /\ Coming \in Seq(Piece)
      /\ Pending \in Seq(Piece) /\ Pending' = Pending /\ Unpassed \in Seq(Piece)
  BY StreamTypes DEF ClientTyped, Pending
<1>2. /\ e \in 1 .. Len(buf) /\ Len(buf) \in Nat /\ buf[e].k = "H"
      /\ \A i \in 1 .. e - 1 : buf[i].k # "H"
  BY SMTT(30), <1>1, EndOfHeaderIs
<1>3. after = SubSeq(buf, e + 1, Len(buf)) /\ Len(after) = Len(buf) - e
  <2>1. after = SubSeq(buf, e + 1, Len(buf))
    BY DEF Caller!AfterHeader
  <2>2. IsRest(SubSeq(buf, e + 1, Len(buf)), buf, e)
    BY <1>1, <1>2, RestSo
  <2> QED BY <2>1, <2>2 DEF IsRest
<1>4. Coming = wire \o Pending /\ Coming' = wire' \o Pending /\ Unpassed = after \o Coming
  BY <1>1 DEF Coming, Unpassed
<1>5. Caller!EndOfHeader(buf)' = Caller!EndOfHeader(buf')
  BY DEF Caller!EndOfHeader, Caller!SelectInSeq
<1>6. Unpassed' = SubSeq(buf', Caller!EndOfHeader(buf') + 1, Len(buf')) \o Coming'
  BY <1>5 DEF Unpassed, Caller!AfterHeader
<1> HIDE DEF e, after
<1>7. CASE after # <<>>
  <2> DEFINE f == SubSeq(buf, 1, e)
             t == Tail(after)
  <2>1. buf' = f \o t /\ wire' = wire
    BY <1>7 DEF e, after
  <2>2. f \in Seq(Piece) /\ Len(f) = e /\ \A i \in 1 .. e : f[i] = buf[i]
    BY <1>1, <1>2
  <2>3. t \in Seq(Piece) /\ Len(t) = Len(after) - 1
    BY <1>1, <1>7, HeadTailProperties
  <2> HIDE DEF f, t
  <2>4. f \o t \in Seq(Piece) /\ IsCat(f \o t, f, t)
    BY <2>2, <2>3, CatSo
  <2>5. buf' \in Seq(Piece) /\ Len(buf') = e + Len(t) /\ \A i \in 1 .. e : buf'[i] = buf[i]
    BY <2>1, <2>2, <2>4 DEF IsCat
  <2>6. Len(buf') <= Len(buf) /\ e \in 1 .. Len(buf')
    BY <1>2, <1>3, <2>3, <2>5
  <2>7. Caller!EndOfHeader(buf') = e
    <3>1. buf[e].k = "H" /\ (\A i \in 1 .. e - 1 : buf[i].k # "H") /\ e \in 1 .. e
      BY <1>2
    <3>2. \A i \in 1 .. e - 1 : i \in 1 .. e
      BY <1>2
    <3>3. buf'[e] = buf[e] /\ \A i \in 1 .. e - 1 : buf'[i] = buf[i]
      BY <2>5, <3>1, <3>2
    <3>4. buf'[e].k = "H" /\ \A i \in 1 .. e - 1 : buf'[i].k # "H"
      BY <3>1, <3>3
    <3> QED BY <2>5, <2>6, <3>4, EndOfHeaderIs
  <2>8. SubSeq(buf', e + 1, Len(buf')) = t
    <3>1. SubSeq(f \o t, Len(f) + 1, Len(f \o t)) = t
      BY <2>2, <2>3, AfterCat
    <3> QED BY <2>1, <2>2, <3>1
  <2>9. Coming' = Coming
    BY <1>4, <2>1
  <2>10. Unpassed' = t \o Coming
    BY <1>6, <2>7, <2>8, <2>9
  <2>11. /\ t \o Coming \in Seq(Piece) /\ IsRest(t \o Coming, after \o Coming, 1)
         /\ Len(after \o Coming) >= 1 /\ (after \o Coming)[1] = Head(after)
    BY <1>1, <1>7, TailCat DEF t
  <2>12. Head(after \o wire) = Head(after)
    <3>1. (after \o wire)[1] = Head(after) /\ Len(after \o wire) >= 1
      BY <1>1, <1>7, TailCat
    <3>2. after \o wire \in Seq(Piece)
      BY <1>1
    <3> DEFINE d == after \o wire
    <3> HIDE DEF d
    <3>3. Head(d) = d[1]
      BY <3>1, <3>2, HeadTailProperties DEF d
    <3> QED BY <3>1, <3>3 DEF d
  <2>13. IsRest(Coming, Coming, 0)
    BY <1>1 DEF IsRest
  <2> QED BY SMTT(30), <1>1, <1>2, <1>4, <1>5, <2>1, <2>5, <2>6, <2>7, <2>9, <2>10, <2>11, <2>12, <2>13 DEF after
<1>8. CASE after = <<>>
  <2>1. wire' = Tail(wire) /\ buf' = buf /\ wire # <<>>
    <3>1. wire' = Tail(wire) /\ buf' = buf
      BY <1>8 DEF after
    <3>2. wire # <<>>
      BY <1>1, <1>8 DEF after
    <3> QED BY <3>1, <3>2
  <2>2. /\ Tail(wire) \in Seq(Piece) /\ Tail(wire) \o Pending \in Seq(Piece)
        /\ IsRest(Tail(wire) \o Pending, wire \o Pending, 1)
        /\ Len(wire \o Pending) >= 1 /\ (wire \o Pending)[1] = Head(wire)
    BY <1>1, <2>1, TailCat
  <2>3. Unpassed = Coming /\ after \o wire = wire
    BY <1>1, <1>4, <1>8, ConcatEmptySeq
  <2>4. Unpassed' = Coming'
    <3>1. SubSeq(buf', Caller!EndOfHeader(buf') + 1, Len(buf')) = <<>>
      BY <1>3, <1>8, <2>1 DEF e
    <3>2. Coming' \in Seq(Piece)
      BY <1>4, <2>1, <2>2
    <3> QED BY <1>6, <3>1, <3>2, ConcatEmptySeq
  <2>5. buf' \in Seq(Piece) /\ Len(buf') <= Len(buf) /\ wire' \in Seq(Piece)
    BY <1>1, <1>2, <2>1, <2>2
  <2>6. Caller!EndOfHeader(buf)' > 0
    BY <1>2, <1>5, <2>1 DEF e
  <2>7. Len(Unpassed) >= 1 /\ Head(Caller!AfterHeader \o wire) = Unpassed[1]
    BY <1>4, <2>2, <2>3 DEF after
  <2>8. Coming' \in Seq(Piece) /\ IsRest(Coming', Coming, 1)
    BY <1>4, <2>1, <2>2
  <2> QED BY <2>3, <2>4, <2>5, <2>6, <2>7, <2>8
<1> QED BY <1>7, <1>8

LEMMA ReadStep ==
    ASSUME ClientHypothesis, ClientInv, Caller!Read
    PROVE  ClientInv'
<1> USE DEF ClientInv
<1> DEFINE N == Len(seen)
<1>1. /\ pc = "body" /\ seen[N].r # 0 /\ Caller!AfterHeader \o wire # <<>> /\ waited' = 0
      /\ UNCHANGED <<mode, ebuf_len, ebuf, mem, sock, mutex, script, todo, open, sent, response>>
  BY DEF Caller!Read, Caller!Newest, Caller!holds
<1>2. /\ N \in 1 .. Len(seen) /\ seen[N] \in Got /\ seen \in Seq(Got) /\ N \in Nat
      /\ seen[N].r \in 1 .. Len(script) /\ seen[N].body \in Nat
  <2>1. seen \in Seq(Got) /\ seen # <<>>
    BY <1>1 DEF ClientTyped
  <2>2. N \in 1 .. Len(seen) /\ N \in Nat
    BY <2>1
  <2>3. seen[N] \in Got
    BY <2>1, <2>2, ElementOfSeq
  <2>4. seen[N].r <= Len(script)
    BY <2>2 DEF ClientTyped
  <2> QED BY <1>1, <2>1, <2>2, <2>3, <2>4 DEF Got, ClientTyped, WellScripted, IsScript
<1>3. /\ response = Caller!Framed(seen[N].r) /\ Caller!EndOfHeader(buf) > 0
      /\ script[seen[N].r].framing = "chunked" =>
            /\ seen[N].body <= script[seen[N].r].body
            /\ BodyFrom(Unpassed, 0, script[seen[N].r].body - seen[N].body)
  BY <1>1 DEF InBody
<1>4. /\ buf' \in Seq(Piece) /\ Len(buf') <= Len(buf) /\ wire' \in Seq(Piece)
      /\ Caller!EndOfHeader(buf)' > 0
      /\ Len(Unpassed) >= 1 /\ Head(Caller!AfterHeader \o wire) = Unpassed[1]
      /\ Unpassed' \in Seq(Piece) /\ IsRest(Unpassed', Unpassed, 1)
      /\ Coming' \in Seq(Piece) /\ \E m : IsRest(Coming', Coming, m)
  <2>1. IF Caller!AfterHeader # <<>>
        THEN /\ buf' = SubSeq(buf, 1, Caller!EndOfHeader(buf)) \o Tail(Caller!AfterHeader)
             /\ UNCHANGED wire
        ELSE wire' = Tail(wire) /\ UNCHANGED buf
    BY DEF Caller!Read
  <2> QED BY <1>1, <1>3, <2>1, BehindNext
<1>5. Unpassed \in Seq(Piece) /\ Coming \in Seq(Piece) /\ IsScript(script) /\ Len(buf') <= BufSize
  <2>1. Len(buf') <= BufSize
    <3>1. Len(buf) \in Nat /\ Len(buf') \in Nat /\ BufSize \in Nat /\ Len(buf) <= BufSize
      BY SMTT(30), <1>4 DEF ClientTyped, ClientHypothesis, Caller!ClientAssumption
    <3> QED BY <1>4, <3>1
  <2> QED BY <2>1, StreamTypes DEF ClientTyped, WellScripted
<1>6. ClientStream'
  <2>1. PICK m : IsRest(Coming', Coming, m)
    BY <1>4
  <2>2. Shape(script, Coming') /\ (open => Ended(script, Coming'))
    BY <1>4, <1>5, <2>1, ShapeRest DEF ClientStream
  <2>3. pc' # "get"
    BY <1>1 DEF Caller!Read
  <2> QED BY <1>1, <2>2, <2>3 DEF ClientStream
<1>7. response.is_chunked = (script[seen[N].r].framing = "chunked")
  <2>1. WellScripted(script)
    BY DEF ClientTyped
  <2> QED BY <1>2, <1>3, <2>1, FramedIs
<1>8. PICK n \in Nat : n = script[seen[N].r].body
  BY <1>2, <1>5, AnswerIs
<1>9. \/ /\ response.is_chunked /\ Unpassed[1].k = "e" /\ pc' = "up" /\ UNCHANGED seen
      \/ /\ ~ (response.is_chunked /\ Unpassed[1].k = "e") /\ UNCHANGED pc
         /\ seen' = [seen EXCEPT ![N].body = @ + 1]
  BY <1>4 DEF Caller!Read, Caller!Newest
<1>10. ASSUME script[seen[N].r].framing = "chunked"
       PROVE  /\ n - seen[N].body \in Nat /\ BodyFrom(Unpassed, 0, n - seen[N].body)
              /\ n = seen[N].body => Unpassed[1].k = "e"
              /\ n # seen[N].body => Unpassed[1].k = "b"
  <2>1. n - seen[N].body \in Nat /\ BodyFrom(Unpassed, 0, n - seen[N].body)
    BY <1>2, <1>3, <1>8, <1>10
  <2>2. /\ n - seen[N].body = 0 => Unpassed[1].k = "e"
        /\ n - seen[N].body >= 1 => Unpassed[1].k = "b"
    BY <1>4, <1>5, <2>1, BodyFirst
  <2> QED BY <1>2, <2>1, <2>2
<1>11. CASE response.is_chunked /\ Unpassed[1].k = "e" /\ pc' = "up" /\ UNCHANGED seen
  <2>1. ClientTyped'
    BY <1>1, <1>4, <1>5, <1>11 DEF ClientTyped, Setup, ClientHypothesis, Caller!ClientAssumption
  <2>2. ClientHolds' /\ ClientTold' /\ InBody'
    BY <1>1, <1>11 DEF ClientHolds, Caller!Released, ClientTold, InBody, Setup
  <2>3. seen[N].body = n
    BY <1>7, <1>10, <1>11
  <2>4. ClientWhole'
    <3> SUFFICES ASSUME NEW i \in 1 .. Len(seen), seen[i].r # 0, ~seen[i].cut
                 PROVE  seen[i].body = script[seen[i].r].body
      BY <1>1, <1>11 DEF ClientWhole
    <3>1. CASE i < N
      BY <3>1 DEF ClientWhole
    <3>2. CASE i = N
      BY <1>8, <2>3, <3>2
    <3> QED BY <1>2, <3>1, <3>2
  <2> QED BY <1>6, <2>1, <2>2, <2>4
<1>12. CASE /\ ~ (response.is_chunked /\ Unpassed[1].k = "e") /\ UNCHANGED pc
            /\ seen' = [seen EXCEPT ![N].body = @ + 1]
  <2>1. /\ seen' \in Seq(Got) /\ Len(seen') = N /\ \A i \in 1 .. N : i < N => seen'[i] = seen[i]
        /\ seen'[N].r = seen[N].r /\ seen'[N].body = seen[N].body + 1
    <3>1. [seen[N] EXCEPT !.body = @ + 1] \in Got
      BY <1>2 DEF Got
    <3>2. seen' = [seen EXCEPT ![N] = [seen[N] EXCEPT !.body = @ + 1]]
      BY <1>12
    <3>3. seen' \in Seq(Got) /\ Len(seen') = N
      BY <1>2, <3>1, <3>2, ExceptSeq
    <3>4. seen'[N] = [seen[N] EXCEPT !.body = @ + 1] /\ \A i \in 1 .. N : i < N => seen'[i] = seen[i]
      BY SMTT(30), <1>2, <3>2
    <3>5. seen'[N].r = seen[N].r /\ seen'[N].body = seen[N].body + 1
      BY <1>2, <3>4 DEF Got
    <3> QED BY <3>3, <3>4, <3>5
  <2> HIDE DEF N
  <2>2. \A i \in 1 .. Len(seen') : seen'[i].r <= Len(script)
    <3>1. \A i \in 1 .. N : i < N \/ i = N
      BY <1>2
    <3>2. \A i \in 1 .. N : seen[i].r <= Len(script)
      BY DEF ClientTyped, N
    <3> QED BY <1>2, <2>1, <3>1, <3>2
  <2>3. ClientTyped'
    <3>1. seen' # <<>>
      BY <1>2, <2>1
    <3> QED BY SMTT(30), <1>1, <1>4, <1>5, <1>12, <2>1, <2>2, <3>1
         DEF ClientTyped, Setup, ClientHypothesis, Caller!ClientAssumption
  <2>4. ClientHolds'
    BY <1>1, <1>12 DEF ClientHolds, Caller!Released, Setup
  <2>5. ClientTold'
    BY <1>1, <1>12, <2>1 DEF ClientTold, N
  <2>6. ClientWhole'
    <3> SUFFICES ASSUME NEW i \in 1 .. N, seen'[i].r # 0, ~seen'[i].cut, i < N
                 PROVE  seen'[i].body = script[seen'[i].r].body
      BY <1>1, <1>12, <2>1 DEF ClientWhole
    <3> QED BY <2>1 DEF ClientWhole, N
  <2>7. InBody'
    <3>1. response' = Caller!Framed(seen[N].r)
      BY <1>1, <1>3
    <3>2. PICK r : r = seen[N].r
      OBVIOUS
    <3>3. response' = Caller!Framed(r)'
      BY <1>1, <3>1, <3>2 DEF Caller!Framed
    <3>4. ASSUME script[r].framing = "chunked"
          PROVE  /\ seen[N].body + 1 <= n
                 /\ BodyFrom(Unpassed', 0, n - (seen[N].body + 1))
      <4>1. n # seen[N].body
        BY <1>7, <1>10, <1>12, <3>2, <3>4
      <4>2. n - seen[N].body >= 1 /\ n - (seen[N].body + 1) = (n - seen[N].body) - 1
            /\ seen[N].body + 1 <= n
        BY <1>2, <1>10, <3>2, <3>4, <4>1
      <4>3. BodyFrom(Unpassed', 0, (n - seen[N].body) - 1)
        BY <1>4, <1>5, <1>10, <3>2, <3>4, <4>2, BodyNext
      <4> QED BY <4>2, <4>3
    <3>5. /\ seen'[Len(seen')].r = r /\ seen'[Len(seen')].body = seen[N].body + 1
          /\ script' = script /\ script[r].body = n
      BY <1>1, <1>8, <2>1, <3>2
    <3> QED BY <1>4, <3>3, <3>4, <3>5 DEF InBody
  <2> QED BY <1>6, <2>3, <2>4, <2>5, <2>6, <2>7
<1> QED BY <1>9, <1>11, <1>12

LEMMA ReadEndsStep ==
    ASSUME ClientHypothesis, ClientInv, Caller!ReadEnds
    PROVE  ClientInv'
<1> USE DEF ClientInv
<1> DEFINE N == Len(seen)
<1>1. /\ pc = "body" /\ seen[N].r # 0
      /\ UNCHANGED <<mode, ebuf_len, ebuf, mem, sock, mutex, script, todo, wire, open, sent, buf, response, waited>>
  BY DEF Caller!ReadEnds, Caller!Newest, Caller!holds, Caller!server
<1>2. /\ N \in 1 .. Len(seen) /\ seen[N] \in Got /\ seen \in Seq(Got) /\ N \in Nat
      /\ seen[N].r \in 1 .. Len(script) /\ seen[N].body \in Nat
  <2>1. seen \in Seq(Got) /\ seen # <<>>
    BY <1>1 DEF ClientTyped
  <2>2. N \in 1 .. Len(seen) /\ N \in Nat
    BY <2>1
  <2>3. seen[N] \in Got
    BY <2>1, <2>2, ElementOfSeq
  <2>4. seen[N].r <= Len(script)
    BY <2>2 DEF ClientTyped
  <2> QED BY <1>1, <2>1, <2>2, <2>3, <2>4 DEF Got, ClientTyped, WellScripted, IsScript
<1>3. PICK c : /\ seen' = [seen EXCEPT ![N].cut = c]
               /\ c \in BOOLEAN
               /\ \/ pc' = "closing"
                  \/ pc' = "up" /\ open /\ Caller!BodyEnds
  <2>1. response \in [r : Nat, content_len : Int, is_chunked : BOOLEAN]
    BY DEF ClientTyped
  <2>2. CASE /\ Caller!BodyEnds /\ pc' = (IF open THEN "up" ELSE "closing")
             /\ seen' = [seen EXCEPT ![N].cut = response.is_chunked \/ response.content_len > seen[N].body]
    <3>1. (response.is_chunked \/ response.content_len > seen[N].body) \in BOOLEAN
      BY <2>1
    <3>2. pc' = "closing" \/ (pc' = "up" /\ open /\ Caller!BodyEnds)
      BY <2>2
    <3> QED BY <2>2, <3>1, <3>2
  <2>3. CASE pc' = "closing" /\ seen' = [seen EXCEPT ![N].cut = TRUE]
    BY <2>3
  <2> QED BY <2>2, <2>3 DEF Caller!ReadEnds, Caller!Newest
<1>4. /\ seen' \in Seq(Got) /\ Len(seen') = N /\ \A i \in 1 .. N : i < N => seen'[i] = seen[i]
      /\ seen'[N].r = seen[N].r /\ seen'[N].body = seen[N].body
  <2>1. [seen[N] EXCEPT !.cut = c] \in Got
    BY <1>2, <1>3 DEF Got
  <2>2. seen' = [seen EXCEPT ![N] = [seen[N] EXCEPT !.cut = c]]
    BY <1>3
  <2>3. seen' \in Seq(Got) /\ Len(seen') = N
    BY <1>2, <2>1, <2>2, ExceptSeq
  <2>4. seen'[N] = [seen[N] EXCEPT !.cut = c] /\ \A i \in 1 .. N : i < N => seen'[i] = seen[i]
    BY <1>2, <2>2
  <2>5. seen'[N].r = seen[N].r /\ seen'[N].body = seen[N].body
    BY <1>2, <2>4 DEF Got
  <2> QED BY <2>3, <2>4, <2>5
<1>5. pc' = "up" => seen[N].body = script[seen[N].r].body
  <2> SUFFICES ASSUME pc' = "up" PROVE seen[N].body = script[seen[N].r].body
    OBVIOUS
  <2>1. response.content_len = seen[N].body /\ ~response.is_chunked
    BY <1>3 DEF Caller!BodyEnds, Caller!Newest
  <2>2. response = Caller!Framed(seen[N].r)
    BY <1>1 DEF InBody
  <2>3. response.content_len \in {script[seen[N].r].body, -1}
    <3>1. WellScripted(script)
      BY DEF ClientTyped
    <3> QED BY <1>2, <2>1, <2>2, <3>1, FramedIs
  <2> QED BY <1>2, <2>1, <2>3
<1> HIDE DEF N
<1>6. \A i \in 1 .. Len(seen') : seen'[i].r <= Len(script)
  <2>1. \A i \in 1 .. N : i < N \/ i = N
    BY <1>2
  <2>2. \A i \in 1 .. N : seen[i].r <= Len(script)
    BY DEF ClientTyped, N
  <2> QED BY <1>2, <1>4, <2>1, <2>2
<1>7. pc' \in {"up", "closing"}
  BY <1>3
<1>8. ClientTyped'
  BY <1>1, <1>4, <1>6, <1>7 DEF ClientTyped, Setup
<1>9. ClientHolds' /\ InBody'
  BY <1>1, <1>7 DEF ClientHolds, Caller!Released, InBody, Setup
<1>10. ClientTold'
  <2>1. seen' # <<>>
    BY <1>2, <1>4
  <2> QED BY <1>1, <1>7, <2>1 DEF ClientTold
<1>11. ClientStream'
  <2>1. Coming' = Coming
    BY <1>1, StreamSame
  <2> QED BY <1>1, <1>7, <2>1 DEF ClientStream
<1>12. ClientWhole'
  <2> SUFFICES ASSUME NEW i \in 1 .. N, seen'[i].r # 0, ~seen'[i].cut, i < N \/ pc' = "up"
               PROVE  seen'[i].body = script[seen'[i].r].body
    BY <1>1, <1>4, <1>7 DEF ClientWhole
  <2>1. CASE i < N
    BY <1>4, <2>1 DEF ClientWhole, N
  <2>2. CASE i = N
    BY <1>2, <1>4, <1>5, <2>2
  <2> QED BY <1>2, <2>1, <2>2
<1> QED BY <1>8, <1>9, <1>10, <1>11, <1>12

LEMMA CloseStep ==
    ASSUME ClientHypothesis, ClientInv, Caller!Close
    PROVE  ClientInv'
<1> USE DEF ClientInv, Caller!Close, Caller!server
<1>1. ClientTyped'
  BY DEF ClientTyped, Setup
<1>2. ClientHolds' /\ ClientTold' /\ InBody'
  BY DEF ClientHolds, Caller!Released, ClientTold, InBody, Setup
<1>3. Coming' = Coming
  BY StreamSame
<1>4. ClientStream' /\ ClientWhole'
  BY <1>3 DEF ClientStream, ClientWhole
<1> QED BY <1>1, <1>2, <1>4

(* The part about the body, when nothing of it has moved.                  *)
LEMMA BodySame ==
    ASSUME InBody, Unpassed' = Unpassed, UNCHANGED <<script, buf, response, pc, seen>>
    PROVE  InBody'
<1>1. Caller!EndOfHeader(buf)' = Caller!EndOfHeader(buf)
  BY DEF Caller!EndOfHeader, Caller!SelectInSeq
<1>2. Caller!Framed(seen[Len(seen)].r)' = Caller!Framed(seen[Len(seen)].r)
  BY DEF Caller!Framed
<1> QED BY <1>1, <1>2 DEF InBody

LEMMA WaitStep ==
    ASSUME ClientHypothesis, ClientInv, Caller!Wait
    PROVE  ClientInv'
<1> USE DEF ClientInv, Caller!Wait, Caller!server, Caller!holds
<1>1. ClientTyped'
  BY DEF ClientTyped, Setup, ClientHypothesis, Caller!ClientAssumption
<1>2. ClientHolds' /\ ClientTold' /\ ClientWhole'
  BY DEF ClientHolds, Caller!Released, ClientTold, ClientWhole, Setup
<1>3. Coming' = Coming /\ Ahead' = Ahead /\ Unpassed' = Unpassed
  BY StreamSame
<1>4. ClientStream'
  BY <1>3 DEF ClientStream
<1>5. InBody'
  BY <1>3, BodySame
<1> QED BY <1>1, <1>2, <1>4, <1>5

LEMMA ServerSendsStep ==
    ASSUME ClientHypothesis, ClientInv, Caller!ServerSends
    PROVE  ClientInv'
<1> USE DEF ClientInv, Caller!ServerSends, Caller!holds
<1>1. wire \in Seq(Piece) /\ todo \in Seq(Piece) /\ todo # <<>> /\ open
  BY DEF ClientTyped
<1>2. /\ Append(wire, Head(todo)) \in Seq(Piece) /\ Tail(todo) \in Seq(Piece)
      /\ Append(wire, Head(todo)) \o Tail(todo) = wire \o todo
  BY <1>1, OneMoved
<1>3. ClientTyped'
  BY <1>2 DEF ClientTyped
<1>4. ClientHolds' /\ ClientTold' /\ ClientWhole'
  BY DEF ClientHolds, Caller!Released, ClientTold, ClientWhole
<1>5. Coming' = Coming
  BY <1>1, <1>2 DEF Coming, Pending
<1>6. Ahead' = Ahead
  BY <1>5 DEF Ahead
<1>7. Caller!AfterHeader' = Caller!AfterHeader
  BY DEF Caller!AfterHeader, Caller!EndOfHeader, Caller!SelectInSeq
<1>8. Unpassed' = Unpassed
  BY <1>5, <1>7 DEF Unpassed
<1>9. ClientStream'
  BY <1>5, <1>6 DEF ClientStream
<1>10. InBody'
  BY <1>8, BodySame
<1> QED BY <1>3, <1>4, <1>9, <1>10

(* What has not been sent when the server closes is not sent any more.     *)
LEMMA ServerClosesStep ==
    ASSUME ClientHypothesis, ClientInv, Caller!ServerCloses
    PROVE  ClientInv'
<1> USE DEF ClientInv, Caller!ServerCloses, Caller!holds
<1>1. wire \in Seq(Piece) /\ todo \in Seq(Piece) /\ open /\ ~open' /\ buf \in Seq(Piece) /\ IsScript(script)
  BY DEF ClientTyped, WellScripted
<1>2. Coming = wire \o todo /\ Coming' = wire /\ Coming \in Seq(Piece)
  BY <1>1 DEF Coming, Pending
<1>3. IsCat(Coming, wire, todo)
  BY <1>1, <1>2, CatSo
<1>4. Shape(script, Coming')
  BY <1>1, <1>2, <1>3, ShapeFront DEF ClientStream
<1>5. pc = "get" => Shape(script, Ahead')
  <2>1. /\ buf \o (wire \o todo) \in Seq(Piece) /\ buf \o wire \in Seq(Piece)
        /\ IsCat(buf \o (wire \o todo), buf \o wire, todo)
    BY <1>1, CatFront
  <2>2. Ahead = buf \o (wire \o todo) /\ Ahead' = buf \o wire
    BY <1>2 DEF Ahead
  <2> DEFINE d == buf \o (wire \o todo) a == buf \o wire
  <2> HIDE DEF d, a
  <2>3. d \in Seq(Piece) /\ a \in Seq(Piece) /\ IsCat(d, a, todo) /\ Ahead = d /\ Ahead' = a
    BY <2>1, <2>2 DEF d, a
  <2> QED BY <1>1, <2>3, ShapeFront DEF ClientStream
<1>6. ClientStream'
  BY <1>1, <1>4, <1>5 DEF ClientStream
<1>7. ClientTyped'
  <2>1. WellScripted(script)' /\ sent' = sent /\ script' = script /\ seen' = seen
    BY DEF ClientTyped, WellScripted
  <2>2. todo' \in Seq(Piece)
    OBVIOUS
  <2> QED BY <2>1, <2>2 DEF ClientTyped, Setup
<1>8. ClientHolds' /\ ClientTold' /\ ClientWhole'
  BY DEF ClientHolds, Caller!Released, ClientTold, ClientWhole
<1>9. InBody'
  <2> SUFFICES ASSUME pc = "body", seen[Len(seen)].r # 0 PROVE InBody'
    BY DEF InBody
  <2>1. PICK r, b : r = seen[Len(seen)].r /\ b = seen[Len(seen)].body
    OBVIOUS
  <2>2. r \in 1 .. Len(script) /\ b \in Nat
    <3>1. seen \in Seq(Got) /\ seen # <<>>
      BY DEF ClientTyped
    <3>2. Len(seen) \in 1 .. Len(seen)
      BY <3>1
    <3>3. seen[Len(seen)] \in Got /\ seen[Len(seen)].r <= Len(script)
      BY <3>1, <3>2, ElementOfSeq DEF ClientTyped
    <3> QED BY <1>1, <2>1, <3>3 DEF Got, IsScript
  <2>3. Caller!AfterHeader \in Seq(Piece)
    BY StreamTypes
  <2>4. Caller!AfterHeader' = Caller!AfterHeader /\ Caller!EndOfHeader(buf)' = Caller!EndOfHeader(buf)
    BY DEF Caller!AfterHeader, Caller!EndOfHeader, Caller!SelectInSeq
  <2>5. Unpassed = Caller!AfterHeader \o (wire \o todo) /\ Unpassed' = Caller!AfterHeader \o wire
    BY <1>2, <2>4 DEF Unpassed
  <2>6. /\ Caller!AfterHeader \o (wire \o todo) \in Seq(Piece) /\ Caller!AfterHeader \o wire \in Seq(Piece)
        /\ IsCat(Caller!AfterHeader \o (wire \o todo), Caller!AfterHeader \o wire, todo)
    BY <1>1, <2>3, CatFront
  <2>7. ASSUME script[r].framing = "chunked"
        PROVE  b <= script[r].body /\ BodyFrom(Unpassed', 0, script[r].body - b)
    <3>1. b <= script[r].body /\ BodyFrom(Unpassed, 0, script[r].body - b)
      BY <2>1, <2>7 DEF InBody
    <3>2. script[r].body - b \in Nat
      <4>1. script[r].body \in Nat
        BY <1>1, <2>2, AnswerIs
      <4> QED BY <2>2, <3>1, <4>1
    <3>3. Unpassed \in Seq(Piece) /\ Unpassed' \in Seq(Piece) /\ IsCat(Unpassed, Unpassed', todo)
      BY <2>5, <2>6
    <3>4. BodyFrom(Unpassed', 0, script[r].body - b)
      BY <1>1, <3>1, <3>2, <3>3, BodyFront
    <3> QED BY <3>1, <3>4
  <2>8. response' = Caller!Framed(r)'
    <3>1. response = Caller!Framed(r)
      BY <2>1 DEF InBody
    <3> QED BY <3>1 DEF Caller!Framed
  <2>9. Caller!EndOfHeader(buf)' > 0
    BY <2>4 DEF InBody
  <2> QED BY <2>1, <2>7, <2>8, <2>9 DEF InBody
<1> QED BY <1>6, <1>7, <1>8, <1>9

LEMMA ClientStep ==
    ASSUME ClientHypothesis PROVE ClientInv /\ [Caller!Next]_(Caller!vars) => ClientInv'
<1> SUFFICES ASSUME ClientHypothesis, ClientInv, [Caller!Next]_(Caller!vars) PROVE ClientInv'
  OBVIOUS
<1>1. CASE UNCHANGED Caller!vars
  <2> USE <1>1 DEF Caller!vars, Caller!server, Caller!holds, ClientInv
  <2>1. Coming' = Coming /\ Ahead' = Ahead /\ Unpassed' = Unpassed
    BY StreamSame
  <2>2. InBody'
    BY <2>1, BodySame
  <2> QED BY <2>1, <2>2 DEF ClientTyped, ClientHolds, Caller!Released, ClientTold, ClientStream, ClientWhole
<1>2. CASE Caller!Establish
  BY <1>2, EstablishStep
<1>3. CASE Caller!Caller
  BY <1>3, SendStep, GetNextStep, ReceiveStep, GiveUpStep, ReadStep, ReadEndsStep, CloseStep DEF Caller!Caller
<1>4. CASE Caller!ServerSends \/ Caller!ServerCloses \/ Caller!Wait
  BY <1>4, ServerSendsStep, ServerClosesStep, WaitStep
<1> QED BY <1>1, <1>2, <1>3, <1>4 DEF Caller!Next

(* mg_connect_client, mg_get_response, mg_read: what client and connection *)
(* keep has its type (TypesOK, part "client").                             *)
THEOREM ClientTypes == ASSUME ClientHypothesis PROVE Caller!Spec => []Caller!TypeOK
<1>1. ClientInv => Caller!TypeOK
  BY DEF ClientInv, ClientTyped, Caller!TypeOK, Setup
<1> QED BY <1>1, ClientInit, ClientStep, PTL DEF Caller!Spec

(* mg_connect_client_impl, mg_close_connection: at whatever step it ends,  *)
(* neither memory nor socket nor mutex is left (Released, within           *)
(* ClientsTold).                                                           *)
THEOREM ClientReleased == ASSUME ClientHypothesis PROVE Caller!Spec => []Caller!Released
<1>1. ClientInv => Caller!Released
  BY DEF ClientInv, ClientHolds
<1> QED BY <1>1, ClientInit, ClientStep, PTL DEF Caller!Spec

(* mg_download, mg_get_response: with room for a message, a caller without *)
(* a response has no connection and a message (ErrorsTold, within          *)
(* ClientsTold).                                                           *)
THEOREM ClientErrorsTold ==
    ASSUME ClientHypothesis, 0 \notin EbufLens
    PROVE  Caller!Spec => []Caller!ErrorsTold
<1>1. Caller!Init => ebuf_len \in EbufLens
  BY DEF Caller!Init
<1>2. ebuf_len \in EbufLens /\ [Caller!Next]_(Caller!vars) => (ebuf_len \in EbufLens)'
  <2> SUFFICES ASSUME ebuf_len \in EbufLens, [Caller!Next]_(Caller!vars) PROVE UNCHANGED ebuf_len
    OBVIOUS
  <2> QED BY DEF Caller!Next, Caller!vars, Caller!Establish, Caller!Allocate, Caller!Resolve, Caller!OpenSocket,
                 Caller!Connect, Caller!Poll, Caller!InitMutex, Caller!Connecting, Caller!Caller, Caller!Send,
                 Caller!GetNext, Caller!Receive, Caller!GiveUp, Caller!TooLarge, Caller!Read,
                 Caller!ReadEnds, Caller!Close, Caller!ServerSends, Caller!ServerCloses, Caller!Wait
<1>3. ClientInv /\ ebuf_len \in EbufLens => Caller!ErrorsTold
  <2> SUFFICES ASSUME ClientInv, ebuf_len \in EbufLens PROVE Caller!ErrorsTold
    OBVIOUS
  <2>1. ebuf_len > 0
    BY DEF ClientHypothesis
  <2> QED BY <2>1 DEF ClientInv, ClientTold, Caller!ErrorsTold, Caller!Newest
<1> QED BY <1>1, <1>2, <1>3, ClientInit, ClientStep, PTL DEF Caller!Spec

(* mg_get_response, mg_read: whatever of a body came together with its     *)
(* header, the caller reads the whole body and no more, unless it is told  *)
(* that it was cut (BodyWhole, within ClientsTold).                        *)
THEOREM ClientBodyWhole == ASSUME ClientHypothesis PROVE Caller!Spec => []Caller!BodyWhole
<1>1. ClientInv => Caller!BodyWhole
  <2> SUFFICES ASSUME ClientInv PROVE Caller!BodyWhole
    OBVIOUS
  <2>1. seen \in Seq(Got)
    BY DEF ClientInv, ClientTyped
  <2>2. DOMAIN seen = 1 .. Len(seen)
    BY <2>1
  <2> QED BY <2>2 DEF ClientInv, ClientWhole, Caller!BodyWhole, Caller!Newest
<1> QED BY <1>1, ClientInit, ClientStep, PTL DEF Caller!Spec

-----------------------------------------------------------------------------
(* The load generator *)

(* LoadGenAssumption, and that a vector holds the threads.                 *)
LoadHypothesis == Load!LoadGenAssumption /\ IsFiniteSet(LoadWorkers)

(* The workers that have begun a round and not counted it yet.             *)
InRound == {w \in LoadWorkers : pc[w] \in {"choose", "perform", "count"}}

(* TypeOK, and what it leaves out; no worker runs before the start, and    *)
(* all have ended when the totals are printed.                             *)
LoadTyped ==
    /\ next \in 0 .. POPULAR_KEY_COUNT /\ popular_keys \in Seq(Nat) /\ Len(popular_keys) <= next
    /\ total_requests \in Nat /\ total_failed \in Nat /\ rounds \in Nat
    /\ main \in {"prepopulate", "start", "sleep", "join", "printed", "exit"}
    /\ pc \in [LoadWorkers -> {"new", "top", "choose", "perform", "count", "ended"}]
    /\ handle \in [LoadWorkers -> [method : {"GET", "POST"}, custom : {"none", "DELETE"},
                               fields : {"none", "own", "null"}]]
    /\ ok \in [LoadWorkers -> BOOLEAN]
    /\ main \in {"prepopulate", "start"} => \A w \in LoadWorkers : pc[w] = "new"
    /\ main = "printed" => \A w \in LoadWorkers : pc[w] = "ended"

(* The keys are those of rounds of prepopulate, in their order.            *)
KeysInOrder ==
    /\ \A i \in DOMAIN popular_keys : popular_keys[i] < next /\ popular_keys[i] \in stored
    /\ \A i, j \in DOMAIN popular_keys : i < j => popular_keys[i] < popular_keys[j]

(* A round is counted, or somebody is in it.                               *)
RoundsCounted == total_requests + total_failed + Cardinality(InRound) = rounds

SentRequests == [op : {"none", "get", "post", "delete"}, verb : {"none", "GET", "POST", "DELETE"},
             body : {"none", "own", "stdin"}]

(* do_delete takes its custom request back before the handle is used again. *)
HandlesClean ==
    /\ \A w \in LoadWorkers : handle[w].custom = "none"
    /\ Load!SentAsMeant
    /\ request \in [LoadWorkers -> SentRequests]

LoadInv == LoadTyped /\ KeysInOrder /\ RoundsCounted /\ HandlesClean

LEMMA LoadInit == ASSUME LoadHypothesis PROVE Load!Init => LoadInv
<1> SUFFICES ASSUME LoadHypothesis, Load!Init PROVE LoadInv
  OBVIOUS
<1> USE DEF LoadHypothesis, Load!LoadGenAssumption
<1>1. LoadTyped
  BY DEF LoadTyped, Load!Init, Load!NewHandle
<1>2. KeysInOrder
  BY DEF KeysInOrder, Load!Init
<1>3. InRound = {}
  BY DEF InRound, Load!Init
<1>4. RoundsCounted
  BY <1>3, FS_EmptySet DEF RoundsCounted, Load!Init
<1>5. HandlesClean
  BY DEF HandlesClean, Load!SentAsMeant, Load!Init, Load!NewHandle, Load!NoRequest, SentRequests
<1> QED BY <1>1, <1>2, <1>4, <1>5 DEF LoadInv

(* The workers in a round are so many more or fewer.                       *)
LEMMA RoundsSame ==
    ASSUME RoundsCounted, InRound' = InRound,
           UNCHANGED <<total_requests, total_failed, rounds>>
    PROVE  RoundsCounted'
BY DEF RoundsCounted

LEMMA LoadStep == ASSUME LoadHypothesis PROVE LoadInv /\ [Load!Next]_(Load!vars) => LoadInv'
<1> SUFFICES ASSUME LoadHypothesis, LoadInv, [Load!Next]_(Load!vars) PROVE LoadInv'
  OBVIOUS
<1> USE DEF LoadHypothesis, Load!LoadGenAssumption, LoadInv
<1>1. CASE Load!Prepopulate
  <2> USE <1>1 DEF Load!Prepopulate, Load!PushIfStored, Load!totals, Load!loops
  <2>1. popular_keys' = popular_keys \/ (popular_keys' = Append(popular_keys, next) /\ stored' = stored \cup {next})
    OBVIOUS
  <2>2. LoadTyped'
    BY <2>1 DEF LoadTyped
  <2>3. KeysInOrder'
    <3>1. stored \subseteq stored' /\ next' = next + 1 /\ next \in Nat /\ popular_keys \in Seq(Nat)
      BY DEF LoadTyped
    <3>2. CASE popular_keys' = popular_keys
      BY <3>1, <3>2 DEF KeysInOrder
    <3>3. CASE popular_keys' = Append(popular_keys, next) /\ stored' = stored \cup {next}
      BY <3>1, <3>3 DEF KeysInOrder
    <3> QED BY <2>1, <3>2, <3>3
  <2>4. RoundsCounted'
    BY RoundsSame DEF InRound
  <2>5. HandlesClean'
    BY DEF HandlesClean, Load!SentAsMeant
  <2> QED BY <2>2, <2>3, <2>4, <2>5
<1>2. CASE Load!PrepopulateEnds \/ Load!PrepopulateWithoutCurl \/ Load!SleepEnds \/ Load!Report
  <2> USE <1>2 DEF Load!PrepopulateEnds, Load!PrepopulateWithoutCurl, Load!SleepEnds, Load!Report,
                   Load!totals, Load!loops, Load!filling
  <2>1. LoadTyped'
    BY DEF LoadTyped
  <2>2. KeysInOrder' /\ HandlesClean'
    BY DEF KeysInOrder, HandlesClean, Load!SentAsMeant
  <2>3. RoundsCounted'
    BY RoundsSame DEF InRound
  <2> QED BY <2>1, <2>2, <2>3
<1>3. CASE Load!Start \/ Load!StartWithoutCurl
  <2> USE <1>3 DEF Load!Start, Load!StartWithoutCurl, Load!totals, Load!filling
  <2>1. LoadTyped'
    BY DEF LoadTyped
  <2>2. KeysInOrder' /\ HandlesClean'
    BY DEF KeysInOrder, HandlesClean, Load!SentAsMeant
  <2>3. InRound = {} /\ InRound' = {}
    BY DEF InRound, LoadTyped
  <2>4. RoundsCounted'
    BY <2>3, RoundsSame
  <2> QED BY <2>1, <2>2, <2>4
<1>4. ASSUME NEW w \in LoadWorkers, Load!Worker(w) PROVE LoadInv'
  <2>1. pc \in [LoadWorkers -> {"new", "top", "choose", "perform", "count", "ended"}] /\ IsFiniteSet(InRound)
    <3>1. IsFiniteSet(InRound)
      BY FS_Subset DEF InRound
    <3> QED BY <3>1 DEF LoadTyped
  <2>2. KeysInOrder'
    BY <1>4 DEF KeysInOrder, Load!Worker, Load!LoopTest, Load!Choose, Load!ChooseNothing, Load!Perform,
                Load!Count, Load!filling
  <2>3. Cardinality(InRound) \in Nat /\ total_requests \in Nat /\ total_failed \in Nat /\ rounds \in Nat
    BY <2>1, FS_CardinalityType DEF LoadTyped
  <2>4. CASE Load!LoopTest(w)
    <3> USE <2>4 DEF Load!LoopTest, Load!filling, Load!totals, Load!Goto
    <3>1. LoadTyped'
      BY DEF LoadTyped
    <3>2. HandlesClean'
      BY DEF HandlesClean, Load!SentAsMeant
    <3>3. CASE stop_test
      <4>1. InRound' = InRound
        BY <2>1, <3>3 DEF InRound
      <4> QED BY <2>2, <3>1, <3>2, <3>3, <4>1, RoundsSame
    <3>4. CASE ~stop_test
      <4>1. InRound' = InRound \cup {w} /\ w \notin InRound
        BY <2>1, <3>4 DEF InRound
      <4>2. Cardinality(InRound') = Cardinality(InRound) + 1
        BY <2>1, <4>1, FS_AddElement
      <4>3. RoundsCounted'
        BY <2>3, <3>4, <4>2 DEF RoundsCounted
      <4> QED BY <2>2, <3>1, <3>2, <4>3
    <3> QED BY <3>3, <3>4
  <2>5. CASE Load!Choose(w)
    <3>1. PICK op \in Load!Operations :
            /\ handle' = [handle EXCEPT ![w] = Load!After(op, Load!Before(op, @))]
            /\ request' = [request EXCEPT ![w] = Load!Sent(op, Load!Before(op, handle[w]))]
      BY <2>5 DEF Load!Choose
    <3>2. op \in {"get", "post", "delete"}
      BY DEF Load!Operations
    <3> DEFINE before == Load!Before(op, handle[w])
               after == Load!After(op, before)
    <3>3. handle \in [LoadWorkers -> [method : {"GET", "POST"}, custom : {"none", "DELETE"}, fields : {"none", "own", "null"}]]
          /\ handle[w].custom = "none"
      BY DEF LoadTyped, HandlesClean
    <3>4. /\ before \in [method : {"GET", "POST"}, custom : {"none", "DELETE"}, fields : {"none", "own", "null"}]
          /\ op # "delete" => before.custom = "none"
          /\ op = "get" => before.method = "GET"
          /\ op = "post" => before.method = "POST" /\ before.fields = "own"
      BY <3>2, <3>3 DEF Load!Before, Load!HTTPGET, Load!POST, Load!POSTFIELDS, Load!CUSTOMREQUEST
    <3>5. /\ after \in [method : {"GET", "POST"}, custom : {"none", "DELETE"}, fields : {"none", "own", "null"}]
          /\ after.custom = "none"
      <4> HIDE DEF before
      <4> QED BY <3>2, <3>4 DEF Load!After, Load!POST, Load!POSTFIELDS, Load!CUSTOMREQUEST
    <3>6. /\ Load!Sent(op, before) \in SentRequests
          /\ Load!Sent(op, before).op = op
          /\ op = "get" => Load!Sent(op, before).verb = "GET" /\ Load!Sent(op, before).body = "none"
          /\ op = "post" => Load!Sent(op, before).verb = "POST" /\ Load!Sent(op, before).body = "own"
      <4> HIDE DEF before
      <4> QED BY <3>2, <3>4 DEF Load!Sent, SentRequests
    <3> HIDE DEF after
    <3>7. LoadTyped'
      <4>1. handle' \in [LoadWorkers -> [method : {"GET", "POST"}, custom : {"none", "DELETE"}, fields : {"none", "own", "null"}]]
        BY <3>1, <3>3, <3>5 DEF after
      <4> QED BY <2>5, <4>1 DEF Load!Choose, Load!filling, Load!totals, Load!Goto, LoadTyped
    <3>8. HandlesClean'
      <4>1. handle' = [handle EXCEPT ![w] = after] /\ request' = [request EXCEPT ![w] = Load!Sent(op, before)]
        BY <3>1, <3>3 DEF after
      <4> HIDE DEF before
      <4> QED BY <3>3, <3>5, <3>6, <4>1 DEF HandlesClean, Load!SentAsMeant
    <3>9. InRound' = InRound
      BY <2>1, <2>5 DEF InRound, Load!Choose, Load!Goto
    <3> QED BY <2>2, <2>5, <3>7, <3>8, <3>9, RoundsSame DEF Load!Choose, Load!totals
  <2>6. CASE Load!ChooseNothing(w) \/ Load!Perform(w)
    <3> USE <2>6 DEF Load!ChooseNothing, Load!Perform, Load!filling, Load!totals, Load!Goto
    <3>1. LoadTyped'
      BY ZenonT(40) DEF LoadTyped
    <3>2. HandlesClean'
      BY DEF HandlesClean, Load!SentAsMeant, Load!NoRequest, SentRequests
    <3>3. InRound' = InRound
      BY <2>1 DEF InRound
    <3> QED BY <2>2, <3>1, <3>2, <3>3, RoundsSame
  <2>7. CASE Load!Count(w)
    <3> USE <2>7 DEF Load!Count, Load!filling, Load!Goto
    <3>1. LoadTyped'
      BY DEF LoadTyped
    <3>2. HandlesClean'
      BY DEF HandlesClean, Load!SentAsMeant
    <3>3. InRound' = InRound \ {w} /\ w \in InRound
      BY <2>1 DEF InRound
    <3>4. Cardinality(InRound') = Cardinality(InRound) - 1
      BY <2>1, <3>3, FS_RemoveElement
    <3>5. RoundsCounted'
      BY <2>3, <3>4 DEF RoundsCounted
    <3> QED BY <2>2, <3>1, <3>2, <3>5
  <2> QED BY <1>4, <2>4, <2>5, <2>6, <2>7 DEF Load!Worker
<1>5. CASE UNCHANGED Load!vars
  BY <1>5 DEF Load!vars, Load!filling, Load!totals, Load!loops, LoadTyped, KeysInOrder, RoundsCounted, InRound, HandlesClean,
              Load!SentAsMeant
<1> QED BY <1>1, <1>2, <1>3, <1>4, <1>5 DEF Load!Next

(* loadgen.cpp: the state of main and of the workers keeps its types, and  *)
(* no more is counted than was begun (TypesOK, part "load").               *)
THEOREM LoadTypes == ASSUME LoadHypothesis PROVE Load!Spec => []Load!TypeOK
<1>1. LoadInv => Load!TypeOK
  <2> SUFFICES ASSUME LoadInv PROVE Load!TypeOK
    OBVIOUS
  <2>1. IsFiniteSet(InRound)
    BY FS_Subset DEF InRound, LoadHypothesis
  <2>2. Cardinality(InRound) \in Nat
    BY <2>1, FS_CardinalityType
  <2> QED BY <2>2 DEF LoadInv, LoadTyped, RoundsCounted, Load!TypeOK
<1> QED BY <1>1, LoadInit, LoadStep, PTL DEF Load!Spec

(* loadgen.cpp: what main prints after it has joined the threads is every  *)
(* request of every thread, once (AllCounted, within ClientsTold).         *)
THEOREM LoadCounted == ASSUME LoadHypothesis PROVE Load!Spec => []Load!AllCounted
<1>1. LoadInv => Load!AllCounted
  <2> SUFFICES ASSUME LoadInv, main = "printed" PROVE total_requests + total_failed = rounds
    BY DEF Load!AllCounted
  <2>1. InRound = {}
    BY DEF LoadInv, LoadTyped, InRound
  <2>2. Cardinality(InRound) = 0
    BY <2>1, FS_EmptySet
  <2> QED BY <2>2 DEF LoadInv, LoadTyped, RoundsCounted
<1> QED BY <1>1, LoadInit, LoadStep, PTL DEF Load!Spec

(* prepopulate: popular_keys holds keys that the server has accepted, each *)
(* once (PopularStored, within ClientsTold).                               *)
THEOREM LoadPopular == ASSUME LoadHypothesis PROVE Load!Spec => []Load!PopularStored
<1>1. LoadInv => Load!PopularStored
  <2> SUFFICES ASSUME LoadInv PROVE Load!PopularStored
    OBVIOUS
  <2>1. popular_keys \in Seq(Nat)
    BY DEF LoadInv, LoadTyped
  <2>2. \A i, j \in DOMAIN popular_keys : i # j => i < j \/ j < i
    BY <2>1
  <2>3. \A i \in DOMAIN popular_keys : popular_keys[i] \in Nat
    BY <2>1
  <2> QED BY <2>2, <2>3 DEF LoadInv, KeysInOrder, Load!PopularStored
<1> QED BY <1>1, LoadInit, LoadStep, PTL DEF Load!Spec

(* do_get, do_post, do_delete: whatever the handle was used for before, a  *)
(* GET goes out as one and a POST with its own body (SentAsMeant, within   *)
(* ClientsTold).                                                           *)
THEOREM LoadSent == ASSUME LoadHypothesis PROVE Load!Spec => []Load!SentAsMeant
<1>1. LoadInv => Load!SentAsMeant
  BY DEF LoadInv, HandlesClean
<1> QED BY <1>1, LoadInit, LoadStep, PTL DEF Load!Spec

=============================================================================
