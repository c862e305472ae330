---------------------------- MODULE SocketQueue ----------------------------
(***************************************************************************)
(* The threads of the HTTP front end (src/Server/civetweb/civetweb.c): the *)
(* master thread accepts connections and puts them into the ring buffer    *)
(* squeue; worker threads, started when needed up to a maximum, take them  *)
(* out and serve them; mg_stop() sets stop_flag and waits for the master,  *)
(* which joins the workers.                                                *)
(*                                                                         *)
(* Everything under thread_mutex is one action: no step outside it reads   *)
(* or writes the ring buffer or the number of idle workers.  stop_flag is  *)
(* read and written without it.  A thread that waits on a condition        *)
(* variable is "asleep" until it is notified or wakes by itself.           *)
(*                                                                         *)
(* An operator marked "Faulty" is not part of the specification: it is the *)
(* next operation as a plausible bug would have it, and breaks a property. *)
(***************************************************************************)
EXTENDS Naturals, Sequences, FiniteSets

CONSTANTS
    Sockets,      \* the connections clients open
    NoSocket,
    SqSize,       \* sq_size: the slots of the ring buffer
    MaxWorkers,   \* cfg_max_worker_threads
    MayFail       \* a worker may fail to start or to set itself up

ASSUME NoSocketAssumption == NoSocket \notin Sockets
ASSUME SizeAssumption == SqSize \in Nat \ {0} /\ MaxWorkers \in Nat \ {0}
ASSUME MayFailAssumption == MayFail \in BOOLEAN

VARIABLES
    stop_flag,    \* 0: running, 1: stop, 2: the master has finished
    squeue,       \* squeue[i], 0 <= i < SqSize
    sq_head,      \* where the next socket is put, modulo SqSize
    sq_tail,      \* where the next one is taken, modulo SqSize
    idle,         \* idle_worker_thread_count
    spawned,      \* spawned_worker_threads
    master,       \* where the master thread is
    so,           \* the socket the master has just accepted
    worker,       \* worker[w]: where worker w is
    client,       \* client[w]: conn->client, the socket w has taken
    stopper,      \* the thread that calls mg_stop
    sock          \* sock[s]: "new", "open" (accepted), "closed"

queueVars == <<squeue, sq_head, sq_tail>>
vars == <<stop_flag, queueVars, idle, spawned, master, so, worker, client,
          stopper, sock>>

Workers == 1 .. MaxWorkers
Slots == 0 .. SqSize - 1

MasterPlaces == {"poll", "accepting", "produce", "asleep", "spawn", "starting",
                 "closing", "broadcast", "joining", "done"}
WorkerPlaces == {"none", "starting", "entering", "asleep", "awake", "taken",
                 "serving", "exited", "failed"}

TypeOK ==
    /\ stop_flag \in 0 .. 2
    /\ squeue \in [Slots -> Sockets \cup {NoSocket}]
    /\ sq_tail \in 0 .. SqSize
    /\ sq_head \in sq_tail .. sq_tail + SqSize
    /\ idle \in 0 .. MaxWorkers
    /\ spawned \in 0 .. MaxWorkers
    /\ master \in MasterPlaces
    /\ so \in Sockets \cup {NoSocket}
    /\ worker \in [Workers -> WorkerPlaces]
    /\ client \in [Workers -> Sockets \cup {NoSocket}]
    /\ stopper \in {"running", "notify", "waiting", "stopped"}
    /\ sock \in [Sockets -> {"new", "open", "closed"}]

Init ==
    /\ stop_flag = 0
    /\ squeue = [i \in Slots |-> NoSocket]
    /\ sq_head = 0 /\ sq_tail = 0
    /\ idle = 0 /\ spawned = 0
    /\ master = "poll" /\ so = NoSocket
    /\ worker = [w \in Workers |-> "none"]
    /\ client = [w \in Workers |-> NoSocket]
    /\ stopper = "running"
    /\ sock = [s \in Sockets |-> "new"]

-----------------------------------------------------------------------------
(* The ring buffer. *)
filled == sq_head - sq_tail

Push(s) ==
    /\ squeue' = [squeue EXCEPT ![sq_head % SqSize] = s]
    /\ sq_head' = sq_head + 1
    /\ UNCHANGED sq_tail

(* Faulty: the newest connection is taken. *)
PopNewest(w) ==
    /\ client' = [client EXCEPT ![w] = squeue[(sq_head - 1) % SqSize]]
    /\ sq_head' = sq_head - 1
    /\ UNCHANGED <<squeue, sq_tail>>

(* Both indices are taken back when the tail has passed the end; a single  *)
(* subtraction suffices, as the tail was not past the end before.          *)
Pop(w) ==
    LET back == IF sq_tail + 1 > SqSize THEN SqSize ELSE 0 IN
    /\ client' = [client EXCEPT ![w] = squeue[sq_tail % SqSize]]
    /\ sq_tail' = sq_tail + 1 - back
    /\ sq_head' = sq_head - back
    /\ UNCHANGED squeue

(* pthread_cond_signal(&sq_full) wakes one sleeping worker, if there is one. *)
SignalFull ==
    LET sleepers == {w \in Workers : worker[w] = "asleep"} IN
    IF sleepers = {}
      THEN UNCHANGED worker
      ELSE \E w \in sleepers : worker' = [worker EXCEPT ![w] = "awake"]

-----------------------------------------------------------------------------
(* The master thread. *)

(* The accept loop's condition, and mg_poll, which returns sooner or later. *)
Poll ==
    /\ master = "poll"
    /\ master' = IF stop_flag = 0 THEN "accepting" ELSE "closing"
    /\ UNCHANGED <<stop_flag, queueVars, idle, spawned, so, worker, client,
                   stopper, sock>>

(* Nothing to accept, or accept() fails. *)
AcceptNothing ==
    /\ master = "accepting"
    /\ master' = "poll"
    /\ UNCHANGED <<stop_flag, queueVars, idle, spawned, so, worker, client,
                   stopper, sock>>

(* accept_new_connection; a client the access list refuses is closed.      *)
Accept(s) ==
    /\ master = "accepting"
    /\ sock[s] = "new"
    /\ \/ /\ sock' = [sock EXCEPT ![s] = "open"]
          /\ master' = "produce"
          /\ so' = s
       \/ /\ sock' = [sock EXCEPT ![s] = "closed"]
          /\ master' = "poll"
          /\ UNCHANGED so
    /\ UNCHANGED <<stop_flag, queueVars, idle, spawned, worker, client, stopper>>

(* produce_socket finds the buffer full and waits for sq_empty. *)
ProduceWait ==
    /\ master = "produce"
    /\ stop_flag = 0
    /\ filled >= SqSize
    /\ master' = "asleep"
    /\ UNCHANGED <<stop_flag, queueVars, idle, spawned, so, worker, client,
                   stopper, sock>>

(* produce_socket finds a free slot. *)
ProducePush ==
    /\ master = "produce"
    /\ filled < SqSize
    /\ Push(so)
    /\ SignalFull
    /\ so' = NoSocket
    /\ master' = "spawn"
    /\ UNCHANGED <<stop_flag, idle, spawned, client, stopper, sock>>

(* The server is stopped while the buffer is full: the socket is left.     *)
ProduceGiveUp ==
    /\ master = "produce"
    /\ stop_flag # 0
    /\ filled >= SqSize
    /\ SignalFull
    /\ so' = NoSocket
    /\ master' = "spawn"
    /\ UNCHANGED <<stop_flag, queueVars, idle, spawned, client, stopper, sock>>

(* Faulty: the new worker counts itself. *)
SpawnUncounted ==
    /\ master = "spawn"
    /\ IF spawned >= MaxWorkers \/ idle > filled
         THEN master' = "poll"
         ELSE master' = "starting"
    /\ UNCHANGED <<stop_flag, queueVars, idle, spawned, so, worker, client,
                   stopper, sock>>

(* mg_start_worker_thread(ctx, 1): a worker more when there is room for it *)
(* and no worker is idle; it is counted as idle before it runs.            *)
Spawn ==
    /\ master = "spawn"
    /\ IF spawned >= MaxWorkers \/ idle > filled
         THEN master' = "poll" /\ UNCHANGED idle
         ELSE master' = "starting" /\ idle' = idle + 1
    /\ UNCHANGED <<stop_flag, queueVars, spawned, so, worker, client, stopper,
                   sock>>

SpawnThread ==
    /\ master = "starting"
    /\ spawned' = spawned + 1
    /\ worker' = [worker EXCEPT ![spawned + 1] = "starting"]
    /\ master' = "poll"
    /\ UNCHANGED <<stop_flag, queueVars, idle, so, client, stopper, sock>>

(* Thread creation fails: the count is taken back. *)
SpawnFail ==
    /\ MayFail
    /\ master = "starting"
    /\ idle' = idle - 1
    /\ master' = "poll"
    /\ UNCHANGED <<stop_flag, queueVars, spawned, so, worker, client, stopper,
                   sock>>

(* close_all_listening_sockets, after which no connection arrives. *)
CloseListeners ==
    /\ master = "closing"
    /\ master' = "broadcast"
    /\ UNCHANGED <<stop_flag, queueVars, idle, spawned, so, worker, client,
                   stopper, sock>>

(* pthread_cond_broadcast(&sq_full) under the mutex. *)
Broadcast ==
    /\ master = "broadcast"
    /\ worker' = [w \in Workers |-> IF worker[w] = "asleep" THEN "awake"
                                                            ELSE worker[w]]
    /\ master' = "joining"
    /\ UNCHANGED <<stop_flag, queueVars, idle, spawned, so, client, stopper, sock>>

finished == {w \in Workers : worker[w] \in {"exited", "failed"}}

(* Every worker has been joined: the last thing the master does is to say so. *)
Join ==
    /\ master = "joining"
    /\ 1 .. spawned \subseteq finished
    /\ master' = "done"
    /\ stop_flag' = 2
    /\ UNCHANGED <<queueVars, idle, spawned, so, worker, client, stopper, sock>>

Master ==
    \/ Poll \/ AcceptNothing
    \/ \E s \in Sockets : Accept(s)
    \/ ProduceWait \/ ProducePush \/ ProduceGiveUp
    \/ Spawn \/ SpawnThread \/ SpawnFail
    \/ CloseListeners \/ Broadcast \/ Join

-----------------------------------------------------------------------------
(* The worker threads. *)

(* worker_thread_run allocates its buffer and its mutex. *)
Start(w) ==
    /\ worker[w] = "starting"
    /\ worker' = [worker EXCEPT ![w] = "awake"]
    /\ UNCHANGED <<stop_flag, queueVars, idle, spawned, master, so, client,
                   stopper, sock>>

(* One of them fails: the thread ends without having been in consume_socket, *)
(* and stays counted as idle.                                              *)
StartFail(w) ==
    /\ MayFail
    /\ worker[w] = "starting"
    /\ worker' = [worker EXCEPT ![w] = "failed"]
    /\ UNCHANGED <<stop_flag, queueVars, idle, spawned, master, so, client,
                   stopper, sock>>

(* consume_socket counts the worker as idle, except at its first call. *)
inConsume(w) == worker[w] \in {"entering", "awake"}
counted(w) == IF worker[w] = "entering" THEN idle + 1 ELSE idle

(* Nothing to do: wait for sq_full. *)
ConsumeWait(w) ==
    /\ inConsume(w)
    /\ sq_head = sq_tail
    /\ stop_flag = 0
    /\ idle' = counted(w)
    /\ worker' = [worker EXCEPT ![w] = "asleep"]
    /\ UNCHANGED <<stop_flag, queueVars, spawned, master, so, client, stopper,
                   sock>>

SignalEmpty == master' = IF master = "asleep" THEN "produce" ELSE master

(* Faulty: the master is not told of the room. *)
ConsumeSilent(w) ==
    /\ inConsume(w)
    /\ sq_head > sq_tail
    /\ Pop(w)
    /\ idle' = counted(w) - 1
    /\ worker' = [worker EXCEPT ![w] = "taken"]
    /\ UNCHANGED <<stop_flag, spawned, master, so, stopper, sock>>

(* Take the oldest socket, and make room for the master's next. *)
Consume(w) ==
    /\ inConsume(w)
    /\ sq_head > sq_tail
    /\ Pop(w)
    /\ SignalEmpty
    /\ idle' = counted(w) - 1
    /\ worker' = [worker EXCEPT ![w] = "taken"]
    /\ UNCHANGED <<stop_flag, spawned, so, stopper, sock>>

(* The server is stopped and there is nothing to take. *)
ConsumeNothing(w) ==
    /\ inConsume(w)
    /\ sq_head = sq_tail
    /\ stop_flag # 0
    /\ SignalEmpty
    /\ idle' = counted(w) - 1
    /\ worker' = [worker EXCEPT ![w] = "taken"]
    /\ UNCHANGED <<stop_flag, queueVars, spawned, so, client, stopper, sock>>

(* consume_socket returns whether the server still runs: the worker serves *)
(* the connection, or leaves with it.                                      *)
ConsumeReturn(w) ==
    /\ worker[w] = "taken"
    /\ IF stop_flag = 0
         THEN /\ worker' = [worker EXCEPT ![w] = "serving"]
              /\ UNCHANGED client
         ELSE /\ worker' = [worker EXCEPT ![w] = "exited"]
              /\ client' = [client EXCEPT ![w] = NoSocket]
    /\ UNCHANGED <<stop_flag, queueVars, idle, spawned, master, so, stopper, sock>>

(* process_new_connection returns; it has closed the connection. *)
Served(w) ==
    /\ worker[w] = "serving"
    /\ sock' = [sock EXCEPT ![client[w]] = "closed"]
    /\ client' = [client EXCEPT ![w] = NoSocket]
    /\ worker' = [worker EXCEPT ![w] = "entering"]
    /\ UNCHANGED <<stop_flag, queueVars, idle, spawned, master, so, stopper>>

WorkerStep(w) ==
    \/ Start(w) \/ StartFail(w)
    \/ ConsumeWait(w) \/ Consume(w) \/ ConsumeNothing(w) \/ ConsumeReturn(w)
    \/ Served(w)

-----------------------------------------------------------------------------
(* mg_stop: the flag, the socket mg_poll watches, the wait for the master. *)
Stop ==
    /\ stopper = "running"
    /\ stop_flag' = 1
    /\ stopper' = "waiting"
    /\ UNCHANGED <<queueVars, idle, spawned, master, so, worker, client, sock>>

StopReturn ==
    /\ stopper = "waiting"
    /\ stop_flag = 2
    /\ stopper' = "stopped"
    /\ UNCHANGED <<stop_flag, queueVars, idle, spawned, master, so, worker,
                   client, sock>>

(* pthread_cond_wait may return without a signal. *)
SpuriousWakeup ==
    /\ \/ /\ master = "asleep"
          /\ master' = "produce"
          /\ UNCHANGED worker
       \/ /\ \E w \in Workers : /\ worker[w] = "asleep"
                                /\ worker' = [worker EXCEPT ![w] = "awake"]
          /\ UNCHANGED master
    /\ UNCHANGED <<stop_flag, queueVars, idle, spawned, so, client, stopper, sock>>

Next ==
    \/ Master
    \/ \E w \in Workers : WorkerStep(w)
    \/ Stop \/ StopReturn
    \/ SpuriousWakeup

Fairness ==
    /\ WF_vars(Master)
    /\ \A w \in Workers : WF_vars(WorkerStep(w))
    /\ WF_vars(StopReturn)

Spec == Init /\ [][Next]_vars /\ Fairness

-----------------------------------------------------------------------------
(* What is in the ring buffer, the oldest first. *)
queue == [i \in 1 .. filled |-> squeue[(sq_tail + i - 1) % SqSize]]

places(s) ==
    Cardinality({i \in 1 .. filled : queue[i] = s})
      + Cardinality({w \in Workers : client[w] = s})
      + (IF so = s THEN 1 ELSE 0)

(* A connection is in one thread's hands or in one slot, never in two, and *)
(* never once it is closed; while the server runs none is mislaid.         *)
OneOwner ==
    \A s \in Sockets :
       /\ places(s) <= 1
       /\ sock[s] # "open" => places(s) = 0
       /\ sock[s] = "open" /\ stop_flag = 0 => places(s) = 1

(* idle_worker_thread_count counts the workers on their way into           *)
(* consume_socket or waiting in it, beside those that failed.              *)
IdleCounted ==
    idle = Cardinality({w \in Workers :
                          worker[w] \in {"starting", "asleep", "awake", "failed"}})
             + (IF master = "starting" THEN 1 ELSE 0)

(* When mg_stop returns no thread is left that could use the context,      *)
(* which mg_stop frees.                                                    *)
StopQuiesces ==
    stopper = "stopped" =>
       /\ master = "done"
       /\ \A w \in Workers : worker[w] \in {"none", "exited", "failed"}

(* A connection has one owner, the idle workers are counted, and mg_stop   *)
(* returns when no thread is left (produce_socket, consume_socket,         *)
(* master_thread).                                                         *)
ConnectionsOwned == OneOwner /\ IdleCounted /\ StopQuiesces

(* The ring buffer with its wrapping indices is a bounded queue.           *)
Abstract == INSTANCE BoundedQueue WITH
    Items <- Sockets, NoItem <- NoSocket, Takers <- Workers, Size <- SqSize,
    taken <- client

QueueRefinement == Abstract!Specification

=============================================================================
