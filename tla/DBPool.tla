------------------------------- MODULE DBPool -------------------------------
(***************************************************************************)
(* MySQLPool (src/Server/src/dbpool.cpp): a stack of idle connections      *)
(* conns_ under the mutex mu_, and a condition variable cv_ on which       *)
(* acquire() waits.  Every critical section under mu_ is one action; a     *)
(* thread that waits on cv_ leaves the mutex and enters the wait set in    *)
(* one step, and once woken has to take the mutex again and re-evaluate    *)
(* the predicate, while other threads may get in first.                    *)
(*                                                                         *)
(* Nothing is said of a pool after its destructor: what the threads that   *)
(* still use it then run into belongs to the process's shutdown.           *)
(*                                                                         *)
(* An operator marked "Faulty" is not part of the specification: it is the *)
(* next operation as a plausible bug would have it, and breaks a property. *)
(***************************************************************************)
EXTENDS Naturals, Sequences, FiniteSets, Functions

CONSTANTS
    Threads,    \* the threads that call acquire() and release()
    Conns,      \* the connections: pool_size_ = Cardinality(Conns)
    NoConn      \* "no connection"

ASSUME ThreadsAssumption == IsFiniteSet(Threads)
ASSUME ConnsAssumption == IsFiniteSet(Conns) /\ Conns # {}
ASSUME NoConnAssumption == NoConn \notin Conns

VARIABLES
    phase,      \* the object's life: "creating", "failed", "open", "closed"
    conns,      \* conns_: the free connections, the last one on top
    pc,         \* where each thread is
    held,       \* held[t]: the connection t got from acquire(), or NoConn
    live        \* the sessions the MySQL server has open for this pool

vars == <<phase, conns, pc, held, live>>

(* idle: outside the pool; asleep: in cv_'s wait set; woken: notified (or  *)
(* woken spuriously), about to take mu_ again; holding: acquire() returned. *)
Places == {"idle", "asleep", "woken", "holding"}

asleep == {t \in Threads : pc[t] = "asleep"}
woken == {t \in Threads : pc[t] = "woken"}
inUse == {held[t] : t \in Threads} \ {NoConn}

TypeOK ==
    /\ phase \in {"creating", "failed", "open", "closed"}
    /\ conns \in Seq(Conns)
    /\ pc \in [Threads -> Places]
    /\ held \in [Threads -> Conns \cup {NoConn}]
    /\ live \subseteq Conns

-----------------------------------------------------------------------------
Init ==
    /\ phase = "creating"
    /\ conns = <<>>
    /\ pc = [t \in Threads |-> "idle"]
    /\ held = [t \in Threads |-> NoConn]
    /\ live = {}

(* One round of create_pool()'s loop: a session the pool has not yet.  The *)
(* last round ends the constructor, and only then do others see the pool.  *)
CreateConn(c) ==
    /\ phase = "creating"
    /\ c \notin live
    /\ live' = live \cup {c}
    /\ conns' = Append(conns, c)
    /\ phase' = IF Len(conns) + 1 = Cardinality(Conns) THEN "open" ELSE phase
    /\ UNCHANGED <<pc, held>>

(* Faulty: create_pool() returns true where it should return false. *)
CreateFailIgnored ==
    /\ phase = "creating"
    /\ phase' = "open"
    /\ UNCHANGED <<conns, pc, held, live>>

(* mysql_init, mysql_options or mysql_real_connect fails: the constructor  *)
(* throws, so that conns_ is destroyed but the destructor does not run.    *)
CreateFail ==
    /\ phase = "creating"
    /\ phase' = "failed"
    /\ conns' = <<>>
    /\ UNCHANGED <<pc, held, live>>

(* acquire() takes the mutex, for the first time or after a wakeup.        *)
Enter(t) ==
    /\ phase = "open"
    /\ pc[t] \in {"idle", "woken"}
    /\ UNCHANGED <<phase, live>>

TakeTop(t) ==
    /\ conns # <<>>
    /\ held' = [held EXCEPT ![t] = conns[Len(conns)]]
    /\ pc' = [pc EXCEPT ![t] = "holding"]

(* Faulty: acquire() without pop_back. *)
AcquireNoPop(t) == Enter(t) /\ TakeTop(t) /\ UNCHANGED conns

(* acquire() finds a connection: the one released last.                    *)
Acquire(t) ==
    /\ Enter(t)
    /\ TakeTop(t)
    /\ conns' = SubSeq(conns, 1, Len(conns) - 1)

(* acquire() finds no connection: cv_.wait leaves the mutex and sleeps.    *)
Block(t) ==
    /\ Enter(t)
    /\ conns = <<>>
    /\ pc' = [pc EXCEPT ![t] = "asleep"]
    /\ UNCHANGED <<conns, held>>

(* A condition variable may wake a waiter nobody has notified.             *)
SpuriousWake(t) ==
    /\ phase = "open"
    /\ pc[t] = "asleep"
    /\ pc' = [pc EXCEPT ![t] = "woken"]
    /\ UNCHANGED <<phase, conns, held, live>>

(* release() without its notify_one: t gives its connection up, conns_     *)
(* becomes stack.                                                          *)
GiveBack(t, stack) ==
    /\ phase = "open"
    /\ pc[t] = "holding"
    /\ held' = [held EXCEPT ![t] = NoConn]
    /\ conns' = stack
    /\ UNCHANGED <<phase, live>>

NotifyNone(t) == pc' = [pc EXCEPT ![t] = "idle"]

(* One waiter is woken, if there is one. *)
NotifyOne(t) ==
    \/ asleep = {} /\ NotifyNone(t)
    \/ \E w \in asleep : pc' = [pc EXCEPT ![t] = "idle", ![w] = "woken"]

(* Faulty: the connection is forgotten before it is pushed. *)
ReleaseNothing(t) == GiveBack(t, Append(conns, NoConn)) /\ NotifyOne(t)

(* Faulty: release() returns before push_back. *)
ReleaseNoPush(t) == GiveBack(t, conns) /\ NotifyOne(t)

(* Faulty: release() notifies only when the stack was empty, as if one     *)
(* free connection were always enough to keep a woken thread busy.         *)
ReleaseNotifyIfEmpty(t) ==
    /\ GiveBack(t, Append(conns, held[t]))
    /\ IF conns = <<>> THEN NotifyOne(t) ELSE NotifyNone(t)

(* release(): push the connection and notify one, all under the mutex.     *)
Release(t) == GiveBack(t, Append(conns, held[t])) /\ NotifyOne(t)

(* Faulty: close_pool() clears conns_ without mysql_close. *)
ClosePoolNoClose ==
    /\ phase = "open"
    /\ phase' = "closed"
    /\ conns' = <<>>
    /\ UNCHANGED <<pc, held, live>>

(* close_pool(), from the destructor: it closes the connections it finds   *)
(* in conns_, and only those.                                              *)
ClosePool ==
    /\ phase = "open"
    /\ phase' = "closed"
    /\ live' = live \ Range(conns)
    /\ conns' = <<>>
    /\ UNCHANGED <<pc, held>>

Next ==
    \/ \E c \in Conns : CreateConn(c)
    \/ CreateFail
    \/ \E t \in Threads :
          Acquire(t) \/ Block(t) \/ SpuriousWake(t) \/ Release(t)
    \/ ClosePool

(* A woken thread gets the mutex in the end, and a holder gives its        *)
(* connection back: every path of the handlers and of the writer releases  *)
(* what it acquired (server.cpp:68,88, async.cpp:92).  Nothing obliges a   *)
(* thread to call acquire(), nor anyone to close the pool.                 *)
Fairness ==
    \A t \in Threads :
       /\ WF_vars(pc[t] = "woken" /\ (Acquire(t) \/ Block(t)))
       /\ WF_vars(Release(t))

Spec == Init /\ [][Next]_vars /\ Fairness

-----------------------------------------------------------------------------
(* Two threads never share a connection, and a connection is not at the    *)
(* same time free and in use, nor twice on the stack ("thread-safe MySQL   *)
(* connection pool", dbpool.h:11).                                         *)
Exclusive ==
    /\ IsInjective(conns)
    /\ \A t, u \in Threads : held[t] = held[u] /\ held[t] # NoConn => t = u
    /\ Range(conns) \cap inUse = {}

(* No connection is lost on any path through the pool: while it is open,   *)
(* every one is free or held ("pool is fixed size", dbpool.h:14), and every *)
(* open session can be reached, from the pool or from the thread that uses *)
(* it; only a constructor that throws leaves sessions behind.              *)
Conservation ==
    /\ phase = "open" => Range(conns) \cup inUse = Conns
    /\ phase # "failed" => live = Range(conns) \cup inUse

(* A wakeup is never lost: whenever a connection is free and a thread      *)
(* sleeps, there are at least as many woken threads as free connections,   *)
(* although others may take the connection the wakeup was for.             *)
NoLostWakeup == asleep # {} => Len(conns) <= Cardinality(woken)

(* A connection does not stay free while threads sleep for it.             *)
FreeConnTaken ==
    (conns # <<>> /\ asleep # {}) ~> (conns = <<>> \/ asleep = {})

(* The pool implements what its header promises.                           *)
Pool == INSTANCE PoolSpec WITH
    state <- [creating |-> "new", open |-> "up",
              failed |-> "down", closed |-> "down"][phase],
    free <- IF phase = "open" THEN Range(conns) ELSE {},
    owner <- held

PoolRefinement == Pool!PoolSpecification

=============================================================================
