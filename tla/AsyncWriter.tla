---------------------------- MODULE AsyncWriter -----------------------------
(***************************************************************************)
(* AsyncWriter (src/Server/src/async.cpp): handler threads push tasks on   *)
(* queue_ under mu_ and notify cv_ after they have left mu_; one worker    *)
(* thread pops them, takes a connection from the pool, and executes one    *)
(* SQL statement each; main starts and stops the worker.                   *)
(*                                                                         *)
(* running_ is an atomic that stop() clears WITHOUT mu_.  The worker reads *)
(* it under mu_, in the predicate of cv_.wait, and only then goes to       *)
(* sleep; between the two (place "checked") it holds mu_, which keeps the  *)
(* producers out but not stop().                                           *)
(*                                                                         *)
(* An operator marked "Faulty" is not part of the specification: it is the *)
(* next operation as a plausible bug would have it, and breaks a property. *)
(***************************************************************************)
EXTENDS WriteTasks, Naturals, Sequences, FiniteSets

CONSTANTS
    Producers,  \* the handler threads that call async_insert/async_delete
    NoTask,     \* "the worker has no task in hand"
    MaxTasks    \* bound of the model: the number of calls

ASSUME NoTaskAssumption == NoTask \notin AsyncTask
ASSUME MaxTasksAssumption == MaxTasks \in Nat

VARIABLES
    queue_,     \* the tasks pushed and not yet popped
    running_,   \* the flag
    producer,   \* "idle", or "pushed": out of mu_, notify_one still to come
    worker,     \* where the worker thread is
    task,       \* the task the worker has popped, or NoTask
    main,       \* how far main has come with start(), stop() and delete
    table,      \* the database table kvstore
    accepted,   \* history: every task pushed, in order
    executed    \* history: the number of statements executed

vars == <<queue_, running_, producer, worker, task, main, table, accepted,
          executed>>

(* loop: at while (running_); lock, woken: about to take mu_ (again) and   *)
(* evaluate the predicate; checked: predicate false, mu_ held, not yet     *)
(* asleep; acquire: in the pool's acquire(); query, release: with a        *)
(* connection in hand.                                                     *)
WorkerPlaces == {"none", "loop", "lock", "checked", "asleep", "woken",
                 "acquire", "query", "release", "exited"}

(* storing: running_ cleared, notify_all still to come; joining: in        *)
(* worker_.join(); gone: the object is deleted.                            *)
MainPlaces == {"new", "up", "storing", "joining", "stopped", "gone"}

HasTask == {"acquire", "query"}
HasConnection == {"query", "release"}

TypeOK ==
    /\ queue_ \in Seq(AsyncTask)
    /\ running_ \in BOOLEAN
    /\ producer \in [Producers -> {"idle", "pushed"}]
    /\ worker \in WorkerPlaces
    /\ task \in AsyncTask \cup {NoTask}
    /\ main \in MainPlaces
    /\ table \in Tables
    /\ accepted \in Seq(AsyncTask)
    /\ executed \in Nat

-----------------------------------------------------------------------------
Init ==
    /\ queue_ = <<>>
    /\ running_ = FALSE
    /\ producer = [p \in Producers |-> "idle"]
    /\ worker = "none"
    /\ task = NoTask
    /\ main = "new"
    /\ table = [k \in Keys |-> NoValue]
    /\ accepted = <<>>
    /\ executed = 0

(* What the worker leaves alone in every step, and in most. *)
othersVars == <<running_, producer, main, accepted>>
workVars == <<queue_, task, table, executed>>

WorkerMoves(from, to) == worker \in from /\ worker' = to

(* A notification: it reaches the worker only if the worker is asleep. *)
WakeWorker == worker' = IF worker = "asleep" THEN "woken" ELSE worker

-----------------------------------------------------------------------------
(* start(): the flag is set before the thread exists. *)
Start ==
    /\ main = "new"
    /\ main' = "up"
    /\ running_' = TRUE
    /\ WorkerMoves({"none"}, "loop")
    /\ UNCHANGED <<producer, accepted, workVars>>

(* A handler pushes one of tasks on the queue.  Handlers run as long as    *)
(* the object exists, also after stop().                                   *)
Enqueue(p, tasks) ==
    /\ main \in {"up", "storing", "joining", "stopped"}
    /\ producer[p] = "idle"
    /\ Len(accepted) < MaxTasks
    /\ \E t \in tasks : queue_' = Append(queue_, t) /\ accepted' = Append(accepted, t)
    /\ producer' = [producer EXCEPT ![p] = "pushed"]
    /\ UNCHANGED <<running_, worker, task, main, table, executed>>

(* Faulty: without the lock_guard. *)
PushNoLock(p) == Enqueue(p, AsyncTask)

(* Faulty: async_delete passes some value on instead of "". *)
PushDeleteWithValue(p) ==
    /\ worker # "checked"
    /\ Enqueue(p, [type : {"INSERT_OP", "DELETE_OP"}, key : Keys, value : Values])

(* async_insert, async_delete: push under mu_, which the worker may hold.  *)
Push(p) == worker # "checked" /\ Enqueue(p, AsyncTask)

(* ... and notify_one, when mu_ has been left. *)
Notify(p) ==
    /\ main # "gone"
    /\ producer[p] = "pushed"
    /\ producer' = [producer EXCEPT ![p] = "idle"]
    /\ WakeWorker
    /\ UNCHANGED <<running_, main, accepted, workVars>>

-----------------------------------------------------------------------------
(* while (running_). *)
LoopTest ==
    /\ WorkerMoves({"loop"}, IF running_ THEN "lock" ELSE "exited")
    /\ UNCHANGED <<othersVars, workVars>>

(* The worker has mu_ and the predicate is false: nothing to do. *)
FindEmpty ==
    /\ running_ /\ queue_ = <<>>
    /\ WorkerMoves({"lock", "woken"}, "checked")
    /\ UNCHANGED <<othersVars, workVars>>

(* cv_.wait leaves mu_ and enters the wait set, in one step. *)
Sleep ==
    /\ WorkerMoves({"checked"}, "asleep")
    /\ UNCHANGED <<othersVars, workVars>>

SpuriousWake ==
    /\ WorkerMoves({"asleep"}, "woken")
    /\ UNCHANGED <<othersVars, workVars>>

(* if (!running_) break, before the queue is looked at. *)
Break ==
    /\ ~running_
    /\ WorkerMoves({"lock", "woken"}, "exited")
    /\ UNCHANGED <<othersVars, workVars>>

(* The worker takes t and leaves rest on the queue. *)
TakeTask(t, rest) ==
    /\ running_ /\ queue_ # <<>>
    /\ WorkerMoves({"lock", "woken"}, "acquire")
    /\ task' = t
    /\ queue_' = rest
    /\ UNCHANGED <<othersVars, table, executed>>

(* Faulty: the wrong end of the queue. *)
PopLast == TakeTask(queue_[Len(queue_)], SubSeq(queue_, 1, Len(queue_) - 1))

(* Faulty: front() without pop(). *)
PopForgotten == TakeTask(Head(queue_), queue_)

(* front() and pop(), under mu_. *)
Pop == TakeTask(Head(queue_), Tail(queue_))

(* The pool's acquire() returns. *)
GetConnection ==
    /\ WorkerMoves({"acquire"}, "query")
    /\ UNCHANGED <<othersVars, workVars>>

(* mysql_query: the statement takes effect, or fails without effect. *)
Statement ==
    /\ worker = "query"
    /\ table' \in {table, Effect(task, table)}
    /\ executed' = executed + 1
    /\ task' = NoTask
    /\ UNCHANGED <<othersVars, queue_>>

(* Faulty: a statement without effect ends the worker. *)
ExecuteThenExit ==
    Statement /\ worker' = IF table' = table THEN "exited" ELSE "release"

(* An error is only logged. *)
Execute == Statement /\ worker' = "release"

(* dbpool_->release, and round the loop. *)
ReleaseConnection ==
    /\ WorkerMoves({"release"}, "loop")
    /\ UNCHANGED <<othersVars, workVars>>

-----------------------------------------------------------------------------
MainMoves(from, to) ==
    /\ main = from /\ main' = to
    /\ UNCHANGED <<producer, accepted, task, table, executed>>

(* stop() clears the flag, without mu_ ... *)
StopStore ==
    /\ MainMoves("up", "storing")
    /\ running_' = FALSE
    /\ UNCHANGED <<worker, queue_>>

(* Faulty: stop() without notify_all. *)
StopNoNotify == MainMoves("storing", "joining") /\ UNCHANGED <<running_, worker, queue_>>

(* ... notifies everyone who is asleep at that moment ... *)
StopNotify ==
    /\ MainMoves("storing", "joining")
    /\ WakeWorker
    /\ UNCHANGED <<running_, queue_>>

(* Faulty: stop() does not join. *)
StopJoinSkipped == MainMoves("joining", "stopped") /\ UNCHANGED <<running_, worker, queue_>>

(* ... and waits for the worker to end. *)
StopJoin ==
    /\ worker = "exited"
    /\ MainMoves("joining", "stopped")
    /\ UNCHANGED <<running_, worker, queue_>>

(* delete: the destructor's stop() finds running_ clear and returns; the   *)
(* queue goes with the object.                                             *)
Delete ==
    /\ ~running_
    /\ MainMoves("stopped", "gone")
    /\ queue_' = <<>>
    /\ UNCHANGED <<running_, worker>>

WorkerStep ==
    \/ LoopTest
    \/ FindEmpty
    \/ Sleep
    \/ Break
    \/ Pop
    \/ GetConnection
    \/ Execute
    \/ ReleaseConnection

Next ==
    \/ Start
    \/ \E p \in Producers : Push(p) \/ Notify(p)
    \/ WorkerStep
    \/ SpuriousWake
    \/ StopStore
    \/ StopNotify
    \/ StopJoin
    \/ Delete

(* The scheduler runs every thread that can run: the worker (GetConnection *)
(* stands for a pool that serves it in the end), a producer between push   *)
(* and notify, and main inside stop().  Nobody has to call stop().         *)
Fairness ==
    /\ WF_vars(WorkerStep)
    /\ \A p \in Producers : WF_vars(Notify(p))
    /\ WF_vars(StopNotify)
    /\ WF_vars(StopJoin)

Spec == Init /\ [][Next]_vars /\ Fairness

-----------------------------------------------------------------------------
(* A wakeup for a task is never lost although notify_one is called without *)
(* mu_: while the worker sleeps beside a task, a producer is on its way to *)
(* notify it.                                                              *)
TaskWakesWorker ==
    worker = "asleep" /\ queue_ # <<>> => \E p \in Producers : producer[p] = "pushed"

inHand == IF task = NoTask THEN <<>> ELSE <<task>>

(* No task is skipped, doubled or overtaken on its way from a handler to   *)
(* the database: the executed tasks, the one in the worker's hand and the  *)
(* queue make up what was accepted, in order.                              *)
InOrder ==
    main # "gone" => accepted = SubSeq(accepted, 1, executed) \o inHand \o queue_

(* When stop() has returned the worker is past its last statement and has  *)
(* given its connection back, so that pool and table may be taken down.    *)
StopQuiesces ==
    main \in {"stopped", "gone"} => worker \notin HasTask \cup HasConnection

(* Every accepted task is executed in the end, unless stop() clears        *)
(* running_ before.                                                        *)
TaskExecuted ==
    \A i \in 1 .. MaxTasks :
       Len(accepted) >= i ~> (executed >= i \/ ~running_)

(* stop() misses the worker in one case only: when it clears the flag while *)
(* the worker, predicate evaluated, has not yet gone to sleep.             *)
StopReturns == main = "storing" /\ worker # "checked" ~> main = "stopped"

(* stop() stops the worker thread (async.h:33, "stop worker thread safely") *)
(* and returns.                                                            *)
StopTerminates == main = "storing" ~> main = "stopped"

(* The writer thread is there for persistence (README.md:19): what handlers *)
(* have been told is stored has been executed when the writer goes.        *)
AcceptedPersisted == main = "gone" => executed = Len(accepted)

(* The writer implements the log its callers rely on. *)
Log == INSTANCE WriteLog WITH
    log <- accepted,
    applied <- executed,
    closed <- main \in {"stopped", "gone"}

LogRefinement == Log!LogSpecification

=============================================================================
