------------------------------ MODULE Shutdown -------------------------------
(***************************************************************************)
(* main (src/Server/src/server.cpp:186-227) and the order in which the     *)
(* objects of the program come and go: pool, writer, HTTP server, handler. *)
(* The pool is PoolSpec; a handler is the calls it makes to pool and       *)
(* writer; the writer thread is what it does with the pool.                *)
(*                                                                         *)
(* A call to an object that has been deleted is undefined: nothing is said *)
(* about what comes after it.                                              *)
(***************************************************************************)
EXTENDS Naturals, FiniteSets

CONSTANTS
    Threads,    \* the HTTP worker threads
    Writer,     \* the writer thread
    Conns, NoConn,
    Paths       \* "/create", "/get", "/delete"

ShutdownAssumption == Writer \notin Threads /\ NoConn \notin Conns

VARIABLES
    main,       \* where main is
    registered, \* the paths that have been added
    state, free, owner,     \* dbpool (PoolSpec)
    running, writer,        \* running_, and where the writer thread is
    pc,         \* where each HTTP worker thread is
    undefined   \* something deleted, or not made yet, has been used

poolVars == <<state, free, owner>>
writerVars == <<running, writer>>
vars == <<main, registered, poolVars, writerVars, pc, undefined>>

Pool == INSTANCE PoolSpec WITH Threads <- Threads \cup {Writer}

(* The object a place of main is about to make, or to take down. *)
Places == {"pool", "writer", "port", "serve", "join", "delete writer", "delete pool",
           "destroy handler", "close", "returned", "failed", "aborted"}
Serving == {"serve", "join", "delete writer", "delete pool", "destroy handler", "close"}

PoolLives == main \in {"writer", "port", "serve", "join", "delete writer", "delete pool"}
WriterLives == main \in {"port", "serve", "join", "delete writer"}
HandlerLives == main \in {"serve", "join", "delete writer", "delete pool", "destroy handler"}

TypeOK ==
    /\ main \in Places /\ registered \subseteq Paths
    /\ state \in {"new", "up", "down"} /\ free \subseteq Conns
    /\ owner \in [Threads \cup {Writer} -> Conns \cup {NoConn}]
    /\ running \in BOOLEAN /\ writer \in {"none", "waiting", "acquire", "query", "exited"}
    /\ pc \in [Threads -> {"idle", "acquire", "query", "log", "reply"}]
    /\ undefined \in BOOLEAN

Init ==
    /\ Pool!SpecInit
    /\ main = "pool" /\ registered = {} /\ running = FALSE /\ writer = "none"
    /\ pc = [t \in Threads |-> "idle"] /\ undefined = FALSE

-----------------------------------------------------------------------------
(* main *)

MainMoves(from, to) == main = from /\ main' = to /\ UNCHANGED <<pc, undefined>>

BuildPool ==
    /\ \/ MainMoves("pool", "writer") /\ Pool!Open
       \/ MainMoves("pool", "failed") /\ Pool!Fail
    /\ UNCHANGED <<registered, writerVars>>

StartWriter ==
    /\ MainMoves("writer", "port")
    /\ running' = TRUE /\ writer' = "waiting"
    /\ UNCHANGED <<registered, poolVars>>

(* An exception of the constructor is caught nowhere: the process ends. *)
OpenPort ==
    /\ MainMoves("port", "serve") \/ MainMoves("port", "aborted")
    /\ UNCHANGED <<registered, poolVars, writerVars>>

AddHandler ==
    /\ MainMoves("serve", "serve")
    /\ \E p \in Paths \ registered : registered' = registered \cup {p}
    /\ UNCHANGED <<poolVars, writerVars>>

(* getchar() returns, and stop() clears the flag. *)
Stop ==
    /\ MainMoves("serve", "join") /\ registered = Paths
    /\ running' = FALSE
    /\ UNCHANGED <<registered, poolVars, writer>>

(* Faulty: stop returns without join. *)
JoinSkipped == MainMoves("join", "delete writer") /\ UNCHANGED <<registered, poolVars, writerVars>>

Join ==
    /\ MainMoves("join", "delete writer") /\ writer = "exited"
    /\ UNCHANGED <<registered, poolVars, writerVars>>

DeleteWriter ==
    /\ MainMoves("delete writer", "delete pool")
    /\ UNCHANGED <<registered, poolVars, writerVars>>

DeletePool ==
    /\ MainMoves("delete pool", "destroy handler")
    /\ Pool!Close
    /\ UNCHANGED <<registered, writerVars>>

(* At the end of main the objects go in the reverse of their order. *)
DestroyHandler ==
    /\ MainMoves("destroy handler", "close")
    /\ UNCHANGED <<registered, poolVars, writerVars>>

(* ~CivetServer: mg_stop waits for the threads. *)
Close ==
    /\ MainMoves("close", "returned") /\ \A t \in Threads : pc[t] = "idle"
    /\ UNCHANGED <<registered, poolVars, writerVars>>

-----------------------------------------------------------------------------
(* The HTTP worker threads *)

Undefined == undefined' = TRUE /\ UNCHANGED <<poolVars, pc>>
Goto(t, p) == pc' = [pc EXCEPT ![t] = p]

(* A request for a path that has been added calls the handler: a GET that  *)
(* hits, or a request without a key, makes none of the calls below.        *)
PortOpen == main \in Serving
Arrive(t) ==
    /\ pc[t] = "idle" /\ PortOpen
    /\ \/ registered # {} /\ HandlerLives /\ UNCHANGED undefined
          /\ \E p \in {"acquire", "log", "reply"} : Goto(t, p)
          /\ UNCHANGED poolVars
       \/ registered = Paths /\ ~HandlerLives /\ Undefined
       \/ registered # Paths /\ Goto(t, "reply") /\ UNCHANGED <<poolVars, undefined>>
    /\ UNCHANGED <<main, registered, writerVars>>

Acquire(t) ==
    /\ pc[t] = "acquire"
    /\ \/ PoolLives /\ Pool!Take(t) /\ Goto(t, "query") /\ UNCHANGED undefined
       \/ ~PoolLives /\ Undefined
    /\ UNCHANGED <<main, registered, writerVars>>

Release(t) ==
    /\ pc[t] = "query"
    /\ \/ PoolLives /\ Pool!Give(t) /\ Goto(t, "reply") /\ UNCHANGED undefined
       \/ ~PoolLives /\ Undefined
    /\ UNCHANGED <<main, registered, writerVars>>

(* async_insert, async_delete. *)
LogWrite(t) ==
    /\ pc[t] = "log"
    /\ \/ WriterLives /\ Goto(t, "reply") /\ UNCHANGED <<poolVars, undefined>>
       \/ ~WriterLives /\ Undefined
    /\ UNCHANGED <<main, registered, writerVars>>

Reply(t) ==
    /\ pc[t] = "reply" /\ Goto(t, "idle")
    /\ UNCHANGED <<main, registered, poolVars, writerVars, undefined>>

-----------------------------------------------------------------------------
(* The writer thread *)

WriterMoves(from, to) ==
    /\ writer = from /\ writer' = to
    /\ UNCHANGED <<main, registered, running, pc, undefined>>

WriterPop == running /\ WriterMoves("waiting", "acquire") /\ UNCHANGED poolVars
WriterAcquire == WriterMoves("acquire", "query") /\ Pool!Take(Writer)
WriterRelease == WriterMoves("query", "waiting") /\ Pool!Give(Writer)
WriterExit == ~running /\ WriterMoves("waiting", "exited") /\ UNCHANGED poolVars

Next ==
    /\ ~undefined
    /\ \/ BuildPool \/ StartWriter \/ OpenPort \/ AddHandler \/ Stop \/ Join
       \/ DeleteWriter \/ DeletePool \/ DestroyHandler \/ Close
       \/ \E t \in Threads : Arrive(t) \/ Acquire(t) \/ Release(t) \/ LogWrite(t) \/ Reply(t)
       \/ WriterPop \/ WriterAcquire \/ WriterRelease \/ WriterExit

Spec == Init /\ [][Next]_vars

-----------------------------------------------------------------------------
(* When the pool goes, the writer thread has ended and holds none of its   *)
(* connections, however busy the handlers keep the pool.                   *)
WriterQuiet ==
    main \in {"delete writer", "delete pool", "destroy handler", "close", "returned"} =>
       writer = "exited" /\ owner[Writer] = NoConn

(* Until main goes to take the writer down no thread calls an object that  *)
(* is not there: everything a handler uses is made before the port opens.  *)
OnlyLate == undefined => main \in {"delete pool", "destroy handler", "close"}

=============================================================================
