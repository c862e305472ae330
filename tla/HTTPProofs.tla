----------------------------- MODULE HTTPProofs ------------------------------
(***************************************************************************)
(* Proofs about the HTTP front end.  ServerStart: whatever step of         *)
(* mg_start2 fails, and however often servers are started and stopped, for *)
(* any ports, threads and bounds.  What is said of callbacks and ports     *)
(* needs that the master thread can be created: mg_start2 does not ask,    *)
(* and mg_stop gives nothing back when there is none.  Then Shutdown: the  *)
(* order in which main, which starts and stops the server, takes its       *)
(* objects down.  Then what answers a request: the table of WebDAV locks   *)
(* (DavLocks), for any number of workers, users, paths and slots; the      *)
(* bytes of an answer (Output), for any limits and lengths; CGI (Cgi), for *)
(* any programs, bodies, pipes and workers, and its environment (CgiEnv),  *)
(* for any variables; and what changes the tree of files (DavFiles), for   *)
(* any trees, tasks and workers.                                           *)
(***************************************************************************)
EXTENDS ServerStart, SequenceTheorems, FiniteSetTheorems,
        WellFoundedInduction, TLAPS

(* What ThreadsAssumption and MaxWorkerThreadsAssumption say, and that the *)
(* bounds of the model are numbers.                                        *)
StartAssumption ==
    /\ Threads \subseteq Int /\ Prespawn \subseteq Int
    /\ MaxWorkerThreads \in Nat /\ MaxStarts \in Nat /\ MaxInits \in Nat

(* The places of mg_start2 and its caller. *)
Early == {"sync", "options", "options_failed", "queue", "threads", "passwords"}
Late == {"user", "acl", "ids", "connections", "callback"}
Begun == {"workers", "master", "running", "stopping"}
Places == {"idle", "context", "ports", "failed", "stopped", "undefined"}
              \cup Early \cup Late \cup Begun

(* TypeOK, and what it leaves out. *)
Typed ==
    /\ TypeOK
    /\ called \in Nat /\ starts \in Nat /\ pc \in Places
    /\ total \in Nat /\ ok \in Nat /\ init \in Nat /\ exit \in Nat
    /\ max \in 0 .. MaxWorkerThreads /\ prespawn \in Nat /\ spawned \in 0 .. max
    /\ masterid \in BOOLEAN /\ fds \in BOOLEAN

(* The threads of a server, told from where the thread is that starts and  *)
(* stops it.                                                               *)
Running ==
    /\ pc \notin Begun \cup {"stopped"} => alive = {} /\ spawned = 0
    /\ pc \notin {"running", "stopping", "stopped"} => master = "none"
    /\ pc \notin {"stopping", "stopped"} => stop_flag = 0
    /\ pc = "stopping" => stop_flag \in {1, 2}
    /\ pc \in {"master", "running"} => spawned > 0 \/ prespawn = 0
    /\ masterid => pc = "running"
    /\ pc = "running" => (masterid <=> master # "none") /\ master # "join"
    /\ master = "join" => pc = "stopping" /\ stop_flag = 1
    /\ stop_flag = 2 => alive = {} /\ master = "gone"
    /\ pc = "stopped" => \/ stop_flag = 2 /\ held = {}
                         \/ stop_flag = 0 /\ master = "none" /\ "ctx" \in held
    /\ pc \in {"ports", "undefined"} \cup Early \cup Late \cup Begun => "ctx" \in held

(* The calls of init_context and exit_context. *)
Callbacks ==
    /\ pc \in Begun => init = exit + 1 /\ exit_context
    /\ pc \notin Begun => init = exit
    /\ pc \in {"idle", "context", "ports"} \cup Early \cup Late => ~ exit_context
    /\ pc = "running" => masterid

(* A port that this process has bound has a socket, or a start that failed *)
(* has left it behind, and never both while the server can use it.         *)
LeftBound == {l.port : l \in {k \in leaks : "port" \in DOMAIN k}}
Open == {sockets[i] : i \in DOMAIN sockets}
Listening ==
    /\ sockets \in Seq(bound) /\ bound = LeftBound \cup Open
    /\ pc \in {"ports"} \cup Late \cup Begun => Open \cap LeftBound = {}
    /\ pc \in {"idle", "context"} \cup Early => sockets = <<>>
    /\ pc \in {"failed", "stopped"} => Open \subseteq LeftBound
    /\ pc \in Late \cup Begun => ok = total
    /\ fds <=> sockets # <<>>
    /\ master = "join" \/ stop_flag = 2 => sockets = <<>>

StartInv == Typed /\ Running
MasterInv == Callbacks /\ Listening

-----------------------------------------------------------------------------
(* The steps of mg_start2, by what they do. *)

(* One goes on to the next step, with more held. *)
Goes ==
    /\ \/ pc = "context" /\ pc' = "sync" /\ "ctx" \in held'
       \/ pc \in Early /\ pc' \in Early
       \/ pc = "ports" /\ pc' = "user" /\ ok = total
       \/ pc \in Late /\ pc' \in Late
       \/ pc = "workers" /\ pc' = "master" /\ spawned > 0
    /\ held \subseteq held' /\ held' \subseteq FreedByContext
    /\ UNCHANGED <<lib, code, starts, leaks, init, exit, exit_context, ports, taken, threads>>

(* One fails, and free_context gives back what is held. *)
Fails ==
    /\ pc \in {"context", "workers"} \cup Early \cup Late
    /\ pc = "workers" => spawned = 0
    /\ \E c : Fail(c)

SyncFails ==
    /\ pc = "sync" /\ pc' = "failed" /\ held' = {}
    /\ \E rs \in SUBSET Sync : leaks' = leaks \cup {[object |-> r] : r \in rs}
    /\ UNCHANGED <<lib, starts, init, exit, exit_context, ports, taken, threads>>

ThreadsCounted ==
    /\ pc = "threads" /\ pc' = "passwords"
    /\ max' \in 0 .. MaxWorkerThreads /\ prespawn' \in Nat
    /\ held \subseteq held' /\ held' \subseteq FreedByContext
    /\ UNCHANGED <<lib, code, starts, leaks, init, exit, exit_context, ports, taken,
                   spawned, alive, master, masterid, stop_flag>>

ListRead ==
    /\ pc = "passwords" /\ pc' = "ports"
    /\ total' = 0 /\ ok' = 0
    /\ UNCHANGED <<lib, code, starts, ctx, sockets, fds, bound, taken, threads>>

(* An entry that opens nothing. *)
EntryRead ==
    /\ pc = "ports" /\ pc' \in {"ports", "undefined"}
    /\ total' = total + 1 /\ ok' \in {ok, ok + 1}
    /\ UNCHANGED <<lib, code, starts, ctx, sockets, fds, bound, taken, threads>>

PortsFail ==
    /\ pc = "ports" /\ pc' = "failed"
    /\ close_all_listening_sockets
    /\ exit' = exit + (IF exit_context THEN 1 ELSE 0)
    /\ held' = held \ FreedByContext
    /\ UNCHANGED <<lib, starts, leaks, init, exit_context, list, total, ok, taken, threads>>

LEMMA GetIs ==
    ASSUME NEW from, NEW to, NEW rs, NEW fault, NEW c, Get(from, to, rs, fault, c),
           rs \subseteq FreedByContext, held \subseteq FreedByContext,
           from \in {"context"} \cup Early \cup Late,
           \/ from = "context" /\ to = "sync" /\ "ctx" \in rs
           \/ from \in Early /\ to \in Early
           \/ from \in Late /\ to \in Late
    PROVE  Goes \/ Fails
<1>1. CASE Go(to) /\ Hold(rs) /\ UNCHANGED <<lib, ports, taken, threads>>
  BY <1>1 DEF Goes, Get, At, Go, Hold
<1>2. CASE Fail(c)
  BY <1>2 DEF Fails, Get, At, Early, Late
<1> QED BY <1>1, <1>2 DEF Get

LEMMA ThreadsIs ==
    ASSUME StartAssumption, StartInv, CountThreads PROVE ThreadsCounted \/ Fails
<1>1. pc = "threads" /\ "threads" \in Early
  BY DEF CountThreads, At, Early
<1>2. PICK w \in Threads, p \in Prespawn :
         IF w > MaxWorkerThreads \/ w <= 0 THEN Fail("option")
         ELSE /\ SetThreads(w, p) /\ Hold({"system"}) /\ Go("passwords")
              /\ UNCHANGED <<lib, ports, taken>>
  BY DEF CountThreads
<1>3. CASE w > MaxWorkerThreads \/ w <= 0
  BY <1>1, <1>2, <1>3 DEF Fails
<1>4. CASE ~ (w > MaxWorkerThreads \/ w <= 0)
  <2>1. SetThreads(w, p) /\ Hold({"system"}) /\ Go("passwords") /\ UNCHANGED <<lib, ports,
  taken>>
    BY <1>2, <1>4
  <2>2. w \in Nat /\ w <= MaxWorkerThreads /\ p \in Int /\ MaxWorkerThreads \in Nat
    BY <1>4 DEF StartAssumption
  <2>3. max' \in 0 .. MaxWorkerThreads /\ prespawn' \in Nat
    BY <2>1, <2>2 DEF SetThreads
  <2>4. held \subseteq held' /\ held' \subseteq FreedByContext
    BY <2>1 DEF Hold, StartInv, Typed, TypeOK, FreedByContext
  <2> QED BY <1>1, <2>1, <2>3, <2>4 DEF ThreadsCounted, SetThreads, Hold, Go
<1> QED BY <1>3, <1>4

LEMMA SyncIs ==
    ASSUME StartInv, SyncObjects PROVE Goes \/ SyncFails
<1>1. pc = "sync" /\ held \subseteq FreedByContext
  BY DEF SyncObjects, At, StartInv, Typed, TypeOK
<1> QED BY <1>1 DEF SyncObjects, Goes, SyncFails, Go, Hold, Early, FreedByContext, Sync, ctx

LEMMA PortsIs ==
    ASSUME StartInv, PortsDone PROVE Goes \/ PortsFail
BY DEF PortsDone, At, EnoughPorts, Goes, PortsFail, Go, ctx, StartInv, Typed, TypeOK

LEMMA StartingIs ==
    ASSUME StartAssumption, StartInv, Starting
    PROVE  \/ Start \/ Goes \/ Fails \/ SyncFails \/ ThreadsCounted \/ ListRead
           \/ EntryRead \/ PortOpened \/ PortsFail
           \/ InitContext \/ StartWorker \/ StartMaster
<1>1. held \subseteq FreedByContext /\ Sync \subseteq FreedByContext
  BY DEF StartInv, Typed, TypeOK, FreedByContext
<1>2. CASE Context \/ Queue
  BY <1>1, <1>2, GetIs DEF Context, Queue, Early, FreedByContext
<1>3. CASE Options
  <2>1. CASE Get("options", "queue", {"config"}, "option", "option")
    BY <1>1, <2>1, GetIs DEF Early, FreedByContext
  <2>2. CASE /\ At("options") /\ May("option") /\ Hold({"config"})
             /\ Go("options_failed") /\ UNCHANGED <<lib, ports, taken, threads>>
    BY <1>1, <2>2 DEF At, Hold, Go, Goes, Early, FreedByContext
  <2> QED BY <1>3, <2>1, <2>2 DEF Options
<1>4. CASE OptionsFailed
  BY <1>4 DEF OptionsFailed, At, Fails, Early
<1>5. CASE User \/ Acl \/ Ids \/ Connections
  BY <1>1, <1>5, GetIs DEF User, Acl, Ids, Connections, Late, FreedByContext
<1>6. CASE Passwords
  BY <1>6 DEF Passwords, At, Go, ListRead, Fails, Early
<1>7. CASE PortBad \/ PortRefused \/ PortLost
  BY <1>7 DEF PortBad, PortRefused, PortLost, At, NextEntry, EntryRead, StartInv, Typed
<1>8. CASE PortNoPoll
  BY <1>8 DEF PortNoPoll, At, EntryRead
<1>9. CASE NoWorker
  <2>1. CASE spawned > 0
    BY <1>1, <1>9, <2>1 DEF NoWorker, At, Go, Goes, ctx
  <2>2. CASE ~ (spawned > 0)
    BY <1>9, <2>2 DEF NoWorker, At, Fails, StartInv, Typed
  <2> QED BY <2>1, <2>2
<1> QED BY <1>2, <1>3, <1>4, <1>5, <1>6, <1>7, <1>8, <1>9, ThreadsIs, SyncIs,
     PortsIs DEF Starting

-----------------------------------------------------------------------------
(* Typed and Running are kept. *)

LEMMA TypedInit == ASSUME StartAssumption PROVE Init => StartInv
<1> SUFFICES ASSUME Init PROVE StartInv
  OBVIOUS
<1>1. 0 \in 0 .. MaxInits + MaxStarts /\ 0 <= MaxWorkerThreads /\ 0 \in 0 .. MaxWorkerThreads
  BY DEF StartAssumption
<1>2. exit_context \in BOOLEAN /\ fds \in BOOLEAN /\ masterid \in BOOLEAN
  BY DEF Init
<1>3. alive \subseteq 1 .. spawned
  BY DEF Init
<1>5. TypeOK
  BY <1>1, <1>2, <1>3 DEF Init, TypeOK
<1>6. Typed
  BY <1>1, <1>2, <1>5 DEF Init, Typed, Places
<1>4. Running
  BY DEF Init, Running, Early, Late, Begun
<1> QED BY <1>4, <1>6 DEF StartInv

LEMMA GoesKeeps == ASSUME StartInv, Goes PROVE StartInv'
<1> USE DEF Goes, lib, ports, threads, workers
<1>1. Typed'
  BY DEF StartInv, Typed, TypeOK, Places, Early, Late, Begun
<1>2. Running'
  BY DEF StartInv, Typed, Running, Early, Late, Begun
<1> QED BY <1>1, <1>2 DEF StartInv

LEMMA FailsKeeps == ASSUME StartInv, Fails PROVE StartInv'
<1> USE DEF Fails, Fail, free_context, lib, ports, threads, workers
<1>1. Typed'
  BY DEF StartInv, Typed, TypeOK, Places
<1>2. Running'
  <2>1. pc = "workers" => alive = {}
    BY DEF StartInv, Typed, TypeOK
  <2> QED BY <2>1 DEF StartInv, Running, Early, Late, Begun
<1> QED BY <1>1, <1>2 DEF StartInv

LEMMA BuildKeeps ==
    ASSUME StartInv, SyncFails \/ ThreadsCounted \/ ListRead \/ EntryRead \/ PortsFail
    PROVE  StartInv'
<1> USE DEF lib, ports, ctx, threads, workers
<1>1. CASE SyncFails
  BY <1>1 DEF SyncFails, StartInv, Typed, TypeOK, Running, Places, Early, Late, Begun
<1>2. CASE ThreadsCounted
  BY <1>2 DEF ThreadsCounted, StartInv, Typed, TypeOK, Running, Places, Early, Late, Begun
<1>3. CASE ListRead
  BY <1>3 DEF ListRead, StartInv, Typed, TypeOK, Running, Places, Early, Late, Begun
<1>4. CASE EntryRead
  BY <1>4 DEF EntryRead, StartInv, Typed, TypeOK, Running, Places, Early, Late, Begun
<1>5. CASE PortsFail
  <2>3. (fds \in BOOLEAN /\ exit_context \in BOOLEAN /\ masterid \in BOOLEAN)'
    BY <1>5 DEF PortsFail, close_all_listening_sockets, StartInv, Typed, TypeOK
  <2>1. Typed'
    BY <1>5, <2>3 DEF PortsFail, StartInv, Typed, TypeOK, Places
  <2>2. Running'
    BY <1>5 DEF PortsFail, close_all_listening_sockets, StartInv, Running, Early, Late, Begun
  <2> QED BY <2>1, <2>2 DEF StartInv
<1> QED BY <1>1, <1>2, <1>3, <1>4, <1>5

LEMMA MoreWorkers ==
    ASSUME StartAssumption, Typed, mg_start_worker_thread
    PROVE  /\ spawned' = spawned + 1 /\ spawned' \in 0 .. max /\ alive' \subseteq 1 .. spawned'
           /\ spawned' <= MaxWorkerThreads
<1>1. PICK n, w, m, a, b, k : /\ n = spawned /\ w = max /\ m = spawned' /\ a = alive
                           /\ b = alive' /\ k = MaxWorkerThreads
  OBVIOUS
<1>2. /\ w \in 0 .. k /\ k \in Nat /\ n \in 0 .. w /\ a \subseteq 1 .. n
      /\ n < w /\ m = n + 1 /\ b = a \cup {n + 1}
  BY <1>1 DEF StartAssumption, Typed, TypeOK, mg_start_worker_thread
<1>3. m = n + 1 /\ m \in 0 .. w /\ b \subseteq 1 .. m /\ m <= k
  BY ONLY <1>2
<1> QED BY <1>1, <1>3

LEMMA ServeKeeps ==
    ASSUME StartAssumption, StartInv, PortOpened \/ InitContext \/ StartWorker \/ StartMaster
    PROVE  StartInv'
<1> USE DEF lib, ports, ctx, threads, workers, At, Go
<1>1. CASE PortOpened
  BY <1>1 DEF PortOpened, NextEntry, StartInv, Typed, TypeOK, Running, Places, Early, Late,
       Begun
<1>2. CASE InitContext
  BY <1>2 DEF InitContext, StartInv, Typed, TypeOK, Running, Places, Early, Late, Begun
<1>3. CASE StartWorker
  <2>1. spawned' = spawned + 1 /\ spawned' \in 0 .. max /\ alive' \subseteq 1 .. spawned'
        /\ spawned' <= MaxWorkerThreads
    BY <1>3, MoreWorkers DEF StartWorker, StartInv
  <2>2. Typed'
    BY <1>3, <2>1 DEF StartWorker, StartInv, Typed, TypeOK
  <2>3. Running'
    BY <1>3 DEF StartWorker, mg_start_worker_thread, StartInv, Typed, Running, Early, Late,
         Begun
  <2> QED BY <2>2, <2>3 DEF StartInv
<1>4. CASE StartMaster
  <2>1. Typed'
    BY <1>4 DEF StartMaster, StartInv, Typed, TypeOK, Places, Begun
  <2>2. Running'
    BY <1>4 DEF StartMaster, StartInv, Typed, Running, Early, Late, Begun
  <2> QED BY <2>1, <2>2 DEF StartInv
<1> QED BY <1>1, <1>2, <1>3, <1>4

LEMMA LibraryKeeps ==
    ASSUME StartAssumption, StartInv, Library \/ Start PROVE StartInv'
<1>1. PICK k, c, d : k = MaxInits + MaxStarts /\ c = called /\ d = called'
  OBVIOUS
<1>2. /\ k \in Nat /\ MaxInits <= k /\ MaxStarts <= k
      /\ c \in 0 .. k /\ library \subseteq LibraryObjects /\ starts \in Nat
  BY <1>1 DEF StartAssumption, StartInv, Typed, TypeOK
<1>3. d \in 0 .. k
  <2>1. CASE InitLibrary
    <3>1. c < MaxInits /\ d \in {c, c + 1}
      BY <1>1, <1>2, <2>1 DEF InitLibrary, mg_init_library, InitObjects
    <3> QED BY <1>2, <3>1 DEF StartAssumption
  <2>2. CASE ExitLibrary
    <3>1. c > 0 /\ d = c - 1
      BY <1>1, <2>2 DEF ExitLibrary
    <3> QED BY ONLY <1>2, <3>1
  <2>3. CASE Start
    <3>1. starts < MaxStarts /\ (d = c \/ (c = 0 /\ d = 1))
      BY <1>1, <2>3 DEF Start, mg_init_library, InitObjects, lib
    <3>2. k > 0
      BY <1>2, <3>1 DEF StartAssumption
    <3> QED BY ONLY <1>2, <3>1, <3>2
  <2> QED BY <2>1, <2>2, <2>3 DEF Library
<1>4. library' \subseteq LibraryObjects
  BY <1>2 DEF Library, InitLibrary, ExitLibrary, Start, mg_init_library, InitObjects, lib,
     LibraryObjects
<1>5. called' \in 0 .. MaxInits + MaxStarts /\ called' \in Nat
  BY <1>1, <1>2, <1>3
<1>6. CASE Library
  <2>1. UNCHANGED <<pc, code, starts, ctx, ports, taken, threads>>
    BY <1>6 DEF Library, InitLibrary, ExitLibrary
  <2>2. Typed'
    BY <1>4, <1>5, <2>1 DEF ctx, ports, threads, workers, StartInv, Typed, TypeOK
  <2>3. Running'
    BY <2>1 DEF ctx, ports, threads, workers, StartInv, Running
  <2> QED BY <2>2, <2>3 DEF StartInv
<1>7. CASE Start
  <2>1. /\ pc = "idle" /\ pc' \in {"failed", "context"} /\ starts' = starts + 1
        /\ UNCHANGED <<ctx, ports, taken, threads>>
    BY <1>7 DEF Start, At
  <2>2. Typed'
    BY <1>4, <1>5, <2>1 DEF ctx, ports, threads, workers, StartInv, Typed, TypeOK, Places
  <2>3. Running'
    BY <2>1 DEF ctx, ports, threads, workers, StartInv, Running, Early, Late, Begun
  <2> QED BY <2>2, <2>3 DEF StartInv
<1> QED BY <1>6, <1>7

LEMMA MasterKeeps ==
    ASSUME StartAssumption, StartInv, Master \/ MasterSpawns PROVE StartInv'
<1> USE DEF lib, ports, ctx, threads, workers
<1>1. CASE MasterBegins
  BY <1>1 DEF MasterBegins, StartInv, Typed, TypeOK, Running
<1>2. CASE MasterStops
  BY <1>2 DEF MasterStops, close_all_listening_sockets, StartInv, Typed, TypeOK, Running
<1>3. CASE MasterJoined
  BY <1>3 DEF MasterJoined, StartInv, Typed, TypeOK, Running, Begun
<1>4. CASE MasterSpawns
  <2>1. spawned' = spawned + 1 /\ spawned' \in 0 .. max /\ alive' \subseteq 1 .. spawned'
        /\ spawned' <= MaxWorkerThreads
    BY <1>4, MoreWorkers DEF MasterSpawns, StartInv
  <2>2. Typed'
    BY <1>4, <2>1 DEF MasterSpawns, StartInv, Typed, TypeOK
  <2>3. Running'
    BY <1>4 DEF MasterSpawns, mg_start_worker_thread, StartInv, Typed, Running, Early, Late,
         Begun
  <2> QED BY <2>2, <2>3 DEF StartInv
<1> QED BY <1>1, <1>2, <1>3, <1>4 DEF Master

LEMMA OthersKeep ==
    ASSUME StartInv, \/ \E w \in alive : WorkerEnds(w)
                     \/ \E q \in OtherPorts : Take(q) \/ GiveBack(q)
    PROVE  StartInv'
<1> USE DEF lib, ports, ctx, threads, workers
<1>1. ASSUME NEW w \in alive, WorkerEnds(w) PROVE StartInv'
  BY <1>1 DEF WorkerEnds, StartInv, Typed, TypeOK, Running
<1>2. ASSUME NEW q, Take(q) \/ GiveBack(q) PROVE StartInv'
  <2>1. UNCHANGED <<lib, pc, code, starts, ctx, ports, threads>>
    BY <1>2 DEF Take, GiveBack
  <2>2. Typed'
    BY <2>1 DEF StartInv, Typed, TypeOK
  <2>3. Running'
    BY <2>1 DEF StartInv, Running
  <2> QED BY <2>2, <2>3 DEF StartInv
<1> QED BY <1>1, <1>2

LEMMA StopKeeps ==
    ASSUME StartAssumption, StartInv, Stop \/ Stopped \/ Again PROVE StartInv'
<1> USE DEF lib, ports, ctx, threads, workers, At, Go
<1>1. CASE Stop
  <2>1. Typed'
    <3>1. /\ stop_flag' \in 0 .. 2 /\ pc' \in {"stopping", "stopped"}
          /\ UNCHANGED <<lib, ctx, ports, taken, workers, master, starts>>
      BY <1>1 DEF Stop, StartInv, Typed, TypeOK
    <3>2. masterid' = FALSE \/ masterid' = masterid
      BY <1>1 DEF Stop
    <3>3. (masterid \in BOOLEAN)'
      BY <3>2 DEF StartInv, Typed
    <3> QED BY <3>1, <3>3 DEF StartInv, Typed, TypeOK, Places, Begun
  <2>2. Running'
    BY <1>1 DEF Stop, StartInv, Typed, Running, Early, Late, Begun
  <2> QED BY <2>1, <2>2 DEF StartInv
<1>2. CASE Stopped
  BY <1>2 DEF Stopped, free_context, StartInv, Typed, TypeOK, Running, Places, Early, Late,
       Begun
<1>3. CASE Again
  <2>1. Typed'
    <3>1. (fds \in BOOLEAN /\ exit_context \in BOOLEAN /\ masterid \in BOOLEAN)'
      BY <1>3 DEF Again
    <3>2. 0 <= MaxWorkerThreads /\ 0 \in 0 .. MaxWorkerThreads /\ {} \subseteq 1 .. 0
      BY DEF StartAssumption
    <3>3. TypeOK'
      BY <1>3, <3>1, <3>2 DEF Again, StartInv, Typed, TypeOK
    <3> QED BY <1>3, <3>1, <3>2, <3>3 DEF Again, StartInv, Typed, Places
  <2>2. Running'
    BY <1>3 DEF Again, StartInv, Typed, Running, Early, Late, Begun
  <2> QED BY <2>1, <2>2 DEF StartInv
<1> QED BY <1>1, <1>2, <1>3

LEMMA StartStep == ASSUME StartAssumption PROVE StartInv /\ [Next]_vars => StartInv'
<1> SUFFICES ASSUME StartInv, [Next]_vars PROVE StartInv'
  OBVIOUS
<1>1. CASE UNCHANGED vars
  BY <1>1 DEF vars, lib, ctx, ports, threads, workers, StartInv, Typed, TypeOK, Running
<1>2. CASE Starting
  BY <1>2, StartingIs, GoesKeeps, FailsKeeps, BuildKeeps, ServeKeeps, LibraryKeeps
<1> QED BY <1>1, <1>2, LibraryKeeps, MasterKeeps, OthersKeep, StopKeeps DEF Next

(* However far a start comes and whatever threads are running, the state   *)
(* has the values the code gives it (mg_start2, mg_stop).                  *)
THEOREM StartTypes == ASSUME StartAssumption PROVE Spec => []TypeOK
<1>1. StartInv => TypeOK
  BY DEF StartInv, Typed
<1> QED BY <1>1, TypedInit, StartStep, PTL DEF Spec

(* While the master or a worker runs, the context it works with is not     *)
(* freed, whatever failed and whoever stops the server (free_context).     *)
THEOREM ContextThere == ASSUME StartAssumption PROVE Spec => []ContextOutlivesThreads
<1>1. StartInv => ContextOutlivesThreads
  BY DEF StartInv, Running, ContextOutlivesThreads, Typed, Places
<1> QED BY <1>1, TypedInit, StartStep, PTL DEF Spec

(* A server that runs has a worker, unless none is prespawned (mg_start2). *)
THEOREM WorkerThere == ASSUME StartAssumption PROVE Spec => []HasWorker
<1>1. StartInv => HasWorker
  BY DEF StartInv, Running, HasWorker
<1> QED BY <1>1, TypedInit, StartStep, PTL DEF Spec

-----------------------------------------------------------------------------
(* The library's objects. *)

LEMMA LibraryStep ==
    ASSUME StartAssumption, "methods" \notin Faults
    PROVE  StartInv /\ LibraryCounted /\ [Next]_vars => LibraryCounted'
<1> SUFFICES ASSUME StartInv, LibraryCounted, [Next]_vars PROVE LibraryCounted'
  OBVIOUS
<1>1. CASE UNCHANGED lib
  BY <1>1 DEF lib, LibraryCounted
<1>2. CASE Library \/ Start
  <2>1. called \in Nat
    BY DEF StartInv, Typed
  <2>2. CASE mg_init_library
    BY <2>1, <2>2 DEF mg_init_library, InitObjects, May, LibraryCounted, LibraryObjects
  <2>3. CASE ExitLibrary
    BY <2>1, <2>3 DEF ExitLibrary, LibraryCounted
  <2> QED BY <1>1, <1>2, <2>2, <2>3 DEF Library, InitLibrary, Start
<1>3. CASE Starting
  <2>1. CASE Goes \/ Fails \/ SyncFails \/ ThreadsCounted \/ ListRead \/ EntryRead \/ PortsFail
    BY <1>1, <2>1 DEF Goes, Fails, Fail, SyncFails, ThreadsCounted, ListRead, EntryRead,
         PortsFail
  <2>2. CASE PortOpened \/ InitContext \/ StartWorker \/ StartMaster
    BY <1>1, <2>2 DEF PortOpened, NextEntry, InitContext, StartWorker, StartMaster
  <2> QED BY <1>2, <1>3, <2>1, <2>2, StartingIs
<1>4. CASE Master \/ MasterSpawns \/ (\E w \in alive : WorkerEnds(w))
  BY <1>1, <1>4 DEF Master, MasterBegins, MasterStops, MasterJoined, MasterSpawns, WorkerEnds
<1>5. CASE \/ Stop \/ Stopped \/ Again \/ UNCHANGED vars
           \/ \E q \in OtherPorts : Take(q) \/ GiveBack(q)
  BY <1>1, <1>5 DEF Stop, Stopped, Again, Take, GiveBack, vars
<1> QED BY <1>2, <1>3, <1>4, <1>5 DEF Next

(* The objects of the library exist while somebody has called              *)
(* mg_init_library and not undone it, whatever fails but the memory for    *)
(* the list of methods (mg_init_library, mg_exit_library, mg_start2).      *)
THEOREM LibraryHeld ==
    ASSUME StartAssumption, "methods" \notin Faults PROVE Spec => []LibraryCounted
<1>1. Init => LibraryCounted
  BY DEF Init, LibraryCounted
<1> QED BY <1>1, TypedInit, StartStep, LibraryStep, PTL DEF Spec

-----------------------------------------------------------------------------
(* Callbacks and Listening are kept. *)

LEMMA CallbacksStart ==
    ASSUME StartAssumption, "master" \notin Faults, StartInv, Callbacks, Starting
    PROVE  Callbacks'
<1> USE DEF ctx, Early, Late, Begun
<1>1. CASE Goes
  BY <1>1 DEF Goes, Callbacks, threads
<1>2. CASE Fails
  BY <1>2 DEF Fails, Fail, free_context, Callbacks, StartInv, Typed
<1>3. CASE SyncFails \/ ThreadsCounted \/ ListRead
  BY <1>3 DEF SyncFails, ThreadsCounted, ListRead, threads, Callbacks
<1>4. CASE EntryRead \/ PortOpened
  BY <1>4 DEF EntryRead, PortOpened, NextEntry, At, threads, Callbacks
<1>5. CASE PortsFail
  BY <1>5 DEF PortsFail, threads, Callbacks, StartInv, Typed
<1>6. CASE InitContext
  BY <1>6 DEF InitContext, At, Go, threads, Callbacks, StartInv, Typed
<1>7. CASE StartWorker
  BY <1>7 DEF StartWorker, At, Callbacks
<1>8. CASE StartMaster
  BY <1>8 DEF StartMaster, At, Go, May, Callbacks
<1>9. CASE Start
  BY <1>9 DEF Start, At, threads, Callbacks
<1> QED BY <1>1, <1>2, <1>3, <1>4, <1>5, <1>6, <1>7, <1>8, <1>9, StartingIs

LEMMA CallbacksRest ==
    ASSUME StartInv, Callbacks, [Next]_vars, ~ Starting
    PROVE  Callbacks'
<1> USE DEF ctx, Early, Late, Begun
<1>1. CASE Library \/ UNCHANGED vars \/ \E q \in OtherPorts : Take(q) \/ GiveBack(q)
  <2>1. UNCHANGED <<pc, ctx, masterid>>
    BY <1>1 DEF Library, InitLibrary, ExitLibrary, Take, GiveBack, vars, threads
  <2> QED BY <2>1 DEF Callbacks
<1>2. CASE Master \/ MasterSpawns \/ \E w \in alive : WorkerEnds(w)
  <2>1. UNCHANGED <<pc, ctx, masterid>>
    BY <1>2 DEF Master, MasterBegins, MasterStops, MasterJoined, MasterSpawns, WorkerEnds
  <2> QED BY <2>1 DEF Callbacks
<1>3. CASE Stop
  BY <1>3 DEF Stop, At, Go, Callbacks
<1>4. CASE Stopped
  BY <1>4 DEF Stopped, At, Go, free_context, threads, Callbacks, StartInv, Typed
<1>5. CASE Again
  BY <1>5 DEF Again, Callbacks
<1> QED BY <1>1, <1>2, <1>3, <1>4, <1>5 DEF Next

(* What is left behind of the ports. *)
LEMMA LeftSame ==
    ASSUME NEW rs, leaks' = leaks \cup {[object |-> r] : r \in rs}
    PROVE  LeftBound' = LeftBound
<1>1. \A k \in leaks' : "port" \in DOMAIN k => k \in leaks
  OBVIOUS
<1> QED BY <1>1 DEF LeftBound

LEMMA LeftMore ==
    ASSUME free_context PROVE LeftBound' = LeftBound \cup Open
<1>1. leaks' = leaks \cup {[port |-> sockets[i]] : i \in DOMAIN sockets}
                     \cup (IF fds THEN {[memory |-> "fds"]} ELSE {})
  BY DEF free_context
<1>2. ASSUME NEW k \in leaks', "port" \in DOMAIN k
      PROVE  k \in leaks \/ \E i \in DOMAIN sockets : k.port = sockets[i]
  BY <1>1, <1>2
<1>3. ASSUME NEW i \in DOMAIN sockets
      PROVE  \E k \in leaks' : "port" \in DOMAIN k /\ k.port = sockets[i]
  <2>1. [port |-> sockets[i]] \in leaks'
    BY <1>1
  <2> QED BY <2>1
<1>4. leaks \subseteq leaks'
  BY <1>1
<1> QED BY <1>2, <1>3, <1>4 DEF LeftBound, Open

LEMMA SeqMore == ASSUME NEW A, NEW B, A \subseteq B, NEW q \in Seq(A) PROVE q \in Seq(B)
OBVIOUS

(* Sockets, ports and leaks stay as they are. *)
Unmoved == UNCHANGED <<leaks, sockets, fds, bound>>

LEMMA Stays ==
    ASSUME Unmoved
    PROVE  LeftBound' = LeftBound /\ Open' = Open
BY DEF Unmoved, LeftBound, Open

LEMMA ClosedAll ==
    ASSUME Listening, close_all_listening_sockets, Open \cap LeftBound = {}, leaks' = leaks
    PROVE  /\ LeftBound' = LeftBound /\ Open' = {} /\ bound' = LeftBound
           /\ sockets' = <<>> /\ sockets' \in Seq(bound') /\ ~ fds'
<1>1. sockets' = <<>> /\ ~ fds'
  BY DEF close_all_listening_sockets
<1>2. Open' = {}
  BY <1>1 DEF Open
<1>3. bound' = bound \ Open
  BY DEF close_all_listening_sockets, Open
<1>4. LeftBound' = LeftBound
  BY DEF LeftBound
<1> QED BY <1>1, <1>2, <1>3, <1>4 DEF Listening

LEMMA ListeningFails ==
    ASSUME Listening, free_context, UNCHANGED <<ports, master, stop_flag>>,
           pc' \in {"failed", "stopped"}
    PROVE  Listening'
<1>1. LeftBound' = LeftBound \cup Open
  BY LeftMore
<1>2. Open' = Open /\ UNCHANGED <<sockets, fds, bound>>
  BY DEF ports, Open
<1> QED BY <1>1, <1>2 DEF Listening, Early, Late, Begun, ports

LEMMA ListeningOpens ==
    ASSUME StartInv, Listening, PortOpened PROVE Listening'
<1>1. PICK x : /\ x \notin bound /\ sockets' = Append(sockets, x) /\ bound' = bound \cup {x}
  BY DEF PortOpened
<1>2. sockets \in Seq(bound') /\ x \in bound'
  BY <1>1, SeqMore DEF Listening
<1>3. sockets' \in Seq(bound') /\ sockets' # <<>>
  BY <1>1, <1>2
<1>4. Open' = Open \cup {x}
  <2>1. PICK s, n, s2 : s = sockets /\ n = Len(sockets) /\ s2 = sockets'
    OBVIOUS
  <2>2. /\ s \in Seq(bound') /\ n \in Nat /\ s2 = Append(s, x) /\ n = Len(s)
    BY <1>1, <1>2, <2>1
  <2>3. DOMAIN s = 1 .. n /\ DOMAIN s2 = 1 .. n + 1
    BY <1>2, <2>2
  <2>4. \A i \in 1 .. n : s2[i] = s[i]
    BY <1>2, <2>2
  <2>5. s2[n + 1] = x
    BY <1>2, <2>2
  <2>6. {s2[i] : i \in 1 .. n + 1} = {s[i] : i \in 1 .. n} \cup {x}
    BY ONLY <2>2, <2>4, <2>5
  <2> QED BY <2>1, <2>3, <2>6 DEF Open
<1>5. LeftBound' = LeftBound /\ pc = "ports" /\ pc' = "ports" /\ UNCHANGED <<master, stop_flag>>
      /\ fds'
  BY DEF PortOpened, NextEntry, At, ctx, threads, LeftBound
<1>6. master # "join" /\ stop_flag # 2
  BY <1>5 DEF StartInv, Running
<1> QED BY <1>1, <1>3, <1>4, <1>5, <1>6 DEF Listening, Early, Late, Begun

LEMMA ListeningStart ==
    ASSUME StartAssumption, StartInv, Listening, Starting
    PROVE  Listening'
<1> USE DEF Early, Late, Begun
<1>1. CASE Goes
  <2>1. Unmoved /\ UNCHANGED <<ok, total, master, stop_flag>>
    BY <1>1 DEF Goes, Unmoved, ports, threads
  <2> QED BY <1>1, <2>1, Stays DEF Goes, Unmoved, Listening
<1>2. CASE Fails
  BY <1>2, ListeningFails DEF Fails, Fail, threads
<1>3. CASE SyncFails
  <2>1. LeftBound' = LeftBound
    BY <1>3, LeftSame DEF SyncFails
  <2>2. Open' = Open /\ Open = {} /\ UNCHANGED <<ports, master, stop_flag>>
    BY <1>3 DEF SyncFails, ports, threads, Open, Listening
  <2> QED BY <1>3, <2>1, <2>2 DEF SyncFails, ports, Listening
<1>4. CASE ThreadsCounted \/ ListRead \/ EntryRead
  <2>1. Unmoved /\ UNCHANGED <<master, stop_flag>>
    BY <1>4 DEF ThreadsCounted, ListRead, EntryRead, Unmoved, ctx, ports, threads
  <2>2. sockets = <<>> => Open = {}
    BY DEF Open
  <2>3. \/ pc = "threads" /\ pc' = "passwords"
        \/ pc = "passwords" /\ pc' = "ports"
        \/ pc = "ports" /\ pc' \in {"ports", "undefined"}
    BY <1>4 DEF ThreadsCounted, ListRead, EntryRead
  <2> QED BY <2>1, <2>2, <2>3, Stays DEF Unmoved, Listening
<1>5. CASE PortOpened
  BY <1>5, ListeningOpens
<1>6. CASE PortsFail
  <2>1. Open \cap LeftBound = {}
    BY <1>6 DEF PortsFail, Listening
  <2> QED BY <1>6, <2>1, ClosedAll DEF PortsFail, Listening
<1>7. CASE InitContext \/ StartWorker \/ StartMaster
  <2>1. Unmoved /\ UNCHANGED <<ok, total, stop_flag>> /\ (master' = master \/ master' = "new")
    BY <1>7 DEF InitContext, StartWorker, StartMaster, Unmoved, ctx, ports, threads
  <2>2. pc \in Late \cup Begun /\ pc' \in Late \cup Begun
    BY <1>7 DEF InitContext, StartWorker, StartMaster, At, Go
  <2> QED BY <2>1, <2>2, Stays DEF Unmoved, Listening
<1>8. CASE Start
  <2>1. Unmoved /\ UNCHANGED <<master, stop_flag>> /\ pc = "idle" /\ pc' \in {"failed",
  "context"}
    BY <1>8 DEF Start, At, Unmoved, ctx, ports, threads
  <2>2. Open = {}
    BY <2>1 DEF Listening, Open
  <2> QED BY <2>1, <2>2, Stays DEF Unmoved, Listening
<1> QED BY <1>1, <1>2, <1>3, <1>4, <1>5, <1>6, <1>7, <1>8, StartingIs

LEMMA ListeningRest ==
    ASSUME StartInv, Callbacks, Listening, [Next]_vars, ~ Starting
    PROVE  Listening'
<1> USE DEF Early, Late, Begun
<1>1. CASE \/ Library \/ UNCHANGED vars \/ MasterBegins \/ MasterSpawns
           \/ \E q \in OtherPorts : Take(q) \/ GiveBack(q)
           \/ \E w \in alive : WorkerEnds(w)
  <2>1. /\ Unmoved /\ UNCHANGED <<pc, ok, total, stop_flag>>
        /\ master' = "join" => master = "join"
    BY <1>1 DEF Library, InitLibrary, ExitLibrary, Take, GiveBack, vars, MasterBegins,
       MasterSpawns, WorkerEnds, Unmoved, ctx, ports, threads
  <2> QED BY <2>1, Stays DEF Unmoved, Listening
<1>2. CASE MasterStops
  <2>1. pc = "stopping" /\ UNCHANGED <<pc, leaks, ok, total>>
    BY <1>2 DEF MasterStops, ctx, StartInv, Running
  <2>2. Open \cap LeftBound = {} /\ close_all_listening_sockets
    BY <1>2, <2>1 DEF MasterStops, Listening
  <2> QED BY <2>1, <2>2, ClosedAll DEF Listening
<1>3. CASE MasterJoined
  <2>1. Unmoved /\ UNCHANGED <<pc, ok, total>> /\ master = "join"
    BY <1>3 DEF MasterJoined, Unmoved, ctx, ports
  <2> QED BY <2>1, Stays DEF Unmoved, Listening
<1>4. CASE Stop
  <2>1. /\ Unmoved /\ UNCHANGED <<ok, total, master>> /\ pc = "running" /\ pc' = "stopping"
        /\ stop_flag' = 1
    BY <1>4 DEF Stop, At, Go, Unmoved, ctx, ports, Callbacks
  <2> QED BY <2>1, Stays DEF Unmoved, Listening
<1>5. CASE Stopped
  BY <1>5, ListeningFails DEF Stopped, Go, threads
<1>6. CASE Again
  <2>1. LeftBound' = LeftBound /\ bound' = bound /\ sockets' = <<>> /\ ~ fds' /\ Open' = {}
    BY <1>6 DEF Again, LeftBound, Open
  <2>2. bound = LeftBound
    BY <1>6 DEF Again, Listening
  <2>3. pc' = "idle" /\ sockets' \in Seq(bound')
    BY <1>6, <2>1 DEF Again
  <2> QED BY <2>1, <2>2, <2>3 DEF Listening
<1> QED BY <1>1, <1>2, <1>3, <1>4, <1>5, <1>6 DEF Next, Master

LEMMA MasterInit == Init => MasterInv
<1> SUFFICES ASSUME Init PROVE MasterInv
  OBVIOUS
<1>1. LeftBound = {} /\ Open = {}
  BY DEF Init, LeftBound, Open
<1>2. Callbacks
  BY DEF Init, Callbacks, Begun
<1>3. Listening
  BY <1>1 DEF Init, Listening, Late, Begun
<1> QED BY <1>2, <1>3 DEF MasterInv

LEMMA MasterStep ==
    ASSUME StartAssumption, "master" \notin Faults
    PROVE  StartInv /\ MasterInv /\ [Next]_vars => MasterInv'
BY CallbacksStart, CallbacksRest, ListeningStart, ListeningRest DEF MasterInv

(* Each context for which init_context was called sees exit_context once,  *)
(* and no other does, however far its start came (mg_start2, free_context).*)
THEOREM CallbacksMatch ==
    ASSUME StartAssumption, "master" \notin Faults PROVE Spec => []CallbacksPaired
<1>1. MasterInv => CallbacksPaired
  BY DEF MasterInv, Callbacks, CallbacksPaired, Begun
<1> QED BY <1>1, TypedInit, StartStep, MasterInit, MasterStep, PTL DEF Spec

(* A server that has been stopped holds nothing, its threads have ended,   *)
(* and the only ports still bound are those of starts that failed          *)
(* (mg_stop, close_all_listening_sockets, free_context).                   *)
THEOREM StopClean ==
    ASSUME StartAssumption, "master" \notin Faults PROVE Spec => []StoppedClean
<1>1. StartInv /\ MasterInv => StoppedClean
  <2> SUFFICES ASSUME StartInv, MasterInv, pc = "stopped", stop_flag = 2
               PROVE  /\ held = {} /\ alive = {} /\ sockets = <<>> /\ ~ fds
                      /\ bound = {l.port : l \in {k \in leaks : "port" \in DOMAIN k}}
    BY DEF StoppedClean
  <2> QED BY DEF StartInv, Running, MasterInv, Listening, LeftBound, Open
<1> QED BY <1>1, TypedInit, StartStep, MasterInit, MasterStep, PTL DEF Spec

(* A start that fails for its ports has none of them open; a server that   *)
(* runs has those it must have (set_ports_option).                         *)
THEOREM PortsTogether ==
    ASSUME StartAssumption, "master" \notin Faults PROVE Spec => []AllPortsOrNone
<1>1. StartInv /\ MasterInv => AllPortsOrNone
  <2> SUFFICES ASSUME StartInv, MasterInv PROVE AllPortsOrNone
    OBVIOUS
  <2>1. pc = "failed" => bound = LeftBound
    BY DEF MasterInv, Listening
  <2>2. pc = "running" => ok = total
    BY DEF MasterInv, Listening, Begun
  <2>3. (fds <=> sockets # <<>>) /\ fds \in BOOLEAN
    BY DEF MasterInv, Listening, StartInv, Typed
  <2>4. fds = (sockets # <<>>)
    BY ONLY <2>3, Zenon
  <2> QED BY ONLY <2>1, <2>2, <2>4 DEF AllPortsOrNone, LeftBound
<1> QED BY <1>1, TypedInit, StartStep, MasterInit, MasterStep, PTL DEF Spec

-----------------------------------------------------------------------------
(* The order in which main takes its objects down, for any number of HTTP   *)
(* worker threads, connections and paths: what Shutdown says of the caller  *)
(* of mg_start2 and mg_stop.                                                *)
CONSTANTS
    HttpThreads, Writer, Conns, NoConn, Paths

VARIABLES
    main, registered, state, free, owner, running, writer, main_pc, undefined

Main == INSTANCE Shutdown WITH Threads <- HttpThreads, pc <- main_pc

(* Where the writer thread is, told from where main is: it is made once    *)
(* the pool is there, has joined before it is deleted, and owns a          *)
(* connection while it executes a batch and at no other time.              *)
WriterInv ==
    /\ main \in {"pool", "writer", "failed"} => writer = "none"
    /\ main \in {"delete writer", "delete pool", "destroy handler", "close", "returned"} =>
         writer = "exited"
    /\ owner[Writer] # NoConn <=> writer = "query"

(* Where the HTTP worker threads may be: busy once the port is open and    *)
(* until mg_stop has waited for them.                                      *)
ThreadsInv ==
    /\ \A t \in HttpThreads : main_pc[t] # "idle" => main \in Main!Serving
    /\ undefined => main \in {"delete pool", "destroy handler", "close"}

ShutdownInv == Main!TypeOK /\ WriterInv /\ ThreadsInv

MainStep ==
    \/ Main!BuildPool \/ Main!StartWriter \/ Main!OpenPort \/ Main!AddHandler \/ Main!Stop \/ Main!Join
    \/ Main!DeleteWriter \/ Main!DeletePool \/ Main!DestroyHandler \/ Main!Close
ThreadStep(t) == Main!Arrive(t) \/ Main!Acquire(t) \/ Main!Release(t) \/ Main!LogWrite(t) \/ Main!Reply(t)
WriterStep == Main!WriterPop \/ Main!WriterAcquire \/ Main!WriterRelease \/ Main!WriterExit

LEMMA ShutdownInit == ASSUME Main!ShutdownAssumption PROVE Main!Init => ShutdownInv
BY DEF Main!ShutdownAssumption, Main!Init, ShutdownInv, Main!TypeOK, WriterInv, ThreadsInv,
   Main!Places, Main!Pool!SpecInit

(* What the pool's operations do to the owners.                            *)
LEMMA TakeOwner ==
    ASSUME Main!TypeOK, Main!ShutdownAssumption, NEW t \in HttpThreads \cup {Writer},
    Main!Pool!Take(t)
    PROVE  /\ state' \in {"new", "up", "down"} /\ free' \subseteq Conns
           /\ owner' \in [HttpThreads \cup {Writer} -> Conns \cup {NoConn}]
           /\ owner'[t] # NoConn
           /\ \A u \in HttpThreads \cup {Writer} : u # t => owner'[u] = owner[u]
BY DEF Main!TypeOK, Main!ShutdownAssumption, Main!Pool!Take

LEMMA GiveOwner ==
    ASSUME Main!TypeOK, NEW t \in HttpThreads \cup {Writer}, Main!Pool!Give(t)
    PROVE  /\ state' \in {"new", "up", "down"} /\ free' \subseteq Conns
           /\ owner' \in [HttpThreads \cup {Writer} -> Conns \cup {NoConn}]
           /\ owner'[t] = NoConn
           /\ \A u \in HttpThreads \cup {Writer} : u # t => owner'[u] = owner[u]
BY DEF Main!TypeOK, Main!Pool!Give

LEMMA MainKeeps ==
    ASSUME Main!ShutdownAssumption, ShutdownInv, ~ undefined, MainStep
    PROVE  ShutdownInv'
<1> USE DEF Main!MainMoves, Main!poolVars, Main!writerVars
<1>1. Main!TypeOK'
  BY DEF ShutdownInv, Main!TypeOK, Main!Places, MainStep, Main!BuildPool, Main!StartWriter,
       Main!OpenPort, Main!AddHandler,
     Main!Stop, Main!Join, Main!DeleteWriter, Main!DeletePool, Main!DestroyHandler, Main!Close,
     Main!Pool!Open, Main!Pool!Fail, Main!Pool!Close
<1>2. WriterInv'
  BY DEF ShutdownInv, WriterInv, MainStep, Main!BuildPool, Main!StartWriter, Main!OpenPort,
       Main!AddHandler,
     Main!Stop, Main!Join, Main!DeleteWriter, Main!DeletePool, Main!DestroyHandler, Main!Close,
     Main!Pool!Open, Main!Pool!Fail, Main!Pool!Close
<1>3. UNCHANGED <<main_pc, undefined>>
  BY DEF MainStep, Main!BuildPool, Main!StartWriter, Main!OpenPort, Main!AddHandler,
     Main!Stop, Main!Join, Main!DeleteWriter, Main!DeletePool, Main!DestroyHandler, Main!Close
<1>4. \/ main \in Main!Serving => main' \in Main!Serving
      \/ \A t \in HttpThreads : main_pc[t] = "idle"
  BY DEF Main!Serving, MainStep, Main!BuildPool, Main!StartWriter, Main!OpenPort,
       Main!AddHandler,
     Main!Stop, Main!Join, Main!DeleteWriter, Main!DeletePool, Main!DestroyHandler, Main!Close
<1>5. ThreadsInv'
  BY <1>3, <1>4 DEF ShutdownInv, ThreadsInv
<1> QED BY <1>1, <1>2, <1>5 DEF ShutdownInv

LEMMA ThreadKeeps ==
    ASSUME Main!ShutdownAssumption, ShutdownInv, ~ undefined, NEW t \in HttpThreads,
    ThreadStep(t)
    PROVE  ShutdownInv'
<1>1. /\ UNCHANGED <<main, running, writer, registered>>
      /\ main_pc' \in [HttpThreads -> {"idle", "acquire", "query", "log", "reply"}]
      /\ undefined' \in BOOLEAN
  BY DEF ThreadStep, Main!Arrive, Main!Acquire, Main!Release, Main!LogWrite, Main!Reply,
       Main!Goto, Main!Undefined, Main!writerVars,
     ShutdownInv, Main!TypeOK
<1>2. /\ state' \in {"new", "up", "down"} /\ free' \subseteq Conns
      /\ owner' \in [HttpThreads \cup {Writer} -> Conns \cup {NoConn}]
      /\ owner'[Writer] = owner[Writer]
  <2>1. CASE UNCHANGED Main!poolVars
    BY <2>1 DEF Main!poolVars, ShutdownInv, Main!TypeOK
  <2>2. CASE Main!Pool!Take(t)
    BY <2>2, TakeOwner DEF ShutdownInv, Main!ShutdownAssumption
  <2>3. CASE Main!Pool!Give(t)
    BY <2>3, GiveOwner DEF ShutdownInv, Main!ShutdownAssumption
  <2> QED BY <2>1, <2>2, <2>3 DEF ThreadStep, Main!Arrive, Main!Acquire, Main!Release,
       Main!LogWrite, Main!Reply, Main!Undefined
<1>3. Main!TypeOK' /\ WriterInv'
  BY <1>1, <1>2 DEF ShutdownInv, Main!TypeOK, WriterInv
<1>4. /\ \A u \in HttpThreads : u # t => main_pc'[u] = main_pc[u]
      /\ main_pc'[t] # "idle" => main \in Main!Serving
  BY DEF ThreadStep, Main!Arrive, Main!Acquire, Main!Release, Main!LogWrite, Main!Reply,
       Main!Goto, Main!Undefined, Main!PortOpen,
     ShutdownInv, Main!TypeOK, ThreadsInv
<1>5. undefined' => main \in {"delete pool", "destroy handler", "close"}
  <2>1. CASE Main!Arrive(t)
    BY <2>1 DEF Main!Arrive, Main!Undefined, Main!PortOpen, Main!Serving, Main!HandlerLives
  <2>2. CASE Main!Acquire(t) \/ Main!Release(t)
    BY <2>2 DEF Main!Acquire, Main!Release, Main!Undefined, Main!PoolLives, Main!Serving,
         ShutdownInv, ThreadsInv
  <2>3. CASE Main!LogWrite(t) \/ Main!Reply(t)
    BY <2>3 DEF Main!LogWrite, Main!Reply, Main!Undefined, Main!WriterLives, Main!Serving,
         ShutdownInv, ThreadsInv
  <2> QED BY <2>1, <2>2, <2>3 DEF ThreadStep
<1>6. ThreadsInv'
  BY <1>1, <1>4, <1>5 DEF ThreadsInv, ShutdownInv
<1> QED BY <1>3, <1>6 DEF ShutdownInv

LEMMA WriterKeeps ==
    ASSUME Main!ShutdownAssumption, ShutdownInv, ~ undefined, WriterStep
    PROVE  ShutdownInv'
<1>1. /\ UNCHANGED <<main, registered, running, main_pc, undefined>>
      /\ writer' \in {"waiting", "acquire", "query", "exited"}
      /\ writer \in {"waiting", "acquire", "query"}
  BY DEF WriterStep, Main!WriterPop, Main!WriterAcquire, Main!WriterRelease, Main!WriterExit,
       Main!WriterMoves
<1>2. /\ state' \in {"new", "up", "down"} /\ free' \subseteq Conns
      /\ owner' \in [HttpThreads \cup {Writer} -> Conns \cup {NoConn}]
      /\ owner'[Writer] # NoConn <=> writer' = "query"
  <2>1. CASE Main!WriterPop \/ Main!WriterExit
    BY <2>1 DEF Main!WriterPop, Main!WriterExit, Main!WriterMoves, Main!poolVars, ShutdownInv,
         Main!TypeOK, WriterInv
  <2>2. CASE Main!WriterAcquire
    BY <2>2, TakeOwner DEF Main!WriterAcquire, Main!WriterMoves, ShutdownInv
  <2>3. CASE Main!WriterRelease
    BY <2>3, GiveOwner DEF Main!WriterRelease, Main!WriterMoves, ShutdownInv
  <2> QED BY <2>1, <2>2, <2>3 DEF WriterStep
<1> QED BY <1>1, <1>2 DEF ShutdownInv, Main!TypeOK, WriterInv, ThreadsInv

LEMMA ShutdownStep ==
    ASSUME Main!ShutdownAssumption PROVE ShutdownInv /\ [Main!Next]_(Main!vars) => ShutdownInv'
<1> SUFFICES ASSUME ShutdownInv, [Main!Next]_(Main!vars) PROVE ShutdownInv'
  OBVIOUS
<1>1. CASE UNCHANGED Main!vars
  BY <1>1 DEF Main!vars, Main!poolVars, Main!writerVars, ShutdownInv, Main!TypeOK, WriterInv,
       ThreadsInv
<1>2. ASSUME ~ undefined, MainStep PROVE ShutdownInv'
  BY <1>2, MainKeeps
<1>3. ASSUME ~ undefined, NEW t \in HttpThreads, ThreadStep(t) PROVE ShutdownInv'
  BY <1>3, ThreadKeeps
<1>4. ASSUME ~ undefined, WriterStep PROVE ShutdownInv'
  BY <1>4, WriterKeeps
<1> QED BY <1>1, <1>2, <1>3, <1>4 DEF Main!Next, MainStep, ThreadStep, WriterStep

(* However busy the handlers keep the pool, when main deletes the writer   *)
(* and then the pool, the writer thread has ended and owns none of its     *)
(* connections (AsyncWriter::stop, server.cpp).                            *)
THEOREM WriterGoneFirst == ASSUME Main!ShutdownAssumption PROVE Main!Spec => []Main!WriterQuiet
<1>1. ShutdownInv => Main!WriterQuiet
  BY DEF ShutdownInv, WriterInv, Main!WriterQuiet
<1> QED BY <1>1, ShutdownInit, ShutdownStep, PTL DEF Main!Spec

(* No thread uses the pool, the writer or a handler before main has made   *)
(* it, nor before main takes them down: a request that is still running    *)
(* when main deletes them is the only one that can (server.cpp:186-227).   *)
THEOREM UsedWhileThere == ASSUME Main!ShutdownAssumption PROVE Main!Spec => []Main!OnlyLate
<1>1. ShutdownInv => Main!OnlyLate
  BY DEF ShutdownInv, ThreadsInv, Main!OnlyLate
<1> QED BY <1>1, ShutdownInit, ShutdownStep, PTL DEF Main!Spec

-----------------------------------------------------------------------------
(* What answers a request; places (pc), Faults and Paths are those above.  *)
CONSTANTS
    Workers,                                        \* DavLocks, DavFiles, Cgi
    Users, NoUser, NoPath, NumLocks, Duration, MaxTime,  \* DavLocks
    Throttles, Lengths, MaxRequests, MaxWrites,     \* Output
    Programs, MaxBody, PipeSize, BufferRoom,        \* Cgi
    Names, Trees, Tasks, ReadOnly, Sealed, TooLong, Hidden, ArrSize, MayFail,   \* DavFiles
    EnvRequests, EnvChunk, MaxVars, LongLength, MaxFailures     \* CgiEnv

VARIABLES
    now, webdav_lock, req, lock_index, answer,      \* DavLocks
    throttle, last_bytes, fresh, due, job, chunk, requests, writes, stop, broken,
    sent, ret, out,                                 \* Output
    prog, pipe, twice, stray,                       \* Cgi, with job
    tree, task, stack, found, arr_size, todo,       \* DavFiles, with answer
    block, strings, var, space, failures, request   \* CgiEnv, with todo

Locks == INSTANCE DavLocks
Out == INSTANCE Output
Gateway == INSTANCE Cgi
Dav == INSTANCE DavFiles
Environ == INSTANCE CgiEnv WITH Requests <- EnvRequests, Chunk <- EnvChunk

-----------------------------------------------------------------------------
(* Natural numbers, if any, have a least one, which is what Min and the *)
(* operators that look for the first of several things choose.             *)
LEMMA LeastNat ==
    ASSUME NEW S \in SUBSET Nat, S # {}
    PROVE  \E m \in S : \A n \in S : m <= n
<1> DEFINE R == OpToRel(<, Nat)
<1>1. IsWellFoundedOn(R, Nat)
  BY NatLessThanWellFounded, Zenon
<1>2. PICK m \in S : \A n \in S : <<n, m>> \notin R
  <2> HIDE DEF R
  <2> QED BY <1>1, WFMin
<1>3. \A n \in S : ~ (n < m)
  BY <1>2, Zenon DEF OpToRel
<1> QED BY <1>3

-----------------------------------------------------------------------------
(* DavLocks *)

(* LocksAssumption, and that the bound on the clock is a number. *)
LocksHypothesis == Locks!LocksAssumption /\ MaxTime \in Nat

Entries == [path : Paths \cup {NoPath}, user : Users \cup {NoUser},
            token : 0 .. MaxTime, time : 0 .. MaxTime]

(* TypeOK, and what it leaves out: the requests, that a worker without an  *)
(* answer has not been refused anything, and that one which is about to    *)
(* answer a LOCK has found a slot.                                         *)
LocksTyped ==
    /\ Locks!TypeOK
    /\ req \in [Workers -> Locks!DavRequests]
    /\ answer \in [Workers -> [status : Nat, user : Users \cup {NoUser},
                               path : Paths \cup {NoPath}, token : 0 .. MaxTime]]
    /\ \A w \in Workers :
         /\ pc[w] = "idle" => answer[w].status = 0
         /\ pc[w] = "respond" => lock_index[w] \in Locks!Slots

LocksInv == LocksTyped /\ Locks!OneOwner

LEMMA MinOfSlots ==
    ASSUME LocksHypothesis, NEW S \in SUBSET Locks!Slots, S # {}
    PROVE  Locks!Min(S) \in S /\ \A i \in S : Locks!Min(S) <= i
<1>1. S \in SUBSET Nat
  BY DEF Locks!Slots, LocksHypothesis, Locks!LocksAssumption
<1>2. \E m \in S : \A n \in S : m <= n
  BY <1>1, LeastNat
<1> QED BY <1>2 DEF Locks!Min

(* The oldest lock is there: the least time, and of its slots the first.   *)
LEMMA OldestIs ==
    ASSUME LocksHypothesis, NEW t \in [Locks!Slots -> Entries]
    PROVE  /\ Locks!Oldest(t) \in Locks!Slots
           /\ \A j \in Locks!Slots : t[Locks!Oldest(t)].time <= t[j].time
<1> DEFINE times == {t[i].time : i \in Locks!Slots}
<1>1. 1 \in Locks!Slots /\ Locks!Slots \subseteq Nat
  BY DEF Locks!Slots, LocksHypothesis, Locks!LocksAssumption
<1>2. \A i \in Locks!Slots : t[i].time \in Nat
  BY DEF Entries, LocksHypothesis
<1>3. times \in SUBSET Nat /\ times # {}
  BY <1>1, <1>2
<1>4. PICK m \in times : \A n \in times : m <= n
  BY <1>3, LeastNat
<1> DEFINE first == {i \in Locks!Slots : t[i].time = m}
<1>5. first \in SUBSET Nat /\ first # {}
  BY <1>1, <1>4
<1>6. PICK i \in first : \A j \in first : i <= j
  BY <1>5, LeastNat
<1>7. \A j \in Locks!Slots : t[i].time < t[j].time \/ (t[i].time = t[j].time /\ i <= j)
  <2> TAKE j \in Locks!Slots
  <2>1. m <= t[j].time /\ t[i].time = m
    BY <1>4, <1>6
  <2>2. t[j].time = m => i <= j
    BY <1>6
  <2> QED BY <2>1, <2>2, <1>2
<1>8. /\ Locks!Oldest(t) \in Locks!Slots
      /\ \A j \in Locks!Slots :
            \/ t[Locks!Oldest(t)].time < t[j].time
            \/ t[Locks!Oldest(t)].time = t[j].time /\ Locks!Oldest(t) <= j
  BY <1>6, <1>7 DEF Locks!Oldest
<1> QED BY <1>2, <1>8

(* What a LOCK makes of the table before it writes a lock of its own: of   *)
(* its path only locks of its user are left, and one goes only when it has *)
(* expired.                                                                *)
LEMMA ClearedIs ==
    ASSUME LocksHypothesis, LocksInv, NEW w \in Workers
    PROVE  /\ Locks!Cleared(w) \in [Locks!Slots -> Entries]
           /\ \A i \in Locks!Slots :
                /\ Locks!Cleared(w)[i].user = webdav_lock[i].user
                /\ Locks!Cleared(w)[i].time = webdav_lock[i].time
                /\ \/ Locks!Cleared(w)[i].path = webdav_lock[i].path
                   \/ Locks!Cleared(w)[i].path = NoPath /\ Locks!Expired(i)
                /\ Locks!Decisive(w) = {} => Locks!Cleared(w)[i].path # req[w].path
<1>1. webdav_lock \in [Locks!Slots -> Entries] /\ req[w].path \in Paths
  BY DEF LocksInv, LocksTyped, Locks!TypeOK, Locks!DavRequests, Entries
<1>2. NoPath \notin Paths
  BY DEF LocksHypothesis, Locks!LocksAssumption
<1>3. ASSUME NEW i \in Locks!Slots, \A j \in Locks!Decisive(w) : i < j,
             webdav_lock[i].path = req[w].path
      PROVE  Locks!Expired(i)
  <2>1. i \notin Locks!Decisive(w)
    BY <1>3 DEF Locks!Slots, LocksHypothesis, Locks!LocksAssumption
  <2> QED BY <1>3, <2>1 DEF Locks!Decisive, Locks!At
<1>4. Locks!Cleared(w) \in [Locks!Slots -> Entries]
  BY <1>1 DEF Locks!Cleared, Locks!At, Entries
<1>5. ASSUME NEW i \in Locks!Slots
      PROVE  /\ Locks!Cleared(w)[i].user = webdav_lock[i].user
             /\ Locks!Cleared(w)[i].time = webdav_lock[i].time
             /\ \/ Locks!Cleared(w)[i].path = webdav_lock[i].path
                \/ Locks!Cleared(w)[i].path = NoPath /\ Locks!Expired(i)
             /\ Locks!Decisive(w) = {} => Locks!Cleared(w)[i].path # req[w].path
  <2>1. CASE webdav_lock[i].path = req[w].path /\ \A j \in Locks!Decisive(w) : i < j
    <3>1. Locks!Cleared(w)[i] = [webdav_lock[i] EXCEPT !.path = NoPath]
      BY <2>1 DEF Locks!Cleared, Locks!At
    <3> QED BY <1>1, <1>2, <1>3, <2>1, <3>1 DEF Entries
  <2>2. CASE ~ (webdav_lock[i].path = req[w].path /\ \A j \in Locks!Decisive(w) : i < j)
    <3>1. Locks!Cleared(w)[i] = webdav_lock[i]
      BY <2>2 DEF Locks!Cleared, Locks!At
    <3> QED BY <2>2, <3>1
  <2> QED BY <2>1, <2>2
<1> QED BY <1>4, <1>5

LEMMA FoundIs ==
    ASSUME LocksHypothesis, LocksInv, NEW w \in Workers, ~ Locks!Refused(w)
    PROVE  /\ Locks!Found(w) \in [Locks!Slots -> Entries]
           /\ \A i \in Locks!Slots :
                /\ Locks!Found(w)[i].user = webdav_lock[i].user
                /\ \/ Locks!Found(w)[i].path = webdav_lock[i].path
                   \/ Locks!Found(w)[i].path = NoPath /\ Locks!Expired(i)
                /\ Locks!Found(w)[i].path = req[w].path => webdav_lock[i].user = req[w].user
                /\ Locks!Decisive(w) = {} => Locks!Found(w)[i].time = webdav_lock[i].time
           /\ Locks!Decisive(w) # {} => Locks!Min(Locks!Decisive(w)) \in Locks!Slots
<1>1. webdav_lock \in [Locks!Slots -> Entries] /\ req[w].path \in Paths /\ now \in 0 .. MaxTime
  BY DEF LocksInv, LocksTyped, Locks!TypeOK, Locks!DavRequests, Entries
<1>2. NoPath \notin Paths
  BY DEF LocksHypothesis, Locks!LocksAssumption
<1>3. CASE Locks!Decisive(w) = {}
  <2>1. Locks!Found(w) = Locks!Cleared(w)
    BY <1>3 DEF Locks!Found
  <2>2. \A i \in Locks!Slots :
           Locks!Cleared(w)[i].path # req[w].path /\ Locks!Cleared(w)[i].time = webdav_lock[i].time
    BY <1>3, ClearedIs
  <2> QED BY <1>1, <1>2, <1>3, <2>1, <2>2, ClearedIs
<1>4. CASE Locks!Decisive(w) # {}
  <2> DEFINE m == Locks!Min(Locks!Decisive(w))
  <2>1. m \in Locks!Decisive(w)
    BY <1>4, MinOfSlots DEF Locks!Decisive, Locks!At
  <2>2. m \in Locks!Slots /\ webdav_lock[m].path = req[w].path /\ webdav_lock[m].user = req[w].user
    BY <1>4, <2>1 DEF Locks!Decisive, Locks!At, Locks!Refused
  <2>3. Locks!Found(w) = [Locks!Cleared(w) EXCEPT ![m].time = now]
    BY <1>4 DEF Locks!Found
  <2>4. \A i \in Locks!Slots : webdav_lock[i].path = req[w].path => webdav_lock[i].user = req[w].user
    BY <1>1, <1>2, <2>2 DEF LocksInv, Locks!OneOwner, Locks!Locked
  <2> HIDE DEF m
  <2>5. /\ Locks!Found(w) \in [Locks!Slots -> Entries]
        /\ \A i \in Locks!Slots :
              /\ Locks!Found(w)[i].path = Locks!Cleared(w)[i].path
              /\ Locks!Found(w)[i].user = Locks!Cleared(w)[i].user
    BY <1>1, <2>2, <2>3, ClearedIs DEF Entries
  <2>6. \A i \in Locks!Slots :
           /\ Locks!Cleared(w)[i].user = webdav_lock[i].user
           /\ \/ Locks!Cleared(w)[i].path = webdav_lock[i].path
              \/ Locks!Cleared(w)[i].path = NoPath /\ Locks!Expired(i)
    BY ClearedIs
  <2> QED BY <1>1, <1>2, <1>4, <2>2, <2>4, <2>5, <2>6 DEF m
<1> QED BY <1>3, <1>4

(* What each of the four outcomes of a LOCK does to the table. *)
LEMMA LockTable ==
    ASSUME LocksHypothesis, LocksInv, NEW w \in Workers, Locks!Lock(w)
    PROVE  /\ webdav_lock' \in [Locks!Slots -> Entries]
           /\ Locks!OneOwner'
           /\ Locks!KeptUntilExpired
           /\ Locks!Refused(w) \/ \E i \in Locks!Slots : lock_index' = [lock_index EXCEPT ![w] = i]
<1> DEFINE t == Locks!Found(w)
           m == Locks!Min(Locks!At(t, NoPath))
<1>1. /\ webdav_lock \in [Locks!Slots -> Entries]
      /\ req[w].path \in Paths /\ req[w].user \in Users \cup {NoUser} /\ now \in 0 .. MaxTime
  BY DEF LocksInv, LocksTyped, Locks!TypeOK, Locks!DavRequests, Entries
<1>2. NoPath \notin Paths
  BY DEF LocksHypothesis, Locks!LocksAssumption
<1>3. CASE Locks!Refused(w)
  <2>1. webdav_lock' = Locks!Cleared(w)
    BY <1>3 DEF Locks!Lock, Locks!Answers
  <2>2. webdav_lock' \in [Locks!Slots -> Entries]
    BY <2>1, ClearedIs
  <2>3. \A i \in Locks!Slots :
           /\ webdav_lock'[i].user = webdav_lock[i].user
           /\ \/ webdav_lock'[i].path = webdav_lock[i].path
              \/ webdav_lock'[i].path = NoPath /\ Locks!Expired(i)
    BY <2>1, ClearedIs
  <2>4. Locks!OneOwner'
    BY <2>3 DEF LocksInv, Locks!OneOwner, Locks!Locked
  <2> QED BY <1>3, <2>2, <2>3, <2>4 DEF Locks!KeptUntilExpired
<1>4. ASSUME ~ Locks!Refused(w), Locks!At(t, NoPath) # {},
             webdav_lock' = [t EXCEPT ![m] = Locks!NewLock(w)],
             lock_index' = [lock_index EXCEPT ![w] = m]
      PROVE  /\ webdav_lock' \in [Locks!Slots -> Entries] /\ Locks!OneOwner'
             /\ Locks!KeptUntilExpired /\ \E i \in Locks!Slots : lock_index' = [lock_index EXCEPT ![w] = i]
  <2>1. m \in Locks!At(t, NoPath) /\ m \in Locks!Slots
    BY <1>4, MinOfSlots DEF Locks!At
  <2>2. t[m].path = NoPath
    BY <2>1 DEF Locks!At
  <2>3. t \in [Locks!Slots -> Entries] /\ Locks!NewLock(w) \in Entries
    BY <1>1, <1>4, FoundIs DEF Locks!NewLock, Entries
  <2>4. webdav_lock'[m].path = req[w].path /\ webdav_lock'[m].user = req[w].user
    BY <1>4, <2>1, <2>3 DEF Locks!NewLock
  <2>5. \A i \in Locks!Slots : i # m => webdav_lock'[i] = t[i]
    BY <1>4, <2>3
  <2>6. \A i \in Locks!Slots :
           /\ t[i].user = webdav_lock[i].user
           /\ \/ t[i].path = webdav_lock[i].path
              \/ t[i].path = NoPath /\ Locks!Expired(i)
           /\ t[i].path = req[w].path => webdav_lock[i].user = req[w].user
    BY <1>4, FoundIs
  <2>7. webdav_lock' \in [Locks!Slots -> Entries] /\ \E i \in Locks!Slots : lock_index' = [lock_index EXCEPT ![w] = i]
    BY <1>4, <2>1, <2>3
  <2> HIDE DEF t, m
  <2>8. Locks!OneOwner'
    BY <1>2, <2>1, <2>4, <2>5, <2>6 DEF LocksInv, Locks!OneOwner, Locks!Locked
  <2>9. Locks!KeptUntilExpired
    BY <2>1, <2>2, <2>4, <2>5, <2>6 DEF Locks!KeptUntilExpired, Locks!Locked
  <2> QED BY <2>7, <2>8, <2>9
<1>5. ASSUME ~ Locks!Refused(w), Locks!Decisive(w) # {}, webdav_lock' = t,
             lock_index' = [lock_index EXCEPT ![w] = Locks!Min(Locks!Decisive(w))]
      PROVE  /\ webdav_lock' \in [Locks!Slots -> Entries] /\ Locks!OneOwner'
             /\ Locks!KeptUntilExpired /\ \E i \in Locks!Slots : lock_index' = [lock_index EXCEPT ![w] = i]
  <2>1. \A i \in Locks!Slots :
           /\ webdav_lock'[i].user = webdav_lock[i].user
           /\ \/ webdav_lock'[i].path = webdav_lock[i].path
              \/ webdav_lock'[i].path = NoPath /\ Locks!Expired(i)
    BY <1>5, FoundIs
  <2>2. /\ webdav_lock' \in [Locks!Slots -> Entries]
        /\ Locks!Min(Locks!Decisive(w)) \in Locks!Slots
    BY <1>5, FoundIs
  <2>3. Locks!OneOwner'
    BY <2>1 DEF LocksInv, Locks!OneOwner, Locks!Locked
  <2> QED BY <1>1, <1>5, <2>1, <2>2, <2>3 DEF Locks!KeptUntilExpired
<1>6. ASSUME ~ Locks!Refused(w), Locks!Decisive(w) = {}, Locks!At(t, NoPath) = {},
             webdav_lock' = [t EXCEPT ![Locks!Oldest(t)].path = NoPath],
             lock_index' = [lock_index EXCEPT ![w] = Locks!Oldest(t)]
      PROVE  /\ webdav_lock' \in [Locks!Slots -> Entries] /\ Locks!OneOwner'
             /\ Locks!KeptUntilExpired /\ \E i \in Locks!Slots : lock_index' = [lock_index EXCEPT ![w] = i]
  <2> DEFINE old == Locks!Oldest(t)
  <2>1. /\ t \in [Locks!Slots -> Entries]
        /\ \A i \in Locks!Slots :
              /\ t[i].user = webdav_lock[i].user /\ t[i].time = webdav_lock[i].time
              /\ t[i].path = webdav_lock[i].path \/ t[i].path = NoPath
    BY <1>6, FoundIs
  <2>2. \A i \in Locks!Slots : t[i].path # NoPath
    BY <1>6 DEF Locks!At
  <2>3. old \in Locks!Slots /\ \A j \in Locks!Slots : t[old].time <= t[j].time
    BY <2>1, OldestIs
  <2> HIDE DEF old, t
  <2>4. \A i \in Locks!Slots :
           /\ webdav_lock'[i].user = t[i].user
           /\ webdav_lock'[i].path = IF i = old THEN NoPath ELSE t[i].path
    BY <1>6, <2>1, <2>3 DEF Entries, old
  <2>5. webdav_lock' \in [Locks!Slots -> Entries]
    BY <1>6, <2>1, <2>3 DEF Entries, old
  <2>6. \E i \in Locks!Slots : lock_index' = [lock_index EXCEPT ![w] = i]
    BY <1>6, <2>3 DEF old
  <2>7. Locks!OneOwner'
    BY <2>1, <2>2, <2>4 DEF LocksInv, Locks!OneOwner, Locks!Locked
  <2>8. Locks!KeptUntilExpired
    BY <2>1, <2>2, <2>3, <2>4 DEF Locks!KeptUntilExpired, Locks!Locked
  <2> QED BY <2>5, <2>6, <2>7, <2>8
<1> QED BY <1>3, <1>4, <1>5, <1>6 DEF Locks!Lock

LEMMA LocksInit == ASSUME LocksHypothesis PROVE Locks!Init => LocksInv
<1> SUFFICES ASSUME Locks!Init PROVE LocksInv
  OBVIOUS
<1>1. 0 \in 0 .. MaxTime /\ 0 \in 0 .. NumLocks /\ 0 \in Nat
  BY DEF LocksHypothesis, Locks!LocksAssumption
<1>2. LocksTyped
  BY <1>1 DEF Locks!Init, LocksTyped, Locks!TypeOK, Locks!Free, Locks!NoAnswer
<1>3. Locks!OneOwner
  BY DEF Locks!Init, Locks!OneOwner, Locks!Locked, Locks!Free
<1> QED BY <1>2, <1>3 DEF LocksInv

WorkerLocks(w) ==
    \/ Locks!Lock(w) \/ Locks!Respond(w) \/ Locks!Unlock(w) \/ Locks!Propfind(w)
    \/ Locks!Nothing(w) \/ Locks!NextRequest(w)

(* An answer is made from an entry of the table, or names none. *)
LEMMA AnswerTyped ==
    ASSUME LocksHypothesis, LocksInv, NEW w \in Workers, WorkerLocks(w)
    PROVE  /\ answer' \in [Workers -> [status : Nat, user : Users \cup {NoUser},
                                       path : Paths \cup {NoPath}, token : 0 .. MaxTime]]
           /\ pc' \in [Workers -> {"idle", "respond", "answered"}]
           /\ req' \in [Workers -> Locks!DavRequests]
           /\ pc'[w] = "idle" => answer'[w].status = 0
           /\ \A v \in Workers : v # w => pc'[v] = pc[v] /\ answer'[v] = answer[v]
<1>1. /\ answer \in [Workers -> [status : Nat, user : Users \cup {NoUser},
                                 path : Paths \cup {NoPath}, token : 0 .. MaxTime]]
      /\ pc \in [Workers -> {"idle", "respond", "answered"}]
      /\ req \in [Workers -> Locks!DavRequests]
      /\ webdav_lock \in [Locks!Slots -> Entries]
  BY DEF LocksInv, LocksTyped, Locks!TypeOK, Entries
<1>2. 0 \in 0 .. MaxTime /\ {0, 200, 204, 207, 423} \subseteq Nat
  BY DEF LocksHypothesis
<1>3. CASE Locks!Lock(w) \/ Locks!Unlock(w) \/ Locks!Nothing(w)
  BY SMTT(30), <1>1, <1>2, <1>3 DEF Locks!Lock, Locks!Unlock, Locks!Nothing, Locks!Answers, Locks!NoAnswer
<1>4. CASE Locks!Respond(w)
  <2>1. webdav_lock[lock_index[w]] \in Entries
    BY <1>1, <1>4 DEF Locks!Respond, LocksInv, LocksTyped
  <2> QED BY <1>1, <1>2, <1>4, <2>1 DEF Locks!Respond, Entries
<1>5. CASE Locks!Propfind(w)
  <2>1. Locks!At(webdav_lock, req[w].path) # {} =>
           webdav_lock[Locks!Min(Locks!At(webdav_lock, req[w].path))] \in Entries
    BY <1>1, MinOfSlots DEF Locks!At
  <2> QED BY <1>1, <1>2, <1>5, <2>1 DEF Locks!Propfind, Entries, Locks!NoAnswer
<1>6. CASE Locks!NextRequest(w)
  BY <1>1, <1>2, <1>6 DEF Locks!NextRequest, Locks!NoAnswer
<1> QED BY <1>3, <1>4, <1>5, <1>6 DEF WorkerLocks

LEMMA WorkerKeepsLocks ==
    ASSUME LocksHypothesis, LocksInv, NEW w \in Workers, WorkerLocks(w)
    PROVE  LocksInv' /\ Locks!KeptUntilExpired
<1>1. /\ lock_index \in [Workers -> 0 .. NumLocks] /\ now \in 0 .. MaxTime
      /\ webdav_lock \in [Locks!Slots -> Entries]
      /\ \A v \in Workers : pc[v] = "respond" => lock_index[v] \in Locks!Slots
      /\ pc \in [Workers -> {"idle", "respond", "answered"}]
  BY DEF LocksInv, LocksTyped, Locks!TypeOK, Entries
<1>2. 0 \in 0 .. NumLocks /\ Locks!Slots \subseteq 0 .. NumLocks
  BY DEF LocksHypothesis, Locks!LocksAssumption, Locks!Slots
<1>3. /\ webdav_lock' \in [Locks!Slots -> Entries] /\ Locks!OneOwner'
      /\ Locks!KeptUntilExpired
  <2>1. CASE Locks!Lock(w)
    BY <2>1, LockTable
  <2>2. CASE UNCHANGED webdav_lock
    BY <1>1, <2>2 DEF LocksInv, Locks!OneOwner, Locks!Locked, Locks!KeptUntilExpired
  <2> QED BY <2>1, <2>2 DEF WorkerLocks, Locks!Respond, Locks!Unlock, Locks!Propfind,
                          Locks!Nothing, Locks!NextRequest
<1>4. /\ lock_index' \in [Workers -> 0 .. NumLocks]
      /\ pc'[w] = "respond" => lock_index'[w] \in Locks!Slots
      /\ \A v \in Workers : v # w => lock_index'[v] = lock_index[v]
  <2>1. CASE Locks!Lock(w) /\ Locks!Refused(w)
    BY <1>1, <2>1 DEF Locks!Lock, Locks!Answers
  <2>2. CASE Locks!Lock(w) /\ ~ Locks!Refused(w)
    BY <1>1, <1>2, <2>2, LockTable
  <2>3. CASE UNCHANGED lock_index /\ pc'[w] = "answered"
    BY <1>1, <2>3
  <2>4. CASE Locks!NextRequest(w)
    BY <1>1, <1>2, <2>4 DEF Locks!NextRequest
  <2> QED BY <1>1, <2>1, <2>2, <2>3, <2>4
          DEF WorkerLocks, Locks!Respond, Locks!Unlock, Locks!Propfind, Locks!Nothing, Locks!Answers
<1>5. UNCHANGED now
  BY DEF WorkerLocks, Locks!Lock, Locks!Respond, Locks!Unlock, Locks!Propfind, Locks!Nothing,
         Locks!NextRequest
<1>6. LocksTyped'
  BY <1>1, <1>3, <1>4, <1>5, AnswerTyped DEF LocksInv, LocksTyped, Locks!TypeOK, Entries
<1> QED BY <1>3, <1>6 DEF LocksInv

LEMMA LocksStep ==
    ASSUME LocksHypothesis
    PROVE  LocksInv /\ [Locks!Next]_(Locks!vars)
             => LocksInv' /\ [Locks!KeptUntilExpired]_(Locks!vars)
<1> SUFFICES ASSUME LocksInv, [Locks!Next]_(Locks!vars)
             PROVE  LocksInv' /\ [Locks!KeptUntilExpired]_(Locks!vars)
  OBVIOUS
<1>1. CASE UNCHANGED Locks!vars
  BY <1>1 DEF Locks!vars, LocksInv, LocksTyped, Locks!TypeOK, Locks!OneOwner, Locks!Locked
<1>2. CASE Locks!Tick
  <2>1. now' \in 0 .. MaxTime
    BY <1>2 DEF Locks!Tick, LocksHypothesis, LocksInv, LocksTyped, Locks!TypeOK
  <2> QED BY <1>2, <2>1 DEF Locks!Tick, LocksInv, LocksTyped, Locks!TypeOK, Locks!OneOwner,
                            Locks!Locked, Locks!KeptUntilExpired
<1>3. ASSUME NEW w \in Workers, WorkerLocks(w)
      PROVE  LocksInv' /\ Locks!KeptUntilExpired
  BY <1>3, WorkerKeepsLocks
<1> QED BY <1>1, <1>2, <1>3 DEF Locks!Next, WorkerLocks

(* Nobody is refused a lock that nobody else holds. *)
LEMMA LocksRefuse ==
    ASSUME LocksHypothesis
    PROVE  LocksInv /\ [Locks!Next]_(Locks!vars) => [Locks!RefusedForCause]_(Locks!vars)
<1> SUFFICES ASSUME LocksInv, Locks!Next,
                    NEW w \in Workers, pc[w] = "idle", req[w].method = "LOCK", answer'[w].status = 423
             PROVE  \E i \in Locks!At(webdav_lock, req[w].path) :
                       webdav_lock[i].user # req[w].user /\ ~ Locks!Expired(i)
  BY DEF Locks!RefusedForCause
<1>1. /\ answer[w].status # 423
      /\ answer \in [Workers -> [status : Nat, user : Users \cup {NoUser},
                                  path : Paths \cup {NoPath}, token : 0 .. MaxTime]]
  BY DEF LocksInv, LocksTyped
<1>2. CASE Locks!Lock(w)
  <2>1. Locks!Refused(w)
    BY <1>1, <1>2 DEF Locks!Lock
  <2>2. Locks!Min(Locks!Decisive(w)) \in Locks!Decisive(w)
    BY <2>1, MinOfSlots DEF Locks!Refused, Locks!Decisive, Locks!At
  <2> QED BY <2>1, <2>2 DEF Locks!Refused, Locks!Decisive
<1>3. ASSUME NEW v \in Workers, v # w, WorkerLocks(v) PROVE FALSE
  BY <1>1, <1>3, AnswerTyped
<1>4. CASE Locks!Nothing(w)
  BY <1>1, <1>4 DEF Locks!Nothing, Locks!Answers, Locks!NoAnswer
<1>5. ~ Locks!Tick
  BY <1>1 DEF Locks!Tick
<1>6. ~ (Locks!Respond(w) \/ Locks!Unlock(w) \/ Locks!Propfind(w) \/ Locks!NextRequest(w))
  BY DEF Locks!Respond, Locks!Unlock, Locks!Propfind, Locks!NextRequest
<1>7. PICK v \in Workers : WorkerLocks(v)
  BY <1>5 DEF Locks!Next, WorkerLocks
<1> QED BY <1>2, <1>3, <1>4, <1>6, <1>7 DEF WorkerLocks

(* The types of the lock table, and that the answer to a LOCK is made from *)
(* a slot there is (dav_lock_file).                                        *)
THEOREM LockTypes == ASSUME LocksHypothesis PROVE Locks!Spec => []LocksTyped
<1>1. LocksInv => LocksTyped
  BY DEF LocksInv
<1> QED BY <1>1, LocksInit, LocksStep, PTL DEF Locks!Spec

(* However locks are refreshed, expire and are evicted, no path is locked  *)
(* by two users (dav_lock_file).                                           *)
THEOREM LockHasOneOwner == ASSUME LocksHypothesis PROVE Locks!Spec => []Locks!OneOwner
<1>1. LocksInv => Locks!OneOwner
  BY DEF LocksInv
<1> QED BY <1>1, LocksInit, LocksStep, PTL DEF Locks!Spec

(* A lock goes only when it has expired, or when the table is full and no  *)
(* lock is older; and nobody is refused a lock that nobody else holds      *)
(* (dav_lock_file).                                                        *)
THEOREM LocksFair ==
    ASSUME LocksHypothesis
    PROVE  Locks!Spec => /\ [][Locks!KeptUntilExpired]_(Locks!vars)
                         /\ [][Locks!RefusedForCause]_(Locks!vars)
BY LocksInit, LocksStep, LocksRefuse, PTL DEF Locks!Spec

-----------------------------------------------------------------------------
(* Output *)

(* OutputAssumption, and that there is a largest limit to be had: they are *)
(* numbers of a configuration.                                             *)
OutputHypothesis ==
    Out!OutputAssumption /\ \E b \in Nat : \A k \in Throttles : k <= b

(* The largest limit, as RateBounded names it. *)
Limit == CHOOSE m \in Throttles : \A k \in Throttles : k <= m

LEMMA LimitIs ==
    ASSUME OutputHypothesis, Throttles # {}
    PROVE  Limit \in Nat /\ \A k \in Throttles : k \in Nat /\ k <= Limit
<1> DEFINE B == {b \in Nat : \A k \in Throttles : k <= b}
<1>1. B \in SUBSET Nat /\ B # {}
  BY DEF OutputHypothesis
<1>2. PICK b \in B : \A c \in B : b <= c
  BY <1>1, LeastNat
<1>3. Throttles \subseteq Nat
  BY DEF OutputHypothesis, Out!OutputAssumption
<1>4. b \in Throttles
  <2> SUFFICES ASSUME b \notin Throttles PROVE FALSE
    OBVIOUS
  <2>1. PICK k \in Throttles : TRUE
    OBVIOUS
  <2>2. \A j \in Throttles : j <= b - 1
    BY <1>2, <1>3
  <2>3. b - 1 \in B
    BY <1>2, <1>3, <2>1, <2>2
  <2> QED BY <1>2, <2>3
<1>5. \E m \in Throttles : \A k \in Throttles : k <= m
  BY <1>2, <1>4
<1> QED BY <1>3, <1>5 DEF Limit

(* TypeOK, and what it leaves out. *)
OutTyped ==
    /\ Out!TypeOK
    /\ throttle \in Throttles /\ last_bytes \in Nat
    /\ job \in [len : Nat, total : Nat, allowed : Int] /\ chunk \in Seq(Nat)
    /\ stop \in BOOLEAN /\ broken \in BOOLEAN
    /\ sent \in Nat /\ ret \in Int /\ out \in Nat

(* What of a write is sent, told from where mg_write is. *)
OutPlaces ==
    /\ pc = "plain" => throttle = 0 /\ out = 0 /\ job.total = 0 /\ job.allowed = job.len
    /\ pc = "first" =>
         /\ throttle > 0 /\ out = 0 /\ job.total = 0
         /\ job.allowed + last_bytes <= throttle /\ job.allowed <= job.len
    /\ pc = "loop" => throttle > 0 /\ out = job.total
    /\ pc = "sleep" =>
         /\ throttle > 0 /\ out = job.total + job.allowed
         /\ job.allowed \in 0 .. throttle /\ job.total + job.allowed <= job.len
    /\ pc \in {"waiting", "return"} /\ ret = job.len => out = job.len

Rests == pc \in {"sleep", "waiting"}

(* What has been sent in this second.  Until a write begins in it (fresh), *)
(* the rest of one that began before; then as much again as last_bytes     *)
(* says; a round of the loop comes on top, and the thread sleeps after it, *)
(* as it waits after a push that times out.  Where the connection is       *)
(* broken or the server stops, nothing follows.                            *)
Account ==
    /\ last_bytes <= Limit /\ sent <= 3 * Limit
    /\ Rests /\ due => sent = 0
    /\ ~broken /\ ~stop =>
         /\ fresh /\ pc = "first" => sent = 0
         /\ fresh /\ ~Rests => sent <= Limit
         /\ ~fresh /\ ~Rests => sent <= Limit + last_bytes

OutInv == OutTyped /\ OutPlaces /\ Account

LEMMA OutLimit ==
    ASSUME OutputHypothesis, OutTyped
    PROVE  Limit \in Nat /\ \A k \in Throttles : k \in Nat /\ k <= Limit
BY LimitIs DEF OutTyped

LEMMA OutInit == ASSUME OutputHypothesis PROVE Out!Init => OutInv
<1> SUFFICES ASSUME Out!Init PROVE OutInv
  OBVIOUS
<1>1. Limit \in Nat
  BY LimitIs DEF Out!Init
<1>2. OutTyped
  <2>1. fresh \in BOOLEAN /\ due \in BOOLEAN /\ stop \in BOOLEAN /\ broken \in BOOLEAN
    BY DEF Out!Init
  <2>2. job \in [len : Nat, total : Nat, allowed : Int] /\ chunk \in Seq(Nat)
    BY DEF Out!Init
  <2>3. /\ last_bytes \in Nat /\ sent \in Nat /\ out \in Nat /\ ret \in Int /\ ret >= -1
        /\ job.total \in 0 .. job.len /\ throttle \in Throttles
        /\ pc \in {"handler", "first", "plain", "loop", "sleep", "waiting", "return"} /\ last_bytes >= 0
    BY DEF Out!Init
  <2> QED BY <2>1, <2>2, <2>3 DEF OutTyped, Out!TypeOK
<1>3. OutPlaces /\ Account
  BY <1>1 DEF Out!Init, OutPlaces, Account, Rests
<1> QED BY <1>2, <1>3 DEF OutInv

(* What push_all may return. *)
LEMMA PushAllIs ==
    ASSUME OutTyped, NEW len \in Int, NEW n \in Out!PushAll(len)
    PROVE  /\ n \in Int /\ n >= -1 /\ Out!Bytes(n) \in Nat
           /\ n > 0 => n <= len /\ ~stop /\ ~broken /\ Out!Bytes(n) = n
           /\ n <= 0 => Out!Bytes(n) = 0
           /\ len <= 0 => n = 0
BY DEF Out!PushAll, Out!Bytes, OutTyped

LEMMA BeginKeeps ==
    ASSUME OutputHypothesis, OutInv, pc = "handler", NEW len \in Nat, Out!Begin(len),
           chunk' \in Seq(Nat)
    PROVE  OutInv'
<1>1. Limit \in Nat /\ throttle \in Nat /\ throttle <= Limit
  BY OutLimit DEF OutInv, OutTyped
<1>2. throttle' = throttle /\ out' = 0 /\ UNCHANGED <<broken, sent, ret, due, requests, stop>>
  BY DEF Out!Begin, Out!Elsewhere
<1>3. CASE throttle > 0
  <2>1. /\ last_bytes' = IF fresh THEN 0 ELSE last_bytes
        /\ fresh' = FALSE /\ pc' = "first"
        /\ job' = [len |-> len, total |-> 0, allowed |-> Out!Allowed(len, last_bytes')]
    BY <1>3 DEF Out!Begin
  <2>2. last_bytes' \in Nat /\ last_bytes' <= Limit
    BY <1>1, <2>1 DEF OutInv, OutTyped, Account
  <2> DEFINE allowed(b) == Out!Allowed(len, b)
  <2>3. \A b \in Nat :
           allowed(b) \in Int /\ allowed(b) + b <= throttle /\ allowed(b) <= len
    BY <1>1 DEF Out!Allowed, Out!Smaller
  <2>4. PICK a \in Int : a = allowed(last_bytes') /\ a + last_bytes' <= throttle /\ a <= len
    <3> HIDE DEF allowed
    <3> QED BY <2>2, <2>3
  <2>5. job' = [len |-> len, total |-> 0, allowed |-> a] /\ 0 \in 0 .. len
    BY <2>1, <2>4
  <2>6. OutTyped'
    <3>1. fresh' \in BOOLEAN
      BY <2>1
    <3>2. job' \in [len : Nat, total : Nat, allowed : Int] /\ job'.total \in 0 .. job'.len
      BY <2>5
    <3>3. pc' \in {"handler", "first", "plain", "loop", "sleep", "waiting", "return"} /\ last_bytes' >= 0
      BY <2>1, <2>2
    <3> QED BY <1>2, <2>2, <3>1, <3>2, <3>3 DEF OutInv, OutTyped, Out!TypeOK
  <2>7. OutPlaces'
    BY <1>2, <1>3, <2>1, <2>4, <2>5 DEF OutPlaces
  <2>8. Account'
    BY <1>1, <1>2, <2>1, <2>2 DEF OutInv, OutTyped, Account, Rests, Limit
  <2> QED BY <2>6, <2>7, <2>8 DEF OutInv
<1>4. CASE ~ (throttle > 0)
  BY <1>1, <1>2, <1>4 DEF Out!Begin, OutInv, OutTyped, Out!TypeOK, OutPlaces, Account, Rests, Limit
<1> QED BY <1>3, <1>4

(* What a push of the bytes that are allowed does to the account. *)
LEMMA PushedIs ==
    ASSUME OutputHypothesis, OutInv, NEW len \in Int, NEW n \in Out!PushAll(len),
           Out!Pushed(n)
    PROVE  /\ n \in Int /\ n >= -1
           /\ len <= 0 => n = 0
           /\ sent' \in Nat /\ out' \in Nat
           /\ n <= 0 => sent' = sent /\ out' = out
           /\ n > 0 => n <= len /\ ~ stop /\ ~ broken /\ out' = out + n
           /\ n > 0 /\ throttle > 0 => sent' = sent + n
           /\ ~ (throttle > 0) => sent' = sent
<1>1. /\ n \in Int /\ n >= -1 /\ Out!Bytes(n) \in Nat
      /\ n > 0 => n <= len /\ ~ stop /\ ~ broken /\ Out!Bytes(n) = n
      /\ n <= 0 => Out!Bytes(n) = 0
      /\ len <= 0 => n = 0
  BY PushAllIs DEF OutInv
<1>2. sent \in Nat /\ out \in Nat
  BY DEF OutInv, OutTyped
<1>3. /\ sent' = sent + (IF throttle > 0 THEN Out!Bytes(n) ELSE 0)
      /\ out' = out + Out!Bytes(n)
  BY DEF Out!Pushed
<1> QED BY <1>1, <1>2, <1>3

(* A push that falls short breaks the connection or waits.  The last line  *)
(* is what the account needs of it.                                        *)
LEMMA EndsIs ==
    ASSUME OutTyped, NEW n \in Int, NEW len \in Int, NEW k \in Int, Out!Ends(n, len, k)
    PROVE  /\ ret' = k /\ pc' \in {"waiting", "return"}
           /\ broken' \in BOOLEAN /\ due' \in BOOLEAN
           /\ broken => broken'
           /\ pc' = "waiting" => ~ due'
           /\ n < len => broken' \/ stop \/ pc' = "waiting"
<1>1. broken \in BOOLEAN /\ due \in BOOLEAN
  BY DEF OutTyped, Out!TypeOK
<1>2. CASE n < len /\ ~ stop
  BY <1>1, <1>2 DEF Out!Ends, Out!Return
<1>3. CASE ~ (n < len /\ ~ stop)
  BY <1>1, <1>3 DEF Out!Ends, Out!Return
<1> QED BY <1>2, <1>3

LEMMA PlainKeeps ==
    ASSUME OutputHypothesis, OutInv, Out!PushPlain PROVE OutInv'
<1>1. PICK n \in Out!PushAll(job.allowed) :
         /\ Out!Pushed(n) /\ Out!Ends(n, job.allowed, n)
         /\ job' = [job EXCEPT !.total = Out!Bytes(n)]
  BY DEF Out!PushPlain
<1>2. /\ UNCHANGED <<throttle, fresh, last_bytes, chunk, stop>> /\ pc = "plain"
  BY DEF Out!PushPlain
<1>3. job \in [len : Nat, total : Nat, allowed : Int] /\ job.allowed = job.len /\ out = 0
      /\ throttle = 0
  BY <1>2 DEF OutInv, OutTyped, OutPlaces
<1>4. /\ n \in Int /\ n >= -1 /\ sent' = sent /\ out' \in Nat
      /\ n > 0 => n <= job.len /\ out' = n
      /\ n <= 0 => out' = 0
  BY <1>1, <1>3, PushedIs
<1>10. /\ ret' = n /\ pc' \in {"waiting", "return"}
       /\ broken' \in BOOLEAN /\ due' \in BOOLEAN
       /\ broken => broken'
       /\ pc' = "waiting" => ~ due'
  BY <1>1, <1>3, <1>4, EndsIs DEF OutInv
<1>5. Out!Bytes(n) \in 0 .. job.len
  BY <1>3, <1>4 DEF Out!Bytes
<1>6. job' \in [len : Nat, total : Nat, allowed : Int] /\ job'.total \in 0 .. job'.len
      /\ job'.len = job.len
  BY <1>1, <1>3, <1>5
<1>7. OutTyped'
  BY <1>2, <1>4, <1>6, <1>10 DEF OutInv, OutTyped, Out!TypeOK
<1>8. OutPlaces'
  BY <1>3, <1>4, <1>6, <1>10 DEF OutPlaces
<1>9. Account'
  BY <1>2, <1>4, <1>10 DEF OutInv, Account, Rests, Limit
<1> QED BY <1>7, <1>8, <1>9 DEF OutInv

LEMMA FirstKeeps ==
    ASSUME OutputHypothesis, OutInv, Out!PushFirst PROVE OutInv'
<1>1. PICK n \in Out!PushAll(job.allowed) :
         /\ Out!Pushed(n)
         /\ IF n = job.allowed
            THEN /\ last_bytes' = last_bytes + n /\ job' = [job EXCEPT !.total = n]
                 /\ pc' = "loop" /\ UNCHANGED <<ret, broken, due>>
            ELSE Out!Ends(n, job.allowed, n) /\ UNCHANGED <<last_bytes, job>>
  BY DEF Out!PushFirst
<1>2. UNCHANGED <<throttle, fresh, chunk, stop>> /\ pc = "first"
  BY DEF Out!PushFirst
<1>3. /\ job \in [len : Nat, total : Nat, allowed : Int] /\ out = 0 /\ job.total = 0
      /\ throttle > 0 /\ throttle \in Nat /\ last_bytes \in Nat /\ last_bytes <= Limit
      /\ throttle <= Limit /\ Limit \in Nat /\ sent <= 3 * Limit /\ sent \in Nat
      /\ job.allowed + last_bytes <= throttle /\ job.allowed <= job.len
      /\ ~ broken /\ ~ stop =>
           /\ fresh => sent = 0
           /\ ~ fresh => sent <= Limit + last_bytes
      /\ ret \in Int /\ ret >= -1 /\ broken \in BOOLEAN /\ due \in BOOLEAN
  BY <1>2, OutLimit DEF OutInv, OutTyped, OutPlaces, Account, Rests, Out!TypeOK
<1>4. /\ n \in Int /\ n >= -1 /\ sent' \in Nat /\ out' \in Nat
      /\ job.allowed <= 0 => n = 0
      /\ n <= 0 => sent' = sent /\ out' = out
      /\ n > 0 => n <= job.allowed /\ ~ stop /\ ~ broken /\ out' = out + n /\ sent' = sent + n
  BY <1>1, <1>3, PushedIs
<1>5. sent' <= 3 * Limit
  BY <1>3, <1>4
<1>6. CASE n = job.allowed
  <2>1. n \in Nat
    BY <1>4, <1>6
  <2>2. /\ last_bytes' = last_bytes + n /\ job' = [job EXCEPT !.total = n]
        /\ pc' = "loop" /\ UNCHANGED <<ret, broken, due>>
    BY <1>1, <1>6
  <2>3. /\ job' \in [len : Nat, total : Nat, allowed : Int] /\ job'.total \in 0 .. job'.len
        /\ job'.total = n
    BY <1>3, <1>6, <2>1, <2>2
  <2>4. last_bytes' \in Nat /\ last_bytes' <= Limit
    BY <1>3, <1>6, <2>1, <2>2
  <2>5. OutTyped'
    BY <1>2, <1>3, <1>4, <2>2, <2>3, <2>4 DEF OutInv, OutTyped, Out!TypeOK
  <2>6. OutPlaces'
    BY <1>2, <1>3, <1>4, <2>1, <2>2, <2>3 DEF OutPlaces
  <2>7. ~ broken' /\ ~ stop' =>
          /\ fresh' => sent' <= Limit
          /\ ~ fresh' => sent' <= Limit + last_bytes'
    BY <1>2, <1>3, <1>4, <1>6, <2>1, <2>2
  <2>8. Account'
    BY <1>5, <2>2, <2>4, <2>7 DEF Account, Rests, Limit
  <2> QED BY <2>5, <2>6, <2>8 DEF OutInv
<1>7. CASE n # job.allowed
  <2>1. Out!Ends(n, job.allowed, n) /\ UNCHANGED <<last_bytes, job>>
    BY <1>1, <1>7
  <2>6. /\ ret' = n /\ pc' \in {"waiting", "return"}
        /\ broken' \in BOOLEAN /\ due' \in BOOLEAN
        /\ broken => broken'
        /\ pc' = "waiting" => ~ due'
        /\ n < job.allowed => broken' \/ stop \/ pc' = "waiting"
    BY <1>3, <1>4, <2>1, EndsIs DEF OutInv
  <2>2. OutTyped'
    BY <1>2, <1>4, <2>1, <2>6 DEF OutInv, OutTyped, Out!TypeOK
  <2>3. OutPlaces'
    BY <1>3, <1>4, <2>1, <2>6 DEF OutPlaces
  <2>4. ~ broken' /\ ~ stop' /\ pc' # "waiting" =>
          /\ fresh' => sent' <= Limit
          /\ ~ fresh' => sent' <= Limit + last_bytes'
    BY <1>2, <1>3, <1>4, <1>7, <2>1, <2>6
  <2>5. Account'
    BY <1>3, <1>5, <2>1, <2>4, <2>6 DEF Account, Rests, Limit
  <2> QED BY <2>2, <2>3, <2>5 DEF OutInv
<1> QED BY <1>6, <1>7

LEMMA MoreKeeps ==
    ASSUME OutputHypothesis, OutInv, Out!PushMore PROVE OutInv'
<1> DEFINE allowed == Out!Smaller(throttle, job.len - job.total)
<1>1. PICK n \in Out!PushAll(allowed) :
         /\ Out!Pushed(n)
         /\ IF n = allowed
            THEN /\ job' = [job EXCEPT !.allowed = allowed] /\ pc' = "sleep"
                 /\ due' = FALSE /\ UNCHANGED <<ret, broken>>
            ELSE Out!Ends(n, allowed, job.total) /\ UNCHANGED job
  BY DEF Out!PushMore
<1>2. /\ UNCHANGED <<throttle, fresh, last_bytes, chunk, stop>> /\ pc = "loop"
      /\ job.total < job.len /\ ~ stop
  BY DEF Out!PushMore
<1>3. /\ job \in [len : Nat, total : Nat, allowed : Int] /\ out = job.total
      /\ throttle > 0 /\ throttle \in Nat /\ last_bytes \in Nat /\ last_bytes <= Limit
      /\ throttle <= Limit /\ Limit \in Nat /\ sent <= 3 * Limit /\ sent \in Nat
      /\ ~ broken => sent <= Limit + last_bytes
      /\ ret \in Int /\ ret >= -1 /\ broken \in BOOLEAN
  BY <1>2, OutLimit DEF OutInv, OutTyped, OutPlaces, Account, Rests, Out!TypeOK
<1>4. allowed \in 1 .. throttle /\ job.total + allowed <= job.len
  BY <1>2, <1>3 DEF Out!Smaller
<1> HIDE DEF allowed
<1>5. /\ n \in Int /\ n >= -1 /\ sent' \in Nat /\ out' \in Nat
      /\ n <= 0 => sent' = sent /\ out' = out
      /\ n > 0 => n <= allowed /\ ~ broken /\ out' = out + n /\ sent' = sent + n
  BY <1>1, <1>2, <1>3, <1>4, PushedIs
<1>6. sent' <= 3 * Limit
  BY <1>3, <1>4, <1>5
<1>7. CASE n = allowed
  <2>1. job' = [job EXCEPT !.allowed = allowed] /\ pc' = "sleep" /\ due' = FALSE
        /\ UNCHANGED <<ret, broken>>
    BY <1>1, <1>7
  <2>2. due' \in BOOLEAN /\ ~ due'
    BY <2>1
  <2>3. /\ job' \in [len : Nat, total : Nat, allowed : Int]
        /\ job'.allowed = allowed /\ job'.total = job.total /\ job'.len = job.len
    BY <1>3, <1>4, <2>1
  <2>4. OutTyped'
    BY <1>2, <1>3, <1>5, <2>1, <2>2, <2>3 DEF OutInv, OutTyped, Out!TypeOK
  <2>5. OutPlaces'
    BY <1>2, <1>3, <1>4, <1>5, <1>7, <2>1, <2>3 DEF OutPlaces
  <2>6. Account'
    BY <1>2, <1>3, <1>6, <2>1, <2>2 DEF Account, Rests, Limit
  <2> QED BY <2>4, <2>5, <2>6 DEF OutInv
<1>8. CASE n # allowed
  <2>1. Out!Ends(n, allowed, job.total) /\ UNCHANGED job
    BY <1>1, <1>8
  <2>2. /\ ret' = job.total /\ pc' \in {"waiting", "return"}
        /\ broken' \in BOOLEAN /\ due' \in BOOLEAN
        /\ pc' = "waiting" => ~ due'
        /\ broken' \/ pc' = "waiting"
    BY <1>2, <1>3, <1>4, <1>5, <1>8, <2>1, EndsIs DEF OutInv
  <2>3. OutTyped'
    BY <1>2, <1>3, <1>5, <2>1, <2>2 DEF OutInv, OutTyped, Out!TypeOK
  <2>4. OutPlaces'
    BY <1>2, <1>3, <2>1, <2>2 DEF OutPlaces
  <2>5. Account'
    BY <1>2, <1>3, <1>6, <2>1, <2>2 DEF Account, Rests, Limit
  <2> QED BY <2>3, <2>4, <2>5 DEF OutInv
<1> QED BY <1>7, <1>8

LEMMA AwakeKeeps ==
    ASSUME OutputHypothesis, OutInv, Out!Awake PROVE OutInv'
<1>1. /\ pc = "sleep" /\ due /\ last_bytes' = job.allowed /\ fresh' = FALSE /\ pc' = "loop"
      /\ job' = [job EXCEPT !.total = @ + job.allowed]
      /\ UNCHANGED <<throttle, chunk, broken, sent, ret, out, due, stop>>
  BY DEF Out!Awake, Out!Elsewhere
<1>2. /\ job \in [len : Nat, total : Nat, allowed : Int]
      /\ job.allowed \in 0 .. throttle /\ job.total + job.allowed <= job.len
      /\ out = job.total + job.allowed /\ throttle > 0 /\ sent = 0
      /\ throttle \in Nat /\ throttle <= Limit /\ Limit \in Nat
  BY <1>1, OutLimit DEF OutInv, OutTyped, OutPlaces, Account, Rests
<1>3. /\ job' \in [len : Nat, total : Nat, allowed : Int]
      /\ job'.total = job.total + job.allowed /\ job'.len = job.len
  BY <1>1, <1>2
<1>4. fresh' \in BOOLEAN /\ ~ fresh'
  BY <1>1
<1>5. last_bytes' \in Nat /\ last_bytes' <= Limit
  BY <1>1, <1>2
<1>6. job'.total \in 0 .. job'.len
  BY <1>2, <1>3
<1>7. OutTyped'
  BY <1>1, <1>3, <1>4, <1>5, <1>6 DEF OutInv, OutTyped, Out!TypeOK
<1>8. OutPlaces'
  BY <1>1, <1>2, <1>3 DEF OutPlaces
<1>9. Account'
  BY <1>1, <1>2, <1>4, <1>5 DEF OutInv, Account, Rests, Limit
<1> QED BY <1>7, <1>8, <1>9 DEF OutInv

LEMMA ReturnKeeps ==
    ASSUME OutputHypothesis, OutInv, Out!TimedOut \/ Out!EndLoop \/ Out!Returned
    PROVE  OutInv'
<1>1. CASE Out!EndLoop
  <2>1. /\ pc = "loop" /\ ret' = job.total /\ pc' = "return"
        /\ UNCHANGED <<throttle, fresh, last_bytes, job, chunk, broken, sent, out, due, stop>>
    BY <1>1 DEF Out!EndLoop, Out!Return, Out!Elsewhere
  <2>2. ret' \in Int /\ ret' >= -1
    BY <2>1 DEF OutInv, OutTyped
  <2> QED BY <2>1, <2>2 DEF OutInv, OutTyped, Out!TypeOK, OutPlaces, Account, Rests, Limit
<1>2. CASE Out!Returned
  BY <1>2 DEF Out!Returned, Out!Elsewhere, OutInv, OutTyped, Out!TypeOK, OutPlaces, Account, Rests,
       Limit
<1>3. CASE Out!TimedOut
  <2>1. /\ pc = "waiting" /\ (due \/ stop) /\ pc' = "return"
        /\ UNCHANGED <<throttle, fresh, last_bytes, job, chunk, broken, sent, ret, out, due, stop>>
    BY <1>3 DEF Out!TimedOut, Out!Elsewhere
  <2>2. Limit \in Nat /\ last_bytes \in Nat
    BY OutLimit DEF OutInv, OutTyped
  <2>3. OutTyped' /\ OutPlaces'
    BY <2>1 DEF OutInv, OutTyped, Out!TypeOK, OutPlaces
  <2>4. Account'
    BY <2>1, <2>2 DEF OutInv, Account, Rests, Limit
  <2> QED BY <2>3, <2>4 DEF OutInv
<1> QED BY <1>1, <1>2, <1>3

LEMMA HandlerKeeps ==
    ASSUME OutputHypothesis, OutInv,
           Out!Write \/ Out!SendChunk \/ Out!Continue \/ Out!Abandon \/ Out!NextRequest
    PROVE  OutInv'
<1>1. chunk \in Seq(Nat) /\ Lengths \subseteq Nat
  BY DEF OutInv, OutTyped, OutputHypothesis, Out!OutputAssumption
<1>2. CASE Out!Write
  BY <1>1, <1>2, BeginKeeps DEF Out!Write
<1>3. CASE Out!SendChunk
  <2>1. PICK len \in Lengths : chunk' = <<len, 2>>
    BY <1>3 DEF Out!SendChunk
  <2>2. chunk' \in Seq(Nat)
    BY <1>1, <2>1
  <2> QED BY <1>3, <2>2, BeginKeeps DEF Out!SendChunk
<1>4. CASE Out!Continue
  <2>1. Head(chunk) \in Nat /\ Tail(chunk) \in Seq(Nat)
    BY <1>1, <1>4 DEF Out!Continue
  <2> QED BY <1>4, <2>1, BeginKeeps DEF Out!Continue
<1>5. CASE Out!Abandon
  BY <1>5 DEF Out!Abandon, Out!Elsewhere, OutInv, OutTyped, Out!TypeOK, OutPlaces, Account, Rests,
       Limit
<1>6. CASE Out!NextRequest
  BY <1>6 DEF Out!NextRequest, OutInv, OutTyped, Out!TypeOK, OutPlaces, Account, Rests, Limit
<1> QED BY <1>2, <1>3, <1>4, <1>5, <1>6

LEMMA WorldKeeps ==
    ASSUME OutputHypothesis, OutInv, Out!Tick \/ Out!Stop PROVE OutInv'
<1>1. CASE Out!Tick
  <2>1. /\ fresh' \in BOOLEAN /\ due' \in BOOLEAN /\ fresh'
    BY <1>1 DEF Out!Tick
  <2>2. sent' = 0 /\ Limit \in Nat
    BY <1>1, OutLimit DEF Out!Tick, OutInv
  <2>3. UNCHANGED <<throttle, last_bytes, job, chunk, stop, broken, pc, ret, out>>
    BY <1>1 DEF Out!Tick
  <2> QED BY <2>1, <2>2, <2>3 DEF OutInv, OutTyped, Out!TypeOK, OutPlaces, Account, Rests, Limit
<1>2. CASE Out!Stop
  <2>1. stop' \in BOOLEAN /\ stop'
    BY <1>2 DEF Out!Stop
  <2> QED BY <1>2, <2>1 DEF Out!Stop, OutInv, OutTyped, Out!TypeOK, OutPlaces, Account, Rests, Limit
<1> QED BY <1>1, <1>2

LEMMA OutStep ==
    ASSUME OutputHypothesis PROVE OutInv /\ [Out!Next]_(Out!vars) => OutInv'
<1> SUFFICES ASSUME OutInv, [Out!Next]_(Out!vars) PROVE OutInv'
  OBVIOUS
<1>1. CASE UNCHANGED Out!vars
  BY <1>1 DEF Out!vars, OutInv, OutTyped, Out!TypeOK, OutPlaces, Account, Rests, Limit
<1>2. CASE Out!MgWrite
  BY <1>2, PlainKeeps, FirstKeeps, MoreKeeps, AwakeKeeps, ReturnKeeps DEF Out!MgWrite
<1> QED BY <1>1, <1>2, HandlerKeeps, WorldKeeps DEF Out!Next

(* The types of mg_write's state: no more is counted as sent than there is. *)
THEOREM OutputTypes == ASSUME OutputHypothesis PROVE Out!Spec => []OutTyped
<1>1. OutInv => OutTyped
  BY DEF OutInv
<1> QED BY <1>1, OutInit, OutStep, PTL DEF Out!Spec

(* In no second more than three times the largest limit leaves the         *)
(* connection, whatever the lengths of the writes and however they fall    *)
(* into seconds (mg_write).                                                *)
THEOREM OutputRate == ASSUME OutputHypothesis PROVE Out!Spec => []Out!RateBounded
<1>1. OutInv => Out!RateBounded
  BY DEF OutInv, Account, Rests, Limit, Out!RateBounded
<1> QED BY <1>1, OutInit, OutStep, PTL DEF Out!Spec

(* A write that returns its length has sent each byte of it, once          *)
(* (mg_write, push_all).                                                   *)
THEOREM OutputSent == ASSUME OutputHypothesis PROVE Out!Spec => []Out!WrittenIsSent
<1>1. OutInv => Out!WrittenIsSent
  BY DEF OutInv, OutPlaces, Out!WrittenIsSent
<1> QED BY <1>1, OutInit, OutStep, PTL DEF Out!Spec

-----------------------------------------------------------------------------
(* Cgi *)

(* CgiAssumption, and what the constant says of a program. *)
CgiHypothesis ==
    /\ Gateway!CgiAssumption
    /\ Programs \subseteq [reads : {"all", "each", "none"}, outs : Nat, errs : Nat, head : BOOLEAN, status : {0, 1}]

Preparing == {"prepare", "pipe"}
Spawning == {"spawn", "mark", "close"}
Serving == {"mark", "close", "fdopen", "forward", "closein", "head", "stderr", "send"}
Ending == {"done", "kill", "wait", "cleanup"}

Jobs == [pc : Preparing \cup Spawning \cup Serving \cup Ending \cup {"end"}, body : Nat,
         fd : SUBSET Gateway!Ends, open : SUBSET Gateway!Ends, marked : SUBSET Gateway!Ends,
         file : SUBSET Gateway!Files, fed : Nat, got : Nat, sent : Nat, answers : Nat]
Progs == [kind : Programs, state : {"none", "running", "zombie", "reaped"},
          held : SUBSET (Workers \X Gateway!Ends), taken : Nat, eof : BOOLEAN, wrote : Nat, erred : Nat]
PipesOf == [in : 0 .. PipeSize, out : 0 .. PipeSize, err : 0 .. PipeSize]

CgiTyped ==
    /\ job \in [Workers -> Jobs] /\ prog \in [Workers -> Progs] /\ pipe \in [Workers -> PipesOf]
    /\ twice \in BOOLEAN /\ stray \in BOOLEAN

(* Which descriptors the request j has open at each step: what it will     *)
(* close is what is open.                                                  *)
Opened(j) ==
    /\ j.pc \in Preparing => j.open = {} /\ j.file = {}
    /\ j.pc \in Spawning => j.open = Gateway!Ends /\ j.file = {}
    /\ j.pc = "fdopen" => j.open = Gateway!Files /\ j.file = {}
    /\ j.pc \in {"forward", "closein"} => j.open = Gateway!Files /\ j.file = Gateway!Files
    /\ j.pc \in {"head", "stderr", "send"} => j.open = Gateway!Files \ {"in1"} /\ j.file = j.open
    /\ j.pc # "end" => j.fd = j.open /\ j.file \subseteq j.open
    /\ j.pc = "end" => j.open = {}

(* What has become of its program p, and of the answer. *)
Spawned(j, p) ==
    /\ j.pc \in {"prepare", "pipe", "spawn"} => p.state = "none"
    /\ j.pc \in Serving => p.state \in {"running", "zombie"}
    /\ j.pc = "done" => p.state # "reaped"
    /\ j.pc = "kill" => p.state # "none"
    /\ j.pc = "wait" => p.state \in {"zombie", "reaped"}
    /\ j.pc \in {"cleanup", "end"} => p.state \in {"none", "reaped"}
AnswersOf(j, p) ==
    /\ j.pc \notin Ending \cup {"send", "end"} => j.answers = 0
    /\ j.pc = "send" => j.answers = 1
    /\ j.pc \in Ending \cup {"end"} => j.answers = 1 \/ (j.answers = 0 /\ "env" \in Faults /\ p.state = "none")

(* Where each block is: in a pipe q, read, or sent. *)
Counted(w, j, p, q) ==
    /\ p.state = "none" => p.wrote = 0 /\ p.taken = 0 /\ ~p.eof
    /\ p.state = "running" => <<w, "out1">> \in p.held
    /\ j.pc # "end" => j.got + q.out = p.wrote /\ p.taken + q.in = j.fed
    /\ p.eof => q.in = 0 /\ "in1" \notin j.open
    /\ p.kind.reads = "all" /\ p.wrote > 0 => p.eof
    /\ j.pc \notin Ending \cup {"send", "end"} => j.sent = 0
    /\ j.pc = "send" => j.sent = j.got
    /\ j.pc \in Ending /\ j.sent > 0 /\ "gone" \notin Faults => j.sent = j.got /\ q.out = 0 /\ p.state # "running"
    /\ j.pc \in Preparing \cup Spawning \cup {"fdopen"} => j.fed = 0
    /\ j.pc \in {"closein", "head", "stderr", "send"} \/ (j.pc \in Ending /\ j.sent > 0) =>
         j.fed = j.body \/ "timeout" \in Faults

Fine(w, j, p, q) ==
    /\ j \in Jobs /\ p \in Progs /\ q \in PipesOf
    /\ Opened(j) /\ Spawned(j, p) /\ AnswersOf(j, p) /\ Counted(w, j, p, q)

CgiInv ==
    /\ CgiTyped /\ ~twice
    /\ \A w \in Workers : Fine(w, job[w], prog[w], pipe[w])

(* The assignment to some of the fields, field by field. *)
LEMMA WithJob ==
    ASSUME NEW r, NEW s \in Jobs, NEW k, k = Gateway!With(r, s)
    PROVE  /\ k = [pc |-> k.pc, body |-> k.body, fd |-> k.fd, open |-> k.open, marked |-> k.marked, file |-> k.file, fed |-> k.fed, got |-> k.got, sent |-> k.sent, answers |-> k.answers]
           /\ k.pc = IF "pc" \in DOMAIN r THEN r.pc ELSE s.pc
           /\ k.body = IF "body" \in DOMAIN r THEN r.body ELSE s.body
           /\ k.fd = IF "fd" \in DOMAIN r THEN r.fd ELSE s.fd
           /\ k.open = IF "open" \in DOMAIN r THEN r.open ELSE s.open
           /\ k.marked = IF "marked" \in DOMAIN r THEN r.marked ELSE s.marked
           /\ k.file = IF "file" \in DOMAIN r THEN r.file ELSE s.file
           /\ k.fed = IF "fed" \in DOMAIN r THEN r.fed ELSE s.fed
           /\ k.got = IF "got" \in DOMAIN r THEN r.got ELSE s.got
           /\ k.sent = IF "sent" \in DOMAIN r THEN r.sent ELSE s.sent
           /\ k.answers = IF "answers" \in DOMAIN r THEN r.answers ELSE s.answers
BY DEF Gateway!With, Jobs

LEMMA WithProg ==
    ASSUME NEW r, NEW s \in Progs, NEW k, k = Gateway!With(r, s)
    PROVE  /\ k = [kind |-> k.kind, state |-> k.state, held |-> k.held, taken |-> k.taken, eof |-> k.eof, wrote |-> k.wrote, erred |-> k.erred]
           /\ k.kind = IF "kind" \in DOMAIN r THEN r.kind ELSE s.kind
           /\ k.state = IF "state" \in DOMAIN r THEN r.state ELSE s.state
           /\ k.held = IF "held" \in DOMAIN r THEN r.held ELSE s.held
           /\ k.taken = IF "taken" \in DOMAIN r THEN r.taken ELSE s.taken
           /\ k.eof = IF "eof" \in DOMAIN r THEN r.eof ELSE s.eof
           /\ k.wrote = IF "wrote" \in DOMAIN r THEN r.wrote ELSE s.wrote
           /\ k.erred = IF "erred" \in DOMAIN r THEN r.erred ELSE s.erred
BY DEF Gateway!With, Progs

(* A step of w's request or of its program touches nothing of another's.   *)
LEMMA OneWorker ==
    ASSUME CgiInv, NEW w \in Workers, NEW j, NEW p, NEW q, Fine(w, j, p, q),
           job' = [job EXCEPT ![w] = j], prog' = [prog EXCEPT ![w] = p], pipe' = [pipe EXCEPT ![w] = q],
           twice' = FALSE, stray' \in BOOLEAN
    PROVE  CgiInv'
<1>1. j \in Jobs /\ p \in Progs /\ q \in PipesOf
  BY DEF Fine
<1>2. /\ job' \in [Workers -> Jobs] /\ prog' \in [Workers -> Progs] /\ pipe' \in [Workers -> PipesOf]
      /\ job'[w] = j /\ prog'[w] = p /\ pipe'[w] = q
      /\ \A v \in Workers : v # w => job'[v] = job[v] /\ prog'[v] = prog[v] /\ pipe'[v] = pipe[v]
  BY <1>1 DEF CgiInv, CgiTyped
<1>3. \A v \in Workers : Fine(v, job'[v], prog'[v], pipe'[v])
  BY <1>2 DEF CgiInv
<1>4. twice' \in BOOLEAN /\ ~twice'
  OBVIOUS
<1>5. CgiTyped'
  BY <1>2, <1>4 DEF CgiTyped
<1>6. (\A v \in Workers : Fine(v, job[v], prog[v], pipe[v]))'
  BY <1>3 DEF Fine, Opened, Spawned, AnswersOf, Counted, Jobs, Progs, PipesOf, Preparing, Spawning,
       Serving, Ending, Gateway!Ends, Gateway!Files
<1> QED BY <1>4, <1>5, <1>6 DEF CgiInv

LEMMA CgiNumbers == ASSUME CgiHypothesis PROVE PipeSize \in Nat \ {0} /\ BufferRoom \in Nat \ {0} /\ MaxBody \in Nat
BY DEF CgiHypothesis, Gateway!CgiAssumption

LEMMA CgiInit ==
    ASSUME CgiHypothesis PROVE Gateway!Init => CgiInv
<1> SUFFICES ASSUME Gateway!Init PROVE CgiInv
  OBVIOUS
<1>1. PipeSize \in Nat /\ MaxBody \in Nat
  BY DEF CgiHypothesis, Gateway!CgiAssumption
<1>2. ASSUME NEW w \in Workers PROVE Fine(w, job[w], prog[w], pipe[w])
  <2>1. PICK b \in 0 .. MaxBody :
          job[w] = [pc |-> "prepare", body |-> b, fd |-> {}, open |-> {}, marked |-> {}, file |-> {},
                    fed |-> 0, got |-> 0, sent |-> 0, answers |-> 0]
    BY DEF Gateway!Init
  <2>2. PICK p \in Programs :
          prog[w] = [kind |-> p, state |-> "none", held |-> {}, taken |-> 0, eof |-> FALSE,
                     wrote |-> 0, erred |-> 0]
    BY DEF Gateway!Init
  <2>3. pipe[w] = [in |-> 0, out |-> 0, err |-> 0]
    BY DEF Gateway!Init
  <2>4. job[w] \in Jobs /\ prog[w] \in Progs /\ pipe[w] \in PipesOf
    BY <1>1, <2>1, <2>2, <2>3 DEF Jobs, Progs, PipesOf, Preparing, Spawning, Serving, Ending
  <2>5. Opened(job[w]) /\ Spawned(job[w], prog[w]) /\ AnswersOf(job[w], prog[w])
    BY <2>1, <2>2 DEF Opened, Spawned, AnswersOf, Preparing, Spawning, Serving, Ending
  <2>6. Counted(w, job[w], prog[w], pipe[w])
    BY <2>1, <2>2, <2>3 DEF Counted, Preparing, Spawning, Ending
  <2> QED BY <2>4, <2>5, <2>6 DEF Fine
<1>3. job = [w \in Workers |-> job[w]] /\ prog = [w \in Workers |-> prog[w]]
      /\ pipe = [w \in Workers |-> pipe[w]]
  BY DEF Gateway!Init
<1>4. CgiTyped /\ ~twice
  BY <1>2, <1>3 DEF CgiTyped, Fine, Gateway!Init
<1> QED BY <1>2, <1>4 DEF CgiInv

(* The steps that change nothing but the request, and perhaps a pipe. *)
LEMMA OfRequest ==
    ASSUME CgiInv, NEW w \in Workers, NEW r, Gateway!Set(w, r), UNCHANGED prog,
           NEW q, pipe' = [pipe EXCEPT ![w] = q], twice' = FALSE, stray' \in BOOLEAN,
           Fine(w, Gateway!With(r, job[w]), prog[w], q)
    PROVE  CgiInv'
<1>1. job' = [job EXCEPT ![w] = Gateway!With(r, job[w])]
  BY DEF Gateway!Set
<1>2. prog' = [prog EXCEPT ![w] = prog[w]]
  BY DEF CgiInv, CgiTyped
<1> QED BY <1>1, <1>2, OneWorker

LEMMA OfRequestOnly ==
    ASSUME CgiInv, NEW w \in Workers, NEW r, Gateway!Set(w, r), UNCHANGED <<prog, pipe>>,
           twice' = FALSE, stray' \in BOOLEAN, Fine(w, Gateway!With(r, job[w]), prog[w], pipe[w])
    PROVE  CgiInv'
<1>1. pipe' = [pipe EXCEPT ![w] = pipe[w]]
  BY DEF CgiInv, CgiTyped
<1> QED BY <1>1, OfRequest

(* What a program does, to itself and perhaps to a pipe. *)
LEMMA OfProgram ==
    ASSUME CgiInv, NEW w \in Workers, NEW r, Gateway!SetProg(w, r), UNCHANGED <<job, twice, stray>>,
           NEW q, pipe' = [pipe EXCEPT ![w] = q], Fine(w, job[w], Gateway!With(r, prog[w]), q)
    PROVE  CgiInv'
<1>1. prog' = [prog EXCEPT ![w] = Gateway!With(r, prog[w])]
  BY DEF Gateway!SetProg
<1>2. job' = [job EXCEPT ![w] = job[w]] /\ twice' = FALSE /\ stray' \in BOOLEAN
  BY DEF CgiInv, CgiTyped
<1> QED BY <1>1, <1>2, OneWorker

(* An error page, wherever nothing has been answered yet. *)
LEMMA ErrorKeeps ==
    ASSUME CgiInv, NEW w \in Workers, Gateway!Error(w), UNCHANGED <<prog, pipe>>,
           twice' = FALSE, stray' \in BOOLEAN, job[w].pc \in Preparing \cup Spawning \cup Serving, job[w].pc # "send"
    PROVE  CgiInv'
<1> DEFINE j == job[w] p == prog[w] q == pipe[w] r == [pc |-> "done", answers |-> Gateway!Answered(w)]
           k == Gateway!With(r, j)
<1>1. Fine(w, j, p, q) /\ j \in Jobs /\ j.answers = 0 /\ j.sent = 0
  BY DEF CgiInv, Fine, AnswersOf, Counted, Preparing, Spawning, Serving, Ending
<1>2. Gateway!Answered(w) = 1
  BY <1>1 DEF Gateway!Answered
<1>3. /\ k.pc = "done" /\ k.answers = 1 /\ k.sent = 0
      /\ k.fd = j.fd /\ k.open = j.open /\ k.file = j.file /\ k.fed = j.fed /\ k.got = j.got
  BY <1>1, <1>2, WithJob
<1>4. k \in Jobs
  BY <1>1, <1>3, WithJob DEF Jobs, Ending
<1> HIDE DEF k
<1>5. Fine(w, k, p, q)
  BY <1>1, <1>3, <1>4 DEF Fine, Opened, Spawned, AnswersOf, Counted, Preparing, Spawning, Serving, Ending
<1> QED BY <1>5, OfRequestOnly DEF Gateway!Error, k

LEMMA PrepareKeeps ==
    ASSUME CgiInv, NEW w \in Workers, Gateway!Prepare(w) PROVE CgiInv'
<1> DEFINE j == job[w] p == prog[w] q == pipe[w]
<1>1. Fine(w, j, p, q) /\ j \in Jobs /\ j.pc = "prepare" /\ twice' = FALSE /\ stray' \in BOOLEAN
      /\ UNCHANGED <<prog, pipe>>
  BY DEF CgiInv, CgiTyped, Fine, Gateway!Prepare
<1>2. CASE Gateway!Set(w, [pc |-> "pipe"])
  <2> DEFINE r == [pc |-> "pipe"]
             k == Gateway!With(r, j)
  <2>1. /\ k.pc = "pipe" /\ k.fd = j.fd /\ k.open = j.open /\ k.file = j.file /\ k.fed = j.fed
        /\ k.got = j.got /\ k.sent = j.sent /\ k.answers = j.answers /\ k.body = j.body
    BY <1>1, <1>2, WithJob
  <2>2. k \in Jobs
    BY <1>1, <1>2, <2>1, WithJob DEF Jobs, Preparing, Spawning, Serving, Ending
  <2> HIDE DEF k
  <2>3. Fine(w, k, p, q)
    BY <1>1, <1>2, <2>1, <2>2 DEF Fine, Opened, Spawned, AnswersOf, Counted, Preparing, Spawning,
         Serving, Ending
  <2> QED BY <1>1, <1>2, <2>3, OfRequestOnly DEF k
<1>3. CASE Gateway!Fails("env") /\ Gateway!Set(w, [pc |-> "done"])
  <2> DEFINE r == [pc |-> "done"]
             k == Gateway!With(r, j)
  <2>1. /\ k.pc = "done" /\ k.fd = j.fd /\ k.open = j.open /\ k.file = j.file /\ k.fed = j.fed
        /\ k.got = j.got /\ k.sent = j.sent /\ k.answers = j.answers /\ k.body = j.body
    BY <1>1, <1>3, WithJob
  <2>2. k \in Jobs
    BY <1>1, <1>3, <2>1, WithJob DEF Jobs, Preparing, Spawning, Serving, Ending
  <2> HIDE DEF k
  <2>3. Fine(w, k, p, q)
    BY <1>1, <1>3, <2>1, <2>2 DEF Fine, Opened, Spawned, AnswersOf, Counted, Preparing, Spawning,
         Serving, Ending, Gateway!Fails
  <2> QED BY <1>1, <1>3, <2>3, OfRequestOnly DEF k
<1>4. CASE Gateway!Error(w)
  BY <1>1, <1>4, ErrorKeeps DEF Preparing
<1> QED BY <1>1, <1>2, <1>3, <1>4 DEF Gateway!Prepare

LEMMA PipesKeeps ==
    ASSUME CgiInv, NEW w \in Workers, Gateway!Pipes(w) PROVE CgiInv'
<1> DEFINE j == job[w] p == prog[w] q == pipe[w]
<1>1. Fine(w, j, p, q) /\ j \in Jobs /\ j.pc = "pipe" /\ twice' = FALSE /\ stray' \in BOOLEAN
      /\ UNCHANGED <<prog, pipe>>
  BY DEF CgiInv, CgiTyped, Fine, Gateway!Pipes
<1>2. CASE Gateway!Set(w, [pc |-> "spawn", fd |-> Gateway!Ends, open |-> Gateway!Ends])
  <2> DEFINE r == [pc |-> "spawn", fd |-> Gateway!Ends, open |-> Gateway!Ends]
             k == Gateway!With(r, j)
  <2>1. /\ k.pc = "spawn" /\ k.fd = Gateway!Ends /\ k.open = Gateway!Ends /\ k.file = j.file
        /\ k.fed = j.fed
        /\ k.got = j.got /\ k.sent = j.sent /\ k.answers = j.answers /\ k.body = j.body
    BY <1>1, <1>2, WithJob
  <2>2. k \in Jobs
    BY <1>1, <1>2, <2>1, WithJob DEF Jobs, Preparing, Spawning, Serving, Ending
  <2> HIDE DEF k
  <2>3. Fine(w, k, p, q)
    BY <1>1, <1>2, <2>1, <2>2 DEF Fine, Opened, Spawned, AnswersOf, Counted, Preparing, Spawning,
         Serving, Ending
  <2> QED BY <1>1, <1>2, <2>3, OfRequestOnly DEF k
<1>3. ASSUME NEW some \in {{}, {"in0", "in1"}, {"in0", "in1", "out0", "out1"}},
             Gateway!Set(w, [pc |-> "done", fd |-> some, open |-> some, answers |-> Gateway!Answered(w)])
      PROVE  CgiInv'
  <2>1. Gateway!Answered(w) = 1 /\ some \subseteq Gateway!Ends
    BY <1>1, <1>3 DEF Fine, AnswersOf, Gateway!Answered, Gateway!Ends, Preparing, Spawning, Serving,
         Ending
  <2> DEFINE r == [pc |-> "done", fd |-> some, open |-> some, answers |-> Gateway!Answered(w)]
             k == Gateway!With(r, j)
  <2>2. /\ k.pc = "done" /\ k.fd = some /\ k.open = some /\ k.answers = 1 /\ k.file = j.file
        /\ k.fed = j.fed /\ k.got = j.got /\ k.sent = j.sent /\ k.body = j.body
    BY <1>1, <1>3, <2>1, WithJob
  <2>3. k \in Jobs
    BY <1>1, <1>3, <2>1, <2>2, WithJob DEF Jobs, Preparing, Spawning, Serving, Ending
  <2> HIDE DEF k
  <2>4. Fine(w, k, p, q)
    BY <1>1, <1>3, <2>1, <2>2, <2>3 DEF Fine, Opened, Spawned, AnswersOf, Counted, Preparing,
         Spawning, Serving, Ending
  <2> QED BY <1>1, <1>3, <2>1, <2>4, OfRequestOnly DEF k
<1> QED BY <1>1, <1>2, <1>3 DEF Gateway!Pipes

LEMMA MarkKeeps ==
    ASSUME CgiInv, NEW w \in Workers, Gateway!Mark(w) PROVE CgiInv'
<1> DEFINE j == job[w] p == prog[w] q == pipe[w]
<1>1. Fine(w, j, p, q) /\ j \in Jobs /\ j.pc = "mark" /\ twice' = FALSE /\ stray' \in BOOLEAN
      /\ UNCHANGED <<prog, pipe>>
      /\ Gateway!Set(w, [pc |-> "close", marked |-> Gateway!Files])
  BY DEF CgiInv, CgiTyped, Fine, Gateway!Mark
<1> DEFINE r == [pc |-> "close", marked |-> Gateway!Files]
           k == Gateway!With(r, j)
<1>2. /\ k.pc = "close" /\ k.marked = Gateway!Files /\ k.fd = j.fd /\ k.open = j.open /\ k.file = j.file
      /\ k.fed = j.fed /\ k.got = j.got /\ k.sent = j.sent /\ k.answers = j.answers /\ k.body = j.body
  BY <1>1, WithJob
<1>3. k \in Jobs
  BY <1>1, <1>2, WithJob DEF Jobs, Preparing, Spawning, Serving, Ending, Gateway!Ends, Gateway!Files
<1> HIDE DEF k
<1>4. Fine(w, k, p, q)
  BY <1>1, <1>2, <1>3 DEF Fine, Opened, Spawned, AnswersOf, Counted, Preparing, Spawning, Serving, Ending
<1> QED BY <1>1, <1>4, OfRequestOnly DEF k

LEMMA CloseChildSideKeeps ==
    ASSUME CgiInv, NEW w \in Workers, Gateway!CloseChildSide(w) PROVE CgiInv'
<1> DEFINE j == job[w] p == prog[w] q == pipe[w]
<1>1. Fine(w, j, p, q) /\ j \in Jobs /\ j.pc = "close" /\ stray' \in BOOLEAN /\ UNCHANGED <<prog, pipe>>
  BY DEF CgiInv, CgiTyped, Fine, Gateway!CloseChildSide
<1>2. j.open = Gateway!Ends
  BY <1>1 DEF Fine, Opened, Spawning
<1>3. j.open \ (Gateway!Ends \ Gateway!Files) = Gateway!Files
  BY <1>2 DEF Gateway!Ends, Gateway!Files
<1>4. Gateway!Set(w, [pc |-> "fdopen", fd |-> Gateway!Files, open |-> Gateway!Files]) /\ twice' = FALSE
  BY <1>2, <1>3 DEF CgiInv, Gateway!CloseChildSide, Gateway!Closes
<1> DEFINE r == [pc |-> "fdopen", fd |-> Gateway!Files, open |-> Gateway!Files]
           k == Gateway!With(r, j)
<1>5. /\ k.pc = "fdopen" /\ k.fd = Gateway!Files /\ k.open = Gateway!Files /\ k.file = j.file
      /\ k.fed = j.fed
      /\ k.got = j.got /\ k.sent = j.sent /\ k.answers = j.answers /\ k.body = j.body
  BY <1>1, <1>2, <1>4, WithJob
<1>6. k \in Jobs
  BY <1>1, <1>2, <1>4, <1>5, WithJob DEF Jobs, Preparing, Spawning, Serving, Ending, Gateway!Ends,
       Gateway!Files
<1> HIDE DEF k
<1>7. Fine(w, k, p, q)
  BY <1>1, <1>2, <1>4, <1>5, <1>6 DEF Fine, Opened, Spawned, AnswersOf, Counted, Preparing, Spawning,
       Serving, Ending, Gateway!Ends, Gateway!Files
<1> QED BY <1>1, <1>2, <1>4, <1>7, OfRequestOnly DEF k

LEMMA FdopenKeeps ==
    ASSUME CgiInv, NEW w \in Workers, Gateway!Fdopen(w) PROVE CgiInv'
<1> DEFINE j == job[w] p == prog[w] q == pipe[w]
<1>1. Fine(w, j, p, q) /\ j \in Jobs /\ j.pc = "fdopen" /\ twice' = FALSE /\ stray' \in BOOLEAN
      /\ UNCHANGED <<prog, pipe>>
  BY DEF CgiInv, CgiTyped, Fine, Gateway!Fdopen
<1>2. CASE Gateway!Set(w, [pc |-> IF j.body > 0 THEN "forward" ELSE "closein", file |-> Gateway!Files])
  <2> DEFINE r == [pc |-> IF j.body > 0 THEN "forward" ELSE "closein", file |-> Gateway!Files]
             k == Gateway!With(r, j)
  <2>1. /\ k.pc = (IF j.body > 0 THEN "forward" ELSE "closein") /\ k.file = Gateway!Files
           /\ k.fd = j.fd /\ k.open = j.open /\ k.fed = j.fed
        /\ k.got = j.got /\ k.sent = j.sent /\ k.answers = j.answers /\ k.body = j.body
    BY <1>1, <1>2, WithJob
  <2>2. k \in Jobs
    BY <1>1, <1>2, <2>1, WithJob DEF Jobs, Preparing, Spawning, Serving, Ending
  <2> HIDE DEF k
  <2>3. Fine(w, k, p, q)
    BY <1>1, <1>2, <2>1, <2>2 DEF Fine, Opened, Spawned, AnswersOf, Counted, Preparing, Spawning,
         Serving, Ending, Jobs
  <2> QED BY <1>1, <1>2, <2>3, OfRequestOnly DEF k
<1>3. ASSUME NEW some \in {{}, {"in1"}, {"in1", "out0"}}, Gateway!Set(w, [pc |-> "done", file |-> some, answers |-> Gateway!Answered(w)])
      PROVE  CgiInv'
  <2>1. Gateway!Answered(w) = 1 /\ some \subseteq Gateway!Files
    BY <1>1, <1>3 DEF Fine, AnswersOf, Gateway!Answered, Gateway!Files, Preparing, Spawning, Serving,
         Ending
  <2> DEFINE r == [pc |-> "done", file |-> some, answers |-> Gateway!Answered(w)]
             k == Gateway!With(r, j)
  <2>2. /\ k.pc = "done" /\ k.file = some /\ k.answers = 1 /\ k.fd = j.fd /\ k.open = j.open
        /\ k.fed = j.fed /\ k.got = j.got /\ k.sent = j.sent /\ k.body = j.body
    BY <1>1, <1>3, <2>1, WithJob
  <2>3. k \in Jobs
    BY <1>1, <1>3, <2>1, <2>2, WithJob DEF Jobs, Preparing, Spawning, Serving, Ending
  <2> HIDE DEF k
  <2>4. Fine(w, k, p, q)
    BY <1>1, <1>3, <2>1, <2>2, <2>3 DEF Fine, Opened, Spawned, AnswersOf, Counted, Preparing,
         Spawning, Serving, Ending
  <2> QED BY <1>1, <1>3, <2>1, <2>4, OfRequestOnly DEF k
<1> QED BY <1>1, <1>2, <1>3 DEF Gateway!Fdopen

LEMMA ForwardKeeps ==
    ASSUME CgiHypothesis, CgiInv, NEW w \in Workers, Gateway!Forward(w) PROVE CgiInv'
<1> DEFINE j == job[w] p == prog[w] q == pipe[w]
<1>1. Fine(w, j, p, q) /\ j \in Jobs /\ j.pc = "forward" /\ UNCHANGED prog /\ twice' = FALSE
      /\ stray' \in BOOLEAN
  BY DEF CgiInv, CgiTyped, Fine, Gateway!Forward
<1>2. CASE /\ j.fed < j.body /\ Gateway!HasRoom(q.in)
             /\ Gateway!Set(w, [fed |-> j.fed + 1]) /\ pipe' = [pipe EXCEPT ![w].in = @ + 1]
  <2> DEFINE r == [fed |-> j.fed + 1]
             k == Gateway!With(r, j)
             u == [q EXCEPT !.in = @ + 1]
  <2>1. /\ k.pc = "forward" /\ k.fed = j.fed + 1 /\ k.fd = j.fd /\ k.open = j.open /\ k.file = j.file
        /\ k.got = j.got /\ k.sent = j.sent /\ k.answers = j.answers /\ k.body = j.body
    BY <1>1, <1>2, WithJob
  <2>2. k \in Jobs
    BY <1>1, <1>2, <2>1, WithJob DEF Jobs, Preparing, Spawning, Serving, Ending
  <2>3. u \in PipesOf /\ u.in = q.in + 1 /\ u.out = q.out /\ u.err = q.err
    BY <1>1, <1>2, CgiNumbers DEF Fine, PipesOf, Gateway!HasRoom
  <2> HIDE DEF k, u
  <2>4. Fine(w, k, p, u)
    BY <1>1, <1>2, <2>1, <2>2, <2>3 DEF Fine, Opened, Spawned, AnswersOf, Counted, Preparing,
         Spawning, Serving, Ending, Jobs, Progs, PipesOf, Gateway!Files
  <2> QED BY <1>1, <1>2, <2>4, OfRequest DEF k, u
<1>3. CASE Gateway!Error(w) /\ UNCHANGED pipe
  BY <1>1, <1>3, ErrorKeeps DEF Serving
<1>4. CASE (j.fed = j.body \/ Gateway!Fails("timeout")) /\ Gateway!Set(w, [pc |-> "closein"]) /\ UNCHANGED pipe
  <2> DEFINE r == [pc |-> "closein"]
             k == Gateway!With(r, j)
  <2>1. /\ k.pc = "closein" /\ k.fd = j.fd /\ k.open = j.open /\ k.file = j.file /\ k.fed = j.fed
        /\ k.got = j.got /\ k.sent = j.sent /\ k.answers = j.answers /\ k.body = j.body
    BY <1>1, <1>4, WithJob
  <2>2. k \in Jobs
    BY <1>1, <1>4, <2>1, WithJob DEF Jobs, Preparing, Spawning, Serving, Ending
  <2> HIDE DEF k
  <2>3. Fine(w, k, p, q)
    BY <1>1, <1>4, <2>1, <2>2 DEF Fine, Opened, Spawned, AnswersOf, Counted, Preparing, Spawning,
         Serving, Ending, Gateway!Fails
  <2> QED BY <1>1, <1>4, <2>3, OfRequestOnly DEF k
<1> QED BY <1>1, <1>2, <1>3, <1>4 DEF Gateway!Forward, Gateway!ForwardFails

LEMMA CloseInKeeps ==
    ASSUME CgiInv, NEW w \in Workers, Gateway!CloseIn(w) PROVE CgiInv'
<1> DEFINE j == job[w] p == prog[w] q == pipe[w]
<1>1. Fine(w, j, p, q) /\ j \in Jobs /\ j.pc = "closein" /\ stray' \in BOOLEAN
      /\ UNCHANGED <<prog, pipe>>
  BY DEF CgiInv, CgiTyped, Fine, Gateway!CloseIn
<1>2. j.open = Gateway!Files /\ j.fd = Gateway!Files /\ j.file = Gateway!Files
  BY <1>1 DEF Fine, Opened
<1>3. Gateway!Set(w, [pc |-> "head", fd |-> Gateway!Files \ {"in1"}, open |-> Gateway!Files \ {"in1"}, file |-> Gateway!Files \ {"in1"}]) /\ twice' = FALSE
  BY <1>2 DEF CgiInv, Gateway!CloseIn, Gateway!WithoutIn, Gateway!Closes, Gateway!Files
<1> DEFINE r == [pc |-> "head", fd |-> Gateway!Files \ {"in1"}, open |-> Gateway!Files \ {"in1"}, file |-> Gateway!Files \ {"in1"}]
           k == Gateway!With(r, j)
<1>4. /\ k.pc = "head" /\ k.fd = Gateway!Files \ {"in1"} /\ k.open = Gateway!Files \ {"in1"}
      /\ k.file = Gateway!Files \ {"in1"} /\ k.fed = j.fed
      /\ k.got = j.got /\ k.sent = j.sent /\ k.answers = j.answers /\ k.body = j.body
  BY <1>1, <1>2, <1>3, WithJob
<1>5. k \in Jobs
  BY <1>1, <1>2, <1>3, <1>4, WithJob DEF Jobs, Preparing, Spawning, Serving, Ending, Gateway!Ends,
       Gateway!Files
<1> HIDE DEF k
<1>6. Fine(w, k, p, q)
  BY <1>1, <1>2, <1>3, <1>4, <1>5 DEF Fine, Opened, Spawned, AnswersOf, Counted, Preparing, Spawning,
       Serving, Ending, Gateway!Ends, Gateway!Files
<1> QED BY <1>1, <1>2, <1>3, <1>6, OfRequestOnly DEF k

LEMMA NoBufferKeeps ==
    ASSUME CgiInv, NEW w \in Workers, Gateway!NoBuffer(w) PROVE CgiInv'
<1>1. job[w].pc = "head" /\ Gateway!Error(w) /\ UNCHANGED <<prog, pipe>> /\ twice' = FALSE
      /\ stray' \in BOOLEAN
  BY DEF CgiInv, CgiTyped, Gateway!NoBuffer
<1> QED BY <1>1, ErrorKeeps DEF Serving

LEMMA ReadHeadKeeps ==
    ASSUME CgiHypothesis, CgiInv, NEW w \in Workers, Gateway!ReadHead(w) PROVE CgiInv'
<1> DEFINE j == job[w] p == prog[w] q == pipe[w]
<1>1. Fine(w, j, p, q) /\ j \in Jobs /\ j.pc = "head" /\ UNCHANGED prog /\ twice' = FALSE
      /\ stray' \in BOOLEAN
  BY DEF CgiInv, CgiTyped, Fine, Gateway!ReadHead
<1>2. CASE /\ q.out > 0 /\ Gateway!Set(w, [got |-> j.got + 1])
             /\ pipe' = [pipe EXCEPT ![w].out = @ - 1]
  <2> DEFINE r == [got |-> j.got + 1]
             k == Gateway!With(r, j)
             u == [q EXCEPT !.out = @ - 1]
  <2>1. /\ k.pc = "head" /\ k.got = j.got + 1 /\ k.fd = j.fd /\ k.open = j.open /\ k.file = j.file
        /\ k.fed = j.fed /\ k.sent = j.sent /\ k.answers = j.answers /\ k.body = j.body
    BY <1>1, <1>2, WithJob
  <2>2. k \in Jobs
    BY <1>1, <1>2, <2>1, WithJob DEF Jobs, Preparing, Spawning, Serving, Ending
  <2>3. u \in PipesOf /\ u.out = q.out - 1 /\ u.in = q.in /\ u.err = q.err
    BY <1>1, <1>2, CgiNumbers DEF Fine, PipesOf, Gateway!HasRoom
  <2> HIDE DEF k, u
  <2>4. Fine(w, k, p, u)
    BY <1>1, <1>2, <2>1, <2>2, <2>3 DEF Fine, Opened, Spawned, AnswersOf, Counted, Preparing,
         Spawning, Serving, Ending, Jobs, Progs, PipesOf
  <2> QED BY <1>1, <1>2, <2>4, OfRequest DEF k, u
<1>3. CASE Gateway!Set(w, [pc |-> "stderr"]) /\ UNCHANGED pipe
  <2> DEFINE r == [pc |-> "stderr"]
             k == Gateway!With(r, j)
  <2>1. /\ k.pc = "stderr" /\ k.fd = j.fd /\ k.open = j.open /\ k.file = j.file /\ k.fed = j.fed
        /\ k.got = j.got /\ k.sent = j.sent /\ k.answers = j.answers /\ k.body = j.body
    BY <1>1, <1>3, WithJob
  <2>2. k \in Jobs
    BY <1>1, <1>3, <2>1, WithJob DEF Jobs, Preparing, Spawning, Serving, Ending
  <2> HIDE DEF k
  <2>3. Fine(w, k, p, q)
    BY <1>1, <1>3, <2>1, <2>2 DEF Fine, Opened, Spawned, AnswersOf, Counted, Preparing, Spawning,
         Serving, Ending
  <2> QED BY <1>1, <1>3, <2>3, OfRequestOnly DEF k
<1> QED BY <1>1, <1>2, <1>3 DEF Gateway!ReadHead

LEMMA ReadErrKeeps ==
    ASSUME CgiHypothesis, CgiInv, NEW w \in Workers, Gateway!ReadErr(w) PROVE CgiInv'
<1> DEFINE j == job[w] p == prog[w] q == pipe[w]
<1>1. Fine(w, j, p, q) /\ j \in Jobs /\ j.pc = "stderr" /\ UNCHANGED prog /\ twice' = FALSE
      /\ stray' \in BOOLEAN
  BY DEF CgiInv, CgiTyped, Fine, Gateway!ReadErr
<1>2. CASE q.err > 0 /\ pipe' = [pipe EXCEPT ![w].err = @ - 1] /\ UNCHANGED job
  <2> DEFINE u == [q EXCEPT !.err = @ - 1]
  <2>1. u \in PipesOf /\ u.in = q.in /\ u.out = q.out
    BY <1>1, <1>2, CgiNumbers DEF Fine, PipesOf
  <2> HIDE DEF u
  <2>2. Fine(w, j, p, u)
    BY <1>1, <2>1 DEF Fine, Counted
  <2>3. job' = [job EXCEPT ![w] = j] /\ prog' = [prog EXCEPT ![w] = p] /\ pipe' = [pipe EXCEPT ![w] = u]
    BY <1>1, <1>2 DEF CgiInv, CgiTyped, u
  <2> QED BY <1>1, <2>2, <2>3, OneWorker
<1>3. CASE Gateway!Error(w) /\ UNCHANGED pipe
  BY <1>1, <1>3, ErrorKeeps DEF Serving
<1> QED BY <1>1, <1>2, <1>3 DEF Gateway!ReadErr

LEMMA StatusLineKeeps ==
    ASSUME CgiInv, NEW w \in Workers, Gateway!StatusLine(w) PROVE CgiInv'
<1> DEFINE j == job[w] p == prog[w] q == pipe[w]
<1>1. Fine(w, j, p, q) /\ j \in Jobs /\ j.pc = "head" /\ twice' = FALSE /\ stray' \in BOOLEAN
      /\ UNCHANGED <<prog, pipe>>
  BY DEF CgiInv, CgiTyped, Fine, Gateway!StatusLine
<1>2. Gateway!Answered(w) = 1
  BY <1>1 DEF Fine, AnswersOf, Gateway!Answered, Ending
<1>3. Gateway!Set(w, [pc |-> "send", sent |-> j.got, answers |-> 1])
  BY <1>2 DEF Gateway!StatusLine
<1> DEFINE r == [pc |-> "send", sent |-> j.got, answers |-> 1]
           k == Gateway!With(r, j)
<1>4. /\ k.pc = "send" /\ k.sent = j.got /\ k.answers = 1 /\ k.fd = j.fd /\ k.open = j.open
      /\ k.file = j.file /\ k.fed = j.fed /\ k.got = j.got /\ k.body = j.body
  BY <1>1, <1>3, WithJob
<1>5. k \in Jobs
  BY <1>1, <1>3, <1>4, WithJob DEF Jobs, Preparing, Spawning, Serving, Ending
<1> HIDE DEF k
<1>6. Fine(w, k, p, q)
  BY <1>1, <1>3, <1>4, <1>5 DEF Fine, Opened, Spawned, AnswersOf, Counted, Preparing, Spawning,
       Serving, Ending
<1> QED BY <1>1, <1>3, <1>6, OfRequestOnly DEF k

LEMMA SendKeeps ==
    ASSUME CgiHypothesis, CgiInv, NEW w \in Workers, Gateway!Send(w) PROVE CgiInv'
<1> DEFINE j == job[w] p == prog[w] q == pipe[w]
<1>1. Fine(w, j, p, q) /\ j \in Jobs /\ j.pc = "send" /\ UNCHANGED prog /\ twice' = FALSE
      /\ stray' \in BOOLEAN
  BY DEF CgiInv, CgiTyped, Fine, Gateway!Send
<1>2. CASE /\ q.out > 0 /\ Gateway!Set(w, [got |-> j.got + 1, sent |-> j.sent + 1])
             /\ pipe' = [pipe EXCEPT ![w].out = @ - 1]
  <2> DEFINE r == [got |-> j.got + 1, sent |-> j.sent + 1]
             k == Gateway!With(r, j)
             u == [q EXCEPT !.out = @ - 1]
  <2>1. /\ k.pc = "send" /\ k.got = j.got + 1 /\ k.sent = j.sent + 1 /\ k.fd = j.fd /\ k.open = j.open
        /\ k.file = j.file /\ k.fed = j.fed /\ k.answers = j.answers /\ k.body = j.body
    BY <1>1, <1>2, WithJob
  <2>2. k \in Jobs
    BY <1>1, <1>2, <2>1, WithJob DEF Jobs, Preparing, Spawning, Serving, Ending
  <2>3. u \in PipesOf /\ u.out = q.out - 1 /\ u.in = q.in /\ u.err = q.err
    BY <1>1, <1>2, CgiNumbers DEF Fine, PipesOf, Gateway!HasRoom
  <2> HIDE DEF k, u
  <2>4. Fine(w, k, p, u)
    BY <1>1, <1>2, <2>1, <2>2, <2>3 DEF Fine, Opened, Spawned, AnswersOf, Counted, Preparing,
         Spawning, Serving, Ending, Jobs, Progs, PipesOf
  <2> QED BY <1>1, <1>2, <2>4, OfRequest DEF k, u
<1>3. CASE /\ q.out > 0 /\ Gateway!Set(w, [pc |-> "done", got |-> j.got + 1]) /\ Gateway!Fails("gone")
             /\ pipe' = [pipe EXCEPT ![w].out = @ - 1]
  <2> DEFINE r == [pc |-> "done", got |-> j.got + 1]
             k == Gateway!With(r, j)
             u == [q EXCEPT !.out = @ - 1]
  <2>1. /\ k.pc = "done" /\ k.got = j.got + 1 /\ k.fd = j.fd /\ k.open = j.open /\ k.file = j.file
        /\ k.fed = j.fed /\ k.sent = j.sent /\ k.answers = j.answers /\ k.body = j.body
    BY <1>1, <1>3, WithJob
  <2>2. k \in Jobs
    BY <1>1, <1>3, <2>1, WithJob DEF Jobs, Preparing, Spawning, Serving, Ending
  <2>3. u \in PipesOf /\ u.out = q.out - 1 /\ u.in = q.in /\ u.err = q.err
    BY <1>1, <1>3, CgiNumbers DEF Fine, PipesOf, Gateway!HasRoom
  <2> HIDE DEF k, u
  <2>4. Fine(w, k, p, u)
    BY <1>1, <1>3, <2>1, <2>2, <2>3 DEF Fine, Opened, Spawned, AnswersOf, Counted, Preparing,
         Spawning, Serving, Ending, Jobs, Progs, PipesOf, Gateway!Fails
  <2> QED BY <1>1, <1>3, <2>4, OfRequest DEF k, u
<1>4. CASE Gateway!AtEnd(w, "out", "out1") /\ Gateway!Set(w, [pc |-> "done"]) /\ UNCHANGED pipe
  <2>1. q.out = 0 /\ p.state # "running"
    BY <1>1, <1>4 DEF Fine, Counted, Gateway!AtEnd, Gateway!IsOpen
  <2> DEFINE r == [pc |-> "done"]
             k == Gateway!With(r, j)
  <2>2. /\ k.pc = "done" /\ k.fd = j.fd /\ k.open = j.open /\ k.file = j.file /\ k.fed = j.fed
        /\ k.got = j.got /\ k.sent = j.sent /\ k.answers = j.answers /\ k.body = j.body
    BY <1>1, <1>4, <2>1, WithJob
  <2>3. k \in Jobs
    BY <1>1, <1>4, <2>1, <2>2, WithJob DEF Jobs, Preparing, Spawning, Serving, Ending
  <2> HIDE DEF k
  <2>4. Fine(w, k, p, q)
    BY <1>1, <1>4, <2>1, <2>2, <2>3 DEF Fine, Opened, Spawned, AnswersOf, Counted, Preparing,
         Spawning, Serving, Ending
  <2> QED BY <1>1, <1>4, <2>1, <2>4, OfRequestOnly DEF k
<1> QED BY <1>1, <1>2, <1>3, <1>4 DEF Gateway!Send, Gateway!SendsBlock

LEMMA SpawnKeeps ==
    ASSUME CgiInv, NEW w \in Workers, Gateway!spawn_process(w) PROVE CgiInv'
<1> DEFINE j == job[w] p == prog[w] q == pipe[w]
<1>1. Fine(w, j, p, q) /\ j \in Jobs /\ j.pc = "spawn" /\ UNCHANGED pipe /\ twice' = FALSE
      /\ stray' \in BOOLEAN
  BY DEF CgiInv, CgiTyped, Fine, Gateway!spawn_process
<1>2. CASE /\ Gateway!SetProg(w, [state |-> "running", held |-> Gateway!Inherited(w)])
           /\ Gateway!Set(w, [pc |-> "mark"])
  <2>1. \A v \in Workers : job[v].open \subseteq Gateway!Ends
    BY DEF CgiInv, CgiTyped, Jobs
  <2>2. Gateway!Inherited(w) \subseteq Workers \X Gateway!Ends /\ <<w, "out1">> \in Gateway!Inherited(w)
    BY <2>1 DEF Gateway!Inherited, Gateway!Ends
  <2> DEFINE k == Gateway!With([pc |-> "mark"], j)
             m == Gateway!With([state |-> "running", held |-> Gateway!Inherited(w)], p)
  <2>3. /\ k.pc = "mark" /\ k.fd = j.fd /\ k.open = j.open /\ k.file = j.file /\ k.fed = j.fed
        /\ k.got = j.got /\ k.sent = j.sent /\ k.answers = j.answers /\ k.body = j.body
    BY <1>1, <1>2, <2>1, <2>2, WithJob
  <2>4. /\ m.state = "running" /\ m.held = Gateway!Inherited(w) /\ m.kind = p.kind
        /\ m.taken = p.taken /\ m.eof = p.eof
        /\ m.wrote = p.wrote /\ m.erred = p.erred
    BY <1>1, <1>2, <2>1, <2>2, WithProg DEF Fine
  <2>5. k \in Jobs
    BY <1>1, <1>2, <2>1, <2>2, <2>3, WithJob DEF Jobs, Preparing, Spawning, Serving, Ending
  <2>6. m \in Progs
    BY <1>1, <1>2, <2>1, <2>2, <2>4, WithProg DEF Fine, Progs
  <2> HIDE DEF k, m
  <2>7. Fine(w, k, m, q)
    BY <1>1, <1>2, <2>1, <2>2, <2>3, <2>4, <2>5, <2>6 DEF Fine, Opened, Spawned, AnswersOf,
         Counted, Preparing, Spawning, Serving, Ending
  <2>8. job' = [job EXCEPT ![w] = k] /\ prog' = [prog EXCEPT ![w] = m] /\ pipe' = [pipe EXCEPT ![w] = q]
    BY <1>1, <1>2, <2>1, <2>2 DEF Gateway!Set, Gateway!SetProg, CgiInv, CgiTyped, k, m
  <2> QED BY <1>1, <1>2, <2>1, <2>2, <2>7, <2>8, OneWorker
<1>3. CASE Gateway!Error(w) /\ UNCHANGED prog
  BY <1>1, <1>3, ErrorKeeps DEF Spawning
<1> QED BY <1>1, <1>2, <1>3 DEF Gateway!spawn_process

LEMMA WaitNoHangKeeps ==
    ASSUME CgiInv, NEW w \in Workers, Gateway!WaitNoHang(w) PROVE CgiInv'
<1> DEFINE j == job[w] p == prog[w] q == pipe[w]
<1>1. Fine(w, j, p, q) /\ j \in Jobs /\ j.pc = "done" /\ UNCHANGED pipe /\ twice' = FALSE
      /\ stray' \in BOOLEAN
  BY DEF CgiInv, CgiTyped, Fine, Gateway!WaitNoHang
<1>2. CASE p.state = "none" /\ Gateway!Set(w, [pc |-> "cleanup"]) /\ UNCHANGED prog
  <2> DEFINE r == [pc |-> "cleanup"]
             k == Gateway!With(r, j)
  <2>1. /\ k.pc = "cleanup" /\ k.fd = j.fd /\ k.open = j.open /\ k.file = j.file /\ k.fed = j.fed
        /\ k.got = j.got /\ k.sent = j.sent /\ k.answers = j.answers /\ k.body = j.body
    BY <1>1, <1>2, WithJob
  <2>2. k \in Jobs
    BY <1>1, <1>2, <2>1, WithJob DEF Jobs, Preparing, Spawning, Serving, Ending
  <2> HIDE DEF k
  <2>3. Fine(w, k, p, q)
    BY <1>1, <1>2, <2>1, <2>2 DEF Fine, Opened, Spawned, AnswersOf, Counted, Preparing, Spawning,
         Serving, Ending
  <2> QED BY <1>1, <1>2, <2>3, OfRequestOnly DEF k
<1>3. CASE p.state = "running" /\ Gateway!Set(w, [pc |-> "kill"]) /\ UNCHANGED prog
  <2> DEFINE r == [pc |-> "kill"]
             k == Gateway!With(r, j)
  <2>1. /\ k.pc = "kill" /\ k.fd = j.fd /\ k.open = j.open /\ k.file = j.file /\ k.fed = j.fed
        /\ k.got = j.got /\ k.sent = j.sent /\ k.answers = j.answers /\ k.body = j.body
    BY <1>1, <1>3, WithJob
  <2>2. k \in Jobs
    BY <1>1, <1>3, <2>1, WithJob DEF Jobs, Preparing, Spawning, Serving, Ending
  <2> HIDE DEF k
  <2>3. Fine(w, k, p, q)
    BY <1>1, <1>3, <2>1, <2>2 DEF Fine, Opened, Spawned, AnswersOf, Counted, Preparing, Spawning,
         Serving, Ending
  <2> QED BY <1>1, <1>3, <2>3, OfRequestOnly DEF k
<1>4. CASE p.state # "none" /\ p.state # "running" /\ Gateway!SetProg(w, [state |-> "reaped"]) /\ Gateway!Set(w, [pc |-> IF p.kind.status = 0 THEN "kill" ELSE "cleanup"])
  <2> DEFINE k == Gateway!With([pc |-> IF p.kind.status = 0 THEN "kill" ELSE "cleanup"], j)
             m == Gateway!With([state |-> "reaped"], p)
  <2>1. /\ k.pc = (IF p.kind.status = 0 THEN "kill" ELSE "cleanup") /\ k.fd = j.fd
           /\ k.open = j.open /\ k.file = j.file /\ k.fed = j.fed
        /\ k.got = j.got /\ k.sent = j.sent /\ k.answers = j.answers /\ k.body = j.body
    BY <1>1, <1>4, WithJob
  <2>2. /\ m.state = "reaped" /\ m.kind = p.kind /\ m.held = p.held /\ m.taken = p.taken
        /\ m.eof = p.eof
        /\ m.wrote = p.wrote /\ m.erred = p.erred
    BY <1>1, <1>4, WithProg DEF Fine
  <2>3. k \in Jobs
    BY <1>1, <1>4, <2>1, WithJob DEF Jobs, Preparing, Spawning, Serving, Ending
  <2>4. m \in Progs
    BY <1>1, <1>4, <2>2, WithProg DEF Fine, Progs
  <2> HIDE DEF k, m
  <2>5. Fine(w, k, m, q)
    BY <1>1, <1>4, <2>1, <2>2, <2>3, <2>4 DEF Fine, Opened, Spawned, AnswersOf, Counted,
         Preparing, Spawning, Serving, Ending
  <2>6. job' = [job EXCEPT ![w] = k] /\ prog' = [prog EXCEPT ![w] = m] /\ pipe' = [pipe EXCEPT ![w] = q]
    BY <1>1, <1>4 DEF Gateway!Set, Gateway!SetProg, CgiInv, CgiTyped, k, m
  <2> QED BY <1>1, <1>4, <2>5, <2>6, OneWorker
<1>5. p.state \in {"none", "running", "zombie", "reaped"}
  BY <1>1 DEF Fine, Progs
<1>6. CASE p.state = "none"
  BY <1>1, <1>2, <1>6 DEF Gateway!WaitNoHang
<1>7. CASE p.state = "running"
  BY <1>1, <1>3, <1>7 DEF Gateway!WaitNoHang
<1>8. CASE p.state # "none" /\ p.state # "running"
  <2>1. Gateway!SetProg(w, [state |-> "reaped"]) /\ Gateway!Set(w, [pc |-> IF p.kind.status = 0 THEN "kill" ELSE "cleanup"])
    BY <1>8 DEF Gateway!WaitNoHang
  <2> QED BY <1>4, <1>8, <2>1
<1> QED BY <1>5, <1>6, <1>7, <1>8

LEMMA KillKeeps ==
    ASSUME CgiInv, NEW w \in Workers, Gateway!Kill(w) PROVE CgiInv'
<1> DEFINE j == job[w] p == prog[w] q == pipe[w]
<1>1. Fine(w, j, p, q) /\ j \in Jobs /\ j.pc = "kill" /\ UNCHANGED pipe /\ twice' = FALSE
      /\ Gateway!Set(w, [pc |-> "wait"])
  BY DEF CgiInv, CgiTyped, Fine, Gateway!Kill
<1>2. stray' \in BOOLEAN
  BY DEF Gateway!Kill, CgiInv, CgiTyped
<1>3. CASE p.state = "running" /\ Gateway!SetProg(w, [state |-> "zombie", held |-> {}])
  <2> DEFINE k == Gateway!With([pc |-> "wait"], j)
             m == Gateway!With([state |-> "zombie", held |-> {}], p)
  <2>1. /\ k.pc = "wait" /\ k.fd = j.fd /\ k.open = j.open /\ k.file = j.file /\ k.fed = j.fed
        /\ k.got = j.got /\ k.sent = j.sent /\ k.answers = j.answers /\ k.body = j.body
    BY <1>1, <1>2, <1>3, WithJob
  <2>2. /\ m.state = "zombie" /\ m.held = {} /\ m.kind = p.kind /\ m.taken = p.taken /\ m.eof = p.eof
        /\ m.wrote = p.wrote /\ m.erred = p.erred
    BY <1>1, <1>2, <1>3, WithProg DEF Fine
  <2>3. k \in Jobs
    BY <1>1, <1>2, <1>3, <2>1, WithJob DEF Jobs, Preparing, Spawning, Serving, Ending
  <2>4. m \in Progs
    BY <1>1, <1>2, <1>3, <2>2, WithProg DEF Fine, Progs
  <2> HIDE DEF k, m
  <2>5. Fine(w, k, m, q)
    BY <1>1, <1>2, <1>3, <2>1, <2>2, <2>3, <2>4 DEF Fine, Opened, Spawned, AnswersOf, Counted,
         Preparing, Spawning, Serving, Ending
  <2>6. job' = [job EXCEPT ![w] = k] /\ prog' = [prog EXCEPT ![w] = m] /\ pipe' = [pipe EXCEPT ![w] = q]
    BY <1>1, <1>2, <1>3 DEF Gateway!Set, Gateway!SetProg, CgiInv, CgiTyped, k, m
  <2> QED BY <1>1, <1>2, <1>3, <2>5, <2>6, OneWorker
<1>4. CASE p.state # "running" /\ UNCHANGED prog
  <2> DEFINE r == [pc |-> "wait"]
             k == Gateway!With(r, j)
  <2>1. /\ k.pc = "wait" /\ k.fd = j.fd /\ k.open = j.open /\ k.file = j.file /\ k.fed = j.fed
        /\ k.got = j.got /\ k.sent = j.sent /\ k.answers = j.answers /\ k.body = j.body
    BY <1>1, <1>2, <1>4, WithJob
  <2>2. k \in Jobs
    BY <1>1, <1>2, <1>4, <2>1, WithJob DEF Jobs, Preparing, Spawning, Serving, Ending
  <2> HIDE DEF k
  <2>3. Fine(w, k, p, q)
    BY <1>1, <1>2, <1>4, <2>1, <2>2 DEF Fine, Opened, Spawned, AnswersOf, Counted, Preparing,
         Spawning, Serving, Ending, Progs
  <2> QED BY <1>1, <1>2, <1>4, <2>3, OfRequestOnly DEF k
<1> QED BY <1>3, <1>4 DEF Gateway!Kill, Gateway!Running

LEMMA WaitKeeps ==
    ASSUME CgiInv, NEW w \in Workers, Gateway!Wait(w) PROVE CgiInv'
<1> DEFINE j == job[w] p == prog[w] q == pipe[w]
<1>1. Fine(w, j, p, q) /\ j \in Jobs /\ j.pc = "wait" /\ UNCHANGED pipe /\ twice' = FALSE
      /\ stray' \in BOOLEAN
      /\ p.state # "running" /\ Gateway!SetProg(w, [state |-> "reaped"])
      /\ Gateway!Set(w, [pc |-> "cleanup"])
  BY DEF CgiInv, CgiTyped, Fine, Gateway!Wait, Gateway!Reaps
<1> DEFINE k == Gateway!With([pc |-> "cleanup"], j)
           m == Gateway!With([state |-> "reaped"], p)
<1>2. /\ k.pc = "cleanup" /\ k.fd = j.fd /\ k.open = j.open /\ k.file = j.file /\ k.fed = j.fed
      /\ k.got = j.got /\ k.sent = j.sent /\ k.answers = j.answers /\ k.body = j.body
  BY <1>1, WithJob
<1>3. /\ m.state = "reaped" /\ m.kind = p.kind /\ m.held = p.held /\ m.taken = p.taken /\ m.eof = p.eof
      /\ m.wrote = p.wrote /\ m.erred = p.erred
  BY <1>1, WithProg DEF Fine
<1>4. k \in Jobs
  BY <1>1, <1>2, WithJob DEF Jobs, Preparing, Spawning, Serving, Ending
<1>5. m \in Progs
  BY <1>1, <1>3, WithProg DEF Fine, Progs
<1> HIDE DEF k, m
<1>6. Fine(w, k, m, q)
  BY <1>1, <1>2, <1>3, <1>4, <1>5 DEF Fine, Opened, Spawned, AnswersOf, Counted, Preparing, Spawning,
       Serving, Ending
<1>7. job' = [job EXCEPT ![w] = k] /\ prog' = [prog EXCEPT ![w] = m] /\ pipe' = [pipe EXCEPT ![w] = q]
  BY <1>1 DEF Gateway!Set, Gateway!SetProg, CgiInv, CgiTyped, k, m
<1> QED BY <1>1, <1>6, <1>7, OneWorker

LEMMA CleanupKeeps ==
    ASSUME CgiHypothesis, CgiInv, NEW w \in Workers, Gateway!Cleanup(w) PROVE CgiInv'
<1> DEFINE j == job[w] p == prog[w] q == pipe[w]
<1>1. Fine(w, j, p, q) /\ j \in Jobs /\ j.pc = "cleanup" /\ UNCHANGED prog /\ stray' \in BOOLEAN
  BY DEF CgiInv, CgiTyped, Fine, Gateway!Cleanup
<1>2. j.fd = j.open /\ j.file \subseteq j.open
  BY <1>1 DEF Fine, Opened
<1>3. j.open \ (j.fd \cup j.file) = {} /\ j.fd \cup j.file \subseteq j.open
  BY <1>2
<1>4. Gateway!Set(w, [pc |-> "end", open |-> {}]) /\ twice' = FALSE
      /\ pipe' = [pipe EXCEPT ![w] = [in |-> 0, out |-> 0, err |-> 0]]
  BY <1>3 DEF CgiInv, Gateway!Cleanup, Gateway!ClosesOnce, Gateway!Closes
<1> DEFINE u == [in |-> 0, out |-> 0, err |-> 0]
           k == Gateway!With([pc |-> "end", open |-> {}], j)
<1>5. /\ k.pc = "end" /\ k.open = {} /\ k.fd = j.fd /\ k.file = j.file /\ k.fed = j.fed
      /\ k.got = j.got /\ k.sent = j.sent /\ k.answers = j.answers /\ k.body = j.body
  BY <1>1, WithJob
<1>6. k \in Jobs
  BY <1>1, <1>5, WithJob DEF Jobs, Preparing, Spawning, Serving, Ending
<1>7. u \in PipesOf /\ u.in = 0
  BY CgiNumbers DEF PipesOf
<1> HIDE DEF k, u
<1>8. Fine(w, k, p, u)
  BY <1>1, <1>5, <1>6, <1>7 DEF Fine, Opened, Spawned, AnswersOf, Counted, Preparing, Spawning,
       Serving, Ending
<1> QED BY <1>1, <1>4, <1>8, OfRequest DEF k, u

LEMMA ReadsKeeps ==
    ASSUME CgiHypothesis, CgiInv, NEW w \in Workers, Gateway!ProgramReads(w), Gateway!Running(w),
           UNCHANGED <<job, twice, stray>>
    PROVE  CgiInv'
<1> DEFINE j == job[w] p == prog[w] q == pipe[w]
<1>1. Fine(w, j, p, q) /\ p \in Progs /\ p.state = "running" /\ q.in > 0
      /\ Gateway!SetProg(w, [taken |-> p.taken + 1])
  BY DEF CgiInv, Fine, Gateway!ProgramReads, Gateway!Running
<1> DEFINE m == Gateway!With([taken |-> p.taken + 1], p)
           u == [q EXCEPT !.in = @ - 1]
<1>2. /\ m.taken = p.taken + 1 /\ m.kind = p.kind /\ m.state = p.state /\ m.held = p.held
      /\ m.eof = p.eof
      /\ m.wrote = p.wrote /\ m.erred = p.erred
  BY <1>1, WithProg
<1>3. m \in Progs
  BY <1>1, <1>2, WithProg DEF Progs
<1>4. u \in PipesOf /\ u.in = q.in - 1 /\ u.out = q.out /\ u.err = q.err
  BY <1>1, CgiNumbers DEF Fine, PipesOf
<1> HIDE DEF m, u
<1>5. Fine(w, j, m, u)
  BY <1>1, <1>2, <1>3, <1>4 DEF Fine, Opened, Spawned, AnswersOf, Counted, Preparing, Spawning,
       Serving, Ending, Jobs, Progs, PipesOf
<1>6. pipe' = [pipe EXCEPT ![w] = u]
  BY DEF CgiInv, CgiTyped, Gateway!ProgramReads, u
<1> QED BY <1>1, <1>5, <1>6, OfProgram DEF m

LEMMA EofKeeps ==
    ASSUME CgiInv, NEW w \in Workers, Gateway!ProgramEof(w), Gateway!Running(w),
           UNCHANGED <<job, twice, stray>>
    PROVE  CgiInv'
<1> DEFINE j == job[w] p == prog[w] q == pipe[w]
<1>1. Fine(w, j, p, q) /\ p \in Progs /\ p.state = "running" /\ q.in = 0 /\ "in1" \notin j.open
      /\ Gateway!SetProg(w, [eof |-> TRUE])
  BY DEF CgiInv, Fine, Gateway!ProgramEof, Gateway!Running, Gateway!AtEnd, Gateway!IsOpen
<1> DEFINE m == Gateway!With([eof |-> TRUE], p)
           u == q
<1>2. /\ m.eof = TRUE /\ m.kind = p.kind /\ m.state = p.state /\ m.held = p.held /\ m.taken = p.taken
      /\ m.wrote = p.wrote /\ m.erred = p.erred
  BY <1>1, WithProg
<1>3. m \in Progs
  <2>1. m.eof \in BOOLEAN
    BY <1>2, Zenon
  <2> QED BY <1>1, <1>2, <2>1, WithProg DEF Progs
<1>4. u \in PipesOf /\ u = q
  BY <1>1 DEF Fine
<1> HIDE DEF m, u
<1>5. Fine(w, j, m, u)
  BY <1>1, <1>2, <1>3, <1>4 DEF Fine, Opened, Spawned, AnswersOf, Counted, Preparing, Spawning,
       Serving, Ending
<1>6. pipe' = [pipe EXCEPT ![w] = u]
  BY DEF CgiInv, CgiTyped, Gateway!ProgramEof, u
<1> QED BY <1>1, <1>5, <1>6, OfProgram DEF m

LEMMA ErrsKeeps ==
    ASSUME CgiHypothesis, CgiInv, NEW w \in Workers, Gateway!ProgramErrs(w), Gateway!Running(w),
           UNCHANGED <<job, twice, stray>>
    PROVE  CgiInv'
<1> DEFINE j == job[w] p == prog[w] q == pipe[w]
<1>1. Fine(w, j, p, q) /\ p \in Progs /\ p.state = "running" /\ q.err < PipeSize
      /\ Gateway!SetProg(w, [erred |-> p.erred + 1])
  BY DEF CgiInv, Fine, Gateway!ProgramErrs, Gateway!Running, Gateway!HasRoom
<1> DEFINE m == Gateway!With([erred |-> p.erred + 1], p)
           u == [q EXCEPT !.err = @ + 1]
<1>2. /\ m.erred = p.erred + 1 /\ m.kind = p.kind /\ m.state = p.state /\ m.held = p.held
      /\ m.taken = p.taken
      /\ m.eof = p.eof /\ m.wrote = p.wrote
  BY <1>1, WithProg
<1>3. m \in Progs
  BY <1>1, <1>2, WithProg DEF Progs
<1>4. u \in PipesOf /\ u.err = q.err + 1 /\ u.in = q.in /\ u.out = q.out
  BY <1>1, CgiNumbers DEF Fine, PipesOf
<1> HIDE DEF m, u
<1>5. Fine(w, j, m, u)
  BY <1>1, <1>2, <1>3, <1>4 DEF Fine, Opened, Spawned, AnswersOf, Counted, Preparing, Spawning,
       Serving, Ending
<1>6. pipe' = [pipe EXCEPT ![w] = u]
  BY DEF CgiInv, CgiTyped, Gateway!ProgramErrs, u
<1> QED BY <1>1, <1>5, <1>6, OfProgram DEF m

(* A program that reads all before it writes has nothing due before. *)
LEMMA DueAfterAll ==
    ASSUME NEW w \in Workers, prog[w].kind.reads = "all", ~prog[w].eof
    PROVE  Gateway!Due(w) = 0
BY DEF Gateway!Due

LEMMA WritesKeeps ==
    ASSUME CgiHypothesis, CgiInv, NEW w \in Workers, Gateway!ProgramWrites(w), Gateway!Running(w),
           UNCHANGED <<job, twice, stray>>
    PROVE  CgiInv'
<1> DEFINE j == job[w] p == prog[w] q == pipe[w]
<1>1. Fine(w, j, p, q) /\ p \in Progs /\ p.state = "running" /\ q.out < PipeSize
      /\ Gateway!SetProg(w, [wrote |-> p.wrote + 1])
  BY DEF CgiInv, Fine, Gateway!ProgramWrites, Gateway!Running, Gateway!HasRoom
<1>2. p.kind.reads = "all" => p.eof
  BY <1>1, DueAfterAll DEF Progs, Gateway!ProgramWrites
<1> DEFINE m == Gateway!With([wrote |-> p.wrote + 1], p)
           u == [q EXCEPT !.out = @ + 1]
<1>3. /\ m.wrote = p.wrote + 1 /\ m.kind = p.kind /\ m.state = p.state /\ m.held = p.held
      /\ m.taken = p.taken
      /\ m.eof = p.eof /\ m.erred = p.erred
  BY <1>1, <1>2, WithProg
<1>4. m \in Progs
  BY <1>1, <1>2, <1>3, WithProg DEF Progs
<1>5. u \in PipesOf /\ u.out = q.out + 1 /\ u.in = q.in /\ u.err = q.err
  BY <1>1, <1>2, CgiNumbers DEF Fine, PipesOf
<1> HIDE DEF m, u
<1>6. Fine(w, j, m, u)
  BY <1>1, <1>2, <1>3, <1>4, <1>5 DEF Fine, Opened, Spawned, AnswersOf, Counted, Preparing, Spawning,
       Serving, Ending, Jobs, Progs, PipesOf
<1>7. pipe' = [pipe EXCEPT ![w] = u]
  BY DEF CgiInv, CgiTyped, Gateway!ProgramWrites, u
<1> QED BY <1>1, <1>6, <1>7, OfProgram DEF m

LEMMA ExitsKeeps ==
    ASSUME CgiInv, NEW w \in Workers, Gateway!ProgramExits(w), Gateway!Running(w),
           UNCHANGED <<job, twice, stray>>
    PROVE  CgiInv'
<1> DEFINE j == job[w] p == prog[w] q == pipe[w]
<1>1. Fine(w, j, p, q) /\ p \in Progs /\ p.state = "running"
      /\ Gateway!SetProg(w, [state |-> "zombie", held |-> {}])
  BY DEF CgiInv, Fine, Gateway!ProgramExits, Gateway!Running
<1> DEFINE m == Gateway!With([state |-> "zombie", held |-> {}], p)
           u == q
<1>2. /\ m.state = "zombie" /\ m.held = {} /\ m.kind = p.kind /\ m.taken = p.taken /\ m.eof = p.eof
      /\ m.wrote = p.wrote /\ m.erred = p.erred
  BY <1>1, WithProg
<1>3. m \in Progs
  BY <1>1, <1>2, WithProg DEF Progs
<1>4. u \in PipesOf /\ u = q
  BY <1>1 DEF Fine
<1> HIDE DEF m, u
<1>5. Fine(w, j, m, u)
  BY <1>1, <1>2, <1>3, <1>4 DEF Fine, Opened, Spawned, AnswersOf, Counted, Preparing, Spawning,
       Serving, Ending
<1>6. pipe' = [pipe EXCEPT ![w] = u]
  BY DEF CgiInv, CgiTyped, Gateway!ProgramExits, u
<1> QED BY <1>1, <1>5, <1>6, OfProgram DEF m

LEMMA CgiStep ==
    ASSUME CgiHypothesis PROVE CgiInv /\ [Gateway!Next]_(Gateway!vars) => CgiInv'
<1> SUFFICES ASSUME CgiInv, [Gateway!Next]_(Gateway!vars) PROVE CgiInv'
  OBVIOUS
<1>1. CASE UNCHANGED Gateway!vars
  BY <1>1 DEF Gateway!vars, CgiInv, CgiTyped, Fine, Opened, Spawned, AnswersOf, Counted, Jobs,
       Progs, PipesOf
<1>2. ASSUME NEW w \in Workers, Gateway!Worker(w) PROVE CgiInv'
  BY <1>2, PrepareKeeps, PipesKeeps, SpawnKeeps, MarkKeeps, CloseChildSideKeeps, FdopenKeeps,
       ForwardKeeps,
     CloseInKeeps, NoBufferKeeps, ReadHeadKeeps, ReadErrKeeps, StatusLineKeeps, SendKeeps, WaitNoHangKeeps,
     KillKeeps, WaitKeeps, CleanupKeeps
     DEF Gateway!Worker
<1>3. ASSUME NEW w \in Workers, Gateway!Program(w) PROVE CgiInv'
  BY <1>3, ReadsKeeps, EofKeeps, ErrsKeeps, WritesKeeps, ExitsKeeps DEF Gateway!Program
<1> QED BY <1>1, <1>2, <1>3 DEF Gateway!Next

(* The types of the requests, programs and pipes of CGI. *)
THEOREM CgiTypes == ASSUME CgiHypothesis PROVE Gateway!Spec => []Gateway!TypeOK
<1>1. CgiInv => Gateway!TypeOK
  BY DEF CgiInv, CgiTyped, Jobs, Progs, PipesOf, Gateway!TypeOK
<1> QED BY <1>1, CgiInit, CgiStep, PTL DEF Gateway!Spec

(* Whatever fails, and whichever other requests have inherited them: at    *)
(* the end of a request each descriptor it has opened is closed, and none  *)
(* is closed twice (handle_cgi_request).                                   *)
THEOREM CgiEndsReleased == ASSUME CgiHypothesis PROVE Gateway!Spec => []Gateway!EndsReleased
<1>1. CgiInv => Gateway!EndsReleased
  BY DEF CgiInv, Fine, Opened, Gateway!EndsReleased
<1> QED BY <1>1, CgiInit, CgiStep, PTL DEF Gateway!Spec

(* No program outlives its request, and each has been waited for           *)
(* (abort_cgi_process).                                                    *)
THEOREM CgiNoZombies == ASSUME CgiHypothesis PROVE Gateway!Spec => []Gateway!NoZombies
<1>1. CgiInv => Gateway!NoZombies
  BY DEF CgiInv, Fine, Spawned, Gateway!NoZombies
<1> QED BY <1>1, CgiInit, CgiStep, PTL DEF Gateway!Spec

(* The client gets one answer, whatever fails, and none only if the        *)
(* environment could not be made (handle_cgi_request).                     *)
THEOREM CgiAnsweredOnce == ASSUME CgiHypothesis PROVE Gateway!Spec => []Gateway!AnsweredOnce
<1>1. CgiInv => Gateway!AnsweredOnce
  <2> SUFFICES ASSUME CgiInv, NEW w \in Workers
               PROVE  /\ job[w].answers <= 1
                      /\ job[w].pc = "end" /\ ("env" \notin Faults \/ prog[w].state # "none") => job[w].answers = 1
    BY DEF Gateway!AnsweredOnce
  <2>1. job[w] \in Jobs /\ AnswersOf(job[w], prog[w])
    BY DEF CgiInv, Fine
  <2>2. job[w].answers = 0 \/ job[w].answers = 1
    BY <2>1 DEF AnswersOf, Jobs, Ending
  <2> QED BY <2>1, <2>2 DEF AnswersOf
<1> QED BY <1>1, CgiInit, CgiStep, PTL DEF Gateway!Spec

(* The client gets all the program has written, and the program all of the *)
(* body, if the one does not leave and the other does not come too late    *)
(* (forward_body_data, read_message, send_file_data).                      *)
THEOREM CgiOutputWhole == ASSUME CgiHypothesis PROVE Gateway!Spec => []Gateway!OutputWhole
<1>1. CgiInv => Gateway!OutputWhole
  <2> SUFFICES ASSUME CgiInv, NEW w \in Workers, job[w].pc \in Ending, job[w].sent > 0, "gone" \notin Faults
               PROVE  /\ job[w].sent = prog[w].wrote /\ pipe[w].out = 0
                      /\ prog[w].kind.reads = "all" /\ "timeout" \notin Faults => prog[w].taken = job[w].body
    BY DEF Gateway!OutputWhole, Ending
  <2>1. /\ job[w] \in Jobs /\ prog[w] \in Progs /\ pipe[w] \in PipesOf
        /\ Counted(w, job[w], prog[w], pipe[w])
    BY DEF CgiInv, Fine
  <2>2. job[w].sent = job[w].got /\ pipe[w].out = 0 /\ job[w].got + pipe[w].out = prog[w].wrote
    BY <2>1 DEF Counted, Ending
  <2>3. job[w].sent = prog[w].wrote /\ prog[w].wrote > 0
    BY <2>1, <2>2 DEF Jobs, Progs
  <2>4. ASSUME prog[w].kind.reads = "all", "timeout" \notin Faults PROVE prog[w].taken = job[w].body
    <3>1. pipe[w].in = 0 /\ prog[w].taken + pipe[w].in = job[w].fed /\ job[w].fed = job[w].body
      BY <2>1, <2>3, <2>4 DEF Counted, Ending
    <3> QED BY <2>1, <3>1 DEF Progs
  <2> QED BY <2>2, <2>3, <2>4
<1> QED BY <1>1, CgiInit, CgiStep, PTL DEF Gateway!Spec

-----------------------------------------------------------------------------
(* The environment of a CGI program *)

EnvHypothesis ==
    /\ Environ!CgiEnvAssumption /\ LongLength \in Nat
    /\ \A r \in EnvRequests : Environ!Variables(r) \in Seq(STRING)

EnvStrings == [name : STRING, len : Nat]
EnvWanted == Environ!Variables(request)

(* The bytes: what is used ends before the buffer does, and a string is    *)
(* only written where addenv knows how much room there is.                 *)
EnvBytes ==
    /\ block \in [base : Nat, len : Nat, used : Nat] /\ space \in Nat
    /\ pc \in {"next", "print", "done"} => block.used < block.len
    /\ pc = "print" => space \in {0, block.len - block.used}

(* A pointer for each string, and always room for one more. *)
EnvPointers ==
    /\ strings \in Seq(EnvStrings) /\ var = [i \in 1 .. Len(strings) |-> var[i]]
    /\ Len(strings) < MaxVars
    /\ pc = "print" => Len(strings) + 1 < MaxVars

(* Of the variables wanted d have had their turn. *)
EnvTurns(d) ==
    /\ d \in Nat /\ todo \in Seq(STRING) /\ Len(EnvWanted) = d + Len(todo)
    /\ \A i \in 1 .. Len(todo) : todo[i] = EnvWanted[d + i]
    /\ Len(strings) <= d
    /\ Len(strings) + failures >= d \/ Len(strings) = MaxVars - 1
    /\ failures = 0 => \A i \in 1 .. Len(strings) : strings[i].name = EnvWanted[i]

EnvInv ==
    /\ request \in EnvRequests /\ pc \in {"start", "next", "print", "done", "failed"}
    /\ failures \in Nat
    /\ EnvBytes /\ EnvPointers
    /\ pc = "start" => strings = <<>> /\ failures = 0
    /\ pc \in {"next", "print", "done"} => \E d \in Nat : EnvTurns(d)
    /\ pc = "print" => todo # <<>>
    /\ pc = "done" => todo = <<>>

LEMMA EnvInit == ASSUME EnvHypothesis PROVE Environ!Init => EnvInv
<1> SUFFICES ASSUME Environ!Init PROVE EnvInv
  OBVIOUS
<1>1. strings \in Seq(EnvStrings) /\ Len(strings) = 0 /\ MaxVars > 0
  BY DEF Environ!Init, EnvHypothesis, Environ!CgiEnvAssumption
<1>2. var = [i \in 1 .. Len(strings) |-> var[i]]
  <2>1. 1 .. Len(strings) = {} /\ var = <<>>
    BY <1>1 DEF Environ!Init
  <2> QED BY <2>1
<1> QED BY <1>1, <1>2 DEF Environ!Init, EnvInv, EnvBytes, EnvPointers

(* The number of pointers. *)
LEMMA Pointers ==
    ASSUME EnvInv
    PROVE  /\ Len(strings) \in Nat /\ Len(var) = Len(strings)
           /\ var \in Seq({var[i] : i \in 1 .. Len(strings)})
<1>1. Len(strings) \in Nat /\ var = [i \in 1 .. Len(strings) |-> var[i]]
  BY DEF EnvInv, EnvPointers
<1>2. var \in [1 .. Len(strings) -> {var[i] : i \in 1 .. Len(strings)}]
  BY <1>1
<1> QED BY <1>1, <1>2

(* What is left after one more variable has had its turn. *)
LEMMA EnvTurn ==
    ASSUME EnvInv, todo # <<>>, NEW d \in Nat, EnvTurns(d), todo' = Tail(todo), request' = request
    PROVE  /\ Head(todo) = EnvWanted[d + 1]
           /\ todo' \in Seq(STRING) /\ Len(EnvWanted') = d + 1 + Len(todo') /\ EnvWanted' = EnvWanted
           /\ \A i \in 1 .. Len(todo') : todo'[i] = EnvWanted'[d + 1 + i]
<1>1. /\ todo \in Seq(STRING) /\ Len(EnvWanted) = d + Len(todo)
      /\ \A i \in 1 .. Len(todo) : todo[i] = EnvWanted[d + i]
  BY DEF EnvTurns
<1>2. EnvWanted' = EnvWanted
  BY DEF EnvWanted
<1>3. /\ Len(todo) \in Nat \ {0} /\ Head(todo) = todo[1]
      /\ Tail(todo) \in Seq(STRING) /\ Len(Tail(todo)) = Len(todo) - 1
      /\ \A i \in 1 .. Len(Tail(todo)) : Tail(todo)[i] = todo[i + 1]
  BY <1>1, HeadTailProperties, EmptySeq
<1>4. \A i \in 1 .. Len(todo') : todo'[i] = EnvWanted[d + 1 + i]
  <2> SUFFICES ASSUME NEW i \in 1 .. Len(todo') PROVE todo'[i] = EnvWanted[d + 1 + i]
    OBVIOUS
  <2>1. i + 1 \in 1 .. Len(todo) /\ d + (i + 1) = d + 1 + i
    BY <1>3
  <2> QED BY <1>1, <1>3, <2>1
<1> QED BY SMTT(30), <1>1, <1>2, <1>3, <1>4

LEMMA EnvStep == ASSUME EnvHypothesis PROVE EnvInv /\ [Environ!Next]_(Environ!vars) => EnvInv'
<1> SUFFICES ASSUME EnvInv, [Environ!Next]_(Environ!vars) PROVE EnvInv'
  OBVIOUS
<1>0. /\ EnvChunk \in Nat /\ EnvChunk > 2 /\ MaxVars \in Nat /\ MaxVars > 0
      /\ Len(strings) \in Nat /\ Len(var) = Len(strings) /\ failures \in Nat
      /\ block \in [base : Nat, len : Nat, used : Nat]
  BY Pointers DEF EnvHypothesis, Environ!CgiEnvAssumption, EnvInv, EnvBytes
<1>1. request' = request
  BY DEF Environ!vars, Environ!Next, Environ!Prepare, Environ!Begin, Environ!Grow, Environ!Write, Environ!Finish
<1>2. EnvWanted' = EnvWanted
  BY <1>1 DEF EnvWanted
<1>3. ASSUME UNCHANGED <<todo, strings, failures>>, NEW d \in Nat, EnvTurns(d) PROVE EnvTurns(d)'
  BY <1>2, <1>3 DEF EnvTurns
<1>4. CASE UNCHANGED Environ!vars
  <2>1. EnvBytes' /\ EnvPointers'
    BY <1>4 DEF EnvInv, EnvBytes, EnvPointers, Environ!vars
  <2>2. pc' \in {"next", "print", "done"} => \E d \in Nat : EnvTurns(d)'
    BY <1>3, <1>4 DEF EnvInv, Environ!vars
  <2> QED BY <1>1, <1>4, <2>1, <2>2 DEF EnvInv, Environ!vars
<1>5. CASE Environ!Prepare
  <2>1. pc = "start" /\ UNCHANGED <<strings, var, space>> /\ strings = <<>> /\ failures = 0
    BY <1>5 DEF Environ!Prepare, EnvInv
  <2>2. CASE pc' = "next"
    <3>1. /\ block' = [base |-> 0, len |-> EnvChunk, used |-> 0] /\ todo' = EnvWanted /\ failures' = failures
      BY <1>5, <2>2 DEF Environ!Prepare, EnvWanted
    <3>2. EnvBytes' /\ EnvPointers'
      BY <1>0, <2>1, <2>2, <3>1 DEF EnvInv, EnvBytes, EnvPointers
    <3>3. EnvWanted' \in Seq(STRING) /\ todo' = EnvWanted' /\ strings' = <<>> /\ failures' = 0
      BY <1>1, <1>2, <2>1, <3>1 DEF EnvHypothesis, EnvWanted, EnvInv
    <3>4. EnvTurns(0)'
      BY <3>3 DEF EnvTurns
    <3>5. \E c \in Nat : EnvTurns(c)'
      BY <3>4
    <3> QED BY <1>1, <2>1, <2>2, <3>1, <3>2, <3>5 DEF EnvInv
  <2>3. CASE pc' = "failed"
    <3>1. failures' = failures + 1 /\ UNCHANGED <<block, todo>>
      BY <1>5, <2>3 DEF Environ!Prepare, Environ!Failure
    <3>2. EnvBytes' /\ EnvPointers'
      BY <2>1, <2>3, <3>1 DEF EnvInv, EnvBytes, EnvPointers
    <3> QED BY <1>0, <1>1, <2>3, <3>1, <3>2 DEF EnvInv
  <2> QED BY <1>5, <2>2, <2>3 DEF Environ!Prepare
<1>6. CASE Environ!Begin
  <2>1. /\ pc = "next" /\ todo # <<>> /\ UNCHANGED <<block, strings, var, failures>>
        /\ block.used < block.len
    BY <1>6 DEF Environ!Begin, EnvInv, EnvBytes
  <2>2. PICK d \in Nat : EnvTurns(d)
    BY <2>1 DEF EnvInv
  <2>3. CASE Environ!HasPointer
    <3>1. pc' = "print" /\ space' = block.len - block.used /\ todo' = todo
      BY <1>6, <2>3 DEF Environ!Begin
    <3>2. EnvBytes' /\ EnvPointers'
      BY <1>0, <2>1, <2>3, <3>1 DEF EnvInv, EnvBytes, EnvPointers, Environ!HasPointer
    <3> QED BY <1>1, <1>3, <2>1, <2>2, <3>1, <3>2 DEF EnvInv
  <2>4. CASE ~ Environ!HasPointer
    <3>1. todo' = Tail(todo) /\ UNCHANGED <<pc, space>>
      BY <1>6, <2>4 DEF Environ!Begin
    <3>2. EnvBytes' /\ EnvPointers'
      BY <2>1, <3>1 DEF EnvInv, EnvBytes, EnvPointers
    <3>3. Len(strings) = MaxVars - 1
      BY <1>0, <2>4 DEF Environ!HasPointer, EnvInv, EnvPointers
    <3>4. EnvTurns(d + 1)'
      BY <1>0, <1>1, <2>1, <2>2, <3>1, <3>3, EnvTurn DEF EnvTurns
    <3>5. \E c \in Nat : EnvTurns(c)'
      BY <3>4
    <3> QED BY <1>1, <2>1, <3>1, <3>2, <3>5 DEF EnvInv
  <2> QED BY <2>3, <2>4
<1>7. CASE Environ!Grow
  <2>1. /\ pc = "print" /\ UNCHANGED strings /\ todo # <<>> /\ block.used < block.len
        /\ Len(strings) + 1 < MaxVars
    BY <1>7 DEF Environ!Grow, EnvInv, EnvBytes, EnvPointers
  <2>2. PICK d \in Nat : EnvTurns(d)
    BY <2>1 DEF EnvInv
  <2>3. ASSUME NEW b \in {block.base, block.base + 1},
               block' = [block EXCEPT !.base = b, !.len = @ + EnvChunk],
               var' = Environ!Retargeted(b), space' = block.len + EnvChunk - block.used,
               UNCHANGED <<pc, todo, failures>>
        PROVE  EnvInv'
    <3>1. /\ block' \in [base : Nat, len : Nat, used : Nat]
          /\ block'.used = block.used /\ block'.len = block.len + EnvChunk
      <4>1. PICK l : l = block.len + EnvChunk
        OBVIOUS
      <4>2. l \in Nat /\ b \in Nat
        BY <1>0, <2>3, <4>1
      <4>3. block' = [block EXCEPT !.base = b, !.len = l]
        BY <2>3, <4>1
      <4> QED BY ONLY <4>1, <4>2, <4>3, <1>0
    <3>2. EnvBytes'
      BY SMTT(30), <1>0, <2>1, <2>3, <3>1 DEF EnvInv, EnvBytes
    <3>3. DOMAIN var = 1 .. Len(strings)
      BY DEF EnvInv, EnvPointers
    <3>4. var' = [i \in 1 .. Len(strings) |-> var'[i]]
      BY <2>3, <3>3 DEF Environ!Retargeted
    <3>5. EnvPointers'
      BY <2>1, <2>3, <3>4 DEF EnvInv, EnvPointers
    <3> QED BY <1>1, <1>3, <2>1, <2>2, <2>3, <3>2, <3>5 DEF EnvInv
  <2>4. CASE /\ Environ!Failure /\ pc' = "next" /\ todo' = Tail(todo) /\ UNCHANGED <<block, var, space>>
    <3>1. failures' = failures + 1
      BY <2>4 DEF Environ!Failure
    <3>2. EnvBytes' /\ EnvPointers'
      BY <2>1, <2>4 DEF EnvInv, EnvBytes, EnvPointers
    <3>3. failures' # 0 /\ failures' \in Nat
      BY <1>0, <3>1
    <3>4. EnvTurns(d + 1)'
      <4>1. /\ todo' \in Seq(STRING) /\ Len(EnvWanted') = d + 1 + Len(todo')
            /\ \A i \in 1 .. Len(todo') : todo'[i] = EnvWanted'[d + 1 + i]
        BY <1>1, <2>1, <2>2, <2>4, EnvTurn
      <4>2. /\ Len(strings') <= d + 1
            /\ Len(strings') + failures' >= d + 1 \/ Len(strings') = MaxVars - 1
        BY <1>0, <2>1, <2>2, <3>1 DEF EnvTurns
      <4> QED BY <3>3, <4>1, <4>2 DEF EnvTurns
    <3>5. \E c \in Nat : EnvTurns(c)'
      BY <3>4
    <3> QED BY <1>1, <2>4, <3>2, <3>3, <3>5 DEF EnvInv
  <2> QED BY <1>7, <2>3, <2>4 DEF Environ!Grow
<1>8. CASE Environ!Write
  <2>1. /\ pc = "print" /\ space > 2 /\ UNCHANGED failures /\ todo # <<>> /\ block.used < block.len
        /\ Len(strings) + 1 < MaxVars /\ space = block.len - block.used
    BY <1>8 DEF Environ!Write, EnvInv, EnvBytes, EnvPointers
  <2>2. PICK d \in Nat : EnvTurns(d)
    BY <2>1 DEF EnvInv
  <2>3. PICK n : n = Head(todo)
    OBVIOUS
  <2>4. PICK l \in Nat : l = Environ!Length(n)
    BY DEF Environ!Length, EnvHypothesis
  <2>5. n \in STRING
    BY <2>1, <2>2, <2>3, HeadTailProperties DEF EnvTurns
  <2>6. CASE Environ!Fits(n)
    <3>1. /\ strings' = Append(strings, [name |-> n, len |-> l])
          /\ var' = Append(var, [base |-> block.base, at |-> block.used])
          /\ block' = [block EXCEPT !.used = @ + l + 1]
          /\ pc' = "next" /\ todo' = Tail(todo) /\ UNCHANGED space /\ l < space - 1
      BY <1>8, <2>3, <2>4, <2>6 DEF Environ!Write, Environ!Fits
    <3>2. /\ block' \in [base : Nat, len : Nat, used : Nat]
          /\ block'.used = block.used + l + 1 /\ block'.len = block.len
      <4>1. PICK u : u = block.used + l + 1
        OBVIOUS
      <4>2. u \in Nat
        BY <1>0, <4>1
      <4>3. block' = [block EXCEPT !.used = u]
        BY <3>1, <4>1
      <4> QED BY ONLY <4>1, <4>2, <4>3, <1>0
    <3>3. EnvBytes'
      <4>1. block'.used < block'.len
        BY SMTT(30), <1>0, <2>1, <3>1, <3>2
      <4>2. space' \in Nat
        BY <3>1 DEF EnvInv, EnvBytes
      <4> QED BY <3>1, <3>2, <4>1, <4>2 DEF EnvBytes
    <3>4. PICK s \in EnvStrings : s = [name |-> n, len |-> l] /\ s.name = n
      <4>1. [name |-> n, len |-> l] \in EnvStrings /\ [name |-> n, len |-> l].name = n
        BY <2>5 DEF EnvStrings
      <4> QED BY <4>1
    <3>5. /\ strings' \in Seq(EnvStrings) /\ Len(strings') = Len(strings) + 1
          /\ \A i \in 1 .. Len(strings) : strings'[i] = strings[i]
          /\ strings'[Len(strings) + 1].name = n
      <4>1. strings \in Seq(EnvStrings) /\ strings' = Append(strings, s)
        BY <3>1, <3>4 DEF EnvInv, EnvPointers
      <4>2. /\ strings' \in Seq(EnvStrings) /\ Len(strings') = Len(strings) + 1
            /\ \A i \in 1 .. Len(strings) : strings'[i] = strings[i]
            /\ strings'[Len(strings) + 1] = s
        BY ONLY <4>1, AppendProperties
      <4> QED BY <3>4, <4>2
    <3>6. var' = [i \in 1 .. Len(strings') |-> var'[i]]
      <4>1. PICK x : x = [base |-> block.base, at |-> block.used]
        OBVIOUS
      <4>2. PICK S : S = {var[i] : i \in 1 .. Len(strings)} \cup {x}
        OBVIOUS
      <4>3. var \in Seq(S) /\ x \in S /\ var' = Append(var, x)
        <5>1. {var[i] : i \in 1 .. Len(strings)} \subseteq S
          BY <4>2
        <5>2. var \in Seq(S)
          BY <1>0, <5>1, Pointers
        <5> QED BY <3>1, <4>1, <4>2, <5>2
      <4>4. var' \in Seq(S) /\ Len(var') = Len(var) + 1
        BY ONLY <4>3, AppendProperties
      <4>5. Len(var') = Len(strings') /\ var' \in [1 .. Len(var') -> S]
        BY <1>0, <3>5, <4>4
      <4> QED BY <4>5
    <3>7. EnvPointers'
      BY <1>0, <2>1, <3>1, <3>5, <3>6 DEF EnvPointers
    <3>8. EnvTurns(d + 1)'
      <4>1. /\ todo' \in Seq(STRING) /\ Len(EnvWanted') = d + 1 + Len(todo')
            /\ \A i \in 1 .. Len(todo') : todo'[i] = EnvWanted'[d + 1 + i]
            /\ n = EnvWanted'[d + 1]
        BY <1>1, <2>1, <2>2, <2>3, <3>1, EnvTurn
      <4>2. Len(strings') <= d + 1 /\ Len(strings') + failures' >= d + 1
        BY <1>0, <2>1, <2>2, <3>5 DEF EnvTurns
      <4>3. ASSUME failures' = 0, NEW i \in 1 .. Len(strings') PROVE strings'[i].name = EnvWanted'[i]
        <5>1. Len(strings) = d /\ \A j \in 1 .. Len(strings) : strings[j].name = EnvWanted[j]
          BY <1>0, <2>1, <2>2, <4>3 DEF EnvTurns
        <5>2. CASE i \in 1 .. Len(strings)
          BY <1>2, <3>5, <5>1, <5>2
        <5>3. CASE i = Len(strings) + 1
          BY <3>5, <4>1, <5>1, <5>3
        <5> QED BY <1>0, <3>5, <4>3, <5>2, <5>3
      <4> QED BY <4>1, <4>2, <4>3 DEF EnvTurns
    <3>9. \E c \in Nat : EnvTurns(c)'
      BY <3>8
    <3>10. pc' = "next" /\ failures' \in Nat /\ request' \in EnvRequests
      BY <1>0, <1>1, <2>1, <3>1 DEF EnvInv
    <3> QED BY <3>3, <3>7, <3>9, <3>10 DEF EnvInv
  <2>7. CASE ~ Environ!Fits(n)
    <3>1. space' = 0 /\ UNCHANGED <<strings, var, block, pc, todo>>
      BY <1>8, <2>3, <2>7 DEF Environ!Write, Environ!NoSpace
    <3>2. EnvBytes' /\ EnvPointers'
      BY <2>1, <3>1 DEF EnvInv, EnvBytes, EnvPointers
    <3>3. EnvTurns(d)'
      BY <1>3, <2>1, <2>2, <3>1
    <3>4. \E c \in Nat : EnvTurns(c)'
      BY <3>3
    <3>5. pc' = "print" /\ todo' # <<>> /\ failures' \in Nat /\ request' \in EnvRequests
      BY <1>0, <1>1, <2>1, <3>1 DEF EnvInv
    <3> QED BY <3>2, <3>4, <3>5 DEF EnvInv
  <2> QED BY <2>6, <2>7
<1>9. CASE Environ!Finish
  <2>1. pc = "next" /\ todo = <<>> /\ pc' = "done" /\ UNCHANGED <<todo, block, strings, var, space, failures>>
    BY <1>9 DEF Environ!Finish
  <2>2. EnvBytes' /\ EnvPointers'
    BY <2>1 DEF EnvInv, EnvBytes, EnvPointers
  <2>3. PICK d \in Nat : EnvTurns(d)
    BY <2>1 DEF EnvInv
  <2> QED BY <1>1, <1>3, <2>1, <2>2, <2>3 DEF EnvInv
<1> QED BY <1>4, <1>5, <1>6, <1>7, <1>8, <1>9 DEF Environ!Next

(* Whatever allocations fail and however long the variables are: there is  *)
(* room for what ends the environment of a CGI program, and each variable  *)
(* is in it whole and in its order, but for those that came when there     *)
(* were too many or no memory (prepare_cgi_environment, addenv).           *)
THEOREM EnvironWhole ==
    ASSUME EnvHypothesis PROVE Environ!Spec => [](Environ!EndsMarked /\ Environ!NothingLost)
<1>1. EnvInv => Environ!EndsMarked
  BY Pointers DEF EnvInv, EnvBytes, EnvPointers, Environ!EndsMarked
<1>2. EnvInv => Environ!NothingLost
  <2> SUFFICES ASSUME EnvInv, pc = "done" PROVE Environ!NothingLost
    BY DEF Environ!NothingLost
  <2> DEFINE names == [i \in DOMAIN strings |-> strings[i].name]
  <2>1. PICK d \in Nat : EnvTurns(d)
    BY DEF EnvInv
  <2>2. /\ Len(EnvWanted) = d /\ Len(strings) \in Nat /\ Len(strings) < MaxVars /\ Len(strings) <= d
        /\ failures \in Nat /\ MaxVars \in Nat
        /\ Len(strings) + failures >= d \/ Len(strings) = MaxVars - 1
    <3>1. Len(todo) = 0
      BY DEF EnvInv
    <3> QED BY <2>1, <3>1 DEF EnvInv, EnvPointers, EnvTurns, EnvHypothesis, Environ!CgiEnvAssumption
  <2>3. EnvWanted \in Seq(STRING)
    BY DEF EnvInv, EnvHypothesis, EnvWanted
  <2>4. /\ DOMAIN strings = 1 .. Len(strings) /\ \A i \in 1 .. Len(strings) : strings[i].name \in STRING
        /\ names \in Seq(STRING) /\ Len(names) = Len(strings)
        /\ \A i \in 1 .. Len(strings) : names[i] = strings[i].name
    <3>1. strings \in Seq(EnvStrings)
      BY DEF EnvInv, EnvPointers
    <3>2. DOMAIN strings = 1 .. Len(strings) /\ \A i \in 1 .. Len(strings) : strings[i].name \in STRING
      <4>1. DOMAIN strings = 1 .. Len(strings) /\ \A i \in 1 .. Len(strings) : strings[i] \in EnvStrings
        BY <3>1
      <4> QED BY <4>1 DEF EnvStrings
    <3>3. names \in [1 .. Len(strings) -> STRING]
      BY <3>2
    <3> QED BY <2>2, <3>2, <3>3
  <2>5. ASSUME failures = 0 PROVE names = SubSeq(EnvWanted, 1, Len(names))
    <3>1. /\ SubSeq(EnvWanted, 1, Len(strings)) \in Seq(STRING)
          /\ Len(SubSeq(EnvWanted, 1, Len(strings))) = Len(strings)
          /\ \A i \in 1 .. Len(strings) : SubSeq(EnvWanted, 1, Len(strings))[i] = EnvWanted[i]
      <4>1. \A i \in 1 .. Len(strings) : EnvWanted[i] \in STRING
        BY <2>2, <2>3
      <4> QED BY <2>2, <4>1, SubSeqProperties
    <3>2. \A i \in 1 .. Len(strings) : names[i] = EnvWanted[i]
      BY <2>1, <2>4, <2>5 DEF EnvTurns
    <3> HIDE DEF names
    <3> QED BY <2>4, <3>1, <3>2, SeqEqual
  <2>6. ASSUME failures = 0 PROVE Len(names) \in {Len(EnvWanted), MaxVars - 1}
    <3> HIDE DEF names
    <3>1. Len(strings) = d \/ Len(strings) = MaxVars - 1
      BY <2>2, <2>6
    <3> QED BY <2>2, <2>4, <3>1
  <2>7. Len(names) >= (IF Len(EnvWanted) < MaxVars THEN Len(EnvWanted) ELSE MaxVars - 1) - failures
    <3> HIDE DEF names
    <3> QED BY <2>2, <2>4
  <2> QED BY <2>5, <2>6, <2>7 DEF Environ!NothingLost, EnvWanted
<1> QED BY <1>1, <1>2, EnvInit, EnvStep, PTL DEF Environ!Spec

-----------------------------------------------------------------------------
(* WebDAV: what changes the tree *)

DavPaths == Seq(Names)
DavPcs == {"start", "entries", "remove", "stat", "rename", "mkdir", "scan", "done"}
DavCalls == [dir : DavPaths, entries : SUBSET Names, ok : BOOLEAN]

(* Below what is in the tree is the path to it. *)
Rooted(t) == \A p \in t : p = <<>> \/ Dav!Front(p) \in t

(* What the trees and the tasks are. *)
DavHypothesis ==
    /\ ArrSize \in Nat \ {0}
    /\ \A t \in Trees : /\ t = [p \in DOMAIN t |-> t[p]]
                        /\ DOMAIN t \subseteq DavPaths /\ Rooted(DOMAIN t)
    /\ Tasks \subseteq [op : STRING, path : DavPaths, dest : DavPaths \cup {<<"none">>, <<"elsewhere">>},
                        overwrite : BOOLEAN, body : BOOLEAN]

TreeTyped ==
    /\ tree = [p \in DOMAIN tree |-> tree[p]]
    /\ DOMAIN tree \subseteq DavPaths /\ Rooted(DOMAIN tree)

(* What a worker with task t has at each place.                           *)
DavPlace(t, c, s) ==
    /\ \A i \in 1 .. Len(s) : Dav!IsPrefix(t.path, s[i].dir)
    /\ c = "entries" => s # <<>> /\ t.op = "DELETE"
    /\ t.op \in Dav!Moves /\ c \in {"stat", "remove", "rename"} => t.dest \in DavPaths
    /\ c = "remove" => t.overwrite

(* The array of a listing has room for what has been found. *)
DavRoom(f, a) == IsFiniteSet(f) /\ Cardinality(f) <= a

DavInv ==
    /\ TreeTyped
    /\ pc \in [Workers -> DavPcs] /\ task \in [Workers -> Tasks] /\ answer \in [Workers -> Nat]
    /\ stack \in [Workers -> Seq(DavCalls)] /\ found \in [Workers -> SUBSET Names]
    /\ arr_size \in [Workers -> Nat] /\ todo \in [Workers -> SUBSET Names]
    /\ \A w \in Workers : DavPlace(task[w], pc[w], stack[w]) /\ DavRoom(found[w], arr_size[w])

-----------------------------------------------------------------------------
(* Paths *)
LEMMA LenOfPath == ASSUME NEW p \in DavPaths PROVE Len(p) \in Nat /\ p \in Seq(Names)
BY DEF DavPaths

LEMMA PrefixIs ==
    ASSUME NEW p \in DavPaths, NEW q \in DavPaths
    PROVE  Dav!IsPrefix(p, q) <=> Len(p) <= Len(q) /\ \A i \in 1 .. Len(p) : p[i] = q[i]
<1>1. Len(p) \in Nat /\ Len(q) \in Nat
  BY DEF DavPaths
<1>2. SubSeq(p, 1, Len(p)) = p
  BY SubSeqFull DEF DavPaths
<1>3. ASSUME Len(p) <= Len(q) PROVE SubSeq(q, 1, Len(p)) = p <=> \A i \in 1 .. Len(p) : p[i] = q[i]
  <2>1. /\ SubSeq(q, 1, Len(p)) \in Seq(Names) /\ Len(SubSeq(q, 1, Len(p))) = Len(p)
        /\ \A i \in 1 .. Len(p) : SubSeq(q, 1, Len(p))[i] = q[i]
    <3>1. \A i \in 1 .. Len(p) : q[i] \in Names
      BY <1>1, <1>3 DEF DavPaths
    <3> QED BY <3>1, <1>1, SubSeqProperties
  <2>2. ASSUME \A i \in 1 .. Len(p) : p[i] = q[i] PROVE SubSeq(q, 1, Len(p)) = p
    BY <2>1, <2>2, SeqEqual DEF DavPaths
  <2> QED BY <2>1, <2>2
<1> QED BY <1>1, <1>2, <1>3 DEF Dav!IsPrefix

LEMMA FrontIs ==
    ASSUME NEW p \in DavPaths, p # <<>>
    PROVE  /\ Dav!Front(p) \in DavPaths /\ Len(Dav!Front(p)) = Len(p) - 1 /\ Len(p) \in Nat \ {0}
           /\ \A i \in 1 .. Len(p) - 1 : Dav!Front(p)[i] = p[i]
<1>1. Len(p) \in Nat \ {0} /\ \A i \in 1 .. Len(p) - 1 : p[i] \in Names
  BY EmptySeq DEF DavPaths
<1>2. /\ SubSeq(p, 1, Len(p) - 1) \in Seq(Names)
      /\ Len(SubSeq(p, 1, Len(p) - 1)) = IF 1 <= Len(p) - 1 THEN Len(p) - 1 - 1 + 1 ELSE 0
      /\ \A i \in 1 .. Len(p) - 1 - 1 + 1 : SubSeq(p, 1, Len(p) - 1)[i] = p[1 + i - 1]
  <2>1. 1 \in Int /\ Len(p) - 1 \in Int
    BY <1>1
  <2> QED BY ONLY <2>1, <1>1, SubSeqProperties
<1>3. PICK f : f = SubSeq(p, 1, Len(p) - 1)
  OBVIOUS
<1>4. f \in Seq(Names) /\ Len(f) = Len(p) - 1 /\ \A i \in 1 .. Len(p) - 1 : f[i] = p[i]
  <2>1. PICK n \in Nat : n = Len(p) - 1
    BY <1>1
  <2>2. (IF 1 <= n THEN n - 1 + 1 ELSE 0) = n /\ n - 1 + 1 = n
    BY <2>1
  <2>3. \A i \in 1 .. n : 1 + i - 1 = i
    BY <2>1
  <2>4. f \in Seq(Names) /\ Len(f) = n /\ \A i \in 1 .. n : f[i] = p[1 + i - 1]
    BY ONLY <1>2, <1>3, <2>1, <2>2
  <2> QED BY ONLY <2>1, <2>3, <2>4
<1>5. Dav!Front(p) = f
  BY <1>3 DEF Dav!Front
<1> QED BY <1>1, <1>4, <1>5 DEF DavPaths

LEMMA FrontAppended ==
    ASSUME NEW p \in DavPaths, p # <<>>
    PROVE  p[Len(p)] \in Names /\ p = Append(Dav!Front(p), p[Len(p)])
<1>1. PICK f \in DavPaths : f = Dav!Front(p) /\ Len(f) = Len(p) - 1 /\ \A i \in 1 .. Len(p) - 1 : f[i] = p[i]
  BY FrontIs
<1>2. Len(p) \in Nat \ {0} /\ p \in Seq(Names) /\ p[Len(p)] \in Names
  BY EmptySeq DEF DavPaths
<1>3. PICK e \in Seq(Names) : e = Append(f, p[Len(p)]) /\ Len(e) = Len(p) /\ \A i \in 1 .. Len(p) : e[i] = p[i]
  <2>1. PICK e : e = Append(f, p[Len(p)])
    OBVIOUS
  <2>2. /\ e \in Seq(Names) /\ Len(e) = Len(f) + 1 /\ e[Len(f) + 1] = p[Len(p)]
        /\ \A i \in 1 .. Len(f) : e[i] = f[i]
    BY <1>2, <2>1, AppendProperties DEF DavPaths
  <2>3. \A i \in 1 .. Len(p) : e[i] = p[i]
    BY <1>1, <1>2, <2>2
  <2> QED BY <1>1, <1>2, <2>1, <2>2, <2>3
<1>4. e = p
  BY <1>2, <1>3, SeqEqual
<1> QED BY <1>1, <1>2, <1>3, <1>4

(* What is below p, seen from d instead. *)
MovedTo(p, d, q) == d \o SubSeq(q, Len(p) + 1, Len(q))

LEMMA MovedIs ==
    ASSUME NEW p \in DavPaths, NEW d \in DavPaths, NEW q \in DavPaths, Dav!IsPrefix(p, q)
    PROVE  /\ MovedTo(p, d, q) \in DavPaths /\ Len(MovedTo(p, d, q)) = Len(d) + Len(q) - Len(p)
           /\ \A i \in 1 .. Len(d) : MovedTo(p, d, q)[i] = d[i]
           /\ \A i \in Len(p) + 1 .. Len(q) : MovedTo(p, d, q)[Len(d) + i - Len(p)] = q[i]
<1>1. Len(p) \in Nat /\ Len(q) \in Nat /\ Len(d) \in Nat /\ Len(p) <= Len(q)
  BY PrefixIs DEF DavPaths
<1>2. PICK s : s = SubSeq(q, Len(p) + 1, Len(q))
  OBVIOUS
<1>3. /\ s \in Seq(Names) /\ Len(s) = Len(q) - Len(p)
      /\ \A i \in 1 .. Len(q) - Len(p) : s[i] = q[Len(p) + i]
  <2>1. Len(p) + 1 \in Int /\ Len(q) \in Int /\ \A i \in Len(p) + 1 .. Len(q) : q[i] \in Names
    BY <1>1 DEF DavPaths
  <2>2. /\ s \in Seq(Names) /\ Len(s) = IF Len(p) + 1 <= Len(q) THEN Len(q) - (Len(p) + 1) + 1 ELSE 0
        /\ \A i \in 1 .. Len(q) - (Len(p) + 1) + 1 : s[i] = q[Len(p) + 1 + i - 1]
    BY ONLY <1>2, <2>1, SubSeqProperties
  <2> QED BY <1>1, <2>2
<1>4. /\ d \o s \in Seq(Names) /\ Len(d \o s) = Len(d) + Len(s)
      /\ \A i \in 1 .. Len(d) + Len(s) : (d \o s)[i] = IF i <= Len(d) THEN d[i] ELSE s[i - Len(d)]
  BY <1>3, ConcatProperties DEF DavPaths
<1>5. MovedTo(p, d, q) = d \o s
  BY <1>2 DEF MovedTo
<1>6. PICK m : m = d \o s
  OBVIOUS
<1>7. \A i \in Len(p) + 1 .. Len(q) : m[Len(d) + i - Len(p)] = q[i]
  <2> SUFFICES ASSUME NEW i \in Len(p) + 1 .. Len(q) PROVE m[Len(d) + i - Len(p)] = q[i]
    OBVIOUS
  <2>1. m[Len(d) + i - Len(p)] = s[Len(d) + i - Len(p) - Len(d)]
    BY <1>1, <1>3, <1>4, <1>6
  <2>2. Len(d) + i - Len(p) - Len(d) = i - Len(p) /\ i - Len(p) \in 1 .. Len(q) - Len(p) /\ Len(p) + (i - Len(p)) = i
    BY <1>1
  <2> QED BY <1>3, <2>1, <2>2
<1>8. m \in DavPaths /\ Len(m) = Len(d) + Len(q) - Len(p) /\ \A i \in 1 .. Len(d) : m[i] = d[i]
  BY <1>1, <1>3, <1>4, <1>6 DEF DavPaths
<1> QED BY ONLY <1>5, <1>6, <1>7, <1>8

LEMMA MovedHas ==
    ASSUME NEW p \in DavPaths, NEW d \in DavPaths, NEW q \in DavPaths, Dav!IsPrefix(p, q)
    PROVE  \E m \in DavPaths : /\ m = MovedTo(p, d, q) /\ Len(m) = Len(d) + Len(q) - Len(p)
                               /\ \A i \in 1 .. Len(d) : m[i] = d[i]
                               /\ \A i \in Len(p) + 1 .. Len(q) : m[Len(d) + i - Len(p)] = q[i]
<1>1. PICK m : m = MovedTo(p, d, q)
  OBVIOUS
<1>2. /\ m \in DavPaths /\ Len(m) = Len(d) + Len(q) - Len(p)
      /\ \A i \in 1 .. Len(d) : m[i] = d[i]
      /\ \A i \in Len(p) + 1 .. Len(q) : m[Len(d) + i - Len(p)] = q[i]
  <2>1. /\ MovedTo(p, d, q) \in DavPaths /\ Len(MovedTo(p, d, q)) = Len(d) + Len(q) - Len(p)
        /\ \A i \in 1 .. Len(d) : MovedTo(p, d, q)[i] = d[i]
        /\ \A i \in Len(p) + 1 .. Len(q) : MovedTo(p, d, q)[Len(d) + i - Len(p)] = q[i]
    BY MovedIs
  <2> QED BY ONLY <1>1, <2>1
<1> QED BY ONLY <1>1, <1>2

(* Two that move to the same place were at the same place. *)
LEMMA MovedApart ==
    ASSUME NEW p \in DavPaths, NEW d \in DavPaths, NEW q \in DavPaths, NEW r \in DavPaths,
           Dav!IsPrefix(p, q), Dav!IsPrefix(p, r), MovedTo(p, d, q) = MovedTo(p, d, r)
    PROVE  q = r
<1>1. /\ Len(p) \in Nat /\ Len(q) \in Nat /\ Len(d) \in Nat /\ Len(r) \in Nat
      /\ q \in Seq(Names) /\ r \in Seq(Names)
  BY DEF DavPaths
<1>2. \A i \in 1 .. Len(p) : q[i] = p[i] /\ r[i] = p[i]
  BY PrefixIs
<1>3. Len(q) = Len(r)
  <2>1. Len(d) + Len(q) - Len(p) = Len(d) + Len(r) - Len(p)
    <3>1. Len(MovedTo(p, d, q)) = Len(d) + Len(q) - Len(p)
      BY MovedIs
    <3>2. Len(MovedTo(p, d, r)) = Len(d) + Len(r) - Len(p)
      BY MovedIs
    <3> QED BY ONLY <3>1, <3>2, MovedTo(p, d, q) = MovedTo(p, d, r)
  <2> QED BY ONLY <1>1, <2>1
<1>4. PICK m : m = MovedTo(p, d, q) /\ m = MovedTo(p, d, r)
  OBVIOUS
<1>5. ASSUME NEW i \in 1 .. Len(q) PROVE q[i] = r[i]
  <2>1. CASE i \in 1 .. Len(p)
    BY <1>2, <2>1
  <2>2. CASE i \in Len(p) + 1 .. Len(q)
    <3>1. m[Len(d) + i - Len(p)] = q[i] /\ m[Len(d) + i - Len(p)] = r[i]
      <4>1. \A j \in Len(p) + 1 .. Len(q) : MovedTo(p, d, q)[Len(d) + j - Len(p)] = q[j]
        BY MovedIs
      <4>2. \A j \in Len(p) + 1 .. Len(r) : MovedTo(p, d, r)[Len(d) + j - Len(p)] = r[j]
        BY MovedIs
      <4> QED BY ONLY <1>3, <1>4, <2>2, <4>1, <4>2
    <3> QED BY ONLY <3>1
  <2> QED BY <1>1, <2>1, <2>2
<1> QED BY <1>1, <1>3, <1>5, SeqEqual

(* A path that is not longer and has the same names is the path.           *)
LEMMA PrefixAlike ==
    ASSUME NEW p \in DavPaths, NEW q \in DavPaths, Dav!IsPrefix(p, q), Len(q) <= Len(p)
    PROVE  p = q
<1>1. Len(p) \in Nat /\ Len(q) \in Nat /\ p \in Seq(Names) /\ q \in Seq(Names)
  BY DEF DavPaths
<1>2. Len(p) = Len(q) /\ \A i \in 1 .. Len(p) : p[i] = q[i]
  BY <1>1, PrefixIs
<1> QED BY <1>1, <1>2, SeqEqual

(* A path that is below another, but is not it, has a parent that is below *)
(* it, too.                                                                *)
LEMMA FrontBelow ==
    ASSUME NEW p \in DavPaths, NEW q \in DavPaths, Dav!IsPrefix(p, q), p # q
    PROVE  q # <<>> /\ Len(q) > Len(p) /\ Dav!IsPrefix(p, Dav!Front(q))
<1>1. Len(p) \in Nat /\ Len(q) \in Nat /\ Len(p) <= Len(q) /\ \A i \in 1 .. Len(p) : p[i] = q[i]
  BY PrefixIs DEF DavPaths
<1>2. Len(q) > Len(p)
  BY <1>1, PrefixAlike
<1>3. q # <<>>
  BY <1>1, <1>2
<1>4. PICK f \in DavPaths : f = Dav!Front(q) /\ Len(f) = Len(q) - 1 /\ \A i \in 1 .. Len(q) - 1 : f[i] = q[i]
  BY <1>3, FrontIs
<1>5. Len(p) <= Len(f) /\ \A i \in 1 .. Len(p) : p[i] = f[i]
  BY <1>1, <1>2, <1>4
<1>6. Dav!IsPrefix(p, f)
  BY <1>5, PrefixIs
<1> QED BY <1>2, <1>3, <1>4, <1>6

(* What is below a parent's parent ...                                     *)
LEMMA BelowFront ==
    ASSUME NEW p \in DavPaths, NEW q \in DavPaths, q # <<>>, Dav!IsPrefix(p, Dav!Front(q))
    PROVE  Dav!IsPrefix(p, q) /\ p # q
<1>1. PICK f \in DavPaths : f = Dav!Front(q) /\ Len(f) = Len(q) - 1 /\ \A i \in 1 .. Len(q) - 1 : f[i] = q[i]
  BY FrontIs
<1>2. Len(p) \in Nat /\ Len(q) \in Nat /\ Len(p) <= Len(f) /\ \A i \in 1 .. Len(p) : p[i] = f[i]
  BY <1>1, PrefixIs DEF DavPaths
<1>3. Len(p) <= Len(q) /\ Len(p) # Len(q) /\ \A i \in 1 .. Len(p) : p[i] = q[i]
  BY <1>1, <1>2
<1> QED BY <1>3, PrefixIs

LEMMA PrefixSelf == ASSUME NEW p \in DavPaths PROVE Dav!IsPrefix(p, p)
BY PrefixIs DEF DavPaths

LEMMA BelowSelf == ASSUME NEW p \in DavPaths, p \in DOMAIN tree PROVE p \in Dav!Below(p)
<1>1. Dav!IsPrefix(p, p)
  BY PrefixSelf
<1> QED BY <1>1 DEF Dav!Below

(* Where there is no entry in a directory there is nothing at all below.   *)
LEMMA NothingBelow ==
    ASSUME TreeTyped, NEW d \in DavPaths, Dav!Exists(d) => Dav!Entries(d) = {},
           NEW q \in DOMAIN tree, Dav!IsPrefix(d, q)
    PROVE  q = d
<1> SUFFICES ASSUME q # d PROVE FALSE
  OBVIOUS
<1> DEFINE below == {r \in DOMAIN tree : Dav!IsPrefix(d, r) /\ r # d}
           lengths == {Len(r) : r \in below}
<1>1. lengths \in SUBSET Nat /\ lengths # {}
  <2>1. \A r \in DOMAIN tree : Len(r) \in Nat
    BY DEF TreeTyped, DavPaths
  <2>2. q \in below
    OBVIOUS
  <2> QED BY <2>1, <2>2
<1>2. PICK m \in lengths : \A n \in lengths : m <= n
  <2> HIDE DEF lengths
  <2> QED BY <1>1, LeastNat
<1>3. PICK r \in below : Len(r) = m
  BY <1>2
<1>4. r \in DavPaths /\ r \in DOMAIN tree /\ Dav!IsPrefix(d, r) /\ r # d /\ Len(r) \in Nat
  BY <1>3 DEF TreeTyped, DavPaths
<1>5. r # <<>> /\ Dav!IsPrefix(d, Dav!Front(r))
  BY <1>4, FrontBelow
<1>6. PICK f \in DavPaths : f = Dav!Front(r) /\ Len(f) = Len(r) - 1
  BY <1>4, <1>5, FrontIs
<1>7. f \in DOMAIN tree /\ Dav!IsPrefix(d, f)
  BY <1>4, <1>5, <1>6 DEF TreeTyped, Rooted
<1>8. f = d
  <2> SUFFICES ASSUME f # d PROVE FALSE
    OBVIOUS
  <2>1. Len(f) \in lengths
    BY <1>7
  <2>2. Len(r) <= Len(f)
    BY <1>2, <1>3, <2>1
  <2> QED BY <1>4, <1>6, <2>2
<1>9. r[Len(r)] \in Names /\ r = Append(d, r[Len(r)])
  BY <1>4, <1>5, <1>6, <1>8, FrontAppended
<1>10. r[Len(r)] \in Dav!Entries(d) /\ Dav!Exists(d)
  BY <1>4, <1>7, <1>8, <1>9 DEF Dav!Entries, Dav!Exists
<1> QED BY <1>10

MayRename(p, d) == Dav!RenameError(p, d) = ""

(* What rename(2) has found, when it has no errno to fail with.            *)
LEMMA RenameFound ==
    ASSUME TreeTyped, NEW p \in DavPaths, NEW d \in DavPaths, MayRename(p, d)
    PROVE  /\ p \in DOMAIN tree /\ d # <<>> /\ Dav!Front(d) \in DOMAIN tree
           /\ p # d => ~ Dav!IsPrefix(p, d)
           /\ p # d => \A q \in DOMAIN tree : Dav!IsPrefix(d, q) => q = d
<1>1. /\ Dav!Exists(p) /\ Dav!IsDir(Dav!Front(d)) /\ Dav!Changeable(p) /\ Dav!Changeable(d)
      /\ ~ (Dav!Exists(d) /\ d # p /\ (Dav!IsDir(p) # Dav!IsDir(d) \/ Dav!Entries(d) # {}))
      /\ ~ Dav!IsStrictPrefix(p, d)
  BY DEF MayRename, Dav!RenameError
<1>2. p # d => \A q \in DOMAIN tree : Dav!IsPrefix(d, q) => q = d
  BY <1>1, NothingBelow
<1> QED BY <1>1, <1>2 DEF Dav!Exists, Dav!IsDir, Dav!Changeable, Dav!IsStrictPrefix

DavKept(p, d) == (DOMAIN tree \ Dav!Below(p)) \ {d}
DavMoved(p, d) == {MovedTo(p, d, q) : q \in Dav!Below(p)}

(* The tree that rename(2) leaves.                                         *)
LEMMA RenamedIs ==
    ASSUME TreeTyped, NEW p \in DavPaths, NEW d \in DavPaths, MayRename(p, d),
           NEW t, t = Dav!Renamed(p, d)
    PROVE  /\ t = [q \in DOMAIN t |-> t[q]] /\ DOMAIN t = DavKept(p, d) \cup DavMoved(p, d)
           /\ \A q \in Dav!Below(p) : t[MovedTo(p, d, q)] = tree[q]
           /\ \A q \in DavKept(p, d) : t[q] = tree[q]
           /\ p # d => p \notin DOMAIN t
<1>1. /\ p \in DOMAIN tree
      /\ p # d => ~ Dav!IsPrefix(p, d)
      /\ p # d => \A q \in DOMAIN tree : Dav!IsPrefix(d, q) => q = d
  BY RenameFound
<1>2. \A q \in Dav!Below(p) : q \in DOMAIN tree /\ q \in DavPaths /\ Dav!IsPrefix(p, q)
  BY DEF Dav!Below, TreeTyped
<1>3. \A q \in Dav!Below(p) : Dav!Moved(p, d)[q] = MovedTo(p, d, q)
  BY DEF Dav!Moved, MovedTo
<1>4. {Dav!Moved(p, d)[q] : q \in Dav!Below(p)} = DavMoved(p, d)
  BY <1>3 DEF DavMoved
<1>5. \A q, r \in Dav!Below(p) : MovedTo(p, d, q) = MovedTo(p, d, r) => q = r
  BY <1>2, MovedApart
<1>6. t = [q \in DavKept(p, d) \cup DavMoved(p, d) |->
             IF q \in DavMoved(p, d) THEN tree[CHOOSE o \in Dav!Below(p) : Dav!Moved(p, d)[o] = q] ELSE tree[q]]
  <2>1. t = [q \in DavKept(p, d) \cup {Dav!Moved(p, d)[q] : q \in Dav!Below(p)} |->
               IF q \in {Dav!Moved(p, d)[o] : o \in Dav!Below(p)}
               THEN tree[CHOOSE o \in Dav!Below(p) : Dav!Moved(p, d)[o] = q] ELSE tree[q]]
    BY Zenon DEF Dav!Renamed, DavKept
  <2> QED BY <1>4, <2>1, Zenon
<1>7. ASSUME NEW q \in Dav!Below(p) PROVE t[MovedTo(p, d, q)] = tree[q]
  <2>1. MovedTo(p, d, q) \in DavMoved(p, d)
    BY DEF DavMoved
  <2>2. PICK o : o = CHOOSE x \in Dav!Below(p) : Dav!Moved(p, d)[x] = MovedTo(p, d, q)
    OBVIOUS
  <2>3. o \in Dav!Below(p) /\ Dav!Moved(p, d)[o] = MovedTo(p, d, q)
    BY <1>3, <2>2
  <2>4. o = q
    BY <1>3, <1>5, <2>3
  <2> QED BY <1>6, <2>1, <2>2, <2>4
(* What is moved starts with d, and nothing that is kept does.             *)
<1>8. ASSUME NEW q \in Dav!Below(p)
      PROVE  MovedTo(p, d, q) \in DavPaths /\ Dav!IsPrefix(d, MovedTo(p, d, q))
  <2>0. q \in DavPaths /\ Dav!IsPrefix(p, q)
    BY <1>2
  <2>1. PICK m \in DavPaths : /\ m = MovedTo(p, d, q) /\ Len(m) = Len(d) + Len(q) - Len(p)
                              /\ \A i \in 1 .. Len(d) : m[i] = d[i]
    BY <2>0, MovedHas
  <2>2. Len(d) \in Nat /\ Len(q) \in Nat /\ Len(p) \in Nat /\ Len(p) <= Len(q)
    BY <2>0, PrefixIs, LenOfPath
  <2>3. Len(d) <= Len(m)
    BY ONLY <2>1, <2>2
  <2> QED BY <2>1, <2>3, PrefixIs
<1>9. ASSUME NEW q \in DavKept(p, d) PROVE q \notin DavMoved(p, d)
  <2> SUFFICES ASSUME NEW r \in Dav!Below(p), q = MovedTo(p, d, r) PROVE FALSE
    BY DEF DavMoved
  <2>1. Dav!IsPrefix(d, q) /\ q \in DOMAIN tree /\ q # d /\ ~ Dav!IsPrefix(p, q)
    BY <1>8 DEF DavKept, Dav!Below
  <2> QED BY <1>1, <2>1
<1>10. \A q \in DavKept(p, d) : t[q] = tree[q]
  BY <1>6, <1>9
<1>11. ASSUME p # d PROVE p \notin DOMAIN t
  <2>1. p \in Dav!Below(p)
    BY <1>1, BelowSelf
  <2>2. p \notin DavKept(p, d)
    BY <2>1 DEF DavKept
  <2>3. ASSUME NEW r \in Dav!Below(p), p = MovedTo(p, d, r) PROVE FALSE
    <3>1. Dav!IsPrefix(d, p)
      BY <1>8, <2>3
    <3>2. p \in DOMAIN tree /\ \A q \in DOMAIN tree : Dav!IsPrefix(d, q) => q = d
      BY <1>1, <1>11
    <3> QED BY <1>11, <3>1, <3>2
  <2> QED BY <1>6, <2>2, <2>3 DEF DavMoved
<1> QED BY <1>6, <1>7, <1>10, <1>11

(* ... in which every path has a parent, as before.                        *)
LEMMA RenamedTyped ==
    ASSUME TreeTyped, NEW p \in DavPaths, NEW d \in DavPaths, MayRename(p, d),
           tree' = Dav!Renamed(p, d)
    PROVE  TreeTyped'
<1>1. PICK t : t = tree'
  OBVIOUS
<1>2. /\ t = [q \in DOMAIN t |-> t[q]] /\ DOMAIN t = DavKept(p, d) \cup DavMoved(p, d)
  <2>1. t = Dav!Renamed(p, d)
    BY <1>1
  <2> QED BY <2>1, RenamedIs
<1>3. /\ p \in DOMAIN tree /\ d # <<>> /\ Dav!Front(d) \in DOMAIN tree
      /\ p # d => ~ Dav!IsPrefix(p, d)
  BY RenameFound
<1>4. \A q \in Dav!Below(p) : q \in DOMAIN tree /\ q \in DavPaths /\ Dav!IsPrefix(p, q)
  BY DEF Dav!Below, TreeTyped
<1>5. DavKept(p, d) \subseteq DavPaths /\ DavMoved(p, d) \subseteq DavPaths
  BY <1>4, MovedIs DEF DavKept, DavMoved, TreeTyped
<1>6. p \in Dav!Below(p) /\ MovedTo(p, d, p) = d
  <2>1. p \in Dav!Below(p)
    BY <1>3, BelowSelf
  <2>2. PICK m \in DavPaths : /\ m = MovedTo(p, d, p) /\ Len(m) = Len(d) + Len(p) - Len(p)
                              /\ \A i \in 1 .. Len(d) : m[i] = d[i]
    BY ZenonT(40), PrefixSelf, MovedHas
  <2>3. Len(d) \in Nat /\ Len(p) \in Nat /\ m \in Seq(Names) /\ d \in Seq(Names)
    BY LenOfPath
  <2>4. Len(m) = Len(d)
    BY ONLY <2>2, <2>3
  <2>5. m = d
    BY <2>2, <2>3, <2>4, SeqEqual
  <2> QED BY <2>1, <2>2, <2>5
<1>7. d \in DavMoved(p, d)
  BY <1>6 DEF DavMoved
<1>8. ASSUME NEW q \in DavKept(p, d), q # <<>> PROVE Dav!Front(q) \in DOMAIN t
  <2>1. q \in DOMAIN tree /\ q \in DavPaths /\ ~ Dav!IsPrefix(p, q)
    BY <1>5 DEF DavKept, Dav!Below
  <2>2. Dav!Front(q) \in DOMAIN tree
    BY <1>8, <2>1 DEF TreeTyped, Rooted
  <2>3. ~ Dav!IsPrefix(p, Dav!Front(q))
    BY <1>8, <2>1, BelowFront
  <2> QED BY <1>2, <1>7, <2>2, <2>3 DEF DavKept, Dav!Below
(* The parent of what is moved.                                            *)
<1>9. ASSUME NEW q \in Dav!Below(p), q # p PROVE Dav!Front(MovedTo(p, d, q)) \in DavMoved(p, d)
  <2>1. q # <<>> /\ Len(q) > Len(p) /\ Dav!IsPrefix(p, Dav!Front(q)) /\ q \in DavPaths
        /\ Len(q) \in Nat /\ Len(p) \in Nat /\ Len(d) \in Nat /\ Dav!IsPrefix(p, q)
    <3>1. q \in DavPaths /\ Dav!IsPrefix(p, q)
      BY <1>4
    <3> QED BY <1>9, <3>1, FrontBelow, LenOfPath
  <2>2. PICK f \in DavPaths : f = Dav!Front(q) /\ Len(f) = Len(q) - 1 /\ \A i \in 1 .. Len(q) - 1 : f[i] = q[i]
    BY <2>1, FrontIs
  <2>3. f \in Dav!Below(p)
    BY <1>4, <2>1, <2>2 DEF Dav!Below, TreeTyped, Rooted
  <2>4. PICK m \in DavPaths : /\ m = MovedTo(p, d, q) /\ Len(m) = Len(d) + Len(q) - Len(p)
                              /\ \A i \in 1 .. Len(d) : m[i] = d[i]
                              /\ \A i \in Len(p) + 1 .. Len(q) : m[Len(d) + i - Len(p)] = q[i]
    BY <2>1, MovedHas
  <2>5. PICK n \in DavPaths : /\ n = MovedTo(p, d, f) /\ Len(n) = Len(d) + Len(f) - Len(p)
                              /\ \A i \in 1 .. Len(d) : n[i] = d[i]
                              /\ \A i \in Len(p) + 1 .. Len(f) : n[Len(d) + i - Len(p)] = f[i]
    BY ZenonT(40), <2>1, <2>2, MovedHas
  <2>6. m # <<>>
    <3>1. Len(m) > 0
      BY ONLY <2>1, <2>4
    <3> QED BY ONLY <3>1
  <2>7. PICK g \in DavPaths : g = Dav!Front(m) /\ Len(g) = Len(m) - 1 /\ \A i \in 1 .. Len(m) - 1 : g[i] = m[i]
    BY <2>6, FrontIs
  <2>8. Len(g) = Len(n) /\ Len(g) = Len(d) + Len(q) - Len(p) - 1 /\ Len(g) \in Nat
    BY ONLY <2>1, <2>2, <2>4, <2>5, <2>7
  <2>9. ASSUME NEW i \in 1 .. Len(g) PROVE g[i] = n[i]
    <3>1. g[i] = m[i]
      BY ONLY <2>1, <2>4, <2>7, <2>8
    <3>2. CASE i \in 1 .. Len(d)
      BY ONLY <2>4, <2>5, <3>1, <3>2
    <3>3. CASE ~ (i \in 1 .. Len(d))
      <4>1. PICK j : j = i - Len(d) + Len(p)
        OBVIOUS
      <4>2. j \in Len(p) + 1 .. Len(q) - 1 /\ Len(d) + j - Len(p) = i
        BY ONLY <2>1, <2>8, <3>3, <4>1, i \in 1 .. Len(g)
      <4>3. j \in Len(p) + 1 .. Len(q) /\ j \in Len(p) + 1 .. Len(f) /\ j \in 1 .. Len(q) - 1
        BY ONLY <2>1, <2>2, <4>2
      <4>4. m[i] = q[j]
        BY ONLY <2>4, <4>2, <4>3
      <4>5. n[i] = f[j]
        BY ONLY <2>5, <4>2, <4>3
      <4>6. f[j] = q[j]
        BY ONLY <2>2, <4>3
      <4> QED BY ONLY <3>1, <4>4, <4>5, <4>6
    <3> QED BY ONLY <3>2, <3>3
  <2>10. g = n
    BY <2>8, <2>9, SeqEqual DEF DavPaths
  <2> QED BY <2>3, <2>4, <2>5, <2>7, <2>10 DEF DavMoved
<1>10. Dav!Front(d) \in DOMAIN t
  <2>1. ~ Dav!IsPrefix(p, Dav!Front(d))
    BY <1>3, BelowFront
  <2> QED BY <1>2, <1>3, <1>7, <2>1 DEF DavKept, Dav!Below
<1>11. ASSUME NEW q \in DOMAIN t PROVE q = <<>> \/ Dav!Front(q) \in DOMAIN t
  <2>1. CASE q \in DavKept(p, d)
    BY <1>8, <2>1
  <2>2. CASE q \in DavMoved(p, d)
    <3>1. PICK r \in Dav!Below(p) : q = MovedTo(p, d, r)
      BY <2>2 DEF DavMoved
    <3> QED BY <1>2, <1>6, <1>9, <1>10, <3>1
  <2> QED BY <1>2, <2>1, <2>2
<1> QED BY <1>1, <1>2, <1>5, <1>11 DEF TreeTyped, Rooted

-----------------------------------------------------------------------------
(* The steps of WebDAV. *)

(* What a task may have lost a file for. *)
DavCause(p) ==
    \E w \in Workers :
        \/ task[w].op = "DELETE" /\ Dav!IsPrefix(task[w].path, p)
        \/ task[w].op \in Dav!Moves /\ task[w].dest = p
             /\ (task[w].overwrite \/ pc[w] = "rename")

LEMMA NoneLost ==
    ASSUME \A p \in DOMAIN tree : p \in DOMAIN tree' /\ tree'[p] = tree[p]
    PROVE  Dav!LostForCause
BY DEF Dav!LostForCause, Dav!Vanished

LEMMA OneLost ==
    ASSUME NEW p, \A q \in DOMAIN tree : q # p => q \in DOMAIN tree' /\ tree'[q] = tree[q],
           p \in DOMAIN tree => tree[p] = "dir" \/ DavCause(p)
    PROVE  Dav!LostForCause
<1> SUFFICES ASSUME NEW f \in Dav!Vanished, NEW q \in DOMAIN tree, tree[q] = f PROVE DavCause(q)
  BY DEF Dav!LostForCause, DavCause
<1>1. f # "dir" /\ \A r \in DOMAIN tree' : tree'[r] # f
  BY DEF Dav!Vanished
<1>2. q = p
  BY <1>1
<1> QED BY <1>1, <1>2

(* A path without entries is taken out of the tree.                        *)
LEMMA WithoutIs ==
    ASSUME TreeTyped, NEW p \in DavPaths, Dav!Removable(p), tree' = Dav!Without({p})
    PROVE  TreeTyped' /\ \A q \in DOMAIN tree : q # p => q \in DOMAIN tree' /\ tree'[q] = tree[q]
<1>1. p \in DOMAIN tree /\ Dav!Entries(p) = {}
  BY DEF Dav!Removable, Dav!Exists
<1>2. tree' = [q \in DOMAIN tree \ {p} |-> tree[q]] /\ DOMAIN tree' = DOMAIN tree \ {p}
  BY DEF Dav!Without
<1>3. ASSUME NEW q \in DOMAIN tree, q # p, q # <<>> PROVE Dav!Front(q) \in DOMAIN tree \ {p}
  <2>1. q \in DavPaths /\ Dav!Front(q) \in DOMAIN tree
    BY <1>3 DEF TreeTyped, Rooted
  <2>2. q[Len(q)] \in Names /\ q = Append(Dav!Front(q), q[Len(q)])
    BY <1>3, <2>1, FrontAppended
  <2>3. Dav!Front(q) # p
    BY <1>1, <2>2 DEF Dav!Entries, Dav!Exists
  <2> QED BY <2>1, <2>3
<1>4. DOMAIN tree' \subseteq DavPaths
  BY <1>2 DEF TreeTyped
<1> QED BY <1>2, <1>3, <1>4 DEF TreeTyped, Rooted

(* A worker goes on and the others do nothing.                             *)
LEMMA DavMoves ==
    ASSUME DavInv, NEW w \in Workers, TreeTyped',
           pc' \in [Workers -> DavPcs], \A v \in Workers \ {w} : pc'[v] = pc[v],
           stack' \in [Workers -> Seq(DavCalls)], \A v \in Workers \ {w} : stack'[v] = stack[v],
           answer' \in [Workers -> Nat], task' = task,
           UNCHANGED <<found, arr_size>>, todo' \in [Workers -> SUBSET Names],
           DavPlace(task[w], pc'[w], stack'[w])
    PROVE  DavInv'
<1>1. \A v \in Workers : DavPlace(task'[v], pc'[v], stack'[v])
  BY DEF DavInv
<1> QED BY <1>1 DEF DavInv

(* ... with the calls it is in unchanged.                                  *)
LEMMA DavGoes ==
    ASSUME DavInv, NEW w \in Workers, TreeTyped', NEW c \in DavPcs, pc' = [pc EXCEPT ![w] = c],
           c # "entries",
           task[w].op \in Dav!Moves /\ c \in {"stat", "remove", "rename"} => task[w].dest \in DavPaths,
           c = "remove" => task[w].overwrite,
           answer' \in [Workers -> Nat], todo' \in [Workers -> SUBSET Names],
           UNCHANGED <<task, stack, found, arr_size>>
    PROVE  DavInv'
<1>1. /\ pc' \in [Workers -> DavPcs] /\ \A v \in Workers \ {w} : pc'[v] = pc[v]
      /\ pc'[w] = c /\ stack' \in [Workers -> Seq(DavCalls)]
  BY DEF DavInv
<1>2. DavPlace(task[w], pc'[w], stack'[w])
  BY <1>1 DEF DavInv, DavPlace
<1> QED BY <1>1, <1>2, DavMoves

(* A worker with an answer is done, and the others have none from it.      *)
LEMMA DavAnswers ==
    ASSUME DavInv, NEW w \in Workers, NEW n \in Nat, Dav!Answer(w, n), TreeTyped',
           todo' \in [Workers -> SUBSET Names],
           UNCHANGED <<task, stack, found, arr_size>>
    PROVE  /\ DavInv'
           /\ (task[w].op = "MOVE" => n # 204) => Dav!MovedIsThere
<1>1. pc' = [pc EXCEPT ![w] = "done"] /\ answer' = [answer EXCEPT ![w] = n]
  BY DEF Dav!Answer
<1>2. answer' \in [Workers -> Nat] /\ answer'[w] = n /\ \A v \in Workers \ {w} : answer'[v] = answer[v]
  BY <1>1 DEF DavInv
<1>3. DavInv'
  <2>1. "done" \in DavPcs
    BY DEF DavPcs
  <2>2. "done" # "entries" /\ "done" \notin {"stat", "remove", "rename"} /\ "done" # "remove"
    OBVIOUS
  <2> QED BY <1>1, <1>2, <2>1, <2>2, DavGoes
<1>4. ASSUME task[w].op = "MOVE" => n # 204 PROVE Dav!MovedIsThere
  BY <1>2, <1>4 DEF Dav!MovedIsThere
<1> QED BY <1>3, <1>4

LEMMA DavUnanswered == ASSUME answer' = answer PROVE Dav!MovedIsThere
BY DEF Dav!MovedIsThere

LEMMA DavTask ==
    ASSUME DavHypothesis, DavInv, NEW w \in Workers
    PROVE  /\ task[w].path \in DavPaths /\ task[w].overwrite \in BOOLEAN
           /\ task[w].dest \in DavPaths \cup {<<"none">>, <<"elsewhere">>}
           /\ pc[w] \in DavPcs /\ stack[w] \in Seq(DavCalls)
           /\ DavPlace(task[w], pc[w], stack[w]) /\ DavRoom(found[w], arr_size[w])
<1>1. task[w] \in [op : STRING, path : DavPaths, dest : DavPaths \cup {<<"none">>, <<"elsewhere">>},
                   overwrite : BOOLEAN, body : BOOLEAN]
  BY DEF DavInv, DavHypothesis
<1> QED BY <1>1 DEF DavInv

(* The tree stays as it is.                                                *)
LEMMA TreeStays == ASSUME TreeTyped, tree' = tree PROVE TreeTyped' /\ Dav!LostForCause
<1>1. TreeTyped'
  BY DEF TreeTyped
<1> QED BY <1>1, NoneLost

(* What every step has to keep, and to be.                                 *)
DavGood == DavInv' /\ Dav!LostForCause /\ Dav!MovedIsThere

LEMMA DavSays ==
    ASSUME DavInv, NEW w \in Workers, NEW n \in Nat, Dav!Answer(w, n), TreeTyped', Dav!LostForCause,
           UNCHANGED <<task, stack, found, arr_size, todo>>, task[w].op = "MOVE" => n # 204
    PROVE  DavGood
<1>1. todo' \in [Workers -> SUBSET Names]
  BY DEF DavInv
<1> QED BY <1>1, DavAnswers DEF DavGood

LEMMA DavContinues ==
    ASSUME DavInv, NEW w \in Workers, NEW c \in DavPcs, Dav!Go(w, c), TreeTyped', Dav!LostForCause,
           c # "entries",
           task[w].op \in Dav!Moves /\ c \in {"stat", "remove", "rename"} => task[w].dest \in DavPaths,
           c = "remove" => task[w].overwrite,
           todo' \in [Workers -> SUBSET Names],
           UNCHANGED <<task, stack, found, arr_size>>
    PROVE  DavGood
<1>1. pc' = [pc EXCEPT ![w] = c] /\ answer' = answer
  BY DEF Dav!Go
<1>2. answer' \in [Workers -> Nat]
  BY <1>1 DEF DavInv
<1>3. DavInv'
  BY <1>1, <1>2, DavGoes
<1> QED BY <1>1, <1>3, DavUnanswered DEF DavGood

LEMMA CallIs == ASSUME NEW p \in DavPaths PROVE \E c \in DavCalls : c = Dav!Call(p) /\ c.dir = p
<1>1. Dav!Call(p) = [dir |-> p, entries |-> Dav!Entries(p), ok |-> TRUE]
  BY DEF Dav!Call
<1>2. Dav!Entries(p) \subseteq Names
  BY DEF Dav!Entries
<1>3. Dav!Call(p) \in DavCalls /\ Dav!Call(p).dir = p
  BY <1>1, <1>2 DEF DavCalls
<1> QED BY <1>3

(* The calls of remove_directory a worker is in, all below the path of its *)
(* task.                                                                   *)
CallsOf(t, s) == s \in Seq(DavCalls) /\ \A i \in 1 .. Len(s) : Dav!IsPrefix(t.path, s[i].dir)

LEMMA FrontCalls ==
    ASSUME NEW t, NEW s, CallsOf(t, s), s # <<>>
    PROVE  /\ CallsOf(t, Dav!Front(s))
           /\ Dav!Last(s) \in DavCalls /\ Dav!IsPrefix(t.path, Dav!Last(s).dir)
<1>1. /\ s \in Seq(DavCalls) /\ Len(s) \in Nat \ {0}
      /\ \A i \in 1 .. Len(s) : s[i] \in DavCalls /\ Dav!IsPrefix(t.path, s[i].dir)
  BY EmptySeq DEF CallsOf
<1>2. PICK f : f = SubSeq(s, 1, Len(s) - 1)
  OBVIOUS
<1>3. PICK n \in Nat : n = Len(s) - 1
  BY <1>1
<1>4. f \in Seq(DavCalls) /\ Len(f) = n /\ \A i \in 1 .. n : f[i] = s[i]
  <2>1. 1 \in Int /\ n \in Int /\ (\A i \in 1 .. n : s[i] \in DavCalls) /\ f = SubSeq(s, 1, n)
    BY <1>1, <1>2, <1>3
  <2>2. /\ f \in Seq(DavCalls) /\ Len(f) = IF 1 <= n THEN n - 1 + 1 ELSE 0
        /\ \A i \in 1 .. n - 1 + 1 : f[i] = s[1 + i - 1]
    BY ONLY <2>1, SubSeqProperties
  <2>3. n - 1 + 1 = n /\ (IF 1 <= n THEN n - 1 + 1 ELSE 0) = n /\ \A i \in 1 .. n : 1 + i - 1 = i
    BY <1>3
  <2> QED BY ONLY <2>2, <2>3
<1>5. CallsOf(t, f)
  BY <1>1, <1>3, <1>4 DEF CallsOf
<1>6. Dav!Front(s) = f /\ Dav!Last(s) = s[Len(s)] /\ Len(s) \in 1 .. Len(s)
  BY <1>1, <1>2 DEF Dav!Front, Dav!Last
<1> QED BY <1>1, <1>5, <1>6

LEMMA AppendCalls ==
    ASSUME NEW t, NEW s, CallsOf(t, s), NEW c \in DavCalls, Dav!IsPrefix(t.path, c.dir)
    PROVE  CallsOf(t, Append(s, c)) /\ Append(s, c) # <<>>
<1>1. s \in Seq(DavCalls) /\ Len(s) \in Nat
  BY DEF CallsOf
<1>2. PICK a : a = Append(s, c)
  OBVIOUS
<1>3. /\ a \in Seq(DavCalls) /\ Len(a) = Len(s) + 1 /\ a[Len(s) + 1] = c
      /\ \A i \in 1 .. Len(s) : a[i] = s[i]
  BY <1>1, <1>2, AppendProperties
<1>4. a # <<>>
  BY <1>1, <1>3
<1>5. ASSUME NEW i \in 1 .. Len(a) PROVE Dav!IsPrefix(t.path, a[i].dir)
  <2>1. CASE i = Len(s) + 1
    BY <1>3, <2>1
  <2>2. CASE i \in 1 .. Len(s)
    BY <1>3, <2>2 DEF CallsOf
  <2> QED BY <1>1, <1>3, <2>1, <2>2
<1> QED BY <1>2, <1>3, <1>4, <1>5 DEF CallsOf

LEMMA PrefixOn ==
    ASSUME NEW p \in DavPaths, NEW q \in DavPaths, Dav!IsPrefix(p, q), NEW n \in Names
    PROVE  Append(q, n) \in DavPaths /\ Dav!IsPrefix(p, Append(q, n))
<1>1. Len(p) \in Nat /\ Len(q) \in Nat /\ Len(p) <= Len(q) /\ \A i \in 1 .. Len(p) : p[i] = q[i]
  BY PrefixIs, LenOfPath
<1>2. PICK a : a = Append(q, n)
  OBVIOUS
<1>3. a \in DavPaths /\ Len(a) = Len(q) + 1 /\ \A i \in 1 .. Len(q) : a[i] = q[i]
  BY <1>2, AppendProperties DEF DavPaths
<1>4. Len(p) <= Len(a) /\ \A i \in 1 .. Len(p) : p[i] = a[i]
  BY <1>1, <1>3
<1> QED BY <1>2, <1>3, <1>4, PrefixIs

LEMMA DeleteGood ==
    ASSUME DavHypothesis, DavInv, NEW w \in Workers, Dav!Delete(w) PROVE DavGood
<1> DEFINE p == task[w].path
<1>1. /\ task[w].op = "DELETE" /\ p \in DavPaths /\ TreeTyped
      /\ UNCHANGED <<task, found, arr_size, todo>>
  BY DavTask DEF Dav!Delete, Dav!At, DavInv, Dav!scan
<1>2. tree' = tree
  BY DEF Dav!Delete
<1>3. TreeTyped' /\ Dav!LostForCause
  BY <1>1, <1>2, TreeStays
<1>4. \/ Dav!Answer(w, 404) /\ UNCHANGED stack
      \/ Dav!Answer(w, 403) /\ UNCHANGED stack
      \/ Dav!Go(w, "stat") /\ UNCHANGED stack
      \/ stack' = [stack EXCEPT ![w] = <<Dav!Call(p)>>] /\ Dav!Go(w, "entries")
  BY DEF Dav!Delete
<1>5. ASSUME NEW n \in {403, 404}, Dav!Answer(w, n), UNCHANGED stack PROVE DavGood
  <2>1. n \in Nat /\ n # 204
    OBVIOUS
  <2> QED BY <1>1, <1>3, <1>5, <2>1, DavSays
<1>6. CASE Dav!Go(w, "stat") /\ UNCHANGED stack
  <2>1. /\ "stat" \in DavPcs /\ "stat" # "entries" /\ "stat" # "remove" /\ task[w].op \notin Dav!Moves
        /\ todo' \in [Workers -> SUBSET Names]
    BY <1>1 DEF DavPcs, Dav!Moves, DavInv
  <2> QED BY <1>1, <1>3, <1>6, <2>1, DavContinues
<1>7. CASE stack' = [stack EXCEPT ![w] = <<Dav!Call(p)>>] /\ Dav!Go(w, "entries")
  <2>1. PICK c \in DavCalls : c = Dav!Call(p) /\ c.dir = p
    BY <1>1, CallIs
  <2>2. pc' = [pc EXCEPT ![w] = "entries"] /\ answer' = answer /\ stack' = [stack EXCEPT ![w] = <<c>>]
    BY <1>7, <2>1 DEF Dav!Go
  <2>3. <<c>> \in Seq(DavCalls) /\ <<c>> # <<>> /\ Len(<<c>>) = 1 /\ <<c>>[1] = c
    OBVIOUS
  <2>4. /\ stack' \in [Workers -> Seq(DavCalls)] /\ stack'[w] = <<c>>
        /\ \A v \in Workers \ {w} : stack'[v] = stack[v]
    BY <2>2, <2>3 DEF DavInv
  <2>5. /\ pc' \in [Workers -> DavPcs] /\ pc'[w] = "entries" /\ \A v \in Workers \ {w} : pc'[v] = pc[v]
        /\ answer' \in [Workers -> Nat] /\ todo' \in [Workers -> SUBSET Names]
    BY <1>1, <2>2 DEF DavInv, DavPcs
  <2>6. DavPlace(task[w], "entries", <<c>>)
    <3>1. Dav!IsPrefix(p, p)
      BY <1>1, PrefixSelf
    <3>2. "entries" \notin {"stat", "remove", "rename"} /\ "entries" # "remove"
      OBVIOUS
    <3> QED BY <1>1, <2>1, <2>3, <3>1, <3>2 DEF DavPlace
  <2>7. DavInv'
    BY <1>1, <1>3, <2>4, <2>5, <2>6, DavMoves
  <2> QED BY <1>3, <2>2, <2>7, DavUnanswered DEF DavGood
<1> QED BY <1>4, <1>5, <1>6, <1>7

LEMMA DeleteFileGood ==
    ASSUME DavHypothesis, DavInv, NEW w \in Workers, Dav!DeleteFile(w) PROVE DavGood
<1> DEFINE p == task[w].path
<1>1. /\ task[w].op = "DELETE" /\ p \in DavPaths /\ TreeTyped
      /\ UNCHANGED <<task, stack, found, arr_size, todo>>
  BY DavTask DEF Dav!DeleteFile, Dav!At, DavInv, Dav!scan
<1>2. task[w].op = "MOVE" => FALSE
  BY <1>1
<1>3. CASE Dav!Removable(p)
  <2>1. tree' = Dav!Without({p}) /\ Dav!Answer(w, 204)
    BY <1>3 DEF Dav!DeleteFile
  <2>2. TreeTyped' /\ \A q \in DOMAIN tree : q # p => q \in DOMAIN tree' /\ tree'[q] = tree[q]
    BY <1>1, <1>3, <2>1, WithoutIs
  <2>3. DavCause(p)
    BY <1>1, PrefixSelf DEF DavCause
  <2>4. Dav!LostForCause
    BY <2>2, <2>3, OneLost
  <2> QED BY <1>1, <1>2, <2>1, <2>2, <2>4, DavSays
<1>4. CASE ~ Dav!Removable(p)
  <2>1. tree' = tree /\ Dav!Answer(w, 423)
    BY <1>4 DEF Dav!DeleteFile
  <2> QED BY <1>1, <1>2, <2>1, TreeStays, DavSays
<1> QED BY <1>3, <1>4

LEMMA MkcolGood ==
    ASSUME DavHypothesis, DavInv, NEW w \in Workers, Dav!Mkcol(w) PROVE DavGood
<1>1. /\ task[w].op = "MKCOL" /\ TreeTyped /\ tree' = tree
      /\ UNCHANGED <<task, stack, found, arr_size, todo>>
  BY DavTask DEF Dav!Mkcol, Dav!At, DavInv, Dav!scan
<1>2. (task[w].op = "MOVE" => FALSE) /\ task[w].op \notin Dav!Moves
  BY <1>1 DEF Dav!Moves
<1>3. TreeTyped' /\ Dav!LostForCause
  BY <1>1, TreeStays
<1>4. Dav!Answer(w, 405) \/ Dav!Answer(w, 415) \/ Dav!Go(w, "mkdir")
  BY DEF Dav!Mkcol
<1>5. CASE Dav!Answer(w, 405) \/ Dav!Answer(w, 415)
  BY <1>1, <1>2, <1>3, <1>5, DavSays
<1>6. CASE Dav!Go(w, "mkdir")
  <2>1. "mkdir" \in DavPcs /\ "mkdir" # "entries" /\ "mkdir" # "remove" /\ todo' \in [Workers -> SUBSET Names]
    BY <1>1 DEF DavPcs, DavInv
  <2> QED BY <1>1, <1>2, <1>3, <1>6, <2>1, DavContinues
<1> QED BY <1>4, <1>5, <1>6

LEMMA MkdirGood ==
    ASSUME DavHypothesis, DavInv, NEW w \in Workers, Dav!Mkdir(w) PROVE DavGood
<1> DEFINE p == task[w].path
<1>1. p \in DavPaths /\ TreeTyped /\ UNCHANGED <<task, stack, found, arr_size, todo>>
  BY DavTask DEF Dav!Mkdir, DavInv, Dav!scan
<1>2. \/ \E n \in {403, 405, 409} : Dav!Answer(w, n) /\ tree' = tree
      \/ /\ Dav!Answer(w, 201) /\ Dav!IsDir(Dav!Front(p))
         /\ tree' = [q \in DOMAIN tree \cup {p} |-> IF q = p THEN "dir" ELSE tree[q]] /\ ~ Dav!Exists(p)
  BY DEF Dav!Mkdir
<1>3. ASSUME NEW n \in {403, 405, 409}, Dav!Answer(w, n), tree' = tree PROVE DavGood
  <2>1. n \in Nat /\ n # 204
    OBVIOUS
  <2> QED BY <1>1, <1>3, <2>1, TreeStays, DavSays
<1>4. CASE /\ Dav!Answer(w, 201) /\ Dav!IsDir(Dav!Front(p))
           /\ tree' = [q \in DOMAIN tree \cup {p} |-> IF q = p THEN "dir" ELSE tree[q]] /\ ~ Dav!Exists(p)
  <2>1. p \notin DOMAIN tree /\ Dav!Front(p) \in DOMAIN tree
    BY <1>4 DEF Dav!Exists, Dav!IsDir
  <2>2. DOMAIN tree' = DOMAIN tree \cup {p} /\ \A q \in DOMAIN tree : tree'[q] = tree[q]
    BY <1>4, <2>1
  <2>3. Dav!LostForCause
    BY <2>2, NoneLost
  <2>4. TreeTyped'
    BY <1>1, <1>4, <2>1, <2>2 DEF TreeTyped, Rooted
  <2> QED BY <1>1, <1>4, <2>3, <2>4, DavSays
<1> QED BY <1>2, <1>3, <1>4

LEMMA DestinationGood ==
    ASSUME DavHypothesis, DavInv, NEW w \in Workers, Dav!Destination(w) PROVE DavGood
<1>1. TreeTyped /\ tree' = tree /\ UNCHANGED <<task, stack, found, arr_size, todo>>
  BY DEF Dav!Destination, DavInv, Dav!scan
<1>2. TreeTyped' /\ Dav!LostForCause
  BY <1>1, TreeStays
<1>3. Dav!Answer(w, 400) \/ Dav!Answer(w, 502) \/ (Dav!Go(w, "stat") /\ task[w].dest \in DavPaths)
  BY DavTask DEF Dav!Destination
<1>4. CASE Dav!Answer(w, 400) \/ Dav!Answer(w, 502)
  BY <1>1, <1>2, <1>4, DavSays
<1>5. CASE Dav!Go(w, "stat") /\ task[w].dest \in DavPaths
  <2>1. "stat" \in DavPcs /\ "stat" # "entries" /\ "stat" # "remove" /\ todo' \in [Workers -> SUBSET Names]
    BY <1>1 DEF DavPcs, DavInv
  <2> QED BY <1>1, <1>2, <1>5, <2>1, DavContinues
<1> QED BY <1>3, <1>4, <1>5

LEMMA StatDestGood ==
    ASSUME DavHypothesis, DavInv, NEW w \in Workers, Dav!StatDest(w) PROVE DavGood
<1>1. TreeTyped /\ tree' = tree /\ UNCHANGED <<task, stack, found, arr_size, todo>>
  BY DEF Dav!StatDest, DavInv, Dav!scan
<1>2. TreeTyped' /\ Dav!LostForCause
  BY <1>1, TreeStays
<1>3. /\ task[w].dest \in DavPaths /\ todo' \in [Workers -> SUBSET Names]
  <2>1. pc[w] \in {"stat", "remove", "rename"} /\ task[w].op \in Dav!Moves
    BY DEF Dav!StatDest, Dav!At
  <2> QED BY <1>1, <2>1, DavTask DEF DavPlace, DavInv
<1>4. Dav!Answer(w, 412) \/ (Dav!Go(w, "remove") /\ task[w].overwrite) \/ Dav!Go(w, "rename")
  BY DEF Dav!StatDest
<1>5. CASE Dav!Answer(w, 412)
  BY <1>1, <1>2, <1>5, DavSays
<1>6. CASE Dav!Go(w, "remove") /\ task[w].overwrite
  <2>1. "remove" \in DavPcs /\ "remove" # "entries"
    BY DEF DavPcs
  <2> QED BY <1>1, <1>2, <1>3, <1>6, <2>1, DavContinues
<1>7. CASE Dav!Go(w, "rename")
  <2>1. "rename" \in DavPcs /\ "rename" # "entries" /\ "rename" # "remove"
    BY DEF DavPcs
  <2> QED BY <1>1, <1>2, <1>3, <1>7, <2>1, DavContinues
<1> QED BY <1>4, <1>5, <1>6, <1>7

LEMMA RemoveDestGood ==
    ASSUME DavHypothesis, DavInv, NEW w \in Workers, Dav!RemoveDest(w) PROVE DavGood
<1> DEFINE d == task[w].dest
<1>1. /\ TreeTyped /\ UNCHANGED <<task, stack, found, arr_size, todo>>
      /\ pc[w] = "remove" /\ task[w].op \in Dav!Moves /\ task[w].overwrite /\ d \in DavPaths
  <2>1. pc[w] = "remove" /\ task[w].op \in Dav!Moves
    BY DEF Dav!RemoveDest, Dav!At
  <2> QED BY <2>1, DavTask DEF DavPlace, DavInv, Dav!RemoveDest, Dav!scan
<1>2. CASE Dav!Removable(d)
  <2>1. tree' = Dav!Without({d}) /\ Dav!Go(w, "rename")
    BY <1>2 DEF Dav!RemoveDest
  <2>2. TreeTyped' /\ \A q \in DOMAIN tree : q # d => q \in DOMAIN tree' /\ tree'[q] = tree[q]
    BY <1>1, <1>2, <2>1, WithoutIs
  <2>3. DavCause(d)
    BY <1>1 DEF DavCause
  <2>4. Dav!LostForCause
    BY <2>2, <2>3, OneLost
  <2>5. "rename" \in DavPcs /\ "rename" # "entries" /\ "rename" # "remove" /\ todo' \in [Workers -> SUBSET Names]
    BY <1>1 DEF DavPcs, DavInv
  <2> QED BY <1>1, <2>1, <2>2, <2>4, <2>5, DavContinues
<1>3. CASE ~ Dav!Removable(d)
  <2>1. tree' = tree /\ Dav!Answer(w, 403)
    BY <1>3 DEF Dav!RemoveDest
  <2> QED BY <1>1, <2>1, TreeStays, DavSays
<1> QED BY <1>2, <1>3

LEMMA RenameGood ==
    ASSUME DavHypothesis, DavInv, NEW w \in Workers, Dav!Rename(w) PROVE DavGood
<1> DEFINE p == task[w].path
           d == task[w].dest
<1>1. /\ TreeTyped /\ UNCHANGED <<task, stack, found, arr_size, todo>>
      /\ pc[w] = "rename" /\ task[w].op \in Dav!Moves /\ d \in DavPaths /\ p \in DavPaths
  <2>1. pc[w] = "rename" /\ task[w].op \in Dav!Moves
    BY DEF Dav!Rename, Dav!At
  <2> QED BY <2>1, DavTask DEF DavPlace, DavInv, Dav!Rename, Dav!scan
<1>2. \/ \E n \in {400, 403, 409} : Dav!Answer(w, n) /\ tree' = tree
      \/ MayRename(p, d) /\ tree' = Dav!Renamed(p, d) /\ Dav!Answer(w, 204)
  <2>1. CASE task[w].op = "COPY"
    <3>1. Dav!Answer(w, 403) /\ tree' = tree
      BY <2>1 DEF Dav!Rename
    <3> QED BY <3>1
  <2>2. CASE task[w].op = "MOVE"
    <3>1. task[w].op # "COPY"
      BY <2>2
    <3>2. CASE MayRename(p, d)
      BY ZenonT(40), <2>2, <3>1, <3>2 DEF Dav!Rename, MayRename
    <3>3. CASE ~ MayRename(p, d)
      <4>1. \/ Dav!Answer(w, 409) /\ tree' = tree
            \/ Dav!Answer(w, 403) /\ tree' = tree
            \/ Dav!Answer(w, 400) /\ tree' = tree
        BY <2>2, <3>1, <3>3 DEF Dav!Rename, MayRename
      <4> QED BY <4>1
    <3> QED BY <3>2, <3>3
  <2> QED BY <1>1, <2>1, <2>2 DEF Dav!Moves
<1>3. ASSUME NEW n \in {400, 403, 409}, Dav!Answer(w, n), tree' = tree PROVE DavGood
  <2>1. n \in Nat /\ n # 204
    OBVIOUS
  <2> QED BY <1>1, <1>3, <2>1, TreeStays, DavSays
<1>4. CASE MayRename(p, d) /\ tree' = Dav!Renamed(p, d) /\ Dav!Answer(w, 204)
  <2>1. PICK t : t = tree' /\ t = Dav!Renamed(p, d)
    BY <1>4
  <2>2. /\ DOMAIN t = DavKept(p, d) \cup DavMoved(p, d)
        /\ \A q \in Dav!Below(p) : t[MovedTo(p, d, q)] = tree[q]
        /\ \A q \in DavKept(p, d) : t[q] = tree[q]
        /\ p # d => p \notin DOMAIN t
    <3>1. TreeTyped /\ p \in DavPaths /\ d \in DavPaths /\ MayRename(p, d) /\ t = Dav!Renamed(p, d)
      BY <1>1, <1>4, <2>1
    <3> HIDE DEF p, d
    <3> QED BY ONLY <3>1, RenamedIs
  <2>3. TreeTyped'
    BY <1>1, <1>4, RenamedTyped
  <2>4. \A q \in Dav!Below(p) : MovedTo(p, d, q) \in DOMAIN t /\ Dav!Moved(p, d)[q] = MovedTo(p, d, q)
    BY <2>2 DEF DavMoved, Dav!Moved, MovedTo
  <2>5. Dav!LostForCause
    <3> SUFFICES ASSUME NEW f \in Dav!Vanished, NEW q \in DOMAIN tree, tree[q] = f PROVE DavCause(q)
      BY DEF Dav!LostForCause, DavCause
    <3>1. \A r \in DOMAIN t : t[r] # f
      BY <2>1 DEF Dav!Vanished
    <3>2. q \notin Dav!Below(p)
      BY <2>2, <2>4, <3>1
    <3>3. q \notin DavKept(p, d)
      BY <2>2, <3>1
    <3>4. q = d
      BY <3>2, <3>3 DEF DavKept
    <3> QED BY <1>1, <3>4 DEF DavCause
  <2>6. DavInv'
    <3>1. todo' \in [Workers -> SUBSET Names]
      BY <1>1 DEF DavInv
    <3> QED BY <1>1, <1>4, <2>3, <3>1, DavAnswers
  <2>7. \A v \in Workers \ {w} : answer'[v] = answer[v]
    BY <1>4 DEF Dav!Answer, DavInv
  <2>8. Dav!MovedIsThere
    <3> SUFFICES ASSUME NEW v \in Workers, task[v].op = "MOVE", answer[v] = 0, answer'[v] = 204
                 PROVE  /\ Dav!Exists(task[v].path)
                        /\ \A q \in Dav!Below(task[v].path) :
                             /\ Dav!Moved(task[v].path, task[v].dest)[q] \in DOMAIN tree'
                             /\ tree'[Dav!Moved(task[v].path, task[v].dest)[q]] = tree[q]
                        /\ task[v].path # task[v].dest => task[v].path \notin DOMAIN tree'
      BY DEF Dav!MovedIsThere
    <3>1. v = w
      BY <2>7
    <3>2. Dav!Exists(p)
      BY <1>1, <1>4, RenameFound DEF Dav!Exists
    <3> QED BY <2>1, <2>2, <2>4, <3>1, <3>2
  <2> QED BY <2>5, <2>6, <2>8 DEF DavGood
<1> QED BY <1>2, <1>3, <1>4

LEMMA ScanGood ==
    ASSUME DavHypothesis, DavInv, NEW w \in Workers, Dav!Scan(w) \/ Dav!StopScan(w) \/ Dav!ScanEnd(w)
    PROVE  DavGood
<1>1. TreeTyped /\ tree' = tree /\ UNCHANGED <<task, stack, found, arr_size>>
  BY DEF Dav!Scan, Dav!StopScan, Dav!ScanEnd, DavInv, Dav!scan
<1>2. TreeTyped' /\ Dav!LostForCause
  BY <1>1, TreeStays
<1>3. CASE Dav!Scan(w)
  <2>1. task[w].op # "MOVE" /\ task[w].op \notin Dav!Moves
    BY <1>3 DEF Dav!Scan, Dav!At, Dav!Lists, Dav!Moves
  <2>2. \/ todo' = [todo EXCEPT ![w] = Dav!Entries(task[w].path)] /\ Dav!Go(w, "scan")
        \/ todo' = todo /\ \E n \in {207, 500} : Dav!Answer(w, n)
    BY <1>3 DEF Dav!Scan
  <2>3. CASE todo' = [todo EXCEPT ![w] = Dav!Entries(task[w].path)] /\ Dav!Go(w, "scan")
    <3>1. Dav!Entries(task[w].path) \subseteq Names
      BY DEF Dav!Entries
    <3>2. todo' \in [Workers -> SUBSET Names]
      BY <2>3, <3>1 DEF DavInv
    <3>3. "scan" \in DavPcs /\ "scan" # "entries" /\ "scan" # "remove"
      BY DEF DavPcs
    <3> QED BY <1>1, <1>2, <2>1, <2>3, <3>2, <3>3, DavContinues
  <2>4. ASSUME todo' = todo, NEW n \in {207, 500}, Dav!Answer(w, n) PROVE DavGood
    BY <1>1, <1>2, <2>1, <2>4, DavSays
  <2> QED BY <2>2, <2>3, <2>4
<1>4. CASE Dav!StopScan(w)
  <2>1. pc' = pc /\ answer' = answer /\ todo' = [todo EXCEPT ![w] = {}]
    BY <1>4 DEF Dav!StopScan
  <2>2. todo' \in [Workers -> SUBSET Names]
    BY <2>1 DEF DavInv
  <2>3. DavInv'
    BY <1>1, <1>2, <2>1, <2>2 DEF DavInv
  <2> QED BY <1>2, <2>1, <2>3, DavUnanswered DEF DavGood
<1>5. CASE Dav!ScanEnd(w)
  <2>1. todo' = todo /\ \E n \in {200, 207} : Dav!Answer(w, n)
    BY <1>5 DEF Dav!ScanEnd, Dav!scan
  <2>2. ASSUME NEW n \in {200, 207}, Dav!Answer(w, n) PROVE DavGood
    BY <1>1, <1>2, <2>1, <2>2, DavSays
  <2> QED BY <2>1, <2>2
<1> QED BY <1>3, <1>4, <1>5

LEMMA DavCount == ASSUME NEW S PROVE Dav!Cardinality(S) = Cardinality(S)
BY DEF Dav!Cardinality, Cardinality

LEMMA EntryGood ==
    ASSUME DavHypothesis, DavInv, NEW w \in Workers, Dav!Entry(w) PROVE DavGood
<1>1. TreeTyped /\ tree' = tree /\ UNCHANGED <<task, pc, stack, answer>>
  BY DEF Dav!Entry, DavInv
<1>2. TreeTyped' /\ Dav!LostForCause
  BY <1>1, TreeStays
<1>3. PICK n \in todo[w] :
         /\ todo' = [todo EXCEPT ![w] = @ \ {n}]
         /\ \/ UNCHANGED <<found, arr_size>>
            \/ /\ found' = [found EXCEPT ![w] = @ \cup {n}]
               /\ arr_size' = [arr_size EXCEPT ![w] =
                    IF @ = 0 THEN 2 * ArrSize ELSE IF Dav!Full(w) THEN 2 * @ ELSE @]
  BY DEF Dav!Entry
<1>4. /\ todo[w] \subseteq Names /\ found[w] \subseteq Names /\ arr_size[w] \in Nat /\ n \in Names
      /\ IsFiniteSet(found[w]) /\ Cardinality(found[w]) <= arr_size[w] /\ ArrSize \in Nat /\ ArrSize > 0
  BY DavTask DEF DavInv, DavRoom, DavHypothesis
<1>5. todo' \in [Workers -> SUBSET Names]
  BY <1>3, <1>4 DEF DavInv
<1>6. CASE UNCHANGED <<found, arr_size>>
  <2>1. DavInv'
    BY <1>1, <1>2, <1>5, <1>6 DEF DavInv
  <2> QED BY <1>1, <1>2, <2>1, DavUnanswered DEF DavGood
<1>7. CASE /\ found' = [found EXCEPT ![w] = @ \cup {n}]
           /\ arr_size' = [arr_size EXCEPT ![w] =
                IF @ = 0 THEN 2 * ArrSize ELSE IF Dav!Full(w) THEN 2 * @ ELSE @]
  <2>1. PICK a : a = IF arr_size[w] = 0 THEN 2 * ArrSize ELSE IF Dav!Full(w) THEN 2 * arr_size[w] ELSE arr_size[w]
    OBVIOUS
  <2>2. PICK f : f = found[w] \cup {n}
    OBVIOUS
  <2>3. /\ IsFiniteSet(f) /\ Cardinality(f) \in Nat /\ Cardinality(found[w]) \in Nat
        /\ Cardinality(f) <= Cardinality(found[w]) + 1
    <3>1. PICK k : k = Cardinality(found[w])
      OBVIOUS
    <3>2. IsFiniteSet(f) /\ Cardinality(f) = IF n \in found[w] THEN k ELSE k + 1
      BY <1>4, <2>2, <3>1, FS_AddElement
    <3>3. k \in Nat
      BY <1>4, <3>1, FS_CardinalityType
    <3> QED BY ONLY <3>1, <3>2, <3>3
  <2>4. a \in Nat /\ Cardinality(f) <= a
    <3>1. Dav!Full(w) <=> Cardinality(found[w]) >= arr_size[w]
      BY DavCount DEF Dav!Full
    <3>2. PICK k \in Nat, l \in Nat, h \in Nat :
              k = Cardinality(found[w]) /\ l = Cardinality(f) /\ h = arr_size[w]
      BY <1>4, <2>3
    <3>3. a = IF h = 0 THEN 2 * ArrSize ELSE IF k >= h THEN 2 * h ELSE h
      BY ONLY <2>1, <3>1, <3>2
    <3>4. k <= h /\ l <= k + 1 /\ ArrSize \in Nat /\ ArrSize > 0
      BY <1>4, <2>3, <3>2
    <3>5. a \in Nat /\ l <= a
      BY ONLY <3>2, <3>3, <3>4
    <3> QED BY ONLY <3>2, <3>5
  <2>5. /\ found' = [found EXCEPT ![w] = f] /\ arr_size' = [arr_size EXCEPT ![w] = a]
        /\ f \subseteq Names
    BY <1>4, <1>7, <2>1, <2>2
  <2>6. /\ found' \in [Workers -> SUBSET Names] /\ arr_size' \in [Workers -> Nat]
        /\ found'[w] = f /\ arr_size'[w] = a
        /\ \A v \in Workers \ {w} : found'[v] = found[v] /\ arr_size'[v] = arr_size[v]
    BY <2>4, <2>5 DEF DavInv
  <2>7. \A v \in Workers : DavRoom(found'[v], arr_size'[v])
    BY <2>3, <2>4, <2>6 DEF DavInv, DavRoom
  <2>8. DavInv'
    BY <1>1, <1>2, <1>5, <2>6, <2>7 DEF DavInv
  <2> QED BY <1>1, <1>2, <2>8, DavUnanswered DEF DavGood
<1> QED BY <1>3, <1>6, <1>7

(* A worker in remove_directory goes on with other calls.                  *)
LEMMA InCalls ==
    ASSUME DavHypothesis, DavInv, NEW w \in Workers, pc[w] = "entries", NEW s, s # <<>>,
           CallsOf(task[w], s), stack' = [stack EXCEPT ![w] = s], TreeTyped', Dav!LostForCause,
           UNCHANGED <<pc, answer, task, found, arr_size, todo>>
    PROVE  DavGood
<1>1. /\ stack' \in [Workers -> Seq(DavCalls)] /\ stack'[w] = s
      /\ \A v \in Workers \ {w} : stack'[v] = stack[v]
  BY DEF DavInv, CallsOf
<1>2. DavPlace(task[w], pc[w], s)
  <2>1. task[w].op = "DELETE"
    BY DavTask DEF DavPlace
  <2>2. pc[w] # "remove" /\ pc[w] \notin {"stat", "remove", "rename"}
    OBVIOUS
  <2> QED BY <2>1, <2>2 DEF DavPlace, CallsOf
<1>3. pc' \in [Workers -> DavPcs] /\ answer' \in [Workers -> Nat] /\ todo' \in [Workers -> SUBSET Names]
  BY DEF DavInv
<1>4. DavInv'
  BY <1>1, <1>2, <1>3, DavMoves
<1> QED BY <1>4, DavUnanswered DEF DavGood

(* What the calls of a worker are, and the last of them.                   *)
LEMMA TopIs ==
    ASSUME DavHypothesis, DavInv, NEW w \in Workers, pc[w] = "entries"
    PROVE  /\ CallsOf(task[w], stack[w]) /\ CallsOf(task[w], Dav!Front(stack[w]))
           /\ task[w].op = "DELETE" /\ task[w].path \in DavPaths /\ stack[w] # <<>>
           /\ Dav!Top(w) \in DavCalls /\ Dav!IsPrefix(task[w].path, Dav!Top(w).dir)
           /\ Dav!Top(w).dir \in DavPaths /\ Dav!Top(w).entries \subseteq Names
<1>1. /\ CallsOf(task[w], stack[w]) /\ task[w].op = "DELETE" /\ task[w].path \in DavPaths /\ stack[w] # <<>>
  BY DavTask DEF DavPlace, CallsOf
<1>2. /\ CallsOf(task[w], Dav!Front(stack[w]))
      /\ Dav!Top(w) \in DavCalls /\ Dav!IsPrefix(task[w].path, Dav!Top(w).dir)
  BY <1>1, FrontCalls DEF Dav!Top
<1> QED BY <1>1, <1>2 DEF DavCalls

LEMMA RemoveEntryGood ==
    ASSUME DavHypothesis, DavInv, NEW w \in Workers, Dav!RemoveEntry(w) PROVE DavGood
<1>1. pc[w] = "entries" /\ TreeTyped /\ UNCHANGED <<task, pc, found, arr_size, todo, answer>>
  BY DEF Dav!RemoveEntry, DavInv, Dav!scan
<1>2. /\ CallsOf(task[w], Dav!Front(stack[w]))
      /\ task[w].op = "DELETE" /\ task[w].path \in DavPaths
      /\ Dav!Top(w) \in DavCalls /\ Dav!IsPrefix(task[w].path, Dav!Top(w).dir)
      /\ Dav!Top(w).dir \in DavPaths /\ Dav!Top(w).entries \subseteq Names
  BY <1>1, TopIs
<1>3. PICK n \in Dav!Top(w).entries :
        LET p == Append(Dav!Top(w).dir, n)
            rest == [Dav!Top(w) EXCEPT !.entries = @ \ {n}]
        IN  \/ Dav!SetTop(w, [rest EXCEPT !.ok = FALSE]) /\ tree' = tree
            \/ /\ stack' = [stack EXCEPT ![w] = Append(Append(Dav!Front(@), rest), Dav!Call(p))]
               /\ tree' = tree
            \/ Dav!Removable(p) /\ tree' = Dav!Without({p}) /\ Dav!SetTop(w, [rest EXCEPT !.ok = FALSE])
            \/ Dav!SetTop(w, rest) /\ tree' = tree
  BY DEF Dav!RemoveEntry
<1> DEFINE p == Append(Dav!Top(w).dir, n)
           rest == [Dav!Top(w) EXCEPT !.entries = @ \ {n}]
           other == [rest EXCEPT !.ok = FALSE]
<1>4. p \in DavPaths /\ Dav!IsPrefix(task[w].path, p)
  BY <1>2, PrefixOn
<1>5. /\ rest \in DavCalls /\ rest.dir = Dav!Top(w).dir
      /\ other \in DavCalls /\ other.dir = Dav!Top(w).dir
  BY <1>2 DEF DavCalls
<1>6. PICK c \in DavCalls : c = Dav!Call(p) /\ c.dir = p
  BY <1>4, CallIs
<1>7. /\ tree' = tree \/ (Dav!Removable(p) /\ tree' = Dav!Without({p}))
      /\ \/ \E r \in {rest, other} : stack' = [stack EXCEPT ![w] = Append(Dav!Front(stack[w]), r)]
         \/ stack' = [stack EXCEPT ![w] = Append(Append(Dav!Front(stack[w]), rest), c)]
  BY <1>3, <1>6 DEF Dav!SetTop
<1> HIDE DEF p, rest, other
<1>8. TreeTyped' /\ Dav!LostForCause
  <2>1. CASE tree' = tree
    BY <1>1, <2>1, TreeStays
  <2>2. CASE Dav!Removable(p) /\ tree' = Dav!Without({p})
    <3>1. TreeTyped' /\ \A q \in DOMAIN tree : q # p => q \in DOMAIN tree' /\ tree'[q] = tree[q]
      BY <1>1, <1>4, <2>2, WithoutIs
    <3>2. DavCause(p)
      BY <1>2, <1>4 DEF DavCause
    <3> QED BY <3>1, <3>2, OneLost
  <2> QED BY <1>7, <2>1, <2>2
<1>9. ASSUME NEW r \in {rest, other}, stack' = [stack EXCEPT ![w] = Append(Dav!Front(stack[w]), r)] PROVE DavGood
  <2>1. r \in DavCalls /\ Dav!IsPrefix(task[w].path, r.dir)
    BY <1>2, <1>5
  <2>2. CallsOf(task[w], Append(Dav!Front(stack[w]), r)) /\ Append(Dav!Front(stack[w]), r) # <<>>
    BY <1>2, <2>1, AppendCalls
  <2> QED BY <1>1, <1>8, <1>9, <2>2, InCalls
<1>10. CASE stack' = [stack EXCEPT ![w] = Append(Append(Dav!Front(stack[w]), rest), c)]
  <2>1. rest \in DavCalls /\ Dav!IsPrefix(task[w].path, rest.dir) /\ Dav!IsPrefix(task[w].path, c.dir)
    BY <1>2, <1>4, <1>5, <1>6
  <2>2. CallsOf(task[w], Append(Dav!Front(stack[w]), rest))
    BY <1>2, <2>1, AppendCalls
  <2>3. PICK s : s = Append(Append(Dav!Front(stack[w]), rest), c)
    OBVIOUS
  <2>4. CallsOf(task[w], s) /\ s # <<>>
    BY <2>1, <2>2, <2>3, AppendCalls
  <2> QED BY <1>1, <1>8, <1>10, <2>3, <2>4, InCalls
<1> QED BY <1>7, <1>9, <1>10

LEMMA RemoveDirGood ==
    ASSUME DavHypothesis, DavInv, NEW w \in Workers, Dav!RemoveDir(w) PROVE DavGood
<1>1. pc[w] = "entries" /\ TreeTyped /\ UNCHANGED <<task, found, arr_size, todo>>
  BY DEF Dav!RemoveDir, DavInv, Dav!scan
<1>2. /\ CallsOf(task[w], Dav!Front(stack[w]))
      /\ task[w].op = "DELETE" /\ Dav!Top(w) \in DavCalls /\ Dav!Top(w).dir \in DavPaths
  BY <1>1, TopIs
<1>3. PICK p \in DavPaths : p = Dav!Top(w).dir
  BY <1>2
<1>4. tree' = IF Dav!IsDir(p) /\ Dav!Removable(p) THEN Dav!Without({p}) ELSE tree
  BY <1>3 DEF Dav!RemoveDir
<1>5. TreeTyped' /\ Dav!LostForCause
  <2>1. CASE Dav!IsDir(p) /\ Dav!Removable(p)
    <3>1. TreeTyped' /\ \A q \in DOMAIN tree : q # p => q \in DOMAIN tree' /\ tree'[q] = tree[q]
      BY <1>1, <1>4, <2>1, WithoutIs
    <3>2. tree[p] = "dir"
      BY <2>1 DEF Dav!IsDir
    <3> QED BY <3>1, <3>2, OneLost
  <2>2. CASE ~ (Dav!IsDir(p) /\ Dav!Removable(p))
    BY <1>1, <1>4, <2>2, TreeStays
  <2> QED BY <2>1, <2>2
<1>6. PICK f : f = Dav!Front(stack[w])
  OBVIOUS
<1>7. CASE f = <<>>
  <2>1. stack' = [stack EXCEPT ![w] = <<>>] /\ \E n \in {204, 500} : Dav!Answer(w, n)
    BY <1>6, <1>7 DEF Dav!RemoveDir
  <2>2. PICK n \in Nat : Dav!Answer(w, n)
    BY <2>1
  <2>3. pc' = [pc EXCEPT ![w] = "done"] /\ answer' = [answer EXCEPT ![w] = n]
    BY <2>2 DEF Dav!Answer
  <2>4. /\ stack' \in [Workers -> Seq(DavCalls)] /\ stack'[w] = <<>> /\ Len(<<>>) = 0
        /\ \A v \in Workers \ {w} : stack'[v] = stack[v]
    BY <2>1 DEF DavInv
  <2>5. /\ pc' \in [Workers -> DavPcs] /\ pc'[w] = "done" /\ \A v \in Workers \ {w} : pc'[v] = pc[v]
        /\ answer' \in [Workers -> Nat] /\ \A v \in Workers \ {w} : answer'[v] = answer[v]
        /\ todo' \in [Workers -> SUBSET Names]
    BY <1>1, <2>3 DEF DavInv, DavPcs
  <2>6. DavPlace(task[w], "done", <<>>)
    <3>1. "done" # "entries" /\ "done" # "remove" /\ "done" \notin {"stat", "remove", "rename"}
      OBVIOUS
    <3> QED BY <3>1 DEF DavPlace
  <2>7. DavInv'
    BY <1>1, <1>5, <2>4, <2>5, <2>6, DavMoves
  <2>8. Dav!MovedIsThere
    BY <1>2, <2>5 DEF Dav!MovedIsThere
  <2> QED BY <1>5, <2>7, <2>8 DEF DavGood
<1>8. CASE f # <<>>
  <2>1. PICK k : k = (Dav!Last(f).ok /\ Dav!Top(w).ok)
    OBVIOUS
  <2>2. PICK c : c = [Dav!Last(f) EXCEPT !.ok = k]
    OBVIOUS
  <2>3. /\ stack' = [stack EXCEPT ![w] = Append(Dav!Front(f), c)]
        /\ UNCHANGED <<pc, answer>>
    BY <1>6, <1>8, <2>1, <2>2 DEF Dav!RemoveDir
  <2>4. /\ CallsOf(task[w], Dav!Front(f))
        /\ Dav!Last(f) \in DavCalls /\ Dav!IsPrefix(task[w].path, Dav!Last(f).dir)
    BY <1>2, <1>6, <1>8, FrontCalls
  <2>5. k \in BOOLEAN
    BY <1>2, <2>1, <2>4 DEF DavCalls
  <2>6. c \in DavCalls /\ c.dir = Dav!Last(f).dir
    BY <2>2, <2>4, <2>5 DEF DavCalls
  <2>7. PICK s : s = Append(Dav!Front(f), c)
    OBVIOUS
  <2>8. CallsOf(task[w], s) /\ s # <<>>
    BY <2>4, <2>6, <2>7, AppendCalls
  <2> QED BY <1>1, <1>5, <2>3, <2>7, <2>8, InCalls
<1> QED BY <1>7, <1>8

LEMMA DavActs == ASSUME DavHypothesis, DavInv, Dav!Next PROVE DavGood
<1>1. PICK w \in Workers : Dav!Step(w)
  BY DEF Dav!Next
<1> QED BY <1>1, DeleteGood, DeleteFileGood, RemoveEntryGood, RemoveDirGood, MkcolGood, MkdirGood,
           DestinationGood, StatDestGood, RemoveDestGood, RenameGood, ScanGood, EntryGood
        DEF Dav!Step

LEMMA DavInit == ASSUME DavHypothesis PROVE Dav!Init => DavInv
<1> SUFFICES ASSUME Dav!Init PROVE DavInv
  OBVIOUS
<1>1. TreeTyped
  BY DEF Dav!Init, DavHypothesis, TreeTyped
<1>2. /\ pc \in [Workers -> DavPcs] /\ task \in [Workers -> Tasks] /\ answer \in [Workers -> Nat]
      /\ stack \in [Workers -> Seq(DavCalls)] /\ found \in [Workers -> SUBSET Names]
      /\ arr_size \in [Workers -> Nat] /\ todo \in [Workers -> SUBSET Names]
  BY DEF Dav!Init, DavPcs
<1>3. \A w \in Workers : DavPlace(task[w], pc[w], stack[w])
  BY DEF Dav!Init, DavPlace
<1>4. \A w \in Workers : DavRoom(found[w], arr_size[w])
  <2>1. IsFiniteSet({}) /\ Cardinality({}) = 0
    BY FS_EmptySet
  <2> QED BY <2>1 DEF Dav!Init, DavRoom
<1> QED BY <1>1, <1>2, <1>3, <1>4 DEF DavInv

LEMMA DavStep == ASSUME DavHypothesis PROVE DavInv /\ [Dav!Next]_(Dav!vars) => DavInv'
<1> SUFFICES ASSUME DavInv, [Dav!Next]_(Dav!vars) PROVE DavInv'
  OBVIOUS
<1>1. CASE UNCHANGED Dav!vars
  BY <1>1 DEF DavInv, TreeTyped, Dav!vars, Dav!scan
<1>2. CASE Dav!Next
  BY <1>2, DavActs DEF DavGood
<1> QED BY <1>1, <1>2

(* dir_scan_callback never writes past the array that it has allocated,    *)
(* however many entries a directory has and whatever memory there is.      *)
THEOREM ListingFits == ASSUME DavHypothesis PROVE Dav!Spec => []Dav!NoOverrun
<1>1. DavInv => Dav!NoOverrun
  BY DavCount DEF DavInv, DavRoom, Dav!NoOverrun
<1> QED BY <1>1, DavInit, DavStep, PTL DEF Dav!Spec

(* Whatever other workers do between two system calls: a file vanishes     *)
(* only below what a DELETE names or where a MOVE or COPY may overwrite or *)
(* found nothing, and a MOVE that answers 204 has put all that was at its  *)
(* path there and left nothing behind (delete_file, remove_directory,      *)
(* dav_mkcol, dav_move_file).                                              *)
THEOREM TreeKept ==
    ASSUME DavHypothesis PROVE Dav!Spec => [][Dav!LostForCause /\ Dav!MovedIsThere]_(Dav!vars)
<1>1. ASSUME DavInv, Dav!Next PROVE Dav!LostForCause /\ Dav!MovedIsThere
  BY <1>1, DavActs DEF DavGood
<1>2. DavInv /\ [Dav!Next]_(Dav!vars) => [Dav!LostForCause /\ Dav!MovedIsThere]_(Dav!vars)
  BY <1>1
<1> QED BY <1>2, DavInit, DavStep, PTL DEF Dav!Spec
=============================================================================
