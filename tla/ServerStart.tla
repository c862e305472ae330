----------------------------- MODULE ServerStart -----------------------------
(***************************************************************************)
(* mg_start2 and mg_stop (src/Server/civetweb/civetweb.c), with what they  *)
(* call: the library's own start, the options, the listening ports, the    *)
(* threads, free_context; and CivetServer, which calls them.  One thread   *)
(* starts and stops servers, one after the other; the master thread and    *)
(* the workers of a server run beside it, and other programs take and give *)
(* back ports.                                                             *)
(*                                                                         *)
(* A resource of the context is a name in held.  What an ended start or    *)
(* stop has not given back goes to leaks.                                  *)
(***************************************************************************)
EXTENDS Naturals, Integers, Sequences, FiniteSets

CONSTANTS
    PortLists,      \* values of listening_ports: sequences of entries
    Threads,        \* values of num_threads
    Prespawn,       \* values of prespawn_threads
    MaxWorkerThreads,
    OtherPorts,     \* ports that other programs may take
    MaxStarts,      \* bound: servers started
    MaxInits,       \* bound: explicit calls of mg_init_library
    Faults          \* the steps that may fail

ThreadsAssumption == Threads \subseteq Int /\ Prespawn \subseteq Int
MaxWorkerThreadsAssumption == MaxWorkerThreads \in Nat

VARIABLES
    called, library,        \* mg_init_library_called; what the library holds
    pc, code, starts,       \* the starting thread; error->code
    held, leaks,
    init, exit, exit_context,   \* calls of the callbacks; the callback is set
    list, total, ok,        \* what is left of listening_ports; portsTotal, portsOk
    sockets, fds,           \* listening_sockets; listening_socket_fds
    bound, taken,           \* ports bound by this process; by others
    max, prespawn, spawned, alive,      \* worker threads
    master, masterid, stop_flag

lib == <<called, library>>
ctx == <<held, leaks, init, exit, exit_context>>
ports == <<list, total, ok, sockets, fds, bound>>
workers == <<max, prespawn, spawned, alive>>
threads == <<workers, master, masterid, stop_flag>>
vars == <<lib, pc, code, starts, ctx, ports, taken, threads>>

LibraryObjects == {"mutex", "key", "attr", "methods"}
Sync == {"mutex", "conditions", "pair"}
(* What free_context gives back; the memory of ctx is among it. *)
FreedByContext == Sync \cup {"ctx", "config", "squeue", "system", "ids", "connections"}

TypeOK ==
    /\ called \in 0 .. MaxInits + MaxStarts /\ library \subseteq LibraryObjects
    /\ held \subseteq FreedByContext /\ ok <= total
    /\ exit_context \in BOOLEAN
    /\ alive \subseteq 1 .. spawned /\ spawned <= MaxWorkerThreads
    /\ master \in {"none", "new", "loop", "join", "gone"} /\ stop_flag \in 0 .. 2

Init ==
    /\ called = 0 /\ library = {} /\ pc = "idle" /\ code = "ok" /\ starts = 0
    /\ held = {} /\ exit_context = FALSE
    /\ list = <<>> /\ total = 0 /\ ok = 0 /\ sockets = <<>> /\ fds = FALSE
    /\ max = 0 /\ prespawn = 0 /\ spawned = 0 /\ alive = {}
    /\ master = "none" /\ masterid = FALSE /\ stop_flag = 0
    /\ leaks = {} /\ init = 0 /\ exit = 0 /\ bound = {} /\ taken = {}

May(fault) == fault \in Faults
At(p) == pc = p

-----------------------------------------------------------------------------
(* The library *)

(* mg_init_library sets its objects up in this order; when one fails, it *)
(* undoes those before it, but not when there is no memory for the list  *)
(* of methods.                                                           *)
InitObjects ==
    \/ library' = LibraryObjects /\ called' = called + 1
    \/ May("key") /\ library' = library \ {"mutex"} /\ UNCHANGED called
    \/ May("attr") /\ library' = library \ {"mutex", "key"} /\ UNCHANGED called
    \/ May("methods") /\ library' = {"key", "attr"} /\ UNCHANGED called

mg_init_library ==
    IF called <= 0 THEN InitObjects
    ELSE called' = called + 1 /\ UNCHANGED library

InitLibrary ==
    /\ At("idle") /\ starts = 0 /\ called < MaxInits /\ mg_init_library
    /\ UNCHANGED <<pc, code, starts, ctx, ports, taken, threads>>

ExitLibrary ==
    /\ At("idle") /\ called > 0
    /\ called' = called - 1
    /\ library' = IF called' = 0 THEN {} ELSE library
    /\ UNCHANGED <<pc, code, starts, ctx, ports, taken, threads>>

-----------------------------------------------------------------------------
(* The failures of mg_start2 *)

(* free_context calls exit_context, and knows nothing of the ports. *)
free_context ==
    /\ exit' = exit + (IF exit_context THEN 1 ELSE 0)
    /\ held' = held \ FreedByContext
    /\ leaks' = leaks \cup {[port |-> sockets[i]] : i \in DOMAIN sockets}
                      \cup (IF fds THEN {[memory |-> "fds"]} ELSE {})
    /\ UNCHANGED <<init, exit_context>>

Fail(c) ==
    /\ code' = c /\ pc' = "failed"
    /\ free_context
    /\ UNCHANGED <<lib, starts, ports, taken, threads>>

Go(p) == pc' = p /\ UNCHANGED <<code, starts>>
Hold(rs) == held' = held \cup rs /\ UNCHANGED <<leaks, init, exit, exit_context>>

(* A step that gets resources or fails. *)
Get(from, to, rs, fault, c) ==
    /\ At(from)
    /\ \/ Go(to) /\ Hold(rs) /\ UNCHANGED <<lib, ports, taken, threads>>
       \/ May(fault) /\ Fail(c)

-----------------------------------------------------------------------------
(* The steps of mg_start2 *)

(* CivetServer's constructor calls mg_start2, which initializes the *)
(* library if nobody has (legacy_init).                             *)
Start ==
    /\ At("idle") /\ starts < MaxStarts
    /\ starts' = starts + 1 /\ code' = "ok"
    /\ IF called = 0 THEN mg_init_library ELSE UNCHANGED lib
    /\ pc' = IF called' = 0 THEN "failed" ELSE "context"
    /\ UNCHANGED <<ctx, ports, taken, threads>>

Context == Get("context", "sync", {"ctx"}, "context", "memory")

(* Without one of them ctx is freed, and nothing else. *)
SyncObjects ==
    /\ At("sync")
    /\ \/ Go("options") /\ Hold(Sync) /\ UNCHANGED lib
       \/ /\ May("sync")
          /\ \E rs \in SUBSET Sync \ {Sync} :
               leaks' = leaks \cup {[object |-> r] : r \in rs}
          /\ held' = {} /\ code' = "os" /\ pc' = "failed"
          /\ UNCHANGED <<lib, starts, init, exit, exit_context>>
    /\ UNCHANGED <<ports, taken, threads>>

(* An option that does not exist or has no value ends the start after *)
(* others have been stored; defaults, then the checks of the sizes.   *)
Options == \/ Get("options", "queue", {"config"}, "option", "option")
           \/ /\ At("options") /\ May("option") /\ Hold({"config"})
              /\ Go("options_failed") /\ UNCHANGED <<lib, ports, taken, threads>>
OptionsFailed == At("options_failed") /\ Fail("option")
Queue == Get("queue", "threads", {"squeue"}, "queue", "memory")

SetThreads(w, p) ==
    /\ max' = w /\ prespawn' = IF p < 0 \/ p > w THEN w ELSE p
    /\ UNCHANGED <<spawned, alive, master, masterid, stop_flag>>
CountThreads ==
    /\ At("threads")
    /\ \E w \in Threads, p \in Prespawn :
         IF w > MaxWorkerThreads \/ w <= 0 THEN Fail("option")
         ELSE /\ SetThreads(w, p) /\ Hold({"system"}) /\ Go("passwords")
              /\ UNCHANGED <<lib, ports, taken>>

Passwords ==
    /\ At("passwords")
    /\ \/ /\ Go("ports") /\ \E l \in PortLists : list' = l
          /\ total' = 0 /\ ok' = 0
          /\ UNCHANGED <<lib, ctx, sockets, fds, bound, taken, threads>>
       \/ May("passwords") /\ Fail("passwords")

-----------------------------------------------------------------------------
(* set_ports_option, one entry of the list at a time *)

(* parse_port_string: the build has no IPv6.  After the number each of *)
(* o, r and s once, and not both r and s.                              *)
Suffixed(e) ==
    /\ \A i \in DOMAIN e.suffix : e.suffix[i] \in {"o", "r", "s"}
    /\ \A i, j \in DOMAIN e.suffix : e.suffix[i] = e.suffix[j] => i = j
    /\ ~({"r", "s"} \subseteq {e.suffix[i] : i \in DOMAIN e.suffix})
parse_port_string(e) ==
    /\ e.form \in {"number", "address", "plus", "name"}
    /\ e.port <= 65535
    /\ Suffixed(e)
Optional(e) == \E i \in DOMAIN e.suffix : e.suffix[i] = "o"

NextEntry(good) ==
    /\ list' = Tail(list) /\ total' = total + 1
    /\ ok' = ok + (IF good THEN 1 ELSE 0)
    /\ pc' = pc /\ UNCHANGED <<lib, code, starts, ctx, taken, threads>>

PortBad ==
    /\ At("ports") /\ list # <<>> /\ ~parse_port_string(Head(list))
    /\ NextEntry(FALSE) /\ UNCHANGED <<sockets, fds, bound>>

(* No socket, or the port is bound already. *)
PortRefused ==
    /\ At("ports") /\ list # <<>> /\ parse_port_string(Head(list))
    /\ May("socket") \/ Head(list).port \in bound \cup taken
    /\ NextEntry(Optional(Head(list))) /\ UNCHANGED <<sockets, fds, bound>>

(* listen, getsockname or the backlog option fail, or there is no memory *)
(* for one more socket.                                                  *)
PortLost ==
    /\ At("ports") /\ list # <<>> /\ parse_port_string(Head(list))
    /\ Head(list).port \notin bound \cup taken
    /\ May("listen")
    /\ NextEntry(FALSE) /\ UNCHANGED <<sockets, fds, bound>>

(* There is memory for the socket but not for its poll entry: the new *)
(* block of sockets is freed while listening_sockets has the old one. *)
PortNoPoll ==
    /\ At("ports") /\ list # <<>> /\ parse_port_string(Head(list))
    /\ Head(list).port \notin bound \cup taken
    /\ May("poll memory")
    /\ list' = Tail(list) /\ total' = total + 1
    /\ pc' = IF sockets = <<>> THEN pc ELSE "undefined"
    /\ UNCHANGED <<lib, code, starts, ctx, ok, sockets, fds, bound, taken, threads>>

PortOpened ==
    /\ At("ports") /\ list # <<>> /\ parse_port_string(Head(list))
    /\ Head(list).port \notin bound \cup taken
    /\ sockets' = Append(sockets, Head(list).port) /\ fds' = TRUE
    /\ bound' = bound \cup {Head(list).port}
    /\ NextEntry(TRUE)

close_all_listening_sockets ==
    /\ bound' = bound \ {sockets[i] : i \in DOMAIN sockets}
    /\ sockets' = <<>> /\ fds' = FALSE
EnoughPorts == ok = total /\ ok > 0
(* All entries or none: otherwise what was opened is closed again. *)
PortsDone ==
    /\ At("ports") /\ list = <<>>
    /\ IF EnoughPorts THEN Go("user") /\ UNCHANGED <<lib, ctx, ports, taken, threads>>
       ELSE /\ close_all_listening_sockets
            /\ code' = "ports" /\ pc' = "failed"
            /\ exit' = exit + (IF exit_context THEN 1 ELSE 0)
            /\ held' = held \ FreedByContext
            /\ UNCHANGED <<lib, starts, leaks, init, exit_context, list, total, ok, taken, threads>>

-----------------------------------------------------------------------------
User == Get("user", "acl", {}, "user", "user")
Acl == Get("acl", "ids", {}, "acl", "acl")
Ids == Get("ids", "connections", {"ids"}, "ids", "memory")
Connections == Get("connections", "callback", {"connections"}, "connections", "memory")

(* Only now exit_context is set. *)
InitContext ==
    /\ At("callback")
    /\ init' = init + 1 /\ exit_context' = TRUE
    /\ Go("workers")
    /\ UNCHANGED <<lib, held, leaks, exit, ports, taken, threads>>

mg_start_worker_thread ==
    /\ spawned < max
    /\ spawned' = spawned + 1 /\ alive' = alive \cup {spawned + 1}

(* Prespawned workers: the first one must start. *)
StartWorker ==
    /\ At("workers") /\ spawned < prespawn
    /\ mg_start_worker_thread /\ pc' = pc
    /\ UNCHANGED <<lib, code, starts, ctx, ports, taken, max, prespawn, master, masterid, stop_flag>>

NoWorker ==
    /\ At("workers") /\ spawned < prespawn /\ May("worker")
    /\ IF spawned > 0 THEN Go("master") /\ UNCHANGED <<lib, ctx, ports, taken, threads>>
       ELSE Fail("os")
(* Whether the master thread could be started is not asked. *)
StartMaster ==
    /\ At("master") \/ (At("workers") /\ spawned >= prespawn)
    /\ \/ master' = "new" /\ masterid' = TRUE
       \/ May("master") /\ UNCHANGED <<master, masterid>>
    /\ Go("running")
    /\ UNCHANGED <<lib, ctx, ports, taken, workers, stop_flag>>

-----------------------------------------------------------------------------
(* The other threads *)

(* master_thread_run returns at once when there is nothing to poll. *)
MasterBegins ==
    /\ master = "new" /\ master' = IF fds THEN "loop" ELSE "gone"
    /\ UNCHANGED <<lib, pc, code, starts, ctx, ports, taken, workers, masterid, stop_flag>>

(* A request finds no idle worker; while the server runs, and after the *)
(* flag is set until the loop looks at it.                              *)
MasterSpawns ==
    /\ master = "loop" /\ mg_start_worker_thread
    /\ UNCHANGED <<lib, pc, code, starts, ctx, ports, taken, max, prespawn, master, masterid,
                   stop_flag>>

MasterStops ==
    /\ master = "loop" /\ stop_flag = 1
    /\ close_all_listening_sockets /\ master' = "join"
    /\ UNCHANGED <<lib, pc, code, starts, ctx, list, total, ok, taken, workers, masterid, stop_flag>>

MasterJoined ==
    /\ master = "join" /\ alive = {}
    /\ master' = "gone" /\ stop_flag' = 2
    /\ UNCHANGED <<lib, pc, code, starts, ctx, ports, taken, workers, masterid>>
WorkerEnds(w) ==
    /\ w \in alive /\ stop_flag # 0
    /\ alive' = alive \ {w}
    /\ UNCHANGED <<lib, pc, code, starts, ctx, ports, taken, max, prespawn, spawned, master,
                   masterid, stop_flag>>

(* Other programs. *)
Take(p) == /\ p \notin bound \cup taken /\ taken' = taken \cup {p}
           /\ UNCHANGED <<lib, pc, code, starts, ctx, ports, threads>>
GiveBack(p) == /\ p \in taken /\ taken' = taken \ {p}
               /\ UNCHANGED <<lib, pc, code, starts, ctx, ports, threads>>

-----------------------------------------------------------------------------
(* mg_stop, from CivetServer::close *)

Stop ==
    /\ At("running")
    /\ IF masterid
       THEN masterid' = FALSE /\ stop_flag' = 1 /\ Go("stopping")
       ELSE Go("stopped") /\ UNCHANGED <<masterid, stop_flag>>
    /\ UNCHANGED <<lib, ctx, ports, taken, workers, master>>

(* Faulty: the context is freed without waiting for the master. *)
StoppedAtOnce ==
    /\ At("stopping")
    /\ free_context /\ Go("stopped")
    /\ UNCHANGED <<lib, ports, taken, threads>>

(* It waits for the flag, joins the master, frees the context. *)
Stopped ==
    /\ At("stopping") /\ stop_flag = 2 /\ master = "gone"
    /\ free_context /\ Go("stopped")
    /\ UNCHANGED <<lib, ports, taken, threads>>

(* The caller goes on, with the memory of the context given back. *)
Again ==
    /\ pc \in {"failed", "stopped"} /\ alive = {} /\ master \in {"none", "gone"}
    /\ pc' = "idle" /\ held' = {} /\ exit_context' = FALSE
    /\ list' = <<>> /\ total' = 0 /\ ok' = 0 /\ sockets' = <<>> /\ fds' = FALSE
    /\ max' = 0 /\ prespawn' = 0 /\ spawned' = 0 /\ alive' = {}
    /\ master' = "none" /\ masterid' = FALSE /\ stop_flag' = 0
    /\ UNCHANGED <<lib, code, starts, leaks, init, exit, bound, taken>>

Library == InitLibrary \/ ExitLibrary
Starting == \/ Start \/ Context \/ SyncObjects \/ Options \/ OptionsFailed \/ Queue
            \/ CountThreads \/ Passwords
            \/ PortBad \/ PortRefused \/ PortLost \/ PortNoPoll \/ PortOpened \/ PortsDone
            \/ User \/ Acl \/ Ids \/ Connections \/ InitContext
            \/ StartWorker \/ NoWorker \/ StartMaster
Master == MasterBegins \/ MasterStops \/ MasterJoined
Next == \/ Library \/ Starting \/ Master \/ MasterSpawns
        \/ \E w \in alive : WorkerEnds(w)
        \/ \E p \in OtherPorts : Take(p) \/ GiveBack(p)
        \/ Stop \/ Stopped \/ Again

(* The server's threads and mg_stop run; worker threads end when told to *)
(* (SocketQueue and Connection have the conditions for that).            *)
Spec == Init /\ [][Next]_vars
        /\ WF_vars(Master) /\ WF_vars(Stopped)
        /\ \A w \in 1 .. MaxWorkerThreads : WF_vars(WorkerEnds(w))

-----------------------------------------------------------------------------
(* Properties *)

(* mg_start2: the exit callback "should not be called, if an incomplete    *)
(* context object is deleted": each context that saw init_context sees     *)
(* exit_context, once, and no other does.                                  *)
CallbacksPaired ==
    /\ pc \in {"failed", "idle"} => exit = init
    /\ pc \in {"running", "stopping"} => init = exit + 1

(* A server that mg_stop has stopped leaves nothing behind: its threads    *)
(* have ended, its ports are free, its memory is freed; what still is held *)
(* is held by starts that had failed.                                      *)
StoppedClean ==
    (pc = "stopped" /\ stop_flag = 2) =>
        /\ held = {} /\ alive = {} /\ sockets = <<>> /\ ~fds
        /\ bound = {l.port : l \in {k \in leaks : "port" \in DOMAIN k}}

(* A start that fails for its ports has opened none, whichever of the      *)
(* entries failed; a server that runs has all those that are not optional. *)
AllPortsOrNone ==
    /\ (pc = "failed" /\ code = "ports") =>
          bound = {l.port : l \in {k \in leaks : "port" \in DOMAIN k}}
    /\ (pc = "running" /\ stop_flag = 0) => ok = total /\ fds = (sockets # <<>>)

(* While a thread of a server runs, the context it works with is there.    *)
ContextOutlivesThreads ==
    (alive # {} \/ master \in {"new", "loop", "join"}) => "ctx" \in held

(* The library's objects exist from the first call of mg_init_library that *)
(* works to the call of mg_exit_library that undoes the last one.          *)
LibraryCounted == library = IF called > 0 THEN LibraryObjects ELSE {}

(* A server that runs has a worker, or has been told to prespawn none.     *)
HasWorker == pc = "running" => spawned > 0 \/ prespawn = 0

=============================================================================
