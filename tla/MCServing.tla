--------------------------------- MODULE MCServing ----------------------------------
(***************************************************************************)
(* What keeps the server going and goes on around a request, for TLC: the  *)
(* queue of connections, start and shutdown, one connection's bytes in and *)
(* out, forms, CGI programs, and clients of other servers.  These parts    *)
(* share no state, so that one run explores their disjoint union: `part'   *)
(* says whose behaviour it is.  The two kinds of forms share variables.    *)
(***************************************************************************)
EXTENDS SocketQueue, Integers

CONSTANTS
    s1, s2, s3,
    Parts,          \* the parts to explore
    None            \* no connection; the variables of a part that does not run

VARIABLES
    part,           \* the part this behaviour is of
    called, library, start_pc, code, starts, held, leaks, init, exit,
    exit_context, list, total, ok, sockets, fds, bound, taken, max, prespawn,
    start_spawned, alive, start_master, masterid, start_stop,  \* ServerStart
    main, registered, state, free, owner, running, writer, down_pc, undefined,  \* Shutdown
    reqs, wire, buf, conn, call, conn_pc, stop, gone, body, answered, said,  \* Connection
    throttle, last_bytes, fresh, due, job, chunk, requests, writes, out_stop,
    broken, out_pc, sent, ret, out,  \* Output
    form, method, rest, form_buf, val, next, all_data_read, abort_read,
    storage, file, field_count, result, form_pc, fields,  \* UrlForm
    mode, ebuf_len, ebuf, mem, client_sock, mutex, script, todo, client_wire,
    open, client_sent, client_buf, response, timeout, waited, client_pc, seen,  \* Client
    workload, lg_main, lg_next, popular_keys, stored, stop_test,
    total_requests, total_failed, lg_pc, handle, lg_ok, request, rounds,
    index,  \* LoadGen
    cgi_job, prog, pipe, twice, stray,  \* Cgi
    env_todo, block, strings, var, space, env_pc, failures, env_request  \* CgiEnv

-----------------------------------------------------------------------------
(* Starting: a port that has to be there, one that may be missing, and     *)
(* entries that are not port specifications.                               *)
Port(f, p, s) == [form |-> f, port |-> p, suffix |-> s]
Http == Port("number", 8080, <<>>)
OptionalPort == Port("address", 9090, <<"o">>)
PortLists ==
    {<<Http>>, <<Http, OptionalPort>>, <<Http, Http>>, <<Http, Port("number", 9090, <<"r", "s">>)>>,
     <<>>, <<Http, Port("plus", 70000, <<>>)>>, <<Http, Port("name", 9090, <<"o", "o">>), OptionalPort>>,
     <<Port("ip6", 8080, <<>>)>>}
StartFaults ==
    {"key", "attr", "context", "sync", "option", "queue", "passwords", "socket", "listen",
     "user", "acl", "ids", "connections", "worker", "poll memory"}

(* Connections: clients that send two or three requests: bodies of known   *)
(* length, chunked with and without a trailer, broken chunks, heads that   *)
(* are malformed, too long, or of another protocol, or ask for a close.    *)
Get == [head |-> 2, ends |-> "end", line |-> "ok", version |-> "1.1", connection |-> "none",
        te |-> "none", length |-> "none", uri |-> "relative", body |-> <<>>]
Data == <<"data", 0>>
Hex(n) == <<"size", n>>
Crlf == <<"crlf", 0>>
Blank == <<"blank", 0>>
Post == [Get EXCEPT !.length = "given", !.body = <<Data, Data, Data>>]
Chunked(b) == [Get EXCEPT !.te = "chunked", !.head = 1, !.body = b]
Chunks == Chunked(<<Hex(2), Data, Data, Crlf, Hex(1), Data, Crlf, Hex(0), Blank>>)
Trailer == Chunked(<<Hex(1), Data, Crlf, Hex(0), <<"trailer", 0>>, Blank>>)
NoCrlf == Chunked(<<Hex(1), Data, Hex(0), Blank>>)
GoodRequests ==
    {Get, Post, Chunks, Trailer, NoCrlf,
     [Post EXCEPT !.connection = "close"], [Get EXCEPT !.version = "1.0"],
     [Post EXCEPT !.version = "1.0", !.connection = "keep-alive"]}
BadRequests ==
    {[Get EXCEPT !.line = "bad"], [Get EXCEPT !.te = "other"], [Get EXCEPT !.ends = "bad"],
     [Post EXCEPT !.length = "bad"], [Get EXCEPT !.version = "2.0"],
     [Get EXCEPT !.uri = "bad"], [Get EXCEPT !.uri = "asterisk"], [Get EXCEPT !.uri = "foreign"],
     [Get EXCEPT !.head = 5]}
Streams == {<<a, b>> : a \in GoodRequests, b \in {Get, Chunks}}
             \cup {<<a, Get>> : a \in BadRequests} \cup {<<Post, a>> : a \in BadRequests}
             \cup {<<Get, Chunks, Get>>, <<Post, Post, Get>>}

(* Forms: values shorter and longer than the buffer, and escapes at every  *)
(* place of it; contents that begin like a delimiter several times, an     *)
(* empty one, a preamble, and a part without a name.                       *)
UrlForms == {<<"a", "=", "x", "&", "b">>, <<"a", "=", "x", "nul", "y", "&", "b", "=", "x">>,
             <<"a", "=", "x", "y", "z", "%", "4", "1", "w", "v", "&", "b", "=", "%", "4", "1">>,
             <<"a", "=", "%", "4", "1", "%", "4", "1", "%", "4", "1", "&", "b", "=", "&", "c", "=", "u">>,
             <<"a", "=", "x", "%", "4", "1", "y", "%", "4", "1", "z">>,
             <<"a", "=", "&", "b", "=">>}
FormPart(n, c, w) == [name |-> n, content |-> c, padding |-> w]
FormOf(p, parts, e) == [preamble |-> p, epilogue |-> e, parts |-> parts]
Tricky == <<"x", "nl", "-", "y", "nl", "nl", "-", "x", "-", "b", "nl", "y", "nl", "-">>
Multiparts ==
    {FormOf(<<>>, <<FormPart("A", SubSeq(Tricky, 1, n), 0), FormPart("B", <<"x">>, 0)>>, <<>>) : n \in 1 .. Len(Tricky)}
    \cup
    {FormOf(<<"x", "nl">>, <<FormPart("A", Tricky, 1), FormPart("B", <<>>, 0)>>, <<"nl", "e">>),
     FormOf(<<>>, <<FormPart("B", <<>>, 1), FormPart("A", <<"nl", "x">>, 0), FormPart("B", Tail(Tricky), 0)>>, <<>>),
     FormOf(<<>>, <<FormPart("A", <<"x", "nl", "-", "b2">>, 0), FormPart("none", <<>>, 0)>>, <<>>)}
CutMultiparts ==
    {FormOf(<<"x", "nl">>, <<FormPart("A", <<"nl", "-", "x", "nl", "nl", "-", "y">>, 0), FormPart("B", <<"nl">>, 0)>>, <<>>)}
Storages == {"skip", "get", "store", "abort"}
Handles == {"get", "next", "abort"}

(* Clients: servers that answer once or twice, with every framing.         *)
Answer(status, framing, content) ==
    [status |-> status, framing |-> framing, head |-> 1, body |-> content, interim |-> FALSE]
Continue == [status |-> 100, framing |-> "close", head |-> 1, body |-> 0, interim |-> TRUE]
LongHeader(n) == [Answer(200, "length", 1) EXCEPT !.head = n]
Answers ==
    {Answer(200, "length", n) : n \in {0, 2}} \cup {Answer(200, "chunked", n) : n \in 0 .. 1}
    \cup {Answer(204, "close", 0), Answer(304, "length", 0)}
LastAnswers == Answers \cup {Answer(200, "close", n) : n \in 0 .. 2}
FirstAnswers == {Answer(200, "length", 2), Answer(200, "chunked", 1), Answer(204, "close", 0)}
Responses ==
    {<<q>> : q \in LastAnswers} \cup {<<LongHeader(n)>> : n \in 3 .. 4}
    \cup {<<Continue, Answer(200, "length", 1)>>} \cup {<<p, q>> : p \in FirstAnswers, q \in LastAnswers}

(* CGI: programs that read their whole input, or none of it, before they   *)
(* write; the quiet ones fill neither output while the server still        *)
(* forwards the body.                                                      *)
Kind(reads, outs, errs, head, status) ==
    [reads : reads, outs : outs, errs : errs, head : head, status : status]
Tame ==
    Kind({"all", "none"}, 1 .. 4, {0, 1}, {TRUE}, {0, 1}) \cup Kind({"all", "none"}, 0 .. 2, 0 .. 3, {FALSE}, {1})
Quiet == {p \in Tame : p.errs <= 2 /\ (p.reads = "all" \/ p.outs <= 2)}
Filters == Kind({"all"}, {1, 3}, {0}, {TRUE}, {0}) \cup Kind({"none"}, {0}, {1}, {FALSE}, {1})
CgiFaults == {"env", "path", "pipe", "memory", "fork", "fdopen", "expect", "lost", "timeout", "gone"}

(* The environment of a program: variables longer than a block of it, and  *)
(* more of them than there is room for.                                    *)
EnvRequests ==
    [fallback : {FALSE}, script : {"file"}, info : {TRUE},
     given : {{}, {"CONTENT_TYPE", "CONTENT_LENGTH", "PATH"}}, user : BOOLEAN,
     headers : {<<>>, <<"Host", "longname", "Accept">>}, own : {<<"MODE">>},
     long : {{}, {"LOCAL_URI", "LOCAL_URI_RAW"}, {"HTTP_Host", "MODE"}}]
    \cup [fallback : {TRUE}, script : {"index", "bare"}, info : {FALSE},
          given : {{"QUERY_STRING", "STATUS", "LD_LIBRARY_PATH", "PERLLIB"}}, user : {FALSE},
          headers : {<<"Accept">>}, own : {<<"MODE", "LANG">>}, long : {{"HTTP_Accept"}, {"PERLLIB", "LANG"}}]
-----------------------------------------------------------------------------
Steady == INSTANCE SocketQueue WITH
    Sockets <- {s1, s2, s3}, NoSocket <- NoSocket, SqSize <- 2,
    MaxWorkers <- 2, MayFail <- FALSE

Starting == INSTANCE ServerStart WITH
    PortLists <- PortLists, Threads <- 0 .. 3, Prespawn <- {-1, 1, 9},
    MaxWorkerThreads <- 2, OtherPorts <- {9090}, MaxStarts <- 2,
    MaxInits <- 2, Faults <- StartFaults, pc <- start_pc,
    spawned <- start_spawned, master <- start_master, stop_flag <- start_stop

Down == INSTANCE Shutdown WITH
    Threads <- {1, 2}, Writer <- 3, Conns <- {"c1", "c2"}, NoConn <- None,
    Paths <- {"create", "get", "delete"}, pc <- down_pc

Connect == INSTANCE Connection WITH
    Streams <- Streams, BufSize <- 4, KeepAlive <- TRUE, ReadSizes <- {1, 3},
    Faults <- {"timeout", "gone", "stop"}, pc <- conn_pc

Out == INSTANCE Output WITH
    Throttles <- {0, 2, 3}, Lengths <- {1, 7}, MaxRequests <- 2,
    MaxWrites <- 2, Faults <- {"error", "timeout", "stop"}, stop <- out_stop,
    pc <- out_pc

Url == INSTANCE UrlForm WITH
    Forms <- UrlForms, Size <- 5, Storages <- Storages, Handles <- Handles,
    Faults <- {"error", "open", "write", "fclose"}, buf <- form_buf,
    pc <- form_pc

Multi == INSTANCE MultipartForm WITH
    Forms <- Multiparts, Names <- {"A", "B"}, Size <- 12, MaxPreamble <- 3,
    Storages <- Storages, Handles <- Handles,
    Faults <- {"error", "open", "write", "fclose"}, buf <- form_buf,
    pc <- form_pc, hend <- val, part_no <- method, parts <- fields

Cut == INSTANCE MultipartForm WITH
    Forms <- CutMultiparts, Names <- {"A", "B"}, Size <- 11, MaxPreamble <- 3,
    Storages <- {"get", "store"}, Handles <- {"get"},
    Faults <- {"timeout", "close"}, buf <- form_buf, pc <- form_pc,
    hend <- val, part_no <- method, parts <- fields

Caller == INSTANCE Client WITH
    Responses <- Responses, BufSize <- 4, Default <- 1,
    Timeouts <- {-1, 0, 1}, EbufLens <- {1}, MaxWait <- 3,
    Faults <- {"memory", "host", "socket", "connect", "mutex", "send", "close", "silent"},
    sock <- client_sock, wire <- client_wire, sent <- client_sent,
    buf <- client_buf, pc <- client_pc

Load == INSTANCE LoadGen WITH
    Workers <- {1, 2},
    Workloads <- {"get-popular", "get-all", "put-all", "get-put", "other"},
    POPULAR_KEY_COUNT <- 2, MaxRounds <- 2, main <- lg_main, next <- lg_next,
    pc <- lg_pc, ok <- lg_ok

Quietly == INSTANCE Cgi WITH
    Workers <- {1}, Programs <- Quiet, MaxBody <- 3, PipeSize <- 2,
    BufferRoom <- 3, Faults <- {}, job <- cgi_job

Failing == INSTANCE Cgi WITH
    Workers <- {1}, Programs <- Tame, MaxBody <- 3, PipeSize <- 2,
    BufferRoom <- 3, Faults <- CgiFaults, job <- cgi_job

Together == INSTANCE Cgi WITH
    Workers <- {1, 2}, Programs <- Filters, MaxBody <- 1, PipeSize <- 2,
    BufferRoom <- 3, Faults <- {"lost"}, job <- cgi_job

Environ == INSTANCE CgiEnv WITH
    Requests <- EnvRequests, Chunk <- 16, MaxVars <- 24, LongLength <- 20,
    MaxFailures <- 1, todo <- env_todo, pc <- env_pc, request <- env_request

startingVars == <<called, library, start_pc, code, starts, held, leaks, init,
                  exit, exit_context, list, total, ok, sockets, fds, bound,
                  taken, max, prespawn, start_spawned, alive, start_master,
                  masterid, start_stop>>
downVars == <<main, registered, state, free, owner, running, writer, down_pc,
              undefined>>
connectVars == <<reqs, wire, buf, conn, call, conn_pc, stop, gone, body,
                 answered, said>>
outVars == <<throttle, last_bytes, fresh, due, job, chunk, requests, writes,
             out_stop, broken, out_pc, sent, ret, out>>
urlVars == <<form, method, rest, form_buf, val, next, all_data_read,
             abort_read, storage, file, field_count, result, form_pc, fields>>
callerVars == <<mode, ebuf_len, ebuf, mem, client_sock, mutex, script, todo,
                client_wire, open, client_sent, client_buf, response, timeout,
                waited, client_pc, seen>>
loadVars == <<workload, lg_main, lg_next, popular_keys, stored, stop_test,
              total_requests, total_failed, lg_pc, handle, lg_ok, request,
              rounds, index>>
quietlyVars == <<cgi_job, prog, pipe, twice, stray>>
environVars == <<env_todo, block, strings, var, space, env_pc, failures,
                 env_request>>
all == <<part, vars, startingVars, downVars, connectVars, outVars, urlVars,
        callerVars, loadVars, quietlyVars, environVars>>

(* Only one part runs: the others stay as they are.                        *)
Runs(p) ==
    /\ part = p /\ UNCHANGED part
    /\ IF p \in {"sockets", "steady sockets"} THEN TRUE ELSE UNCHANGED vars
    /\ IF p = "start" THEN TRUE ELSE UNCHANGED startingVars
    /\ IF p = "shutdown" THEN TRUE ELSE UNCHANGED downVars
    /\ IF p = "connection" THEN TRUE ELSE UNCHANGED connectVars
    /\ IF p = "output" THEN TRUE ELSE UNCHANGED outVars
    /\ IF p \in {"url form", "multipart", "cut multipart"} THEN TRUE ELSE UNCHANGED urlVars
    /\ IF p = "client" THEN TRUE ELSE UNCHANGED callerVars
    /\ IF p = "load" THEN TRUE ELSE UNCHANGED loadVars
    /\ IF p \in {"cgi", "failing cgi", "two cgi"} THEN TRUE ELSE UNCHANGED quietlyVars
    /\ IF p = "environment" THEN TRUE ELSE UNCHANGED environVars

Idle(p) ==
    /\ IF p = "start" THEN TRUE ELSE
          /\ called = None /\ library = None /\ start_pc = None /\ code = None
          /\ starts = None /\ held = None /\ leaks = None /\ init = None
          /\ exit = None /\ exit_context = None /\ list = None /\ total = None
          /\ ok = None /\ sockets = None /\ fds = None /\ bound = None
          /\ taken = None /\ max = None /\ prespawn = None
          /\ start_spawned = None /\ alive = None /\ start_master = None
          /\ masterid = None /\ start_stop = None
    /\ IF p = "shutdown" THEN TRUE ELSE
          /\ main = None /\ registered = None /\ state = None /\ free = None
          /\ owner = None /\ running = None /\ writer = None /\ down_pc = None
          /\ undefined = None
    /\ IF p = "connection" THEN TRUE ELSE
          /\ reqs = None /\ wire = None /\ buf = None /\ conn = None
          /\ call = None /\ conn_pc = None /\ stop = None /\ gone = None
          /\ body = None /\ answered = None /\ said = None
    /\ IF p = "output" THEN TRUE ELSE
          /\ throttle = None /\ last_bytes = None /\ fresh = None
          /\ due = None /\ job = None /\ chunk = None /\ requests = None
          /\ writes = None /\ out_stop = None /\ broken = None
          /\ out_pc = None /\ sent = None /\ ret = None /\ out = None
    /\ IF p \in {"url form", "multipart", "cut multipart"} THEN TRUE ELSE
          /\ form = None /\ method = None /\ rest = None /\ form_buf = None
          /\ val = None /\ next = None /\ all_data_read = None
          /\ abort_read = None /\ storage = None /\ file = None
          /\ field_count = None /\ result = None /\ form_pc = None
          /\ fields = None
    /\ IF p = "client" THEN TRUE ELSE
          /\ mode = None /\ ebuf_len = None /\ ebuf = None /\ mem = None
          /\ client_sock = None /\ mutex = None /\ script = None
          /\ todo = None /\ client_wire = None /\ open = None
          /\ client_sent = None /\ client_buf = None /\ response = None
          /\ timeout = None /\ waited = None /\ client_pc = None
          /\ seen = None
    /\ IF p = "load" THEN TRUE ELSE
          /\ workload = None /\ lg_main = None /\ lg_next = None
          /\ popular_keys = None /\ stored = None /\ stop_test = None
          /\ total_requests = None /\ total_failed = None /\ lg_pc = None
          /\ handle = None /\ lg_ok = None /\ request = None /\ rounds = None
          /\ index = None
    /\ IF p \in {"cgi", "failing cgi", "two cgi"} THEN TRUE ELSE
          /\ cgi_job = None /\ prog = None /\ pipe = None /\ twice = None
          /\ stray = None
    /\ IF p = "environment" THEN TRUE ELSE
          /\ env_todo = None /\ block = None /\ strings = None /\ var = None
          /\ space = None /\ env_pc = None /\ failures = None
          /\ env_request = None

SuiteInit ==
    /\ part \in Parts
    /\ Idle(part)
    /\ \/ part \notin {"steady sockets"} /\ Init
       \/ part = "steady sockets" /\ Steady!Init
    /\ \/ part \in {"sockets", "steady sockets"}
       \/ part = "start" /\ Starting!Init
       \/ part = "shutdown" /\ Down!Init
       \/ part = "connection" /\ Connect!Init
       \/ part = "output" /\ Out!Init
       \/ part = "url form" /\ Url!Init
       \/ part = "multipart" /\ Multi!Init
       \/ part = "cut multipart" /\ Cut!Init
       \/ part = "client" /\ Caller!Init
       \/ part = "load" /\ Load!Init
       \/ part = "cgi" /\ Quietly!Init
       \/ part = "failing cgi" /\ Failing!Init
       \/ part = "two cgi" /\ Together!Init
       \/ part = "environment" /\ Environ!Init

SuiteNext ==
    \/ Runs("sockets") /\ Next
    \/ Runs("steady sockets") /\ Steady!Next
    \/ Runs("start") /\ Starting!Next
    \/ Runs("shutdown") /\ Down!Next
    \/ Runs("connection") /\ Connect!Next
    \/ Runs("output") /\ Out!Next
    \/ Runs("url form") /\ Url!Next
    \/ Runs("multipart") /\ Multi!Next
    \/ Runs("cut multipart") /\ Cut!Next
    \/ Runs("client") /\ Caller!Next
    \/ Runs("load") /\ Load!Next
    \/ Runs("cgi") /\ Quietly!Next
    \/ Runs("failing cgi") /\ Failing!Next
    \/ Runs("two cgi") /\ Together!Next
    \/ Runs("environment") /\ Environ!Next

ASSUME PartsAssumption ==
    /\ Starting!ThreadsAssumption /\ Starting!MaxWorkerThreadsAssumption
    /\ Down!ShutdownAssumption /\ Connect!BufferAssumption /\ Out!OutputAssumption
    /\ Url!SizeAssumption /\ Multi!FormAssumption /\ Cut!FormAssumption
    /\ Caller!ClientAssumption /\ Load!LoadGenAssumption
    /\ Quietly!CgiAssumption /\ Failing!CgiAssumption /\ Together!CgiAssumption /\ Environ!CgiEnvAssumption

(* The fairness of every part, as its module states it: the threads of the *)
(* part run, its handlers and programs go on, and its time passes.         *)
First ==
    \/ Runs("sockets") /\ Master
    \/ Runs("steady sockets") /\ Steady!Master
    \/ Runs("start") /\ Starting!Master
    \/ Runs("connection") /\ Connect!Worker
    \/ Runs("output") /\ Out!MgWrite
    \/ Runs("url form") /\ Url!Next
    \/ Runs("multipart") /\ Multi!Next
    \/ Runs("cut multipart") /\ Cut!Next
    \/ Runs("client") /\ Caller!Caller
    \/ Runs("load") /\ (Load!SleepEnds \/ Load!Report)
    \/ Runs("cgi") /\ Quietly!Worker(1)
Second ==
    \/ Runs("sockets") /\ StopReturn
    \/ Runs("steady sockets") /\ Steady!StopReturn
    \/ Runs("start") /\ Starting!Stopped
    \/ Runs("output") /\ Out!Tick
    \/ Runs("client") /\ Caller!Establish
    \/ Runs("cgi") /\ Quietly!Program(1)
Third ==
    \/ Runs("client") /\ Caller!Wait
Each(w) ==
    \/ Runs("sockets") /\ WorkerStep(w)
    \/ Runs("steady sockets") /\ Steady!WorkerStep(w)
    \/ Runs("start") /\ Starting!WorkerEnds(w)
    \/ Runs("load") /\ Load!Worker(w)

SuiteSpec ==
    /\ SuiteInit /\ [][SuiteNext]_all
    /\ WF_all(First) /\ WF_all(Second) /\ WF_all(Third) /\ \A w \in Workers : WF_all(Each(w))
    /\ SF_all(Runs("connection") /\ Connect!HandlerReturns)

-----------------------------------------------------------------------------
TypesOK ==
    /\ TypeOK
    /\ part = "start" => Starting!TypeOK
    /\ part = "shutdown" => Down!TypeOK
    /\ part = "connection" => Connect!TypeOK
    /\ part = "output" => Out!TypeOK
    /\ part = "url form" => Url!TypeOK
    /\ part = "multipart" => Multi!TypeOK
    /\ part = "cut multipart" => Cut!TypeOK
    /\ part = "client" => Caller!TypeOK
    /\ part = "load" => Load!TypeOK
    /\ part = "cgi" => Quietly!TypeOK
    /\ part = "failing cgi" => Failing!TypeOK
    /\ part = "two cgi" => Together!TypeOK
    /\ part = "environment" => Environ!TypeOK

(* A body reaches its own request's handler whole and in step, bytes of it *)
(* are never taken for a request, and what a handler writes is sent once   *)
(* and no faster than three times the limit (get_message, mg_read,         *)
(* mg_write).                                                              *)
BytesExact ==
    /\ [](/\ part = "connection" => Connect!InStep /\ Connect!BodyExact /\ Connect!BufferSound
          /\ part = "output" => Out!RateBounded /\ Out!WrittenIsSent)
    /\ [][part = "connection" => Connect!ClosedAsSaid]_all

(* However far a start comes, its callbacks, ports, threads and objects    *)
(* are undone by what undoes it; main takes its objects down when the      *)
(* writer has ended, and none is used before it is there (mg_start2,       *)
(* mg_stop, main of server.cpp).                                           *)
StartUndone ==
    /\ part = "start" =>
         /\ Starting!CallbacksPaired /\ Starting!StoppedClean /\ Starting!AllPortsOrNone
         /\ Starting!ContextOutlivesThreads /\ Starting!LibraryCounted /\ Starting!HasWorker
    /\ part = "shutdown" => Down!WriterQuiet /\ Down!OnlyLate

(* Wherever its blocks are cut, a form gives each field its whole content, *)
(* a stored file is whole or removed, and no field is lost                 *)
(* (mg_handle_form_request).                                               *)
FormsWhole ==
    /\ part = "url form" => Url!GotWhole /\ Url!StoredOrRemoved /\ Url!AllFields
    /\ part = "multipart" =>
         /\ Multi!PiecesWhole /\ Multi!StoredWhole /\ Multi!StoredOrRemoved /\ Multi!AllParts
    /\ part = "cut multipart" => Cut!PiecesWhole /\ Cut!StoredWhole /\ Cut!AllParts

(* A client that fails is told why and keeps nothing, a response's body is *)
(* read whole, and the load generator counts each request once, sent as    *)
(* the workload says (mg_download, mg_get_response, loadgen.cpp).          *)
ClientsTold ==
    /\ part = "client" => Caller!Released /\ Caller!ErrorsTold /\ Caller!BodyWhole
    /\ part = "load" => Load!AllCounted /\ Load!PopularStored /\ Load!SentAsMeant

(* A request for a program is answered once, with all of its output, and   *)
(* leaves neither descriptors nor zombies, whatever fails; the environment *)
(* it gets is whole and ended, however often its buffer has moved          *)
(* (handle_cgi_request, prepare_cgi_environment).                          *)
CgiWhole ==
    /\ part = "cgi" => Quietly!OutputWhole
    /\ part = "failing cgi" => Failing!EndsReleased /\ Failing!NoZombies /\ Failing!AnsweredOnce
    /\ part = "two cgi" => Together!EndsReleased /\ Together!OutputWhole
    /\ part = "environment" => Environ!PointersRight /\ Environ!EndsMarked /\ Environ!NothingLost

(* What has begun has ended: mg_stop has returned, unless the master waits *)
(* for room in the queue and no worker is left to make it; and where no    *)
(* worker fails, every connection that was accepted is closed, unless the  *)
(* server is told to stop.                                                 *)
StopSettled ==
    \/ stopper # "waiting"
    \/ /\ master = "asleep"
       /\ \A w \in Workers : worker[w] \notin {"entering", "asleep", "awake", "serving"}
Settled ==
    CASE part = "sockets" -> StopSettled
      [] part = "steady sockets" ->
            StopSettled /\ (stop_flag # 0 \/ \A s \in Sockets : sock[s] # "open")
      [] part = "start" -> start_pc # "stopping"
      [] part = "connection" -> conn_pc = "closed"
      [] part = "output" -> out_pc = "handler"
      [] part \in {"url form", "multipart", "cut multipart"} -> form_pc = "done"
      [] part = "client" -> client_pc \in {"failed", "closed"}
      [] part = "load" -> stop_test => lg_main = "printed"
      [] part = "cgi" -> cgi_job[1].pc = "end"
      [] OTHER -> TRUE

(* Whatever clients, callbacks and programs do, the calls that handle them *)
(* come to an end: connections, writes, forms, downloads, programs, and    *)
(* mg_stop (process_new_connection, mg_write, mg_handle_form_request,      *)
(* mg_get_response, handle_cgi_request, master_thread, loadgen's main).    *)
AllEnd == <>[]Settled
=============================================================================
