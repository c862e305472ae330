------------------------------ MODULE KVServer ------------------------------
(***************************************************************************)
(* The running server (src/Server/src/server.cpp): handler threads that    *)
(* answer GET, POST and DELETE from the cache, the connection pool and the *)
(* writer, and the writer thread that brings the accepted writes to MySQL. *)
(* The three components appear as what LRUCache, DBPool and AsyncWriter    *)
(* are shown to implement: LRU, PoolSpec and WriteLog.                     *)
(*                                                                         *)
(* A handler is a sequence of calls, each atomic in itself, with every     *)
(* other thread free to run in between.                                    *)
(***************************************************************************)
EXTENDS WriteTasks, Naturals, Sequences, FiniteSets

CONSTANTS
    Threads,    \* the threads that run handlers
    Writer,     \* the writer thread
    Conns, NoConn,
    ShardOf, Capacity,
    NoKey,      \* the empty key: "missing key"
    Unknown,    \* "no particular answer is expected"
    MaxRequests \* bound of the model: the number of requests

ASSUME WriterAssumption == Writer \notin Threads

VARIABLES
    store, usedBefore,          \* the cache (LRU)
    state, free, owner,         \* the pool (PoolSpec)
    log, applied, table, closed,\* the writer's log and the table (WriteLog)
    writer,     \* where the writer thread is
    pc,         \* where each handler thread is
    req,        \* the request it handles
    row,        \* what GET's SELECT found: a value, or NoValue
    status,     \* the HTTP status of its answer
    body,       \* the value its answer carries, or NoValue
    requests,   \* the number of requests so far
    expect,     \* history: the answer a GET should get, or Unknown
    raced,      \* history: the keys on which operations have raced
    failed,     \* history: the keys for which MySQL reported a failure
    known       \* history: known[k]: values k had in the table or was given

cacheVars == <<store, usedBefore>>
poolVars == <<state, free, owner>>
logVars == <<log, applied, table, closed>>
handlerVars == <<pc, req, row, status, body, requests>>
historyVars == <<expect, raced, failed, known>>
vars == <<cacheVars, poolVars, logVars, writer, handlerVars, historyVars>>

Cache == INSTANCE LRU
Pool == INSTANCE PoolSpec WITH Threads <- Threads \cup {Writer}
Log == INSTANCE WriteLog

Request ==
    [op : {"GET", "DELETE"}, key : Keys \cup {NoKey}, value : {NoValue}]
        \cup [op : {"POST"}, key : Keys \cup {NoKey}, value : Values]

TypeOK ==
    /\ store \in [Keys -> Values \cup {NoValue}]
    /\ usedBefore \subseteq Keys \X Keys
    /\ free \subseteq Conns
    /\ owner \in [Threads \cup {Writer} -> Conns \cup {NoConn}]
    /\ log \in Seq(AsyncTask)
    /\ applied \in 0 .. Len(log)
    /\ table \in Tables
    /\ writer \in {"waiting", "acquire", "query", "release"}
    /\ pc \in [Threads -> {"idle", "begin", "acquire", "query", "release",
                           "fill", "log", "reply"}]
    /\ \A t \in Threads : pc[t] # "idle" => req[t] \in Request
    /\ row \in [Threads -> Values \cup {NoValue}]
    /\ status \in [Threads -> {200, 400, 404, 500}]
    /\ body \in [Threads -> Values \cup {NoValue}]

-----------------------------------------------------------------------------
Key(t) == req[t].key

(* A write of k is between its cache step and its log step. *)
HalfWritten(k) == {t \in Threads : pc[t] = "log" /\ Key(t) = k}

(* The writes of k that are being handled. *)
WritersOf(k) == {t \in Threads : pc[t] # "idle" /\ req[t].op # "GET" /\ Key(t) = k}

(* The accepted writes of k that have not been executed. *)
Pending(k) == {i \in applied + 1 .. Len(log) : log[i].key = k}

(* The value k has when everything accepted so far has been executed. *)
Latest(k) ==
    IF Pending(k) = {} THEN table[k]
    ELSE log[CHOOSE i \in Pending(k) : \A j \in Pending(k) : j <= i].value

(* GETs that have a value of k from the table and not yet put it in the    *)
(* cache.                                                                  *)
Fillers(k) ==
    {t \in Threads : pc[t] \in {"release", "fill"} /\ status[t] = 200 /\ Key(t) = k}

Answer(t, s, v) ==
    /\ pc' = [pc EXCEPT ![t] = "reply"]
    /\ status' = [status EXCEPT ![t] = s]
    /\ body' = [body EXCEPT ![t] = v]

-----------------------------------------------------------------------------
(* Faulty variants of the operations below.  The specification does not    *)
(* use them: each shows which property fails if the code is changed so.    *)

(* Faulty: handlePost that leaves the cache alone. *)
PostNoCache(t) ==
    /\ pc[t] = "begin" /\ req[t].op = "POST"
    /\ pc' = [pc EXCEPT ![t] = "log"]
    /\ UNCHANGED <<cacheVars, poolVars, logVars, writer, req, row, status, body,
                   requests, historyVars>>

(* Faulty: handleDelete that leaves the cache alone. *)
DeleteNoCache(t) ==
    /\ pc[t] = "begin" /\ req[t].op = "DELETE"
    /\ pc' = [pc EXCEPT ![t] = "log"]
    /\ UNCHANGED <<cacheVars, poolVars, logVars, writer, req, row, status, body,
                   requests, historyVars>>

(* Faulty: handleDelete that calls async_insert(key, ""). *)
WriteLoggedAsInsert(t) ==
    /\ pc[t] = "log"
    /\ Log!Accept([type |-> "INSERT_OP", key |-> Key(t), value |-> req[t].value])
    /\ Answer(t, 200, NoValue)
    /\ UNCHANGED <<cacheVars, poolVars, writer, req, row, requests, historyVars>>

(* Faulty: handleGet whose key buffer is shared by the threads. *)
GetFillSharedKey(t) ==
    /\ pc[t] = "fill"
    /\ \E u \in Threads :
          pc[u] # "idle" /\ Key(u) # NoKey /\ Cache!Put(Key(u), row[t])
    /\ Answer(t, 200, row[t])
    /\ UNCHANGED <<poolVars, logVars, writer, req, row, requests, historyVars>>

(* Faulty: handleGet whose error path returns without dbpool->release. *)
GetReleaseLeak(t) ==
    /\ pc[t] = "release"
    /\ \/ /\ status[t] = 500
          /\ Answer(t, 500, NoValue)
          /\ UNCHANGED poolVars
       \/ /\ status[t] # 500
          /\ Pool!Give(t)
          /\ IF status[t] = 404 THEN Answer(t, 404, NoValue)
             ELSE pc' = [pc EXCEPT ![t] = "fill"] /\ UNCHANGED <<status, body>>
    /\ UNCHANGED <<cacheVars, logVars, writer, req, row, requests, historyVars>>

(* Faulty: a writer that does not release its connection. *)
WriterReleaseLeak ==
    /\ writer = "release"
    /\ writer' = "waiting"
    /\ UNCHANGED <<cacheVars, poolVars, logVars, handlerVars, historyVars>>

-----------------------------------------------------------------------------
(* main has built the pool and started the writer before it opens the      *)
(* port; the table has what earlier runs left in it.                       *)
Init ==
    /\ Cache!CacheInit
    /\ state = "up" /\ free = Conns
    /\ owner = [t \in Threads \cup {Writer} |-> NoConn]
    /\ log = <<>> /\ applied = 0 /\ closed = FALSE
    /\ table \in Tables
    /\ writer = "waiting"
    /\ pc = [t \in Threads |-> "idle"]
    /\ req = [t \in Threads |-> NoKey]
    /\ row = [t \in Threads |-> NoValue]
    /\ status = [t \in Threads |-> 200]
    /\ body = [t \in Threads |-> NoValue]
    /\ requests = 0
    /\ expect = [t \in Threads |-> Unknown]
    /\ raced = {} /\ failed = {}
    /\ known = [k \in Keys |-> {table[k]} \ {NoValue}]

(* A request reaches a handler.  Without a key it is answered at once.     *)
Receive(t) ==
    /\ pc[t] = "idle"
    /\ requests < MaxRequests
    /\ requests' = requests + 1
    /\ \E r \in Request :
          /\ req' = [req EXCEPT ![t] = r]
          /\ \/ /\ r.key = NoKey
                /\ Answer(t, 400, NoValue)
                /\ UNCHANGED <<expect, known>>
             \/ /\ r.key # NoKey
                /\ pc' = [pc EXCEPT ![t] = "begin"]
                /\ UNCHANGED <<status, body>>
                /\ expect' =
                     IF r.op = "GET"
                     THEN [expect EXCEPT ![t] =
                             IF WritersOf(r.key) = {} THEN Latest(r.key) ELSE Unknown]
                     ELSE [u \in Threads |->
                             IF pc[u] # "idle" /\ Key(u) = r.key THEN Unknown
                             ELSE expect[u]]
                /\ known' = IF r.op = "POST"
                            THEN [known EXCEPT ![r.key] = @ \cup {r.value}]
                            ELSE known
    /\ row' = [row EXCEPT ![t] = NoValue]
    /\ UNCHANGED <<cacheVars, poolVars, logVars, writer, raced, failed>>

(* handleGet: cache_get, and the answer on a hit. *)
GetCached(t) ==
    /\ pc[t] = "begin" /\ req[t].op = "GET"
    /\ Cache!Get(Key(t))
    /\ \/ /\ store[Key(t)] # NoValue
          /\ Answer(t, 200, store[Key(t)])
       \/ /\ store[Key(t)] = NoValue
          /\ pc' = [pc EXCEPT ![t] = "acquire"]
          /\ UNCHANGED <<status, body>>
    /\ UNCHANGED <<poolVars, logVars, writer, req, row, requests, historyVars>>

GetAcquire(t) ==
    /\ pc[t] = "acquire"
    /\ Pool!Take(t)
    /\ pc' = [pc EXCEPT ![t] = "query"]
    /\ UNCHANGED <<cacheVars, logVars, writer, req, row, status, body, requests,
                   historyVars>>

(* mysql_query and mysql_store_result: the row of the table if there is    *)
(* one; a failure of the first is answered with 500, of the second as if   *)
(* there were no row.  A row read while a write is on its way is stale.    *)
GetQuery(t) ==
    LET k == Key(t)
        stale == Pending(k) # {} \/ HalfWritten(k) # {}
    IN
    /\ pc[t] = "query"
    /\ pc' = [pc EXCEPT ![t] = "release"]
    /\ \/ /\ row' = [row EXCEPT ![t] = table[k]]
          /\ status' = [status EXCEPT ![t] = IF table[k] = NoValue THEN 404 ELSE 200]
          /\ raced' = raced \cup (IF stale THEN {k} ELSE {})
          /\ UNCHANGED failed
       \/ /\ status' \in {[status EXCEPT ![t] = 500], [status EXCEPT ![t] = 404]}
          /\ failed' = failed \cup {k}
          /\ UNCHANGED <<row, raced>>
    /\ UNCHANGED <<cacheVars, poolVars, logVars, writer, req, body, requests,
                   expect, known>>

(* dbpool->release, on every path. *)
GetRelease(t) ==
    /\ pc[t] = "release"
    /\ Pool!Give(t)
    /\ \/ /\ status[t] = 200
          /\ pc' = [pc EXCEPT ![t] = "fill"]
          /\ UNCHANGED <<status, body>>
       \/ /\ status[t] # 200
          /\ Answer(t, status[t], NoValue)
    /\ UNCHANGED <<cacheVars, logVars, writer, req, row, requests, historyVars>>

(* cache_put of what the table said, whatever has happened since. *)
GetFill(t) ==
    /\ pc[t] = "fill"
    /\ Cache!Put(Key(t), row[t])
    /\ Answer(t, 200, row[t])
    /\ UNCHANGED <<poolVars, logVars, writer, req, row, requests, historyVars>>

(* A write changes the cache: it races with another one that is half done, *)
(* and with a GET that is about to fill in an older value.                 *)
RaceOn(k) == IF HalfWritten(k) \cup Fillers(k) # {} THEN {k} ELSE {}

(* handlePost: cache_put. *)
PostCache(t) ==
    /\ pc[t] = "begin" /\ req[t].op = "POST"
    /\ Cache!Put(Key(t), req[t].value)
    /\ pc' = [pc EXCEPT ![t] = "log"]
    /\ raced' = raced \cup RaceOn(Key(t))
    /\ UNCHANGED <<poolVars, logVars, writer, req, row, status, body, requests,
                   expect, failed, known>>

(* handleDelete: cache_delete. *)
DeleteCache(t) ==
    /\ pc[t] = "begin" /\ req[t].op = "DELETE"
    /\ Cache!Delete(Key(t))
    /\ pc' = [pc EXCEPT ![t] = "log"]
    /\ raced' = raced \cup RaceOn(Key(t))
    /\ UNCHANGED <<poolVars, logVars, writer, req, row, status, body, requests,
                   expect, failed, known>>

(* async_insert or async_delete, and the answer. *)
WriteLogged(t) ==
    /\ pc[t] = "log"
    /\ Log!Accept([type |-> IF req[t].op = "POST" THEN "INSERT_OP" ELSE "DELETE_OP",
                   key |-> Key(t), value |-> req[t].value])
    /\ Answer(t, 200, NoValue)
    /\ UNCHANGED <<cacheVars, poolVars, writer, req, row, requests, historyVars>>

Reply(t) ==
    /\ pc[t] = "reply"
    /\ pc' = [pc EXCEPT ![t] = "idle"]
    /\ req' = [req EXCEPT ![t] = NoKey]
    /\ expect' = [expect EXCEPT ![t] = Unknown]
    /\ row' = [row EXCEPT ![t] = NoValue]
    /\ status' = [status EXCEPT ![t] = 200]
    /\ body' = [body EXCEPT ![t] = NoValue]
    /\ UNCHANGED <<cacheVars, poolVars, logVars, writer, requests, raced, failed, known>>

-----------------------------------------------------------------------------
(* The writer: pop, acquire, one statement, release. *)
WriterPop ==
    /\ writer = "waiting"
    /\ applied < Len(log)
    /\ writer' = "acquire"
    /\ UNCHANGED <<cacheVars, poolVars, logVars, handlerVars, historyVars>>

WriterAcquire ==
    /\ writer = "acquire"
    /\ Pool!Take(Writer)
    /\ writer' = "query"
    /\ UNCHANGED <<cacheVars, logVars, handlerVars, historyVars>>

WriterQuery ==
    LET task == log[applied + 1] IN
    /\ writer = "query"
    /\ Log!Apply
    /\ writer' = "release"
    /\ failed' = IF table' = Effect(task, table) THEN failed
                 ELSE failed \cup {task.key}
    /\ UNCHANGED <<cacheVars, poolVars, handlerVars, expect, raced, known>>

WriterRelease ==
    /\ writer = "release"
    /\ Pool!Give(Writer)
    /\ writer' = "waiting"
    /\ UNCHANGED <<cacheVars, logVars, handlerVars, historyVars>>

WriterStep == WriterPop \/ WriterAcquire \/ WriterQuery \/ WriterRelease

HandlerStep(t) ==
    \/ GetCached(t)
    \/ GetAcquire(t)
    \/ GetQuery(t)
    \/ GetRelease(t)
    \/ GetFill(t)
    \/ PostCache(t)
    \/ DeleteCache(t)
    \/ WriteLogged(t)
    \/ Reply(t)

Next ==
    \/ \E t \in Threads : Receive(t) \/ HandlerStep(t)
    \/ WriterStep

(* Every thread that can run is run in the end, and a statement returns.   *)
(* Nothing obliges clients to send requests.                               *)
Fairness ==
    /\ \A t \in Threads : WF_vars(HandlerStep(t))
    /\ WF_vars(WriterStep)

Spec == Init /\ [][Next]_vars /\ Fairness

-----------------------------------------------------------------------------
(* A value in the cache, in the table or in an answer for k is one that    *)
(* was stored under k, however the operations race.                        *)
NoThinAir ==
    /\ \A k \in Keys : {store[k], table[k]} \ {NoValue} \subseteq known[k]
    /\ \A t \in Threads :
          pc[t] = "reply" /\ body[t] # NoValue => body[t] \in known[Key(t)]

(* Cache and database agree on every key whose operations have neither     *)
(* raced nor failed: what is cached is what the table will say once the    *)
(* writer is through, or the write that is just being made.                *)
Coherent ==
    \A k \in Keys \ (raced \cup failed) :
       store[k] \in {NoValue, Latest(k)} \cup {req[t].value : t \in HalfWritten(k)}

(* On such keys a GET that no write overlaps returns what the last write   *)
(* left, and 404 if that was a DELETE or there was none.                   *)
ReadsLatest ==
    \A t \in Threads :
       pc[t] = "reply" /\ expect[t] # Unknown /\ Key(t) \notin raced \cup failed =>
          /\ body[t] = expect[t]
          /\ status[t] = IF expect[t] = NoValue THEN 404 ELSE 200

(* Every request is answered. *)
Answered == \A t \in Threads : pc[t] # "idle" ~> pc[t] = "idle"

(* Every accepted write is executed, although the writer competes with the *)
(* handlers for connections.                                               *)
WritesExecuted == \A i \in 1 .. MaxRequests : Len(log) >= i ~> applied >= i

(* What clients are promised (README.md:5, "store, retrieve"): unless the  *)
(* database fails, a GET that no write overlaps returns the stored value.  *)
ReadYourWrites ==
    \A t \in Threads :
       pc[t] = "reply" /\ req[t].op = "GET" /\ expect[t] \in Values /\ Key(t) \notin failed =>
          body[t] = expect[t]

(* ... and (README.md:10, "remove") nothing for a key that was removed.    *)
RemovedIsGone ==
    \A t \in Threads :
       pc[t] = "reply" /\ req[t].op = "GET" /\ expect[t] = NoValue /\ Key(t) \notin failed =>
          status[t] # 200

=============================================================================
