# A verification project for the HTTP key-value server

TLA+ modules that model the server under `src/Server/src`, TLC configurations that check them
on small instances, and TLAPS proofs for every size. Line numbers refer to the files under `src/`.

## 1. The system

The server keeps key-value pairs in a MySQL table `kvstore`. It answers from a cache where it
can, reads the table where it must, and writes to the table behind the client's back.

```
 HTTP threads ── handleGet ────► ShardedLRUCache (hit) ─► 200
   (CivetWeb)        └──────────► MySQLPool.acquire ─► SELECT ─► release ─► cache_put ─► 200 / 404 / 500
                  handlePost ────► cache_put ────► AsyncWriter.async_insert ─► 200
                  handleDelete ──► cache_delete ─► AsyncWriter.async_delete ─► 200
 worker thread ── AsyncWriter.worker_loop: pop ─► MySQLPool.acquire ─► one statement ─► release
 main ─────────── pool, writer.start, port, handlers, getchar, writer.stop, delete writer, delete pool
```

| Component | State | Operations | Shared with | What makes it correct |
|---|---|---|---|---|
| `MySQLPool` (dbpool.cpp) | `conns_`, a stack of free connections; `mu_`, `cv_` | constructor, `acquire`, `release`, destructor | all HTTP threads, the worker | no connection shared, lost or leaked; no wakeup lost |
| `AsyncWriter` (async.cpp) | `queue_`, `mu_`, `cv_`, atomic `running_`, the thread | `async_insert`, `async_delete`, `worker_loop`, `start`, `stop` | all HTTP threads, main | order, at most once, no task slept over, a clean stop |
| `ShardedLRUCache` (cache.cpp) | per shard a mutex, a list of keys, a map to value and list iterator | `cache_get`, `cache_put`, `cache_delete` | all HTTP threads | list and map agree, iterators valid, LRU eviction, capacity |
| `KVHandler` (server.cpp) | nothing of its own: the objects above | `handleGet`, `handlePost`, `handleDelete` | — | which reads see which writes; every request answered, every write executed |
| `main` (server.cpp) | the lifetimes of all of these | start-up, shutdown | everybody | nobody uses what is not there yet, or any more |
| MySQL (external) | the table, sessions | one statement at a time | pool | — |
| HTTP threads (civetweb.c) | the queue of accepted sockets, idle and started workers, `stop_flag` | accept, produce, consume, `mg_stop` | all connections | a connection has one owner and gets a worker; a stop waits for all threads |
| HTTP start and stop (civetweb.c, CivetServer.cpp) | context, ports, threads, library objects | `mg_start2` and every way it fails, `mg_stop`, `free_context` | main | what was begun is undone, by whoever undoes it |
| Handler table (civetweb.c, CivetServer) | the list of handlers with their counts | `mg_set_request_handler`, lookup, call by method | main, all requests | no handler vanishes while a request uses it; a registered URI is served |
| Connection (civetweb.c) | the buffer, what is consumed of the body | read a request, `mg_read`, keep-alive, discard | a handler | every byte belongs to the request it was sent for |
| Response, output (response.inl, civetweb.c) | state of the header; the account of a second | start, add, send, errors; `mg_write` | a handler | one header, then the body, all of it once, at the limit's rate |
| Files (civetweb.c) | the file system, a request's position in it | lookup, rights, download, upload | other requests | the right file, with the right to it, whole |
| WebDAV (civetweb.c) | the table of locks, the tree of files | LOCK, UNLOCK, MKCOL, COPY, MOVE, DELETE | other requests | one owner per lock; files vanish only by a request of theirs |
| Forms and variables (handle_form.inl, civetweb.c, CivetServer.cpp) | the buffer of a body that comes in blocks; fields | urlencoded and multipart forms, `mg_get_var`, cookies | a handler's callbacks | the same fields wherever the blocks are cut |
| Logins (civetweb.c) | passwords files, nonces | check, challenge, edit | other requests | granted to those listed, and to them |
| CGI (civetweb.c) | three pipes, a child process, its environment | spawn, forward, read, wait | other workers' children | descriptors and children are given back, output is passed on |
| HTTP client (civetweb.c) | a connection of its own | `mg_connect_client`, `mg_download`, `mg_get_response` | — | what fails is reported and released |
| Load generator (loadgen.cpp) | popular keys, counters, a curl handle per worker | POST, GET, DELETE over HTTP | its workers | requests are those of the workload, each counted once |

What is hard here: nearly every operation is a few lines under a mutex, but a request is a
*sequence* of such operations with everybody else running in between; the writer's flag is written
outside its mutex; and a write is acknowledged long before it is durable. The list of hazards, each
at its line and with the properties that watch it, is in `PROJECT.json`.

The program uses a small part of CivetWeb: one port (8080), one handler for three paths, no document
root, no passwords. The rest is compiled into the server all the same, behind options that `main` does not
set; it is modelled because it is most of the code.

## 2. The modules

| Module | Models | Uses |
|---|---|---|
| `PoolSpec` | what `dbpool.h` promises: free and owned connections | |
| `DBPool` | `MySQLPool`, one action per critical section | refines `PoolSpec` |
| `WriteTasks` | `AsyncTask` and what a statement does to the table | |
| `WriteLog` | what the writer promises: accepted writes reach the table in order, at most once, until it is closed | `WriteTasks` |
| `AsyncWriter` | `AsyncWriter` with queue, flag and worker, main's part of its life | `WriteTasks`; refines `WriteLog` |
| `LRU`, `LRUSpec` | an LRU cache without lists: contents and order of use | |
| `LRUCache` | `ShardedLRUCache` with list nodes, iterators and maps | refines `LRUSpec` |
| `KVServer` | the handlers and the writer thread, step by step | composes `LRU`, `PoolSpec`, `WriteLog` |
| `Shutdown` | `main` from the pool to the end of its scope, with handlers and writer at work | composes `PoolSpec` |
| `SocketQueue`, `BoundedQueue` | master and worker threads, the ring of sockets, `mg_stop`; a bounded FIFO | the first refines the second |
| `ServerStart` | `mg_start2`, `mg_stop`, `free_context`, the library's count of users | |
| `HandlerRegistry`, `HandlerTable` | the handler list, its counts and waiting; a table from URI to handler | the first refines the second |
| `Connection`, `Response`, `Output` | reading requests, writing heads, writing bytes | |
| `FileRequest`, `FileTransfer` | which file and by what right; its bytes | |
| `DavLocks`, `DavFiles` | the table of locks; changes to the tree | |
| `UrlForm`, `MultipartForm`, `FormVars` | forms in blocks; variables, cookies and parameters in one piece | |
| `PasswordFile`, `Authorization` | editing passwords files; nonces and `check_authorization` | |
| `Cgi`, `CgiEnv` | a program's processes and pipes; its environment | |
| `Client`, `LoadGen` | the HTTP client of CivetWeb; the load generator | |
| `MCDBPool`, `MCAsyncWriter`, `MCLRUCache`, `MCKVServer`, `MCHandlerRegistry` | constants for TLC | |
| `MCHandling` | what handles a request, as one specification for TLC | `HandlerRegistry` and instances of `FileRequest` (twice), `FileTransfer` (twice), `DavLocks`, `DavFiles`, `Response`, `PasswordFile`, `Authorization`, `FormVars` |
| `MCServing` | what carries requests, as one specification for TLC | `SocketQueue` and instances of it (once more), `ServerStart`, `Shutdown`, `Connection`, `Output`, `UrlForm`, `MultipartForm` (twice), `Client`, `LoadGen`, `Cgi` (three times), `CgiEnv` |
| `DBPoolProofs`, `AsyncWriterProofs`, `LRUCacheProofs`, `KVServerProofs`, `HandlerRegistryProofs` | theorems and proofs (section 4) | each extends its component's module |
| `ConnectionProofs` | the same for `SocketQueue`, `Connection`, `Client`, `LoadGen` | extends the first, instances of the others |
| `HTTPProofs` | the same for `ServerStart`, `Shutdown`, `DavLocks`, `DavFiles`, `Output`, `Cgi`, `CgiEnv` | extends the first, instances of the others |
| `FileProofs` | the same for `FileRequest`, `FileTransfer` | instances of both |

`KVServer` does not contain the three components again. It is built from the actions of the abstract
specifications, and `DBPool`, `AsyncWriter` and `LRUCache` are shown to implement those: all
three by proof and by TLC. The handlers can rely on exactly what is
shown: that `acquire` gives some free connection but not which, that `async_insert` appends to a log
that one thread works off.

### How state and actions correspond to the code

*DBPool.* `conns` is `conns_` with the top last. Everything under `mu_` is one action: `Acquire` is
lines 77-86 when the predicate holds, `Block` the same lines when it does not (`wait` leaves the
mutex and enters the wait set in one step), `Release` lines 88-92 including the notification.
A woken thread is back before the mutex (`pc = "woken"`) and competes with threads that arrive
for the first time. `CreateConn` is a round of `create_pool`'s loop, `CreateFail` any of its three
error returns with the constructor's `throw`. `ClosePool` closes what it finds in `conns_`, not what
threads hold. `live` are the sessions as the MySQL server sees them.

*AsyncWriter.* A producer's push (under `mu_`) and its `notify_one` (after it) are two actions. The
worker's evaluation of the predicate (`FindEmpty`) and its going to sleep (`Sleep`) are two as well:
in between it holds `mu_`, which excludes `Push` but not `StopStore` and `StopNotify`, as `stop` does
not take `mu_`. `Execute` is a whole statement, with or without effect. `accepted` and `executed`
are history.

*LRUCache.* A list is a sequence of nodes with an identity. `push_front` takes any node the list does
not contain, among them one that has just been freed, so that a stale iterator can come to point to
another key. Each operation holds its shard's mutex throughout and is one action per branch.

*KVServer.* `pc` is where a handler thread is: `begin` at its cache step, `acquire`, `query`,
`release`, `fill` inside `handleGet`, `log` before `async_insert`/`async_delete`, `reply` when the answer is
written. `Receive` is parsing and the 400 answer. The history variables are `expect` (the
answer a GET that no write overlaps should get), `raced` (keys whose operations have met in one of the
ways named in the module), `failed` (keys a statement failed for) and `known` (values a key
had or was given).

*SocketQueue.* `squeue`, `sq_head` and `sq_tail` are the ring. `Push` is the critical section of `produce_socket` that
stores a socket, `Pop` the one of `consume_socket` that takes it, `ProduceWait` and `ConsumeWait` the waits in between. The master's
`ProduceGiveUp`, `Spawn` and `SpawnFail`, and the workers' `Start`, `StartFail`, `Served` and `ConsumeReturn` are steps of their
own: `stop_flag` and the count of idle workers may change between any two. Wakeups may be spurious.

*HandlerRegistry.* `handlers` is the list of nodes, each with `refcount`, which wraps at `RefMod`. A registrar holds the
lock for one step: `Look` finds the entry and changes it, removes it, adds one, or waits and looks again while a
request uses it. A request takes its entry (`Lookup`), is called back, and gives it back; `Refused` is the way
through an authorization handler that says no.

*Connection.* `wire` is what the client has sent and nobody has read, as symbols for the pieces of a head, a
chunk, a body; `buf` is the buffer, `conn` what the code knows of the request (`request_len`, `content_len`, `consumed`,
`is_chunked`). `Receive`, `GiveUp` and `GetRequest` are the rounds of `read_message`; `Round` is one of `pull_all`, `ReadData`,
`ReadCrlf`, `ReadSize` and `ReadTrailer` the branches of `mg_read_inner`'s loop; `NextRequest` is the end of `process_new_connection`'s
loop, which discards what is left of the request.

*Files.* `FileRequest` goes through the numbered steps of `interpret_uri` and `handle_request` over a set of
absolute paths, those of the roots among them, with the way out for names that are too long (`Cleanup`) and a scan for scripts that
ends at the left end of the name (`NothingAbove`), as in the code, and not at the root; `FileTransfer` takes the stat, the open and each read or write of two workers on one file as steps of their own.
`DavFiles` has one step per system call on a small tree; in `DavLocks` the search of the table, under one lock, is a
step, and the answer, which reads the table after it, another.

*Forms.* A body is a sequence of symbols; a block is as many of them as arrive. The places where
`mg_handle_form_request` reads, asks `field_found`, passes content on and ends a field are actions, so that a block may end between any two symbols.

*ServerStart, Cgi, Client.* Each resource has a variable that says whether it is held (`bound`, `list`, `held`; the
descriptors and `FILE`s of `job`; `mem`, `client_sock`, `mutex`), each step may fail for the
reasons in `Faults`, and the code's error paths give back what they give back.

*Shutdown.* `main` is where `main` is between the constructor of the pool and the end of its scope, and says which objects are alive; a handler's or the
writer's call into one that is not sets `undefined`.

Operators marked "Faulty" are an operation as a plausible bug would have it. No specification uses them; they
document, for each property of a run, a change of the code that breaks it.

## 3. What is checked

| Run | Bounds | States | What it shows |
|---|---|---|---|
| `dbpool` | 5 threads, 3 connections | 3 264 | `Exclusive`, `Conservation`, `NoLostWakeup`, `FreeConnTaken`, refinement of `PoolSpec` |
| `async_writer` | 2 producers, 3 calls, 2 keys, 1 value | 46 820 | `TaskWakesWorker`, `InOrder`, `StopQuiesces`, `TaskExecuted`, `StopReturns`, refinement of `WriteLog` |
| `writer_stop` | 2 producers, 2 calls | | **violated**: `StopTerminates` |
| `writer_persist` | 2 producers, 2 calls | | **violated**: `AcceptedPersisted` |
| `lru_cache` | 4 keys, 2 shards of capacity 2, 3 nodes, 2 values | 2 767 | `IteratorsValid`, `WithinCapacity`, refinement of `LRUSpec` |
| `kv_safety` | 3 threads, 2 connections, 2 keys, 2 values, capacity 1, 3 requests | 919 348 (symmetry) | `NoThinAir`, `Coherent`, `ReadsLatest` |
| `kv_liveness` | 2 threads, 1 connection, 1 key, 1 value, 3 requests | 41 883 | `Answered`, `WritesExecuted` |
| `kv_read_your_writes` | 2 threads, 2 keys, capacity 1, 3 requests | | **violated**: `ReadYourWrites` |
| `kv_removed_is_gone` | 2 threads, 2 keys, capacity 1, 3 requests | | **violated**: `RemovedIsGone` |
| `registry_put` | 1 registrar, 1 request, 2 URIs | | **violated**: `PutSupported` |
| `handling` | by part, below | 1 023 046 (symmetry) | `HandlersKept`, `FilesServed`, `ParametersDecoded`, `RightUser`, `DavSafe`, `ResponseFramed`, refinement of `HandlerTable` |
| `serving` | by part, below | 449 155 | `ConnectionsOwned`, `StartUndone`, `FormsWhole`, `ClientsTold`, `CgiWhole`, `BytesExact`, `AllEnd`, refinement of `BoundedQueue` |

Every specification includes its type invariant (`TypeOK`, in the two suites `TypesOK`).

**The two suites.** The components of the HTTP server each have a module of their own and, in what is modelled,
share no variable. `MCHandling` and `MCServing` put an instance of each beside the others: the variable `part` says whose
behaviour this one is, the variables of the other parts are `None` and stay so, and the reachable states are the
disjoint union of those of the parts. So one run explores every part completely; a part alone is explored by giving the
constant `Parts` one name. A property of a suite is a conjunction of what the parts' modules state, each
for its part. The model values for threads, clients and nodes are the same in all parts of `MCHandling`, so that one symmetry
serves them all: a part either uses both values of a pair in the same way, or knows only the first, and then no two of its
states are images of each other. `MCServing` has liveness, and no symmetry.

| Part of `handling` | Bounds | States |
|---|---|---|
| `registry`, `crowd` | 2 registrars and 2 requests, one request at a time, or one call of a registrar at a time; 2 nodes, a pattern and a URI, counts modulo 4 | 30 972, 97 568 |
| `files`, `rights` | trees of up to 3 of 8 files in 1 or 2 roots of 2 and 1 names, index files above the roots, every URI and method that differ, room for 3 or 6 names; every setting of rights | 308 946, 109 560 |
| `alone`, `transfer` | a file of 1 to 4 blocks and its zipped form, every range around them; 2 uploads at a time, each failure | 23 444, 43 588 |
| `locks` | 2 clients, 2 paths, 2 slots, 1 tick | 36 959 |
| `dav` | 2 requests at a time on 2 trees with files that cannot be changed, deleted or named | 52 338 |
| `response` | 3 calls by the handler in any order, 6 headers | 19 828 |
| `passwords` | 2 editors, 1 request, 2 users, 2 passwords, each failure | 148 814 |
| `auth` | 2 requests, 1 user, 2 passwords, files that include each other, a restart | 87 701 |
| `vars` | texts of up to 3 symbols per value with whole, cut and invalid escapes, blanks and escaped `\0`s, buffers of 2 or 3 | 63 328 |

| Part of `serving` | Bounds | States |
|---|---|---|
| `sockets`, `steady sockets` | 3 connections, a queue of 2, 2 workers; with failing threads and without | 34 266, 26 154 |
| `start` | 8 lists of ports, 0 to 3 workers, 15 faults, 2 starts | 14 915 |
| `shutdown` | 2 requests, the writer, 2 connections | 1 200 |
| `connection` | streams of 2 or 3 requests of 17 kinds, a buffer of 4 symbols, reads of 1 and 3 | 70 588 |
| `output` | 2 requests of 2 writes of 1 or 7 bytes, limits 0, 2 and 3, pushes that fail or time out | 63 323 |
| `url form` | 6 forms, a buffer of 5 | 4 337 |
| `multipart`, `cut multipart` | 18 forms whose contents begin like delimiters, a buffer of 12 or 11 | 5 429, 5 574 |
| `client` | servers with one or two answers of every framing, 8 faults | 46 996 |
| `load` | 2 workers, 5 workloads, 2 popular keys, 2 rounds | 18 952 |
| `cgi`, `failing cgi`, `two cgi` | pipes of 2 blocks, a body of 3, 10 faults; 2 workers at once | 6 624, 52 164, 88 360 |
| `environment` | a buffer that grows by 16, variables up to 20, an allocation that fails | 10 273 |

**Why the bounds suffice.** Pool: three connections and five threads give two sleepers beside up
to three free connections, woken threads that are overtaken, and releases that meet zero, one or two
sleepers; the theorems cover the rest. Writer: two producers can both be between push and notify;
three calls put a task in hand, one in the queue and one on its way. Cache: three keys in a shard of
two force eviction and hits at both ends of the list; one node more than a full list has lets a freed
node be taken again at once, or not. Server: a race needs two requests on one key and, for eviction,
one on a second key: three requests on three threads; capacity 1 with two keys makes every second key an
eviction; two connections for three handlers and the writer make everybody wait. The bounds `MaxTasks`
(calls) and `MaxRequests` (requests) are the only counters.

The suites: two of whatever interacts (registrars and requests on an entry, uploads on a file, editors of a
passwords file, workers on a queue), one more than what holds them where something has to wait or be evicted (three sockets for a queue
of two, two locks for a table of two and a third request), and data just below, at and above the size of each buffer,
with a cut between any two symbols. A delimiter has three symbols, so a content can begin like it in every way and be cut in every place;
a chunk has at most two bytes, so that a read can end inside it, at its end and past it.

**Deadlock** is checked for the cache, whose calls never end. The pool may be
closed or may have failed to open, the writer may be deleted, and the clients of `KVServer` stop
after `MaxRequests` requests; in the suites a request is answered, a client hangs up, a start fails: these runs say `CHECK_DEADLOCK FALSE`. What would be a
deadlock there shows as a violation of `FreeConnTaken`, `TaskExecuted`, `StopReturns`, `Answered`, `WritesExecuted` or `AllEnd`.

**Fairness.** The operating system runs every thread that can run, and a statement returns. *DBPool*:
a woken thread gets the mutex in the end; a holder releases, as every path of the code that acquires
also releases (server.cpp:68 and 88, async.cpp:92). *AsyncWriter*: the worker, a producer between push
and notify, main inside `stop`. *KVServer*: weak fairness of every handler's step and of the
writer's. Only weak fairness is assumed. `GetAcquire` is the one step with
competition, and `acquire` makes no promise to an individual waiter; `Answered` holds all the
same because only `MaxRequests` requests compete. Nobody is obliged to call, to send requests, to
stop; spurious wakeups may happen but cannot be relied upon. *MCServing*: weak fairness of the threads of whatever part runs (master and
worker threads, the worker of a connection, the caller of a write or a client, a CGI program), one conjunct for each
thread that runs beside others, and of time in `Output` and `Client`. Strong fairness is assumed once: a handler returns (`Connect!HandlerReturns`), although it may
also go on reading for as long as it likes. `MCHandling` has only safety properties and no fairness.

### What the violated properties say

* `StopTerminates` — async.h:33 says "stop worker thread safely". `stop` stores `running_` and notifies
  without `mu_`; if both happen after the worker found its predicate false and before it sleeps, the
  notification reaches nobody and `join` never returns. `StopReturns` shows that this window is the
  only way: from anywhere else `stop` returns.
* `AcceptedPersisted` — README.md:19 says the writer is there "for DB persistence". When `running_` is clear the
  worker leaves before it looks at the queue; accepted and acknowledged writes are dropped.
* `ReadYourWrites` — README.md:5 says clients "store, retrieve". POST k1 is answered; POST k2 evicts k1; GET k1 misses
  and reads a table the writer has not reached: 404.
* `RemovedIsGone` — README.md:10 says "remove". DELETE k is answered; GET k misses, finds the row that is still there,
  answers 200 *and caches it*; then the row is deleted and the cache keeps the value.
* `PutSupported` — README.md:25 says "Supports GET / PUT / DELETE over HTTP". `KVHandler` has no `handlePut`;
  `CivetServer::requestHandler` returns 0 for it, `handle_request` goes on to files, and the answer is 405.

`Coherent` and `ReadsLatest` are the positive side of the last two: on a key without such a race and
without a failed statement, cache and table agree (up to writes on their way), and a GET that no write overlaps returns what the last write left.
`NoThinAir` holds without any exception.

### Where the modules deviate from what a comment promises, without a run of its own

The modules of the HTTP server follow the code also where it does not do what a comment or `civetweb.h`
says. Where that would break a property, the property says so in its premise, or the suite leaves out the input or fault
that leads there. Line numbers are those of civetweb.c unless another file is named.

*Threads.* `mg_stop` may never return: the master sleeps in front of a full queue, `mg_stop` signals nobody, and a worker
that took its connection before the flag was set leaves at 20217 without entering `consume_socket` again (20240; `AllEnd`
accepts a stop that is stuck in this way, and no other). Connections in the queue and in the hands of such workers are not
closed (20217, although civetweb.h:453 says "release all associated resources"). A worker that fails at once leaves the idle
count too high (20311), so that `mg_start_worker_thread` may see an idle worker where there is none (21168).

*Start.* With every port optional and none bound, `mg_stop` polls for ever for a master that has
left (20639). If the master thread cannot be created, a context without one is returned, and `mg_stop` returns at
once for it (21938). A failed start does not close its listening sockets (21925). After a failed `realloc` the old
block is read and freed twice (16471). `mg_init_library` leaves its thread keys behind when there is no memory for its last step.

*Shutdown.* `main` deletes the writer and the pool while HTTP threads still serve; a request in between uses what is gone
(server.cpp:223). `OnlyLate` says that this is the only time.

*Handlers.* An authorization handler that refuses after a callback returned 0 releases the entry a second time
(15455). The assertion at 15370, "will not be called for request handlers", does not hold for a PUT that a callback declined.

*Files.* The scan for a script (8161) goes on above the root: a script in a directory above it, or with `allow_index_script_sub_res`
an index script there, answers requests for files that are missing, and gets names of the root in its path. `PathInfoComplete`
therefore speaks of the full file name, of which the URI is the end. A PUT of a missing file below a directory with a plain index file is
under that setting a PUT of the directory's name (8225). A name that is too long under the document root is not looked for under the
fallback root, and a PUT of it goes on as a request that writes nothing (8013, 8247). `f.gz` in the document root is not found if there is a fallback root (8114). A range whose end is outside the
file promises one byte too many, and one that begins past it a negative length (10678); a PUT at the same time shortens
the file under a download (10592). A range of a zipped file is cut out of the zipped bytes, as the check comes after
`is_gzipped` was cleared (10667). A timeout while a PUT is read is taken for its end: the file is cut and the answer is 200
(11560). A PUT that is partial or creates the file is answered 200 all the same (11547).

*WebDAV.* LOCK on a full table evicts the oldest lock, enters none and answers 200 (13222); UNLOCK answers 204 and
clears nothing (13293); a refresh takes another slot (13198). A directory that DELETE removed is answered 500 (10214), one it
could not remove 204 (10221). `rename` replaces a destination that came after it was looked for (12469). COPY with
"Overwrite: T" removes the destination before it is refused (12407).

*Connections, responses, output.* `mg_read` returns 0 also for a timeout (6698, against civetweb.h:1043). A head that is too long is
answered 400; the branch for 413 is dead (19119). `mg_response_header_send` reports a failure of the status line only
(response.inl:315). An error with an error page is answered 200 (4653). `mg_send_http_redirect` returns 1 whatever
happened (4841). In the second it begins in, `mg_write` may send twice the limit or more (7055; `RateBounded` allows three
times); a lower limit on the same connection makes it return 0 (7039). What a push has sent before it failed or timed out is not counted (7068), although
after a timeout the connection goes on: `RateBounded` holds as the request timeout, 30 s here, is not below a second, so that the bytes belong to
an earlier one.

*Forms.* A value cut by a timeout is stored as if it were whole (handle_form.inl:580, against civetweb.h:1246). A form that ends
in a percent sign calls `field_get` with nothing for ever (handle_form.inl:115). Leaving with -1 keeps the open file and its part of the
content (handle_form.inl:978). "Abort" from `field_get` is asked once more (handle_form.inl:1001).

*Variables.* Nobody looks at what `mg_get_var` returns: of a key or value that does not fit, or has a blank or control character, the part
before is stored and answered "ok" (server.cpp:124). `StoredDecoded` says exactly what is taken of each text, so that two long keys with the
same beginning are one. After an invalid character the buffer is not terminated (7304), and the result is "too
small" (7384), so that `getParam` doubles its buffer until memory is out. A cookie that does not fit gives -3, not -2 (7534).
`CivetServer::urlDecode` throws for every text with a blank or control character (CivetServer.cpp:608).

*Logins.* Of two edits of a passwords file at once one is lost, between `fopen` and `fclose` nobody can log in, and an edit that fails there
leaves the beginning of the file (9498); `NoOtherLogin` says that such a file gives nobody a hash that is not theirs.
Lines that are not entries are dropped by an edit (9460, against 9082).

*Client.* A negative timeout means 30 seconds, not for ever (19369). With an error buffer of length 0 a failed response is returned as
if it were good, or the reverse (19429). A response that came together with the one before is dropped (19360).

*CGI.* A child that another worker forks between `pipe` and `FD_CLOEXEC` keeps a program's input open (5916; `AllEnd` asks
nothing of `two cgi`). `kill` is called for a program that has already been waited for (11908). Output is not read
while the body is forwarded: when both pipes are full, worker and program wait for each other for ever (12085; `cgi` has
programs that write little).

*Load generator.* Popular keys are drawn from a range that is larger than the vector if a POST failed (loadgen.cpp:136), which is undefined;
`LoadGen` goes on with any key, and no property is about it. A
DELETE after a POST on the same handle has a body (loadgen.cpp:81).

## 4. What is proved

For arbitrary constants that satisfy the modules' assumptions (finite sets of threads and connections,
at least one connection, `NoConn` none of them; `NoValue` not a value, `NoTask` not a task, `NoEntry` not an entry; positive cache
capacity, at least as many list nodes as that; the writer none of the handlers' threads; at least one worker and one slot for a socket):

| Theorem | Statement |
|---|---|
| `DBPoolProofs!TypeCorrect`, `PoolSafety`, `PoolConserves`, `WakeupsKept` | `Spec => []` of `TypeOK`, `Exclusive`, `Conservation`, `NoLostWakeup` |
| `DBPoolProofs!PoolImplemented` | `Spec => PoolRefinement` |
| `AsyncWriterProofs!WriterTypeCorrect`, `TasksInOrder`, `NoTaskSleptOver`, `StopIsFinal` | `Spec => []` of `TypeOK`, `InOrder`, `TaskWakesWorker`, `StopQuiesces` |
| `AsyncWriterProofs!WriterImplementsLog` | `Spec => LogRefinement` |
| `LRUCacheProofs!CacheTypeCorrect`, `IteratorsStayValid`, `CapacityKept` | `Spec => []` of `TypeOK`, `IteratorsValid`, `WithinCapacity` |
| `LRUCacheProofs!CacheImplementsLRU` | `Spec => LRURefinement` |
| `KVServerProofs!ServerTypes`, `ServerNoThinAir`, `ServerCoherent`, `ServerReadsLatest` | `Spec => []` of `TypeOK`, `NoThinAir`, `Coherent`, `ReadsLatest` |
| `ConnectionProofs!ServingTypes`, `ServingOwned` | `Spec => []` of `TypeOK`, `ConnectionsOwned` |
| `ConnectionProofs!ServingQueue` | `Spec => QueueRefinement` |
| `HandlerRegistryProofs!RegistryTypes`, `RegistrySafe` | `Spec => []` of `TypeOK`, `HandlersKept`, if `SameAnswer` |
| `HandlerRegistryProofs!RegistryIsTable` | `Spec => TableRefinement`, if `SameAnswer` |
| `HTTPProofs!WriterGoneFirst`, `UsedWhileThere` | `Spec => []` of `WriterQuiet`, `OnlyLate` |
| `HTTPProofs!StartTypes`, `ContextThere`, `WorkerThere` | `Spec => []` of `TypeOK`, `ContextOutlivesThreads`, `HasWorker` |
| `HTTPProofs!CallbacksMatch`, `StopClean`, `PortsTogether` | `Spec => []` of `CallbacksPaired`, `StoppedClean`, `AllPortsOrNone`, if the master thread can be created |
| `HTTPProofs!LibraryHeld` | `Spec => []LibraryCounted`, if there is memory for the list of methods |
| `ConnectionProofs!ConnTypes`, `ConnBuffer`, `ConnInStep` | `Connection`: `Spec => []` of `TypeOK`, `BufferSound`, `InStep` |
| `ConnectionProofs!ConnClosedAsSaid` | `Connection`: `Spec => [][ClosedAsSaid]_vars` |
| `ConnectionProofs!ClientTypes`, `ClientReleased`, `ClientBodyWhole` | `Client`: `Spec => []` of `TypeOK`, `Released`, `BodyWhole` |
| `ConnectionProofs!ClientErrorsTold` | `Client`: `Spec => []ErrorsTold`, if there is room for a message |
| `ConnectionProofs!LoadTypes`, `LoadCounted`, `LoadPopular`, `LoadSent` | `LoadGen`: `Spec => []` of `TypeOK`, `AllCounted`, `PopularStored`, `SentAsMeant` |
| `HTTPProofs!LockTypes`, `LockHasOneOwner` | `DavLocks`: `Spec => []` of its types, `OneOwner` |
| `HTTPProofs!LocksFair` | `DavLocks`: `Spec => [][KeptUntilExpired]_vars` and `[][RefusedForCause]_vars` |
| `HTTPProofs!OutputTypes`, `OutputRate`, `OutputSent` | `Output`: `Spec => []` of its types, `RateBounded`, `WrittenIsSent` |
| `HTTPProofs!CgiTypes`, `CgiEndsReleased`, `CgiNoZombies`, `CgiAnsweredOnce`, `CgiOutputWhole` | `Cgi`: `Spec => []` of `TypeOK`, `EndsReleased`, `NoZombies`, `AnsweredOnce`, `OutputWhole` |
| `HTTPProofs!EnvironWhole` | `CgiEnv`: `Spec => []` of `EndsMarked`, `NothingLost` |
| `HTTPProofs!ListingFits` | `DavFiles`: `Spec => []NoOverrun` |
| `HTTPProofs!TreeKept` | `DavFiles`: `Spec => [][LostForCause /\ MovedIsThere]_vars` |
| `FileProofs!FindTypes`, `FindSource`, `FindHidden`, `FindRights`, `FindPathInfo`, `FindDelivers`, `FindFirst`, `FindCut` | `FileRequest`: `Spec => []` of `TypeOK`, `SourceNotSent`, `HiddenNotServed`, `WriteAuthorized`, `PathInfoComplete`, `DeliversWhatExists`, `FirstRootWins`, `CutNotUsed` |
| `FileProofs!TransferTypes`, `TransferCloses`, `TransferCleansUp` | `FileTransfer`: `Spec => []` of `TypeOK`, `FilesClosed`, `StoreCleansUp` |
| `FileProofs!TransferStores` | `FileTransfer`: `Spec => []StoredWhole`, if no body comes too late |
| `FileProofs!ReadWhole`, `ReadInPlace`, `ReadRange` | `FileTransfer`: `Spec => []` of `WholeFileSent`, `BytesInPlace`, `ValidRangeSent`, if nobody writes |

The theorems from `ConnTypes` on, and those about `Shutdown`, are about instances, so that the constants' assumptions are hypotheses, named at the head of each part: what the
module's own ASSUME says (`BufferAssumption`, `ClientAssumption`, ...), what the constants are (requests, responses,
programs, disks and tasks are records of the fields the actions read), and what the theorem needs beside that:

* `ConnHypothesis`: clients frame the bodies of their requests as they say (`WellFramed`), and may break off, be late or send heads that are
  malformed. Without it the client itself decides where its next request starts, and `InStep` has no meaning.
* `ClientHypothesis`: responses are framed as they say (`WellScripted`), possibly cut anywhere. For `ErrorsTold`, `0` is not a length of the
  error buffer (section 3, *Client*).
* `LoadHypothesis`: there are finitely many workers. `OutputHypothesis`: there is a largest limit. `LocksHypothesis`: the bound on the clock is a
  number. `EnvHypothesis`: the variables of a request are a sequence of strings, and long ones have a length that is a number.
* `DavHypothesis`: a tree is closed upwards (what is in it has its directory in it), tasks name paths, and the array of a
  listing starts with room for one entry at least.
* `FindHypothesis`: no directory has the name of a script, as in the modelled file systems, and a root has at least one name.
* `TransferHypothesis`: the names of files and of workers differ, which the numbering of inodes rests on. For `StoredWhole`, `"timeout"` is not
  among `Faults`: a body that stops coming is stored as far as it came and answered like a whole one (section 3, *Files*).
* `ReadHypothesis`: no task writes. A file that is overwritten while it is sent is sent as it is at each moment, which the code does not prevent.

*The pool.* `Exclusive` and `Conservation` (which also accounts for the server's sessions) are not inductive alone. `PoolInv` adds that
exactly the threads behind `acquire` hold a connection (`HolderHolds`; else a second `acquire` could overwrite one) and
what the constructor has built so far (`Construction`; else `Open` could show a pool that lacks some). Lemmas `Push`
and `Pop` say what a push and a pop do to the set of elements and to the absence of repetitions.
`WakeupStep` counts: an `Acquire` by a woken thread takes one from both sides of
`Len(conns) <= Cardinality(woken)`, one by a thread that never slept only from the left, a `Release` adds one to both or
finds nobody asleep.

*The writer.* `InOrder` is stated with concatenation; `WriterInv` restates it by position (`Aligned`), which each step
disturbs at one place only, and adds where the worker can be (`WorkerInv`). In particular the queue stays
empty while the worker is at `checked` (it holds `mu_`), which is why a task is never slept over although
`notify_one` is called without the mutex.

*The cache.* `IteratorsValid` and `WithinCapacity` count nodes and entries, which no operation changes in a way the
prover could follow. `CacheInv` says instead which node belongs to which entry (`Linked`) and that a key is only ever in its
own shard (`AtHome`); the counts follow by a bijection between positions and keys (`Counted`). Every operation is an
`AddFront` to what an erase, a `pop_back` or nothing leaves of the list, or an erase alone; `LinkedBut` describes the list in
between, when list and map disagree about one key. For the refinement, the order of use is the order of the lists
(`SameOrder`): `FrontStep` shows that `AddFront` on such a list is the abstract `UseLast`, and
`PutEvictRefines` that the key at the back is the one no other key of the shard was used before.

*The handlers.* None of `NoThinAir`, `Coherent` and `ReadsLatest` is inductive. `ServerInv` adds to the types what each path of a
handler may have (`RequestsFit`: a handler in the log has a write, one with a connection a GET), and that the log has something
for a writer that is about to execute (`LogFits`). `OwnValues` follows a value on every way it can take: cache, table, log, the row in
a handler's hands, the answer. `Apart` is the heart: as long as a key has not raced, at most one of its
writes is half done, and while a GET has its row in hand no write is half done or pending and the row is the table's. Only so does a
`GetFill` put into the cache what the table will still say (`Agree`), and only so does a GET with an expected answer
(`Expected`) find it in the cache as well as in the table.

*The ring of sockets.* `sq_head` and `sq_tail` count on and are taken back by one round together; which slots are full follows from
`sq_tail` and their distance. `QueueInv` counts nothing but places: a connection is in the master's hand, in one slot or at one
worker (`PlacedInv`), which gives `OneOwner`; `ThreadsInv` says where master, workers and `mg_stop` can be, so that the count of
idle workers (`IdleCounted`) changes with them. For the refinement a push appends to, and a pop takes the first of, the
sequence read from the slots; `Wrap` and `Slot` are the arithmetic of indices modulo a size that is not a number yet.

*The handler list.* `RegistryInv` adds to `Counted` and `NoDuplicates` what each request knows at each place (`Knows`: it has its
entry until it has given its callback back), that the entry it uses is in the list, of kind "request", with its callback
(`Keeps`), and why a URI registered all the time is found (`Finds`). An entry with users is not changed as its
count is the cardinality of a set that is not empty; the count does not wrap as there are fewer requests
than `RefMod` (`RefAssumption`: threads against 2^32). Two hypotheses are worth their names. *RefAssumption* is the
code's: the number of workers is an `int`. *SameAnswer* says that authorization granted once is granted again to the same request:
this program registers no authorization handler and has no passwords file, so that `check_authorization` always grants.
Without it the theorems are false (section 3, *Handlers*): refused after `FallThrough`, a request gives its entry back twice.
For the refinement `MatchedIsBest` shows that the first hit of the three passes is an entry of least rank, and each step
sets an entry that is not in use, takes one, gives one back, or leaves the table as it was.

*Start and stop.* `StartInv` tells from the place of the starting thread which threads there can be and that the context is
held; it needs no hypothesis on faults. `MasterInv` counts the calls of the callbacks by the same places, and says of the ports that what
is bound has a socket or has been left behind by a start that failed, and not both as long as the server can use it
(`Listening`): closing all sockets then leaves bound exactly what others left. It needs that the master thread can be created: if not, `mg_stop`
gives nothing back (section 3, *Start*). The 22 steps of `mg_start2` come down to twelve shapes (`StartingIs`).
`ShutdownInv` ties the writer's connection and its end to the places of `main`, and the busy HTTP threads to the time between the opening of
the port and the end of the server.

*A connection.* `InStep` says where `get_message` looks for the next request, which is a matter of what is in the buffer. `ConnInv` says it
of the bytes at every moment: buffer and wire together are what is left of the current body, followed by all the client sends from the next request on
(`RestsSo`: `T[r]`, the rest from request `r`), whatever a handler has read of the body and whatever the
chunks looked like; when a body breaks, the connection is marked to be closed before another request is read. `FlattenSeq` is defined by a fold over the list of
requests; that list has finitely many suffixes, and `LeastNat` (natural numbers, if any, have a least one) replaces induction
over it: of the positions at which the claim failed there would be a first.

*The client.* `ClientHolds` lists for each place of a call what it has (memory, socket, mutex), which gives `Released`. For
`BodyWhole` buffer, network and what the server has still to send have together the shape of whole responses (`WellScripted`), and what
is ahead of `mg_read` in the current one is announced minus what has been read.

*The load generator.* Both totals and the workers that are between the start and the count of a round (`InRound`) make up the rounds begun, and
there is no worker left when `main` prints. No handle keeps a custom method from one round to the next (`HandlesClean`), so that a GET
or POST after a DELETE is what it should be.

*Locks.* `OneOwner` is inductive with the types: a step that writes a slot has looked at all of them first. `LocksFair` needs
that the slot `Oldest` chooses exists (`LeastNat`).

*Output.* `OutPlaces` says what a write has sent and may send next. `Account` bounds what has left in the current second: nothing when a
write has slept or waited for a socket that takes nothing (`due`), a limit at most in a second that a write has begun afresh, a limit and `last_bytes` otherwise.
Three times the limit is what these can sum up to.

*CGI.* For each place of `handle_cgi_request`, `Opened` lists the descriptors it has opened and not closed, `Spawned` what
there is of the program, `AnswersOf` the answers. That another worker's child has inherited a pipe only changes who sees an end of file, so that each of these facts is about one
worker. `OutputWhole` follows from two sums (`Counted`): got and in the pipe is what the program wrote; taken and in the pipe is what has been forwarded.

*The environment of CGI.* `EnvBytes` and `EnvPointers` keep room for the end mark in the bytes and in the pointers, and `EnvTurns(d)` says that `d`
variables have had their turn: what is in the block and what `addenv` has counted as lost are these, and no others.

*The tree of files.* `DavInv` says that the tree is closed upwards at every moment, whatever several workers do to it, that what a DELETE has on
its stack lies below its path (`DavPlace`), and that a listing has found no more entries than its array has room for (`DavRoom`). So what a
step takes away is below its own task's path and nowhere else (`NothingBelow`, `WithoutIs`); a `rename` takes a
subtree along and leaves the rest where it was (`RenamedIs`, `RenamedTyped`).

*Which file.* Until the search has ended nothing is found; `Unfound` also says that the roots tried so far do not have the file (`Missed`) and that
between the end of the name and the place of the scan there is no script and no index. `Kept` says of what is found that it is there, and a script or
template exactly if it is treated as one; `PathWhole` that a script stands at one place in the full name, or is the index of the directory there, that the path info is all
behind this place, and that nothing nearer was passed over; `FitsFound` that no name has been cut of what is read or written; and `Decided`
what the answer says of all that. The seven properties rest on this one invariant.

*The bytes of a file.* For a writer: writing the buffer now would give exactly the body so far in its place,
`Written(data, offset, pending) = Written(<<>>, Place, body)`, kept by `WrittenTwice` (two writes side by side are one) as long as nobody else opens the file. For a reader: what is sent is the piece of the
file from `from` on; what is sent and what is left make up the length announced; and it stops early only where the file ends or the client is
gone (`SentSoFar`). An inode belongs to one name or one worker (`Inodes`), so that an unlinked file that is still read does not change.

The larger of these invariants have been checked by TLC on an instance first (`KVServer`: 919 348 states, `SocketQueue` with 4 connections: 236 144, `HandlerRegistry`: 183 548, `ServerStart` with every fault: 25 658,
`Connection`: 88 480, `Client`: 141 362, `FileRequest`: 308 946, `FileTransfer`: 549 992 with writers and 3 900 for readers alone).
The refinement proofs show for each action that it is a step of the abstract specification or a
stutter, from the invariant.

**Only model-checked**:

* All liveness (`FreeConnTaken`, `TaskExecuted`, `StopReturns`, `Answered`, `WritesExecuted`, `AllEnd`): fairness and `ENABLED` are out of
  the prover's reach.
* `Connection!BodyExact` (what a handler has read is its request's body): it is stated with `SelectSeq`, which is defined by recursion and so by induction
  over the body's bytes; `InStep`, which is about their number and order, is proved. `CgiEnv!PointersRight` and
  `Response` are folds over sequences built up step by step; `FormVars` computes with strings in one step; `Authorization` uses
  `Bitwise`, which no module with a theorem may reach.
* `DavFiles!CreatedOnce`, `PasswordFile`, `UrlForm` and `MultipartForm` are not proved (section 6).
* The properties of the suites `handling` and `serving` (`FilesServed`, `DavSafe`, `ClientsTold`, ...) are conjunctions over parts that TLC explores as one union. The theorems are
  about the parts' own specifications and properties.

No module uses `RECURSIVE` operators, and no theorem needs induction over data.

## 5. What is not modelled

* *MySQL*: no transactions, reconnection or timeouts; a statement takes effect at once or fails. SQL text and escaping are the
  statement's effect on the table.
* *cache_display*, *cache_size*, *last_error*: read-only and unused. *Hash values*: `ShardOf` is any function from keys to shards.
* *One waiter of the pool* may be overtaken again and again (dbpool.cpp:81): `acquire` promises nothing to a particular
  thread, and no property asks for it.
* *The composition of the HTTP server's parts with `KVServer`*: in `KVServer` threads receive parsed requests. What lies in between
  is in the modules of section 2, each with inputs of its own.
* *Settings this program never makes*: access lists, authentication domains, URL rewriting, logging, throttle by URI.
  Each filters a request and keeps no state.
* *Pure functions of bytes*: `match.inl`, `sort.inl`, MD5, base64, dates. A relation between URIs and patterns, an order and a perfect digest are
  constants instead; how the Authorization header is split, and the XML of PROPFIND and PROPPATCH, are wording.
* *Not compiled* (`Server/Makefile` sets `NO_SSL` and no `USE_*`): TLS, WebSocket, Lua, HTTP/2, timers, IPv6, zlib. Server-side includes
  are compiled and not modelled: text of a file with other files in it.
* *CGI programs, libcurl, the operating system*: external, as any of the things they may do. Spurious failures are those
  listed as `Faults`.
* *Faults left out of a suite*: of `ServerStart` "master" (the master thread cannot be created) and "methods" (no memory for the
  library's list of methods, after which its keys stay behind), of `Client` an error buffer of length 0. They are in the
  modules, and break `StartUndone` and `ClientsTold` in the way the section on deviations says.

## 6. Plan

Done: the program's own classes with their abstract specifications, the handlers composed of them, `main`, the HTTP server
part by part, the load generator; the proofs of section 4. What is left, in this order:

1. `UrlForm!StoredOrRemoved`, `PasswordFile!EditApplied` and `NoOtherLogin`: no folds, one actor each.
2. `DavFiles!CreatedOnce`. It needs as a hypothesis that no DELETE comes between two of the same MKCOL: it is about the modelled
   tasks, and false for arbitrary ones.
3. Action properties of what is proved already: an entry with users keeps its callback from step to step; a connection leaves the ring
   only by `Pop`.
