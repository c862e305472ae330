--------------------------- MODULE KVServerProofs ---------------------------
(***************************************************************************)
(* Proofs about KVServer, for any threads, connections, keys and values,   *)
(* any size of the cache and any number of requests.  The inductive        *)
(* invariant, ServerInv, is TypeOK with what each path of a handler may    *)
(* have (TypeInv), where a key's values can be (OwnValues), which of the   *)
(* threads can be on their way with one key as long as it has not raced    *)
(* (Apart), and what then the cache (Agree) and a GET that waits for an    *)
(* answer (Expected) have.                                                 *)
(***************************************************************************)
EXTENDS KVServer, SequenceTheorems, TLAPS

(* A handler beyond its first check has a key, and each path has its       *)
(* operation.                                                              *)
RequestsFit ==
    /\ req \in [Threads -> Request \cup {NoKey}]
    /\ \A t \in Threads :
          /\ pc[t] \notin {"idle", "reply"} => Key(t) \in Keys
          /\ pc[t] \in {"acquire", "query", "release", "fill"} => req[t].op = "GET"
          /\ pc[t] = "log" => req[t].op # "GET"

(* Some accepted write of k is the newest that waits. *)
Newest(k, i) == i \in Pending(k) /\ \A j \in Pending(k) : j <= i

LogFits ==
    /\ writer \in {"acquire", "query"} => applied < Len(log)
    /\ \A k \in Keys : Pending(k) # {} => \E i \in Pending(k) : Newest(k, i)

TypeInv ==
    /\ TypeOK
    /\ RequestsFit
    /\ LogFits
    /\ known \in [Keys -> SUBSET Values]
    /\ expect \in [Threads -> Values \cup {NoValue, Unknown}]

(* What was stored under a key stays under it on every way it can take.    *)
OwnStored == \A k \in Keys : {store[k], table[k]} \ {NoValue} \subseteq known[k]

OwnLogged ==
    \A i \in 1 .. Len(log) :
       log[i].value # NoValue => log[i].value \in known[log[i].key]

OwnHandled(t) ==
    /\ pc[t] \in {"begin", "log"} /\ req[t].op = "POST" =>
          req[t].value \in known[Key(t)]
    /\ pc[t] = "fill" => status[t] = 200
    /\ pc[t] \in {"release", "fill"} /\ status[t] = 200 =>
          row[t] # NoValue /\ row[t] \in known[Key(t)]
    /\ pc[t] = "reply" /\ body[t] # NoValue =>
          Key(t) \in Keys /\ body[t] \in known[Key(t)]

OwnValues == OwnStored /\ OwnLogged /\ \A t \in Threads : OwnHandled(t)

(* As long as a key's operations have not raced, one write of it is half   *)
(* done at most, and while a GET has its row nothing is on its way: the    *)
(* row is the table's.                                                     *)
ApartAt(k) ==
    /\ \A t, u \in HalfWritten(k) : t = u
    /\ \A t \in Fillers(k) :
          HalfWritten(k) = {} /\ Pending(k) = {} /\ row[t] = table[k]

Apart == \A k \in Keys \ raced : ApartAt(k)

(* ... and, if none has failed, the cache has the value of the write that  *)
(* is half done, or else what the table will say.                          *)
AgreeAt(k) ==
    /\ \A t \in HalfWritten(k) : store[k] \in {NoValue, req[t].value}
    /\ HalfWritten(k) = {} => store[k] \in {NoValue, Latest(k)}

Agree == \A k \in Keys \ (raced \cup failed) : AgreeAt(k)

(* A GET with an expected answer: no write of its key is being handled,    *)
(* and what it has found so far is that answer.                            *)
Found(t) ==
    /\ expect[t] = Latest(Key(t))
    /\ pc[t] = "release" =>
          /\ status[t] = IF expect[t] = NoValue THEN 404 ELSE 200
          /\ status[t] = 200 => row[t] = expect[t]
    /\ pc[t] = "fill" => expect[t] # NoValue /\ row[t] = expect[t]
    /\ pc[t] = "reply" =>
          /\ body[t] = expect[t]
          /\ status[t] = IF expect[t] = NoValue THEN 404 ELSE 200

ExpectedAt(t) ==
    expect[t] # Unknown =>
       /\ pc[t] # "idle" /\ req[t].op = "GET" /\ Key(t) \in Keys \ {NoKey}
       /\ WritersOf(Key(t)) = {}
       /\ Key(t) \notin raced \cup failed => Found(t)

Expected == \A t \in Threads : ExpectedAt(t)

ServerInv == TypeInv /\ OwnValues /\ Apart /\ Agree /\ Expected

-----------------------------------------------------------------------------
(* cache_put: the key has its value, and any other key the one it had, or  *)
(* none any more.                                                          *)
LEMMA PutStores ==
    ASSUME TypeOK, NEW k \in Keys, NEW v \in Values, Cache!Put(k, v)
    PROVE  /\ store' \in [Keys -> Values \cup {NoValue}]
           /\ usedBefore' \subseteq Keys \X Keys
           /\ store'[k] = v
           /\ \A j \in Keys : store'[j] \in {store[j], v, NoValue}
           /\ \A j \in Keys \ {k} : store'[j] \in {store[j], NoValue}
<1> USE DEF TypeOK
<1>1. \A gone : Cache!UseLast(k, gone) \subseteq Keys \X Keys
  BY DEF Cache!UseLast, Cache!Forget, Cache!Shard, Cache!Cached
<1>2. CASE Cache!PutInPlace(k, v)
  BY <1>1, <1>2 DEF Cache!PutInPlace
<1>3. CASE Cache!PutEvicting(k, v)
  <2>1. PICK old \in Keys :
            /\ store' = [store EXCEPT ![old] = NoValue, ![k] = v]
            /\ usedBefore' = Cache!UseLast(k, {old})
    BY <1>3 DEF Cache!PutEvicting, Cache!Shard, Cache!Cached
  <2> QED BY <1>1, <2>1
<1> QED BY <1>2, <1>3 DEF Cache!Put

(* For the types alone it does not matter whether there is a value. *)
LEMMA PutTypes ==
    ASSUME TypeOK, NEW k \in Keys, NEW v \in Values \cup {NoValue}, Cache!Put(k, v)
    PROVE  /\ store' \in [Keys -> Values \cup {NoValue}]
           /\ usedBefore' \subseteq Keys \X Keys
<1> USE DEF TypeOK
<1>1. \A gone : Cache!UseLast(k, gone) \subseteq Keys \X Keys
  BY DEF Cache!UseLast, Cache!Forget, Cache!Shard, Cache!Cached
<1>2. CASE Cache!PutInPlace(k, v)
  BY <1>1, <1>2 DEF Cache!PutInPlace
<1>3. CASE Cache!PutEvicting(k, v)
  BY <1>1, <1>3 DEF Cache!PutEvicting
<1> QED BY <1>2, <1>3 DEF Cache!Put

(* cache_get and cache_delete. *)
LEMMA GetKeepsStore ==
    ASSUME TypeOK, NEW k \in Keys, Cache!Get(k)
    PROVE  store' = store /\ usedBefore' \subseteq Keys \X Keys
BY DEF TypeOK, Cache!Get, Cache!UseLast, Cache!Forget, Cache!Shard, Cache!Cached

LEMMA DeleteRemoves ==
    ASSUME TypeOK, NEW k \in Keys, Cache!Delete(k)
    PROVE  /\ store' \in [Keys -> Values \cup {NoValue}]
           /\ usedBefore' \subseteq Keys \X Keys
           /\ store' = [store EXCEPT ![k] = NoValue]
BY DEF TypeOK, Cache!Delete, Cache!Forget

(* acquire and release keep the connections where they belong. *)
LEMMA PoolTypes ==
    ASSUME TypeOK, NEW t \in Threads \cup {Writer}, Pool!Take(t) \/ Pool!Give(t)
    PROVE  /\ free' \subseteq Conns
           /\ owner' \in [Threads \cup {Writer} -> Conns \cup {NoConn}]
BY SMTT(30) DEF TypeOK, Pool!Take, Pool!Give

(* The write a handler puts into the log ... *)
TaskOf(t) ==
    [type |-> IF req[t].op = "POST" THEN "INSERT_OP" ELSE "DELETE_OP",
     key |-> Key(t), value |-> req[t].value]

LEMMA LogGrows ==
    ASSUME TypeInv, NEW t \in Threads, WriteLogged(t)
    PROVE  /\ TaskOf(t) \in AsyncTask
           /\ log' \in Seq(AsyncTask) /\ Len(log') = Len(log) + 1
           /\ \A i \in 1 .. Len(log) : log'[i] = log[i]
           /\ log'[Len(log) + 1] = TaskOf(t)
           /\ UNCHANGED <<applied, table, closed>>
<1>1. TaskOf(t) \in AsyncTask
  BY DEF TaskOf, TypeInv, TypeOK, RequestsFit, WriteLogged, Request, AsyncTask, Key
<1>2. log \in Seq(AsyncTask) /\ log' = Append(log, TaskOf(t))
  BY DEF TypeInv, TypeOK, WriteLogged, Log!Accept, TaskOf
<1>3. UNCHANGED <<applied, table, closed>>
  BY DEF WriteLogged, Log!Accept
<1> HIDE DEF TaskOf
<1> QED BY <1>1, <1>2, <1>3

(* ... is then the newest of its key and leaves the others as they were.   *)
LEMMA PendingGrows ==
    ASSUME TypeInv, NEW t \in Threads, WriteLogged(t), NEW k \in Keys
    PROVE  /\ k # Key(t) => Pending(k)' = Pending(k)
           /\ k = Key(t) => /\ Pending(k)' = Pending(k) \cup {Len(log) + 1}
                            /\ Newest(k, Len(log))'
<1>1. applied \in Nat /\ Len(log) \in Nat /\ applied <= Len(log)
  BY LenProperties DEF TypeInv, TypeOK
<1>2. TaskOf(t).key = Key(t)
  BY DEF TaskOf
<1>3. Len(log)' = Len(log) + 1 /\ applied' = applied
  BY LogGrows
<1>4. \A i \in applied + 1 .. Len(log) + 1 :
         i \in Pending(k)' <=> (i \in Pending(k) \/ (i = Len(log) + 1 /\ k = Key(t)))
  <2> SUFFICES ASSUME NEW i \in applied + 1 .. Len(log) + 1
               PROVE  i \in Pending(k)' <=>
                         (i \in Pending(k) \/ (i = Len(log) + 1 /\ k = Key(t)))
    OBVIOUS
  <2>1. CASE i = Len(log) + 1
    BY <1>1, <1>2, <1>3, <2>1, LogGrows DEF Pending
  <2>2. CASE i \in applied + 1 .. Len(log)
    BY <1>1, <1>3, <2>2, LogGrows DEF Pending
  <2> QED BY <1>1, <2>1, <2>2
<1>5. /\ Pending(k) \subseteq applied + 1 .. Len(log)
      /\ Pending(k)' \subseteq applied + 1 .. Len(log) + 1
  BY <1>1, <1>3 DEF Pending
<1>6. Pending(k)' = Pending(k) \cup (IF k = Key(t) THEN {Len(log) + 1} ELSE {})
  BY <1>1, <1>4, <1>5
<1>7. Newest(k, Len(log))' <=>
         Len(log) + 1 \in Pending(k)' /\ \A j \in Pending(k)' : j <= Len(log) + 1
  BY <1>1, <1>3 DEF Newest
<1> QED BY <1>1, <1>5, <1>6, <1>7

(* The writer's statement deals with the oldest write that waits ... *)
LEMMA WriterApplies ==
    ASSUME TypeInv, WriterQuery
    PROVE  /\ UNCHANGED <<log, closed>> /\ applied' = applied + 1
           /\ applied' \in 0 .. Len(log)
           /\ log[applied + 1] \in AsyncTask
           /\ table' \in Tables
           /\ table' \in {table, Effect(log[applied + 1], table)}
<1> DEFINE task == log[applied + 1]
<1>1. /\ log \in Seq(AsyncTask) /\ applied \in 0 .. Len(log)
      /\ Len(log) \in Nat
  BY LenProperties DEF TypeInv, TypeOK
<1>2. /\ UNCHANGED <<log, closed>> /\ applied' = applied + 1
      /\ applied < Len(log)
      /\ table' \in {table, Effect(task, table)}
  BY DEF WriterQuery, Log!Apply, Log!Effect, Effect
<1>3. task \in AsyncTask
  BY <1>1, <1>2, ElementOfSeq
<1>4. table' \in Tables
  BY <1>2, <1>3 DEF TypeInv, TypeOK, Tables, Effect, AsyncTask
<1> QED BY <1>1, <1>2, <1>3, <1>4

(* ... which is pending no more, and changes no other key than its own.    *)
LEMMA PendingShrinks ==
    ASSUME TypeInv, WriterQuery, NEW k \in Keys
    PROVE  /\ Pending(k)' = Pending(k) \ {applied + 1}
           /\ k # log[applied + 1].key =>
                 table'[k] = table[k] /\ Pending(k)' = Pending(k)
<1>1. applied \in Nat /\ Len(log) \in Nat /\ applied' = applied + 1
  BY WriterApplies, LenProperties DEF TypeInv, TypeOK
<1>2. Pending(k)' = {i \in applied + 2 .. Len(log) : log[i].key = k}
  BY <1>1, WriterApplies DEF Pending
<1>3. k # log[applied + 1].key => table'[k] = table[k]
  BY WriterApplies DEF TypeInv, TypeOK, Tables, Effect, AsyncTask
<1> QED BY <1>1, <1>2, <1>3 DEF Pending

-----------------------------------------------------------------------------
(* Latest, without its CHOOSE: the newest write that waits, or the table.  *)
LEMMA TopIs ==
    ASSUME NEW S \in SUBSET Int, NEW i \in S, \A j \in S : j <= i
    PROVE  (CHOOSE m \in S : \A j \in S : j <= m) = i
<1> DEFINE top == CHOOSE m \in S : \A j \in S : j <= m
<1>1. top \in S /\ \A j \in S : j <= top
  OBVIOUS
<1> HIDE DEF top
<1>2. top = i
  BY <1>1
<1> QED BY <1>2 DEF top

LatestIs(k, v) ==
    \/ Pending(k) = {} /\ v = table[k]
    \/ \E i \in Pending(k) : (\A j \in Pending(k) : j <= i) /\ v = log[i].value

LEMMA LatestValue ==
    ASSUME TypeInv, NEW k \in Keys
    PROVE  LatestIs(k, Latest(k)) /\ \A v : LatestIs(k, v) => v = Latest(k)
<1>1. Pending(k) \in SUBSET Int
  BY LenProperties DEF Pending, TypeInv, TypeOK
<1>2. CASE Pending(k) = {}
  BY <1>2 DEF Latest, LatestIs
<1>3. CASE Pending(k) # {}
  <2>1. ASSUME NEW i \in Pending(k), \A j \in Pending(k) : j <= i
        PROVE  Latest(k) = log[i].value
    <3> DEFINE top == CHOOSE m \in Pending(k) : \A j \in Pending(k) : j <= m
    <3>1. top = i
      BY ONLY <1>1, <2>1, TopIs
    <3>2. Latest(k) = log[top].value
      BY <1>3 DEF Latest
    <3> QED BY ONLY <3>1, <3>2
  <2>2. PICK i \in Pending(k) : \A j \in Pending(k) : j <= i
    BY <1>3 DEF TypeInv, LogFits, Newest
  <2> QED BY <1>3, <2>1, <2>2 DEF LatestIs
<1> QED BY <1>2, <1>3

LEMMA LatestValueNext ==
    ASSUME TypeInv', NEW k \in Keys
    PROVE  LatestIs(k, Latest(k))' /\ \A v : LatestIs(k, v)' => v = Latest(k)'
<1>1. Pending(k)' \in SUBSET Int
  BY LenProperties DEF Pending, TypeInv, TypeOK
<1>2. CASE Pending(k)' = {}
  BY <1>2 DEF Latest, LatestIs
<1>3. CASE Pending(k)' # {}
  <2>1. ASSUME NEW i \in Pending(k)', \A j \in Pending(k)' : j <= i
        PROVE  Latest(k)' = log'[i].value
    <3> DEFINE top == CHOOSE m \in Pending(k)' : \A j \in Pending(k)' : j <= m
    <3>1. top = i
      BY ONLY <1>1, <2>1, TopIs
    <3>2. Latest(k)' = log'[top].value
      BY <1>3 DEF Latest
    <3> QED BY ONLY <3>1, <3>2
  <2>2. PICK i \in Pending(k)' : \A j \in Pending(k)' : j <= i
    BY <1>3 DEF TypeInv, LogFits, Newest
  <2> QED BY <1>3, <2>1, <2>2 DEF LatestIs
<1> QED BY <1>2, <1>3

LEMMA LatestType ==
    ASSUME TypeInv, NEW k \in Keys
    PROVE  Latest(k) \in Values \cup {NoValue}
<1>1. CASE Pending(k) = {}
  BY <1>1 DEF Latest, TypeInv, TypeOK, Tables
<1>2. ASSUME NEW i \in Pending(k) PROVE log[i].value \in Values \cup {NoValue}
  <2>1. log \in Seq(AsyncTask) /\ i \in 1 .. Len(log)
    BY LenProperties DEF TypeInv, TypeOK, Pending
  <2>2. log[i] \in AsyncTask
    BY <2>1, ElementOfSeq
  <2> QED BY <2>2 DEF AsyncTask
<1>3. LatestIs(k, Latest(k))
  BY LatestValue
<1> QED BY <1>1, <1>2, <1>3 DEF LatestIs

-----------------------------------------------------------------------------
(* What an answer changes. *)
LEMMA AnswerGiven ==
    ASSUME TypeOK, NEW t \in Threads, NEW s, NEW v, Answer(t, s, v)
    PROVE  /\ pc' \in [Threads -> {"idle", "begin", "acquire", "query", "release",
                                   "fill", "log", "reply"}]
           /\ pc'[t] = "reply" /\ status'[t] = s /\ body'[t] = v
           /\ \A u \in Threads \ {t} :
                 pc'[u] = pc[u] /\ status'[u] = status[u] /\ body'[u] = body[u]
           /\ s \in {200, 400, 404, 500} =>
                 status' \in [Threads -> {200, 400, 404, 500}]
           /\ v \in Values \cup {NoValue} =>
                 body' \in [Threads -> Values \cup {NoValue}]
BY DEF TypeOK, Answer

LEMMA PendingSame ==
    ASSUME UNCHANGED <<log, applied>>
    PROVE  \A k : Pending(k)' = Pending(k)
BY DEF Pending

LEMMA LogFitsSame ==
    ASSUME LogFits, UNCHANGED <<log, applied, writer>>
    PROVE  LogFits'
BY PendingSame DEF LogFits, Newest

LEMMA TypeInit == Init => TypeInv
<1> SUFFICES ASSUME Init PROVE TypeInv
  OBVIOUS
<1> USE DEF Init
<1>1. TypeOK
  BY EmptySeq DEF TypeOK, Tables, Cache!CacheInit
<1>2. RequestsFit
  BY DEF RequestsFit
<1>3. LogFits
  BY EmptySeq DEF LogFits, Pending
<1>4. known \in [Keys -> SUBSET Values]
  BY DEF Tables
<1> QED BY <1>1, <1>2, <1>3, <1>4 DEF TypeInv

LEMMA ReceiveTypes ==
    ASSUME TypeInv, NEW t \in Threads, Receive(t)
    PROVE  TypeInv'
<1> USE DEF TypeInv
<1>1. PICK r \in Request :
         /\ req' = [req EXCEPT ![t] = r]
         /\ \/ r.key = NoKey /\ Answer(t, 400, NoValue) /\ UNCHANGED <<expect, known>>
            \/ /\ r.key # NoKey
               /\ pc' = [pc EXCEPT ![t] = "begin"]
               /\ UNCHANGED <<status, body>>
               /\ expect' =
                    IF r.op = "GET"
                    THEN [expect EXCEPT ![t] =
                            IF WritersOf(r.key) = {} THEN Latest(r.key) ELSE Unknown]
                    ELSE [u \in Threads |->
                            IF pc[u] # "idle" /\ Key(u) = r.key THEN Unknown
                            ELSE expect[u]]
               /\ known' = IF r.op = "POST"
                           THEN [known EXCEPT ![r.key] = @ \cup {r.value}]
                           ELSE known
  BY DEF Receive
<1>2. /\ row' = [row EXCEPT ![t] = NoValue]
      /\ UNCHANGED <<cacheVars, poolVars, logVars, writer, raced, failed>>
  BY DEF Receive
<1>3. r.key # NoKey => r.key \in Keys
  BY DEF Request
<1>4. TypeOK'
  <2>1. UNCHANGED <<store, usedBefore, state, free, owner, log, applied, table,
                    closed, writer>>
    BY <1>2 DEF cacheVars, poolVars, logVars
  <2>2. /\ pc' \in [Threads -> {"idle", "begin", "acquire", "query", "release",
                                "fill", "log", "reply"}]
        /\ status' \in [Threads -> {200, 400, 404, 500}]
        /\ body' \in [Threads -> Values \cup {NoValue}]
        /\ \A u \in Threads : u # t => pc'[u] = pc[u]
    <3>1. CASE Answer(t, 400, NoValue)
      BY <3>1, AnswerGiven
    <3>2. CASE ~Answer(t, 400, NoValue)
      BY <1>1, <3>2 DEF TypeOK
    <3> QED BY <3>1, <3>2
  <2>3. \A u \in Threads : pc'[u] # "idle" => req'[u] \in Request
    BY <1>1, <2>2 DEF TypeOK, RequestsFit
  <2>4. row' \in [Threads -> Values \cup {NoValue}]
    BY <1>2 DEF TypeOK
  <2> QED BY <2>1, <2>2, <2>3, <2>4 DEF TypeOK
<1>5. RequestsFit'
  BY <1>1, <1>3 DEF TypeOK, RequestsFit, Answer, Key
<1>6. LogFits'
  BY <1>2, LogFitsSame DEF logVars
<1>7. known' \in [Keys -> SUBSET Values]
  BY <1>1, <1>3 DEF Request
<1>8. expect' \in [Threads -> Values \cup {NoValue, Unknown}]
  <2>1. r.key # NoKey => Latest(r.key) \in Values \cup {NoValue}
    BY <1>3, LatestType
  <2> QED BY <1>1, <2>1
<1> QED BY <1>4, <1>5, <1>6, <1>7, <1>8

LEMMA HandlerTypes ==
    ASSUME TypeInv, NEW t \in Threads, HandlerStep(t)
    PROVE  TypeInv'
<1> USE DEF TypeInv, Key
<1>1. CASE GetCached(t)
  <2> USE <1>1 DEF GetCached
  <2>1. Key(t) \in Keys
    BY DEF RequestsFit
  <2>2. store' = store /\ usedBefore' \subseteq Keys \X Keys
    BY <2>1, GetKeepsStore
  <2>3. UNCHANGED <<state, free, owner, log, applied, table, closed, writer,
                    req, row, expect, known>>
    BY DEF poolVars, logVars, historyVars
  <2>4. /\ status' \in [Threads -> {200, 400, 404, 500}]
        /\ body' \in [Threads -> Values \cup {NoValue}]
        /\ pc' \in [Threads -> {"idle", "begin", "acquire", "query", "release",
                                "fill", "log", "reply"}]
        /\ pc'[t] \in {"reply", "acquire"}
        /\ \A u \in Threads \ {t} : pc'[u] = pc[u]
    <3>1. CASE Answer(t, 200, store[Key(t)])
      <4>1. store[Key(t)] \in Values \cup {NoValue}
        BY <2>1 DEF TypeOK
      <4> QED BY <3>1, <4>1, AnswerGiven
    <3>2. CASE pc' = [pc EXCEPT ![t] = "acquire"] /\ UNCHANGED <<status, body>>
      BY <3>2 DEF TypeOK
    <3> QED BY <3>1, <3>2
  <2>5. TypeOK'
    BY <2>2, <2>3, <2>4 DEF TypeOK
  <2>6. RequestsFit'
    BY <2>3, <2>4 DEF RequestsFit
  <2> QED BY <2>3, <2>5, <2>6, LogFitsSame
<1>2. CASE GetAcquire(t)
  <2> USE <1>2 DEF GetAcquire
  <2>1. UNCHANGED <<store, usedBefore, log, applied, table, closed, writer,
                    req, row, status, body, expect, known>>
    BY DEF cacheVars, logVars, historyVars
  <2>2. TypeOK'
    BY <2>1, PoolTypes DEF TypeOK
  <2>3. RequestsFit'
    BY <2>1 DEF RequestsFit, TypeOK
  <2> QED BY <2>1, <2>2, <2>3, LogFitsSame
<1>3. CASE GetQuery(t)
  <2> USE <1>3 DEF GetQuery
  <2>1. /\ UNCHANGED <<store, usedBefore, state, free, owner, log, applied, table,
                       closed, writer, req, body, expect, known>>
        /\ pc' = [pc EXCEPT ![t] = "release"]
    BY DEF cacheVars, poolVars, logVars
  <2>2. /\ status' \in [Threads -> {200, 400, 404, 500}]
        /\ row' \in [Threads -> Values \cup {NoValue}]
    <3>1. table[Key(t)] \in Values \cup {NoValue}
      BY DEF TypeOK, Tables, RequestsFit
    <3>2. row' = [row EXCEPT ![t] = table[Key(t)]] \/ row' = row
      OBVIOUS
    <3>3. \E s \in {200, 404, 500} : status' = [status EXCEPT ![t] = s]
      OBVIOUS
    <3> QED BY ONLY TypeOK, <3>1, <3>2, <3>3 DEF TypeOK
  <2>3. TypeOK'
    BY <2>1, <2>2 DEF TypeOK
  <2>4. RequestsFit'
    BY <2>1 DEF RequestsFit, TypeOK
  <2> QED BY <2>1, <2>3, <2>4, LogFitsSame
<1>4. CASE GetRelease(t)
  <2> USE <1>4 DEF GetRelease
  <2>1. /\ UNCHANGED <<store, usedBefore, log, applied, table, closed, writer,
                       req, row, expect, known>>
        /\ status' \in [Threads -> {200, 400, 404, 500}]
        /\ body' \in [Threads -> Values \cup {NoValue}]
        /\ pc' \in [Threads -> {"idle", "begin", "acquire", "query", "release",
                                "fill", "log", "reply"}]
        /\ pc'[t] \in {"fill", "reply"}
        /\ \A u \in Threads \ {t} : pc'[u] = pc[u]
    BY SMTT(30) DEF TypeOK, Answer, cacheVars, logVars, historyVars
  <2>2. TypeOK'
    BY <2>1, PoolTypes DEF TypeOK
  <2>3. RequestsFit'
    BY <2>1 DEF RequestsFit
  <2> QED BY <2>1, <2>2, <2>3, LogFitsSame
<1>5. CASE GetFill(t)
  <2> USE <1>5 DEF GetFill
  <2>1. /\ UNCHANGED <<state, free, owner, log, applied, table, closed, writer,
                       req, row, expect, known>>
        /\ pc' = [pc EXCEPT ![t] = "reply"]
        /\ status' \in [Threads -> {200, 400, 404, 500}]
        /\ body' \in [Threads -> Values \cup {NoValue}]
    BY DEF TypeOK, Answer, poolVars, logVars, historyVars
  <2>2. store' \in [Keys -> Values \cup {NoValue}] /\ usedBefore' \subseteq Keys \X Keys
    BY PutTypes DEF RequestsFit, TypeOK
  <2>3. TypeOK'
    BY <2>1, <2>2 DEF TypeOK
  <2>4. RequestsFit'
    BY <2>1 DEF RequestsFit, TypeOK
  <2> QED BY <2>1, <2>3, <2>4, LogFitsSame
<1>6. CASE PostCache(t) \/ DeleteCache(t)
  <2> USE <1>6 DEF PostCache, DeleteCache
  <2>1. /\ UNCHANGED <<state, free, owner, log, applied, table, closed, writer,
                       req, row, status, body, expect, known>>
        /\ pc' = [pc EXCEPT ![t] = "log"]
        /\ pc[t] = "begin" /\ req[t].op # "GET"
    BY DEF poolVars, logVars
  <2>2. store' \in [Keys -> Values \cup {NoValue}] /\ usedBefore' \subseteq Keys \X Keys
    <3>1. Key(t) \in Keys /\ req[t] \in Request
      BY <2>1 DEF RequestsFit, TypeOK
    <3>2. CASE PostCache(t)
      BY <3>1, <3>2, PutTypes DEF Request
    <3>3. CASE DeleteCache(t)
      BY <3>1, <3>3, DeleteRemoves
    <3> QED BY <3>2, <3>3
  <2>3. TypeOK'
    BY <2>1, <2>2 DEF TypeOK
  <2>4. RequestsFit'
    BY <2>1 DEF RequestsFit, TypeOK
  <2> QED BY <2>1, <2>3, <2>4, LogFitsSame
<1>7. CASE WriteLogged(t)
  <2>1. /\ UNCHANGED <<store, usedBefore, state, free, owner, applied, table,
                       closed, writer, req, row, expect, known>>
        /\ pc[t] = "log" /\ pc' = [pc EXCEPT ![t] = "reply"]
        /\ status' \in [Threads -> {200, 400, 404, 500}]
        /\ body' \in [Threads -> Values \cup {NoValue}]
    BY ZenonT(40), <1>7, LogGrows DEF WriteLogged, TypeOK, Answer, cacheVars, poolVars, historyVars
  <2>2. /\ log' \in Seq(AsyncTask) /\ Len(log') = Len(log) + 1 /\ Len(log) \in Nat
        /\ applied' \in 0 .. Len(log')
    BY <1>7, LogGrows, LenProperties DEF TypeOK
  <2>3. TypeOK'
    BY <2>1, <2>2 DEF TypeOK
  <2>4. RequestsFit'
    BY <2>1 DEF RequestsFit, TypeOK
  <2>5. LogFits'
    <3>1. ASSUME NEW k \in Keys, Pending(k)' # {}
          PROVE  \E i \in Pending(k)' : Newest(k, i)'
      <4>1. CASE k = Key(t)
        BY <1>7, <4>1, PendingGrows DEF Newest
      <4>2. CASE k # Key(t)
        BY <1>7, <3>1, <4>2, PendingGrows DEF LogFits, Newest
      <4> QED BY <4>1, <4>2
    <3> QED BY <2>1, <2>2, <3>1 DEF LogFits, TypeOK
  <2> QED BY <2>1, <2>3, <2>4, <2>5
<1>8. CASE Reply(t)
  <2> USE <1>8 DEF Reply
  <2>1. /\ UNCHANGED <<store, usedBefore, state, free, owner, log, applied, table,
                       closed, writer, known>>
        /\ pc' = [pc EXCEPT ![t] = "idle"]
        /\ req' = [req EXCEPT ![t] = NoKey]
        /\ expect' = [expect EXCEPT ![t] = Unknown]
        /\ row' = [row EXCEPT ![t] = NoValue]
        /\ status' = [status EXCEPT ![t] = 200]
        /\ body' = [body EXCEPT ![t] = NoValue]
    BY DEF cacheVars, poolVars, logVars
  <2>2. TypeOK'
    BY <2>1 DEF TypeOK
  <2>3. RequestsFit'
    BY <2>1 DEF RequestsFit, TypeOK
  <2> QED BY <2>1, <2>2, <2>3, LogFitsSame
<1> QED BY <1>1, <1>2, <1>3, <1>4, <1>5, <1>6, <1>7, <1>8 DEF HandlerStep

LEMMA WriterTypes ==
    ASSUME TypeInv, WriterStep
    PROVE  TypeInv'
<1> USE DEF TypeInv
<1>1. CASE WriterPop
  <2>1. UNCHANGED <<cacheVars, poolVars, logVars, handlerVars, historyVars>>
    BY <1>1 DEF WriterPop
  <2>2. /\ UNCHANGED <<store, usedBefore, state, free, owner, log, applied, table,
                       closed, pc, req, row, status, body, expect, known>>
        /\ writer' = "acquire" /\ applied < Len(log)
    BY <1>1, <2>1 DEF WriterPop, cacheVars, poolVars, logVars, handlerVars, historyVars
  <2>3. TypeOK' /\ RequestsFit'
    BY <2>2 DEF TypeOK, RequestsFit, Key
  <2>4. LogFits'
    BY <2>2, PendingSame DEF LogFits, Newest
  <2> QED BY <2>2, <2>3, <2>4
<1>2. CASE WriterAcquire \/ WriterRelease
  <2>1. /\ UNCHANGED <<store, usedBefore, log, applied, table, closed, pc, req, row,
                       status, body, expect, known>>
        /\ (writer' = "query" /\ writer = "acquire") \/ writer' = "waiting"
        /\ Pool!Take(Writer) \/ Pool!Give(Writer)
    BY <1>2 DEF WriterAcquire, WriterRelease, cacheVars, logVars, handlerVars, historyVars
  <2>2. TypeOK' /\ RequestsFit'
    BY <2>1, PoolTypes DEF TypeOK, RequestsFit, Key
  <2>3. LogFits'
    BY <2>1, PendingSame DEF LogFits, Newest
  <2> QED BY <2>1, <2>2, <2>3
<1>3. CASE WriterQuery
  <2>1. /\ UNCHANGED <<store, usedBefore, state, free, owner, pc, req, row,
                       status, body, expect, known>>
        /\ writer' = "release"
    BY <1>3 DEF WriterQuery, cacheVars, poolVars, handlerVars
  <2>3. TypeOK' /\ RequestsFit'
    BY <1>3, <2>1, WriterApplies DEF TypeOK, RequestsFit, Key
  <2>4. LogFits'
    <3> SUFFICES ASSUME NEW k \in Keys, Pending(k)' # {}
                 PROVE  \E i \in Pending(k)' : Newest(k, i)'
      BY <2>1 DEF LogFits
    <3>1. PICK i \in Pending(k) : Newest(k, i)
      BY <1>3, PendingShrinks DEF LogFits
    <3>2. Pending(k)' = Pending(k) \ {applied + 1}
      BY <1>3, PendingShrinks
    <3>3. /\ \A j \in Pending(k) : j \in Int /\ applied + 1 <= j
          /\ applied \in Int
      BY LenProperties DEF Pending, TypeOK
    <3>4. i # applied + 1
      BY <3>1, <3>2, <3>3 DEF Newest
    <3> QED BY <3>1, <3>2, <3>4 DEF Newest
  <2> QED BY <2>1, <2>3, <2>4
<1> QED BY <1>1, <1>2, <1>3 DEF WriterStep

LEMMA StutterTypes ==
    ASSUME TypeInv, UNCHANGED vars
    PROVE  TypeInv'
<1>1. UNCHANGED <<store, usedBefore, state, free, owner, log, applied, table, closed,
                  writer, pc, req, row, status, body, expect, known>>
  BY DEF vars, cacheVars, poolVars, logVars, handlerVars, historyVars
<1> QED BY <1>1, LogFitsSame DEF TypeInv, TypeOK, RequestsFit, Key

LEMMA TypeStep ==
    ASSUME TypeInv, [Next]_vars
    PROVE  TypeInv'
BY ReceiveTypes, HandlerTypes, WriterTypes, StutterTypes DEF Next

-----------------------------------------------------------------------------
LEMMA OwnInit == Init => OwnValues
<1> SUFFICES ASSUME Init PROVE OwnValues
  OBVIOUS
<1>1. OwnStored
  BY DEF Init, OwnStored, Tables, Cache!CacheInit
<1>2. OwnLogged
  BY EmptySeq DEF Init, OwnLogged
<1>3. \A t \in Threads : OwnHandled(t)
  BY DEF Init, OwnHandled
<1> QED BY <1>1, <1>2, <1>3 DEF OwnValues

(* A handler that is left alone keeps what it has. *)
LEMMA OwnHandledSame ==
    ASSUME TypeInv, NEW u \in Threads, OwnHandled(u),
           \A k \in Keys : known[k] \subseteq known'[k],
           pc'[u] = pc[u], req'[u] = req[u], row'[u] = row[u],
           status'[u] = status[u], body'[u] = body[u]
    PROVE  OwnHandled(u)'
BY DEF TypeInv, RequestsFit, OwnHandled, Key

LEMMA LoggedTask ==
    ASSUME TypeInv, NEW i \in 1 .. Len(log)
    PROVE  log[i] \in AsyncTask
BY ElementOfSeq DEF TypeInv, TypeOK

LEMMA ReceiveOwn ==
    ASSUME TypeInv, OwnValues, NEW t \in Threads, Receive(t)
    PROVE  OwnValues'
<1> USE DEF TypeInv
<1>1. PICK r \in Request :
         /\ req' = [req EXCEPT ![t] = r]
         /\ \/ r.key = NoKey /\ Answer(t, 400, NoValue) /\ known' = known
            \/ /\ r.key # NoKey
               /\ pc' = [pc EXCEPT ![t] = "begin"]
               /\ UNCHANGED <<status, body>>
               /\ known' = IF r.op = "POST"
                           THEN [known EXCEPT ![r.key] = @ \cup {r.value}]
                           ELSE known
  BY DEF Receive
<1>2. /\ row' = [row EXCEPT ![t] = NoValue]
      /\ UNCHANGED <<store, log, table>>
  BY DEF Receive, cacheVars, logVars
<1>3. /\ r.key # NoKey => r.key \in Keys
      /\ \A k \in Keys : known[k] \subseteq known'[k]
  BY <1>1 DEF Request
<1>4. OwnStored'
  BY <1>2, <1>3 DEF OwnValues, OwnStored
<1>5. OwnLogged'
  BY <1>2, <1>3, LoggedTask DEF OwnValues, OwnLogged, AsyncTask
<1>6. OwnHandled(t)'
  <2>1. CASE Answer(t, 400, NoValue)
    BY <2>1, AnswerGiven DEF OwnHandled
  <2>2. CASE pc' = [pc EXCEPT ![t] = "begin"] /\ r.key # NoKey
    BY <1>1, <1>3, <2>2 DEF OwnHandled, Key, TypeOK, RequestsFit, Request
  <2> QED BY <1>1, <2>1, <2>2
<1>7. ASSUME NEW u \in Threads, u # t PROVE OwnHandled(u)'
  <2>1. req'[u] = req[u] /\ row'[u] = row[u]
    BY <1>1, <1>2, <1>7 DEF TypeOK, RequestsFit
  <2>2. pc'[u] = pc[u] /\ status'[u] = status[u] /\ body'[u] = body[u]
    <3>1. CASE Answer(t, 400, NoValue)
      BY <1>7, <3>1, AnswerGiven
    <3> QED BY <1>1, <1>7, <3>1 DEF TypeOK
  <2> QED BY <1>3, <2>1, <2>2, OwnHandledSame DEF OwnValues
<1> QED BY <1>4, <1>5, <1>6, <1>7 DEF OwnValues

LEMMA HandlerOwn ==
    ASSUME TypeInv, OwnValues, NEW t \in Threads, HandlerStep(t)
    PROVE  OwnValues'
<1> USE DEF TypeInv
<1>0. known' = known
  BY DEF HandlerStep, GetCached, GetAcquire, GetQuery, GetRelease, GetFill, PostCache,
         DeleteCache, WriteLogged, Reply, historyVars
<1>1. CASE GetCached(t)
  <2> USE <1>1 DEF GetCached
  <2>1. Key(t) \in Keys
    BY DEF RequestsFit
  <2>2. UNCHANGED <<store, log, table, req, row>>
    BY <2>1, GetKeepsStore DEF logVars
  <2>3. OwnHandled(t)'
    <3>1. CASE Answer(t, 200, store[Key(t)])
      <4>1. store[Key(t)] # NoValue => store[Key(t)] \in known[Key(t)]
        BY <2>1 DEF OwnValues, OwnStored
      <4> QED BY <1>0, <2>1, <2>2, <3>1, <4>1, AnswerGiven DEF OwnHandled, Key
    <3>2. CASE pc' = [pc EXCEPT ![t] = "acquire"]
      BY <3>2 DEF OwnHandled, TypeOK
    <3> QED BY <3>1, <3>2
  <2>4. ASSUME NEW u \in Threads, u # t PROVE OwnHandled(u)'
    <3>1. pc'[u] = pc[u] /\ status'[u] = status[u] /\ body'[u] = body[u]
      <4>1. CASE Answer(t, 200, store[Key(t)])
        BY <2>4, <4>1, AnswerGiven
      <4>2. CASE ~Answer(t, 200, store[Key(t)])
        BY <2>4, <4>2 DEF TypeOK
      <4> QED BY <4>1, <4>2
    <3> QED BY <1>0, <2>2, <3>1, OwnHandledSame DEF OwnValues
  <2> QED BY <1>0, <2>2, <2>3, <2>4 DEF OwnValues, OwnStored, OwnLogged
<1>2. CASE GetAcquire(t)
  <2>1. /\ UNCHANGED <<store, log, table, req, row, status, body>>
        /\ pc[t] = "acquire" /\ pc' = [pc EXCEPT ![t] = "query"]
    BY <1>2 DEF GetAcquire, cacheVars, logVars
  <2>2. \A u \in Threads : OwnHandled(u)'
    BY <1>0, <2>1 DEF OwnValues, OwnHandled, Key, TypeOK
  <2> QED BY <1>0, <2>1, <2>2 DEF OwnValues, OwnStored, OwnLogged
<1>3. CASE GetQuery(t)
  <2>1. /\ UNCHANGED <<store, log, table, req, body>>
        /\ pc[t] = "query" /\ pc' = [pc EXCEPT ![t] = "release"]
        /\ \/ /\ row' = [row EXCEPT ![t] = table[Key(t)]]
              /\ status' = [status EXCEPT ![t] =
                               IF table[Key(t)] = NoValue THEN 404 ELSE 200]
           \/ /\ status' \in {[status EXCEPT ![t] = 500], [status EXCEPT ![t] = 404]}
              /\ UNCHANGED row
    BY <1>3 DEF GetQuery, cacheVars, logVars
  <2>2. Key(t) \in Keys
    BY <2>1 DEF RequestsFit
  <2>3. OwnHandled(t)'
    <3>1. pc'[t] = "release" /\ Key(t)' = Key(t)
      BY <2>1 DEF TypeOK, Key
    <3>2. table[Key(t)] # NoValue => table[Key(t)] \in known[Key(t)]
      BY <2>2 DEF OwnValues, OwnStored
    <3>3. status'[t] = 200 => row'[t] = table[Key(t)] /\ table[Key(t)] # NoValue
      BY <2>1 DEF TypeOK
    <3> QED BY ONLY <1>0, <3>1, <3>2, <3>3 DEF OwnHandled
  <2>4. ASSUME NEW u \in Threads, u # t PROVE OwnHandled(u)'
    <3>1. /\ pc'[u] = pc[u] /\ req'[u] = req[u] /\ row'[u] = row[u]
          /\ status'[u] = status[u] /\ body'[u] = body[u]
      BY <2>1, <2>4 DEF TypeOK
    <3> QED BY <1>0, <3>1, OwnHandledSame DEF OwnValues
  <2> QED BY <1>0, <2>1, <2>3, <2>4 DEF OwnValues, OwnStored, OwnLogged
<1>4. CASE GetRelease(t)
  <2>1. /\ UNCHANGED <<store, log, table, req, row>>
        /\ pc[t] = "release"
        /\ \/ /\ status[t] = 200
              /\ pc' = [pc EXCEPT ![t] = "fill"]
              /\ UNCHANGED <<status, body>>
           \/ Answer(t, status[t], NoValue)
    BY <1>4 DEF GetRelease, cacheVars, logVars
  <2>2. OwnHandled(t)'
    <3>1. CASE Answer(t, status[t], NoValue)
      BY <3>1, AnswerGiven DEF OwnHandled
    <3> QED BY <1>0, <2>1, <3>1 DEF OwnValues, OwnHandled, Key, TypeOK
  <2>3. ASSUME NEW u \in Threads, u # t PROVE OwnHandled(u)'
    <3>1. pc'[u] = pc[u] /\ status'[u] = status[u] /\ body'[u] = body[u]
      <4>1. CASE Answer(t, status[t], NoValue)
        BY <2>3, <4>1, AnswerGiven
      <4> QED BY <2>1, <2>3, <4>1 DEF TypeOK
    <3> QED BY <1>0, <2>1, <3>1, OwnHandledSame DEF OwnValues
  <2> QED BY <1>0, <2>1, <2>2, <2>3 DEF OwnValues, OwnStored, OwnLogged
<1>5. CASE GetFill(t)
  <2>1. /\ UNCHANGED <<log, table, req, row>>
        /\ pc[t] = "fill" /\ Answer(t, 200, row[t]) /\ Cache!Put(Key(t), row[t])
    BY <1>5 DEF GetFill, logVars
  <2>2. Key(t) \in Keys /\ row[t] \in known[Key(t)] /\ row[t] \in Values
    BY <2>1 DEF OwnValues, OwnHandled, RequestsFit, TypeOK
  <2>3. OwnStored'
    <3>1. store'[Key(t)] = row[t]
      BY <2>1, <2>2, PutStores
    <3>2. \A k \in Keys \ {Key(t)} : store'[k] \in {store[k], NoValue}
      BY <2>1, <2>2, PutStores
    <3> QED BY <1>0, <2>1, <2>2, <3>1, <3>2 DEF OwnValues, OwnStored
  <2>4. OwnHandled(t)'
    BY <1>0, <2>1, <2>2, AnswerGiven DEF OwnHandled, Key
  <2>5. ASSUME NEW u \in Threads, u # t PROVE OwnHandled(u)'
    <3>1. pc'[u] = pc[u] /\ status'[u] = status[u] /\ body'[u] = body[u]
      BY <2>1, <2>5, AnswerGiven
    <3> QED BY <1>0, <2>1, <3>1, OwnHandledSame DEF OwnValues
  <2> QED BY <1>0, <2>1, <2>3, <2>4, <2>5 DEF OwnValues, OwnLogged
<1>6. CASE PostCache(t) \/ DeleteCache(t)
  <2>1. /\ UNCHANGED <<log, table, req, row, status, body>>
        /\ pc[t] = "begin" /\ pc' = [pc EXCEPT ![t] = "log"]
    BY <1>6 DEF PostCache, DeleteCache, logVars
  <2>2. Key(t) \in Keys /\ req[t] \in Request
    BY <2>1 DEF RequestsFit, TypeOK
  <2>3. OwnStored'
    <3>1. CASE PostCache(t)
      <4>1. /\ req[t].value \in Values /\ req[t].value \in known[Key(t)]
            /\ Cache!Put(Key(t), req[t].value)
        BY <2>1, <2>2, <3>1 DEF PostCache, Request, OwnValues, OwnHandled
      <4>2. /\ store'[Key(t)] = req[t].value
            /\ \A k \in Keys \ {Key(t)} : store'[k] \in {store[k], NoValue}
        BY <2>2, <4>1, PutStores
      <4> QED BY <1>0, <2>1, <4>1, <4>2 DEF OwnValues, OwnStored
    <3>2. CASE DeleteCache(t)
      BY <1>0, <2>1, <2>2, <3>2, DeleteRemoves DEF DeleteCache, OwnValues, OwnStored, TypeOK
    <3> QED BY <1>6, <3>1, <3>2
  <2>4. OwnHandled(t)'
    BY <1>0, <2>1 DEF OwnValues, OwnHandled, Key, TypeOK
  <2>5. ASSUME NEW u \in Threads, u # t PROVE OwnHandled(u)'
    BY <1>0, <2>1, <2>5, OwnHandledSame DEF OwnValues, TypeOK
  <2> QED BY <1>0, <2>1, <2>3, <2>4, <2>5 DEF OwnValues, OwnLogged
<1>7. CASE WriteLogged(t)
  <2>1. /\ UNCHANGED <<store, req, row>>
        /\ pc[t] = "log" /\ Answer(t, 200, NoValue)
    BY <1>7 DEF WriteLogged, cacheVars
  <2>2. OwnStored'
    BY <1>0, <1>7, <2>1, LogGrows DEF OwnValues, OwnStored
  <2>3. TaskOf(t).value # NoValue => TaskOf(t).value \in known[TaskOf(t).key]
    BY <2>1 DEF TaskOf, OwnValues, OwnHandled, TypeOK, Request
  <2>4. OwnLogged'
    BY <1>0, <1>7, <2>3, LogGrows, LenProperties DEF OwnValues, OwnLogged, TypeOK
  <2>5. OwnHandled(t)'
    BY <2>1, AnswerGiven DEF OwnHandled
  <2>6. ASSUME NEW u \in Threads, u # t PROVE OwnHandled(u)'
    <3>1. pc'[u] = pc[u] /\ status'[u] = status[u] /\ body'[u] = body[u]
      BY <2>1, <2>6, AnswerGiven
    <3> QED BY <1>0, <2>1, <3>1, OwnHandledSame DEF OwnValues
  <2> QED BY <2>2, <2>4, <2>5, <2>6 DEF OwnValues
<1>8. CASE Reply(t)
  <2>1. /\ UNCHANGED <<store, log, table>>
        /\ pc' = [pc EXCEPT ![t] = "idle"]
        /\ req' = [req EXCEPT ![t] = NoKey]
        /\ row' = [row EXCEPT ![t] = NoValue]
        /\ status' = [status EXCEPT ![t] = 200]
        /\ body' = [body EXCEPT ![t] = NoValue]
    BY <1>8 DEF Reply, cacheVars, logVars
  <2>2. OwnHandled(t)'
    BY <2>1 DEF OwnHandled, TypeOK
  <2>3. ASSUME NEW u \in Threads, u # t PROVE OwnHandled(u)'
    <3>1. /\ pc'[u] = pc[u] /\ req'[u] = req[u] /\ row'[u] = row[u]
          /\ status'[u] = status[u] /\ body'[u] = body[u]
      BY <2>1, <2>3 DEF TypeOK, RequestsFit
    <3> QED BY <1>0, <3>1, OwnHandledSame DEF OwnValues
  <2> QED BY <1>0, <2>1, <2>2, <2>3 DEF OwnValues, OwnStored, OwnLogged
<1> QED BY <1>1, <1>2, <1>3, <1>4, <1>5, <1>6, <1>7, <1>8 DEF HandlerStep

LEMMA WriterOwn ==
    ASSUME TypeInv, OwnValues, WriterStep
    PROVE  OwnValues'
<1>1. UNCHANGED <<store, log, pc, req, row, status, body, known>>
  BY WriterApplies DEF WriterStep, WriterPop, WriterAcquire, WriterQuery, WriterRelease,
         cacheVars, logVars, handlerVars, historyVars
<1>2. OwnStored'
  <2>1. CASE WriterQuery
    <3> DEFINE task == log[applied + 1]
    <3>1. /\ table' \in {table, Effect(task, table)} /\ task \in AsyncTask
          /\ applied + 1 \in 1 .. Len(log)
      BY <2>1, WriterApplies, LenProperties DEF TypeInv, TypeOK
    <3>2. task.value # NoValue => task.value \in known[task.key]
      BY <3>1 DEF OwnValues, OwnLogged
    <3> HIDE DEF task
    <3>3. \A k \in Keys : table'[k] = table[k] \/ (k = task.key /\ table'[k] = task.value)
      BY <3>1 DEF Effect, TypeInv, TypeOK, Tables
    <3> QED BY <1>1, <3>2, <3>3 DEF OwnValues, OwnStored
  <2>2. CASE ~WriterQuery
    <3>1. table' = table
      BY <2>2 DEF WriterStep, WriterPop, WriterAcquire, WriterRelease, logVars
    <3> QED BY <1>1, <3>1 DEF OwnValues, OwnStored
  <2> QED BY <2>1, <2>2
<1>3. OwnLogged' /\ \A u \in Threads : OwnHandled(u)'
  BY <1>1 DEF OwnValues, OwnLogged, OwnHandled, Key
<1> QED BY <1>2, <1>3 DEF OwnValues

LEMMA OwnStep ==
    ASSUME TypeInv, OwnValues, [Next]_vars
    PROVE  OwnValues'
<1>1. CASE UNCHANGED vars
  BY <1>1 DEF OwnValues, OwnStored, OwnLogged, OwnHandled, Key, vars, cacheVars,
              logVars, handlerVars, historyVars
<1> QED BY <1>1, ReceiveOwn, HandlerOwn, WriterOwn DEF Next

-----------------------------------------------------------------------------
(* Latest changes with the log and the table only.  A write that is        *)
(* accepted becomes the latest; one that is executed stays it, unless its  *)
(* statement fails.                                                        *)
LEMMA LatestSame ==
    ASSUME TypeInv, TypeInv', UNCHANGED <<log, applied, table>>, NEW k \in Keys
    PROVE  Latest(k)' = Latest(k)
<1>1. LatestIs(k, Latest(k))
  BY LatestValue
<1>2. \A v : LatestIs(k, v)' <=> LatestIs(k, v)
  BY PendingSame DEF LatestIs
<1> QED BY <1>1, <1>2, LatestValueNext

LEMMA LatestLogged ==
    ASSUME TypeInv, TypeInv', NEW t \in Threads, WriteLogged(t), NEW k \in Keys
    PROVE  Latest(k)' = IF k = Key(t) THEN req[t].value ELSE Latest(k)
<1>1. LatestIs(k, Latest(k))
  BY LatestValue
<1>2. CASE k = Key(t)
  <2> SUFFICES ASSUME NEW v, v = req[t].value PROVE LatestIs(k, v)'
    BY <1>2, LatestValueNext
  <2>1. /\ Pending(k)' = Pending(k) \cup {Len(log) + 1}
        /\ \A j \in Pending(k)' : j <= Len(log) + 1
    BY <1>2, PendingGrows, LogGrows DEF Newest
  <2>2. TaskOf(t).value = v
    BY DEF TaskOf
  <2>3. log'[Len(log) + 1].value = v
    BY <2>2, LogGrows
  <2> QED BY <2>1, <2>3 DEF LatestIs
<1>3. CASE k # Key(t)
  <2> SUFFICES ASSUME NEW v, v = Latest(k) PROVE LatestIs(k, v)'
    BY <1>3, LatestValueNext
  <2>1. Pending(k)' = Pending(k) /\ table' = table
    BY <1>3, PendingGrows, LogGrows
  <2>2. \A i \in Pending(k) : log'[i] = log[i]
    BY LogGrows, LenProperties DEF Pending, TypeInv, TypeOK
  <2> QED BY <1>1, <2>1, <2>2 DEF LatestIs
<1> QED BY <1>2, <1>3

LEMMA LatestApplied ==
    ASSUME TypeInv, TypeInv', WriterQuery, NEW k \in Keys \ failed'
    PROVE  Latest(k)' = Latest(k)
<1> DEFINE task == log[applied + 1]
<1>1. LatestIs(k, Latest(k))
  BY LatestValue
<1> SUFFICES ASSUME NEW v, v = Latest(k) PROVE LatestIs(k, v)'
  BY LatestValueNext
<1>2. /\ log' = log /\ applied' = applied + 1 /\ applied \in Nat
      /\ applied' \in 0 .. Len(log) /\ Len(log) \in Nat
      /\ task \in AsyncTask
      /\ Pending(k)' = Pending(k) \ {applied + 1}
  BY WriterApplies, PendingShrinks, LenProperties DEF TypeInv, TypeOK
<1>3. CASE k # task.key
  <2>1. Pending(k)' = Pending(k) /\ table'[k] = table[k]
    BY <1>3, PendingShrinks
  <2> QED BY <1>1, <1>2, <2>1 DEF LatestIs
<1>4. CASE k = task.key
  <2>1. table' = Effect(task, table)
    BY <1>4 DEF WriterQuery
  <2>2. table'[k] = task.value
    BY <1>2, <1>4, <2>1 DEF Effect, TypeInv, TypeOK, Tables
  <2>3. applied + 1 \in Pending(k) /\ \A j \in Pending(k) : j >= applied + 1 /\ j \in Int
    BY <1>2, <1>4 DEF Pending
  <2>4. PICK i \in Pending(k) : (\A j \in Pending(k) : j <= i) /\ v = log[i].value
    BY <1>1, <2>3 DEF LatestIs
  <2>5. CASE i = applied + 1
    <3>1. \A j \in Pending(k) : j = applied + 1
      BY ONLY <1>2, <2>3, <2>4, <2>5
    <3>2. Pending(k)' = {}
      BY ONLY <1>2, <3>1
    <3> QED BY <2>2, <2>4, <2>5, <3>2 DEF LatestIs
  <2>6. CASE i # applied + 1
    <3>1. i \in Pending(k)' /\ \A j \in Pending(k)' : j <= i
      BY <1>2, <2>4, <2>6
    <3> QED BY <1>2, <2>4, <3>1 DEF LatestIs
  <2> QED BY <2>5, <2>6
<1> QED BY <1>3, <1>4

-----------------------------------------------------------------------------
LEMMA CoherentInit == Init => Apart /\ Agree /\ Expected
<1> SUFFICES ASSUME Init PROVE Apart /\ Agree /\ Expected
  OBVIOUS
<1> USE DEF Init
<1>1. \A k \in Keys : HalfWritten(k) = {} /\ Fillers(k) = {} /\ store[k] = NoValue
  BY DEF HalfWritten, Fillers, Cache!CacheInit
<1>2. Apart /\ Agree
  BY <1>1 DEF Apart, ApartAt, Agree, AgreeAt
<1>3. Expected
  BY DEF Expected, ExpectedAt
<1> QED BY <1>2, <1>3

(* A step that changes neither the log nor the cache, and no handler's     *)
(* place among those that write or fill.                                   *)
LEMMA CoherentSame ==
    ASSUME TypeInv, TypeInv', Apart, Agree,
           UNCHANGED <<store, log, applied, table>>,
           raced \subseteq raced', failed \subseteq failed',
           \A k \in Keys :
              /\ HalfWritten(k)' = HalfWritten(k)
              /\ Fillers(k)' \subseteq Fillers(k)
              /\ \A u \in HalfWritten(k) : req'[u] = req[u]
              /\ \A u \in Fillers(k) : row'[u] = row[u]
    PROVE  Apart' /\ Agree'
<1>1. ASSUME NEW k \in Keys \ raced' PROVE ApartAt(k)'
  <2>1. ApartAt(k) /\ Pending(k)' = Pending(k)
    BY <1>1, PendingSame DEF Apart
  <2>2. \A u \in Fillers(k)' : u \in Fillers(k) /\ row'[u] = row[u]
    BY <1>1
  <2> QED BY <1>1, <2>1, <2>2 DEF ApartAt
<1>2. ASSUME NEW k \in Keys \ (raced' \cup failed') PROVE AgreeAt(k)'
  BY <1>2, LatestSame DEF Agree, AgreeAt
<1> QED BY <1>1, <1>2 DEF Apart, Agree

LEMMA ReceiveCoherent ==
    ASSUME TypeInv, TypeInv', Apart, Agree, NEW t \in Threads, Receive(t)
    PROVE  Apart' /\ Agree'
<1>1. /\ UNCHANGED <<store, log, applied, table, raced, failed>>
      /\ pc[t] = "idle" /\ pc'[t] \in {"begin", "reply"}
      /\ \A u \in Threads \ {t} :
            /\ pc'[u] = pc[u] /\ req'[u] = req[u]
            /\ row'[u] = row[u] /\ status'[u] = status[u]
  BY DEF Receive, Answer, cacheVars, logVars, TypeInv, TypeOK, RequestsFit
<1>2. ASSUME NEW k \in Keys
      PROVE  /\ HalfWritten(k)' = HalfWritten(k) /\ Fillers(k)' = Fillers(k)
             /\ \A u \in HalfWritten(k) : req'[u] = req[u]
             /\ \A u \in Fillers(k) : row'[u] = row[u]
  BY <1>1 DEF HalfWritten, Fillers, Key
<1> QED BY <1>1, <1>2, CoherentSame

LEMMA HandlerCoherent ==
    ASSUME TypeInv, TypeInv', OwnValues, Apart, Agree, NEW t \in Threads, HandlerStep(t)
    PROVE  Apart' /\ Agree'
<1> USE DEF TypeInv
<1>1. CASE GetCached(t) \/ GetAcquire(t) \/ Reply(t)
  <2>1. /\ UNCHANGED <<store, log, applied, table, raced, failed>>
        /\ pc[t] \in {"begin", "acquire", "reply"}
        /\ pc'[t] \in {"reply", "acquire", "query", "idle"}
        /\ \A u \in Threads \ {t} :
              /\ pc'[u] = pc[u] /\ req'[u] = req[u]
              /\ row'[u] = row[u] /\ status'[u] = status[u]
    BY <1>1 DEF GetCached, GetAcquire, Reply, Cache!Get, Answer, cacheVars, logVars,
                historyVars, TypeOK, RequestsFit
  <2>2. ASSUME NEW k \in Keys
        PROVE  /\ HalfWritten(k)' = HalfWritten(k) /\ Fillers(k)' = Fillers(k)
               /\ \A u \in HalfWritten(k) : req'[u] = req[u]
               /\ \A u \in Fillers(k) : row'[u] = row[u]
    BY <2>1 DEF HalfWritten, Fillers, Key
  <2> QED BY <2>1, <2>2, CoherentSame
<1>2. CASE GetQuery(t)
  <2> DEFINE k == Key(t)
  <2>1. /\ UNCHANGED <<store, log, applied, table, req>>
        /\ pc[t] = "query" /\ pc' = [pc EXCEPT ![t] = "release"]
        /\ raced \subseteq raced' /\ failed \subseteq failed'
        /\ \A u \in Threads \ {t} : row'[u] = row[u] /\ status'[u] = status[u]
        /\ status'[t] = 200 =>
              /\ row'[t] = table[k]
              /\ k \notin raced' => Pending(k) = {} /\ HalfWritten(k) = {}
    BY <1>2 DEF GetQuery, cacheVars, logVars, TypeOK
  <2>2. ASSUME NEW j \in Keys
        PROVE  /\ HalfWritten(j)' = HalfWritten(j)
               /\ \A u \in Fillers(j)' :
                     (u \in Fillers(j) /\ u # t) \/ (u = t /\ status'[t] = 200 /\ j = k)
    BY <2>1 DEF HalfWritten, Fillers, Key, TypeOK
  <2>3. ASSUME NEW j \in Keys \ raced' PROVE ApartAt(j)'
    <3>1. Pending(j)' = Pending(j)
      BY <2>1, PendingSame
    <3>2. ApartAt(j)
      BY <2>1, <2>3 DEF Apart
    <3>3. ASSUME NEW u \in Fillers(j)'
          PROVE  HalfWritten(j)' = {} /\ Pending(j)' = {} /\ row'[u] = table'[j]
      <4>1. CASE u = t
        <5>1. j = k /\ status'[t] = 200
          BY <2>2, <3>3, <4>1 DEF Fillers
        <5>2. row'[t] = table[j] /\ Pending(j) = {} /\ HalfWritten(j) = {}
          BY ONLY <2>1, <2>3, <5>1
        <5> QED BY <2>1, <2>2, <3>1, <4>1, <5>2
      <4>2. CASE u # t
        <5>1. u \in Fillers(j) /\ u \in Threads \ {t}
          BY <2>2, <3>3, <4>2 DEF Fillers
        <5> QED BY <2>1, <2>2, <3>1, <3>2, <5>1 DEF ApartAt
      <4> QED BY <4>1, <4>2
    <3> QED BY <2>2, <3>2, <3>3 DEF ApartAt
  <2>4. ASSUME NEW j \in Keys \ (raced' \cup failed') PROVE AgreeAt(j)'
    BY <2>1, <2>2, <2>4, LatestSame DEF Agree, AgreeAt
  <2> QED BY <2>3, <2>4 DEF Apart, Agree
<1>3. CASE GetRelease(t)
  <2>1. /\ UNCHANGED <<store, log, applied, table, raced, failed, req, row>>
        /\ pc[t] = "release"
        /\ \/ /\ status[t] = 200 /\ pc' = [pc EXCEPT ![t] = "fill"]
              /\ UNCHANGED status
           \/ Answer(t, status[t], NoValue)
    BY <1>3 DEF GetRelease, cacheVars, logVars, historyVars
  <2>2. ASSUME NEW k \in Keys
        PROVE  HalfWritten(k)' = HalfWritten(k) /\ Fillers(k)' \subseteq Fillers(k)
    BY <2>1 DEF HalfWritten, Fillers, Key, Answer, TypeOK
  <2> QED BY <2>1, <2>2, CoherentSame
<1>4. CASE GetFill(t)
  <2> DEFINE k == Key(t)
  <2>1. /\ UNCHANGED <<log, applied, table, raced, failed, req, row>>
        /\ pc[t] = "fill" /\ Answer(t, 200, row[t]) /\ Cache!Put(k, row[t])
    BY <1>4 DEF GetFill, logVars, historyVars
  <2>2. k \in Keys /\ row[t] \in Values /\ t \in Fillers(k)
    BY ZenonT(40), <2>1 DEF OwnValues, OwnHandled, RequestsFit, TypeOK, Fillers
  <2>3. store'[k] = row[t] /\ \A j \in Keys \ {k} : store'[j] \in {store[j], NoValue}
    BY <2>1, <2>2, PutStores
  <2>4. ASSUME NEW j \in Keys
        PROVE  HalfWritten(j)' = HalfWritten(j) /\ Fillers(j)' \subseteq Fillers(j)
    BY <2>1 DEF HalfWritten, Fillers, Key, Answer, TypeOK
  <2>5. ASSUME NEW j \in Keys \ raced' PROVE ApartAt(j)'
    BY <2>1, <2>4, <2>5, PendingSame DEF Apart, ApartAt
  <2>6. ASSUME NEW j \in Keys \ (raced' \cup failed') PROVE AgreeAt(j)'
    <3>1. Latest(j)' = Latest(j)
      BY <2>1, LatestSame
    <3>2. CASE j = k
      <4>1. HalfWritten(k) = {} /\ Pending(k) = {} /\ row[t] = table[k]
        BY <2>1, <2>2, <2>6, <3>2 DEF Apart, ApartAt
      <4>2. Latest(k) = table[k]
        BY <4>1 DEF Latest
      <4> QED BY <2>3, <2>4, <3>1, <3>2, <4>1, <4>2 DEF AgreeAt
    <3>3. CASE j # k
      <4>1. store'[j] \in {store[j], NoValue} /\ AgreeAt(j)
        BY <2>1, <2>3, <2>6, <3>3 DEF Agree
      <4> QED BY <2>1, <2>4, <3>1, <4>1 DEF AgreeAt
    <3> QED BY <3>2, <3>3
  <2> QED BY <2>5, <2>6 DEF Apart, Agree
<1>5. CASE PostCache(t) \/ DeleteCache(t)
  <2> DEFINE k == Key(t)
  <2>1. /\ UNCHANGED <<log, applied, table, failed, req, row, status>>
        /\ pc[t] = "begin" /\ pc' = [pc EXCEPT ![t] = "log"]
        /\ raced' = raced \cup RaceOn(k)
        /\ req[t].op \in {"POST", "DELETE"}
    BY <1>5 DEF PostCache, DeleteCache, logVars
  <2>2. k \in Keys /\ req[t] \in Request
    BY <2>1 DEF RequestsFit, TypeOK
  <2>3. /\ store'[k] \in {NoValue, req[t].value}
        /\ \A j \in Keys \ {k} : store'[j] \in {store[j], NoValue}
    <3>1. CASE PostCache(t)
      <4>1. req[t].value \in Values /\ Cache!Put(k, req[t].value)
        BY <2>2, <3>1 DEF PostCache, Request
      <4> QED BY <2>2, <4>1, PutStores
    <3>2. CASE DeleteCache(t)
      BY <2>2, <3>2, DeleteRemoves DEF DeleteCache, TypeOK
    <3> QED BY <1>5, <3>1, <3>2
  <2>4. ASSUME NEW j \in Keys
        PROVE  /\ HalfWritten(j)' = HalfWritten(j) \cup (IF j = k THEN {t} ELSE {})
               /\ Fillers(j)' = Fillers(j)
    BY <2>1 DEF HalfWritten, Fillers, Key, TypeOK
  <2>5. k \notin raced' => HalfWritten(k) = {} /\ Fillers(k) = {}
    BY <2>1 DEF RaceOn
  <2>6. ASSUME NEW j \in Keys \ raced' PROVE ApartAt(j)'
    <3>1. CASE j = k
      BY <2>4, <2>5, <2>6, <3>1 DEF ApartAt
    <3>2. CASE j # k
      BY <2>1, <2>4, <2>6, <3>2, PendingSame DEF Apart, ApartAt
    <3> QED BY <3>1, <3>2
  <2>7. ASSUME NEW j \in Keys \ (raced' \cup failed') PROVE AgreeAt(j)'
    <3>1. CASE j = k
      <4>1. HalfWritten(j)' = {t}
        BY <2>4, <2>5, <2>7, <3>1
      <4> QED BY <2>1, <2>3, <3>1, <4>1 DEF AgreeAt
    <3>2. CASE j # k
      <4>1. HalfWritten(j)' = HalfWritten(j) /\ store'[j] \in {store[j], NoValue}
        BY <2>3, <2>4, <3>2
      <4> QED BY <2>1, <2>7, <4>1, LatestSame DEF Agree, AgreeAt
    <3> QED BY <3>1, <3>2
  <2> QED BY <2>6, <2>7 DEF Apart, Agree
<1>6. CASE WriteLogged(t)
  <2> DEFINE k == Key(t)
  <2>1. /\ UNCHANGED <<store, applied, table, req, row, raced, failed>>
        /\ pc[t] = "log" /\ Answer(t, 200, NoValue)
    BY <1>6, LogGrows DEF WriteLogged, cacheVars, historyVars
  <2>2. k \in Keys /\ t \in HalfWritten(k)
    BY <2>1 DEF RequestsFit, HalfWritten
  <2>3. ASSUME NEW j \in Keys
        PROVE  /\ HalfWritten(j)' = HalfWritten(j) \ {t}
               /\ Fillers(j)' = Fillers(j)
               /\ j # k => HalfWritten(j)' = HalfWritten(j) /\ Pending(j)' = Pending(j)
    <3>1. HalfWritten(j)' = HalfWritten(j) \ {t} /\ Fillers(j)' = Fillers(j)
      BY <2>1 DEF HalfWritten, Fillers, Key, Answer, TypeOK
    <3>2. j # k => t \notin HalfWritten(j) /\ Pending(j)' = Pending(j)
      BY <1>6, PendingGrows DEF HalfWritten
    <3> QED BY <3>1, <3>2
  <2>4. ASSUME NEW j \in Keys \ raced' PROVE ApartAt(j)'
    <3>1. CASE j = k
      <4>1. Fillers(k) = {} /\ HalfWritten(k) = {t}
        BY <2>1, <2>2, <2>4, <3>1 DEF Apart, ApartAt
      <4> QED BY <2>3, <3>1, <4>1 DEF ApartAt
    <3>2. CASE j # k
      BY <2>1, <2>3, <2>4, <3>2 DEF Apart, ApartAt
    <3> QED BY <3>1, <3>2
  <2>5. ASSUME NEW j \in Keys \ (raced' \cup failed') PROVE AgreeAt(j)'
    <3>1. CASE j = k
      <4>1. HalfWritten(k) = {t} /\ store[k] \in {NoValue, req[t].value}
        BY <2>1, <2>2, <2>5, <3>1 DEF Apart, ApartAt, Agree, AgreeAt
      <4>2. Latest(j)' = req[t].value
        BY <1>6, <3>1, LatestLogged
      <4> QED BY <2>1, <2>3, <3>1, <4>1, <4>2 DEF AgreeAt
    <3>2. CASE j # k
      <4>1. Latest(j)' = Latest(j)
        BY <1>6, <3>2, LatestLogged
      <4> QED BY <2>1, <2>3, <2>5, <3>2, <4>1 DEF Agree, AgreeAt
    <3> QED BY <3>1, <3>2
  <2> QED BY <2>4, <2>5 DEF Apart, Agree
<1> QED BY <1>1, <1>2, <1>3, <1>4, <1>5, <1>6 DEF HandlerStep

LEMMA WriterCoherent ==
    ASSUME TypeInv, TypeInv', Apart, Agree, WriterStep
    PROVE  Apart' /\ Agree'
<1>1. /\ UNCHANGED <<store, pc, req, row, status, raced>>
      /\ failed \subseteq failed'
  BY DEF WriterStep, WriterPop, WriterAcquire, WriterQuery, WriterRelease,
         cacheVars, handlerVars, historyVars
<1>2. \A k : HalfWritten(k)' = HalfWritten(k) /\ Fillers(k)' = Fillers(k)
  BY <1>1 DEF HalfWritten, Fillers, Key
<1>3. CASE WriterQuery
  <2>1. ASSUME NEW k \in Keys \ raced' PROVE ApartAt(k)'
    <3>1. ApartAt(k)
      BY <1>1, <2>1 DEF Apart
    <3>2. ASSUME Pending(k) = {} PROVE Pending(k)' = {} /\ table'[k] = table[k]
      <4>1. log[applied + 1].key # k
        BY <1>3, <3>2, WriterApplies, LenProperties DEF Pending, TypeInv, TypeOK
      <4> QED BY <1>3, <3>2, <4>1, PendingShrinks
    <3> QED BY <1>1, <1>2, <3>1, <3>2 DEF ApartAt
  <2>2. ASSUME NEW k \in Keys \ (raced' \cup failed') PROVE AgreeAt(k)'
    BY <1>1, <1>2, <1>3, <2>2, LatestApplied DEF Agree, AgreeAt
  <2> QED BY <2>1, <2>2 DEF Apart, Agree
<1>4. CASE ~WriterQuery
  <2>1. UNCHANGED <<log, applied, table>>
    BY <1>4 DEF WriterStep, WriterPop, WriterAcquire, WriterRelease, logVars
  <2> QED BY <1>1, <1>2, <2>1, CoherentSame
<1> QED BY <1>3, <1>4

-----------------------------------------------------------------------------
(* A handler that is left alone, while no write of its key begins, goes on *)
(* expecting what it did.                                                  *)
LEMMA ExpectedSame ==
    ASSUME Expected, NEW u \in Threads,
           raced \subseteq raced', failed \subseteq failed',
           expect'[u] = expect[u], pc'[u] = pc[u], req'[u] = req[u], row'[u] = row[u],
           status'[u] = status[u], body'[u] = body[u],
           expect[u] # Unknown =>
              /\ WritersOf(Key(u))' = {}
              /\ Key(u) \notin raced' \cup failed' => Latest(Key(u))' = Latest(Key(u))
    PROVE  ExpectedAt(u)'
<1> SUFFICES ASSUME expect[u] # Unknown PROVE ExpectedAt(u)'
  BY DEF ExpectedAt
<1>1. PICK k : k = Key(u)
  OBVIOUS
<1>2. Key(u)' = k
  BY <1>1 DEF Key
<1>3. /\ pc[u] # "idle" /\ req[u].op = "GET" /\ k \in Keys \ {NoKey}
      /\ WritersOf(k)' = {}
      /\ k \notin raced' \cup failed' => Found(u) /\ Latest(k)' = Latest(k)
  BY <1>1, <1>2 DEF Expected, ExpectedAt
<1>4. k \notin raced' \cup failed' => Found(u)'
  BY <1>1, <1>2, <1>3 DEF Found
<1> QED BY <1>2, <1>3, <1>4 DEF ExpectedAt

LEMMA ReceiveExpected ==
    ASSUME TypeInv, TypeInv', Expected, NEW t \in Threads, Receive(t)
    PROVE  Expected'
<1> USE DEF TypeInv
<1>1. PICK r \in Request :
         /\ req' = [req EXCEPT ![t] = r]
         /\ \/ r.key = NoKey /\ Answer(t, 400, NoValue) /\ UNCHANGED expect
            \/ /\ r.key # NoKey
               /\ pc' = [pc EXCEPT ![t] = "begin"]
               /\ UNCHANGED <<status, body>>
               /\ expect' =
                    IF r.op = "GET"
                    THEN [expect EXCEPT ![t] =
                            IF WritersOf(r.key) = {} THEN Latest(r.key) ELSE Unknown]
                    ELSE [u \in Threads |->
                            IF pc[u] # "idle" /\ Key(u) = r.key THEN Unknown
                            ELSE expect[u]]
  BY DEF Receive
<1>2. /\ row' = [row EXCEPT ![t] = NoValue] /\ pc[t] = "idle"
      /\ UNCHANGED <<log, applied, table, raced, failed>>
  BY DEF Receive, logVars
<1>3. /\ expect[t] = Unknown
      /\ req'[t] = r /\ pc'[t] \in {"begin", "reply"}
      /\ \A u \in Threads \ {t} :
            /\ req'[u] = req[u] /\ row'[u] = row[u] /\ pc'[u] = pc[u]
            /\ status'[u] = status[u] /\ body'[u] = body[u]
  <2>1. expect[t] = Unknown
    BY <1>2 DEF Expected, ExpectedAt
  <2>2. req'[t] = r /\ \A u \in Threads \ {t} : req'[u] = req[u] /\ row'[u] = row[u]
    BY <1>1, <1>2 DEF TypeOK, RequestsFit
  <2>3. CASE Answer(t, 400, NoValue)
    BY <2>1, <2>2, <2>3, AnswerGiven
  <2>4. CASE ~Answer(t, 400, NoValue)
    BY <1>1, <2>1, <2>2, <2>4 DEF TypeOK
  <2> QED BY <2>3, <2>4
<1>4. \A k \in Keys : Latest(k)' = Latest(k)
  BY <1>2, LatestSame
<1>5. \A k : (r.op = "GET" \/ r.key # k) => WritersOf(k)' = WritersOf(k)
  BY <1>2, <1>3 DEF WritersOf, Key
<1>6. ExpectedAt(t)'
  <2>1. CASE expect'[t] = Unknown
    BY <2>1 DEF ExpectedAt
  <2>2. CASE expect'[t] # Unknown
    <3>1. /\ r.key \in Keys \ {NoKey} /\ r.op = "GET" /\ pc'[t] = "begin"
          /\ WritersOf(r.key) = {} /\ expect'[t] = Latest(r.key)
      BY <1>1, <1>2, <1>3, <2>2 DEF Request, TypeOK
    <3>2. Key(t)' = r.key /\ req'[t].op = "GET"
      BY <1>3, <3>1 DEF Key
    <3>3. WritersOf(Key(t))' = {} /\ expect'[t] = Latest(Key(t))'
      <4> SUFFICES ASSUME NEW k, k = r.key
                   PROVE  WritersOf(k)' = {} /\ expect'[t] = Latest(k)'
        BY <3>2
      <4> QED BY <1>4, <1>5, <3>1
    <3> QED BY <3>1, <3>2, <3>3 DEF ExpectedAt, Found
  <2> QED BY <2>1, <2>2
<1>7. ASSUME NEW u \in Threads \ {t} PROVE ExpectedAt(u)'
  <2>1. CASE expect'[u] = Unknown
    BY <2>1 DEF ExpectedAt
  <2>2. CASE expect'[u] # Unknown
    <3>1. expect'[u] = expect[u]
      BY <1>1, <2>2
    <3>2. /\ pc[u] # "idle" /\ Key(u) \in Keys \ {NoKey} /\ WritersOf(Key(u)) = {}
      BY <2>2, <3>1 DEF Expected, ExpectedAt
    <3>3. r.op = "GET" \/ r.key # Key(u)
      BY <1>1, <2>2, <3>2
    <3>4. PICK k : k = Key(u)
      OBVIOUS
    <3>5. k = Key(u)'
      BY <1>3, <3>4 DEF Key
    <3>6. WritersOf(k)' = {} /\ Latest(k)' = Latest(k)
      BY <1>4, <1>5, <3>2, <3>3, <3>4
    <3> QED BY <1>2, <1>3, <3>1, <3>4, <3>5, <3>6, ExpectedSame
  <2> QED BY <2>1, <2>2
<1> QED BY <1>6, <1>7 DEF Expected

(* What a handler's step leaves to the others. *)
LEMMA HandlerFrame ==
    ASSUME TypeInv, TypeInv', NEW t \in Threads, HandlerStep(t)
    PROVE  /\ raced \subseteq raced' /\ failed \subseteq failed'
           /\ pc[t] # "idle"
           /\ \A u \in Threads \ {t} :
                 /\ req'[u] = req[u] /\ row'[u] = row[u] /\ pc'[u] = pc[u]
                 /\ status'[u] = status[u] /\ body'[u] = body[u]
                 /\ expect'[u] = expect[u]
           /\ ~Reply(t) => req' = req /\ expect' = expect
           /\ \A k : WritersOf(k)' \subseteq WritersOf(k)
           /\ \A k \in Keys : WritersOf(k) = {} => Latest(k)' = Latest(k)
<1> USE DEF TypeInv
<1>1. /\ raced \subseteq raced' /\ failed \subseteq failed' /\ pc[t] # "idle"
      /\ ~Reply(t) => req' = req /\ expect' = expect
  BY DEF HandlerStep, GetCached, GetAcquire, GetQuery, GetRelease, GetFill, PostCache,
         DeleteCache, WriteLogged, Reply, historyVars
<1>2. \A u \in Threads \ {t} :
         /\ req'[u] = req[u] /\ row'[u] = row[u] /\ pc'[u] = pc[u]
         /\ status'[u] = status[u] /\ body'[u] = body[u]
         /\ expect'[u] = expect[u]
  <2> SUFFICES ASSUME NEW u \in Threads \ {t}
               PROVE  /\ req'[u] = req[u] /\ row'[u] = row[u] /\ pc'[u] = pc[u]
                      /\ status'[u] = status[u] /\ body'[u] = body[u]
                      /\ expect'[u] = expect[u]
    OBVIOUS
  <2>1. \A s, v : Answer(t, s, v) =>
           pc'[u] = pc[u] /\ status'[u] = status[u] /\ body'[u] = body[u]
    BY AnswerGiven
  <2>2. CASE GetCached(t) \/ GetAcquire(t) \/ GetRelease(t)
    BY <2>1, <2>2 DEF GetCached, GetAcquire, GetRelease, historyVars, TypeOK
  <2>3. CASE GetQuery(t)
    BY <2>3 DEF GetQuery, TypeOK
  <2>4. CASE GetFill(t) \/ WriteLogged(t)
    BY <2>1, <2>4 DEF GetFill, WriteLogged, historyVars
  <2>5. CASE PostCache(t) \/ DeleteCache(t) \/ Reply(t)
    BY <2>5 DEF PostCache, DeleteCache, Reply, TypeOK, RequestsFit
  <2> QED BY <2>2, <2>3, <2>4, <2>5 DEF HandlerStep
<1>3. \A k : WritersOf(k)' \subseteq WritersOf(k)
  <2>1. CASE Reply(t)
    <3>1. pc'[t] = "idle"
      BY <2>1 DEF Reply, TypeOK
    <3> QED BY <1>2, <3>1 DEF WritersOf, Key
  <2>2. CASE ~Reply(t)
    BY <1>1, <1>2, <2>2 DEF WritersOf, Key
  <2> QED BY <2>1, <2>2
<1>4. ASSUME NEW k \in Keys, WritersOf(k) = {} PROVE Latest(k)' = Latest(k)
  <2>1. CASE WriteLogged(t)
    <3>1. t \in WritersOf(Key(t))
      BY <2>1 DEF WriteLogged, WritersOf, RequestsFit
    <3> QED BY <1>4, <2>1, <3>1, LatestLogged
  <2>2. CASE ~WriteLogged(t)
    <3>1. UNCHANGED <<log, applied, table>>
      BY <2>2 DEF HandlerStep, GetCached, GetAcquire, GetQuery, GetRelease, GetFill,
                  PostCache, DeleteCache, Reply, logVars
    <3> QED BY <3>1, LatestSame
  <2> QED BY <2>1, <2>2
<1> QED BY <1>1, <1>2, <1>3, <1>4

LEMMA HandlerExpected ==
    ASSUME TypeInv, TypeInv', OwnValues, Apart, Agree, Expected,
           NEW t \in Threads, HandlerStep(t)
    PROVE  Expected'
<1> USE DEF TypeInv
<1>1. ASSUME NEW u \in Threads \ {t} PROVE ExpectedAt(u)'
  <2>1. CASE expect'[u] = Unknown
    BY <2>1 DEF ExpectedAt
  <2>2. CASE expect'[u] # Unknown
    <3>1. PICK k : k = Key(u)
      OBVIOUS
    <3>2. k = Key(u)' /\ expect[u] # Unknown
      BY <2>2, <3>1, HandlerFrame DEF Key
    <3>3. k \in Keys /\ WritersOf(k) = {}
      BY <3>1, <3>2 DEF Expected, ExpectedAt
    <3>4. WritersOf(k)' = {} /\ Latest(k)' = Latest(k)
      BY <3>3, HandlerFrame
    <3> QED BY <3>1, <3>2, <3>4, HandlerFrame, ExpectedSame
  <2> QED BY <2>1, <2>2
<1>2. ExpectedAt(t)'
  <2>1. CASE Reply(t)
    BY <2>1 DEF Reply, ExpectedAt
  <2>2. CASE expect[t] = Unknown /\ ~Reply(t)
    BY <2>2, HandlerFrame DEF ExpectedAt
  <2>3. CASE expect[t] # Unknown /\ ~Reply(t)
    <3>1. PICK k : k = Key(t)
      OBVIOUS
    <3>2. /\ k = Key(t)' /\ req'[t] = req[t] /\ expect'[t] = expect[t]
      BY <2>3, <3>1, HandlerFrame DEF Key
    <3>3. /\ pc[t] # "idle" /\ req[t].op = "GET" /\ k \in Keys \ {NoKey}
          /\ WritersOf(k) = {} /\ (k \notin raced \cup failed => Found(t))
      BY <2>3, <3>1 DEF Expected, ExpectedAt
    <3>4. WritersOf(k)' = {} /\ Latest(k)' = Latest(k) /\ HalfWritten(k) = {}
      <4>1. HalfWritten(k) \subseteq WritersOf(k)
        BY DEF HalfWritten, WritersOf, RequestsFit
      <4> QED BY <3>3, <4>1, HandlerFrame
    <3>5. pc'[t] # "idle"
      BY <2>3 DEF HandlerStep, GetCached, GetAcquire, GetQuery, GetRelease, GetFill,
                  PostCache, DeleteCache, WriteLogged, Answer, TypeOK
    <3> SUFFICES ASSUME k \notin raced' \cup failed' PROVE Found(t)'
      BY <3>2, <3>3, <3>4, <3>5 DEF ExpectedAt
    <3>6. k \notin raced \cup failed /\ Found(t)
      BY <3>3, HandlerFrame
    <3>7. expect[t] = Latest(k) /\ store[k] \in {NoValue, Latest(k)}
      BY <3>1, <3>3, <3>4, <3>6 DEF Found, Agree, AgreeAt
    <3>8. expect'[t] = Latest(k)' /\ Key(t)' = k
      BY <3>2, <3>4, <3>7
    <3>9. CASE GetCached(t)
      <4>1. CASE store[k] # NoValue
        <5>1. Answer(t, 200, store[k])
          BY <3>1, <3>9, <4>1 DEF GetCached
        <5>2. pc'[t] = "reply" /\ status'[t] = 200 /\ body'[t] = store[k]
          BY <5>1, AnswerGiven
        <5> QED BY <3>2, <3>7, <3>8, <4>1, <5>2 DEF Found
      <4>2. CASE store[k] = NoValue
        <5>1. pc'[t] = "acquire"
          BY <3>1, <3>9, <4>2 DEF GetCached, TypeOK
        <5> QED BY <3>8, <5>1 DEF Found
      <4> QED BY <4>1, <4>2
    <3>10. CASE GetAcquire(t)
      <4>1. pc'[t] = "query"
        BY <3>10 DEF GetAcquire, TypeOK
      <4> QED BY <3>8, <4>1 DEF Found
    <3>11. CASE GetQuery(t)
      <4>1. /\ pc'[t] = "release" /\ Pending(k) = {}
            /\ row' = [row EXCEPT ![t] = table[k]]
            /\ status' = [status EXCEPT ![t] = IF table[k] = NoValue THEN 404 ELSE 200]
        BY <3>1, <3>11 DEF GetQuery, TypeOK
      <4>2. Latest(k) = table[k]
        BY <4>1 DEF Latest
      <4>3. /\ row'[t] = table[k]
            /\ status'[t] = IF table[k] = NoValue THEN 404 ELSE 200
        BY <4>1 DEF TypeOK
      <4> QED BY <3>2, <3>7, <3>8, <4>1, <4>2, <4>3 DEF Found
    <3>12. CASE GetRelease(t)
      <4>1. /\ pc[t] = "release" /\ UNCHANGED row
            /\ \/ status[t] = 200 /\ pc' = [pc EXCEPT ![t] = "fill"]
               \/ status[t] # 200 /\ Answer(t, status[t], NoValue)
        BY <3>12 DEF GetRelease
      <4>2. /\ status[t] = IF expect[t] = NoValue THEN 404 ELSE 200
            /\ status[t] = 200 => row[t] = expect[t]
        BY <3>6, <4>1 DEF Found
      <4>3. CASE status[t] = 200
        <5>1. pc'[t] = "fill" /\ expect[t] # NoValue /\ row[t] = expect[t]
          BY <4>1, <4>2, <4>3 DEF TypeOK
        <5> QED BY <3>2, <3>8, <4>1, <5>1 DEF Found
      <4>4. CASE status[t] # 200
        <5>1. pc'[t] = "reply" /\ status'[t] = status[t] /\ body'[t] = NoValue
          BY <4>1, <4>4, AnswerGiven
        <5>2. expect[t] = NoValue
          BY <4>2, <4>4
        <5> QED BY ZenonT(40), <3>2, <3>8, <4>2, <5>1, <5>2 DEF Found
      <4> QED BY <4>3, <4>4
    <3>13. CASE GetFill(t)
      <4>1. pc[t] = "fill" /\ Answer(t, 200, row[t])
        BY <3>13 DEF GetFill
      <4>2. expect[t] # NoValue /\ row[t] = expect[t]
        BY <3>6, <4>1 DEF Found
      <4>3. pc'[t] = "reply" /\ status'[t] = 200 /\ body'[t] = row[t]
        BY <4>1, AnswerGiven
      <4> QED BY <3>2, <3>8, <4>2, <4>3 DEF Found
    <3>14. ~PostCache(t) /\ ~DeleteCache(t) /\ ~WriteLogged(t)
      BY <3>3 DEF PostCache, DeleteCache, WriteLogged, RequestsFit
    <3> QED BY <2>3, <3>9, <3>10, <3>11, <3>12, <3>13, <3>14 DEF HandlerStep
  <2> QED BY <2>1, <2>2, <2>3
<1> QED BY <1>1, <1>2 DEF Expected

LEMMA WriterExpected ==
    ASSUME TypeInv, TypeInv', Expected, WriterStep
    PROVE  Expected'
<1>1. /\ UNCHANGED <<pc, req, row, status, body, raced, expect>>
      /\ failed \subseteq failed'
  BY DEF WriterStep, WriterPop, WriterAcquire, WriterQuery, WriterRelease,
         handlerVars, historyVars
<1>2. \A k : WritersOf(k)' = WritersOf(k)
  BY <1>1 DEF WritersOf, Key
<1>3. \A k \in Keys \ failed' : Latest(k)' = Latest(k)
  <2>1. CASE WriterQuery
    BY <2>1, LatestApplied
  <2>2. CASE ~WriterQuery
    <3>1. UNCHANGED <<log, applied, table>>
      BY <2>2 DEF WriterStep, WriterPop, WriterAcquire, WriterRelease, logVars
    <3> QED BY <3>1, LatestSame
  <2> QED BY <2>1, <2>2
<1>4. ASSUME NEW u \in Threads PROVE ExpectedAt(u)'
  <2>1. PICK k : k = Key(u)
    OBVIOUS
  <2>2. k = Key(u)'
    BY <1>1, <2>1 DEF Key
  <2>3. expect[u] # Unknown => k \in Keys /\ WritersOf(k) = {}
    BY <2>1 DEF Expected, ExpectedAt
  <2> QED BY <1>1, <1>2, <1>3, <2>1, <2>2, <2>3, ExpectedSame
<1> QED BY <1>4 DEF Expected

-----------------------------------------------------------------------------
LEMMA ServerStep ==
    ASSUME ServerInv, [Next]_vars
    PROVE  ServerInv'
<1> USE DEF ServerInv
<1>1. TypeInv' /\ OwnValues'
  BY TypeStep, OwnStep
<1>2. ASSUME NEW t \in Threads, Receive(t) PROVE ServerInv'
  BY <1>1, <1>2, ReceiveCoherent, ReceiveExpected
<1>3. ASSUME NEW t \in Threads, HandlerStep(t) PROVE ServerInv'
  BY <1>1, <1>3, HandlerCoherent, HandlerExpected
<1>4. CASE WriterStep
  BY <1>1, <1>4, WriterCoherent, WriterExpected
<1>5. CASE UNCHANGED vars
  <2>1. UNCHANGED <<store, log, applied, table, pc, req, row, status, body, expect,
                    raced, failed>>
    BY <1>5 DEF vars, cacheVars, logVars, handlerVars, historyVars
  <2>2. \A k : /\ HalfWritten(k)' = HalfWritten(k) /\ Fillers(k)' = Fillers(k)
               /\ WritersOf(k)' = WritersOf(k)
    BY <2>1 DEF HalfWritten, Fillers, WritersOf, Key
  <2>3. Apart' /\ Agree'
    BY <1>1, <2>1, <2>2, CoherentSame
  <2>4. \A k \in Keys : Latest(k)' = Latest(k)
    BY <1>1, <2>1, LatestSame
  <2>5. ASSUME NEW u \in Threads PROVE ExpectedAt(u)'
    <3>1. PICK k : k = Key(u)
      OBVIOUS
    <3>2. k = Key(u)'
      BY <2>1, <3>1 DEF Key
    <3>3. expect[u] # Unknown => k \in Keys /\ WritersOf(k) = {}
      BY <3>1 DEF Expected, ExpectedAt
    <3> QED BY <2>1, <2>2, <2>4, <3>1, <3>2, <3>3, ExpectedSame
  <2> QED BY <1>1, <2>3, <2>5 DEF Expected
<1> QED BY <1>2, <1>3, <1>4, <1>5 DEF Next

LEMMA ServerInvariant == Spec => []ServerInv
<1>1. Init => ServerInv
  BY TypeInit, OwnInit, CoherentInit DEF ServerInv
<1>2. ServerInv /\ [Next]_vars => ServerInv'
  BY ServerStep
<1> QED BY <1>1, <1>2, PTL DEF Spec

-----------------------------------------------------------------------------
(* Whatever the handlers and the writer do, every part of the state keeps  *)
(* its type: what reaches the log is a write with a key, connections come  *)
(* back as connections, an answer has a status the handlers give.          *)
THEOREM ServerTypes == Spec => []TypeOK
<1>1. ServerInv => TypeOK
  BY DEF ServerInv, TypeInv
<1> QED BY <1>1, ServerInvariant, PTL

(* The cache, the table and the answers never show for a key a value that  *)
(* was not stored under that key, however handlers and writer interleave.  *)
THEOREM ServerNoThinAir == Spec => []NoThinAir
<1>1. ServerInv => NoThinAir
  BY DEF ServerInv, OwnValues, OwnStored, OwnHandled, NoThinAir
<1> QED BY <1>1, ServerInvariant, PTL

(* As long as the operations on a key have neither raced nor failed, what  *)
(* the cache has for it is what the table will say when the accepted       *)
(* writes are through, or the write whose handler has put it in the cache  *)
(* and not yet passed it to the writer.                                    *)
THEOREM ServerCoherent == Spec => []Coherent
<1>1. ServerInv => Coherent
  BY DEF ServerInv, Agree, AgreeAt, Coherent
<1> QED BY <1>1, ServerInvariant, PTL

(* On such a key a GET that overlaps no write of it answers with what the  *)
(* last write left, from the cache or from the table.                      *)
THEOREM ServerReadsLatest == Spec => []ReadsLatest
<1>1. ServerInv => ReadsLatest
  BY DEF ServerInv, Expected, ExpectedAt, Found, ReadsLatest
<1> QED BY <1>1, ServerInvariant, PTL
=============================================================================
