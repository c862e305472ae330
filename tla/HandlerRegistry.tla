-------------------------- MODULE HandlerRegistry --------------------------
(***************************************************************************)
(* The handler list of the HTTP front end and the requests that use it     *)
(* (src/Server/civetweb/civetweb.c): mg_set_handler_type adds, updates and *)
(* removes entries, get_request_handler finds the entry for a URI and      *)
(* counts its users, handle_request asks for authorization, calls the      *)
(* callback and gives the entry back; a callback that returns 0 sends the  *)
(* request back to the handling of files.  The callbacks are those of      *)
(* CivetServer (CivetServer.cpp): dispatch by method to a CivetHandler.    *)
(*                                                                         *)
(* What runs under the context's lock is one action.  Entries are nodes:   *)
(* memory that is freed and used again, with pointers to it outside.       *)
(***************************************************************************)
EXTENDS Naturals, Sequences, FiniteSets

CONSTANTS
    Nodes, NoNode,
    Uris,           \* URIs, those with patterns included
    RequestUris,    \* those of requests
    Inside, Matching, \* see HandlerTable
    Callbacks, NoCallback,
    Serves,         \* Serves[cb]: the methods whose handleX does not return false
    Methods, PutDelete, \* all methods; those is_put_or_delete_method knows
    NoCall,
    Calls,          \* bound of the model: the calls that are made
    Registrars,     \* threads that register and remove handlers
    Requests,       \* threads that handle requests
    RefMod,         \* 2^32: refcount is unsigned
    SameAnswer      \* authorization granted once is granted again

ASSUME DistinctAssumption ==
    NoNode \notin Nodes /\ NoCallback \notin Callbacks /\ NoCall \notin Calls
ASSUME UriAssumption == RequestUris \subseteq Uris
ASSUME CallsAssumption == Calls \subseteq
    [kind : {"request", "auth"}, uri : Uris, cb : Callbacks \cup {NoCallback}]
(* The threads that handle requests are fewer than refcount can count.     *)
ASSUME RefAssumption ==
    IsFiniteSet(Requests) /\ RefMod \in Nat /\ Cardinality(Requests) < RefMod
ASSUME SameAnswerAssumption == SameAnswer \in BOOLEAN

Kinds == {"request", "auth"}

VARIABLES
    handlers,       \* dom_ctx->handlers, in order
    info,           \* info[n]: the entry in memory n
    call,           \* call[t]: the call t is executing, or NoCall
    pc, uri, method,\* the request of each request thread
    handler_info,   \* its pointer to an entry, or NoNode
    callback,       \* callback_handler with its data, or NoCallback
    again,          \* it came back from a callback that did not handle it
    answer,         \* its HTTP status; 0: none yet; 200: the callback's
    steady          \* history: its URI has been registered since it began

registryVars == <<handlers, info>>
requestVars == <<pc, uri, method, handler_info, callback, again, answer>>
vars == <<registryVars, call, requestVars, steady>>

Entry == [kind : Kinds, uri : Uris, cb : Callbacks, refcount : 0 .. RefMod - 1,
          removing : BOOLEAN]

Listed == {handlers[i] : i \in DOMAIN handlers}

TypeOK ==
    /\ handlers \in Seq(Nodes)
    /\ \A n \in Listed : info[n] \in Entry
    /\ \A t \in Registrars : call[t] = NoCall \/ call[t] \in Calls
    /\ pc \in [Requests -> {"idle", "lookup", "auth", "asked", "calling",
                            "answered"}]
    /\ handler_info \in [Requests -> Nodes \cup {NoNode}]
    /\ callback \in [Requests -> Callbacks \cup {NoCallback}]
    /\ answer \in [Requests -> {0, 200, 401, 404, 405}]

Init ==
    /\ handlers = <<>>
    /\ info \in [Nodes -> {[kind |-> "auth", uri |-> u, cb |-> c, refcount |-> 0,
                            removing |-> FALSE] : u \in {CHOOSE u \in Uris : TRUE},
                                                  c \in {CHOOSE c \in Callbacks : TRUE}}]
    /\ call = [t \in Registrars |-> NoCall]
    /\ pc = [c \in Requests |-> "idle"]
    /\ uri = [c \in Requests |-> CHOOSE u \in RequestUris : TRUE]
    /\ method = [c \in Requests |-> CHOOSE m \in Methods : TRUE]
    /\ handler_info = [c \in Requests |-> NoNode]
    /\ callback = [c \in Requests |-> NoCallback]
    /\ again = [c \in Requests |-> FALSE]
    /\ answer = [c \in Requests |-> 0]
    /\ steady = [c \in Requests |-> FALSE]

-----------------------------------------------------------------------------
(* mg_set_handler_type *)

Adds(t) == call[t] # NoCall /\ call[t].cb # NoCallback
Removes(t) == call[t] # NoCall /\ call[t].cb = NoCallback

(* The places in the list of the entry the call is about: none or one. *)
Found(t) ==
    {i \in DOMAIN handlers : /\ info[handlers[i]].kind = call[t].kind
                             /\ info[handlers[i]].uri = call[t].uri}

Busy(n) == info[n].kind = "request" /\ info[n].refcount # 0

SetHandler(t, s) ==
    /\ call[t] = NoCall
    /\ call' = [call EXCEPT ![t] = s]
    /\ steady' = [c \in Requests |->
         steady[c] /\ ~ (s.kind = "request" /\ s.uri = uri[c] /\ s.cb = NoCallback)]
    /\ UNCHANGED <<registryVars, requestVars>>

Returned(t) ==
    /\ call' = [call EXCEPT ![t] = NoCall]
    /\ UNCHANGED <<requestVars, steady>>

(* Faulty: the entry is updated while it is used. *)
UpdateBusy(t) ==
    /\ Adds(t)
    /\ \E i \in Found(t) : info' = [info EXCEPT ![handlers[i]].cb = call[t].cb]
    /\ UNCHANGED handlers
    /\ Returned(t)

Update(t) ==
    /\ Adds(t)
    /\ \E i \in Found(t) :
         /\ ~ Busy(handlers[i])
         /\ info' = [info EXCEPT ![handlers[i]].cb = call[t].cb]
    /\ UNCHANGED handlers
    /\ Returned(t)

Remove(t) ==
    /\ Removes(t)
    /\ \E i \in Found(t) :
         /\ ~ Busy(handlers[i])
         /\ handlers' = SubSeq(handlers, 1, i - 1) \o SubSeq(handlers, i + 1, Len(handlers))
    /\ UNCHANGED info
    /\ Returned(t)

RemoveNothing(t) ==
    /\ Removes(t)
    /\ Found(t) = {}
    /\ UNCHANGED registryVars
    /\ Returned(t)

(* The entry is in use: leave the lock, sleep, lock and search again.  Only *)
(* a removal marks the entry.                                              *)
WaitForEndOfUse(t) ==
    /\ Removes(t)
    /\ \E i \in Found(t) :
         /\ Busy(handlers[i])
         /\ info' = [info EXCEPT ![handlers[i]].removing = TRUE]
    /\ UNCHANGED <<handlers, call, requestVars, steady>>

(* A new entry at the end of the list, in memory that is not in use. *)
Append1(t, n) ==
    /\ n \notin Listed
    /\ handlers' = Append(handlers, n)
    /\ info' = [info EXCEPT ![n] = [kind |-> call[t].kind, uri |-> call[t].uri,
                                    cb |-> call[t].cb, refcount |-> 0,
                                    removing |-> FALSE]]

(* Faulty: after the sleep the entry is not searched for again. *)
AddAgain(t) ==
    /\ Adds(t)
    /\ \A i \in Found(t) : Busy(handlers[i])
    /\ \E n \in Nodes : Append1(t, n)
    /\ Returned(t)

Add(t) ==
    /\ Adds(t)
    /\ Found(t) = {}
    /\ \E n \in Nodes : Append1(t, n)
    /\ Returned(t)

(* Out of memory. *)
AddFails(t) ==
    /\ Adds(t)
    /\ Found(t) = {}
    /\ UNCHANGED registryVars
    /\ Returned(t)

-----------------------------------------------------------------------------
(* get_request_handler and release_handler_ref *)

OfKind(k) == {i \in DOMAIN handlers : info[handlers[i]].kind = k}

Step(i, s, r) ==
    LET u == info[handlers[i]].uri IN
    \/ s = 0 /\ u = r
    \/ s = 1 /\ <<u, r>> \in Inside
    \/ s = 2 /\ <<u, r>> \in Matching

(* Faulty: one pass over the list. *)
MatchedFirst(k, r) ==
    {i \in OfKind(k) :
        /\ \E s \in 0 .. 2 : Step(i, s, r)
        /\ \A j \in OfKind(k) : j < i => ~ \E s \in 0 .. 2 : Step(j, s, r)}

(* The three passes over the list: the same URI, a URI above, a pattern;   *)
(* in each, the first entry.                                               *)
Matched(k, r) ==
    {i \in OfKind(k) : \E s \in 0 .. 2 :
        /\ Step(i, s, r)
        /\ \A j \in OfKind(k) :
             /\ j < i => ~ Step(j, s, r)
             /\ \A s0 \in 0 .. s - 1 : ~ Step(j, s0, r)}

(* get_request_handler(REQUEST_HANDLER); an entry that is being removed    *)
(* ends the search.                                                        *)
Lookup(c) ==
    /\ pc[c] = "lookup"
    /\ pc' = [pc EXCEPT ![c] = "auth"]
    /\ LET usable == {i \in Matched("request", uri[c]) : ~ info[handlers[i]].removing} IN
       IF usable = {} THEN UNCHANGED <<info, handler_info, callback>>
       ELSE \E i \in usable :
              /\ info' = [info EXCEPT ![handlers[i]].refcount = (@ + 1) % RefMod]
              /\ handler_info' = [handler_info EXCEPT ![c] = handlers[i]]
              /\ callback' = [callback EXCEPT ![c] = info[handlers[i]].cb]
    /\ UNCHANGED <<handlers, call, uri, method, again, answer, steady>>

(* release_handler_ref, of whatever handler_info points at. *)
Release(c) ==
    info' = IF handler_info[c] = NoNode THEN info
            ELSE [info EXCEPT ![handler_info[c]].refcount = (@ + RefMod - 1) % RefMod]

(* The request is over. *)
Answer(c, s) ==
    /\ pc' = [pc EXCEPT ![c] = "answered"]
    /\ answer' = [answer EXCEPT ![c] = s]

-----------------------------------------------------------------------------
(* handle_request, from step 5.2 on *)

Request(c, r, m) ==
    /\ pc[c] = "idle"
    /\ pc' = [pc EXCEPT ![c] = "lookup"]
    /\ uri' = [uri EXCEPT ![c] = r]
    /\ method' = [method EXCEPT ![c] = m]
    /\ steady' = [steady EXCEPT ![c] =
         /\ \E n \in Listed : info[n].kind = "request" /\ info[n].uri = r /\ ~ info[n].removing
         /\ \A t \in Registrars : Removes(t) => call[t].kind # "request" \/ call[t].uri # r]
    /\ UNCHANGED <<registryVars, call, handler_info, callback, again, answer>>

(* 6.1, a handler for authorization is registered for the URI or not. *)
FindAuth(c) ==
    /\ pc[c] = "auth"
    /\ Matched("auth", uri[c]) # {}
    /\ pc' = [pc EXCEPT ![c] = "asked"]
    /\ UNCHANGED <<registryVars, call, uri, method, handler_info, callback, again,
                   answer, steady>>

(* Neither a callback nor a file that could be written: 6.2.1. *)
NotAllowed(c) ==
    /\ pc[c] = "auth"
    /\ Matched("auth", uri[c]) = {}
    /\ callback[c] = NoCallback
    /\ method[c] \in PutDelete
    /\ Answer(c, 405)
    /\ UNCHANGED <<registryVars, call, uri, method, handler_info, callback, again, steady>>

(* The authorization handler, or check_authorization if there is none;     *)
(* with its consent the callback, 7., is called.                           *)
Granted(c) ==
    /\ \/ pc[c] = "asked"
       \/ /\ pc[c] = "auth"
          /\ Matched("auth", uri[c]) = {}
          /\ callback[c] # NoCallback \/ method[c] \notin PutDelete
    /\ IF callback[c] # NoCallback
         THEN pc' = [pc EXCEPT ![c] = "calling"] /\ UNCHANGED answer
         ELSE Answer(c, 404)      \* 9b: there is no document root
    /\ UNCHANGED <<registryVars, call, uri, method, handler_info, callback, again, steady>>

Refused(c) ==
    /\ \/ pc[c] = "asked"
       \/ /\ pc[c] = "auth"
          /\ Matched("auth", uri[c]) = {}
          /\ callback[c] # NoCallback \/ method[c] \notin PutDelete
    /\ ~ (SameAnswer /\ again[c])
    /\ Answer(c, 401)
    /\ Release(c)
    /\ UNCHANGED <<handlers, call, uri, method, handler_info, callback, again, steady>>

(* CivetServer::requestHandler: the result of the handleX for the method;  *)
(* 0 for a handleX that KVHandler does not define.                         *)
Handled(c) == method[c] \in Serves[callback[c]]

CallReturns(c) ==
    /\ pc[c] = "calling"
    /\ Handled(c)
    /\ Release(c)
    /\ Answer(c, 200)
    /\ UNCHANGED <<handlers, call, uri, method, handler_info, callback, again, steady>>

(* The callback is given back, then "goto no_callback_resource".           *)
(* handler_info keeps its value.                                           *)
FallThrough(c) ==
    /\ pc[c] = "calling"
    /\ ~ Handled(c)
    /\ Release(c)
    /\ callback' = [callback EXCEPT ![c] = NoCallback]
    /\ again' = [again EXCEPT ![c] = TRUE]
    /\ pc' = [pc EXCEPT ![c] = "auth"]
    /\ UNCHANGED <<handlers, call, uri, method, handler_info, answer, steady>>

(* The thread's next request. *)
NextRequest(c) ==
    /\ pc[c] = "answered"
    /\ pc' = [pc EXCEPT ![c] = "idle"]
    /\ handler_info' = [handler_info EXCEPT ![c] = NoNode]
    /\ callback' = [callback EXCEPT ![c] = NoCallback]
    /\ again' = [again EXCEPT ![c] = FALSE]
    /\ answer' = [answer EXCEPT ![c] = 0]
    /\ steady' = [steady EXCEPT ![c] = FALSE]
    /\ uri' = [uri EXCEPT ![c] = CHOOSE u \in RequestUris : TRUE]
    /\ method' = [method EXCEPT ![c] = CHOOSE m \in Methods : TRUE]
    /\ UNCHANGED <<registryVars, call>>

-----------------------------------------------------------------------------
Look(t) == Remove(t) \/ RemoveNothing(t) \/ WaitForEndOfUse(t)

Searches(t) == Update(t) \/ Look(t) \/ Add(t) \/ AddFails(t)

Handles(c) ==
    \/ Lookup(c) \/ FindAuth(c) \/ NotAllowed(c) \/ Granted(c) \/ Refused(c)
    \/ CallReturns(c) \/ FallThrough(c)

Next ==
    \/ \E t \in Registrars :
         \/ \E s \in Calls : SetHandler(t, s)
         \/ Searches(t)
    \/ \E c \in Requests :
         \/ \E r \in RequestUris, m \in Methods : Request(c, r, m)
         \/ Handles(c)
         \/ NextRequest(c)

Spec == Init /\ [][Next]_vars

-----------------------------------------------------------------------------
Holding(c) == callback[c] # NoCallback /\ pc[c] \in {"auth", "asked", "calling"}

(* The users of an entry are counted: refcount is the number of requests   *)
(* between get_request_handler and release_handler_ref.                    *)
Counted ==
    \A n \in Listed :
        info[n].kind = "request" =>
            info[n].refcount = Cardinality({c \in Requests : Holding(c) /\ handler_info[c] = n})

(* civetweb.h:498: "This function waits until a removing/updating handler  *)
(* becomes unused".  The entry a request holds is still in the list, with  *)
(* the callback the request is about to call.                              *)
HeldStays ==
    \A c \in Requests :
        Holding(c) => /\ handler_info[c] \in Listed
                      /\ info[handler_info[c]].cb = callback[c]

(* One entry for a URI, however the calls that set it overlap. *)
NoDuplicates ==
    \A i, j \in DOMAIN handlers :
        /\ info[handlers[i]].kind = info[handlers[j]].kind
        /\ info[handlers[i]].uri = info[handlers[j]].uri
        => i = j

(* A request for a URI that has been registered all the time is served by  *)
(* its handler: others that use, update or remove entries do not make it   *)
(* "404 Not Found".                                                        *)
RegisteredIsServed ==
    \A c \in Requests :
        steady[c] /\ answer[c] \in {404, 405} => again[c]

(* The entry a request uses is counted, stays in the list and keeps its    *)
(* callback until it is given back, there is one entry for a URI, and a    *)
(* URI that is registered is served, whatever calls of                     *)
(* mg_set_request_handler and requests overlap (civetweb.h:495-515).       *)
HandlersKept == Counted /\ HeldStays /\ NoDuplicates /\ RegisteredIsServed

(* README.md:25 "Supports GET / PUT / DELETE over HTTP": a PUT for a       *)
(* registered URI is not answered "405 PUT method not allowed".            *)
PutSupported ==
    \A c \in Requests : steady[c] /\ method[c] = "PUT" => answer[c] # 405

(* The table of HandlerTable that the list stands for, and what is taken.  *)
table == [e \in Kinds \X Uris |->
    LET is == {i \in DOMAIN handlers : info[handlers[i]].kind = e[1] /\ info[handlers[i]].uri = e[2]}
    IN IF is = {} THEN NoCallback ELSE info[handlers[CHOOSE i \in is : TRUE]].cb]
taken == [c \in Requests |->
    IF Holding(c)
    THEN [uri |-> info[handler_info[c]].uri, for |-> uri[c], cb |-> callback[c]]
    ELSE NoCallback]

Table == INSTANCE HandlerTable WITH table <- table, taken <- taken

(* The list implements the table of HandlerTable. *)
TableRefinement == Table!Spec
=============================================================================
