------------------------------- MODULE LoadGen -------------------------------
(***************************************************************************)
(* The load generator (src/Client/loadgen.cpp): main fills popular_keys,   *)
(* starts threads that send requests, each on a curl handle of its own,    *)
(* sleeps, sets stop_test, joins the threads and prints the totals.        *)
(*                                                                         *)
(* A curl handle keeps its options from one request to the next.  What an  *)
(* option does to the others is libcurl's documentation: CURLOPT_HTTPGET   *)
(* makes the method GET, CURLOPT_POST 0 too, CURLOPT_POSTFIELDS implies    *)
(* POST, and a POST without fields takes its body from the read callback,  *)
(* which is stdin.                                                         *)
(***************************************************************************)
EXTENDS Naturals, Sequences, FiniteSets

CONSTANTS
    Workers,
    Workloads,          \* what may be given: "get-popular", "get-all", "put-all", "get-put", "other"
    POPULAR_KEY_COUNT,
    MaxRounds           \* a bound: rounds of the loops of all workers together

LoadGenAssumption == POPULAR_KEY_COUNT \in Nat \ {0} /\ MaxRounds \in Nat

VARIABLES
    workload,
    main,           \* "prepopulate", "start", "sleep", "join", "printed", "exit"
    next,           \* i of prepopulate
    popular_keys,
    stored,         \* ghost: the keys that the server has accepted from prepopulate
    stop_test, total_requests, total_failed,
    pc, handle,     \* of each worker
    ok,             \* how its request has ended
    request,        \* what its handle is to do, and what it sends: [op, verb, body]
    rounds,         \* ghost: rounds begun
    index           \* ghost: the last index into popular_keys

vars == <<workload, main, next, popular_keys, stored, stop_test, total_requests, total_failed,
          pc, handle, ok, request, rounds, index>>
filling == <<next, popular_keys, stored>>
totals == <<total_requests, total_failed>>
loops == <<pc, handle, ok, request, rounds, index>>

Popular == workload \in {"get-popular", "get-put"}
NoRequest == [op |-> "none", verb |-> "none", body |-> "none"]

TypeOK ==
    /\ next \in 0 .. POPULAR_KEY_COUNT /\ Len(popular_keys) <= next
    /\ total_requests + total_failed <= rounds
    /\ main \in {"prepopulate", "start", "sleep", "join", "printed", "exit"}
    /\ pc \in [Workers -> {"new", "top", "choose", "perform", "count", "ended"}]
    /\ handle \in [Workers -> [method : {"GET", "POST"}, custom : {"none", "DELETE"},
                               fields : {"none", "own", "null"}]]

-----------------------------------------------------------------------------
(* The options of a handle *)

NewHandle == [method |-> "GET", custom |-> "none", fields |-> "none"]
HTTPGET(h) == [h EXCEPT !.method = "GET"]
POST(h, on) == [h EXCEPT !.method = IF on THEN "POST" ELSE "GET"]
POSTFIELDS(h, f) == [h EXCEPT !.fields = f, !.method = "POST"]
CUSTOMREQUEST(h, c) == [h EXCEPT !.custom = c]

(* What the handle sends. *)
Sent(op, h) ==
    [op |-> op,
     verb |-> IF h.custom # "none" THEN h.custom ELSE h.method,
     body |-> IF h.method = "GET" THEN "none" ELSE IF h.fields = "own" THEN "own" ELSE "stdin"]

(* Faulty: do_get relies on the handle to be in the mode of GET. *)
NoHTTPGET(op, h) == IF op = "post" THEN POSTFIELDS(POST(h, TRUE), "own")
                    ELSE IF op = "delete" THEN CUSTOMREQUEST(h, "DELETE") ELSE h

(* The options before and after curl_easy_perform. *)
Before(op, h) ==
    CASE op = "get" -> HTTPGET(h)
      [] op = "post" -> POSTFIELDS(POST(h, TRUE), "own")
      [] op = "delete" -> CUSTOMREQUEST(h, "DELETE")
After(op, h) ==
    CASE op = "get" -> h
      [] op = "post" -> POSTFIELDS(POST(h, FALSE), "null")
      [] op = "delete" -> CUSTOMREQUEST(h, "none")

Init ==
    /\ workload \in Workloads
    /\ main = IF Popular THEN "prepopulate" ELSE "start"
    /\ next = 0 /\ popular_keys = <<>> /\ stored = {}
    /\ stop_test = FALSE /\ total_requests = 0 /\ total_failed = 0
    /\ pc = [w \in Workers |-> "new"] /\ handle = [w \in Workers |-> NewHandle]
    /\ ok = [w \in Workers |-> FALSE] /\ request = [w \in Workers |-> NoRequest]
    /\ rounds = 0 /\ index = [w \in Workers |-> 0]

-----------------------------------------------------------------------------
(* main *)

(* A round of prepopulate; the server accepts the key, or the request      *)
(* fails, perhaps after it has been accepted.                              *)
PushIfStored(done, key) == popular_keys' = IF done THEN Append(popular_keys, key) ELSE popular_keys
Prepopulate ==
    /\ main = "prepopulate" /\ next < POPULAR_KEY_COUNT
    /\ \E accepted, done \in BOOLEAN :
         /\ done => accepted
         /\ stored' = IF accepted THEN stored \cup {next} ELSE stored
         /\ PushIfStored(done, next)
    /\ next' = next + 1
    /\ UNCHANGED <<workload, main, stop_test, totals, loops>>
PrepopulateEnds ==
    /\ main = "prepopulate" /\ next = POPULAR_KEY_COUNT
    /\ main' = IF popular_keys = <<>> THEN "exit" ELSE "start"
    /\ UNCHANGED <<workload, filling, stop_test, totals, loops>>
(* if (!curl) return; without a look at popular_keys. *)
PrepopulateWithoutCurl ==
    /\ main = "prepopulate" /\ next = 0 /\ main' = "start"
    /\ UNCHANGED <<workload, filling, stop_test, totals, loops>>

Start ==
    /\ main = "start" /\ main' = "sleep"
    /\ pc' = [w \in Workers |-> "top"]
    /\ UNCHANGED <<workload, filling, stop_test, totals, handle, ok, request, rounds, index>>
StartWithoutCurl ==
    /\ main = "start" /\ main' = "sleep"
    /\ \E none \in SUBSET Workers \ {{}} :
         pc' = [w \in Workers |-> IF w \in none THEN "ended" ELSE "top"]
    /\ UNCHANGED <<workload, filling, stop_test, totals, handle, ok, request, rounds, index>>

SleepEnds ==
    /\ main = "sleep" /\ main' = "join" /\ stop_test' = TRUE
    /\ UNCHANGED <<workload, filling, totals, loops>>

Report ==
    /\ main = "join" /\ \A w \in Workers : pc[w] = "ended"
    /\ main' = "printed"
    /\ UNCHANGED <<workload, filling, stop_test, totals, loops>>

-----------------------------------------------------------------------------
(* worker *)

Goto(w, p) == pc' = [pc EXCEPT ![w] = p]

LoopTest(w) ==
    /\ pc[w] = "top"
    /\ \/ stop_test /\ Goto(w, "ended") /\ UNCHANGED rounds
       \/ ~stop_test /\ rounds < MaxRounds /\ Goto(w, "choose") /\ rounds' = rounds + 1
    /\ UNCHANGED <<workload, main, filling, stop_test, totals, handle, ok, request, index>>

Operations ==
    CASE workload = "put-all" -> {"post"}
      [] workload \in {"get-all", "get-popular"} -> {"get"}
      [] workload = "get-put" -> {"get", "post", "delete"}
      [] OTHER -> {}

(* The options are set, and curl_easy_perform is called.  An index beyond  *)
(* popular_keys is undefined: if the program goes on, it is with some key. *)
Choose(w) ==
    /\ pc[w] = "choose"
    /\ \E op \in Operations :
         /\ handle' = [handle EXCEPT ![w] = After(op, Before(op, @))]
         /\ request' = [request EXCEPT ![w] = Sent(op, Before(op, handle[w]))]
         /\ IF op = "get" /\ Popular
            THEN \E i \in 1 .. POPULAR_KEY_COUNT : index' = [index EXCEPT ![w] = i]
            ELSE UNCHANGED index
    /\ Goto(w, "perform")
    /\ UNCHANGED <<workload, main, filling, stop_test, totals, ok, rounds>>
(* A workload that is none of the four does nothing, and that has failed. *)
ChooseNothing(w) ==
    /\ pc[w] = "choose" /\ Operations = {}
    /\ ok' = [ok EXCEPT ![w] = FALSE] /\ Goto(w, "count")
    /\ UNCHANGED <<workload, main, filling, stop_test, totals, handle, request, rounds, index>>

(* After two seconds at the latest, with 200 or anything else. *)
Perform(w) ==
    /\ pc[w] = "perform"
    /\ \E answer \in BOOLEAN : ok' = [ok EXCEPT ![w] = answer]
    /\ request' = [request EXCEPT ![w] = NoRequest] /\ Goto(w, "count")
    /\ UNCHANGED <<workload, main, filling, stop_test, totals, handle, rounds, index>>

Count(w) ==
    /\ pc[w] = "count" /\ Goto(w, "top")
    /\ IF ok[w] THEN total_requests' = total_requests + 1 /\ UNCHANGED total_failed
       ELSE total_failed' = total_failed + 1 /\ UNCHANGED total_requests
    /\ UNCHANGED <<workload, main, filling, stop_test, handle, ok, request, rounds, index>>

Worker(w) == LoopTest(w) \/ Choose(w) \/ ChooseNothing(w) \/ Perform(w) \/ Count(w)
Next ==
    \/ Prepopulate \/ PrepopulateEnds \/ PrepopulateWithoutCurl \/ Start \/ StartWithoutCurl
    \/ SleepEnds \/ Report
    \/ \E w \in Workers : Worker(w)

(* The threads run, and the time of the test passes. *)
Spec == Init /\ [][Next]_vars /\ WF_vars(SleepEnds \/ Report) /\ \A w \in Workers : WF_vars(Worker(w))

-----------------------------------------------------------------------------
(* What is printed counts every round of every worker once: the threads    *)
(* have ended, and the atomic totals have lost nothing.                    *)
AllCounted == main = "printed" => total_requests + total_failed = rounds

(* Every popular key is in the server, and is there once.                  *)
PopularStored ==
    /\ {popular_keys[i] : i \in DOMAIN popular_keys} \subseteq stored
    /\ \A i, j \in DOMAIN popular_keys : i # j => popular_keys[i] # popular_keys[j]

(* Whatever the handle has been used for before, a GET is sent as one, and *)
(* a POST with the body that has been made for it.                         *)
SentAsMeant ==
    \A w \in Workers :
       /\ request[w].op = "get" => request[w].verb = "GET" /\ request[w].body = "none"
       /\ request[w].op = "post" => request[w].verb = "POST" /\ request[w].body = "own"

=============================================================================
