------------------------------- MODULE Output -------------------------------
(***************************************************************************)
(* What mg_write does with the bytes of an answer                          *)
(* (src/Server/civetweb/civetweb.c): push_all, the limit of set_throttle   *)
(* in bytes per second, and mg_send_chunk on top of it, for the requests   *)
(* of one connection.                                                      *)
(*                                                                         *)
(* The clock (time(NULL)) is what the code asks of it: whether a second    *)
(* has passed since last_throttle_time (fresh), and since a thread has     *)
(* gone to sleep or waits in poll (due).  The request timeout is at least  *)
(* a second.                                                               *)
(***************************************************************************)
EXTENDS Naturals, Integers, Sequences, FiniteSets, SequencesExt

CONSTANTS
    Throttles,      \* limits that set_throttle may find; 0 is no limit
    Lengths,        \* lengths of one write
    MaxRequests, MaxWrites,             \* bounds: requests, and writes of one
    Faults          \* of {"error", "timeout", "stop"}

OutputAssumption == Throttles \subseteq Nat /\ Lengths \subseteq Nat

VARIABLES
    throttle, last_bytes,               \* of the connection
    fresh, due,
    job,            \* the call of mg_write: len, total, allowed, n
    chunk,          \* what mg_send_chunk has still to write
    requests, writes,
    stop, broken,   \* stop_flag; the socket fails from now on
    pc,
    sent,           \* ghost: bytes that limited writes sent in this second
    ret,            \* the last result of mg_write
    out             \* ghost: bytes of this write that were sent

vars == <<throttle, fresh, last_bytes, due, job, chunk, requests, writes, stop, broken, pc,
          sent, ret, out>>

Smaller(a, b) == IF a < b THEN a ELSE b

TypeOK ==
    /\ last_bytes >= 0 /\ fresh \in BOOLEAN /\ due \in BOOLEAN
    /\ job.total \in 0 .. job.len
    /\ pc \in {"handler", "first", "plain", "loop", "sleep", "waiting", "return"}
    /\ ret >= -1

Init ==
    /\ throttle \in Throttles /\ fresh = TRUE /\ last_bytes = 0 /\ due = FALSE
    /\ job = [len |-> 0, total |-> 0, allowed |-> 0]
    /\ chunk = <<>> /\ requests = 1 /\ writes = 0 /\ stop = FALSE /\ broken = FALSE
    /\ pc = "handler" /\ sent = 0 /\ ret = 1 /\ out = 0

Tick == /\ fresh' = TRUE /\ due' = (pc \in {"sleep", "waiting"}) /\ sent' = 0
        /\ UNCHANGED <<throttle, last_bytes, job, chunk, requests, writes, stop, broken, pc, ret, out>>
Stop == /\ "stop" \in Faults /\ ~stop /\ stop' = TRUE
        /\ UNCHANGED <<throttle, fresh, last_bytes, due, job, chunk, requests, writes, broken, pc, sent,
                       ret, out>>

-----------------------------------------------------------------------------
(* push_all with push_inner: all of len, or fewer before an error, a       *)
(* timeout or a stop, or -1 if that is none; 0 of nothing, or when the     *)
(* server is stopped.                                                      *)
PushAll(len) ==
    IF len <= 0 THEN {0}
    ELSE IF stop THEN {0, -1}
    ELSE IF broken THEN {-1}
    ELSE {len} \cup (IF Faults \ {"stop"} # {} THEN {-1} \cup 1 .. len - 1 ELSE {})

Bytes(n) == IF n > 0 THEN n ELSE 0
(* n is what a push_all has returned. *)
Pushed(n) ==
    /\ sent' = sent + (IF throttle > 0 THEN Bytes(n) ELSE 0)
    /\ out' = out + Bytes(n)
Elsewhere == UNCHANGED <<due, requests, stop>>
Return(n) == ret' = n /\ pc' = "return"

(* A push of len ends the write, which returns r.  If n is short of len,   *)
(* the socket has failed for good, or it has taken nothing for the request *)
(* timeout and may take more later.                                        *)
Ends(n, len, r) ==
    IF n < len /\ ~stop
    THEN \/ "error" \in Faults /\ Return(r) /\ broken' = TRUE /\ UNCHANGED due
         \/ /\ "timeout" \in Faults /\ ~broken
            /\ ret' = r /\ pc' = "waiting" /\ due' = FALSE /\ UNCHANGED broken
    ELSE Return(r) /\ UNCHANGED <<broken, due>>

(* How much of a write may go in this second. *)
Allowed(len, bytes) == Smaller(throttle - bytes, len)

Begin(len) ==
    /\ writes' = writes + 1 /\ out' = 0
    /\ IF throttle > 0
       THEN /\ last_bytes' = IF fresh THEN 0 ELSE last_bytes
            /\ fresh' = FALSE
            /\ job' = [len |-> len, total |-> 0, allowed |-> Allowed(len, last_bytes')]
            /\ pc' = "first"
       ELSE /\ job' = [len |-> len, total |-> 0, allowed |-> len]
            /\ pc' = "plain" /\ UNCHANGED <<last_bytes, fresh>>
    /\ UNCHANGED <<throttle, broken, sent, ret>> /\ Elsewhere

Write == /\ pc = "handler" /\ writes < MaxWrites /\ chunk = <<>>
         /\ \E len \in Lengths : Begin(len)
         /\ UNCHANGED chunk

(* mg_send_chunk: the length line, the data, the line end. *)
SendChunk == /\ pc = "handler" /\ writes < MaxWrites /\ chunk = <<>>
             /\ \E len \in Lengths : chunk' = <<len, 2>>
             /\ Begin(2)
Continue == /\ pc = "handler" /\ chunk # <<>> /\ ret = job.len
            /\ Begin(Head(chunk)) /\ chunk' = Tail(chunk)
Abandon == /\ pc = "handler" /\ chunk # <<>> /\ ret # job.len
           /\ chunk' = <<>> /\ ret' = -1
           /\ UNCHANGED <<throttle, fresh, last_bytes, job, writes, broken, pc, sent, out>>
           /\ Elsewhere

PushPlain ==
    /\ pc = "plain"
    /\ \E n \in PushAll(job.allowed) :
         Pushed(n) /\ Ends(n, job.allowed, n) /\ job' = [job EXCEPT !.total = Bytes(n)]
    /\ UNCHANGED <<throttle, fresh, last_bytes, chunk, writes, requests, stop>>

(* Faulty: what the first part has sent is not taken off. *)
PushFirstAgain ==
    /\ pc = "first"
    /\ \E n \in PushAll(job.allowed) :
         /\ Pushed(n)
         /\ IF n = job.allowed
            THEN /\ last_bytes' = last_bytes + n /\ pc' = "loop"
                 /\ UNCHANGED <<job, ret, broken, due>>
            ELSE Ends(n, job.allowed, n) /\ UNCHANGED <<last_bytes, job>>
    /\ UNCHANGED <<throttle, fresh, chunk, writes, requests, stop>>

PushFirst ==
    /\ pc = "first"
    /\ \E n \in PushAll(job.allowed) :
         /\ Pushed(n)
         /\ IF n = job.allowed
            THEN /\ last_bytes' = last_bytes + n /\ job' = [job EXCEPT !.total = n]
                 /\ pc' = "loop" /\ UNCHANGED <<ret, broken, due>>
            ELSE Ends(n, job.allowed, n) /\ UNCHANGED <<last_bytes, job>>
    /\ UNCHANGED <<throttle, fresh, chunk, writes, requests, stop>>

(* One round of the loop sends a second's worth, then sleeps. *)
PushMore ==
    /\ pc = "loop" /\ job.total < job.len /\ ~stop
    /\ LET allowed == Smaller(throttle, job.len - job.total)
       IN \E n \in PushAll(allowed) :
            /\ Pushed(n)
            /\ IF n = allowed
               THEN /\ job' = [job EXCEPT !.allowed = allowed] /\ pc' = "sleep"
                    /\ due' = FALSE /\ UNCHANGED <<ret, broken>>
               ELSE Ends(n, allowed, job.total) /\ UNCHANGED job
    /\ UNCHANGED <<throttle, fresh, last_bytes, chunk, writes, requests, stop>>

Awake ==
    /\ pc = "sleep" /\ due
    /\ last_bytes' = job.allowed /\ fresh' = FALSE
    /\ job' = [job EXCEPT !.total = @ + job.allowed]
    /\ pc' = "loop"
    /\ UNCHANGED <<throttle, chunk, writes, broken, sent, ret, out>> /\ Elsewhere

(* The request timeout is over, or the server stops. *)
TimedOut ==
    /\ pc = "waiting" /\ (due \/ stop) /\ pc' = "return"
    /\ UNCHANGED <<throttle, fresh, last_bytes, job, chunk, writes, broken, sent, ret, out>>
    /\ Elsewhere

EndLoop ==
    /\ pc = "loop" /\ (job.total >= job.len \/ stop) /\ Return(job.total)
    /\ UNCHANGED <<throttle, fresh, last_bytes, job, chunk, writes, broken, sent, out>> /\ Elsewhere

Returned ==
    /\ pc = "return" /\ pc' = "handler"
    /\ UNCHANGED <<throttle, fresh, last_bytes, job, chunk, writes, broken, sent, ret, out>>
    /\ Elsewhere

(* The next request of the connection, with the limit of its URI.  The *)
(* account of the current second stays.                                 *)
NextRequest ==
    /\ pc = "handler" /\ chunk = <<>> /\ requests < MaxRequests
    /\ requests' = requests + 1 /\ writes' = 0
    /\ throttle' \in Throttles /\ ret' = 1 /\ out' = 0
    /\ UNCHANGED <<fresh, last_bytes, due, job, chunk, stop, broken, pc, sent>>

MgWrite == PushPlain \/ PushFirst \/ PushMore \/ Awake \/ TimedOut \/ EndLoop \/ Returned
Next == Tick \/ Stop \/ Write \/ SendChunk \/ Continue \/ Abandon \/ MgWrite \/ NextRequest

(* Time passes, and the thread of the handler runs. *)
Spec == Init /\ [][Next]_vars /\ WF_vars(Tick) /\ WF_vars(MgWrite)

-----------------------------------------------------------------------------
(* Properties *)

(* In no second more than three times the largest limit leaves the         *)
(* connection, whatever the lengths of the writes and however they fall    *)
(* into seconds: the end of a write that began in the second before, the   *)
(* first part of the next and a round of its loop.                         *)
RateBounded ==
    sent <= 3 * (CHOOSE m \in Throttles : \A k \in Throttles : k <= m)

(* A write that returns its length has sent each byte of it, once.         *)
WrittenIsSent == (pc = "return" /\ ret = job.len) => out = job.len

=============================================================================
