-------------------------------- MODULE Client --------------------------------
(***************************************************************************)
(* The HTTP client of the library (src/Server/civetweb/civetweb.c):        *)
(* mg_connect_client, mg_get_response, mg_read, mg_close_connection, and   *)
(* mg_download, which calls them for its caller.                           *)
(*                                                                         *)
(* What the server sends is a sequence of tokens [r, k]: r numbers the     *)
(* response, k is "h" (a part of the header), "H" (its end), "b" (of the   *)
(* body) or "e" (the end of a chunked body).  The chunks are in module     *)
(* Connection.                                                             *)
(***************************************************************************)
EXTENDS Naturals, Integers, Sequences, FiniteSets, SequencesExt

CONSTANTS
    Responses,      \* what the server may answer to the requests, in order: a set of
                    \* sequences of [status, framing, head, body, interim]
    BufSize,        \* max_request_size
    Default,        \* the default request_timeout
    Timeouts,       \* what callers pass to mg_get_response; -1: "wait forever"
    EbufLens,       \* ebuf_len
    MaxWait,        \* a bound: the server is silent for so long at most
    Faults          \* of {"memory", "host", "socket", "connect", "mutex", "send", "close", "silent"}

ClientAssumption == BufSize \in Nat \ {0} /\ Default \in Nat /\ MaxWait \in Nat

VARIABLES
    mode,           \* "download", or "calls": the caller makes the calls itself
    ebuf_len, ebuf, \* "clear" or "text"; with no length, what the caller happens to have there
    mem, sock, mutex,   \* what the connection holds
    script,         \* the responses of this server
    todo, wire, open,   \* tokens it has still to send, and that are on their way
    sent,           \* requests sent
    buf, response,  \* conn->buf[0 .. data_len), and what has been parsed
    timeout, waited,
    pc,
    seen            \* ghost: [r, body, cut] of the responses the caller has been given

vars == <<mode, ebuf_len, ebuf, mem, sock, mutex, script, todo, wire, open, sent, buf, response,
          timeout, waited, pc, seen>>
server == <<script, todo, wire, open>>
holds == <<mem, sock, mutex>>

Tokens(r) ==
    LET q == script[r]
    IN [i \in 1 .. q.head |-> [r |-> r, k |-> "h"]] \o <<[r |-> r, k |-> "H"]>> \o [i \in 1 .. q.body |-> [r |-> r, k |-> "b"]]
       \o (IF q.framing = "chunked" THEN <<[r |-> r, k |-> "e"]>> ELSE <<>>)

NoResponse == [r |-> 0, content_len |-> 0, is_chunked |-> FALSE]

TypeOK ==
    /\ Len(buf) <= BufSize /\ waited \in 0 .. MaxWait + 1
    /\ ebuf \in {"clear", "text"} /\ sent <= Len(script)
    /\ pc \in {"new", "resolve", "socket", "connect", "poll", "mutex", "up", "get", "body", "failed",
               "closing", "closed"}

Init ==
    /\ mode \in {"download", "calls"} /\ ebuf_len \in EbufLens
    /\ ebuf \in IF ebuf_len > 0 THEN {"clear"} ELSE {"clear", "text"}
    /\ mem = FALSE /\ sock = FALSE /\ mutex = FALSE
    /\ script \in Responses /\ todo = <<>> /\ wire = <<>> /\ open = TRUE /\ sent = 0
    /\ buf = <<>> /\ response = NoResponse /\ timeout = Default /\ waited = 0
    /\ pc = "new" /\ seen = <<>>

(* mg_snprintf writes nothing to a buffer without room. *)
Say == ebuf' = IF ebuf_len > 0 THEN "text" ELSE ebuf

-----------------------------------------------------------------------------
(* mg_connect_client_impl, with connect_socket *)

(* NULL is returned, and what has been taken so far is given back. *)
Fail ==
    /\ Say /\ mem' = FALSE /\ sock' = FALSE /\ mutex' = FALSE /\ pc' = "failed"
Goto(p) == pc' = p /\ UNCHANGED ebuf

Connecting == UNCHANGED <<mode, ebuf_len, server, sent, buf, response, timeout, waited, seen>>

Allocate ==
    /\ pc = "new"
    /\ \/ mem' = TRUE /\ Goto("resolve") /\ UNCHANGED <<sock, mutex>>
       \/ "memory" \in Faults /\ Fail
    /\ Connecting
Resolve ==
    /\ pc = "resolve"
    /\ \/ Goto("socket") /\ UNCHANGED holds
       \/ "host" \in Faults /\ Fail
    /\ Connecting
(* socket, and set_non_blocking_mode. *)
OpenSocket ==
    /\ pc = "socket"
    /\ \/ sock' = TRUE /\ Goto("connect") /\ UNCHANGED <<mem, mutex>>
       \/ "socket" \in Faults /\ Fail
    /\ Connecting
Connect ==
    /\ pc = "connect"
    /\ \/ Goto("mutex") /\ UNCHANGED holds
       \/ Goto("poll") /\ UNCHANGED holds
       \/ "connect" \in Faults /\ Fail
    /\ Connecting
(* Up to ten seconds; then SO_ERROR tells how it went. *)
Poll ==
    /\ pc = "poll"
    /\ \/ Goto("mutex") /\ UNCHANGED holds
       \/ "connect" \in Faults /\ Fail
    /\ Connecting

MutexFails == Fail
InitMutex ==
    /\ pc = "mutex"
    /\ \/ mutex' = TRUE /\ Goto("up") /\ UNCHANGED <<mem, sock>>
       \/ "mutex" \in Faults /\ MutexFails
    /\ Connecting

-----------------------------------------------------------------------------
(* The server *)

ServerSends ==
    /\ todo # <<>> /\ open
    /\ wire' = Append(wire, Head(todo)) /\ todo' = Tail(todo)
    /\ UNCHANGED <<mode, ebuf_len, ebuf, holds, script, open, sent, buf, response, timeout, waited, pc, seen>>
ServerCloses ==
    /\ open /\ pc \in {"get", "body"}
    /\ "close" \in Faults \/ (todo = <<>> /\ script[sent].framing = "close")
    /\ open' = FALSE /\ todo' = <<>>
    /\ UNCHANGED <<mode, ebuf_len, ebuf, holds, script, wire, sent, buf, response, timeout, waited, pc, seen>>

-----------------------------------------------------------------------------
(* The caller *)

(* Faulty: there is no default timeout. *)
ForeverIsForever(t) == IF mode = "calls" /\ t >= 0 THEN t ELSE MaxWait + 1

(* mg_get_response takes conn->dom_ctx->config[REQUEST_TIMEOUT] away if    *)
(* the timeout is less than 0, and without it the default is used.         *)
RequestTimeout(t) == IF mode = "calls" /\ t >= 0 THEN t ELSE Default

(* A request, and the call of mg_get_response, or of get_response in       *)
(* mg_download.  Either forgets what conn->buf has.                        *)
BufferCleared == <<>>
Get(t) ==
    /\ timeout' = RequestTimeout(t)
    /\ buf' = BufferCleared /\ response' = NoResponse /\ waited' = 0 /\ pc' = "get"
    /\ ebuf' = IF ebuf_len > 0 THEN "clear" ELSE ebuf

Send ==
    /\ pc = "up" /\ sent < Len(script) /\ (mode = "download" => sent = 0)
    /\ \/ /\ sent' = sent + 1
          /\ todo' = todo \o Tokens(sent + 1)
                     \o (IF script[sent + 1].interim THEN Tokens(sent + 2) ELSE <<>>)
          /\ \E t \in Timeouts : Get(t)
       \/ /\ "send" \in Faults /\ Say /\ pc' = "closing"
          /\ UNCHANGED <<sent, todo, buf, response, timeout, waited>>
    /\ UNCHANGED <<mode, ebuf_len, holds, script, wire, open, seen>>

(* After a response that is not the last one to its request. *)
GetNext ==
    /\ pc = "up" /\ mode = "calls" /\ sent > 0 /\ script[sent].interim
    /\ sent' = sent + 1 /\ \E t \in Timeouts : Get(t)
    /\ UNCHANGED <<mode, ebuf_len, holds, server, seen>>

(* get_response fails: mg_download closes the connection if ebuf says so,  *)
(* and a caller is told by the result.                                     *)
GetFails ==
    /\ Say
    /\ IF mode = "calls" \/ ebuf' = "text"
       THEN pc' = "closing" /\ UNCHANGED <<response, seen>>
       ELSE pc' = "body" /\ seen' = Append(seen, [r |-> 0, body |-> 0, cut |-> FALSE])
            /\ UNCHANGED response

(* Faulty: a body without a length is taken for none. *)
UnknownIsEmpty(r) ==
    LET q == script[r]
    IN [r |-> r, content_len |-> IF q.framing = "length" THEN q.body ELSE 0,
        is_chunked |-> q.framing = "chunked"]

Framed(r) ==
    LET q == script[r]
    IN [r |-> r,
        content_len |-> IF q.framing = "chunked" \/ q.status \in {100, 204, 304} THEN 0
                        ELSE IF q.framing = "length" THEN q.body ELSE -1,
        is_chunked |-> q.framing = "chunked"]

EndOfHeader(b) == SelectInSeq(b, LAMBDA x : x.k = "H")

(* Faulty: a byte more than the buffer holds is read. *)
OneTooMany(k) == Len(buf) + k <= BufSize + 1

(* A round of read_message, and what get_message and get_response make of it. *)
Room(k) == Len(buf) + k <= BufSize
Receive ==
    /\ pc = "get" /\ wire # <<>>
    /\ \E k \in 1 .. Len(wire) :
         /\ Room(k)
         /\ wire' = SubSeq(wire, k + 1, Len(wire))
         /\ buf' = buf \o SubSeq(wire, 1, k)
    /\ IF EndOfHeader(buf') = 0 THEN UNCHANGED <<response, seen, pc, ebuf>>
       ELSE IF buf'[1].k # "h" THEN GetFails
       ELSE /\ response' = Framed(buf'[1].r)
            /\ UNCHANGED ebuf
            /\ IF mode = "download" /\ ebuf = "text" THEN pc' = "closing" /\ UNCHANGED seen
               ELSE pc' = "body" /\ seen' = Append(seen, [r |-> buf'[1].r, body |-> 0, cut |-> FALSE])
    /\ waited' = IF pc' = "body" THEN 0 ELSE waited
    /\ UNCHANGED <<mode, ebuf_len, holds, script, todo, open, sent, timeout>>

GiveUp ==
    /\ pc = "get" /\ wire = <<>>
    /\ ~open \/ waited > timeout
    /\ GetFails
    /\ UNCHANGED <<mode, ebuf_len, holds, server, sent, buf, timeout, waited>>

TooLarge ==
    /\ pc = "get" /\ Len(buf) = BufSize /\ GetFails
    /\ UNCHANGED <<mode, ebuf_len, holds, server, sent, buf, timeout, waited>>

(* Time passes while the server is silent. *)
Wait ==
    /\ pc \in {"get", "body"} /\ wire = <<>> /\ open /\ waited <= MaxWait
    /\ todo = <<>> \/ "silent" \in Faults
    /\ waited' = waited + 1
    /\ UNCHANGED <<mode, ebuf_len, ebuf, holds, server, sent, buf, response, timeout, pc, seen>>

(* mg_read, a token at a time: what is left in the buffer, then the socket. *)
AfterHeader == SubSeq(buf, EndOfHeader(buf) + 1, Len(buf))
Newest == Len(seen)
BodyEnds ==
    \/ response.content_len = seen[Newest].body /\ ~response.is_chunked
    \/ AfterHeader = <<>> /\ wire = <<>> /\ ~open
Read ==
    /\ pc = "body" /\ seen[Newest].r # 0 /\ ~BodyEnds
    /\ LET rest == AfterHeader \o wire
       IN /\ rest # <<>>
          /\ IF AfterHeader # <<>>
             THEN buf' = SubSeq(buf, 1, EndOfHeader(buf)) \o Tail(AfterHeader) /\ UNCHANGED wire
             ELSE wire' = Tail(wire) /\ UNCHANGED buf
          /\ IF response.is_chunked /\ Head(rest).k = "e"
             THEN pc' = "up" /\ UNCHANGED seen
             ELSE seen' = [seen EXCEPT ![Newest].body = @ + 1] /\ UNCHANGED pc
    /\ waited' = 0
    /\ UNCHANGED <<mode, ebuf_len, ebuf, holds, script, todo, open, sent, response, timeout>>
ReadEnds ==
    /\ pc = "body" /\ seen[Newest].r # 0
    /\ \/ BodyEnds /\ pc' = (IF open THEN "up" ELSE "closing")
          /\ seen' = [seen EXCEPT ![Newest].cut = response.is_chunked \/ response.content_len > seen[Newest].body]
       \/ /\ ~BodyEnds /\ AfterHeader = <<>> /\ wire = <<>> /\ waited > Default
          /\ pc' = "closing" /\ seen' = [seen EXCEPT ![Newest].cut = TRUE]
    /\ UNCHANGED <<mode, ebuf_len, ebuf, holds, server, sent, buf, response, timeout, waited>>

(* mg_close_connection, by mg_download or by the caller. *)
Close ==
    /\ \/ pc = "closing"
       \/ pc = "up" /\ (sent = Len(script) \/ (mode = "download" /\ sent > 0))
       \/ pc = "body" /\ seen[Newest].r = 0
    /\ mem' = FALSE /\ sock' = FALSE /\ mutex' = FALSE /\ pc' = "closed"
    /\ UNCHANGED <<mode, ebuf_len, ebuf, server, sent, buf, response, timeout, waited, seen>>

Establish == Allocate \/ Resolve \/ OpenSocket \/ Connect \/ Poll \/ InitMutex
Caller == Send \/ GetNext \/ Receive \/ GiveUp \/ TooLarge \/ Read \/ ReadEnds \/ Close
Next == Establish \/ Caller \/ ServerSends \/ ServerCloses \/ Wait

(* The caller's thread runs, and time passes. *)
Spec == Init /\ [][Next]_vars /\ WF_vars(Establish) /\ WF_vars(Caller) /\ WF_vars(Wait)

-----------------------------------------------------------------------------
(* Properties *)

(* At whatever step connecting fails, and however the connection ends,     *)
(* neither its memory nor its socket nor its mutex is left, and as long as *)
(* the caller has it, it has all three.                                    *)
Released ==
    /\ pc \in {"failed", "closed"} => ~mem /\ ~sock /\ ~mutex
    /\ pc \in {"up", "get", "body", "closing"} => mem /\ sock /\ mutex

(* mg_download: "On success, valid pointer to the new connection, suitable *)
(* for mg_read().  On error, NULL.  error_buffer contains error message."  *)
(* A caller that has no response has no connection, and a message.         *)
ErrorsTold ==
    /\ pc = "body" => seen[Newest].r # 0
    /\ pc \in {"failed", "closing"} /\ seen = <<>> /\ ebuf_len > 0 => ebuf = "text"

(* Whatever of a body has come together with its header: what mg_read      *)
(* gives is the whole body of that response and no more.                   *)
BodyWhole ==
    \A i \in DOMAIN seen :
       (seen[i].r # 0 /\ ~seen[i].cut /\ (i < Newest \/ pc = "up")) => seen[i].body = script[seen[i].r].body

=============================================================================
