----------------------------- MODULE Connection -----------------------------
(***************************************************************************)
(* One connection of the HTTP front end, from its first byte to its close  *)
(* (src/Server/civetweb/civetweb.c): process_new_connection, get_request,  *)
(* read_message, and mg_read as request handlers call it.                  *)
(*                                                                         *)
(* What the client sends is a sequence of tokens [r, k, n]: r is the       *)
(* number of the request, k one of "head" (a part of a header), "end" (its *)
(* blank line), "bad" (an illegal character), "data" (of a body), "size"   *)
(* (n >= 0: the size line of a chunk of n data), "crlf" (after a chunk),   *)
(* "trailer" and "blank" (the end of a chunked body).  Lengths count       *)
(* tokens, and a request's numbers (length, n) count them too.             *)
(***************************************************************************)
EXTENDS Naturals, Integers, Sequences, FiniteSets, SequencesExt

CONSTANTS
    Streams,        \* what a client may send: sequences of requests
    BufSize,        \* max_request_size
    KeepAlive,      \* enable_keep_alive is "yes" (the default is "no")
    ReadSizes,      \* sizes a handler asks mg_read for
    Faults          \* of {"timeout", "gone", "stop"}

BufferAssumption == BufSize \in Nat \ {0} /\ ReadSizes \subseteq Nat \ {0}

VARIABLES
    reqs,           \* the requests of this client
    wire,           \* tokens that have not been received
    buf,            \* conn->buf[0 .. data_len)
    conn,           \* the attributes of the connection
    call,           \* the handler's call of mg_read: len, all_read, ret
    pc,
    stop,           \* stop_flag
    gone,           \* the client has closed
    body,           \* ghost: what the handler has received of this body
    answered,       \* ghost: [r, status] in the order of the answers
    said            \* ghost: what a handler has told the client in "Connection:"

vars == <<reqs, wire, buf, conn, call, pc, stop, gone, body, answered, said>>

Closing == 0        \* a status: closed without an answer
Handled == 200      \* a status: handed to a request handler

Smaller(a, b) == IF a < b THEN a ELSE b
Tokens(r, q) ==
    [i \in 1 .. q.head |-> [r |-> r, k |-> IF i < q.head THEN "head" ELSE q.ends, n |-> 0]]
      \o [i \in 1 .. Len(q.body) |-> [r |-> r, k |-> q.body[i][1], n |-> q.body[i][2]]]
DataOf(r) == SelectSeq(Tokens(r, reqs[r]), LAMBDA t : t.k = "data")

TypeOK ==
    /\ conn.request_len \in -3 .. BufSize
    /\ conn.is_chunked \in 0 .. 4
    /\ conn.must_close \in BOOLEAN
    /\ conn.content_len >= -1 /\ conn.consumed >= 0
    /\ pc \in {"read", "handle", "chunk", "data", "crlf", "size", "trailer", "after", "close", "closed"}
    /\ call.ret >= -1

(* reset_per_request_attributes *)
Fresh == [request_len |-> 0, consumed |-> 0, content_len |-> -1, is_chunked |-> 0,
          must_close |-> FALSE]
NoCall == [len |-> 0, all_read |-> 0, ret |-> 1]

Init ==
    /\ reqs \in Streams
    /\ wire = FlattenSeq([r \in DOMAIN reqs |-> Tokens(r, reqs[r])])
    /\ buf = <<>> /\ conn = Fresh /\ call = NoCall /\ pc = "read"
    /\ stop = FALSE /\ gone = FALSE
    /\ body = <<>> /\ answered = <<>> /\ said = "nothing"

-----------------------------------------------------------------------------
(* The world: the server is stopped; the client closes. *)
Stop == /\ "stop" \in Faults /\ ~stop /\ stop' = TRUE
        /\ UNCHANGED <<reqs, wire, buf, conn, call, pc, gone, body, answered, said>>
Leave == /\ "gone" \in Faults /\ ~gone /\ gone' = TRUE
         /\ UNCHANGED <<reqs, wire, buf, conn, call, pc, stop, body, answered, said>>

(* get_http_header_len: -1 for an illegal character, 0 for a header that  *)
(* is not complete.                                                       *)
HeaderLen ==
    LET marks == {i \in DOMAIN buf : buf[i].k \in {"end", "bad"}}
    IN IF marks = {} THEN 0
       ELSE LET i == CHOOSE i \in marks : \A j \in marks : i <= j
            IN IF buf[i].k = "bad" THEN -1 ELSE i

Answer(r, status) == answered' = Append(answered, [r |-> r, status |-> status])

(* What get_message makes of read_message's -1, -2 and -3.  *)
MessageStatus(len) ==
    CASE len = 0 /\ Len(buf) = BufSize -> 413
      [] Len(buf) > 0                  -> 400
      [] OTHER                         -> Closing

NoMessage(len) ==
    /\ conn' = [conn EXCEPT !.request_len = len, !.must_close = TRUE]
    /\ IF MessageStatus(len) = Closing THEN UNCHANGED answered
       ELSE Answer(IF buf = <<>> THEN 0 ELSE buf[1].r, MessageStatus(len))
    /\ pc' = "after"
    /\ UNCHANGED <<wire, buf>>

(* One round of read_message. *)
Receive ==
    /\ pc = "read" /\ HeaderLen = 0 /\ ~stop /\ Len(buf) < BufSize /\ ~gone
    /\ \E k \in 1 .. Smaller(BufSize - Len(buf), Len(wire)) :
         /\ buf' = buf \o SubSeq(wire, 1, k)
         /\ wire' = SubSeq(wire, k + 1, Len(wire))
    /\ UNCHANGED <<reqs, conn, call, pc, stop, gone, body, answered, said>>

(* Faulty: the time a header may take has no end. *)
GiveUpNever ==
    /\ pc = "read" /\ HeaderLen <= 0
    /\ \/ HeaderLen = -1 /\ NoMessage(-1)
       \/ HeaderLen = 0 /\ (stop \/ gone) /\ NoMessage(-1)
       \/ HeaderLen = 0 /\ ~stop /\ Len(buf) >= BufSize /\ NoMessage(-2)
    /\ UNCHANGED <<reqs, call, stop, gone, body, said>>

GiveUp ==
    /\ pc = "read" /\ HeaderLen <= 0
    /\ \/ HeaderLen = -1 /\ NoMessage(-1)
       \/ HeaderLen = 0 /\ (stop \/ gone) /\ NoMessage(-1)
       \/ HeaderLen = 0 /\ ~stop /\ Len(buf) >= BufSize /\ NoMessage(-2)
       \/ HeaderLen = 0 /\ ~stop /\ Len(buf) < BufSize
            /\ ("timeout" \in Faults \/ wire = <<>>) /\ NoMessage(-3)
    /\ UNCHANGED <<reqs, call, stop, gone, body, said>>

(* get_request after its message is there, and process_new_connection up to *)
(* the call of the handler: the status of an answer without a handler.      *)
Refusal(q) ==
    CASE q.line = "bad" \/ q.te = "other"               -> 400
      [] q.te # "chunked" /\ q.length = "bad"           -> 411
      [] q.version \notin {"1.0", "1.1"}                -> 505
      [] q.uri = "bad"                                  -> 400
      [] q.uri \in {"asterisk", "foreign"}              -> Closing
      [] OTHER                                          -> Handled

(* The framing of a body, which get_request finds in the header.  *)
Framed(q, len) ==
    [conn EXCEPT !.request_len = len,
                 !.is_chunked = IF q.te = "chunked" THEN 1 ELSE 0,
                 !.content_len = IF q.line = "bad" \/ q.te = "other" THEN -1
                                 ELSE IF q.te = "chunked" \/ q.length = "none" THEN 0
                                 ELSE IF q.length = "bad" THEN -1
                                 ELSE Len(q.body)]

GetRequest ==
    /\ pc = "read" /\ HeaderLen > 0
    /\ LET r == buf[HeaderLen].r
           status == Refusal(reqs[r])
       IN /\ conn' = [Framed(reqs[r], HeaderLen) EXCEPT !.must_close = status # Handled]
          /\ IF status = Closing THEN UNCHANGED answered ELSE Answer(r, status)
          /\ pc' = IF status = Handled THEN "handle" ELSE "after"
    /\ body' = <<>> /\ call' = NoCall
    /\ UNCHANGED <<reqs, wire, buf, stop, gone, said>>

Current == reqs[buf[conn.request_len].r]

-----------------------------------------------------------------------------
(* mg_read *)

(* Plausible mistakes. *)

(* What pull_inner can have brought of k tokens: nothing after a stop or  *)
(* from a client that has closed.                                         *)
Arrives(k) == k = 0 \/ (~stop /\ ~gone /\ k <= Len(wire))

(* pull_all of len tokens: all, fewer after a timeout or a stop, or -1.   *)
PullAll(len) ==
    {k \in {len} : Arrives(k)}
      \cup {k \in 0 .. len - 1 : Arrives(k) /\ ("timeout" \in Faults \/ stop \/ Len(wire) = k)}
      \cup {k \in {-1} : len > 0 /\ (stop \/ gone)}

(* Faulty: the body begins behind the header again at every read. *)
UnreadAgain == conn.request_len

(* The next byte of the body in the buffer, and mg_read_inner's result from *)
(* b buffered tokens and n that pull_all returned.                          *)
Unread == conn.request_len + conn.consumed

Total(b, n) == IF n >= 0 THEN b + n ELSE IF b > 0 THEN b ELSE n

(* mg_read_inner: what a read of len tokens within content_len cl can come *)
(* to.  ret is its result, toks what it has stored, pulled what came from  *)
(* the socket, n what was consumed.                                        *)
Reads(len, cl) ==
    LET want   == Smaller(len, cl - conn.consumed)
        there  == Len(buf) - conn.request_len - conn.consumed
        b      == IF there > 0 THEN Smaller(want, there) ELSE 0
        Result(n) == LET k == IF n < 0 THEN 0 ELSE n
                     IN [toks |-> SubSeq(buf, Unread + 1, Unread + b) \o SubSeq(wire, 1, k),
                         pulled |-> k, ret |-> Total(b, n), n |-> b + k]
    IN IF conn.consumed >= cl THEN {[toks |-> <<>>, pulled |-> 0, ret |-> 0, n |-> 0]}
       ELSE {Result(n) : n \in PullAll(want - b)}

Took(o, cl) ==
    /\ wire' = SubSeq(wire, o.pulled + 1, Len(wire))
    /\ conn' = [conn EXCEPT !.consumed = @ + o.n, !.content_len = cl]
Returns(ret) == call' = [call EXCEPT !.ret = ret] /\ pc' = "handle"
(* No later call looks at consumed_content of a broken body. *)
Broken == conn' = [conn EXCEPT !.is_chunked = 2] /\ Returns(-1)
SameRequest == UNCHANGED <<reqs, buf, stop, gone, answered, said>>

(* A body of known length. *)
ReadPlain(len) ==
    /\ conn.is_chunked = 0
    /\ \E o \in Reads(len, conn.content_len) :
         /\ Took(o, conn.content_len)
         /\ body' = body \o o.toks
         /\ call' = [len |-> len, all_read |-> 0, ret |-> o.ret]
    /\ UNCHANGED pc

(* A chunked body: mg_read's loop, which starts a round with "chunk". *)
ReadChunked(len) ==
    /\ conn.is_chunked # 0
    /\ call' = [len |-> len, all_read |-> 0, ret |-> 0] /\ pc' = "chunk"
    /\ UNCHANGED <<conn, wire, body>>

Read == /\ pc = "handle"
        /\ \E len \in ReadSizes : ReadPlain(len) \/ ReadChunked(len)
        /\ SameRequest

Round ==
    /\ pc = "chunk"
    /\ \/ call.len = 0 /\ Returns(call.all_read)
       \/ call.len > 0 /\ conn.is_chunked >= 3 /\ Returns(0)
       \/ call.len > 0 /\ conn.is_chunked = 2 /\ Returns(-1)
       \/ /\ call.len > 0 /\ conn.is_chunked = 1
          /\ pc' = IF conn.consumed # conn.content_len THEN "data" ELSE "size"
          /\ UNCHANGED call
    /\ UNCHANGED <<conn, wire, body>> /\ SameRequest

(* Copy from the current chunk. *)
ReadData ==
    /\ pc = "data"
    /\ \E o \in Reads(call.len, conn.content_len) :
         IF o.ret < 1 THEN Broken /\ UNCHANGED <<wire, body>>
         ELSE /\ Took(o, conn.content_len)
              /\ body' = body \o o.toks
              /\ call' = [call EXCEPT !.all_read = @ + o.ret, !.len = @ - o.ret]
              /\ pc' = IF conn.consumed + o.n = conn.content_len THEN "crlf" ELSE "chunk"
    /\ SameRequest

(* The line end behind the chunk's data. *)
ReadCrlf ==
    /\ pc = "crlf"
    /\ \E o \in Reads(1, conn.content_len + 1) :
         IF o.ret = 1 /\ o.toks[1].k = "crlf"
         THEN Took(o, conn.content_len + 1) /\ pc' = "chunk" /\ UNCHANGED call
         ELSE Broken /\ wire' = SubSeq(wire, o.pulled + 1, Len(wire))
    /\ UNCHANGED body /\ SameRequest

(* Fetch a new chunk: its size line; size 0 is the regular end of content. *)
ReadSize ==
    /\ pc = "size"
    /\ \E o \in Reads(1, conn.content_len + 1) :
         IF o.ret = 1 /\ o.toks[1].k = "size"
         THEN LET size == o.toks[1].n
              IN /\ wire' = SubSeq(wire, o.pulled + 1, Len(wire))
                 /\ conn' = [conn EXCEPT !.consumed = @ + 1,
                                         !.content_len = @ + 1 + size,
                                         !.is_chunked = IF size = 0 THEN 3 ELSE 1]
                 /\ pc' = IF size = 0 THEN "trailer" ELSE "chunk"
                 /\ UNCHANGED call
         ELSE Broken /\ wire' = SubSeq(wire, o.pulled + 1, Len(wire))
    /\ UNCHANGED body /\ SameRequest

(* Discard the trailer, up to a blank line. *)
ReadTrailer ==
    /\ pc = "trailer"
    /\ \E o \in Reads(1, conn.content_len + 1) :
         CASE o.ret = 1 /\ o.toks[1].k = "blank" ->
                /\ wire' = SubSeq(wire, o.pulled + 1, Len(wire))
                /\ conn' = [conn EXCEPT !.consumed = @ + 1, !.content_len = @ + 1, !.is_chunked = 4]
                /\ Returns(call.all_read)
           [] o.ret = 1 /\ o.toks[1].k = "trailer" ->
                Took(o, conn.content_len + 1) /\ UNCHANGED <<call, pc>>
           [] OTHER -> Broken /\ wire' = SubSeq(wire, o.pulled + 1, Len(wire))
    /\ UNCHANGED body /\ SameRequest

-----------------------------------------------------------------------------
(* should_keep_alive *)
ShouldKeepAlive ==
    /\ ~conn.must_close /\ KeepAlive
    /\ \/ Current.connection = "keep-alive"
       \/ Current.connection = "none" /\ Current.version = "1.1"

(* A handler writes a header, with suggest_connection_header in it. *)
SayConnection ==
    /\ pc = "handle" /\ said = "nothing"
    /\ said' = IF ShouldKeepAlive THEN "keep-alive" ELSE "close"
    /\ UNCHANGED <<reqs, wire, buf, conn, call, pc, stop, gone, body, answered>>

HandlerReturns ==
    /\ pc = "handle" /\ pc' = "after"
    /\ UNCHANGED <<reqs, wire, buf, conn, call, stop, gone, body, answered, said>>

(* The loop condition of process_new_connection. *)
Discardable ==
    \/ conn.is_chunked = 4
    \/ /\ conn.is_chunked = 0
       /\ \/ conn.consumed = conn.content_len
          \/ conn.request_len + conn.content_len <= Len(buf)

Keep == ~stop /\ conn.request_len > 0 /\ conn.content_len >= 0 /\ ShouldKeepAlive /\ Discardable

(* data_len after the discard. *)
Rest == LET n == Smaller(conn.request_len + conn.content_len, Len(buf))
        IN SubSeq(buf, n + 1, Len(buf))

NextRequest ==
    /\ pc = "after"
    /\ IF Keep
       THEN buf' = Rest /\ conn' = Fresh /\ pc' = "read"
       ELSE pc' = "close" /\ UNCHANGED <<buf, conn>>
    /\ said' = "nothing" /\ body' = <<>> /\ call' = NoCall
    /\ UNCHANGED <<reqs, wire, stop, gone, answered>>

CloseConnection ==
    /\ pc = "close" /\ pc' = "closed"
    /\ conn' = [conn EXCEPT !.must_close = TRUE]
    /\ UNCHANGED <<reqs, wire, buf, call, stop, gone, body, answered, said>>

Worker == Receive \/ GiveUp \/ GetRequest \/ Round \/ ReadData \/ ReadCrlf \/ ReadSize
            \/ ReadTrailer \/ NextRequest \/ CloseConnection
Next == Stop \/ Leave \/ Worker \/ Read \/ SayConnection \/ HandlerReturns

(* The worker's thread runs, poll() times out, and handlers return. *)
Spec == Init /\ [][Next]_vars /\ WF_vars(Worker) /\ SF_vars(HandlerReturns)

-----------------------------------------------------------------------------

(* Where a request is looked for, one starts: what is left in the buffer,  *)
(* then on the wire, begins with a header or is empty.  Bytes of a body    *)
(* are never taken for the next request.                                   *)
InStep ==
    (pc = "read" /\ buf \o wire # <<>>) =>
        LET t == (buf \o wire)[1] IN t.k \in {"head", "end", "bad"} /\ t.r = Len(answered) + 1

(* A handler receives its own request's body from the first byte, without  *)
(* a gap, framing left out; and the end of a chunked body after all of it. *)
BodyExact ==
    pc \in {"handle", "chunk", "after"} /\ body # <<>> =>
        LET d == DataOf(buf[conn.request_len].r)
        IN /\ Len(body) <= Len(d) /\ body = SubSeq(d, 1, Len(body))
           /\ conn.is_chunked = 4 => body = d

(* DEBUG_ASSERTs of get_message and process_new_connection.                *)
BufferSound ==
    /\ Len(buf) <= BufSize
    /\ conn.request_len > 0 => Len(buf) >= conn.request_len

(* A handler that has told the client "Connection: close" is not followed  *)
(* by another request on that connection.                                  *)
ClosedAsSaid == said = "close" => pc' # "read"

=============================================================================
