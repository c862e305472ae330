------------------------------ MODULE Response ------------------------------
(***************************************************************************)
(* The answer to one request, as a handler builds it with the functions of *)
(* response.inl and mg_send_http_ok, mg_send_http_redirect and             *)
(* mg_send_http_error (src/Server/civetweb/civetweb.c), in any order, over *)
(* a connection on which a write may fail.                                 *)
(*                                                                         *)
(* The state is one record r; out is what the client receives: "status"    *)
(* lines with their code, "header" lines with their name, the "blank"      *)
(* line, "body", and "text" (that of an error).                            *)
(***************************************************************************)
EXTENDS Naturals, Integers, Sequences, FiniteSets, SequencesExt

CONSTANTS
    MaxHeaders,     \* MG_MAX_HEADERS
    Additional,     \* the header lines that the configuration adds
    Names,          \* header names that a handler adds
    Codes,          \* status codes that a handler answers with
    ErrorPages,     \* codes that have an error page in the configured directory
    HasCallback,    \* callbacks.http_error is set
    Faults,         \* of {"send", "memory"}
    MaxCalls        \* calls a handler makes

HeadersAssumption == MaxHeaders \in Nat \ {0} /\ MaxCalls \in Nat

VARIABLES
    r,              \* the connection's record of the answer
    calls,          \* ghost: calls of the handler
    pc

vars == <<r, calls, pc>>

(* in_error: in_error_handler; kept, name, ret: ghosts of the last call: whether *)
(* every line of a header was written, which call it was, what it returned.      *)
NoAnswer == [state |-> 0, status |-> -1, headers |-> <<>>, must_close |-> FALSE,
             in_error |-> 0, out |-> <<>>, kept |-> TRUE, name |-> "none", ret |-> 0]

TypeOK ==
    /\ r.state \in {0, 1, 3, 10} /\ r.status \in Codes \cup {-1, 200, 206}
    /\ Len(r.headers) <= MaxHeaders
    /\ r.in_error \in 0 .. 1
    /\ calls \in 0 .. MaxCalls /\ pc \in {"handler", "done"}

Init == r = NoAnswer /\ calls = 0 /\ pc = "handler"

(* Bodies are for codes over 199 except 204 and 304. *)
HasBody(status) == status > 199 /\ status \notin {204, 304}

-----------------------------------------------------------------------------
(* response.inl, as functions of the record *)

Ret(q, n) == [q EXCEPT !.ret = n]

(* mg_write and mg_printf: what they write, or not when the write fails; the *)
(* connection counts as one on which data was sent in either case.           *)
Written(q, toks, ok) ==
    [q EXCEPT !.state = 10, !.out = IF ok THEN @ \o toks ELSE @, !.kept = @ /\ ok,
              !.ret = IF ok THEN 1 ELSE -1]

(* Faulty: a second start is taken, whatever the state. *)
StartAgain(q, status) ==
    IF status < 100 \/ status > 999 THEN Ret(q, -1)
    ELSE Ret([q EXCEPT !.status = status, !.state = 1, !.headers = <<>>], 0)

Start(q, status) ==
    IF status < 100 \/ status > 999 THEN Ret(q, -1)
    ELSE IF q.state # 0 THEN Ret(q, -3)
    ELSE Ret([q EXCEPT !.status = status, !.state = 1, !.headers = <<>>], 0)

(* Faulty: a line more than the table holds is taken. *)
AddOver(q, name, memory) ==
    IF q.state # 1 THEN Ret(q, -3)
    ELSE IF Len(q.headers) > MaxHeaders THEN Ret(q, -4)
    ELSE IF ~memory THEN Ret(q, -5)
    ELSE Ret([q EXCEPT !.headers = Append(@, name)], 0)

Add(q, name, memory) ==
    IF q.state # 1 THEN Ret(q, -3)
    ELSE IF Len(q.headers) >= MaxHeaders THEN Ret(q, -4)
    ELSE IF ~memory THEN Ret(q, -5)
    ELSE Ret([q EXCEPT !.headers = Append(@, name)], 0)

AddAll(q, names) == FoldLeft(LAMBDA p, name : Add(p, name, TRUE), q, names)

(* mg_response_header_add_lines: the number of lines, or the first error. *)
AddLines(q, names, memory) ==
    LET Step(acc, i) ==
            LET p == Add(acc.p, names[i], memory \/ i < Len(names))
            IN [p |-> p, ret |-> IF acc.ret > 0 /\ p.ret < 0 THEN p.ret ELSE acc.ret]
        end == FoldLeft(Step, [p |-> q, ret |-> Len(names)], [i \in 1 .. Len(names) |-> i])
    IN Ret(end.p, end.ret)

(* What mg_response_header_send writes, one write for each line.  *)
Lines(q) ==
    <<<<"status", q.status>>>>
      \o [i \in DOMAIN q.headers |-> <<"header", q.headers[i]>>]
      \o (IF \E i \in DOMAIN q.headers : q.headers[i] = "Date" THEN <<>> ELSE <<<<"header", "Date">>>>)
      \o (IF \E i \in DOMAIN q.headers : q.headers[i] = "Connection" THEN <<>>
          ELSE <<<<"header", IF q.must_close THEN "Connection: close" ELSE "Connection">>>>)
      \o <<<<"blank", 0>>>>

(* Which writes fail: none, one, or all from one on; of the lines the first, *)
(* the second and the last stand for all.                                    *)
Lost(q) ==
    LET n == Len(Lines(q)) IN
    {{}} \cup (IF "send" \in Faults THEN {{1}, {2}, {n}, 1 .. n, 2 .. n} ELSE {})

(* The result looks only at the write of the status line. *)
Send(q, lost) ==
    IF q.state # 1 THEN Ret(q, -3)
    ELSE IF 1 \in lost THEN [q EXCEPT !.state = 10, !.headers = <<>>, !.kept = FALSE, !.ret = -4]
    ELSE LET sent == SelectSeq([i \in DOMAIN Lines(q) |-> <<i, Lines(q)[i]>>], LAMBDA l : l[1] \notin lost)
         IN [q EXCEPT !.state = 3, !.headers = <<>>, !.kept = @ /\ lost = {}, !.ret = 0,
                      !.out = @ \o [i \in DOMAIN sent |-> sent[i][2]]]

-----------------------------------------------------------------------------
(* mg_send_http_ok, _redirect, _error *)

NoCache == <<"Cache-Control", "Expires", "Pragma">>
MimeOf(length) == <<"Content-Type", IF length < 0 THEN "Transfer-Encoding" ELSE "Content-Length">>

OkHeader(q, length) ==
    AddAll(AddLines(AddAll(Start(q, 200), NoCache), Additional, TRUE), MimeOf(length))
RedirectHeader(q, code) ==
    AddAll(AddLines(AddAll(Start(q, code), <<"Location">> \o NoCache), Additional, TRUE), <<"Content-Length">>)

(* The default error page: the header first (it may be too late for one), *)
(* then the text.                                                          *)
ErrorHeader(q, status) ==
    AddAll(AddLines(AddAll(Start([q EXCEPT !.must_close = TRUE], status), NoCache), Additional, TRUE),
           IF HasBody(status) THEN <<"Content-Type">> ELSE <<>>)
DefaultPage(q, status, lost, ok) ==
    LET h == Send(ErrorHeader(q, status), lost)
    IN IF HasBody(status) THEN Written(h, <<<<"text", status>>>>, ok) ELSE h

(* An error page of the configuration: a file, sent by                     *)
(* handle_file_based_request with a header of its own.                     *)
ErrorPage(q, lost, ok) ==
    LET h == Send(AddAll(Start([q EXCEPT !.status = 200], 200), <<"Content-Length">>), lost)
    IN Written(h, <<<<"body", 0>>>>, ok)

(* The callback: it handles the error itself with an answer of its own,    *)
(* or calls mg_send_http_error for the default page; in_error stops a      *)
(* second callback.                                                        *)
Error(q, status, lost, ok, own) ==
    LET e == [q EXCEPT !.status = status]
    IN IF HasCallback /\ q.in_error = 0 /\ own = "header"
         THEN Written(Send(Start(e, status), lost), <<<<"body", 0>>>>, ok)
       ELSE IF HasCallback /\ q.in_error = 0 /\ own = "again"
         THEN [DefaultPage([e EXCEPT !.in_error = 1], status, lost, ok) EXCEPT !.in_error = 0]
       ELSE IF q.in_error = 0 /\ status \in ErrorPages
         THEN [ErrorPage([e EXCEPT !.in_error = 1], lost, ok) EXCEPT !.in_error = 0]
       ELSE DefaultPage(e, status, lost, ok)

-----------------------------------------------------------------------------
(* The handler: any of these, in any order. *)
Call(name, q) ==
    /\ pc = "handler" /\ calls < MaxCalls
    /\ calls' = calls + 1 /\ r' = [q EXCEPT !.name = name] /\ UNCHANGED pc
Old == [r EXCEPT !.kept = TRUE]
Memory == IF "memory" \in Faults THEN BOOLEAN ELSE {TRUE}
Sends == IF "send" \in Faults THEN BOOLEAN ELSE {TRUE}

StartHeader == \E code \in Codes : Call("start", Start(Old, code))
AddHeader == \E name \in Names, m \in Memory : Call("add", Add(Old, name, m))
AddHeaderLines == \E k \in {1, 2, MaxHeaders}, name \in Names, m \in Memory :
                     Call("lines", AddLines(Old, [i \in 1 .. k |-> name], m))
SendHeader == \E lost \in Lost(Old) : Call("send", Send(Old, lost))
Write == \E ok \in Sends : Call("write", Written(Old, <<<<"body", 0>>>>, ok))
SendOk == \E length \in {-1, 1} : \E lost \in Lost(OkHeader(Old, length)) :
            Call("ok", Ret(Send(OkHeader(Old, length), lost), 0))
SendRedirect ==
    \E code \in Codes :
       IF code \notin {301, 302, 303, 307, 308} THEN Call("redirect", Ret(Old, -2))
       ELSE \E lost \in Lost(RedirectHeader(Old, code)) :
              Call("redirect", Ret(Send(RedirectHeader(Old, code), lost), 1))
SendError ==
    \E code \in Codes, ok \in Sends, own \in {"header", "again", "none"} :
       \E lost \in Lost(ErrorHeader(Old, code)) : Call("error", Ret(Error(Old, code, lost, ok, own), 0))

(* process_new_connection, when the handler has returned. *)
Finish ==
    /\ pc = "handler" /\ pc' = "done"
    /\ r' = [r EXCEPT !.headers = <<>>]
    /\ UNCHANGED calls

Next == \/ StartHeader \/ AddHeader \/ AddHeaderLines \/ SendHeader \/ Write
        \/ SendOk \/ SendRedirect \/ SendError \/ Finish
Spec == Init /\ [][Next]_vars

-----------------------------------------------------------------------------
(* Properties *)

Kinds == [i \in DOMAIN r.out |-> r.out[i][1]]

(* Whatever a handler calls, in whatever order: there is one status line at *)
(* most, nothing before it, no header line behind the blank line, and no    *)
(* header without a status.                                                 *)
HeadIsFirst ==
    \A i \in DOMAIN r.out :
        /\ Kinds[i] = "status" => i = 1
        /\ Kinds[i] \in {"header", "blank"} =>
              Kinds[1] = "status" /\ \A j \in 2 .. i - 1 : Kinds[j] = "header"

(* mg_response_header_add_lines returns how many lines it has added, or an *)
(* error when one of them was not.                                         *)
LinesCounted ==
    (r'.name = "lines" /\ calls' > calls /\ r'.ret >= 0) =>
       Len(r'.headers) = Len(r.headers) + r'.ret

(* The text of an error is the last answer on its connection: it is closed, *)
(* so that the client sees where the text ends.                             *)
ErrorCloses ==
    (\E i \in DOMAIN r.out : Kinds[i] = "text") => r.must_close

=============================================================================
