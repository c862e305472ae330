---------------------------- MODULE MultipartForm ----------------------------
(***************************************************************************)
(* mg_handle_form_request (src/Server/civetweb/handle_form.inl) for forms  *)
(* that are multipart/form-data: parts with a header and a content of any  *)
(* length, told apart by a boundary that may lie across two blocks.        *)
(*                                                                         *)
(* A body is a sequence of symbols: "nl" for CRLF, "-" for the two dashes, *)
(* "b" for the boundary, one symbol for the header fields of a part, and   *)
(* any other for a piece of content.  The delimiter is three symbols long, *)
(* bl + 4 characters in the code.                                          *)
(***************************************************************************)
EXTENDS Naturals, Integers, Sequences, FiniteSets, SequencesExt

CONSTANTS
    Forms,          \* records [preamble, parts, epilogue]; a part is [name, content, padding]
    Names,          \* the headers with a name; any other is without one
    Size,           \* sizeof(buf) - 1
    MaxPreamble,    \* 1024
    Storages,       \* what field_found may answer: "skip", "get", "store", "abort"
    Handles,        \* what field_get and field_store may: "get", "next", "abort"
    Faults          \* of {"error", "timeout", "close", "open", "write", "fclose"}

FormAssumption == Size \in Nat \ {0} /\ MaxPreamble \in Nat

VARIABLES
    form,
    rest,           \* what the client has still to send before it goes away
    buf, hend, next,\* the buffer; where the content and the next delimiter begin in it
    part_no, all_data_read, abort_read,
    storage,        \* field_storage, of the present part
    file,           \* fstore: its state, and what it has
    field_count, result, pc,
    parts           \* ghost: what the callbacks were given, part by part

vars == <<form, rest, buf, hend, next, part_no, all_data_read, abort_read, storage, file,
          field_count, result, pc, parts>>

NoFile == [state |-> "none", data |-> <<>>]

-----------------------------------------------------------------------------
(* Bodies *)

DashBoundary == <<"-", "b">>
Delimiter == <<"nl", "-", "b">>
Blank(n) == [i \in 1 .. n |-> "pad"]
Part(p) == DashBoundary \o Blank(p.padding) \o <<"nl", p.name, "nl", "nl">> \o p.content \o <<"nl">>
Encoded(f) == f.preamble \o FlattenSeq([i \in DOMAIN f.parts |-> Part(f.parts[i])])
              \o DashBoundary \o <<"-">> \o f.epilogue

From(s, i) == SubSeq(s, i, Len(s))
At(s, i, t) == i + Len(t) <= Len(s) + 1 /\ SubSeq(s, i, i + Len(t) - 1) = t
(* The first place of s, from i on, where t is; 0 when there is none. *)
strstr(s, i, t) == SelectInSeq([p \in DOMAIN s |-> p], LAMBDA p : p >= i /\ At(s, p, t))
search_boundary(s, i) == strstr(s, i, Delimiter)

SkipPreamble(s) ==
    LET p == strstr(s, 2, <<"b">>)
    IN IF p = 0 \/ p > MaxPreamble + 2 THEN s ELSE From(s, p - 1)

(* Where the line of a boundary goes on after the padding. *)
AfterPadding(s) ==
    SelectInSeq([p \in DOMAIN s |-> p], LAMBDA p : p > Len(DashBoundary) /\ s[p] # "pad")
HeaderEnd(s, i) == strstr(s, i, <<"nl", "nl">>)

-----------------------------------------------------------------------------

TypeOK ==
    /\ Len(buf) <= Size /\ hend \in 1 .. Size + 1 /\ next \in 0 .. Size
    /\ file.state \in {"none", "open", "stored", "removed"} /\ storage \in Storages \cup {"skip"}
    /\ field_count = Len(parts) /\ result >= -1
    /\ pc \in {"part", "block", "end", "done"}
    /\ (pc = "end" /\ next # 0) => next >= hend

Init ==
    /\ form \in Forms
    /\ \E n \in IF "close" \in Faults THEN 0 .. Len(Encoded(form)) ELSE {Len(Encoded(form))} :
          rest = SubSeq(Encoded(form), 1, n)
    /\ buf = <<>> /\ hend = 1 /\ next = 0 /\ part_no = 0
    /\ all_data_read = FALSE /\ abort_read = FALSE
    /\ storage = "skip" /\ file = NoFile /\ field_count = 0 /\ result = 0 /\ pc = "part"
    /\ parts = <<>>

Finish(r) == result' = r /\ pc' = "done"

Smaller(a, b) == IF a < b THEN a ELSE b

(* mg_read of n symbols at most: as many as there are, or fewer after a    *)
(* timeout; -1 stands for an error.                                        *)
Arrived(n) == {Smaller(n, Len(rest))}
              \cup (IF "timeout" \in Faults THEN 0 .. Smaller(n, Len(rest)) ELSE {})
              \cup (IF "error" \in Faults THEN {-1} ELSE {})

ReadFails(k) == k = -1 \/ (k = 0 /\ all_data_read)

(* field_get is given a piece of the present part. *)
GotMore(piece, h) ==
    parts' = [parts EXCEPT ![field_count].got = @ \o piece,
                           ![field_count].whole = @ /\ h = "get"]

Removed(f) == IF f.state = "open" THEN [f EXCEPT !.state = "removed"] ELSE f

-----------------------------------------------------------------------------
(* A part begins: more of the body is read, and the part's header has to   *)
(* be in the buffer.                                                       *)
FoundPart(b, name) ==
    /\ storage' \in Storages
    /\ field_count' = field_count + 1
    /\ parts' = Append(parts, [name |-> name, storage |-> storage', got |-> <<>>, whole |-> TRUE,
                               file |-> "none", data |-> <<>>])
    /\ file' \in (IF storage' = "store"
                  THEN {[NoFile EXCEPT !.state = "open"]}
                       \cup (IF "open" \in Faults THEN {NoFile} ELSE {})
                  ELSE {NoFile})
    /\ LET line == AfterPadding(b) + 1
       IN /\ hend' = HeaderEnd(b, line) + 2
          /\ next' = search_boundary(b, HeaderEnd(b, line) + 1)
    /\ pc' = IF next' = 0 THEN "block" ELSE "end"

PartHeader(b) ==
    LET after == AfterPadding(b)
        head == HeaderEnd(b, after + 1)
    IN IF ~At(b, 1, DashBoundary) \/ after = 0
       THEN Finish(-1) /\ UNCHANGED <<hend, next, storage, file, field_count, parts>>
       ELSE IF b[after] # "nl"
       THEN /\ Finish(IF b[after] = "-" THEN field_count ELSE -1)
            /\ UNCHANGED <<hend, next, storage, file, field_count, parts>>
       ELSE IF head = 0 \/ b[after + 1] \notin Names
       THEN Finish(-1) /\ UNCHANGED <<hend, next, storage, file, field_count, parts>>
       ELSE FoundPart(b, b[after + 1]) /\ UNCHANGED result

BeginPart ==
    /\ pc = "part"
    /\ \E k \in Arrived(Size - Len(buf)) :
         IF ReadFails(k)
         THEN Finish(-1) /\ UNCHANGED <<rest, buf, hend, next, storage, file, field_count, parts, all_data_read>>
         ELSE LET b == buf \o SubSeq(rest, 1, k)
              IN /\ rest' = From(rest, k + 1)
                 /\ all_data_read' = IF k = 0 THEN buf = <<>> ELSE all_data_read
                 /\ buf' = IF part_no = 0 THEN SkipPreamble(b) ELSE b
                 /\ PartHeader(buf')
    /\ UNCHANGED <<form, part_no, abort_read>>

-----------------------------------------------------------------------------
(* A round of the loop that looks for the delimiter: what is in the buffer *)
(* goes to the callback or the file, but for as much of it as may be the   *)
(* beginning of a delimiter.                                               *)

(* Faulty: one symbol too few is kept; the whole delimiter is never        *)
(* missed, a part is.                                                      *)
KeptLess == Len(Delimiter) - 2

Kept == Len(Delimiter)

ReadBlock(tail, written) ==
    \E k \in Arrived(Size - Kept) :
       IF ReadFails(k)
       THEN /\ file' = Removed(written)
            /\ Finish(-1) /\ buf' = tail
            /\ UNCHANGED <<rest, hend, next, all_data_read>>
       ELSE /\ buf' = tail \o SubSeq(rest, 1, k)
            /\ rest' = From(rest, k + 1)
            /\ hend' = 1
            /\ next' = search_boundary(buf', 1)
            /\ all_data_read' = (all_data_read \/ (next' = 0 /\ k = 0))
            /\ file' = written
            /\ pc' = IF next' = 0 THEN "block" ELSE "end"
            /\ UNCHANGED result

Written(piece) ==
    {[file EXCEPT !.data = @ \o piece]}
    \cup (IF "write" \in Faults THEN {Removed(file)} ELSE {})

Block ==
    /\ pc = "block"
    /\ LET available == Len(buf) - hend + 1
           piece == SubSeq(buf, hend, Len(buf) - Kept)
           tail == SubSeq(buf, Len(buf) - Kept + 1, Len(buf))
       IN IF available < Kept
          THEN /\ Finish(-1)
               /\ UNCHANGED <<rest, buf, hend, next, all_data_read, abort_read, storage, file, parts>>
          ELSE \/ /\ storage = "get"
                  /\ \E h \in Handles :
                       /\ GotMore(piece, h)
                       /\ abort_read' = (abort_read \/ h = "abort")
                       /\ storage' = IF h = "next" THEN "skip" ELSE storage
                       /\ IF h = "abort"
                          THEN pc' = "end" /\ UNCHANGED <<rest, buf, hend, next, all_data_read, file, result>>
                          ELSE ReadBlock(tail, file)
               \/ /\ storage = "store" /\ file.state = "open"
                  /\ \E written \in Written(piece) : ReadBlock(tail, written)
                  /\ UNCHANGED <<abort_read, storage, parts>>
               \/ /\ storage # "get" /\ ~(storage = "store" /\ file.state = "open")
                  /\ ReadBlock(tail, file)
                  /\ UNCHANGED <<abort_read, storage, parts>>
    /\ UNCHANGED <<form, part_no, field_count>>

-----------------------------------------------------------------------------
(* The delimiter has been found, or the callback has said stop: the rest   *)
(* of the content is handled, and the delimiter comes to the front.        *)
NextPart ==
    /\ buf' = IF next # 0 THEN From(buf, next + 1) ELSE <<>>
    /\ part_no' = part_no + 1 /\ pc' = "part" /\ UNCHANGED result

(* Breaking out of the loop over the parts. *)
Stop == abort_read' = TRUE /\ Finish(field_count) /\ UNCHANGED <<buf, part_no>>

Saved(piece) ==
    {[state |-> "stored", data |-> file.data \o piece]}
    \cup (IF Faults \cap {"write", "fclose"} # {} THEN {Removed(file)} ELSE {})

EndPart ==
    /\ pc = "end"
    /\ LET piece == IF next # 0 THEN SubSeq(buf, hend, next - 1) ELSE <<>>
       IN \/ /\ storage = "get"
             /\ \E h \in Handles :
                  /\ GotMore(piece, IF h = "next" THEN "get" ELSE h)
                  /\ IF h = "abort" THEN Stop ELSE NextPart /\ UNCHANGED abort_read
                  /\ storage' = IF h = "next" THEN "skip" ELSE storage
             /\ UNCHANGED file
          \/ /\ storage = "store" /\ file.state = "open"
             /\ file' \in Saved(piece)
             /\ parts' = [parts EXCEPT ![field_count].file = file'.state,
                                       ![field_count].data = file'.data]
             /\ \/ file'.state = "stored" /\ "abort" \in Handles /\ Stop
                \/ NextPart /\ UNCHANGED abort_read
             /\ UNCHANGED storage
          \/ /\ storage = "abort" /\ Stop /\ UNCHANGED <<storage, file, parts>>
          \/ /\ storage = "skip" \/ (storage = "store" /\ file.state # "open")
             /\ NextPart /\ UNCHANGED <<abort_read, storage, file, parts>>
    /\ UNCHANGED <<form, rest, hend, next, all_data_read, field_count>>

Next == BeginPart \/ Block \/ EndPart

(* The thread that handles the request runs. *)
Spec == Init /\ [][Next]_vars /\ WF_vars(Next)

-----------------------------------------------------------------------------
(* Properties *)

(* Wherever the blocks are cut, inside a delimiter or inside content that  *)
(* begins like one: the pieces that field_get is given are the content of  *)
(* the part, in order, and once the part is over they are all of it.       *)
PiecesWhole ==
    \A i \in DOMAIN parts :
       /\ IsPrefix(parts[i].got, form.parts[i].content)
       /\ (parts[i].storage = "get" /\ parts[i].whole /\ (i < field_count \/ pc = "part"))
          => parts[i].got = form.parts[i].content

(* A file that field_store hears of holds the content of its part, no      *)
(* byte of the delimiter, and none of it missing.                          *)
StoredWhole ==
    \A i \in DOMAIN parts : parts[i].file = "stored" => parts[i].data = form.parts[i].content

(* struct mg_form_data_handler: "either store the file completely and call *)
(* this callback, or it will remove any partial content".                  *)
StoredOrRemoved == pc = "done" => file.state # "open"

(* A form is handled up to its last part unless a callback says stop or    *)
(* the result is an error.                                                 *)
AllParts == (pc = "done" /\ result >= 0 /\ ~abort_read) => field_count = Len(form.parts)

=============================================================================
