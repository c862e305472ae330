------------------------------- MODULE UrlForm -------------------------------
(***************************************************************************)
(* mg_handle_form_request (src/Server/civetweb/handle_form.inl) for forms  *)
(* that are URL encoded: in the query string of a GET request, whole, or   *)
(* in the body of a POST, which comes block by block into a buffer that is *)
(* smaller than a value may be.                                            *)
(*                                                                         *)
(* A form is a sequence of characters.  Of those the code looks at there   *)
(* are "=", "&", "%" with the hexadecimal digits "4" and "1", and "nul";   *)
(* any other stands for itself.                                            *)
(***************************************************************************)
EXTENDS Naturals, Integers, Sequences, FiniteSets, SequencesExt

CONSTANTS
    Forms,          \* the forms that are sent
    Size,           \* sizeof(buf) - 1
    Storages,       \* what field_found may answer: "skip", "get", "store", "abort"
    Handles,        \* what field_get and field_store may: "get", "next", "abort"
    Faults          \* of {"error", "timeout", "close", "open", "write", "fclose"}

SizeAssumption == Size \in Nat \ {0}

VARIABLES
    form, method,
    rest,           \* what the client has still to send
    buf, val, next, \* the buffer; where the value and the next field begin in it
    all_data_read, abort_read,
    storage,        \* field_storage, of the present field
    file,           \* fstore: its state, and what it has
    field_count, result, pc,
    fields          \* ghost: what the callbacks were given, field by field

vars == <<form, method, rest, buf, val, next, all_data_read, abort_read, storage, file,
          field_count, result, pc, fields>>
client == <<form, method>>

NoFile == [state |-> "none", data |-> <<>>]
Outcomes == {"none", "open", "stored", "removed"}

TypeOK ==
    /\ Len(buf) <= Size /\ val \in 1 .. Size + 1 /\ next \in 0 .. Size + 1
    /\ file.state \in Outcomes /\ storage \in Storages \cup {"skip"}
    /\ field_count = Len(fields) /\ result >= -1
    /\ pc \in {"query", "fill", "key", "value", "refill", "close", "done"}

Init ==
    /\ form \in Forms /\ method \in {"GET", "POST"} /\ rest = form
    /\ buf = <<>> /\ val = 1 /\ next = 0 /\ all_data_read = FALSE /\ abort_read = FALSE
    /\ storage = "skip" /\ file = NoFile /\ field_count = 0 /\ result = 0 /\ fields = <<>>
    /\ pc = IF method = "GET" THEN "query" ELSE "fill"

-----------------------------------------------------------------------------
(* Characters *)

From(s, i) == SubSeq(s, i, Len(s))
(* strchr, 0 for NULL. *)
Find(s, c) == SelectInSeq(s, LAMBDA x : x = c)
(* A string ends at its first zero. *)
String(s) == IF Find(s, "nul") = 0 THEN s ELSE SubSeq(s, 1, Find(s, "nul") - 1)

Hex == {"4", "1"}
mg_url_decode(s) ==
    LET d[i \in 1 .. Len(s) + 1] ==
          IF i > Len(s) THEN <<>>
          ELSE IF s[i] = "%" /\ i + 2 <= Len(s) /\ s[i + 1] \in Hex /\ s[i + 2] \in Hex
               THEN <<"A">> \o d[i + 3]
               ELSE <<s[i]>> \o d[i + 1]
    IN d[1]

(* Faulty: an escape that the end of the block cuts is decoded. *)
TakenWhole(v) == Len(v)

(* url_encoded_field_get keeps an escape that the end of the block cuts. *)
Taken(v) ==
    IF Len(v) >= 2 /\ v[Len(v) - 1] = "%" THEN Len(v) - 2
    ELSE IF Len(v) >= 1 /\ v[Len(v)] = "%" THEN Len(v) - 1
    ELSE Len(v)
-----------------------------------------------------------------------------
(* The present field *)

NewField(key) ==
    /\ field_count' = field_count + 1
    /\ fields' = Append(fields, [key |-> key, got |-> <<>>, storage |-> storage', ended |-> FALSE,
                                 file |-> "none", data |-> <<>>])
GotMore(v, h) ==
    fields' = [fields EXCEPT ![field_count].got = @ \o v,
                             ![field_count].storage = IF h = "get" THEN @ ELSE h]
Ended == fields' = [fields EXCEPT ![field_count].ended = TRUE,
                                  ![field_count].file = file'.state,
                                  ![field_count].data = file'.data]

Finish(r) == result' = r /\ pc' = "done"

OpenFile == file' \in (IF storage' = "store"
                       THEN {[NoFile EXCEPT !.state = "open"]}
                            \cup (IF "open" \in Faults THEN {NoFile} ELSE {})
                       ELSE {NoFile})

WriteFile(v) ==
    \/ file.state # "open" /\ UNCHANGED file
    \/ file.state = "open" /\ file' = [file EXCEPT !.data = @ \o v]
    \/ file.state = "open" /\ "write" \in Faults /\ file' = [file EXCEPT !.state = "removed"]
CloseFile ==
    \/ file.state # "open" /\ UNCHANGED file
    \/ file.state = "open" /\ file' = [file EXCEPT !.state = "stored"]
    \/ file.state = "open" /\ "fclose" \in Faults /\ file' = [file EXCEPT !.state = "removed"]
RemoveOpen == file' = IF file.state = "open" THEN [file EXCEPT !.state = "removed"] ELSE file

-----------------------------------------------------------------------------
(* GET: one round of the loop over the query string *)

QueryField ==
    /\ pc = "query"
    /\ IF Find(rest, "=") = 0
       THEN Finish(field_count) /\ UNCHANGED <<rest, storage, file, field_count, fields, abort_read>>
       ELSE LET v == From(rest, Find(rest, "=") + 1)
                amp == Find(v, "&")
                value == IF amp = 0 THEN v ELSE SubSeq(v, 1, amp - 1)
                taken == Taken(value)
            IN /\ storage' \in Storages
               /\ field_count' = field_count + 1
               /\ \E h \in Handles, f \in {NoFile, [state |-> "stored", data |-> value],
                                           [state |-> "removed", data |-> value]} :
                    /\ (f.state = "stored") => storage' = "store"
                    /\ (f.state = "removed") => storage' = "store" /\ Faults \cap {"write", "fclose"} # {}
                    /\ (f = NoFile) => storage' # "store" \/ "open" \in Faults
                    /\ file' = f
                    /\ fields' = Append(fields,
                         [key |-> SubSeq(rest, 1, Find(rest, "=") - 1),
                          got |-> IF storage' = "get" THEN mg_url_decode(SubSeq(value, 1, taken))
                                  ELSE <<>>,
                          storage |-> IF storage' = "get" /\ h # "get" THEN h ELSE storage',
                          ended |-> TRUE, file |-> f.state, data |-> f.data])
                    /\ IF storage' = "abort" \/ (h = "abort" /\ (storage' = "get" \/ f.state = "stored"))
                       THEN Finish(field_count') /\ abort_read' = TRUE /\ UNCHANGED rest
                       ELSE /\ rest' = IF amp # 0 THEN From(v, amp + 1)
                                       ELSE IF storage' = "get" /\ h = "get" THEN From(v, taken + 1) ELSE <<>>
                            /\ UNCHANGED <<result, pc, abort_read>>
    /\ UNCHANGED <<client, buf, val, next, all_data_read>>

-----------------------------------------------------------------------------
(* POST *)

Smaller(a, b) == IF a < b THEN a ELSE b
(* mg_read of n characters at most: as many as there are, or fewer after a *)
(* timeout, or none when the client has gone.                              *)
Arrived(n) == {Smaller(n, Len(rest))}
              \cup (IF "timeout" \in Faults THEN 0 .. Smaller(n, Len(rest)) ELSE {})
              \cup (IF "close" \in Faults THEN {0} ELSE {})
Received(k) ==
    /\ buf' = buf \o SubSeq(rest, 1, k)
    /\ rest' = From(rest, k + 1)
    /\ all_data_read' = IF k = 0 THEN buf = <<>> ELSE all_data_read
ReadFails(k) == k = 0 /\ all_data_read

BufferFull == Len(buf) >= Size

Fill ==
    /\ pc = "fill"
    /\ IF BufferFull
       THEN pc' = "key" /\ UNCHANGED <<rest, buf, all_data_read, result>>
       ELSE \/ \E k \in Arrived(Size - Len(buf)) :
                 IF ReadFails(k) THEN Finish(-1) /\ UNCHANGED <<rest, buf, all_data_read>>
                 ELSE /\ Received(k)
                      /\ IF buf' = <<>> THEN Finish(field_count)
                         ELSE pc' = "key" /\ UNCHANGED result
            \/ "error" \in Faults /\ Finish(-1) /\ UNCHANGED <<rest, buf, all_data_read>>
    /\ UNCHANGED <<client, val, next, abort_read, storage, file, field_count, fields>>

(* field_found is asked what to do with the field. *)
Found ==
    /\ pc = "key"
    /\ LET eq == Find(String(buf), "=")
       IN IF eq = 0 THEN Finish(field_count) /\ UNCHANGED <<val, storage, file, field_count, fields, abort_read>>
          ELSE /\ storage' \in Storages /\ NewField(SubSeq(buf, 1, eq - 1))
               /\ val' = eq + 1
               /\ IF storage' = "abort"
                  THEN Finish(field_count') /\ abort_read' = TRUE /\ file' = NoFile
                  ELSE OpenFile /\ pc' = "value" /\ UNCHANGED <<abort_read, result>>
    /\ UNCHANGED <<client, rest, buf, next, all_data_read>>

(* One round of the loop over the value's blocks. *)
Value ==
    /\ pc = "value"
    /\ LET text == String(From(buf, val))
           amp == Find(text, "&")
           value == IF amp = 0 THEN text ELSE SubSeq(text, 1, amp - 1)
           get == storage = "get"
           taken == IF get THEN Taken(value) ELSE Len(value)
           after == IF amp # 0 THEN val + amp ELSE val + taken
       IN IF amp = 0 /\ Len(text) < Len(buf) - val + 1
          THEN /\ abort_read' = TRUE /\ pc' = "close"
               /\ UNCHANGED <<buf, next, storage, file, fields>>
          ELSE \E h \in Handles :
                 /\ abort_read' = (get /\ h = "abort")
                 /\ storage' = IF get /\ h = "next" THEN "skip" ELSE storage
                 /\ IF get THEN GotMore(mg_url_decode(SubSeq(value, 1, taken)), h) ELSE UNCHANGED fields
                 /\ WriteFile(SubSeq(value, 1, taken))
                 /\ IF abort_read' \/ amp # 0 \/ all_data_read
                    THEN pc' = "close" /\ next' = after /\ UNCHANGED buf
                    ELSE pc' = "refill" /\ buf' = From(buf, after) /\ next' = 1
    /\ UNCHANGED <<client, rest, val, all_data_read, field_count, result>>

ReadMore(k) ==
    /\ Received(k)
    /\ val' = 1
    /\ pc' = IF buf' = <<>> THEN "close" ELSE "value"
    /\ UNCHANGED <<file, result>>
Refill ==
    /\ pc = "refill"
    /\ \/ \E k \in Arrived(Size - Len(buf)) :
            IF ReadFails(k)
            THEN RemoveOpen /\ Finish(-1) /\ UNCHANGED <<rest, buf, all_data_read, val>>
            ELSE ReadMore(k)
       \/ "error" \in Faults /\ RemoveOpen /\ Finish(-1)
          /\ UNCHANGED <<rest, buf, all_data_read, val>>
    /\ UNCHANGED <<client, next, abort_read, storage, field_count, fields>>

(* The end of a field: its file is closed, and what follows it comes to *)
(* the front of the buffer.                                             *)
Close ==
    /\ pc = "close"
    /\ CloseFile /\ Ended
    /\ \E h \in Handles :
         /\ abort_read' = (abort_read \/ (h = "abort" /\ file.state = "open" /\ file'.state = "stored"))
         /\ IF abort_read' \/ (all_data_read /\ buf = <<>>)
            THEN Finish(field_count) /\ UNCHANGED buf
            ELSE buf' = From(buf, next) /\ pc' = "fill" /\ UNCHANGED result
    /\ UNCHANGED <<client, rest, val, next, all_data_read, storage, field_count>>

Next == QueryField \/ Fill \/ Found \/ Value \/ Refill \/ Close

(* The thread that handles the request runs. *)
Spec == Init /\ [][Next]_vars /\ WF_vars(Next)

-----------------------------------------------------------------------------
(* Properties *)

(* What a form says: its fields, each a key and the text of its value.     *)
Expected ==
    LET ends == {i \in DOMAIN form : form[i] = "&"} \cup {Len(form) + 1}
        End(k) == CHOOSE e \in ends : Cardinality({x \in ends : x < e}) = k - 1
        Begin(k) == IF k = 1 THEN 1 ELSE End(k - 1) + 1
        Field(k) == SubSeq(form, Begin(k), End(k) - 1)
    IN [k \in 1 .. Cardinality(ends) |->
          [key |-> SubSeq(Field(k), 1, Find(Field(k), "=") - 1),
           value |-> From(Field(k), Find(Field(k), "=") + 1)]]

(* A form whose fields all have a name and a "=", and no zero byte.           *)
WellFormed ==
    /\ Find(form, "nul") = 0
    /\ \A i \in DOMAIN Expected : Expected[i].key # <<>>

(* Wherever the blocks are cut, in the middle of an escape, at its first   *)
(* character or at a separator: a field that the callback takes gets the   *)
(* decoded value, all of it once, under its key.                           *)
GotWhole ==
    WellFormed => \A i \in DOMAIN fields :
       (fields[i].ended /\ fields[i].storage = "get") =>
          /\ fields[i].key = Expected[i].key
          /\ fields[i].got = mg_url_decode(Expected[i].value)

(* struct mg_form_data_handler: the form is either stored "completely and  *)
(* call this callback", or "it will remove any partial content".           *)
StoredOrRemoved ==
    /\ WellFormed => \A i \in DOMAIN fields : fields[i].file = "stored" => fields[i].data = Expected[i].value
    /\ pc = "done" => file.state # "open"

(* A well-formed form is handled up to its last field unless a callback    *)
(* says stop or reading fails, and then the result says so.                *)
AllFields ==
    (WellFormed /\ pc = "done" /\ result >= 0 /\ ~abort_read) => field_count = Len(Expected)

=============================================================================
