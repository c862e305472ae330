------------------------------- MODULE FormVars ------------------------------
(***************************************************************************)
(* Variables of forms, queries and cookies: mg_url_decode, mg_get_var2,    *)
(* mg_split_form_urlencoded and mg_get_cookie of                           *)
(* src/Server/civetweb/civetweb.c, CivetServer::getParam and urlDecode     *)
(* (CivetServer.cpp), and what handlePost and handleGet of                 *)
(* src/Server/src/server.cpp make of them.                                 *)
(*                                                                         *)
(* A string is a sequence of characters; "k" and "v" are the names "key"   *)
(* and "value", "nul" and " " stand for the characters up to a blank.      *)
(***************************************************************************)
EXTENDS Naturals, Integers, Sequences, FiniteSets, SequencesExt

CONSTANTS
    Inputs,     \* what clients send: a set of [op, data, query, occurrence]
    KeyRoom, ValueRoom, \* sizeof(kbuf) and sizeof(vbuf), 512 and 4096
    ParamRoom,  \* sizeof(buf) of getParam, 256
    CookieRoom, \* dst_size of mg_get_cookie
    MaxFields,  \* num_form_fields
    MaxRoom,    \* the memory that vbuf of getParam may have
    Partial     \* BOOLEAN: bodies may be cut

VARIABLES
    input,
    body,       \* what has been read of the body
    pc,         \* "read", "parse", "grow", "done", "thrown"
    size,       \* of getParam's buffer
    result,     \* [len, dst, terminated] of the last call of mg_get_var2 or mg_url_decode
    fields,     \* of mg_split_form_urlencoded: a sequence of [name, value, given]
    answer      \* of the handler [status, key, value], of getParam [found, dst], of the cookie call

vars == <<input, body, pc, size, result, fields, answer>>

NoResult == [len |-> -1, dst |-> <<>>, terminated |-> TRUE]
NoAnswer == [status |-> 0, key |-> <<>>, value |-> <<>>]
TypeOK ==
    /\ pc \in {"read", "parse", "grow", "done", "thrown"} /\ size <= 2 * MaxRoom
    /\ Len(body) <= Len(input.data) /\ Len(fields) <= MaxFields
    /\ result.len \in -3 .. -1 \/ result.len = Len(result.dst)

Smaller(a, b) == IF a < b THEN a ELSE b
(* The C string in a buffer that was zero before. *)
String(s) ==
    LET nuls == {i \in DOMAIN s : s[i] = "nul"}
    IN IF nuls = {} THEN s ELSE SubSeq(s, 1, (CHOOSE i \in nuls : \A j \in nuls : i <= j) - 1)
Lower(c) == IF c = "K" THEN "k" ELSE c
SameName(a, b) == [i \in DOMAIN a |-> Lower(a[i])] = [i \in DOMAIN b |-> Lower(b[i])]

-----------------------------------------------------------------------------
(* mg_url_decode *)

Hex == {"4", "1", "0"}
HexChar(a, b) ==
    CASE a = "4" /\ b = "1" -> "A" [] a = "4" /\ b = "4" -> "D"
      [] a = "0" /\ b = "0" -> "nul" [] OTHER -> "ctl"
Bad == {" ", "nul"}

(* Faulty: an escape that ends the text is not one. *)
EscapeOneShort(s, i) == s[i] = "%" /\ i + 3 <= Len(s) /\ s[i + 1] \in Hex /\ s[i + 2] \in Hex

(* The characters that the loop makes of src, up to one that is invalid.   *)
IsEscape(s, i) == s[i] = "%" /\ i + 2 <= Len(s) /\ s[i + 1] \in Hex /\ s[i + 2] \in Hex
Units(s) ==
    LET u[i \in 1 .. Len(s) + 1] ==
          IF i > Len(s) THEN <<>>
          ELSE IF IsEscape(s, i) THEN <<HexChar(s[i + 1], s[i + 2])>> \o u[i + 3]
          ELSE IF s[i] \in Bad THEN <<"bad">>
          ELSE <<IF s[i] = "+" THEN " " ELSE s[i]>> \o u[i + 1]
    IN u[1]
Clean(s) == Last(<<"none">> \o Units(s)) # "bad"
Decoded(s) == IF Clean(s) THEN Units(s) ELSE Front(Units(s))

(* With the room for a '\0'.  An invalid character is an error that leaves *)
(* dst as it is.                                                           *)
mg_url_decode(s, room) ==
    LET d == Decoded(s)
        full == Len(d) > room - 1
        invalid == ~Clean(s) /\ Len(d) < room - 1
    IN [len |-> IF full \/ ~Clean(s) THEN -1 ELSE Len(d),
        dst |-> SubSeq(d, 1, Smaller(Len(d), room - 1)),
        terminated |-> ~invalid \/ d = <<>>]

-----------------------------------------------------------------------------
(* mg_get_var2 *)

IsVar(s, name, p) ==
    LET n == Len(name)
    IN p + n <= Len(s) /\ (p = 1 \/ s[p - 1] = "&") /\ s[p + n] = "="
       /\ SameName(SubSeq(s, p, p + n - 1), name)
Hits(s, name) == {p \in 1 .. Len(s) : IsVar(s, name, p)}
Ends(s, p) == {i \in p .. Len(s) : s[i] = "&"}
EndOfValue(s, p) ==
    IF Ends(s, p) = {} THEN Len(s) ELSE (CHOOSE i \in Ends(s, p) : \A j \in Ends(s, p) : i <= j) - 1

mg_get_var2(s, name, occurrence, room) ==
    LET hit == {p \in Hits(s, name) : Cardinality({q \in Hits(s, name) : q < p}) = occurrence}
    IN IF hit = {} THEN NoResult
       ELSE LET from == (CHOOSE p \in hit : TRUE) + Len(name) + 1
                d == mg_url_decode(SubSeq(s, from, EndOfValue(s, from)), room)
            IN IF d.len = -1 THEN [d EXCEPT !.len = -2] ELSE d

-----------------------------------------------------------------------------
(* mg_split_form_urlencoded; url_decode_in_place writes what it decodes    *)
(* over the string, and leaves the rest of it behind an invalid character. *)
InPlace(s) ==
    LET d == Decoded(s)
    IN String(IF Clean(s) THEN d ELSE d \o SubSeq(s, Len(d) + 1, Len(s)))
FirstOf(s, cs) ==
    LET at == {i \in DOMAIN s : s[i] \in cs}
    IN IF at = {} THEN 0 ELSE CHOOSE i \in at : \A j \in at : i <= j
SkipBlanks(s) ==
    LET other == {i \in DOMAIN s : s[i] # " "}
    IN IF other = {} THEN <<>> ELSE SubSeq(s, CHOOSE i \in other : \A j \in other : i <= j, Len(s))

FieldOf(s) ==
    LET b == FirstOf(s, {"="})
        named == IF b = 0 THEN s ELSE SubSeq(s, 1, b - 1)
        given == b # 0
    IN [name |-> InPlace(named), given |-> given,
        value |-> IF given THEN InPlace(SubSeq(s, b + 1, Len(s))) ELSE <<>>]
(* The texts between the "&"s; an "&" at the end begins no field.          *)
InOrder(S) == [n \in 1 .. Cardinality(S) |-> CHOOSE x \in S : Cardinality({y \in S : y <= x}) = n]
FieldTexts(s) ==
    LET cuts == InOrder({0, Len(s) + 1} \cup {i \in DOMAIN s : s[i] = "&"})
    IN [n \in 1 .. Len(cuts) - 1 |-> SubSeq(s, cuts[n] + 1, cuts[n + 1] - 1)]

mg_split_form_urlencoded(s) ==
    LET texts == FieldTexts(s)
        found == IF SkipBlanks(Last(texts)) = <<>> THEN Len(texts) - 1 ELSE Len(texts)
    IN [n \in 1 .. Smaller(found, MaxFields) |-> FieldOf(SkipBlanks(texts[n]))]

-----------------------------------------------------------------------------
(* mg_get_cookie *)

IsCookie(s, name, p) ==
    /\ p + Len(name) <= Len(s) /\ SameName(SubSeq(s, p, p + Len(name) - 1), name)
    /\ s[p + Len(name)] = "=" /\ (p = 1 \/ s[p - 1] = " ")
CookieValue(s, from) ==
    LET blanks == {i \in from .. Len(s) : s[i] = " "}
        p == IF blanks = {} THEN Len(s) ELSE (CHOOSE i \in blanks : \A j \in blanks : i <= j) - 1
        q == IF s[p] = ";" THEN p - 1 ELSE p
    IN IF q > from /\ s[from] = "quote" /\ s[q] = "quote" THEN SubSeq(s, from + 1, q - 1)
       ELSE SubSeq(s, from, q)
mg_get_cookie(s, name, room) ==
    LET hits == {p \in DOMAIN s : IsCookie(s, name, p)}
    IN IF hits = {} THEN NoResult
       ELSE LET v == CookieValue(s, (CHOOSE p \in hits : \A q \in hits : p <= q) + Len(name) + 1)
            IN IF Len(v) < room THEN [len |-> Len(v), dst |-> v, terminated |-> TRUE]
               ELSE [len |-> -3, dst |-> <<>>, terminated |-> TRUE]

-----------------------------------------------------------------------------
Init ==
    /\ input \in Inputs /\ body = <<>> /\ size = 0 /\ pc = "read"
    /\ result = NoResult /\ fields = <<>> /\ answer = NoAnswer

Done(a) == pc' = "done" /\ answer' = a

(* mg_read, once in handlePost and until the end in getParam: less than    *)
(* the whole when the client leaves.                                       *)
ReadBody ==
    /\ pc = "read"
    /\ \E n \in IF Partial THEN 0 .. Len(input.data) ELSE {Len(input.data)} :
          body' = SubSeq(input.data, 1, n)
    /\ pc' = "parse"
    /\ UNCHANGED <<input, size, result, fields, answer>>

Zeros(n) == [i \in 1 .. n |-> "nul"]

(* handlePost: the string that has been read into has Content-Length       *)
(* characters, and nobody asks what mg_get_var returns.                    *)
handlePost ==
    /\ pc = "parse" /\ input.op = "POST"
    /\ LET data == body \o Zeros(Len(input.data) - Len(body))
           key == String(mg_get_var2(data, <<"k">>, 0, KeyRoom).dst)
           value == String(mg_get_var2(data, <<"v">>, 0, ValueRoom).dst)
       IN IF key = <<>> THEN Done([status |-> 400, key |-> <<>>, value |-> <<>>])
          ELSE Done([status |-> 200, key |-> key, value |-> value])
    /\ UNCHANGED <<input, body, size, result, fields>>
(* handleGet, handleDelete. *)
handleQuery ==
    /\ pc = "parse" /\ input.op = "GET"
    /\ LET key == String(mg_get_var2(input.query, <<"k">>, 0, KeyRoom).dst)
       IN Done([status |-> IF key = <<>> THEN 400 ELSE 200, key |-> key, value |-> <<>>])
    /\ UNCHANGED <<input, body, size, result, fields>>

(* getParam with the form that has been read, or with the query: into a    *)
(* buffer of fixed size, then into one that doubles while it gets -2.      *)
Source ==
    IF Cardinality(Hits(String(body), <<"k">>)) > input.occurrence THEN String(body) ELSE input.query
Found(r) == [status |-> IF r.len >= 0 THEN 200 ELSE 404, key |-> <<>>,
             value |-> IF r.len >= 0 THEN r.dst ELSE <<>>]
getParam ==
    /\ pc = "parse" /\ input.op = "param"
    /\ result' = mg_get_var2(Source, <<"k">>, input.occurrence, ParamRoom)
    /\ IF result'.len = -2 THEN pc' = "grow" /\ size' = 2 * ParamRoom /\ UNCHANGED answer
       ELSE Done(Found(result')) /\ UNCHANGED size
    /\ UNCHANGED <<input, body, fields>>

Grown == 2 * size
MoreBuffer ==
    /\ pc = "grow" /\ size <= MaxRoom
    /\ result' = mg_get_var2(Source, <<"k">>, input.occurrence, size)
    /\ IF result'.len = -2 THEN size' = Grown /\ UNCHANGED <<pc, answer>>
       ELSE Done(Found(result')) /\ UNCHANGED size
    /\ UNCHANGED <<input, body, fields>>

(* std::bad_alloc, which the handler lets through to C. *)
OutOfMemory ==
    /\ pc = "grow" /\ size > MaxRoom /\ pc' = "thrown"
    /\ UNCHANGED <<input, body, size, result, fields, answer>>

Split ==
    /\ pc = "parse" /\ input.op = "split"
    /\ fields' = mg_split_form_urlencoded(String(input.query)) /\ Done(NoAnswer)
    /\ UNCHANGED <<input, body, size, result>>

getCookie ==
    /\ pc = "parse" /\ input.op = "cookie"
    /\ result' = mg_get_cookie(input.query, <<"k">>, CookieRoom)
    /\ Done(Found(result'))
    /\ UNCHANGED <<input, body, size, fields>>

(* CivetServer::urlDecode, with a buffer that is large enough. *)
urlDecode ==
    /\ pc = "parse" /\ input.op = "decode"
    /\ result' = mg_url_decode(input.query, Len(input.query) + 1)
    /\ IF result'.len < 0 THEN pc' = "thrown" /\ UNCHANGED answer ELSE Done(Found(result'))
    /\ UNCHANGED <<input, body, size, fields>>

Next ==
    \/ ReadBody \/ handlePost \/ handleQuery \/ getParam \/ MoreBuffer \/ OutOfMemory \/ Split \/ getCookie
    \/ urlDecode
Spec == Init /\ [][Next]_vars /\ WF_vars(Next)

-----------------------------------------------------------------------------
(* What a text stands for: every escape for its character, every other     *)
(* character that is not part of one for itself.                           *)
Valid(s) == Range(s) \cap Bad = {}
Meaning(s) ==
    LET escapes == {i \in 1 .. Len(s) - 2 : s[i] = "%" /\ {s[i + 1], s[i + 2]} \subseteq Hex}
        kept == InOrder({i \in DOMAIN s : {i - 1, i - 2} \cap escapes = {}})
    IN [n \in DOMAIN kept |-> LET i == kept[n]
                              IN IF i \in escapes THEN HexChar(s[i + 1], s[i + 2])
                                 ELSE IF s[i] = "+" THEN " " ELSE s[i]]

(* What a form says of a name: the texts and the decoded values of its     *)
(* fields, in their order.                                                 *)
TextsOf(s, name) ==
    LET with == SelectSeq(FieldTexts(s), LAMBDA f : Len(f) > Len(name) /\ f[Len(name) + 1] = "="
                                                    /\ SameName(SubSeq(f, 1, Len(name)), name))
    IN [n \in DOMAIN with |-> SubSeq(with[n], Len(name) + 2, Len(with[n]))]
ValuesOf(s, name) ==
    LET t == TextsOf(s, name) IN [n \in DOMAIN t |-> Meaning(t[n])]

(* What the program takes for the value of a name: of the first field that *)
(* has it what stands before an invalid character, decoded, as far as it   *)
(* fits, and up to an escaped '\0'.                                        *)
Taken(s, name, room) ==
    LET t == TextsOf(s, name) \o <<<<>>>>
        bad == FirstOf(t[1], Bad)
        m == Meaning(IF bad = 0 THEN t[1] ELSE SubSeq(t[1], 1, bad - 1))
    IN String(SubSeq(m, 1, Smaller(Len(m), room - 1)))

(* A form that has come whole is stored under the first key and with the   *)
(* first value it has, and a query asks for its first key, whatever these  *)
(* are: of what does not fit and of what is invalid the beginning is used, *)
(* and nothing else of the text or of the buffers, although nobody looks   *)
(* at what mg_get_var returns.  Only where no key is left it is refused.   *)
StoredDecoded ==
    /\ pc = "done" /\ input.op = "POST" /\ body = input.data =>
         LET key == Taken(body, <<"k">>, KeyRoom)
         IN IF key = <<>> THEN answer.status = 400
            ELSE answer = [status |-> 200, key |-> key, value |-> Taken(body, <<"v">>, ValueRoom)]
    /\ pc = "done" /\ input.op = "GET" =>
         LET key == Taken(input.query, <<"k">>, KeyRoom)
         IN answer = [status |-> IF key = <<>> THEN 400 ELSE 200, key |-> key, value |-> <<>>]

(* mg_split_form_urlencoded and mg_get_var2, which scan a form each in its *)
(* own way, find the same values for a name, in the same order, as long as *)
(* there is room for the fields.                                           *)
SplitAgrees ==
    (pc = "done" /\ input.op = "split" /\ Valid(input.query)) =>
       LET with == SelectSeq(fields, LAMBDA f : f.given /\ SameName(f.name, <<"k">>))
       IN /\ \A n \in DOMAIN with :
                mg_get_var2(input.query, <<"k">>, n - 1, Len(input.query) + 1).dst = with[n].value
          /\ Len(fields) = MaxFields \/ Len(with) = Cardinality(Hits(input.query, <<"k">>))

(* A cookie is found among others whose names or values hold its name, and *)
(* without its quotes: the first of that name.                             *)
CookieFound ==
    (pc = "done" /\ input.op = "cookie") =>
       LET n == Len(input.query)
           cuts == InOrder({-1, n + 1} \cup {i \in 1 .. n : input.query[i] = ";"})
           texts == [i \in 1 .. Len(cuts) - 1 |-> SubSeq(input.query, cuts[i] + 2, cuts[i + 1] - 1)]
           mine == SelectSeq(texts, LAMBDA t : Len(t) > 1 /\ t[1] = "k" /\ t[2] = "=")
           v == SelectSeq(SubSeq(mine[1], 3, Len(mine[1])), LAMBDA c : c # "quote")
       IN IF mine = <<>> THEN result.len = -1
          ELSE IF Len(v) < CookieRoom THEN answer.status = 200 /\ answer.value = v
          ELSE answer.status = 404

(* getParam finds every occurrence there is, and gives it whole, however   *)
(* often its buffer has to grow.                                           *)
ParamWhole ==
    (pc = "done" /\ input.op = "param") =>
       LET v == ValuesOf(Source, <<"k">>)
       IN IF input.occurrence < Len(v)
          THEN answer.status = 200 /\ answer.value = v[input.occurrence + 1]
          ELSE answer.status = 404

=============================================================================
