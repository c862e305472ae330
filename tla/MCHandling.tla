--------------------------------- MODULE MCHandling ---------------------------------
(***************************************************************************)
(* What is done for one request, for TLC: the handler table, the choice of *)
(* a file and the right to it, its transfer, WebDAV, responses, passwords  *)
(* and the parameters of forms.  These parts share no state, so that one   *)
(* run explores their disjoint union: `part' says whose behaviour it is.   *)
(* The same model values stand for threads, clients and names everywhere,  *)
(* and one symmetry does for all parts.                                    *)
(***************************************************************************)
EXTENDS MCHandlerRegistry, Integers

CONSTANTS
    Parts,          \* the parts to explore
    None            \* no file, no user; the variables of a part that does not run

VARIABLES
    part,           \* the part this behaviour is of
    fs, zipped, file_req, cfg, file_pc, root, sep, file, stat, is_gzipped,
    is_found, is_script, is_template, is_put_or_delete, is_webdav, path_info,
    file_answer,  \* FileRequest
    entry, data, task, job,  \* FileTransfer
    now, webdav_lock, lock_req, lock_pc, lock_index, lock_answer,  \* DavLocks
    tree, dav_task, dav_pc, stack, found, arr_size, todo, dav_answer,  \* DavFiles
    r, calls, resp_pc,  \* Response
    exists, passwords, edit, request, before, alone,  \* PasswordFile
    clock, start_time, run, nonce_count, lock, auth_pc, auth_req, known,
    issued,  \* Authorization
    input, var_body, var_pc, size, result, fields, var_answer  \* FormVars

-----------------------------------------------------------------------------
(* Files: a directory d with an index script or an index file, a script s, *)
(* a template t, a plain file f, a hidden file h, one or two roots, of     *)
(* paths that differ in length, below a directory that may have an index.  *)
Roots == <<<<"srv", "www">>, <<"alt">>>>
Places == {<<>>, <<"d">>, <<"d", "i.cgi">>, <<"d", "i.html">>, <<"s.cgi">>, <<"f">>, <<"h">>,
           <<"d", "t.shtml">>}
(* Below a directory that is not there is nothing. *)
Closed(t) == \A p \in t : p # <<>> => SubSeq(p, 1, Len(p) - 1) \in t
Trees == {t \in SUBSET Places : <<>> \in t /\ Closed(t) /\ Cardinality(t) <= 3}
Under(i, t) == {Roots[i] \o p : p \in t}
AboveRoots == {<<>>, <<"srv">>}
TwoRoots ==
    {AboveRoots \cup Under(1, t) \cup Under(2, u) :
       t \in Trees, u \in {{<<>>, <<"f">>, <<"s.cgi">>}, {<<>>, <<"d">>, <<"d", "i.html">>}}}
    \cup {AboveRoots \cup Under(1, {<<>>}) \cup Under(2, {<<>>}) \cup a :
            a \in {{<<"i.cgi">>}, {<<"i.cgi">>, <<"srv", "i.html">>}, {<<"i.html">>, <<"srv", "i.cgi">>}}}
FewTrees == {AboveRoots \cup Under(1, t) : t \in {{<<>>}, Places}}
ZippedFiles == {{}, {Roots[1] \o <<"f">>, Roots[2] \o <<"h">>}}

(* A URI begins with a '/'. *)
Queries ==
    {q \in [uri : Places \cup {<<"d", "x">>, <<"s.cgi", "x">>, <<"x">>}, slash : BOOLEAN,
            method : {"GET", "PUT", "PROPFIND"}, gzip : BOOLEAN, preflight : {TRUE}, access : {TRUE},
            mayPut : {TRUE}, auth : {"none"}, fresh : {FALSE}] :
        (q.uri = <<>> => q.slash) /\ (q.gzip => q.uri \in {<<"f">>, <<"h">>, <<"d", "x">>, <<"s.cgi", "x">>})}
AnyRight ==
    LET requests(methods, preflight, fresh) ==
            [uri : {<<"d">>, <<"f">>, <<"d", "t.shtml">>}, slash : {FALSE}, method : methods, gzip : {FALSE},
             preflight : preflight, access : BOOLEAN, mayPut : BOOLEAN,
             auth : {"none", "accepts", "refuses"}, fresh : fresh]
    IN requests({"OPTIONS"}, BOOLEAN, {FALSE})
         \cup requests({"GET"}, {TRUE}, BOOLEAN)
         \cup requests({"POST", "PUT", "DELETE", "PATCH", "MOVE", "PROPFIND"}, {TRUE}, {FALSE})
Resolving ==
    [roots : {1, 2}, redirect : {FALSE}, begin : {"none"}, cors : {TRUE},
     webdav : {TRUE}, putFile : {TRUE}, listing : {TRUE}, subRes : BOOLEAN, room : {6}]
    \cup [roots : {1, 2}, redirect : {FALSE}, begin : {"none"}, cors : {TRUE},
          webdav : {TRUE}, putFile : {TRUE}, listing : {TRUE}, subRes : {TRUE}, room : {3}]
Deciding ==
    [roots : {0, 1}, redirect : BOOLEAN, begin : {"none"}, cors : BOOLEAN,
     webdav : BOOLEAN, putFile : BOOLEAN, listing : {TRUE}, subRes : {FALSE}, room : {6}]
    \cup [roots : {1}, redirect : {FALSE}, begin : {"handles", "continues", "gives up"}, cors : {TRUE},
          webdav : {TRUE}, putFile : {TRUE}, listing : BOOLEAN, subRes : {FALSE}, room : {6}]

(* Transfers: a file and its zipped form, shorter and longer than the      *)
(* buffer; ranges inside, at and past the ends.                            *)
Disk(p, z) == [n \in {"plain", "zipped"} |-> IF n = "plain" THEN p ELSE z]
Disks == {Disk(<<1, 2>>, None), Disk(None, None)}
MoreDisks == {Disk(<<1, 2, 3, 4>>, None), Disk(<<1, 2, 3, 4>>, <<7, 8>>), Disk(<<1>>, <<7, 8>>),
              Disk(<<1, 2, 3>>, <<7, 8, 9, 9>>), Disk(None, <<7, 8>>), Disk(None, None)}
NoRange == <<0, 0, 0>>
Download(op, range, gzip) ==
    [op : op, range : range, gzip : gzip, expect : {"none"}, dirs : {"made"},
     writable : {TRUE}, body : {<<>>}]
Upload(op, range, expect, dirs, writable, body) ==
    [op : op, range : range, gzip : {FALSE}, expect : expect, dirs : dirs,
     writable : writable, body : body]
Downloads ==
    Download({"GET", "HEAD", "BODY"},
             {NoRange} \cup {<<2, a, b>> : a \in -1 .. 5, b \in 0 .. 5} \cup {<<1, a, 0>> : a \in -1 .. 5},
             BOOLEAN)
Uploads ==
    Upload({"PUT"}, {NoRange, <<2, 1, 2>>, <<1, -1, 0>>}, {"none", "100-continue", "other"},
           {"made", "directory", "too long", "failed"}, BOOLEAN, {<<5, 6>>})
    \cup Upload({"STORE"}, {NoRange}, {"none"}, {"made", "directory", "failed"}, {TRUE}, {<<8, 9, 9>>})
TwoUploads ==
    Upload({"PUT"}, {NoRange, <<2, 1, 2>>}, {"none"}, {"made"}, {TRUE}, {<<5, 6>>})
    \cup Upload({"STORE"}, {NoRange}, {"none"}, {"made"}, {TRUE}, {<<8, 9, 9>>})

(* WebDAV: a directory d with a file f, one whose name is too long (l) and *)
(* a directory e, a directory s nobody may change, files f and g.          *)
Root == <<>> :> "dir"
Full == Root @@ (<<"d">> :> "dir") @@ (<<"d", "f">> :> "one") @@ (<<"d", "e">> :> "dir")
          @@ (<<"d", "e", "f">> :> "two") @@ (<<"f">> :> "three") @@ (<<"g">> :> "ro")
Small == Root @@ (<<"d">> :> "dir") @@ (<<"d", "l">> :> "one") @@ (<<"f">> :> "two")
           @@ (<<"s">> :> "dir") @@ (<<"s", "f">> :> "three")
DavTask(op, path, dest, overwrite, body) ==
    [op : op, path : path, dest : dest, overwrite : overwrite, body : body]
Sources == {<<"d">>, <<"f">>, <<"s", "f">>}
Targets == {<<"f">>, <<"d", "e">>, <<"d", "e", "x">>, <<"x">>}
DavTasks ==
    DavTask({"DELETE"}, {<<"d">>, <<"d", "e">>, <<"f">>, <<"g">>, <<"s", "f">>, <<"x">>}, {<<>>}, {FALSE}, {FALSE})
    \cup DavTask({"MKCOL"}, {<<"x">>, <<"d", "x">>, <<"s", "x">>, <<"f">>}, {<<>>}, {FALSE}, BOOLEAN)
    \cup DavTask({"MOVE"}, Sources, Targets, BOOLEAN, {FALSE})
    \cup DavTask({"COPY"}, {<<"f">>}, Targets, BOOLEAN, {FALSE})
    \cup DavTask({"MOVE"}, {<<"f">>}, {<<"none">>, <<"elsewhere">>}, {FALSE}, {FALSE})
    \cup DavTask({"LIST", "PROPFIND"}, {<<>>, <<"d">>}, {<<>>}, {FALSE}, {FALSE})

(* Passwords: files with an entry twice, with none, and with a line that   *)
(* is not one; for authorization a file that includes two others, one of   *)
(* them missing and one including the first again, with entries of another *)
(* domain and with another password before the right one.                  *)
Login(k, h) == [key |-> k, hash |-> h]
PasswordFiles ==
    {<<>>, <<Login("ann", "h1"), [key |-> "special", hash |-> "none"], Login("bob", "h1"), Login("ann", "h2")>>}
Line(u, d, p) == [kind |-> "entry", user |-> u, domain |-> d, ha1 |-> <<u, d, p>>, file |-> <<>>]
Include(f) == [kind |-> "include", user |-> "", domain |-> "", ha1 |-> <<>>, file |-> f]
Comment == [kind |-> "comment", user |-> "", domain |-> "", ha1 |-> <<>>, file |-> <<>>]
AuthFiles ==
    (<<"a", "htpasswd">> :> <<Comment, Line("bob", "other", "pw2"), Include(<<"missing">>), Include(<<"more">>)>>)
    @@ (<<"more">> :> <<Line("bob", "home", "pw2"), Include(<<"a", "htpasswd">>), Line("bob", "home", "pw1")>>)
    @@ (<<"put">> :> <<Line("bob", "home", "pw1")>>)
Protected == <<[prefix |-> <<"a", "p">>, file |-> <<"put">>], [prefix |-> <<"a">>, file |-> <<"missing">>]>>

(* Parameters: bodies and queries with escapes that are whole, cut and     *)
(* invalid, blanks and escaped '\0's, names in either case, values that    *)
(* fit and do not; cookies.                                                *)
Strings(chars, n) == UNION {[1 .. m -> chars] : m \in 0 .. n}
Input(op, content, query, occurrence) ==
    [op : {op}, data : content, query : query, occurrence : occurrence]
KeyIs == <<"k", "=">>
ValueIs == <<"v", "=">>
Pair(k, v) == (KeyIs \o k) \o (<<"&">> \o (ValueIs \o v))
Texts == Strings({"a", "%", "4", "+"}, 3)
Bodies ==
    {Pair(k, v) : k \in Strings({"a", "%", "4"}, 1) \cup {<<"%", "4", "a">>, <<"a", "a", "a">>}, v \in Texts}
    \cup {(ValueIs \o v) \o (<<"&">> \o (KeyIs \o k)) : k \in Strings({"a", "+"}, 1), v \in Texts}
Invalid == {<<" ">>, <<"a", " ">>, <<"a", "a", " ">>, <<"a", " ", "a">>, <<"%", "4", " ">>,
            <<"%", "0", "0", "a">>, <<"a", "%", "0", "0">>}
Forms(n) == Strings({"k", "K", "=", "&", "a", "%"}, n)
Cookies ==
    LET names == {<<"k">>, <<"k", "k">>, <<"a">>}
        values == {<<>>, <<"a">>, <<"a", "a">>, <<"quote", "a", "quote">>, <<"quote", "quote">>, <<"k", "=">>}
        one == {n \o (<<"=">> \o v) : n \in names, v \in values}
    IN one \cup {p \o (<<";", " ">> \o q) : p \in one, q \in one}
Escapes == {<<"k", "=", "%", "4", "1">>, <<"k", "=", "%", "4", "1", "a", "a", "a">>,
            <<"k", "=", "a", "&", "K", "=", "%", "4", "4">>}
Params == {<<>>, <<"a">>, KeyIs, <<"k", "=", "a", "a">>, <<"k", "&", "K", "=", "a">>} \cup Escapes
Fields == {(KeyIs \o a) \o (<<"&">> \o (b \o (<<"&">> \o c))) : a \in Forms(1), b \in Forms(2), c \in Forms(2)}
VarInputs ==
    Input("POST", Bodies \cup {Pair(k, v) : k, v \in Invalid \cup Strings({"a"}, 3)}, {<<>>}, {0})
    \cup Input("GET", {<<>>}, Forms(4) \cup Escapes \cup {KeyIs \o k : k \in Invalid}, {0})
    \cup Input("param", Params, Params, {0, 1})
    \cup Input("split", {<<>>}, Forms(3) \cup Fields, {0})
    \cup Input("cookie", {<<>>}, Cookies, {0})
    \cup Input("decode", {<<>>}, Escapes \cup {<<"a", " ">>}, {0})
    \cup Input("param", {<<>>}, {<<"k", "=", " ">>}, {0})
-----------------------------------------------------------------------------
(* The handler table: two registrars and one request at a time, or one     *)
(* registrar at a time, without the pattern, and two requests.             *)
OneRequest == Cardinality({c \in Requests : pc'[c] # "idle"}) <= 1
OneCall == /\ Cardinality({t \in Registrars : call'[t] # NoCall}) <= 1
           /\ \A t \in Registrars : call'[t] # SetRequest(pat, h1)

Find == INSTANCE FileRequest WITH
    Roots <- Roots, Dirs <- {"d", "srv", "www", "alt"}, Scripts <- {"s.cgi", "i.cgi"},
    Templates <- {"t.shtml"}, Hidden <- {"h", "i.html"}, Indexes <- <<"i.cgi", "i.html">>,
    FileSystems <- TwoRoots, Zipped <- ZippedFiles, Requests <- Queries,
    Configs <- Resolving, pc <- file_pc, answer <- file_answer,
    req <- file_req

Rights == INSTANCE FileRequest WITH
    Roots <- Roots, Dirs <- {"d", "srv", "www", "alt"}, Scripts <- {"s.cgi", "i.cgi"},
    Templates <- {"t.shtml"}, Hidden <- {"h", "i.html"}, Indexes <- <<"i.cgi", "i.html">>,
    FileSystems <- FewTrees, Zipped <- {{}}, Requests <- AnyRight,
    Configs <- Deciding, pc <- file_pc, answer <- file_answer, req <- file_req

Transfer == INSTANCE FileTransfer WITH
    Workers <- {t1, t2}, NoFile <- None, Disks <- Disks, Tasks <- TwoUploads,
    BufLen <- 2, SizeLimit <- 3, Everything <- 1000, Sendfile <- TRUE,
    Faults <- {"lost", "open", "write", "close"}

Alone == INSTANCE FileTransfer WITH
    Workers <- {t1}, NoFile <- None, Disks <- MoreDisks,
    Tasks <- Downloads \cup Uploads, BufLen <- 2, SizeLimit <- 3,
    Everything <- 1000, Sendfile <- TRUE,
    Faults <- {"sendfile", "client", "lost", "open", "write", "close"}

Locks == INSTANCE DavLocks WITH
    Workers <- {t1, t2}, Users <- {c1, c2}, NoUser <- None, Paths <- {n1, n2},
    NoPath <- None, NumLocks <- 2, Duration <- 0, MaxTime <- 1,
    req <- lock_req, pc <- lock_pc, answer <- lock_answer

Dav == INSTANCE DavFiles WITH
    Workers <- {t1, t2}, Names <- {"d", "e", "f", "g", "l", "s", "x"},
    Trees <- {Full, Small}, Tasks <- DavTasks, ReadOnly <- {"ro"},
    Sealed <- {<<"s">>}, TooLong <- {<<"d", "l">>}, Hidden <- {"g"},
    ArrSize <- 1, MayFail <- TRUE, task <- dav_task, pc <- dav_pc,
    answer <- dav_answer

Resp == INSTANCE Response WITH
    MaxHeaders <- 6, Additional <- <<"X-Served-By">>, Names <- {"Connection"},
    Codes <- {99, 302, 404}, ErrorPages <- {404}, HasCallback <- TRUE,
    Faults <- {"send", "memory"}, MaxCalls <- 3, pc <- resp_pc

Pw == INSTANCE PasswordFile WITH
    Keys <- {"ann", "bob"}, Hashes <- {"h1", "h2"}, Editors <- {t1, t2},
    Requests <- {c1}, InitialFiles <- PasswordFiles, Spare <- 2,
    Faults <- {"memory", "read", "create", "write"}, file <- passwords

Auth == INSTANCE Authorization WITH
    Threads <- {t1, t2}, Users <- {"bob"}, Passwords <- {"pw1", "pw2"},
    Realm <- "home", Files <- AuthFiles, ProtectUri <- Protected,
    Global <- <<>>, PutFile <- <<"put">>, Paths <- {<<"a">>},
    Directories <- {<<"a">>}, Depth <- 3, Masks <- <<8, 16>>, Junk <- {16},
    MaxTime <- 1, MaxChallenges <- 2, now <- clock, pc <- auth_pc,
    req <- auth_req

Vars == INSTANCE FormVars WITH
    Inputs <- VarInputs, KeyRoom <- 3, ValueRoom <- 3, ParamRoom <- 2,
    CookieRoom <- 2, MaxFields <- 3, MaxRoom <- 8, Partial <- TRUE,
    body <- var_body, pc <- var_pc, answer <- var_answer

findVars == <<fs, zipped, file_req, cfg, file_pc, root, sep, file, stat,
              is_gzipped, is_found, is_script, is_template, is_put_or_delete,
              is_webdav, path_info, file_answer>>
transferVars == <<entry, data, task, job>>
locksVars == <<now, webdav_lock, lock_req, lock_pc, lock_index, lock_answer>>
davVars == <<tree, dav_task, dav_pc, stack, found, arr_size, todo,
             dav_answer>>
respVars == <<r, calls, resp_pc>>
pwVars == <<exists, passwords, edit, request, before, alone>>
authVars == <<clock, start_time, run, nonce_count, lock, auth_pc, auth_req,
              known, issued>>
varsVars == <<input, var_body, var_pc, size, result, fields, var_answer>>
all == <<part, vars, findVars, transferVars, locksVars, davVars, respVars,
        pwVars, authVars, varsVars>>

(* Only one part runs: the others stay as they are.                        *)
Runs(p) ==
    /\ part = p /\ UNCHANGED part
    /\ IF p \in {"registry", "crowd"} THEN TRUE ELSE UNCHANGED vars
    /\ IF p \in {"files", "rights"} THEN TRUE ELSE UNCHANGED findVars
    /\ IF p \in {"transfer", "alone"} THEN TRUE ELSE UNCHANGED transferVars
    /\ IF p = "locks" THEN TRUE ELSE UNCHANGED locksVars
    /\ IF p = "dav" THEN TRUE ELSE UNCHANGED davVars
    /\ IF p = "response" THEN TRUE ELSE UNCHANGED respVars
    /\ IF p = "passwords" THEN TRUE ELSE UNCHANGED pwVars
    /\ IF p = "auth" THEN TRUE ELSE UNCHANGED authVars
    /\ IF p = "vars" THEN TRUE ELSE UNCHANGED varsVars

Idle(p) ==
    /\ IF p \in {"files", "rights"} THEN TRUE ELSE
          /\ fs = None /\ zipped = None /\ file_req = None /\ cfg = None
          /\ file_pc = None /\ root = None /\ sep = None /\ file = None
          /\ stat = None /\ is_gzipped = None /\ is_found = None
          /\ is_script = None /\ is_template = None /\ is_put_or_delete = None
          /\ is_webdav = None /\ path_info = None /\ file_answer = None
    /\ IF p \in {"transfer", "alone"} THEN TRUE ELSE
          /\ entry = None /\ data = None /\ task = None /\ job = None
    /\ IF p = "locks" THEN TRUE ELSE
          /\ now = None /\ webdav_lock = None /\ lock_req = None
          /\ lock_pc = None /\ lock_index = None /\ lock_answer = None
    /\ IF p = "dav" THEN TRUE ELSE
          /\ tree = None /\ dav_task = None /\ dav_pc = None /\ stack = None
          /\ found = None /\ arr_size = None /\ todo = None
          /\ dav_answer = None
    /\ IF p = "response" THEN TRUE ELSE
          /\ r = None /\ calls = None /\ resp_pc = None
    /\ IF p = "passwords" THEN TRUE ELSE
          /\ exists = None /\ passwords = None /\ edit = None
          /\ request = None /\ before = None /\ alone = None
    /\ IF p = "auth" THEN TRUE ELSE
          /\ clock = None /\ start_time = None /\ run = None
          /\ nonce_count = None /\ lock = None /\ auth_pc = None
          /\ auth_req = None /\ known = None /\ issued = None
    /\ IF p = "vars" THEN TRUE ELSE
          /\ input = None /\ var_body = None /\ var_pc = None /\ size = None
          /\ result = None /\ fields = None /\ var_answer = None

SuiteInit ==
    /\ part \in Parts
    /\ Idle(part)
    /\ Init
    /\ \/ part \in {"registry", "crowd"}
       \/ part = "files" /\ Find!Init
       \/ part = "rights" /\ Rights!Init
       \/ part = "transfer" /\ Transfer!Init
       \/ part = "alone" /\ Alone!Init
       \/ part = "locks" /\ Locks!Init
       \/ part = "dav" /\ Dav!Init
       \/ part = "response" /\ Resp!Init
       \/ part = "passwords" /\ Pw!Init
       \/ part = "auth" /\ Auth!Init
       \/ part = "vars" /\ Vars!Init

SuiteNext ==
    \/ Runs("registry") /\ Next /\ OneRequest
    \/ Runs("crowd") /\ Next /\ OneCall
    \/ Runs("files") /\ Find!Next
    \/ Runs("rights") /\ Rights!Next
    \/ Runs("transfer") /\ Transfer!Next
    \/ Runs("alone") /\ Alone!Next
    \/ Runs("locks") /\ Locks!Next
    \/ Runs("dav") /\ Dav!Next
    \/ Runs("response") /\ Resp!Next
    \/ Runs("passwords") /\ Pw!Next
    \/ Runs("auth") /\ Auth!Next
    \/ Runs("vars") /\ Vars!Next

ASSUME PartsAssumption ==
    Transfer!SizesAssumption /\ Locks!LocksAssumption /\ Resp!HeadersAssumption
    /\ Pw!PasswordAssumption /\ Auth!AuthAssumption

SuiteSpec == SuiteInit /\ [][SuiteNext]_all

-----------------------------------------------------------------------------
TypesOK ==
    /\ TypeOK
    /\ part = "files" => Find!TypeOK
    /\ part = "rights" => Rights!TypeOK
    /\ part = "transfer" => Transfer!TypeOK
    /\ part = "alone" => Alone!TypeOK
    /\ part = "locks" => Locks!TypeOK
    /\ part = "dav" => Dav!TypeOK
    /\ part = "response" => Resp!TypeOK
    /\ part = "passwords" => Pw!TypeOK
    /\ part = "auth" => Auth!TypeOK
    /\ part = "vars" => Vars!TypeOK

(* What is answered from the files is what the request may have, from the  *)
(* first root that has it: no source of a script, no hidden file, nothing  *)
(* that is not there, no name that was cut, no change without the right to *)
(* it.  A download that is not cut has the bytes that were asked for, an   *)
(* upload is in the file in its place, and what fails leaves nothing       *)
(* behind (interpret_uri, handle_request,                                  *)
(* handle_static_file_request, put_file, mg_store_body).                   *)
FilesServed ==
    /\ part = "files" =>
         /\ Find!SourceNotSent /\ Find!HiddenNotServed /\ Find!PathInfoComplete
         /\ Find!DeliversWhatExists /\ Find!FirstRootWins /\ Find!CutNotUsed
    /\ part = "rights" => Rights!WriteAuthorized
    /\ part = "transfer" => Transfer!FilesClosed /\ Transfer!StoredWhole /\ Transfer!StoreCleansUp
    /\ part = "alone" =>
         /\ Alone!WholeFileSent /\ Alone!BytesInPlace /\ Alone!ValidRangeSent
         /\ Alone!FilesClosed /\ Alone!StoredWhole /\ Alone!StoreCleansUp

(* Access is granted to those whose entry and nonce say so, and to them,   *)
(* nonces differ, and an edit of a passwords file changes the entry it is  *)
(* about and no other (check_authorization, mg_modify_passwords_file).     *)
RightUser ==
    /\ [](part = "auth" =>
            Auth!NoncesDistinct /\ Auth!GrantedIssued /\ Auth!GrantedListed /\ Auth!ListedGranted)
    /\ [][part = "passwords" => Pw!EditApplied /\ Pw!NoOtherLogin]_all

(* A lock has one owner, stays until it expires or is the oldest of all,   *)
(* and refuses others only; files vanish by a DELETE or MOVE of theirs     *)
(* only, and a MOVE that succeeds has moved everything (dav_lock_file,     *)
(* dav_move_file, delete_file).                                            *)
DavSafe ==
    /\ [](part = "locks" => Locks!OneOwner)
    /\ [](part = "dav" => Dav!CreatedOnce /\ Dav!NoOverrun)
    /\ [][/\ part = "locks" => Locks!KeptUntilExpired /\ Locks!RefusedForCause
          /\ part = "dav" => Dav!LostForCause /\ Dav!MovedIsThere]_all

(* A response is one head, in order, and then its body; after the text of  *)
(* an error the connection is closed; what mg_response_header_add_lines    *)
(* says it added is there (response.inl, mg_send_http_error).              *)
ResponseFramed ==
    /\ [](part = "response" => Resp!HeadIsFirst /\ Resp!ErrorCloses)
    /\ [][part = "response" => Resp!LinesCounted]_all

(* KVHandler stores and looks up what the client has encoded, whenever it  *)
(* fits and is valid, and the ways to read a parameter or a cookie agree   *)
(* (server.cpp, mg_get_var2, mg_split_form_urlencoded, getParam).          *)
ParametersDecoded ==
    part = "vars" =>
        Vars!StoredDecoded /\ Vars!SplitAgrees /\ Vars!ParamWhole /\ Vars!CookieFound
=============================================================================
