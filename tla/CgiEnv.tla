------------------------------- MODULE CgiEnv --------------------------------
(***************************************************************************)
(* prepare_cgi_environment and addenv of src/Server/civetweb/civetweb.c:   *)
(* the variables of a CGI program, one string after the other in a buffer  *)
(* that grows by reallocation, with an array of pointers into it.          *)
(***************************************************************************)
EXTENDS Naturals, Sequences, FiniteSets, SequencesExt

CONSTANTS
    Requests,   \* a set of [fallback, script, info, given, user, headers, own, long]
    Chunk,      \* CGI_ENVIRONMENT_SIZE
    MaxVars,    \* MAX_CGI_ENVIR_VARS
    LongLength, \* of a variable of the request's "long"
    MaxFailures \* allocations that may fail

CgiEnvAssumption == Chunk \in Nat /\ Chunk > 2 /\ MaxVars \in Nat \ {0}

VARIABLES
    todo,       \* the variables still to be added
    block,      \* [base, len, used], the buffer: base counts its addresses
    strings,    \* what is in the buffer, one string after the other
    var,        \* the pointers [base, at]
    space,      \* of the loop of addenv
    pc,         \* "start", "next", "print", "done", "failed"
    failures,   \* allocations that have failed
    request

vars == <<todo, block, strings, var, space, pc, failures, request>>

TypeOK ==
    /\ pc \in {"start", "next", "print", "done", "failed"}
    /\ block.used <= block.len /\ Len(var) < MaxVars /\ failures <= MaxFailures

-----------------------------------------------------------------------------
(* The variables of a request. *)
If(condition, name) == IF condition THEN <<name>> ELSE <<>>

(* SCRIPT_NAME is missing when a program without a directory answers for a *)
(* directory.                                                              *)
ScriptName(r) == If(r.info \/ r.script \in {"file", "index"}, "SCRIPT_NAME")

(* A header whose name is too long for http_var_name is left out. *)
HeaderVariables(r) ==
    LET fit == SelectSeq(r.headers, LAMBDA h : h # "longname")
    IN [i \in DOMAIN fit |-> "HTTP_" \o fit[i]]

Variables(r) ==
    <<"SERVER_NAME", "SERVER_ROOT", "DOCUMENT_ROOT">> \o If(r.fallback, "FALLBACK_DOCUMENT_ROOT")
    \o <<"SERVER_SOFTWARE", "GATEWAY_INTERFACE", "SERVER_PROTOCOL", "REDIRECT_STATUS", "SERVER_PORT",
         "REMOTE_ADDR", "REQUEST_METHOD", "REMOTE_PORT", "REQUEST_URI", "LOCAL_URI", "LOCAL_URI_RAW">>
    \o ScriptName(r) \o <<"SCRIPT_FILENAME", "PATH_TRANSLATED", "HTTPS">>
    \o SelectSeq(<<"CONTENT_TYPE", "QUERY_STRING", "CONTENT_LENGTH", "PATH">>, LAMBDA n : n \in r.given)
    \o If(r.info, "PATH_INFO")
    \o SelectSeq(<<"STATUS", "LD_LIBRARY_PATH", "PERLLIB">>, LAMBDA n : n \in r.given)
    \o (IF r.user THEN <<"REMOTE_USER", "AUTH_TYPE">> ELSE <<>>)
    \o HeaderVariables(r) \o r.own

Length(n) == IF n \in request.long THEN LongLength ELSE 1

-----------------------------------------------------------------------------
Init ==
    /\ request \in Requests /\ todo = <<>> /\ strings = <<>> /\ var = <<>>
    /\ block = [base |-> 0, len |-> 0, used |-> 0] /\ space = 0 /\ pc = "start" /\ failures = 0

Failure == failures < MaxFailures /\ failures' = failures + 1

Prepare ==
    /\ pc = "start"
    /\ \/ /\ block' = [base |-> 0, len |-> Chunk, used |-> 0] /\ todo' = Variables(request)
          /\ pc' = "next" /\ UNCHANGED failures
       \/ Failure /\ pc' = "failed" /\ UNCHANGED <<block, todo>>
    /\ UNCHANGED <<strings, var, space, request>>

(* addenv begins: without room for another pointer and the NULL behind it, *)
(* the variable is left out.                                               *)
HasPointer == MaxVars - Len(var) >= 2
Begin ==
    /\ pc = "next" /\ todo # <<>>
    /\ IF HasPointer THEN pc' = "print" /\ space' = block.len - block.used /\ UNCHANGED todo
       ELSE todo' = Tail(todo) /\ UNCHANGED <<pc, space>>
    /\ UNCHANGED <<block, strings, var, failures, request>>

(* Where the n-th string of the buffer begins. *)
At(n) == FoldSeq(LAMBDA s, at : at + s.len + 1, 0, SubSeq(strings, 1, n - 1))

(* Faulty: the pointers stay where the buffer was. *)
LeftBehind(base) == var

(* realloc, which moves the buffer or not, and the pointers that follow. *)
Retargeted(base) == [i \in DOMAIN var |-> [base |-> base, at |-> At(i)]]
Grow ==
    /\ pc = "print" /\ space <= 2
    /\ \/ \E base \in {block.base, block.base + 1} :
            /\ block' = [block EXCEPT !.base = base, !.len = @ + Chunk]
            /\ var' = Retargeted(base) /\ space' = block.len + Chunk - block.used
            /\ UNCHANGED <<pc, todo, failures>>
       \/ Failure /\ pc' = "next" /\ todo' = Tail(todo) /\ UNCHANGED <<block, var, space>>
    /\ UNCHANGED <<strings, request>>

(* mg_vsnprintf, with a byte kept for the end of the buffer. *)
Fits(n) == Length(n) < space - 1

NoSpace == 0
Write ==
    /\ pc = "print" /\ space > 2
    /\ LET n == Head(todo)
       IN IF Fits(n)
          THEN /\ strings' = Append(strings, [name |-> n, len |-> Length(n)])
               /\ var' = Append(var, [base |-> block.base, at |-> block.used])
               /\ block' = [block EXCEPT !.used = @ + Length(n) + 1]
               /\ pc' = "next" /\ todo' = Tail(todo) /\ UNCHANGED space
          ELSE space' = NoSpace /\ UNCHANGED <<strings, var, block, pc, todo>>
    /\ UNCHANGED <<failures, request>>

Finish ==
    /\ pc = "next" /\ todo = <<>> /\ pc' = "done"
    /\ UNCHANGED <<todo, block, strings, var, space, failures, request>>

Next == Prepare \/ Begin \/ Grow \/ Write \/ Finish
Spec == Init /\ [][Next]_vars /\ WF_vars(Next)

-----------------------------------------------------------------------------
(* Every pointer is to the begin of its own string, in the buffer that is  *)
(* there now and not in one that has been given back.                      *)
PointersRight ==
    /\ Len(var) = Len(strings)
    /\ \A i \in DOMAIN var : var[i] = [base |-> block.base, at |-> At(i)]

(* There is always room for what ends the environment: the second zero     *)
(* behind the last string, and the NULL behind the last pointer.           *)
EndsMarked == pc = "done" => block.used < block.len /\ Len(var) < MaxVars

(* Every variable gets into the environment whole and in its order, those  *)
(* apart that came when there were too many, or no memory.                 *)
NothingLost ==
    pc = "done" =>
       LET names == [i \in DOMAIN strings |-> strings[i].name]
           wanted == Variables(request)
       IN IF failures = 0 THEN names = SubSeq(wanted, 1, Len(names)) /\ Len(names) \in {Len(wanted), MaxVars - 1}
          ELSE Len(names) >= (IF Len(wanted) < MaxVars THEN Len(wanted) ELSE MaxVars - 1) - failures

=============================================================================
