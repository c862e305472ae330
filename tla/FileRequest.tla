---------------------------- MODULE FileRequest ----------------------------
(***************************************************************************)
(* How the HTTP front end answers a request no callback takes              *)
(* (src/Server/civetweb/civetweb.c): interpret_uri looks for the file, the *)
(* index file or the script the URI names, under the document root and the *)
(* fallback root; handle_request and handle_file_based_request decide what *)
(* is done with it.                                                        *)
(*                                                                         *)
(* A path is the sequence of the names in it, <<>> that of "/".  A name    *)
(* tells what it is: a directory, a script, a template or a plain file.    *)
(* The roots are absolute paths that do not end in '/', and the text of    *)
(* one is no part of a name of the other.  Lengths are counted in names,   *)
(* ".gz" as one.  The file system does not change while one request is     *)
(* handled.                                                                *)
(***************************************************************************)
EXTENDS Naturals, Sequences, FiniteSets, SequencesExt

CONSTANTS
    Dirs, Scripts, Templates,   \* names of directories, scripts, templates
    Indexes,        \* config INDEX_FILES, a sequence of names
    Hidden,         \* names that match config HIDE_FILES
    Roots,          \* the document root and the fallback root
    FileSystems,    \* sets of paths
    Zipped,         \* sets of paths p: p.gz exists
    Requests,       \* [uri, slash, method, gzip, preflight, access, mayPut, auth, fresh]
    Configs         \* [roots, redirect, begin, cors, webdav, putFile, listing, subRes, room]:
                    \* how many roots are configured, ..., how long a filename may be

VARIABLES
    fs, zipped, req, cfg,   \* what the request meets; never changed
    pc,
    root,           \* i: the root that is tried
    sep,            \* how many names of filename are left of sep_pos
    file,           \* filename, <<>> if it is ""
    stat,           \* file.stat: "none", "dir" or "file"
    is_gzipped, is_found, is_script, is_template, is_put_or_delete, is_webdav,
    path_info,      \* the names after the script's
    answer          \* what the request gets, "" before

given == <<fs, zipped, req, cfg>>
outputs == <<file, stat, is_gzipped, is_found, is_script, is_template, path_info>>
methods == <<is_put_or_delete, is_webdav>>
vars == <<given, pc, root, sep, outputs, methods, answer>>

Answers == {"", "nothing", "callback", "preflight", "301", "304", "401", "403", "404",
            "405", "503", "script", "template", "static", "listing", "propfind",
            "options", "PUT", "DELETE", "MKCOL", "MOVE", "COPY", "LOCK", "UNLOCK",
            "PROPPATCH"}

TypeOK ==
    /\ pc \in {"begin", "interpret", "root", "zipped", "scan", "decide", "answered"}
    /\ root \in 1 .. 2
    /\ sep \in 0 .. Len(Roots[root] \o req.uri)
    /\ stat \in {"none", "dir", "file"}
    /\ {is_gzipped, is_found, is_script, is_template, is_put_or_delete, is_webdav}
         \subseteq BOOLEAN
    /\ answer \in Answers

-----------------------------------------------------------------------------
Named(p, names) == p # <<>> /\ Last(p) \in names
IsDir(p) == p = <<>> \/ Named(p, Dirs)
IsScript(p) == Named(p, Scripts)        \* extention_matches_script
IsTemplate(p) == Named(p, Templates)    \* extention_matches_template_text

Exists(p) == p \in fs

(* mg_stat of the path with a '/' after it succeeds for a directory only. *)
Stats(p, slash) == Exists(p) /\ (slash => IsDir(p))
KindOf(p) == IF IsDir(p) THEN "dir" ELSE "file"

(* Step 6: the file the URI names under a root, and under the one that is  *)
(* tried.                                                                  *)
Full(r) == Roots[r] \o req.uri
Name == Full(root)

(* is_put_or_delete_method, is_civetweb_webdav_method *)
PutOrDelete == {"PUT", "DELETE", "MKCOL", "PATCH", "LOCK", "UNLOCK", "PROPPATCH",
                "MOVE", "COPY"}
WebDav == {"PROPFIND", "PROPPATCH", "LOCK", "UNLOCK", "MOVE", "COPY"}

(* substitute_index_file_aux: the first index file there is in p. *)
IndexesIn(p) == {i \in DOMAIN Indexes : Exists(Append(p, Indexes[i]))}
IndexOf(p) ==
    Append(p, Indexes[CHOOSE i \in IndexesIn(p) : \A j \in IndexesIn(p) : i <= j])

(* What is below the document root may be below the fallback root.         *)
InFallback(p) ==
    IF cfg.roots = 2 /\ IsPrefix(Roots[1], p)
      THEN {Roots[2] \o SubSeq(p, Len(Roots[1]) + 1, Len(p))} ELSE {}

(* substitute_index_file, of a directory p in a buffer for n names.  The   *)
(* result is a set with the substitute, if there is one.                   *)
Substitute(p, n) ==
    IF Len(p) < n /\ IndexesIn(p) # {}
      THEN {IndexOf(p)}
      ELSE {IndexOf(d) : d \in {q \in InFallback(p) : Len(q) < cfg.room /\ IndexesIn(q) # {}}}

Init ==
    /\ fs \in FileSystems
    /\ zipped \in Zipped
    /\ req \in Requests
    /\ cfg \in Configs
    /\ pc = "begin" /\ root = 1 /\ sep = 0
    /\ file = <<>> /\ stat = "none"
    /\ is_gzipped = FALSE /\ is_found = FALSE /\ is_script = FALSE
    /\ is_template = FALSE /\ is_put_or_delete = FALSE /\ is_webdav = FALSE
    /\ path_info = <<>>
    /\ answer = ""

Answer(a) ==
    /\ pc' = "answered"
    /\ answer' = a
    /\ UNCHANGED <<given, root, sep, outputs, methods>>

-----------------------------------------------------------------------------
(* Steps 1 to 4. *)

PreflightWanted == req.method = "OPTIONS" /\ req.preflight /\ cfg.cors

(* Redirection to https without an https port; no memory for the URI; the  *)
(* begin_request callback.                                                 *)
Before ==
    /\ pc = "begin"
    /\ \/ cfg.redirect /\ Answer("503")
       \/ ~ cfg.redirect /\ Answer("nothing")
       \/ ~ cfg.redirect /\ cfg.begin = "handles" /\ Answer("callback")
       \/ ~ cfg.redirect /\ cfg.begin = "gives up" /\ Answer("nothing")

Continues == pc = "begin" /\ ~ cfg.redirect /\ cfg.begin \in {"none", "continues"}

Preflight ==
    /\ Continues
    /\ PreflightWanted
    /\ Answer("preflight")

(* 5.2.2: interpret_uri begins with the method. *)
Interpret ==
    /\ Continues
    /\ ~ PreflightWanted
    /\ is_put_or_delete' = (req.method \in PutOrDelete)
    /\ is_webdav' = (req.method \in WebDav)
    /\ pc' = IF cfg.roots = 0 THEN "decide" ELSE "root"
    /\ UNCHANGED <<given, root, sep, outputs, answer>>

-----------------------------------------------------------------------------
(* interpret_uri *)

(* Faulty: the request still writes a file.                                *)
CleanupKeepsMethod ==
    /\ pc' = "decide"
    /\ file' = <<>> /\ stat' = "none" /\ is_gzipped' = FALSE
    /\ is_found' = FALSE /\ is_script' = FALSE
    /\ UNCHANGED <<given, root, sep, is_template, path_info, methods, answer>>

(* interpret_cleanup: no file, and no request that writes one.             *)
Cleanup ==
    /\ pc' = "decide"
    /\ file' = <<>> /\ stat' = "none" /\ is_gzipped' = FALSE
    /\ is_found' = FALSE /\ is_script' = FALSE /\ is_put_or_delete' = FALSE
    /\ UNCHANGED <<given, root, sep, is_template, path_info, is_webdav, answer>>

Fits == Len(Name) <= cfg.room

(* Step 6: the name is too long.  No other root is tried.                  *)
Truncated == pc = "root" /\ ~ Fits /\ Cleanup

(* Steps 6 and 8: not under this root. *)
NextRoot ==
    /\ pc = "root"
    /\ Fits
    /\ ~ Stats(Name, req.slash)
    /\ file' = Name
    /\ IF root < cfg.roots
         THEN root' = root + 1 /\ UNCHANGED pc
         ELSE pc' = "zipped" /\ UNCHANGED root
    /\ UNCHANGED <<given, sep, stat, is_gzipped, is_found, is_script, is_template,
                   path_info, methods, answer>>

(* Step 8.4: an index file stands for a directory. *)
Substituted ==
    IF IsDir(Name) /\ req.slash /\ ~ is_webdav THEN Substitute(Name, cfg.room) ELSE {}

Found ==
    /\ pc = "root"
    /\ Fits
    /\ Stats(Name, req.slash)
    /\ is_found' = TRUE
    /\ IF Substituted = {}
         THEN /\ file' = Name
              /\ stat' = KindOf(Name)
              /\ is_script' = (IsScript(Name) /\ ~ is_put_or_delete)
              /\ is_template' = (IsTemplate(Name) /\ ~ is_put_or_delete)
         ELSE \E f \in Substituted :
              /\ file' = f
              /\ stat' = KindOf(f)
              /\ is_script' = IsScript(f)
              /\ is_template' = (IsTemplate(f) /\ ~ IsScript(f))
    /\ pc' = "decide"
    /\ UNCHANGED <<given, root, sep, is_gzipped, path_info, methods, answer>>

(* Step 9, under the last root that was tried: the name with .gz is too    *)
(* long ...                                                                *)
ZippedFits == req.gzip => Len(Name) < cfg.room
ZippedTruncated == pc = "zipped" /\ ~ ZippedFits /\ Cleanup

(* ... or there is such a file, or else the scan for a script begins, at   *)
(* the last '/'.                                                           *)
HasZipped == req.gzip /\ ~ req.slash /\ Name \in zipped
TryZipped ==
    /\ pc = "zipped"
    /\ ZippedFits
    /\ IF HasZipped
         THEN /\ is_gzipped' = TRUE /\ is_found' = TRUE /\ stat' = "file"
              /\ pc' = "decide"
              /\ UNCHANGED sep
         ELSE /\ pc' = "scan"
              /\ sep' = IF req.slash THEN Len(Name) ELSE Len(Name) - 1
              /\ UNCHANGED <<is_gzipped, is_found, stat>>
    /\ UNCHANGED <<given, root, file, is_script, is_template, path_info, methods, answer>>

(* Step 10: no memory for a copy of the name.                              *)
NoMemory == pc = "zipped" /\ ZippedFits /\ ~ HasZipped /\ Cleanup

(* The scan goes on to the left end of the name, above the root too.       *)
UpTo(n) == SubSeq(Name, 1, n)
Above == UpTo(sep)

(* Faulty: one name is lost.                                               *)
RestShort == SubSeq(Name, sep + 2, Len(Name))
Rest == SubSeq(Name, sep + 1, Len(Name))

ScriptAt(n) == Exists(UpTo(n)) /\ IsScript(UpTo(n))
IndexAt(n) == IF cfg.subRes THEN Substitute(UpTo(n), n + 1) ELSE {}

(* What is left of the separator is a script ... *)
ScriptAbove ==
    /\ pc = "scan"
    /\ ScriptAt(sep)
    /\ file' = Above
    /\ path_info' = Rest
    /\ stat' = KindOf(Above)
    /\ is_script' = TRUE /\ is_found' = TRUE
    /\ pc' = "decide"
    /\ UNCHANGED <<given, root, sep, is_gzipped, is_template, methods, answer>>

(* ... or a directory with an index script ... *)
IndexAbove ==
    /\ pc = "scan"
    /\ ~ ScriptAt(sep)
    /\ \E f \in IndexAt(sep) :
         /\ IsScript(f)
         /\ Len(f \o Rest) <= cfg.room
         /\ file' = f /\ stat' = KindOf(f)
    /\ path_info' = Rest
    /\ is_script' = TRUE /\ is_found' = TRUE
    /\ pc' = "decide"
    /\ UNCHANGED <<given, root, sep, is_gzipped, is_template, methods, answer>>

(* ... whose name is too long with what follows ... *)
IndexTruncated ==
    /\ pc = "scan"
    /\ ~ ScriptAt(sep)
    /\ \E f \in IndexAt(sep) : IsScript(f) /\ Len(f \o Rest) > cfg.room
    /\ Cleanup

(* ... or with an index file that is no script and has no sub-resources... *)
PlainIndexAbove ==
    /\ pc = "scan"
    /\ ~ ScriptAt(sep)
    /\ \E f \in IndexAt(sep) : ~ IsScript(f) /\ stat' = KindOf(f)
    /\ file' = Above
    /\ pc' = "decide"
    /\ UNCHANGED <<given, root, sep, is_gzipped, is_found, is_script, is_template,
                   path_info, methods, answer>>

(* ... or none of these.  mg_stat has been tried, of the index files last, *)
(* and fills in file.stat.                                                 *)
NothingAbove ==
    /\ pc = "scan"
    /\ ~ ScriptAt(sep)
    /\ IndexAt(sep) = {}
    /\ stat' = IF cfg.subRes /\ Indexes # <<>> THEN "none"
               ELSE IF sep = 0 THEN stat
               ELSE IF Exists(Above) THEN KindOf(Above) ELSE "none"
    /\ IF sep = 0 THEN pc' = "decide" /\ UNCHANGED sep ELSE sep' = sep - 1 /\ UNCHANGED pc
    /\ UNCHANGED <<given, root, file, is_gzipped, is_found, is_script, is_template,
                   path_info, methods, answer>>

-----------------------------------------------------------------------------
(* handle_request from step 5.3 on. *)

DavRefused == is_webdav /\ ~ cfg.webdav
WritesFile == is_put_or_delete /\ ~ is_script

(* Faulty: the authorization for PUT is asked of PUT only. *)
RefusalPutOnly ==
    CASE DavRefused -> "405"
      [] ~ DavRefused /\ req.auth = "refuses" -> "401"
      [] ~ DavRefused /\ req.auth = "none" /\ req.method = "PUT" /\ ~ is_script ->
           IF cfg.roots = 0 \/ ~ cfg.putFile THEN "405" ELSE IF req.mayPut THEN "" ELSE "401"
      [] OTHER -> IF req.access THEN "" ELSE "401"

(* 6. "" if the request may go on. *)
Refusal ==
    CASE DavRefused -> "405"
      [] ~ DavRefused /\ req.auth = "accepts" -> ""
      [] ~ DavRefused /\ req.auth = "refuses" -> "401"
      [] ~ DavRefused /\ req.auth = "none" /\ WritesFile ->
           IF cfg.roots = 0 \/ ~ cfg.putFile THEN "405" ELSE IF req.mayPut THEN "" ELSE "401"
      [] OTHER -> IF req.access THEN "" ELSE "401"

Refuse ==
    /\ pc = "decide"
    /\ Refusal # ""
    /\ Answer(Refusal)

Accepted == pc = "decide" /\ Refusal = ""

(* 9b, 10, 11. *)
NoRoot == Accepted /\ cfg.roots = 0 /\ Answer("404")

RunScript == Accepted /\ cfg.roots > 0 /\ is_script /\ Answer("script")

Write ==
    /\ Accepted
    /\ cfg.roots > 0
    /\ WritesFile
    /\ Answer(IF req.method = "PATCH" THEN "405" ELSE req.method)

ReadsFile == Accepted /\ cfg.roots > 0 /\ ~ is_script /\ ~ is_put_or_delete

(* Faulty: the name in the URI is compared, not that of the file. *)
MustHideUri == Named(req.uri, Hidden)

(* must_hide_file *)
MustHide == Named(file, Hidden)

NotFound ==
    /\ ReadsFile
    /\ ~ is_found \/ MustHide
    /\ Answer("404")

Readable == ReadsFile /\ is_found /\ ~ MustHide

(* 12. A directory's URI gets its '/' by a redirection. *)
RedirectDir == Readable /\ stat = "dir" /\ req.uri # <<>> /\ ~ req.slash /\ Answer("301")

Reads == Readable /\ ~ (stat = "dir" /\ req.uri # <<>> /\ ~ req.slash)

(* 13. *)
OtherMethod ==
    /\ Reads
    /\ req.method \notin {"GET", "HEAD"}
    /\ Answer(CASE req.method = "PROPFIND" -> "propfind"
                [] req.method = "OPTIONS" -> "options"
                [] OTHER -> "405")

Gets == Reads /\ req.method \in {"GET", "HEAD"}

(* 14. *)
Directory == Gets /\ stat = "dir" /\ Answer(IF cfg.listing THEN "listing" ELSE "403")

(* 15, handle_file_based_request: a template goes through the server. *)
Template == Gets /\ stat # "dir" /\ is_template /\ Answer("template")

(* 16 and 17. *)
Static ==
    /\ Gets
    /\ stat # "dir"
    /\ ~ is_template
    /\ Answer(IF req.fresh THEN "304" ELSE "static")

Next ==
    \/ Before \/ Preflight \/ Interpret
    \/ Truncated \/ NextRoot \/ Found \/ ZippedTruncated \/ TryZipped \/ NoMemory
    \/ ScriptAbove \/ IndexAbove \/ IndexTruncated \/ PlainIndexAbove \/ NothingAbove
    \/ Refuse \/ NoRoot \/ RunScript \/ Write \/ NotFound \/ RedirectDir
    \/ OtherMethod \/ Directory \/ Template \/ Static

Spec == Init /\ [][Next]_vars

-----------------------------------------------------------------------------
Delivers == {"static", "304", "template", "script", "listing"}

(* No way through roots, index files, zipped variants and sub-resources    *)
(* delivers a script or a template as it is: they are run.                 *)
SourceNotSent ==
    answer \in {"static", "304"} =>
        is_gzipped \/ ~ (IsScript(file) \/ IsTemplate(file))

(* A hidden file is neither sent nor listed, nor shown by PROPFIND or a    *)
(* redirection, whichever way it was found.                                *)
HiddenNotServed ==
    answer \in {"static", "304", "template", "listing", "301", "propfind"} =>
        ~ Named(file, Hidden)

(* What changes the file system has the right to: the password file for    *)
(* PUT and DELETE, or a callback that decides.                             *)
WriteAuthorized ==
    answer \in PutOrDelete => req.auth = "accepts" \/ (cfg.putFile /\ req.mayPut)

(* What is read, run, written or deleted has a name that was not cut.      *)
CutNotUsed ==
    answer \in Delivers \cup PutOrDelete => \A r \in 1 .. root : Len(Full(r)) <= cfg.room

(* A script gets as its path all names of the file that was looked for     *)
(* after its own, or after the directory whose index it is, and no script  *)
(* that is nearer to what the URI names is passed over.  The scan does not *)
(* end at the root: of a script above it the path has names of the root.   *)
PathInfoComplete ==
    pc = "decide" /\ is_script =>
        \E n \in 0 .. Len(Name) :
            /\ path_info = SubSeq(Name, n + 1, Len(Name))
            /\ \/ file = UpTo(n)
               \/ \E d \in {UpTo(n)} \cup InFallback(UpTo(n)), i \in DOMAIN Indexes :
                     file = Append(d, Indexes[i])
            /\ \A m \in n + 1 .. Len(Name) - 1 : ~ ScriptAt(m) /\ IndexAt(m) = {}

(* What is delivered exists, where and as what the answer treats it.       *)
DeliversWhatExists ==
    answer \in Delivers =>
        IF is_gzipped THEN file \in zipped
        ELSE Exists(file) /\ (answer = "listing") = IsDir(file)

(* A file the URI names is found whichever root has it, the document root  *)
(* before the fallback root, if its names under the roots are short enough.*)
FirstRootWins ==
    pc = "decide" /\ ~ is_webdav /\ cfg.roots > 0 =>
        \A r \in 1 .. cfg.roots :
            /\ Stats(Full(r), req.slash)
            /\ \A q \in 1 .. r - 1 : ~ Stats(Full(q), req.slash)
            /\ \A q \in 1 .. r : Len(Full(q)) <= cfg.room
            => is_found /\ (~ IsDir(Full(r)) => file = Full(r))

=============================================================================
