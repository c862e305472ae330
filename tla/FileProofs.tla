----------------------------- MODULE FileProofs -----------------------------
(***************************************************************************)
(* Proofs about the files of the HTTP front end: looking up a file and the *)
(* rights to it (FileRequest), for any roots, names and configurations;    *)
(* sending and storing a file (FileTransfer), for any files, requests,     *)
(* buffers and workers.                                                    *)
(***************************************************************************)
EXTENDS Integers, Sequences, FiniteSets, SequenceTheorems, FiniteSetTheorems,
        WellFoundedInduction, TLAPS

CONSTANTS
    FileNames, Dirs, Scripts, Templates, Indexes, Hidden, Roots, FileSystems, Zipped,
    FileRequests, Configs,                          \* FileRequest
    Workers, NoFile, Disks, Tasks, BufLen, SizeLimit, Everything, Sendfile,
    Faults                                          \* FileTransfer

VARIABLES
    fs, zipped, req, cfg, pc, root, sep, file, stat, is_gzipped, is_found, is_script,
    is_template, is_put_or_delete, is_webdav, path_info, answer,  \* FileRequest
    entry, data, task, job                          \* FileTransfer

Find == INSTANCE FileRequest WITH Requests <- FileRequests
Transfer == INSTANCE FileTransfer

-----------------------------------------------------------------------------
(* Natural numbers, if any, have a least one, which is what Min and the *)
(* operators that look for the first of several things choose.             *)
LEMMA LeastNat ==
    ASSUME NEW S \in SUBSET Nat, S # {}
    PROVE  \E m \in S : \A n \in S : m <= n
<1> DEFINE R == OpToRel(<, Nat)
<1>1. IsWellFoundedOn(R, Nat)
  BY NatLessThanWellFounded, Zenon
<1>2. PICK m \in S : \A n \in S : <<n, m>> \notin R
  <2> HIDE DEF R
  <2> QED BY <1>1, WFMin
<1>3. \A n \in S : ~ (n < m)
  BY <1>2, Zenon DEF OpToRel
<1> QED BY <1>3

-----------------------------------------------------------------------------
(* Looking up files *)

(* What a request and a configuration are; a root has a name, and no       *)
(* directory has the name of a script.                                     *)
FindHypothesis ==
    /\ Indexes \in Seq(FileNames) /\ Scripts \cap Dirs = {}
    /\ \A r \in 1 .. 2 : Roots[r] \in Seq(FileNames) \ {<<>>}
    /\ FileRequests \subseteq [uri : Seq(FileNames), slash : BOOLEAN, method : STRING, gzip : BOOLEAN,
                               preflight : BOOLEAN, access : BOOLEAN, mayPut : BOOLEAN,
                               auth : {"none", "accepts", "refuses"}, fresh : BOOLEAN]
    /\ Configs \subseteq [roots : 0 .. 2, redirect : BOOLEAN, begin : STRING, cors : BOOLEAN,
                          webdav : BOOLEAN, putFile : BOOLEAN, listing : BOOLEAN, subRes : BOOLEAN,
                          room : Nat]

Searching == {"begin", "root", "zipped", "scan"}

FindTyped ==
    /\ req \in FileRequests /\ cfg \in Configs
    /\ pc \in Searching \cup {"decide", "answered"}
    /\ root \in 1 .. 2 /\ sep \in 0 .. Len(Find!Name)
    /\ stat \in {"none", "dir", "file"}
    /\ is_gzipped \in BOOLEAN /\ is_found \in BOOLEAN /\ is_script \in BOOLEAN
    /\ is_template \in BOOLEAN /\ is_put_or_delete \in BOOLEAN /\ is_webdav \in BOOLEAN
    /\ answer \in Find!Answers
    /\ pc # "answered" => answer = ""

(* The name of the file under root r fits, and there is no such file.      *)
Missed(r) == Len(Find!Full(r)) <= cfg.room /\ ~ Find!Stats(Find!Full(r), req.slash)

(* Until the search has ended nothing is found; roots that have been       *)
(* tried do not have the file, and above it there is no script as far as   *)
(* the scan has come.                                                      *)
Unfound ==
    /\ pc \in Searching => ~ is_found /\ ~ is_gzipped /\ ~ is_script /\ ~ is_template /\ path_info = <<>>
    /\ pc \in {"root", "zipped", "scan", "decide"} => (is_put_or_delete => req.method \in Find!PutOrDelete)
    /\ pc = "begin" => root = 1 /\ sep = 0
    /\ pc = "root" => root <= cfg.roots /\ sep = 0 /\ \A q \in 1 .. root - 1 : Missed(q)
    /\ pc \in {"zipped", "scan"} =>
          file = Find!Name /\ root = cfg.roots /\ \A q \in 1 .. cfg.roots : Missed(q)
    /\ pc = "scan" => \A m \in sep + 1 .. Len(Find!Name) - 1 : ~ Find!ScriptAt(m) /\ Find!IndexAt(m) = {}

(* What has been found is there, and is what is said of it.                *)
Kept ==
    /\ is_gzipped => /\ is_found /\ ~ is_script /\ ~ is_template /\ stat = "file"
                     /\ file \in zipped
    /\ is_found /\ ~ is_gzipped => Find!Exists(file) /\ stat = Find!KindOf(file)
    /\ is_script => is_found /\ Find!IsScript(file)
    /\ is_found /\ ~ is_put_or_delete /\ ~ is_gzipped /\ ~ is_script =>
          ~ Find!IsScript(file) /\ (is_template <=> Find!IsTemplate(file))

(* The script is n names down, or the index of the directory there, and    *)
(* the nearest one.                                                        *)
PathAt(n) ==
    /\ path_info = SubSeq(Find!Name, n + 1, Len(Find!Name))
    /\ \/ file = Find!UpTo(n)
       \/ \E d \in {Find!UpTo(n)} \cup Find!InFallback(Find!UpTo(n)), i \in DOMAIN Indexes :
             file = Append(d, Indexes[i])
    /\ \A m \in n + 1 .. Len(Find!Name) - 1 : ~ Find!ScriptAt(m) /\ Find!IndexAt(m) = {}
PathWhole == is_script => \E n \in 0 .. Len(Find!Name) : PathAt(n)

(* What is found, or may be written, has names that fit.                   *)
FitsFound ==
    pc = "decide" /\ cfg.roots > 0 /\ (is_found \/ is_put_or_delete) =>
        \A q \in 1 .. root : Len(Find!Full(q)) <= cfg.room

(* What has been decided for what there is.                                *)
Decided ==
    /\ answer \in {"static", "304"} =>
          is_found /\ ~ is_put_or_delete /\ ~ is_script /\ ~ is_template /\ stat # "dir"
    /\ answer = "template" => is_found /\ is_template /\ ~ is_script /\ stat # "dir"
    /\ answer = "script" => is_script
    /\ answer = "listing" => is_found /\ stat = "dir"
    /\ Find!HiddenNotServed /\ Find!WriteAuthorized /\ Find!CutNotUsed

FindInv == FindTyped /\ Unfound /\ Kept /\ PathWhole /\ FitsFound /\ Decided /\ Find!FirstRootWins

(* The index file of a directory is there, and is one of them.             *)
LEMMA IndexIs ==
    ASSUME FindHypothesis, NEW p, Find!IndexesIn(p) # {}
    PROVE  \E i \in DOMAIN Indexes : Find!IndexOf(p) = Append(p, Indexes[i]) /\ Find!Exists(Append(p, Indexes[i]))
<1>1. Find!IndexesIn(p) \in SUBSET Nat
  BY DEF Find!IndexesIn, FindHypothesis
<1>2. \E m \in Find!IndexesIn(p) : \A n \in Find!IndexesIn(p) : m <= n
  BY <1>1, LeastNat
<1> DEFINE i == CHOOSE m \in Find!IndexesIn(p) : \A n \in Find!IndexesIn(p) : m <= n
<1>3. i \in Find!IndexesIn(p)
  BY <1>2
<1>4. Find!IndexOf(p) = Append(p, Indexes[i])
  BY DEF Find!IndexOf
<1> HIDE DEF i
<1> QED BY <1>3, <1>4 DEF Find!IndexesIn

(* A substitute is there, and is an index file in the directory or in the  *)
(* one that is in its place under the fallback root.                       *)
LEMMA SubstituteIs ==
    ASSUME FindHypothesis, NEW p, NEW n, NEW f \in Find!Substitute(p, n)
    PROVE  /\ Find!Exists(f)
           /\ \E d \in {p} \cup Find!InFallback(p), i \in DOMAIN Indexes : f = Append(d, Indexes[i])
<1>1. PICK d \in {p} \cup Find!InFallback(p) : f = Find!IndexOf(d) /\ Find!IndexesIn(d) # {}
  BY DEF Find!Substitute
<1>2. PICK i \in DOMAIN Indexes : f = Append(d, Indexes[i]) /\ Find!Exists(Append(d, Indexes[i]))
  BY <1>1, IndexIs
<1> QED BY <1>2

LEMMA RequestOf ==
    ASSUME FindHypothesis, NEW q \in FileRequests, NEW c \in Configs
    PROVE  /\ q.uri \in Seq(FileNames) /\ Len(q.uri) \in Nat /\ q.slash \in BOOLEAN
           /\ q.auth \in {"none", "accepts", "refuses"} /\ q.mayPut \in BOOLEAN
           /\ c.roots \in 0 .. 2 /\ c.putFile \in BOOLEAN /\ c.room \in Nat
<1>1. /\ q \in [uri : Seq(FileNames), slash : BOOLEAN, method : STRING, gzip : BOOLEAN,
                preflight : BOOLEAN, access : BOOLEAN, mayPut : BOOLEAN,
                auth : {"none", "accepts", "refuses"}, fresh : BOOLEAN]
      /\ c \in [roots : 0 .. 2, redirect : BOOLEAN, begin : STRING, cors : BOOLEAN,
                webdav : BOOLEAN, putFile : BOOLEAN, listing : BOOLEAN, subRes : BOOLEAN, room : Nat]
  BY DEF FindHypothesis
<1> QED BY <1>1

(* The name of the file under a root has names.                            *)
LEMMA NameOf ==
    ASSUME FindHypothesis, NEW r \in 1 .. 2, NEW q \in FileRequests, NEW c \in Configs
    PROVE  Roots[r] \o q.uri \in Seq(FileNames) /\ Len(Roots[r] \o q.uri) \in Nat \ {0}
<1>1. q.uri \in Seq(FileNames) /\ Len(q.uri) \in Nat
  BY RequestOf
<1>2. Roots[r] \in Seq(FileNames) /\ Roots[r] # <<>>
  BY DEF FindHypothesis
<1>3. Len(Roots[r]) \in Nat \ {0}
  BY <1>2, EmptySeq
<1>4. Roots[r] \o q.uri \in Seq(FileNames) /\ Len(Roots[r] \o q.uri) = Len(Roots[r]) + Len(q.uri)
  BY <1>1, <1>2, ConcatProperties
<1>5. Len(q.uri) \in Nat
  BY <1>1
<1>6. Len(Roots[r]) + Len(q.uri) \in Nat \ {0}
  <2>1. \A a \in Nat \ {0}, b \in Nat : a + b \in Nat \ {0}
    OBVIOUS
  <2> QED BY ONLY <1>3, <1>5, <2>1, Zenon
<1>7. Len(Roots[r] \o q.uri) \in Nat \ {0}
  BY ONLY <1>4, <1>6
<1> QED BY ONLY <1>4, <1>7

LEMMA RequestIs ==
    ASSUME FindHypothesis, FindTyped
    PROVE  /\ req.uri \in Seq(FileNames) /\ Len(req.uri) \in Nat /\ req.slash \in BOOLEAN
           /\ req.auth \in {"none", "accepts", "refuses"} /\ req.mayPut \in BOOLEAN
           /\ cfg.roots \in 0 .. 2 /\ cfg.putFile \in BOOLEAN /\ cfg.room \in Nat
           /\ root \in 1 .. 2 /\ Find!Name \in Seq(FileNames) /\ Len(Find!Name) \in Nat \ {0}
<1>1. req \in FileRequests /\ cfg \in Configs /\ root \in 1 .. 2
  BY DEF FindTyped
<1> QED BY <1>1, RequestOf, NameOf DEF Find!Name, Find!Full

(* What the request names does not change while it is looked for.          *)
LEMMA SameNames ==
    ASSUME UNCHANGED <<fs, req, cfg>>
    PROVE  /\ \A r : Find!Full(r)' = Find!Full(r) /\ (Missed(r)' <=> Missed(r))
           /\ \A p, slash : Find!Stats(p, slash)' <=> Find!Stats(p, slash)
           /\ root' = root =>
                /\ Find!Name' = Find!Name
                /\ \A n : /\ Find!UpTo(n)' = Find!UpTo(n) /\ (Find!ScriptAt(n)' <=> Find!ScriptAt(n))
                          /\ Find!IndexAt(n)' = Find!IndexAt(n)
                          /\ Find!InFallback(Find!UpTo(n))' = Find!InFallback(Find!UpTo(n))
<1>1. \A r : Find!Full(r)' = Find!Full(r)
  BY DEF Find!Full
<1>2. \A p, slash : Find!Stats(p, slash)' <=> Find!Stats(p, slash)
  BY DEF Find!Stats, Find!Exists, Find!IsDir, Find!Named, Find!Last
<1>3. \A r : Missed(r)' <=> Missed(r)
  BY <1>1, <1>2 DEF Missed, Find!Stats, Find!Exists, Find!Full
<1>4. ASSUME root' = root, NEW n
      PROVE  /\ Find!Name' = Find!Name /\ Find!UpTo(n)' = Find!UpTo(n)
             /\ (Find!ScriptAt(n)' <=> Find!ScriptAt(n)) /\ Find!IndexAt(n)' = Find!IndexAt(n)
             /\ Find!InFallback(Find!UpTo(n))' = Find!InFallback(Find!UpTo(n))
  <2>1. Find!Name' = Find!Name /\ Find!UpTo(n)' = Find!UpTo(n)
    BY <1>4 DEF Find!Name, Find!Full, Find!UpTo
  <2>2. Find!ScriptAt(n)' <=> Find!ScriptAt(n)
    BY <1>4, <2>1 DEF Find!ScriptAt, Find!Exists, Find!IsScript, Find!Named
  <2>3. Find!InFallback(Find!UpTo(n))' = Find!InFallback(Find!UpTo(n))
    BY <1>4, <2>1 DEF Find!InFallback
  <2>4. Find!IndexAt(n)' = Find!IndexAt(n)
    BY <1>4, <2>1 DEF Find!IndexAt, Find!Substitute, Find!InFallback, Find!IndexesIn, Find!IndexOf, Find!Exists
  <2> QED BY <2>1, <2>2, <2>3, <2>4
<1> QED BY <1>1, <1>2, <1>3, <1>4

LEMMA PathKept ==
    ASSUME PathWhole, UNCHANGED <<fs, req, cfg, root, file, path_info, is_script>>
    PROVE  PathWhole'
BY SameNames DEF PathWhole, PathAt

LEMMA FindInit == ASSUME FindHypothesis PROVE Find!Init => FindInv
<1>a. 1 \in 1 .. 2
  OBVIOUS
<1> SUFFICES ASSUME FindHypothesis, Find!Init PROVE FindInv
  OBVIOUS
<1> USE DEF Find!Init
<1>0. req \in FileRequests /\ cfg \in Configs /\ root = 1 /\ sep = 0 /\ pc = "begin" /\ stat = "none"
  OBVIOUS
<1>1. FindTyped
  <2>1. sep \in 0 .. Len(Find!Name)
    <3>1. Len(Find!Name) \in Nat
      <4>1. Len(Roots[1] \o req.uri) \in Nat \ {0}
        BY <1>0, <1>a, NameOf, Zenon
      <4> QED BY <1>0, <4>1 DEF Find!Name, Find!Full
    <3> QED BY ONLY <1>0, <3>1
  <2>2. root \in 1 .. 2 /\ pc \in Searching \cup {"decide", "answered"}
        /\ stat \in {"none", "dir", "file"}
    BY ONLY <1>0 DEF Searching
  <2>3. answer \in Find!Answers /\ (pc # "answered" => answer = "")
    BY DEF Find!Answers
  <2>4. /\ is_gzipped \in BOOLEAN /\ is_found \in BOOLEAN /\ is_script \in BOOLEAN
        /\ is_template \in BOOLEAN /\ is_put_or_delete \in BOOLEAN /\ is_webdav \in BOOLEAN
    OBVIOUS
  <2> QED BY <1>0, <2>1, <2>2, <2>3, <2>4 DEF FindTyped
<1>2. Unfound /\ Kept /\ PathWhole /\ FitsFound /\ Decided /\ Find!FirstRootWins
  BY DEF Unfound, Kept, PathWhole, FitsFound, Decided, Searching, Find!FirstRootWins, Find!HiddenNotServed,
         Find!WriteAuthorized, Find!CutNotUsed, Find!Delivers, Find!PutOrDelete
<1> QED BY <1>1, <1>2 DEF FindInv

(* An answer changes nothing that has been found.                          *)
LEMMA AnswerKeeps ==
    ASSUME FindHypothesis, FindInv, NEW a \in Find!Answers, Find!Answer(a), pc # "answered", Decided'
    PROVE  FindInv'
<1> USE DEF FindInv, Find!Answer, Find!given, Find!outputs, Find!methods
<1>1. FindTyped'
  BY SameNames DEF FindTyped
<1>2. Unfound' /\ FitsFound' /\ Find!FirstRootWins'
  BY DEF Unfound, FitsFound, Searching, Find!FirstRootWins
<1>3. Kept'
  BY DEF Kept, Find!Exists
<1>4. PathWhole'
  BY PathKept
<1> QED BY <1>1, <1>2, <1>3, <1>4

(* What a step decides is decided for what there is.                       *)
LEMMA DecideKeeps ==
    ASSUME FindHypothesis, FindInv, Find!Next,
           Find!Before \/ Find!Preflight \/ Find!Refuse \/ Find!NoRoot \/ Find!RunScript \/ Find!Write
             \/ Find!NotFound \/ Find!RedirectDir \/ Find!OtherMethod \/ Find!Directory
             \/ Find!Template \/ Find!Static
    PROVE  FindInv'
<1> USE DEF FindInv
<1> DEFINE Says(a) == a \in Find!Answers /\ Find!Answer(a) /\ pc # "answered" /\ Decided'
<1> SUFFICES \E a : Says(a)
  BY AnswerKeeps
<1>0. /\ pc = "begin" => ~ is_found /\ ~ is_script
      /\ pc = "decide" => (is_put_or_delete => req.method \in Find!PutOrDelete)
  BY DEF Unfound, Searching
<1>c. ASSUME NEW a, Find!Answer(a), pc = "decide", cfg.roots > 0, is_found \/ is_put_or_delete
      PROVE  Find!CutNotUsed'
  <2>1. \A q \in 1 .. root : Len(Find!Full(q)) <= cfg.room
    BY <1>c DEF FitsFound
  <2>2. UNCHANGED <<fs, req, cfg, root>>
    BY <1>c DEF Find!Answer, Find!given
  <2> QED BY <2>1, <2>2, SameNames DEF Find!CutNotUsed
<1> DEFINE Plain == {"nothing", "callback", "preflight", "401", "403", "404", "405", "503", "options"}
<1>p. ASSUME NEW a \in Plain, Find!Answer(a), pc # "answered" PROVE Says(a)
  BY <1>p DEF Find!Answers, Decided, Find!HiddenNotServed, Find!WriteAuthorized, Find!Answer,
       Find!CutNotUsed, Find!Delivers, Find!PutOrDelete
<1>1. CASE Find!Before \/ Find!Preflight
  BY <1>1, <1>p DEF Find!Before, Find!Preflight, Find!Continues
<1>2. CASE Find!Refuse
  <2>1. Find!Refusal \in {"", "401", "405"}
    BY DEF Find!Refusal
  <2> QED BY <1>2, <1>p, <2>1 DEF Find!Refuse
<1>3. CASE Find!NoRoot \/ Find!NotFound
  BY <1>3, <1>p DEF Find!NoRoot, Find!NotFound, Find!ReadsFile, Find!Accepted
<1>4. CASE Find!RunScript
  <2>1. pc = "decide" /\ cfg.roots > 0 /\ is_script /\ is_found /\ Find!Answer("script")
    BY <1>4 DEF Find!RunScript, Find!Accepted, Kept
  <2>2. Find!CutNotUsed'
    BY <1>c, <2>1
  <2>3. Says("script")
    BY <2>1, <2>2 DEF Find!Answers, Decided, Find!HiddenNotServed, Find!WriteAuthorized,
         Find!Answer, Find!PutOrDelete, Find!outputs
  <2> QED BY <2>3
<1>5. CASE Find!Write
  <2>1. pc = "decide" /\ Find!Refusal = "" /\ is_put_or_delete /\ ~ is_script /\ cfg.roots > 0
    BY <1>5 DEF Find!Write, Find!Accepted, Find!WritesFile
  <2>2. req.method \in Find!PutOrDelete
    BY <1>0, <2>1
  <2>3. req.auth = "accepts" \/ (cfg.putFile /\ req.mayPut)
    BY <2>1, RequestIs DEF Find!Refusal, Find!WritesFile
  <2>4. CASE req.method = "PATCH"
    BY <1>5, <1>p, <2>1, <2>4 DEF Find!Write
  <2>5. CASE req.method # "PATCH"
    <3>1. Find!Answer(req.method) /\ req.method \in Find!PutOrDelete \ {"PATCH"}
      BY <1>5, <2>2, <2>5 DEF Find!Write
    <3>2. answer' = req.method /\ UNCHANGED <<req, cfg>>
      BY <3>1 DEF Find!Answer, Find!given
    <3>3. Find!WriteAuthorized'
      BY <2>3, <3>2 DEF Find!WriteAuthorized
    <3>4. Find!CutNotUsed'
      BY <1>c, <2>1, <3>1
    <3>5. Says(req.method)
      BY <2>1, <3>1, <3>2, <3>3, <3>4 DEF Find!Answers, Decided, Find!HiddenNotServed,
           Find!PutOrDelete
    <3> QED BY <3>5
  <2> QED BY <2>4, <2>5
<1>6. ASSUME Find!Readable
      PROVE  /\ pc = "decide" /\ ~ is_script /\ ~ is_put_or_delete /\ is_found /\ cfg.roots > 0
             /\ ~ Find!Named(file, Hidden)
  BY <1>6 DEF Find!Readable, Find!ReadsFile, Find!Accepted, Find!MustHide
<1>7. ASSUME NEW a, Find!Readable, Find!Answer(a),
             \/ a = "301" \/ a = "propfind"
             \/ a = "listing" /\ stat = "dir"
             \/ a = "template" /\ stat # "dir" /\ is_template
             \/ a \in {"static", "304"} /\ stat # "dir" /\ ~ is_template
      PROVE  Says(a)
  <2>1. /\ answer' = a /\ file' = file /\ is_found' = is_found /\ stat' = stat
        /\ is_template' = is_template /\ is_script' = is_script /\ is_put_or_delete' = is_put_or_delete
    BY <1>7 DEF Find!Answer, Find!outputs, Find!methods
  <2>2. Find!HiddenNotServed'
    BY <1>6, <1>7, <2>1 DEF Find!HiddenNotServed, Find!Named, Find!Last
  <2>3. Find!WriteAuthorized' /\ a \in Find!Answers
    BY <1>7, <2>1 DEF Find!WriteAuthorized, Find!PutOrDelete, Find!Answers
  <2>4. Find!CutNotUsed'
    BY <1>c, <1>6, <1>7
  <2>5. Decided'
    BY <1>6, <1>7, <2>1, <2>2, <2>3, <2>4 DEF Decided
  <2> QED BY <1>6, <1>7, <2>3, <2>5
<1>8. CASE Find!RedirectDir
  BY <1>7, <1>8 DEF Find!RedirectDir
<1>9. CASE Find!OtherMethod
  <2>1. Find!Readable /\ pc # "answered"
    BY <1>6, <1>9 DEF Find!OtherMethod, Find!Reads
  <2>2. \/ Find!Answer("propfind") \/ Find!Answer("options") \/ Find!Answer("405")
    BY <1>9 DEF Find!OtherMethod
  <2> QED BY <1>7, <1>p, <2>1, <2>2
<1>10. CASE Find!Directory
  <2>1. Find!Readable /\ pc # "answered" /\ stat = "dir"
    BY <1>6, <1>10 DEF Find!Directory, Find!Gets, Find!Reads
  <2>2. Find!Answer("listing") \/ Find!Answer("403")
    BY <1>10 DEF Find!Directory
  <2> QED BY <1>7, <1>p, <2>1, <2>2
<1>11. CASE Find!Template
  BY <1>7, <1>11 DEF Find!Template, Find!Gets, Find!Reads
<1>12. CASE Find!Static
  <2>1. Find!Readable /\ stat # "dir" /\ ~ is_template
    BY <1>12 DEF Find!Static, Find!Gets, Find!Reads
  <2>2. Find!Answer("304") \/ Find!Answer("static")
    BY <1>12 DEF Find!Static
  <2> QED BY <1>7, <2>1, <2>2
<1> QED BY <1>1, <1>2, <1>3, <1>4, <1>5, <1>8, <1>9, <1>10, <1>11, <1>12

LEMMA InBoolean == ASSUME NEW a, NEW S PROVE (a \in S) \in BOOLEAN
OBVIOUS

LEMMA AndBoolean == ASSUME NEW a, NEW b PROVE (a /\ b) \in BOOLEAN
OBVIOUS

LEMMA InterpretKeeps ==
    ASSUME FindHypothesis, FindInv, Find!Interpret
    PROVE  FindInv'
<1> USE DEF FindInv, Find!Interpret, Find!given, Find!outputs, Find!Continues
<1>0. is_put_or_delete' \in BOOLEAN /\ is_webdav' \in BOOLEAN
  <2>1. /\ is_put_or_delete' = (req.method \in Find!PutOrDelete)
        /\ is_webdav' = (req.method \in Find!WebDav)
    OBVIOUS
  <2> QED BY ONLY <2>1, InBoolean
<1>1. FindTyped'
  <2>1. pc' \in {"decide", "root"} /\ pc = "begin" /\ UNCHANGED <<fs, req, cfg, root>>
    OBVIOUS
  <2> QED BY <1>0, <2>1, SameNames DEF FindTyped, Searching
<1>2. Kept' /\ PathWhole' /\ Decided'
  BY DEF Unfound, Kept, PathWhole, Decided, Searching, FindTyped, Find!HiddenNotServed,
       Find!WriteAuthorized, Find!CutNotUsed, Find!Delivers, Find!PutOrDelete
<1>3. cfg.roots \in 0 .. 2 /\ cfg' = cfg /\ req' = req /\ root' = root /\ sep' = sep
  BY RequestIs
<1>4. pc' = IF cfg.roots = 0 THEN "decide" ELSE "root"
  OBVIOUS
<1>5. is_put_or_delete' <=> req.method \in Find!PutOrDelete
  BY Zenon
<1>6. root = 1 /\ sep = 0
  BY DEF Unfound
<1>7. Unfound'
  BY <1>3, <1>4, <1>5, <1>6 DEF Unfound, Searching
<1>8. Find!FirstRootWins' /\ FitsFound'
  BY <1>3, <1>4 DEF Find!FirstRootWins, FitsFound
<1> QED BY <1>1, <1>2, <1>7, <1>8

LEMMA NextRootKeeps ==
    ASSUME FindHypothesis, FindInv, Find!NextRoot
    PROVE  FindInv'
<1> USE DEF FindInv, Find!NextRoot, Find!given, Find!methods
<1>0. /\ root \in 1 .. 2 /\ cfg.roots \in 0 .. 2 /\ root <= cfg.roots /\ sep = 0
      /\ req \in FileRequests /\ cfg \in Configs /\ pc = "root"
      /\ UNCHANGED <<fs, zipped, req, cfg, sep>>
  BY RequestIs DEF FindTyped, Unfound
<1>1. FindTyped'
  <2>1. root' \in 1 .. 2 /\ pc' \in Searching
    BY <1>0 DEF Searching
  <2>2. Len(Find!Name') \in Nat
    BY <1>0, <2>1, NameOf DEF Find!Name, Find!Full
  <2>3. sep' \in 0 .. Len(Find!Name')
    BY ONLY <1>0, <2>2
  <2> QED BY <2>1, <2>3 DEF FindTyped, Searching
<1>2. Kept' /\ PathWhole' /\ Decided'
  BY DEF Unfound, Kept, PathWhole, Decided, Searching, FindTyped, Find!HiddenNotServed,
       Find!WriteAuthorized, Find!CutNotUsed, Find!Delivers, Find!PutOrDelete
<1>3. \A q \in 1 .. root : Missed(q)
  <2> SUFFICES ASSUME NEW q \in 1 .. root PROVE Missed(q)
    OBVIOUS
  <2>1. q = root \/ q \in 1 .. root - 1
    BY <1>0
  <2>2. Missed(root)
    BY DEF Missed, Find!Fits, Find!Name
  <2> QED BY <2>1, <2>2 DEF Unfound
<1>4. \A q : Missed(q)' <=> Missed(q)
  BY <1>0, SameNames
<1>5. Unfound'
  <2>1. CASE root < cfg.roots
    <3>1. root' = root + 1 /\ pc' = "root" /\ root' - 1 = root /\ root' <= cfg.roots
      BY <1>0, <2>1
    <3>2. \A q \in 1 .. root' - 1 : Missed(q)'
      BY <1>3, <1>4, <3>1
    <3> QED BY <1>0, <3>1, <3>2 DEF Unfound, Searching
  <2>2. CASE ~ (root < cfg.roots)
    <3>1. root' = root /\ pc' = "zipped" /\ root = cfg.roots /\ Find!Name' = Find!Name
      BY <1>0, <2>2, SameNames
    <3>2. \A q \in 1 .. cfg'.roots : Missed(q)'
      BY <1>0, <1>3, <1>4, <3>1
    <3> QED BY <1>0, <3>1, <3>2 DEF Unfound, Searching
  <2> QED BY <2>1, <2>2
<1>6. Find!FirstRootWins' /\ FitsFound'
  BY <1>0 DEF Find!FirstRootWins, FitsFound
<1> QED BY <1>1, <1>2, <1>5, <1>6

(* The search ends, with what has been found.                              *)
LEMMA FoundKeeps ==
    ASSUME FindHypothesis, FindInv, pc \in {"root", "zipped", "scan"}, pc' = "decide",
           UNCHANGED <<fs, zipped, req, cfg, root, is_webdav, answer>>,
           is_put_or_delete' \in {is_put_or_delete, FALSE},
           sep' \in 0 .. Len(Find!Name), stat' \in {"none", "dir", "file"},
           is_gzipped' \in BOOLEAN, is_found' \in BOOLEAN, is_script' \in BOOLEAN, is_template' \in BOOLEAN,
           Kept', PathWhole', FitsFound', Find!FirstRootWins'
    PROVE  FindInv'
<1> USE DEF FindInv
<1>1. FindTyped'
  <2>1. is_put_or_delete' \in BOOLEAN
    BY DEF FindTyped
  <2> QED BY <2>1, SameNames DEF FindTyped, Searching
<1>2. Unfound'
  <2>1. is_put_or_delete' => is_put_or_delete
    OBVIOUS
  <2>2. is_put_or_delete => req.method \in Find!PutOrDelete
    BY DEF Unfound
  <2>3. pc' \notin {"begin", "root", "zipped", "scan"} /\ pc' \notin Searching
    BY DEF Searching
  <2> QED BY <2>1, <2>2, <2>3 DEF Unfound
<1>3. Decided'
  BY DEF Decided, FindTyped, Searching, Find!HiddenNotServed, Find!WriteAuthorized,
       Find!CutNotUsed, Find!Delivers, Find!PutOrDelete
<1> QED BY <1>1, <1>2, <1>3

(* No root has what the URI names.                                         *)
LEMMA NowhereWins ==
    ASSUME FindInv, pc \in {"zipped", "scan"}, UNCHANGED <<fs, req, cfg>>
    PROVE  Find!FirstRootWins'
<1>1. \A q \in 1 .. cfg.roots : ~ Find!Stats(Find!Full(q), req.slash)
  BY DEF FindInv, Unfound, Missed
<1>2. \A q : Find!Stats(Find!Full(q), req.slash)' <=> Find!Stats(Find!Full(q), req.slash)
  BY SameNames
<1> QED BY <1>1, <1>2 DEF Find!FirstRootWins

(* All names that were tried fit.                                          *)
LEMMA NowhereCut ==
    ASSUME FindInv, pc \in {"zipped", "scan"}, UNCHANGED <<fs, req, cfg, root>>
    PROVE  FitsFound'
BY SameNames DEF FindInv, Unfound, Missed, FitsFound

LEMMA CleanupSteps ==
    ASSUME FindHypothesis, FindInv,
           Find!Truncated \/ Find!ZippedTruncated \/ Find!NoMemory \/ Find!IndexTruncated
    PROVE  FindInv'
<1> USE DEF FindInv
<1>1. pc \in {"root", "zipped", "scan"} /\ Find!Cleanup
  BY DEF Find!Truncated, Find!ZippedTruncated, Find!NoMemory, Find!IndexTruncated
<1>2. /\ pc' = "decide" /\ UNCHANGED <<fs, zipped, req, cfg, root, sep, is_template, is_webdav, answer>>
      /\ stat' = "none" /\ is_gzipped' = FALSE /\ is_found' = FALSE /\ is_script' = FALSE
      /\ is_put_or_delete' = FALSE
  BY <1>1 DEF Find!Cleanup, Find!given
<1>3. Kept' /\ PathWhole' /\ FitsFound'
  BY <1>2 DEF Kept, PathWhole, FitsFound
<1>4. Find!FirstRootWins'
  <2>1. CASE pc = "root"
    <3>1. Len(Find!Full(root)) \in Nat /\ ~ (Len(Find!Full(root)) <= cfg.room)
      BY <2>1, RequestIs DEF Find!Truncated, Find!ZippedTruncated, Find!NoMemory, Find!IndexTruncated,
           Find!Fits, Find!Name
    <3>2. \A q \in 1 .. root - 1 : ~ Find!Stats(Find!Full(q), req.slash)
      BY <2>1 DEF Unfound, Missed
    <3> SUFFICES ASSUME NEW r \in 1 .. cfg.roots, Find!Stats(Find!Full(r), req.slash),
                        \A q \in 1 .. r : Len(Find!Full(q)) <= cfg.room
                 PROVE  FALSE
      <4>1. \A q : /\ Find!Full(q)' = Find!Full(q)
                   /\ Find!Stats(Find!Full(q), req.slash)' <=> Find!Stats(Find!Full(q), req.slash)
        BY <1>2, SameNames
      <4> QED BY <1>2, <4>1 DEF Find!FirstRootWins
    <3>3. root \in 1 .. 2 /\ cfg.roots \in 0 .. 2
      BY RequestIs
    <3>4. root \in 1 .. r \/ r \in 1 .. root - 1
      BY <3>3
    <3> QED BY <3>1, <3>2, <3>4
  <2>2. CASE pc \in {"zipped", "scan"}
    BY <1>2, <2>2, NowhereWins
  <2> QED BY <1>1, <2>1, <2>2
<1>5. sep \in 0 .. Len(Find!Name) /\ is_template \in BOOLEAN
  BY DEF FindTyped
<1> QED BY <1>1, <1>2, <1>3, <1>4, <1>5, FoundKeeps

(* The whole name is all of its names.                                     *)
LEMMA NameWhole ==
    ASSUME FindHypothesis, FindTyped
    PROVE  /\ Find!UpTo(Len(Find!Name)) = Find!Name
           /\ SubSeq(Find!Name, Len(Find!Name) + 1, Len(Find!Name)) = <<>>
           /\ Len(Find!Name) \in 0 .. Len(Find!Name)
<1>1. Find!Name \in Seq(FileNames) /\ Len(Find!Name) \in Nat
  BY RequestIs
<1> QED BY <1>1, SubSeqFull, SubSeqEmpty DEF Find!UpTo

LEMMA FoundStep ==
    ASSUME FindHypothesis, FindInv, Find!Found
    PROVE  FindInv'
<1> USE DEF FindInv, Find!Found, Find!given, Find!methods
<1>0. /\ root \in 1 .. 2 /\ cfg.roots \in 0 .. 2 /\ root <= cfg.roots /\ pc \in {"root", "zipped", "scan"}
      /\ ~ is_gzipped /\ path_info = <<>>
      /\ is_put_or_delete \in BOOLEAN /\ is_gzipped \in BOOLEAN /\ sep \in 0 .. Len(Find!Name)
      /\ UNCHANGED <<fs, zipped, req, cfg, root, sep, is_gzipped, path_info, is_put_or_delete, is_webdav, answer>>
      /\ is_found' = TRUE /\ pc' = "decide"
  BY RequestIs DEF FindTyped, Unfound, Searching
<1>1. Find!FirstRootWins'
  <2> SUFFICES ASSUME NEW r \in 1 .. cfg.roots, Find!Stats(Find!Full(r), req.slash),
                      \A q \in 1 .. r - 1 : ~ Find!Stats(Find!Full(q), req.slash)
               PROVE  ~ Find!IsDir(Find!Full(r)) => file' = Find!Full(r)
    <3>1. \A q : /\ Find!Full(q)' = Find!Full(q)
                 /\ Find!Stats(Find!Full(q), req.slash)' <=> Find!Stats(Find!Full(q), req.slash)
      BY <1>0, SameNames
    <3>2. \A q : Find!IsDir(Find!Full(q))' <=> Find!IsDir(Find!Full(q))
      BY <1>0, <3>1 DEF Find!IsDir, Find!Named, Find!Last
    <3> QED BY <1>0, <3>1, <3>2 DEF Find!FirstRootWins
  <2>1. ~ (r < root)
    <3>1. r < root => r \in 1 .. root - 1
      BY <1>0
    <3> QED BY <3>1 DEF Unfound, Missed
  <2>2. ~ (root < r)
    <3>1. root < r => root \in 1 .. r - 1
      BY <1>0
    <3> QED BY <3>1 DEF Find!Name
  <2>3. r = root
    BY <1>0, <2>1, <2>2
  <2>4. ~ Find!IsDir(Find!Name) => Find!Substituted = {}
    BY DEF Find!Substituted
  <2> QED BY <2>3, <2>4 DEF Find!Name
<1>2. FitsFound'
  <2>1. \A q \in 1 .. root : Len(Find!Full(q)) <= cfg.room
    <3> SUFFICES ASSUME NEW q \in 1 .. root PROVE Len(Find!Full(q)) <= cfg.room
      OBVIOUS
    <3>1. q = root \/ q \in 1 .. root - 1
      BY <1>0
    <3> QED BY <3>1 DEF Unfound, Missed, Find!Fits, Find!Name
  <2> QED BY <1>0, <2>1, SameNames DEF FitsFound
<1>3. \A n : /\ Find!Name' = Find!Name /\ Find!UpTo(n)' = Find!UpTo(n)
             /\ Find!InFallback(Find!UpTo(n))' = Find!InFallback(Find!UpTo(n))
             /\ (Find!ScriptAt(n)' <=> Find!ScriptAt(n)) /\ Find!IndexAt(n)' = Find!IndexAt(n)
  BY <1>0, SameNames
<1>4. ASSUME \/ file' = Find!Name
             \/ \E d \in {Find!Name} \cup Find!InFallback(Find!Name), i \in DOMAIN Indexes :
                   file' = Append(d, Indexes[i])
      PROVE  PathWhole'
  <2>1. Len(Find!Name) \in Nat
    BY RequestIs
  <2> PICK n \in Nat : n = Len(Find!Name)
    BY <2>1
  <2>2. path_info' = SubSeq(Find!Name', n + 1, Len(Find!Name'))
    BY <1>0, <1>3, NameWhole
  <2>3. \/ file' = Find!UpTo(n)'
        \/ \E d \in {Find!UpTo(n)'} \cup Find!InFallback(Find!UpTo(n))', i \in DOMAIN Indexes :
              file' = Append(d, Indexes[i])
    BY <1>3, <1>4, NameWhole
  <2>4. n + 1 .. Len(Find!Name') - 1 = {} /\ n \in 0 .. Len(Find!Name')
    BY <1>3, <2>1
  <2>5. PathAt(n)'
    BY <2>2, <2>3, <2>4 DEF PathAt
  <2> QED BY <2>4, <2>5 DEF PathWhole
<1>5. CASE Find!Substituted = {}
  <2>1. /\ file' = Find!Name /\ stat' = Find!KindOf(Find!Name)
        /\ is_script' = (Find!IsScript(Find!Name) /\ ~ is_put_or_delete)
        /\ is_template' = (Find!IsTemplate(Find!Name) /\ ~ is_put_or_delete)
    BY <1>5
  <2>2. Find!Exists(Find!Name)
    BY DEF Find!Stats
  <2>3. /\ is_script' <=> Find!IsScript(Find!Name) /\ ~ is_put_or_delete
        /\ is_template' <=> Find!IsTemplate(Find!Name) /\ ~ is_put_or_delete
        /\ is_script' \in BOOLEAN /\ is_template' \in BOOLEAN
    BY ONLY <2>1, <1>0, AndBoolean
  <2>4. /\ Find!Exists(file)' /\ stat' = Find!KindOf(file)'
        /\ Find!IsScript(file)' <=> Find!IsScript(Find!Name)
        /\ Find!IsTemplate(file)' <=> Find!IsTemplate(Find!Name)
    BY <1>0, <2>1, <2>2 DEF Find!Exists, Find!KindOf, Find!IsDir, Find!IsScript, Find!IsTemplate, Find!Named,
         Find!Last
  <2>5. Kept'
    BY <1>0, <2>3, <2>4 DEF Kept
  <2>6. PathWhole' /\ stat' \in {"none", "dir", "file"}
    BY <1>4, <2>1 DEF Find!KindOf
  <2> QED BY <1>0, <1>1, <1>2, <2>3, <2>5, <2>6, FoundKeeps
<1>6. CASE Find!Substituted # {}
  <2>1. PICK f \in Find!Substituted :
              /\ file' = f /\ stat' = Find!KindOf(f) /\ is_script' = Find!IsScript(f)
              /\ is_template' = (Find!IsTemplate(f) /\ ~ Find!IsScript(f))
    BY <1>6
  <2>2. /\ Find!Exists(f)
        /\ \E d \in {Find!Name} \cup Find!InFallback(Find!Name), i \in DOMAIN Indexes : f = Append(d, Indexes[i])
    BY SubstituteIs DEF Find!Substituted
  <2>3. /\ Find!Exists(file)' /\ stat' = Find!KindOf(file)'
        /\ Find!IsScript(file)' <=> Find!IsScript(f)
        /\ Find!IsTemplate(file)' <=> Find!IsTemplate(f)
    BY <1>0, <2>1, <2>2 DEF Find!Exists, Find!KindOf, Find!IsDir, Find!IsScript, Find!IsTemplate, Find!Named,
         Find!Last
  <2>4. /\ is_script' <=> Find!IsScript(f)
        /\ is_template' <=> Find!IsTemplate(f) /\ ~ Find!IsScript(f)
        /\ is_script' \in BOOLEAN /\ is_template' \in BOOLEAN
    BY ONLY <2>1, AndBoolean DEF Find!IsScript, Find!Named
  <2>5. Kept'
    BY <1>0, <2>3, <2>4 DEF Kept
  <2>6. PathWhole' /\ stat' \in {"none", "dir", "file"}
    BY <1>4, <2>1, <2>2 DEF Find!KindOf
  <2> QED BY <1>0, <1>1, <1>2, <2>4, <2>5, <2>6, FoundKeeps
<1> QED BY <1>5, <1>6

LEMMA TryZippedStep ==
    ASSUME FindHypothesis, FindInv, Find!TryZipped
    PROVE  FindInv'
<1> USE DEF FindInv, Find!TryZipped, Find!given, Find!methods
<1>0. /\ file = Find!Name /\ ~ is_script /\ ~ is_template /\ ~ is_gzipped /\ ~ is_found /\ pc = "zipped"
      /\ UNCHANGED <<fs, zipped, req, cfg, root, file, is_script, is_template, path_info, is_put_or_delete,
                     is_webdav, answer>>
  BY DEF Unfound, Searching
<1>1. CASE Find!HasZipped
  <2>1. is_gzipped' = TRUE /\ is_found' = TRUE /\ stat' = "file" /\ pc' = "decide" /\ sep' = sep
    BY <1>1
  <2>2. Kept' /\ PathWhole'
    BY <1>0, <1>1, <2>1 DEF Kept, PathWhole, Find!HasZipped
  <2>3. Find!FirstRootWins' /\ FitsFound'
    BY <1>0, NowhereWins, NowhereCut
  <2>4. sep \in 0 .. Len(Find!Name) /\ is_script \in BOOLEAN /\ is_template \in BOOLEAN
    BY DEF FindTyped
  <2> QED BY <1>0, <2>1, <2>2, <2>3, <2>4, FoundKeeps
<1>2. CASE ~ Find!HasZipped
  <2>1. UNCHANGED <<is_gzipped, is_found, stat>> /\ pc' = "scan"
        /\ sep' = IF req.slash THEN Len(Find!Name) ELSE Len(Find!Name) - 1
    BY <1>2
  <2>2. sep' \in 0 .. Len(Find!Name) /\ sep' + 1 .. Len(Find!Name) - 1 = {}
    BY <2>1, RequestIs
  <2>3. FindTyped'
    BY <1>0, <2>1, <2>2, SameNames DEF FindTyped, Searching
  <2>4. Unfound'
    <3>1. Find!Name' = Find!Name /\ \A q : Missed(q)' <=> Missed(q)
      BY <1>0, SameNames
    <3> QED BY <1>0, <2>1, <2>2, <3>1 DEF Unfound, Searching
  <2>5. Kept' /\ PathWhole'
    BY <1>0, <2>1 DEF Kept, PathWhole
  <2>6. Decided'
    BY <1>0, <2>1 DEF Decided, FindTyped, Searching, Find!HiddenNotServed,
         Find!WriteAuthorized, Find!CutNotUsed, Find!Delivers, Find!PutOrDelete
  <2>7. Find!FirstRootWins' /\ FitsFound'
    BY <2>1 DEF Find!FirstRootWins, FitsFound
  <2> QED BY <2>3, <2>4, <2>5, <2>6, <2>7
<1> QED BY <1>1, <1>2

(* What the scan leaves as it is.                                          *)
LEMMA ScanIs ==
    ASSUME FindHypothesis, FindInv, pc = "scan"
    PROVE  /\ ~ is_script /\ ~ is_template /\ ~ is_gzipped /\ ~ is_found /\ path_info = <<>>
           /\ sep \in 0 .. Len(Find!Name) /\ Len(Find!Name) \in Nat
           /\ is_gzipped \in BOOLEAN /\ is_template \in BOOLEAN /\ is_script \in BOOLEAN
           /\ is_found \in BOOLEAN /\ stat \in {"none", "dir", "file"}
           /\ \A m \in sep + 1 .. Len(Find!Name) - 1 : ~ Find!ScriptAt(m) /\ Find!IndexAt(m) = {}
BY RequestIs DEF FindInv, FindTyped, Unfound, Searching

(* A script that is found by the scan gets the rest of the name.           *)
LEMMA ScanEnds ==
    ASSUME FindHypothesis, FindInv, pc = "scan", pc' = "decide",
           UNCHANGED <<fs, zipped, req, cfg, root, sep, is_gzipped, is_template, is_put_or_delete, is_webdav, answer>>,
           is_script' = TRUE, is_found' = TRUE, path_info' = Find!Rest,
           NEW f, file' = f, stat' = Find!KindOf(f), Find!Exists(f), Find!IsScript(f),
           \/ f = Find!Above
           \/ \E d \in {Find!Above} \cup Find!InFallback(Find!Above), i \in DOMAIN Indexes : f = Append(d, Indexes[i])
    PROVE  FindInv'
<1>1. \A n : /\ Find!Name' = Find!Name /\ Find!UpTo(n)' = Find!UpTo(n)
             /\ Find!InFallback(Find!UpTo(n))' = Find!InFallback(Find!UpTo(n))
             /\ (Find!ScriptAt(n)' <=> Find!ScriptAt(n)) /\ Find!IndexAt(n)' = Find!IndexAt(n)
  BY SameNames
<1>2. /\ Find!Exists(file)' /\ stat' = Find!KindOf(file)' /\ Find!IsScript(file)'
  BY DEF Find!Exists, Find!KindOf, Find!IsDir, Find!IsScript, Find!Named, Find!Last
<1>3. Kept'
  BY <1>2, ScanIs DEF Kept
<1>4. PathWhole'
  <2> PICK n \in 0 .. Len(Find!Name) : n = sep
    BY ScanIs
  <2>1. n \in 0 .. Len(Find!Name')
    BY <1>1, ScanIs
  <2>2. path_info' = SubSeq(Find!Name', n + 1, Len(Find!Name'))
    BY <1>1 DEF Find!Rest
  <2>3. \/ file' = Find!UpTo(n)'
        \/ \E d \in {Find!UpTo(n)'} \cup Find!InFallback(Find!UpTo(n))', i \in DOMAIN Indexes :
              file' = Append(d, Indexes[i])
    BY <1>1 DEF Find!Above
  <2>4. \A m \in n + 1 .. Len(Find!Name') - 1 : ~ Find!ScriptAt(m)' /\ Find!IndexAt(m)' = {}
    BY <1>1, ScanIs
  <2>5. PathAt(n)'
    BY <2>2, <2>3, <2>4 DEF PathAt
  <2> QED BY <2>1, <2>5 DEF PathWhole
<1>5. Find!FirstRootWins' /\ FitsFound'
  BY NowhereWins, NowhereCut
<1>6. sep' \in 0 .. Len(Find!Name) /\ is_gzipped' \in BOOLEAN /\ is_template' \in BOOLEAN
      /\ stat' \in {"none", "dir", "file"}
  BY ScanIs DEF Find!KindOf
<1> QED BY <1>3, <1>4, <1>5, <1>6, FoundKeeps

LEMMA ScriptAboveStep ==
    ASSUME FindHypothesis, FindInv, Find!ScriptAbove
    PROVE  FindInv'
<1>1. Find!Exists(Find!Above) /\ Find!IsScript(Find!Above)
  BY DEF Find!ScriptAbove, Find!ScriptAt, Find!Above
<1> QED BY <1>1, ScanEnds DEF Find!ScriptAbove, Find!given, Find!methods

LEMMA IndexAboveStep ==
    ASSUME FindHypothesis, FindInv, Find!IndexAbove
    PROVE  FindInv'
<1>1. PICK f \in Find!IndexAt(sep) : Find!IsScript(f) /\ file' = f /\ stat' = Find!KindOf(f)
  BY DEF Find!IndexAbove
<1>2. /\ Find!Exists(f)
      /\ \E d \in {Find!Above} \cup Find!InFallback(Find!Above), i \in DOMAIN Indexes : f = Append(d, Indexes[i])
  BY SubstituteIs DEF Find!IndexAt, Find!Above
<1> QED BY <1>1, <1>2, ScanEnds DEF Find!IndexAbove, Find!given, Find!methods

LEMMA PlainIndexAboveStep ==
    ASSUME FindHypothesis, FindInv, Find!PlainIndexAbove
    PROVE  FindInv'
<1>1. /\ pc = "scan" /\ pc' = "decide" /\ stat' \in {"none", "dir", "file"}
      /\ UNCHANGED <<fs, zipped, req, cfg, root, sep, is_gzipped, is_found, is_script, is_template, path_info,
                     is_put_or_delete, is_webdav, answer>>
  BY DEF Find!PlainIndexAbove, Find!given, Find!methods, Find!KindOf
<1>2. Kept' /\ PathWhole'
  BY <1>1, ScanIs DEF Kept, PathWhole
<1>3. Find!FirstRootWins' /\ FitsFound'
  BY <1>1, NowhereWins, NowhereCut
<1> QED BY <1>1, <1>2, <1>3, ScanIs, FoundKeeps

LEMMA NothingAboveStep ==
    ASSUME FindHypothesis, FindInv, Find!NothingAbove
    PROVE  FindInv'
<1> USE DEF FindInv
<1>0. /\ pc = "scan" /\ pc' \in {"scan", "decide"} /\ stat' \in {"none", "dir", "file"}
      /\ UNCHANGED <<fs, zipped, req, cfg, root, file, is_gzipped, is_found, is_script, is_template, path_info,
                     is_put_or_delete, is_webdav, answer>>
  BY ScanIs DEF Find!NothingAbove, Find!given, Find!methods, Find!KindOf
<1>1. \/ pc' = "decide" /\ sep' = sep
      \/ pc' = "scan" /\ sep # 0 /\ sep' = sep - 1 /\ ~ Find!ScriptAt(sep) /\ Find!IndexAt(sep) = {}
  BY <1>0 DEF Find!NothingAbove
<1>2. CASE pc' = "decide" /\ sep' = sep
  <2>1. Kept' /\ PathWhole'
    BY <1>0, ScanIs DEF Kept, PathWhole
  <2>2. Find!FirstRootWins' /\ FitsFound'
    BY <1>0, NowhereWins, NowhereCut
  <2> QED BY <1>0, <1>2, <2>1, <2>2, ScanIs, FoundKeeps
<1>3. CASE pc' = "scan" /\ sep # 0 /\ sep' = sep - 1 /\ ~ Find!ScriptAt(sep) /\ Find!IndexAt(sep) = {}
  <2>1. sep' \in 0 .. Len(Find!Name)
    BY <1>0, <1>3, ScanIs
  <2>2. FindTyped'
    BY <1>0, <1>3, <2>1, SameNames DEF FindTyped, Searching
  <2>3. \A m \in sep' + 1 .. Len(Find!Name) - 1 : ~ Find!ScriptAt(m) /\ Find!IndexAt(m) = {}
    <3> SUFFICES ASSUME NEW m \in sep' + 1 .. Len(Find!Name) - 1
                 PROVE  ~ Find!ScriptAt(m) /\ Find!IndexAt(m) = {}
      OBVIOUS
    <3>1. m = sep \/ m \in sep + 1 .. Len(Find!Name) - 1
      BY <1>0, <1>3, ScanIs
    <3> QED BY <1>0, <1>3, <3>1, ScanIs
  <2>4. /\ Find!Name' = Find!Name /\ \A q : Missed(q)' <=> Missed(q)
        /\ \A m : (Find!ScriptAt(m)' <=> Find!ScriptAt(m)) /\ Find!IndexAt(m)' = Find!IndexAt(m)
    BY <1>0, SameNames
  <2>5. Unfound'
    BY <1>0, <1>3, <2>3, <2>4 DEF Unfound, Searching
  <2>6. Kept' /\ PathWhole'
    BY <1>0, ScanIs DEF Kept, PathWhole
  <2>7. Decided'
    BY <1>0, ScanIs DEF Decided, FindTyped, Find!HiddenNotServed, Find!WriteAuthorized,
         Find!CutNotUsed, Find!Delivers, Find!PutOrDelete
  <2>8. Find!FirstRootWins' /\ FitsFound'
    BY <1>3 DEF Find!FirstRootWins, FitsFound
  <2> QED BY <2>2, <2>5, <2>6, <2>7, <2>8
<1> QED BY <1>1, <1>2, <1>3

LEMMA FindStep == ASSUME FindHypothesis PROVE FindInv /\ [Find!Next]_(Find!vars) => FindInv'
<1> SUFFICES ASSUME FindHypothesis, FindInv, [Find!Next]_(Find!vars) PROVE FindInv'
  OBVIOUS
<1>1. CASE UNCHANGED Find!vars
  <2> USE <1>1 DEF Find!vars, Find!given, Find!outputs, Find!methods, FindInv
  <2>0. UNCHANGED <<fs, req, cfg, root>>
    OBVIOUS
  <2>1. FindTyped'
    BY <2>0, SameNames DEF FindTyped
  <2>2. /\ Find!Name' = Find!Name
        /\ \A q : Find!Full(q)' = Find!Full(q) /\ (Missed(q)' <=> Missed(q))
        /\ \A m : (Find!ScriptAt(m)' <=> Find!ScriptAt(m)) /\ Find!IndexAt(m)' = Find!IndexAt(m)
        /\ \A q : Find!Stats(Find!Full(q), req.slash)' <=> Find!Stats(Find!Full(q), req.slash)
    BY <2>0, SameNames
  <2>3. Unfound' /\ FitsFound'
    BY <2>2 DEF Unfound, FitsFound
  <2>4. Find!FirstRootWins'
    <3>1. \A q : Find!IsDir(Find!Full(q))' <=> Find!IsDir(Find!Full(q))
      BY <2>2 DEF Find!IsDir, Find!Named, Find!Last
    <3> QED BY <2>2, <3>1 DEF Find!FirstRootWins
  <2>5. Kept'
    BY DEF Kept, Find!Exists
  <2>6. PathWhole'
    BY PathKept
  <2>7. Decided'
    BY <2>2 DEF Decided, Find!HiddenNotServed, Find!WriteAuthorized, Find!CutNotUsed
  <2> QED BY <2>1, <2>3, <2>4, <2>5, <2>6, <2>7
<1>2. CASE Find!Next
  BY <1>2, DecideKeeps, InterpretKeeps, NextRootKeeps, FoundStep, TryZippedStep, CleanupSteps,
     ScriptAboveStep, IndexAboveStep, PlainIndexAboveStep, NothingAboveStep DEF Find!Next
<1> QED BY <1>1, <1>2

(* The types of the search for a file (TypesOK, parts "files" and          *)
(* "rights").                                                              *)
THEOREM FindTypes == ASSUME FindHypothesis PROVE Find!Spec => []Find!TypeOK
<1>1. FindInv => Find!TypeOK
  <2> SUFFICES ASSUME FindInv PROVE Find!TypeOK
    OBVIOUS
  <2> USE DEF FindInv, FindTyped
  <2>1. pc \in {"begin", "interpret", "root", "zipped", "scan", "decide", "answered"} /\ root \in 1 .. 2
    <3>1. pc \in Searching \cup {"decide", "answered"} /\ root \in 1 .. 2
      OBVIOUS
    <3> QED BY ONLY <3>1 DEF Searching
  <2>2. {is_gzipped, is_found, is_script, is_template, is_put_or_delete, is_webdav} \subseteq BOOLEAN
    OBVIOUS
  <2>3. sep \in 0 .. Len(Roots[root] \o req.uri)
    BY DEF Find!Name, Find!Full
  <2> QED BY <2>1, <2>2, <2>3 DEF Find!TypeOK
<1> QED BY <1>1, FindInit, FindStep, PTL DEF Find!Spec

(* interpret_uri, handle_request: no way through roots, index files,       *)
(* zipped variants and sub-resources delivers the source of a script or a  *)
(* template (SourceNotSent, within FilesServed).                           *)
THEOREM FindSource == ASSUME FindHypothesis PROVE Find!Spec => []Find!SourceNotSent
<1>1. FindInv => Find!SourceNotSent
  BY DEF FindInv, FindTyped, Kept, Decided, Find!SourceNotSent
<1> QED BY <1>1, FindInit, FindStep, PTL DEF Find!Spec

(* must_hide_file is asked of the file that was found, whichever way       *)
(* (HiddenNotServed, within FilesServed).                                  *)
THEOREM FindHidden == ASSUME FindHypothesis PROVE Find!Spec => []Find!HiddenNotServed
<1>1. FindInv => Find!HiddenNotServed
  BY DEF FindInv, Decided
<1> QED BY <1>1, FindInit, FindStep, PTL DEF Find!Spec

(* handle_request: no method that changes the file system goes on without  *)
(* the right to it (WriteAuthorized, within FilesServed).                  *)
THEOREM FindRights == ASSUME FindHypothesis PROVE Find!Spec => []Find!WriteAuthorized
<1>1. FindInv => Find!WriteAuthorized
  BY DEF FindInv, Decided
<1> QED BY <1>1, FindInit, FindStep, PTL DEF Find!Spec

(* interpret_uri: a script gets as its path all names after its own, or    *)
(* after the directory whose index it is, and none that is nearer is       *)
(* passed over (PathInfoComplete, within FilesServed).                     *)
THEOREM FindPathInfo == ASSUME FindHypothesis PROVE Find!Spec => []Find!PathInfoComplete
<1>1. FindInv => Find!PathInfoComplete
  BY DEF FindInv, PathWhole, PathAt, Find!PathInfoComplete
<1> QED BY <1>1, FindInit, FindStep, PTL DEF Find!Spec

(* interpret_cleanup: nothing is read, run, written or deleted under a     *)
(* name that was cut (CutNotUsed, within FilesServed).                     *)
THEOREM FindCut == ASSUME FindHypothesis PROVE Find!Spec => []Find!CutNotUsed
<1>1. FindInv => Find!CutNotUsed
  BY DEF FindInv, Decided
<1> QED BY <1>1, FindInit, FindStep, PTL DEF Find!Spec

(* What is delivered exists, where and as what the answer treats it        *)
(* (DeliversWhatExists, within FilesServed).                               *)
THEOREM FindDelivers == ASSUME FindHypothesis PROVE Find!Spec => []Find!DeliversWhatExists
<1>1. FindInv => Find!DeliversWhatExists
  <2> SUFFICES ASSUME FindInv, answer \in Find!Delivers
               PROVE  IF is_gzipped THEN file \in zipped
                      ELSE /\ Find!Exists(file)
                           /\ (answer = "listing") = Find!IsDir(file)
    BY DEF Find!DeliversWhatExists
  <2>1. CASE is_gzipped
    BY <2>1 DEF FindInv, Kept
  <2>2. CASE ~ is_gzipped
    <3>1. is_found
      BY <2>2 DEF FindInv, FindTyped, Kept, Decided, Find!Delivers
    <3>2. Find!Exists(file) /\ stat = Find!KindOf(file)
      BY <2>2, <3>1 DEF FindInv, Kept
    <3>3. stat = "dir" <=> Find!IsDir(file)
      BY <3>2 DEF Find!KindOf
    <3>4. answer = "listing" <=> stat = "dir"
      <4>1. CASE answer = "script"
        <5>1. Find!IsScript(file)
          BY <4>1 DEF FindInv, Decided, Kept
        <5>2. ~ Find!IsDir(file)
          BY <5>1 DEF FindHypothesis, Find!IsScript, Find!IsDir, Find!Named
        <5> QED BY <3>3, <4>1, <5>2
      <4>2. CASE answer # "script"
        BY <4>2 DEF FindInv, Decided, Find!Delivers
      <4> QED BY <4>1, <4>2
    <3>5. (answer = "listing") = Find!IsDir(file)
      BY <3>3, <3>4 DEF Find!IsDir, Find!Named
    <3> QED BY <2>2, <3>2, <3>5
  <2> QED BY <2>1, <2>2
<1> QED BY <1>1, FindInit, FindStep, PTL DEF Find!Spec

(* The document root comes before the fallback root, and a file that one   *)
(* of them has is found (FirstRootWins, within FilesServed).               *)
THEOREM FindFirst == ASSUME FindHypothesis PROVE Find!Spec => []Find!FirstRootWins
<1>1. FindInv => Find!FirstRootWins
  BY DEF FindInv
<1> QED BY <1>1, FindInit, FindStep, PTL DEF Find!Spec

-----------------------------------------------------------------------------
(* Sending and storing files *)

FileTasks == [op : {"GET", "HEAD", "BODY", "PUT", "STORE"}, range : Int \X Int \X Int, gzip : BOOLEAN,
              expect : STRING, dirs : {"made", "directory", "too long", "failed"}, writable : BOOLEAN,
              body : Seq(Nat)]

FileJobs == [pc : Transfer!Steps, name : Transfer!Names, size : Nat, gz : BOOLEAN, zipped : BOOLEAN,
             cl : Int, offset : Nat, left : Int, loops : Nat, fd : Transfer!Inodes \cup {NoFile},
             status : Int, sent : Seq(Nat), gone : BOOLEAN, from : Nat, body : Seq(Nat),
             pending : Seq(Nat), alone : BOOLEAN, last : BOOLEAN]

(* What the disks and the requests are; no worker has the name of a file.  *)
TransferHypothesis ==
    /\ Transfer!SizesAssumption
    /\ Workers \cap Transfer!Names = {} /\ NoFile \notin Transfer!Names /\ NoFile \notin Seq(Nat)
    /\ Disks \subseteq [Transfer!Names -> Seq(Nat) \cup {NoFile}]
    /\ Tasks \subseteq FileTasks

TransferTyped ==
    /\ entry \in [Transfer!Names -> Transfer!Inodes \cup {NoFile}]
    /\ data \in [Transfer!Inodes -> Seq(Nat)]
    /\ task \in [Workers -> FileTasks]
    /\ job \in [Workers -> FileJobs]
    /\ \A w \in Workers : task[w] \in Tasks

Closing == {"close", "done"}
Sending == {"sendfile", "copy"}
Shut == {"start", "variant", "stat", "open"}
Ajar == {"header", "sendfile", "copy", "seek", "forward", "receive", "close"}

(* The position in the file that the body of a task is written from.       *)
Place(t) == IF t.op = "PUT" /\ t.range[1] > 0 THEN t.range[2] ELSE 0

(* The way of a task, and the files it has open on it.                     *)
Way(t, j) ==
    /\ t.op \in {"GET", "HEAD"} => j.pc \in Shut \cup {"header", "sendfile", "copy"} \cup Closing
    /\ t.op = "BODY" => j.pc \in {"start", "stat", "open", "header", "sendfile", "copy"} \cup Closing
    /\ t.op = "PUT" => j.pc \in {"start", "open", "seek", "forward", "receive"} \cup Closing
    /\ t.op = "STORE" => j.pc \in {"start", "open", "receive"} \cup Closing
    /\ j.pc \in Shut => j.fd = NoFile
    /\ j.pc \in Ajar => j.fd # NoFile
    /\ j.pc = "done" /\ j.fd # NoFile => t.op = "PUT" /\ t.range[1] > 0 /\ t.range[2] < 0
    /\ j.last => j.pc \notin Shut /\ t.op \in Transfer!Writers
    /\ j.status >= -14
    /\ j.pc \in Sending => j.left > 0

(* How much of its body a task has got.                                    *)
Got(t, j) ==
    t.op \in Transfer!Writers =>
      /\ j.pc \in {"start", "open", "seek"} => j.body = <<>> /\ j.pending = <<>> /\ j.offset = 0
      /\ j.pc = "forward" => j.body = <<>> /\ j.pending = <<>> /\ j.offset = Place(t)
      /\ j.pc = "receive" => j.offset + Len(j.pending) = Place(t) + Len(j.body) /\ Place(t) >= 0
      /\ t.op = "PUT" /\ j.pc = "receive" => /\ Len(j.body) <= Len(t.body)
                                             /\ j.body = SubSeq(t.body, 1, Len(j.body))
      /\ t.op = "PUT" /\ j.pc \in Closing /\ j.status \in {100, 200} /\ "timeout" \notin Faults =>
           j.body = t.body

(* What the file of the only and last writer holds with what is still in   *)
(* the buffer, while it is written and in the end.                         *)
Stored(t, j, e, d) ==
    /\ j.pc \in Ajar =>
         /\ e["plain"] = j.fd
         /\ Transfer!Written(d[j.fd], j.offset, j.pending) = Transfer!Written(<<>>, Place(t), j.body)
    /\ t.op = "PUT" /\ j.pc = "done" /\ j.status \in {100, 200} /\ "timeout" \notin Faults =>
         e["plain"] # NoFile /\ d[e["plain"]] = Transfer!Written(<<>>, Place(t), t.body)
    /\ t.op = "STORE" /\ j.pc = "done" =>
         IF j.status < 0 THEN e["plain"] = NoFile
         ELSE e["plain"] # NoFile /\ Len(d[e["plain"]]) = j.status

TransferInv ==
    /\ TransferTyped
    /\ \A w \in Workers : Way(task[w], job[w]) /\ Got(task[w], job[w])
    /\ \A w \in Workers : job[w].alone /\ job[w].last =>
         /\ \A v \in Workers \ {w} : ~ Transfer!HasOpen(v)
         /\ Stored(task[w], job[w], entry, data)

(* What a reader has sent while no file changes.                           *)
ReadHypothesis == TransferHypothesis /\ \A t \in Tasks : t.op \notin Transfer!Writers
Variety(j) == IF j.zipped THEN "zipped" ELSE "plain"

Found(t, j, e, d) ==
    /\ j.name = Variety(j)
    /\ j.pc \in {"start", "variant"} => ~ j.zipped
    /\ j.pc = "start" => ~ j.gz
    /\ j.pc \in Shut \cup {"header"} => j.sent = <<>> /\ j.from = 0 /\ j.status = 0
    /\ j.pc = "variant" => IF j.gz THEN e["zipped"] # NoFile /\ j.cl = Len(d["zipped"])
                           ELSE e["plain"] # NoFile /\ j.cl = Len(d["plain"])
    /\ j.pc \in {"stat", "open", "header"} /\ t.op # "BODY" => j.cl = Len(d[j.name])
    /\ j.pc \in {"open", "header"} => j.size = Len(d[j.name]) /\ ~ j.gz
    /\ j.pc \in Sending \cup {"header"} => j.fd = j.name

Asked(t, j, d) ==
    /\ t.op = "GET" /\ j.status = 200 => j.from = 0 /\ j.cl = Len(d[j.name])
    /\ t.op = "GET" /\ j.status = 206 =>
         /\ j.from = t.range[2]
         /\ t.range[1] = 2 => j.cl = Transfer!Smaller(t.range[3], Len(d[j.name])) - t.range[2] + 1

SentSoFar(t, j, d) ==
    /\ j.sent = SubSeq(d[j.name], j.from + 1, j.from + Len(j.sent))
    /\ j.pc \in Sending =>
         /\ j.left > 0 /\ j.left + Len(j.sent) = j.cl
         /\ j.offset = Transfer!Smaller(j.from, Len(d[j.name])) + Len(j.sent)
    /\ t.op = "GET" /\ j.pc \in Closing /\ j.status \in {200, 206} /\ ~ j.gone /\ 0 <= j.cl
       /\ j.from + j.cl <= Len(d[j.name]) => Len(j.sent) = j.cl

ReadInv ==
    /\ TransferInv
    /\ \A n \in Transfer!Names : entry[n] \in {n, NoFile}
    /\ \A w \in Workers : /\ Found(task[w], job[w], entry, data) /\ Asked(task[w], job[w], data)
                          /\ SentSoFar(task[w], job[w], data)

-----------------------------------------------------------------------------
(* f holds what d held, but for s from p up to q.                          *)
IsWritten(f, d, p, q, s) ==
    /\ f \in Seq(Nat) /\ Len(f) = Transfer!Larger(Len(d), q)
    /\ \A i \in 1 .. Len(f) :
         f[i] = IF i \in p + 1 .. q THEN s[i - p] ELSE IF i <= Len(d) THEN d[i] ELSE 0

LEMMA WrittenIs ==
    ASSUME NEW d \in Seq(Nat), NEW p \in Nat, NEW s \in Seq(Nat), s # <<>>, NEW q, q = p + Len(s)
    PROVE  IsWritten(Transfer!Written(d, p, s), d, p, q, s)
<1> DEFINE f == Transfer!Written(d, p, s)
<1> DEFINE n == Transfer!Larger(Len(d), p + Len(s))
<1>1. Len(d) \in Nat /\ Len(s) \in Nat
  OBVIOUS
<1>2. n \in Nat /\ n >= p + Len(s) /\ n >= Len(d)
  BY <1>1 DEF Transfer!Larger
<1> DEFINE e(i) == IF i \in p + 1 .. p + Len(s) THEN s[i - p] ELSE IF i <= Len(d) THEN d[i] ELSE 0
<1>3. f = [i \in 1 .. n |-> e(i)]
  BY DEF Transfer!Written
<1>4. ASSUME NEW i \in 1 .. n PROVE e(i) \in Nat
  <2>1. CASE i \in p + 1 .. p + Len(s)
    <3>1. i - p \in 1 .. Len(s)
      BY <1>1, <2>1
    <3>2. s[i - p] \in Nat
      BY <3>1, ElementOfSeq
    <3> QED BY <2>1, <3>2
  <2>2. CASE i \notin p + 1 .. p + Len(s) /\ i <= Len(d)
    <3>1. i \in 1 .. Len(d)
      BY <1>1, <2>2
    <3>2. d[i] \in Nat
      BY <3>1, ElementOfSeq
    <3> QED BY <2>2, <3>2
  <2>3. CASE i \notin p + 1 .. p + Len(s) /\ ~ (i <= Len(d))
    BY <2>3
  <2> QED BY <2>1, <2>2, <2>3
<1> HIDE DEF n, e, f
<1>5. f \in [1 .. n -> Nat] /\ DOMAIN f = 1 .. n /\ \A i \in 1 .. n : f[i] = e(i)
  BY <1>3, <1>4
<1>6. f \in Seq(Nat) /\ Len(f) = n
  BY <1>2, <1>5
<1>7. IsWritten(f, d, p, q, s)
  BY <1>5, <1>6 DEF n, e, IsWritten
<1> QED BY <1>7 DEF f

LEMMA WrittenSeq ==
    ASSUME NEW d \in Seq(Nat), NEW p \in Int, NEW s \in Seq(Nat), p \in Nat \/ s = <<>>
    PROVE  Transfer!Written(d, p, s) \in Seq(Nat)
<1>1. CASE s = <<>>
  BY <1>1 DEF Transfer!Written
<1>2. CASE s # <<>>
  BY <1>2, WrittenIs DEF IsWritten
<1> QED BY <1>1, <1>2

(* Writing two pieces one behind the other is writing them as one.         *)
LEMMA WrittenTwice ==
    ASSUME NEW d \in Seq(Nat), NEW p \in Nat, NEW a \in Seq(Nat), NEW s \in Seq(Nat)
    PROVE  Transfer!Written(Transfer!Written(d, p, a), p + Len(a), s) = Transfer!Written(d, p, a \o s)
<1>1. CASE s = <<>>
  BY <1>1 DEF Transfer!Written
<1>2. CASE a = <<>>
  BY <1>2 DEF Transfer!Written
<1>3. CASE a # <<>> /\ s # <<>>
  <2>1. PICK f : f = Transfer!Written(d, p, a)
    OBVIOUS
  <2>2. PICK q \in Nat : q = p + Len(a)
    OBVIOUS
  <2>0. IsWritten(f, d, p, q, a)
    BY <1>3, <2>1, <2>2, WrittenIs
  <2>3. /\ f \in Seq(Nat) /\ Len(f) = Transfer!Larger(Len(d), q)
        /\ \A i \in 1 .. Len(f) : f[i] = IF i \in p + 1 .. q THEN a[i - p] ELSE IF i <= Len(d) THEN d[i] ELSE 0
    BY <2>0 DEF IsWritten
  <2>4. PICK r \in Nat : r = q + Len(s)
    OBVIOUS
  <2>5. PICK g : g = Transfer!Written(f, q, s)
    OBVIOUS
  <2>6. IsWritten(g, f, q, r, s)
    BY <1>3, <2>3, <2>4, <2>5, WrittenIs
  <2>7. PICK t : t = a \o s
    OBVIOUS
  <2>8. /\ t \in Seq(Nat) /\ t # <<>> /\ Len(t) = Len(a) + Len(s)
        /\ \A i \in 1 .. Len(t) : t[i] = IF i <= Len(a) THEN a[i] ELSE s[i - Len(a)]
    BY <1>3, <2>7
  <2>9. PICK h : h = Transfer!Written(d, p, t)
    OBVIOUS
  <2>10. IsWritten(h, d, p, r, t)
    <3>1. r = p + Len(t)
      BY <2>2, <2>4, <2>8
    <3> QED BY <2>8, <2>9, <3>1, WrittenIs
  <2>11. Len(a) \in Nat \ {0} /\ Len(s) \in Nat \ {0} /\ Len(d) \in Nat /\ q = p + Len(a)
         /\ r = q + Len(s)
    BY <1>3, <2>2, <2>4
  <2>12. Len(g) = Len(h)
    BY SMTT(30), <2>3, <2>6, <2>10, <2>11 DEF IsWritten, Transfer!Larger
  <2>13. ASSUME NEW i \in 1 .. Len(h) PROVE g[i] = h[i]
    <3>0. i \in Nat /\ i > 0 /\ i <= Len(h) /\ Len(h) \in Nat
      BY <2>10 DEF IsWritten
    <3>1. CASE i \in q + 1 .. r
      <4>1. g[i] = s[i - q]
        BY <2>6, <2>12, <3>1 DEF IsWritten
      <4>2. h[i] = t[i - p]
        <5>1. i \in p + 1 .. r
          BY <2>11, <3>1
        <5> QED BY <2>10, <5>1 DEF IsWritten
      <4>3. i - p \in 1 .. Len(t) /\ ~ (i - p <= Len(a)) /\ (i - p) - Len(a) = i - q
        BY <2>8, <2>11, <3>1
      <4> QED BY <2>8, <4>1, <4>2, <4>3
    <3>2. CASE i \in p + 1 .. q
      <4>1. i \notin q + 1 .. r /\ i <= Len(f) /\ i \in 1 .. Len(f)
        <5>1. Len(f) \in Nat /\ Len(f) >= q
          BY <2>3, <2>11 DEF Transfer!Larger
        <5> QED BY <2>11, <3>0, <3>2, <5>1
      <4>2. g[i] = f[i]
        BY <2>6, <2>12, <4>1 DEF IsWritten
      <4>3. f[i] = a[i - p]
        BY <2>3, <3>2, <4>1
      <4>4. h[i] = t[i - p]
        <5>1. i \in p + 1 .. r
          BY <2>11, <3>2
        <5> QED BY <2>10, <5>1 DEF IsWritten
      <4>5. i - p \in 1 .. Len(t) /\ i - p <= Len(a)
        BY <2>8, <2>11, <3>2
      <4> QED BY <2>8, <4>2, <4>3, <4>4, <4>5
    <3>3. CASE i \notin p + 1 .. r
      <4>1. i \notin q + 1 .. r /\ i \notin p + 1 .. q
        BY <2>11, <3>3
      <4>2. h[i] = IF i <= Len(d) THEN d[i] ELSE 0
        BY <2>10, <3>3 DEF IsWritten
      <4>3. g[i] = IF i <= Len(f) THEN f[i] ELSE 0
        BY <2>6, <2>12, <4>1 DEF IsWritten
      <4>4. i <= Len(f) => f[i] = IF i <= Len(d) THEN d[i] ELSE 0
        <5>1. SUFFICES ASSUME i <= Len(f) PROVE f[i] = IF i <= Len(d) THEN d[i] ELSE 0
          OBVIOUS
        <5>2. i \in 1 .. Len(f)
          BY <2>3, <3>0, <5>1
        <5> QED BY <2>3, <4>1, <5>2
      <4>5. i <= Len(d) => i <= Len(f)
        BY <2>3, <2>11, <3>0 DEF Transfer!Larger
      <4> QED BY <4>2, <4>3, <4>4, <4>5
    <3>4. i \in q + 1 .. r \/ i \in p + 1 .. q \/ i \notin p + 1 .. r
      BY <2>11, <3>0
    <3> QED BY <3>1, <3>2, <3>3, <3>4
  <2>14. g = h
    BY <2>6, <2>10, <2>12, <2>13, SeqEqual DEF IsWritten
  <2> QED BY <2>1, <2>2, <2>5, <2>7, <2>9, <2>14
<1> QED BY <1>1, <1>2, <1>3

(* A file that has been written from its beginning has as many bytes.      *)
LEMMA WrittenLength ==
    ASSUME NEW s \in Seq(Nat)
    PROVE  Len(Transfer!Written(<<>>, 0, s)) = Len(s)
<1>1. CASE s = <<>>
  BY <1>1 DEF Transfer!Written
<1>2. CASE s # <<>>
  <2>0. PICK e : e = <<>>
    OBVIOUS
  <2>1. e \in Seq(Nat) /\ Len(e) = 0
    BY <2>0
  <2>2. PICK f : f = Transfer!Written(e, 0, s)
    OBVIOUS
  <2>3. IsWritten(f, e, 0, Len(s), s)
    <3>1. 0 \in Nat /\ Len(s) = 0 + Len(s)
      OBVIOUS
    <3> QED BY <1>2, <2>1, <2>2, <3>1, WrittenIs
  <2>4. Len(f) = Len(s)
    BY <2>1, <2>3 DEF IsWritten, Transfer!Larger
  <2> QED BY <2>0, <2>2, <2>4
<1> QED BY <1>1, <1>2

LEMMA PieceIs ==
    ASSUME NEW s \in Seq(Nat), NEW a \in Nat, NEW b \in Nat, a <= b, b <= Len(s)
    PROVE  SubSeq(s, a + 1, b) \in Seq(Nat) /\ Len(SubSeq(s, a + 1, b)) = b - a
OBVIOUS

(* Two pieces of a sequence, one behind the other. *)
LEMMA PieceAfterPiece ==
    ASSUME NEW s \in Seq(Nat), NEW a \in Nat, NEW b \in Nat, NEW c \in Nat, a <= b, b <= c, c <= Len(s)
    PROVE  SubSeq(s, a + 1, b) \o SubSeq(s, b + 1, c) = SubSeq(s, a + 1, c)
<1>1. PICK x : x = SubSeq(s, a + 1, b)
  OBVIOUS
<1>2. PICK y : y = SubSeq(s, b + 1, c)
  OBVIOUS
<1>3. PICK z : z = SubSeq(s, a + 1, c)
  OBVIOUS
<1>4. x \in Seq(Nat) /\ Len(x) = b - a /\ \A i \in 1 .. Len(x) : x[i] = s[a + i]
  BY <1>1
<1>5. y \in Seq(Nat) /\ Len(y) = c - b /\ \A i \in 1 .. Len(y) : y[i] = s[b + i]
  BY <1>2
<1>6. z \in Seq(Nat) /\ Len(z) = c - a /\ \A i \in 1 .. Len(z) : z[i] = s[a + i]
  BY <1>3
<1>7. PICK u : u = x \o y
  OBVIOUS
<1>8. /\ u \in Seq(Nat) /\ Len(u) = Len(x) + Len(y)
      /\ \A i \in 1 .. Len(u) : u[i] = IF i <= Len(x) THEN x[i] ELSE y[i - Len(x)]
  <2>1. x \in Seq(Nat) /\ y \in Seq(Nat)
    BY <1>4, <1>5
  <2> QED BY ONLY <2>1, <1>7, ConcatProperties
<1>9. Len(u) = Len(z)
  BY <1>4, <1>5, <1>6, <1>8
<1>10. ASSUME NEW i \in 1 .. Len(z) PROVE u[i] = z[i]
  <2>1. CASE i <= Len(x)
    <3>1. i \in 1 .. Len(x)
      BY <1>4, <2>1
    <3> QED BY <1>4, <1>6, <1>8, <1>9, <2>1, <3>1
  <2>2. CASE ~ (i <= Len(x))
    <3>1. i - Len(x) \in 1 .. Len(y) /\ b + (i - Len(x)) = a + i
      <4>1. Len(x) = b - a /\ Len(y) = c - b /\ Len(z) = c - a /\ i \in 1 .. c - a /\ ~ (i <= b - a)
        BY <1>4, <1>5, <1>6, <2>2
      <4>2. i - (b - a) \in 1 .. c - b /\ b + (i - (b - a)) = a + i
        BY ONLY <4>1, a \in Nat, b \in Nat, c \in Nat, a <= b, b <= c
      <4> QED BY ONLY <4>1, <4>2
    <3> QED BY <1>5, <1>6, <1>8, <1>9, <2>2, <3>1
  <2> QED BY <2>1, <2>2
<1>11. u = z
  BY <1>6, <1>8, <1>9, <1>10, SeqEqual
<1> QED BY <1>1, <1>2, <1>3, <1>7, <1>11

-----------------------------------------------------------------------------
(* The assignment to some of the fields, field by field. *)
LEMMA WithFileJob ==
    ASSUME NEW r, NEW s \in FileJobs, NEW k, k = Transfer!With(r, s)
    PROVE  /\ k = [pc |-> k.pc, name |-> k.name, size |-> k.size, gz |-> k.gz, zipped |-> k.zipped, cl |-> k.cl, offset |-> k.offset, left |-> k.left, loops |-> k.loops, fd |-> k.fd, status |-> k.status, sent |-> k.sent, gone |-> k.gone, from |-> k.from, body |-> k.body, pending |-> k.pending, alone |-> k.alone, last |-> k.last]
           /\ k.pc = IF "pc" \in DOMAIN r THEN r.pc ELSE s.pc
           /\ k.name = IF "name" \in DOMAIN r THEN r.name ELSE s.name
           /\ k.size = IF "size" \in DOMAIN r THEN r.size ELSE s.size
           /\ k.gz = IF "gz" \in DOMAIN r THEN r.gz ELSE s.gz
           /\ k.zipped = IF "zipped" \in DOMAIN r THEN r.zipped ELSE s.zipped
           /\ k.cl = IF "cl" \in DOMAIN r THEN r.cl ELSE s.cl
           /\ k.offset = IF "offset" \in DOMAIN r THEN r.offset ELSE s.offset
           /\ k.left = IF "left" \in DOMAIN r THEN r.left ELSE s.left
           /\ k.loops = IF "loops" \in DOMAIN r THEN r.loops ELSE s.loops
           /\ k.fd = IF "fd" \in DOMAIN r THEN r.fd ELSE s.fd
           /\ k.status = IF "status" \in DOMAIN r THEN r.status ELSE s.status
           /\ k.sent = IF "sent" \in DOMAIN r THEN r.sent ELSE s.sent
           /\ k.gone = IF "gone" \in DOMAIN r THEN r.gone ELSE s.gone
           /\ k.from = IF "from" \in DOMAIN r THEN r.from ELSE s.from
           /\ k.body = IF "body" \in DOMAIN r THEN r.body ELSE s.body
           /\ k.pending = IF "pending" \in DOMAIN r THEN r.pending ELSE s.pending
           /\ k.alone = IF "alone" \in DOMAIN r THEN r.alone ELSE s.alone
           /\ k.last = IF "last" \in DOMAIN r THEN r.last ELSE s.last
BY DEF Transfer!With, FileJobs

LEMMA FileSorts ==
    ASSUME TransferHypothesis
    PROVE  /\ \A w \in Workers : w \notin Transfer!Names /\ w # NoFile
           /\ NoFile \notin Transfer!Inodes /\ NoFile \notin Seq(Nat)
           /\ "plain" \in Transfer!Names /\ "zipped" \in Transfer!Names
           /\ BufLen \in Nat \ {0} /\ Everything \in Nat
BY DEF TransferHypothesis, Transfer!SizesAssumption, Transfer!Names, Transfer!Inodes

LEMMA TransferInit == ASSUME TransferHypothesis PROVE Transfer!Init => TransferInv
<1> SUFFICES ASSUME Transfer!Init PROVE TransferInv
  OBVIOUS
<1>1. PICK d \in Disks : /\ entry = [n \in Transfer!Names |-> IF d[n] = NoFile THEN NoFile ELSE n]
                         /\ data = [i \in Transfer!Inodes |->
                                      IF i \in Transfer!Names /\ d[i] # NoFile THEN d[i] ELSE <<>>]
  BY DEF Transfer!Init
<1>2. d \in [Transfer!Names -> Seq(Nat) \cup {NoFile}]
  BY DEF TransferHypothesis
<1>3. entry \in [Transfer!Names -> Transfer!Inodes \cup {NoFile}]
      /\ data \in [Transfer!Inodes -> Seq(Nat)]
  BY <1>1, <1>2 DEF Transfer!Inodes
<1>4. task \in [Workers -> FileTasks] /\ \A w \in Workers : task[w] \in Tasks
  BY DEF Transfer!Init, TransferHypothesis
<1>5. ASSUME NEW w \in Workers
      PROVE  job[w] \in FileJobs /\ Way(task[w], job[w]) /\ Got(task[w], job[w]) /\ ~ job[w].last
  <2>1. job[w] = [pc |-> "start", name |-> "plain", size |-> 0, gz |-> FALSE, zipped |-> FALSE,
                  cl |-> 0, offset |-> 0, left |-> 0, loops |-> 0, fd |-> NoFile, status |-> 0,
                  sent |-> <<>>, gone |-> FALSE, from |-> 0,
                  body |-> <<>>, pending |-> <<>>, alone |-> TRUE, last |-> FALSE]
    BY DEF Transfer!Init
  <2>2. job[w] \in FileJobs
    BY <2>1 DEF FileJobs, Transfer!Steps, Transfer!Names
  <2>3. Way(task[w], job[w])
    BY <2>1 DEF Way, Shut, Ajar, Closing, Sending
  <2>4. Got(task[w], job[w])
    BY <2>1 DEF Got, Closing
  <2> QED BY <2>1, <2>2, <2>3, <2>4
<1>6. job \in [Workers -> FileJobs]
  BY <1>5 DEF Transfer!Init
<1> QED BY <1>3, <1>4, <1>5, <1>6 DEF TransferInv, TransferTyped

(* Worker w goes on with j, and no other worker moves. *)
Moves(w, j) == job' = [job EXCEPT ![w] = j]

(* A step of one worker that opens no file for writing, and touches files  *)
(* only if it has one open so.                                             *)
LEMMA OneTransfer ==
    ASSUME TransferInv, NEW w \in Workers, NEW j \in FileJobs, Way(task[w], j), Got(task[w], j),
           Moves(w, j), task' = task,
           j.alone = job[w].alone, j.last = job[w].last,
           task[w].op \in Transfer!Writers /\ j.fd # NoFile => job[w].fd # NoFile,
           entry' \in [Transfer!Names -> Transfer!Inodes \cup {NoFile}],
           data' \in [Transfer!Inodes -> Seq(Nat)],
           (entry' = entry /\ data' = data) \/ Transfer!HasOpen(w),
           j.alone /\ j.last => Stored(task[w], j, entry', data')
    PROVE  TransferInv'
<1>1. /\ job' \in [Workers -> FileJobs] /\ job'[w] = j
      /\ \A v \in Workers : v # w => job'[v] = job[v]
  BY DEF TransferInv, TransferTyped, Moves
<1>2. TransferTyped'
  BY <1>1 DEF TransferInv, TransferTyped
<1>3. \A v \in Workers : Way(task'[v], job'[v]) /\ Got(task'[v], job'[v])
  BY <1>1 DEF TransferInv
<1>4. \A v \in Workers : job'[v].fd # NoFile /\ task'[v].op \in Transfer!Writers => Transfer!HasOpen(v)
  BY <1>1 DEF Transfer!HasOpen
<1>5. ASSUME NEW u \in Workers, job'[u].alone, job'[u].last
      PROVE  /\ \A v \in Workers \ {u} : ~ (job'[v].fd # NoFile /\ task'[v].op \in Transfer!Writers)
             /\ Stored(task'[u], job'[u], entry', data')
  <2>1. job[u].alone /\ job[u].last
    BY <1>1, <1>5
  <2>2. \A v \in Workers \ {u} : ~ Transfer!HasOpen(v)
    BY <2>1 DEF TransferInv
  <2>3. \A v \in Workers \ {u} : ~ (job'[v].fd # NoFile /\ task'[v].op \in Transfer!Writers)
    BY <1>4, <2>2
  <2>4. CASE u = w
    BY <1>1, <1>5, <2>3, <2>4
  <2>5. CASE u # w
    <3>1. entry' = entry /\ data' = data
      BY <2>2, <2>5
    <3>2. Stored(task[u], job[u], entry, data)
      BY <2>1 DEF TransferInv
    <3> QED BY <1>1, <2>3, <2>5, <3>1, <3>2
  <2> QED BY <2>4, <2>5
<1>6. (\A v \in Workers : Way(task[v], job[v]) /\ Got(task[v], job[v]))'
  BY <1>3 DEF Way, Got, Place, Shut, Ajar, Closing, Sending, Transfer!Writers
<1>7. (\A u \in Workers : job[u].alone /\ job[u].last =>
         /\ \A v \in Workers \ {u} : ~ Transfer!HasOpen(v)
         /\ Stored(task[u], job[u], entry, data))'
  BY <1>5 DEF Transfer!HasOpen, Stored, Place, Ajar, Transfer!Writers, Transfer!Written,
       Transfer!Larger
<1> QED BY <1>2, <1>6, <1>7 DEF TransferInv

(* j is s with the fields of r. *)
Becomes(j, r, s) ==
    /\ j = [pc |-> j.pc, name |-> j.name, size |-> j.size, gz |-> j.gz, zipped |-> j.zipped, cl |-> j.cl, offset |-> j.offset,
            left |-> j.left, loops |-> j.loops, fd |-> j.fd, status |-> j.status, sent |-> j.sent, gone |-> j.gone,
            from |-> j.from, body |-> j.body, pending |-> j.pending, alone |-> j.alone, last |-> j.last]
    /\ j.pc = IF "pc" \in DOMAIN r THEN r.pc ELSE s.pc
    /\ j.name = IF "name" \in DOMAIN r THEN r.name ELSE s.name
    /\ j.size = IF "size" \in DOMAIN r THEN r.size ELSE s.size
    /\ j.gz = IF "gz" \in DOMAIN r THEN r.gz ELSE s.gz
    /\ j.zipped = IF "zipped" \in DOMAIN r THEN r.zipped ELSE s.zipped
    /\ j.cl = IF "cl" \in DOMAIN r THEN r.cl ELSE s.cl
    /\ j.offset = IF "offset" \in DOMAIN r THEN r.offset ELSE s.offset
    /\ j.left = IF "left" \in DOMAIN r THEN r.left ELSE s.left
    /\ j.loops = IF "loops" \in DOMAIN r THEN r.loops ELSE s.loops
    /\ j.fd = IF "fd" \in DOMAIN r THEN r.fd ELSE s.fd
    /\ j.status = IF "status" \in DOMAIN r THEN r.status ELSE s.status
    /\ j.sent = IF "sent" \in DOMAIN r THEN r.sent ELSE s.sent
    /\ j.gone = IF "gone" \in DOMAIN r THEN r.gone ELSE s.gone
    /\ j.from = IF "from" \in DOMAIN r THEN r.from ELSE s.from
    /\ j.body = IF "body" \in DOMAIN r THEN r.body ELSE s.body
    /\ j.pending = IF "pending" \in DOMAIN r THEN r.pending ELSE s.pending
    /\ j.alone = IF "alone" \in DOMAIN r THEN r.alone ELSE s.alone
    /\ j.last = IF "last" \in DOMAIN r THEN r.last ELSE s.last

(* What r says is of the right sort. *)
Fits(r) ==
    /\ "pc" \in DOMAIN r => r.pc \in Transfer!Steps
    /\ "name" \in DOMAIN r => r.name \in Transfer!Names
    /\ "size" \in DOMAIN r => r.size \in Nat
    /\ "gz" \in DOMAIN r => r.gz \in BOOLEAN
    /\ "zipped" \in DOMAIN r => r.zipped \in BOOLEAN
    /\ "cl" \in DOMAIN r => r.cl \in Int
    /\ "offset" \in DOMAIN r => r.offset \in Nat
    /\ "left" \in DOMAIN r => r.left \in Int
    /\ "loops" \in DOMAIN r => r.loops \in Nat
    /\ "fd" \in DOMAIN r => r.fd \in Transfer!Inodes \cup {NoFile}
    /\ "status" \in DOMAIN r => r.status \in Int
    /\ "sent" \in DOMAIN r => r.sent \in Seq(Nat)
    /\ "gone" \in DOMAIN r => r.gone \in BOOLEAN
    /\ "from" \in DOMAIN r => r.from \in Nat
    /\ "body" \in DOMAIN r => r.body \in Seq(Nat)
    /\ "pending" \in DOMAIN r => r.pending \in Seq(Nat)
    /\ "alone" \in DOMAIN r => r.alone \in BOOLEAN
    /\ "last" \in DOMAIN r => r.last \in BOOLEAN

LEMMA JobFits ==
    ASSUME NEW j, NEW r, NEW s \in FileJobs, Becomes(j, r, s), Fits(r)
    PROVE  j \in FileJobs
<1>1. /\ j.pc \in Transfer!Steps
      /\ j.name \in Transfer!Names
      /\ j.size \in Nat
      /\ j.gz \in BOOLEAN
      /\ j.zipped \in BOOLEAN
      /\ j.cl \in Int
      /\ j.offset \in Nat
      /\ j.left \in Int
      /\ j.loops \in Nat
      /\ j.fd \in Transfer!Inodes \cup {NoFile}
      /\ j.status \in Int
      /\ j.sent \in Seq(Nat)
      /\ j.gone \in BOOLEAN
      /\ j.from \in Nat
      /\ j.body \in Seq(Nat)
      /\ j.pending \in Seq(Nat)
      /\ j.alone \in BOOLEAN
      /\ j.last \in BOOLEAN
  BY DEF Becomes, Fits, FileJobs
<1>2. j = [pc |-> j.pc, name |-> j.name, size |-> j.size, gz |-> j.gz, zipped |-> j.zipped, cl |-> j.cl, offset |-> j.offset, left |-> j.left, loops |-> j.loops, fd |-> j.fd, status |-> j.status, sent |-> j.sent, gone |-> j.gone, from |-> j.from, body |-> j.body, pending |-> j.pending, alone |-> j.alone, last |-> j.last]
  BY DEF Becomes
<1> QED BY ONLY <1>1, <1>2 DEF FileJobs

LEMMA SetBecomes ==
    ASSUME TransferInv, NEW w \in Workers, NEW r, Transfer!Set(w, r)
    PROVE  \E j : Becomes(j, r, job[w]) /\ Moves(w, j)
<1>1. job[w] \in FileJobs
  BY DEF TransferInv, TransferTyped
<1>2. PICK j : j = Transfer!With(r, job[w])
  OBVIOUS
<1>3. Becomes(j, r, job[w])
  BY <1>1, <1>2, WithFileJob DEF Becomes
<1>4. Moves(w, j)
  BY <1>2 DEF Transfer!Set, Moves
<1> QED BY <1>3, <1>4

(* What is there is an inode, and its size a number. *)
LEMMA EntryIs ==
    ASSUME TransferInv, NEW n \in Transfer!Names
    PROVE  /\ entry[n] \in Transfer!Inodes \cup {NoFile}
           /\ Transfer!Exists(n) => entry[n] \in Transfer!Inodes /\ entry[n] # NoFile
           /\ Transfer!Size(n) \in Nat
<1>1. entry[n] \in Transfer!Inodes \cup {NoFile} /\ data \in [Transfer!Inodes -> Seq(Nat)]
  BY DEF TransferInv, TransferTyped
<1>2. CASE Transfer!Exists(n)
  <2>1. entry[n] \in Transfer!Inodes /\ entry[n] # NoFile
    BY <1>1, <1>2 DEF Transfer!Exists
  <2>2. data[entry[n]] \in Seq(Nat)
    BY <1>1, <2>1
  <2>3. Len(data[entry[n]]) \in Nat
    BY <2>2, LenProperties
  <2> QED BY <1>2, <2>1, <2>3 DEF Transfer!Size
<1>3. CASE ~ Transfer!Exists(n)
  BY <1>1, <1>3 DEF Transfer!Size
<1> QED BY <1>2, <1>3

LEMMA WorkerIs ==
    ASSUME TransferInv, NEW w \in Workers
    PROVE  /\ job[w] \in FileJobs /\ task[w] \in FileTasks
           /\ Way(task[w], job[w]) /\ Got(task[w], job[w])
BY DEF TransferInv, TransferTyped

(* A step of a request that writes no file. *)
LEMMA ReaderKeeps ==
    ASSUME TransferInv, NEW w \in Workers, task[w].op \notin Transfer!Writers,
           UNCHANGED <<entry, data, task>>,
           NEW j \in FileJobs, Moves(w, j), j.last = job[w].last, j.alone = job[w].alone,
           Way(task[w], j)
    PROVE  TransferInv'
<1>1. task' = task /\ entry' = entry /\ data' = data
  OBVIOUS
<1>2. Got(task[w], j)
  BY DEF Got
<1>3. ~ j.last
  BY DEF Way
<1>4. entry \in [Transfer!Names -> Transfer!Inodes \cup {NoFile}]
      /\ data \in [Transfer!Inodes -> Seq(Nat)]
  BY DEF TransferInv, TransferTyped
<1> QED BY <1>1, <1>2, <1>3, <1>4, OneTransfer

LEMMA StatKeeps ==
    ASSUME TransferHypothesis, TransferInv, NEW w \in Workers, Transfer!Stat(w)
    PROVE  TransferInv'
<1>1. /\ job[w] \in FileJobs /\ task[w] \in FileTasks /\ Way(task[w], job[w])
      /\ task[w].op \notin Transfer!Writers /\ UNCHANGED <<entry, data, task>>
      /\ job[w].pc = "start" /\ task[w].op \in {"GET", "HEAD"} /\ job[w].fd = NoFile
      /\ ~ job[w].last /\ job[w].status >= -14 /\ job[w].status \in Int
      /\ "plain" \in Transfer!Names /\ "zipped" \in Transfer!Names
  BY WorkerIs, FileSorts DEF Transfer!Stat, Transfer!At, Transfer!Reads, Transfer!Writers,
       Way, Shut, Ajar, Closing, Sending, FileJobs, FileTasks
<1>2. Transfer!Size("plain") \in Nat /\ Transfer!Size("zipped") \in Nat
  BY <1>1, EntryIs
<1>3. CASE Transfer!Set(w, [pc |-> "variant", size |-> Transfer!Size("plain"), cl |-> Transfer!Size("plain")])
  <2>1. PICK j : Becomes(j, [pc |-> "variant", size |-> Transfer!Size("plain"), cl |-> Transfer!Size("plain")], job[w])
                 /\ Moves(w, j)
    BY <1>3, SetBecomes
  <2>2. Fits([pc |-> "variant", size |-> Transfer!Size("plain"), cl |-> Transfer!Size("plain")])
    BY <1>1, <1>2, <1>3 DEF Fits, Transfer!Steps, Transfer!Names
  <2>3. j \in FileJobs
    BY <1>1, <2>1, <2>2, JobFits
  <2>4. j.pc = "variant" /\ j.fd = job[w].fd /\ j.status = job[w].status /\ j.left = job[w].left
        /\ j.alone = job[w].alone /\ j.last = job[w].last
    BY <2>1 DEF Becomes
  <2>5. Way(task[w], j)
    BY ONLY <1>1, <1>2, <1>3, <2>4 DEF Way, Shut, Ajar, Closing, Sending
  <2> QED BY <1>1, <2>1, <2>3, <2>4, <2>5, ReaderKeeps
<1>4. CASE Transfer!Set(w, [pc |-> "variant", size |-> Transfer!Size("zipped"), cl |-> Transfer!Size("zipped"), gz |-> TRUE])
  <2>1. PICK j : Becomes(j, [pc |-> "variant", size |-> Transfer!Size("zipped"), cl |-> Transfer!Size("zipped"), gz |-> TRUE], job[w])
                 /\ Moves(w, j)
    BY <1>4, SetBecomes
  <2>2. Fits([pc |-> "variant", size |-> Transfer!Size("zipped"), cl |-> Transfer!Size("zipped"), gz |-> TRUE])
    BY <1>1, <1>2, <1>4 DEF Fits, Transfer!Steps, Transfer!Names
  <2>3. j \in FileJobs
    BY <1>1, <2>1, <2>2, JobFits
  <2>4. j.pc = "variant" /\ j.fd = job[w].fd /\ j.status = job[w].status /\ j.left = job[w].left
        /\ j.alone = job[w].alone /\ j.last = job[w].last
    BY <2>1 DEF Becomes
  <2>5. Way(task[w], j)
    BY ONLY <1>1, <1>2, <1>4, <2>4 DEF Way, Shut, Ajar, Closing, Sending
  <2> QED BY <1>1, <2>1, <2>3, <2>4, <2>5, ReaderKeeps
<1>5. CASE Transfer!Set(w, [pc |-> "done", status |-> 404])
  <2>1. PICK j : Becomes(j, [pc |-> "done", status |-> 404], job[w])
                 /\ Moves(w, j)
    BY <1>5, SetBecomes
  <2>2. Fits([pc |-> "done", status |-> 404])
    BY <1>1, <1>2, <1>5 DEF Fits, Transfer!Steps, Transfer!Names
  <2>3. j \in FileJobs
    BY <1>1, <2>1, <2>2, JobFits
  <2>4. j.pc = "done" /\ j.fd = job[w].fd /\ j.status = 404 /\ j.left = job[w].left
        /\ j.alone = job[w].alone /\ j.last = job[w].last
    BY <2>1 DEF Becomes
  <2>5. Way(task[w], j)
    BY ONLY <1>1, <1>2, <1>5, <2>4 DEF Way, Shut, Ajar, Closing, Sending
  <2> QED BY <1>1, <2>1, <2>3, <2>4, <2>5, ReaderKeeps
<1> QED BY <1>3, <1>4, <1>5 DEF Transfer!Stat, Transfer!Ends

LEMMA VariantKeeps ==
    ASSUME TransferHypothesis, TransferInv, NEW w \in Workers, Transfer!Variant(w)
    PROVE  TransferInv'
<1>1. /\ job[w] \in FileJobs /\ task[w] \in FileTasks /\ Way(task[w], job[w])
      /\ task[w].op \notin Transfer!Writers /\ UNCHANGED <<entry, data, task>>
      /\ job[w].pc = "variant" /\ task[w].op \in {"GET", "HEAD"} /\ job[w].fd = NoFile
      /\ ~ job[w].last /\ job[w].status >= -14 /\ job[w].status \in Int
      /\ "plain" \in Transfer!Names /\ "zipped" \in Transfer!Names
  BY WorkerIs, FileSorts DEF Transfer!Variant, Transfer!At, Transfer!Reads, Transfer!Writers,
       Way, Shut, Ajar, Closing, Sending, FileJobs, FileTasks
<1>2. Transfer!Size("plain") \in Nat /\ Transfer!Size("zipped") \in Nat
  BY <1>1, EntryIs
<1>3. CASE Transfer!Set(w, [pc |-> "stat", name |-> "zipped", zipped |-> TRUE])
  <2>1. PICK j : Becomes(j, [pc |-> "stat", name |-> "zipped", zipped |-> TRUE], job[w])
                 /\ Moves(w, j)
    BY <1>3, SetBecomes
  <2>2. Fits([pc |-> "stat", name |-> "zipped", zipped |-> TRUE])
    BY <1>1, <1>2, <1>3 DEF Fits, Transfer!Steps, Transfer!Names
  <2>3. j \in FileJobs
    BY <1>1, <2>1, <2>2, JobFits
  <2>4. j.pc = "stat" /\ j.fd = job[w].fd /\ j.status = job[w].status /\ j.left = job[w].left
        /\ j.alone = job[w].alone /\ j.last = job[w].last
    BY <2>1 DEF Becomes
  <2>5. Way(task[w], j)
    BY ONLY <1>1, <1>2, <1>3, <2>4 DEF Way, Shut, Ajar, Closing, Sending
  <2> QED BY <1>1, <2>1, <2>3, <2>4, <2>5, ReaderKeeps
<1>4. CASE Transfer!Set(w, [pc |-> "stat", name |-> "zipped", zipped |-> TRUE, gz |-> TRUE, size |-> Transfer!Size("zipped"), cl |-> Transfer!Size("zipped")])
  <2>1. PICK j : Becomes(j, [pc |-> "stat", name |-> "zipped", zipped |-> TRUE, gz |-> TRUE, size |-> Transfer!Size("zipped"), cl |-> Transfer!Size("zipped")], job[w])
                 /\ Moves(w, j)
    BY <1>4, SetBecomes
  <2>2. Fits([pc |-> "stat", name |-> "zipped", zipped |-> TRUE, gz |-> TRUE, size |-> Transfer!Size("zipped"), cl |-> Transfer!Size("zipped")])
    BY <1>1, <1>2, <1>4 DEF Fits, Transfer!Steps, Transfer!Names
  <2>3. j \in FileJobs
    BY <1>1, <2>1, <2>2, JobFits
  <2>4. j.pc = "stat" /\ j.fd = job[w].fd /\ j.status = job[w].status /\ j.left = job[w].left
        /\ j.alone = job[w].alone /\ j.last = job[w].last
    BY <2>1 DEF Becomes
  <2>5. Way(task[w], j)
    BY ONLY <1>1, <1>2, <1>4, <2>4 DEF Way, Shut, Ajar, Closing, Sending
  <2> QED BY <1>1, <2>1, <2>3, <2>4, <2>5, ReaderKeeps
<1>5. CASE Transfer!Set(w, [pc |-> "stat"])
  <2>1. PICK j : Becomes(j, [pc |-> "stat"], job[w])
                 /\ Moves(w, j)
    BY <1>5, SetBecomes
  <2>2. Fits([pc |-> "stat"])
    BY <1>1, <1>2, <1>5 DEF Fits, Transfer!Steps, Transfer!Names
  <2>3. j \in FileJobs
    BY <1>1, <2>1, <2>2, JobFits
  <2>4. j.pc = "stat" /\ j.fd = job[w].fd /\ j.status = job[w].status /\ j.left = job[w].left
        /\ j.alone = job[w].alone /\ j.last = job[w].last
    BY <2>1 DEF Becomes
  <2>5. Way(task[w], j)
    BY ONLY <1>1, <1>2, <1>5, <2>4 DEF Way, Shut, Ajar, Closing, Sending
  <2> QED BY <1>1, <2>1, <2>3, <2>4, <2>5, ReaderKeeps
<1> QED BY <1>3, <1>4, <1>5 DEF Transfer!Variant, Transfer!Ends

LEMMA OpenBodyKeeps ==
    ASSUME TransferHypothesis, TransferInv, NEW w \in Workers, Transfer!OpenBody(w)
    PROVE  TransferInv'
<1>1. /\ job[w] \in FileJobs /\ task[w] \in FileTasks /\ Way(task[w], job[w])
      /\ task[w].op \notin Transfer!Writers /\ UNCHANGED <<entry, data, task>>
      /\ job[w].pc = "start" /\ task[w].op \in {"BODY"} /\ job[w].fd = NoFile
      /\ ~ job[w].last /\ job[w].status >= -14 /\ job[w].status \in Int
      /\ "plain" \in Transfer!Names /\ "zipped" \in Transfer!Names
  BY WorkerIs, FileSorts DEF Transfer!OpenBody, Transfer!At, Transfer!Reads, Transfer!Writers,
       Way, Shut, Ajar, Closing, Sending, FileJobs, FileTasks
<1>2. TRUE
  OBVIOUS
<1>3. CASE Transfer!Set(w, [pc |-> "stat"])
  <2>1. PICK j : Becomes(j, [pc |-> "stat"], job[w])
                 /\ Moves(w, j)
    BY <1>3, SetBecomes
  <2>2. Fits([pc |-> "stat"])
    BY <1>1, <1>2, <1>3 DEF Fits, Transfer!Steps, Transfer!Names
  <2>3. j \in FileJobs
    BY <1>1, <2>1, <2>2, JobFits
  <2>4. j.pc = "stat" /\ j.fd = job[w].fd /\ j.status = job[w].status /\ j.left = job[w].left
        /\ j.alone = job[w].alone /\ j.last = job[w].last
    BY <2>1 DEF Becomes
  <2>5. Way(task[w], j)
    BY ONLY <1>1, <1>2, <1>3, <2>4 DEF Way, Shut, Ajar, Closing, Sending
  <2> QED BY <1>1, <2>1, <2>3, <2>4, <2>5, ReaderKeeps
<1> QED BY <1>3 DEF Transfer!OpenBody, Transfer!Ends

LEMMA RestatKeeps ==
    ASSUME TransferHypothesis, TransferInv, NEW w \in Workers, Transfer!Restat(w)
    PROVE  TransferInv'
<1>1. /\ job[w] \in FileJobs /\ task[w] \in FileTasks /\ Way(task[w], job[w])
      /\ task[w].op \notin Transfer!Writers /\ UNCHANGED <<entry, data, task>>
      /\ job[w].pc = "stat" /\ task[w].op \in {"GET", "HEAD", "BODY"} /\ job[w].fd = NoFile
      /\ ~ job[w].last /\ job[w].status >= -14 /\ job[w].status \in Int
      /\ "plain" \in Transfer!Names /\ "zipped" \in Transfer!Names
  BY WorkerIs, FileSorts DEF Transfer!Restat, Transfer!At, Transfer!Reads, Transfer!Writers,
       Way, Shut, Ajar, Closing, Sending, FileJobs, FileTasks
<1>2. Transfer!Size(job[w].name) \in Nat
  BY <1>1, EntryIs DEF FileJobs
<1>3. CASE Transfer!Set(w, [pc |-> "open", size |-> Transfer!Size(job[w].name), gz |-> FALSE])
  <2>1. PICK j : Becomes(j, [pc |-> "open", size |-> Transfer!Size(job[w].name), gz |-> FALSE], job[w])
                 /\ Moves(w, j)
    BY <1>3, SetBecomes
  <2>2. Fits([pc |-> "open", size |-> Transfer!Size(job[w].name), gz |-> FALSE])
    BY <1>1, <1>2, <1>3 DEF Fits, Transfer!Steps, Transfer!Names
  <2>3. j \in FileJobs
    BY <1>1, <2>1, <2>2, JobFits
  <2>4. j.pc = "open" /\ j.fd = job[w].fd /\ j.status = job[w].status /\ j.left = job[w].left
        /\ j.alone = job[w].alone /\ j.last = job[w].last
    BY <2>1 DEF Becomes
  <2>5. Way(task[w], j)
    BY ONLY <1>1, <1>2, <1>3, <2>4 DEF Way, Shut, Ajar, Closing, Sending
  <2> QED BY <1>1, <2>1, <2>3, <2>4, <2>5, ReaderKeeps
<1>4. CASE Transfer!Set(w, [pc |-> "done", status |-> IF task[w].op = "BODY" THEN -1 ELSE 500])
  <2>1. PICK j : Becomes(j, [pc |-> "done", status |-> IF task[w].op = "BODY" THEN -1 ELSE 500], job[w])
                 /\ Moves(w, j)
    BY <1>4, SetBecomes
  <2>2. Fits([pc |-> "done", status |-> IF task[w].op = "BODY" THEN -1 ELSE 500])
    BY <1>1, <1>2, <1>4 DEF Fits, Transfer!Steps, Transfer!Names
  <2>3. j \in FileJobs
    BY <1>1, <2>1, <2>2, JobFits
  <2>4. j.pc = "done" /\ j.fd = job[w].fd /\ j.status = (IF task[w].op = "BODY" THEN -1 ELSE 500)
        /\ j.left = job[w].left /\ j.alone = job[w].alone /\ j.last = job[w].last
    BY <2>1 DEF Becomes
  <2>5. Way(task[w], j)
    BY ONLY <1>1, <1>2, <1>4, <2>4 DEF Way, Shut, Ajar, Closing, Sending
  <2> QED BY <1>1, <2>1, <2>3, <2>4, <2>5, ReaderKeeps
<1> QED BY <1>3, <1>4 DEF Transfer!Restat, Transfer!Ends

LEMMA OpenKeeps ==
    ASSUME TransferHypothesis, TransferInv, NEW w \in Workers, Transfer!Open(w)
    PROVE  TransferInv'
<1>1. /\ job[w] \in FileJobs /\ task[w] \in FileTasks /\ Way(task[w], job[w])
      /\ task[w].op \notin Transfer!Writers /\ UNCHANGED <<entry, data, task>>
      /\ job[w].pc = "open" /\ task[w].op \in {"GET", "HEAD", "BODY"} /\ job[w].fd = NoFile
      /\ ~ job[w].last /\ job[w].status >= -14 /\ job[w].status \in Int
      /\ "plain" \in Transfer!Names /\ "zipped" \in Transfer!Names
  BY WorkerIs, FileSorts DEF Transfer!Open, Transfer!At, Transfer!Reads, Transfer!Writers,
       Way, Shut, Ajar, Closing, Sending, FileJobs, FileTasks
<1>2. Transfer!Exists(job[w].name) => entry[job[w].name] \in Transfer!Inodes /\ entry[job[w].name] # NoFile
  BY <1>1, EntryIs DEF FileJobs
<1>3. CASE Transfer!Set(w, [pc |-> "header", fd |-> entry[job[w].name]]) /\ Transfer!Exists(job[w].name)
  <2>1. PICK j : Becomes(j, [pc |-> "header", fd |-> entry[job[w].name]], job[w])
                 /\ Moves(w, j)
    BY <1>3, SetBecomes
  <2>2. Fits([pc |-> "header", fd |-> entry[job[w].name]])
    BY <1>1, <1>2, <1>3 DEF Fits, Transfer!Steps, Transfer!Names
  <2>3. j \in FileJobs
    BY <1>1, <2>1, <2>2, JobFits
  <2>4. j.pc = "header" /\ j.fd = entry[job[w].name] /\ j.status = job[w].status
        /\ j.left = job[w].left /\ j.alone = job[w].alone /\ j.last = job[w].last
    BY <2>1 DEF Becomes
  <2>5. Way(task[w], j)
    BY ONLY <1>1, <1>2, <1>3, <2>4 DEF Way, Shut, Ajar, Closing, Sending
  <2> QED BY <1>1, <2>1, <2>3, <2>4, <2>5, ReaderKeeps
<1>4. CASE Transfer!Set(w, [pc |-> "done", status |-> IF task[w].op = "BODY" THEN -1 ELSE 500])
  <2>1. PICK j : Becomes(j, [pc |-> "done", status |-> IF task[w].op = "BODY" THEN -1 ELSE 500], job[w])
                 /\ Moves(w, j)
    BY <1>4, SetBecomes
  <2>2. Fits([pc |-> "done", status |-> IF task[w].op = "BODY" THEN -1 ELSE 500])
    BY <1>1, <1>2, <1>4 DEF Fits, Transfer!Steps, Transfer!Names
  <2>3. j \in FileJobs
    BY <1>1, <2>1, <2>2, JobFits
  <2>4. j.pc = "done" /\ j.fd = job[w].fd /\ j.status = (IF task[w].op = "BODY" THEN -1 ELSE 500)
        /\ j.left = job[w].left /\ j.alone = job[w].alone /\ j.last = job[w].last
    BY <2>1 DEF Becomes
  <2>5. Way(task[w], j)
    BY ONLY <1>1, <1>2, <1>4, <2>4 DEF Way, Shut, Ajar, Closing, Sending
  <2> QED BY <1>1, <2>1, <2>3, <2>4, <2>5, ReaderKeeps
<1> QED BY <1>3, <1>4 DEF Transfer!Open, Transfer!Ends

LEMMA CloseReadKeeps ==
    ASSUME TransferHypothesis, TransferInv, NEW w \in Workers, Transfer!CloseRead(w)
    PROVE  TransferInv'
<1>1. /\ job[w] \in FileJobs /\ task[w] \in FileTasks /\ Way(task[w], job[w])
      /\ task[w].op \notin Transfer!Writers /\ UNCHANGED <<entry, data, task>>
      /\ job[w].pc = "close" /\ task[w].op \in {"GET", "HEAD", "BODY"} /\ job[w].fd # NoFile
      /\ ~ job[w].last /\ job[w].status >= -14 /\ job[w].status \in Int
      /\ "plain" \in Transfer!Names /\ "zipped" \in Transfer!Names
  BY WorkerIs, FileSorts DEF Transfer!CloseRead, Transfer!At, Transfer!Reads,
       Transfer!Writers, Way, Shut, Ajar, Closing, Sending, FileJobs, FileTasks
<1>2. TRUE
  OBVIOUS
<1>3. CASE Transfer!Set(w, [pc |-> "done", fd |-> NoFile])
  <2>1. PICK j : Becomes(j, [pc |-> "done", fd |-> NoFile], job[w])
                 /\ Moves(w, j)
    BY <1>3, SetBecomes
  <2>2. Fits([pc |-> "done", fd |-> NoFile])
    BY <1>1, <1>2, <1>3 DEF Fits, Transfer!Steps, Transfer!Names
  <2>3. j \in FileJobs
    BY <1>1, <2>1, <2>2, JobFits
  <2>4. j.pc = "done" /\ j.fd = NoFile /\ j.status = job[w].status /\ j.left = job[w].left
        /\ j.alone = job[w].alone /\ j.last = job[w].last
    BY <2>1 DEF Becomes
  <2>5. Way(task[w], j)
    BY ONLY <1>1, <1>2, <1>3, <2>4 DEF Way, Shut, Ajar, Closing, Sending
  <2> QED BY <1>1, <2>1, <2>3, <2>4, <2>5, ReaderKeeps
<1> QED BY <1>3 DEF Transfer!CloseRead, Transfer!Ends

LEMMA SendfileErrorKeeps ==
    ASSUME TransferHypothesis, TransferInv, NEW w \in Workers, Transfer!SendfileError(w)
    PROVE  TransferInv'
<1>1. /\ job[w] \in FileJobs /\ task[w] \in FileTasks /\ Way(task[w], job[w])
      /\ task[w].op \notin Transfer!Writers /\ UNCHANGED <<entry, data, task>>
      /\ job[w].pc = "sendfile" /\ task[w].op \in {"GET", "HEAD", "BODY"} /\ job[w].fd # NoFile
      /\ job[w].left > 0
      /\ ~ job[w].last /\ job[w].status >= -14 /\ job[w].status \in Int
      /\ "plain" \in Transfer!Names /\ "zipped" \in Transfer!Names
  BY WorkerIs, FileSorts DEF Transfer!SendfileError, Transfer!At, Transfer!Reads,
       Transfer!Writers, Way, Shut, Ajar, Closing, Sending, FileJobs, FileTasks
<1>2. TRUE
  OBVIOUS
<1>3. CASE Transfer!Set(w, [pc |-> "copy"])
  <2>1. PICK j : Becomes(j, [pc |-> "copy"], job[w])
                 /\ Moves(w, j)
    BY <1>3, SetBecomes
  <2>2. Fits([pc |-> "copy"])
    BY <1>1, <1>2, <1>3 DEF Fits, Transfer!Steps, Transfer!Names
  <2>3. j \in FileJobs
    BY <1>1, <2>1, <2>2, JobFits
  <2>4. j.pc = "copy" /\ j.fd = job[w].fd /\ j.status = job[w].status /\ j.left = job[w].left
        /\ j.alone = job[w].alone /\ j.last = job[w].last
    BY <2>1 DEF Becomes
  <2>5. Way(task[w], j)
    BY ONLY <1>1, <1>2, <1>3, <2>4 DEF Way, Shut, Ajar, Closing, Sending
  <2> QED BY <1>1, <2>1, <2>3, <2>4, <2>5, ReaderKeeps
<1> QED BY <1>3 DEF Transfer!SendfileError, Transfer!Ends

LEMMA SendfileNoneKeeps ==
    ASSUME TransferHypothesis, TransferInv, NEW w \in Workers, Transfer!SendfileNone(w)
    PROVE  TransferInv'
<1>1. /\ job[w] \in FileJobs /\ task[w] \in FileTasks /\ Way(task[w], job[w])
      /\ task[w].op \notin Transfer!Writers /\ UNCHANGED <<entry, data, task>>
      /\ job[w].pc = "sendfile" /\ task[w].op \in {"GET", "HEAD", "BODY"} /\ job[w].fd # NoFile
      /\ job[w].left > 0
      /\ ~ job[w].last /\ job[w].status >= -14 /\ job[w].status \in Int
      /\ "plain" \in Transfer!Names /\ "zipped" \in Transfer!Names
  BY WorkerIs, FileSorts DEF Transfer!SendfileNone, Transfer!At, Transfer!Reads,
       Transfer!Writers, Way, Shut, Ajar, Closing, Sending, FileJobs, FileTasks
<1>2. TRUE
  OBVIOUS
<1>3. CASE Transfer!Set(w, [pc |-> IF job[w].loops = 0 THEN "copy" ELSE "close"])
  <2>1. PICK j : Becomes(j, [pc |-> IF job[w].loops = 0 THEN "copy" ELSE "close"], job[w])
                 /\ Moves(w, j)
    BY <1>3, SetBecomes
  <2>2. Fits([pc |-> IF job[w].loops = 0 THEN "copy" ELSE "close"])
    BY <1>1, <1>2, <1>3 DEF Fits, Transfer!Steps, Transfer!Names
  <2>3. j \in FileJobs
    BY <1>1, <2>1, <2>2, JobFits
  <2>4. j.pc = (IF job[w].loops = 0 THEN "copy" ELSE "close") /\ j.fd = job[w].fd
        /\ j.status = job[w].status /\ j.left = job[w].left /\ j.alone = job[w].alone
        /\ j.last = job[w].last
    BY <2>1 DEF Becomes
  <2>5. Way(task[w], j)
    BY ONLY <1>1, <1>2, <1>3, <2>4 DEF Way, Shut, Ajar, Closing, Sending
  <2> QED BY <1>1, <2>1, <2>3, <2>4, <2>5, ReaderKeeps
<1> QED BY <1>3 DEF Transfer!SendfileNone, Transfer!Ends

(* The end of sending. *)
LEMMA EndsSending ==
    ASSUME TransferHypothesis, TransferInv, NEW w \in Workers, job[w].pc \in Sending, UNCHANGED <<entry, data, task>>,
           Transfer!Set(w, [pc |-> "close"]) \/ Transfer!Set(w, [pc |-> "close", gone |-> TRUE])
    PROVE  TransferInv'
<1>1. /\ job[w] \in FileJobs /\ task[w] \in FileTasks /\ Way(task[w], job[w])
      /\ task[w].op \notin Transfer!Writers /\ UNCHANGED <<entry, data, task>>
      /\ job[w].pc \in Sending /\ task[w].op \in {"GET", "HEAD", "BODY"} /\ job[w].fd # NoFile
      /\ job[w].left > 0
      /\ ~ job[w].last /\ job[w].status >= -14 /\ job[w].status \in Int
      /\ "plain" \in Transfer!Names /\ "zipped" \in Transfer!Names
  BY WorkerIs, FileSorts DEF Transfer!At, Transfer!Reads, Transfer!Writers, Way, Shut, Ajar,
       Closing, Sending, FileJobs, FileTasks
<1>2. TRUE
  OBVIOUS
<1>3. CASE Transfer!Set(w, [pc |-> "close"])
  <2>1. PICK j : Becomes(j, [pc |-> "close"], job[w])
                 /\ Moves(w, j)
    BY <1>3, SetBecomes
  <2>2. Fits([pc |-> "close"])
    BY <1>1, <1>2, <1>3 DEF Fits, Transfer!Steps, Transfer!Names
  <2>3. j \in FileJobs
    BY <1>1, <2>1, <2>2, JobFits
  <2>4. j.pc = "close" /\ j.fd = job[w].fd /\ j.status = job[w].status /\ j.left = job[w].left
        /\ j.alone = job[w].alone /\ j.last = job[w].last
    BY <2>1 DEF Becomes
  <2>5. Way(task[w], j)
    BY ONLY <1>1, <1>2, <1>3, <2>4 DEF Way, Shut, Ajar, Closing, Sending
  <2> QED BY <1>1, <2>1, <2>3, <2>4, <2>5, ReaderKeeps
<1>4. CASE Transfer!Set(w, [pc |-> "close", gone |-> TRUE])
  <2>1. PICK j : Becomes(j, [pc |-> "close", gone |-> TRUE], job[w])
                 /\ Moves(w, j)
    BY <1>4, SetBecomes
  <2>2. Fits([pc |-> "close", gone |-> TRUE])
    BY <1>1, <1>2, <1>4 DEF Fits, Transfer!Steps, Transfer!Names
  <2>3. j \in FileJobs
    BY <1>1, <2>1, <2>2, JobFits
  <2>4. j.pc = "close" /\ j.fd = job[w].fd /\ j.status = job[w].status /\ j.left = job[w].left
        /\ j.alone = job[w].alone /\ j.last = job[w].last
    BY <2>1 DEF Becomes
  <2>5. Way(task[w], j)
    BY ONLY <1>1, <1>2, <1>4, <2>4 DEF Way, Shut, Ajar, Closing, Sending
  <2> QED BY <1>1, <2>1, <2>3, <2>4, <2>5, ReaderKeeps
<1> QED BY <1>3, <1>4

LEMMA AvailableIs ==
    ASSUME TransferHypothesis, TransferInv, NEW w \in Workers, job[w].pc \in Sending
    PROVE  Transfer!Available(w) \in Nat
<1>1. job[w] \in FileJobs /\ task[w] \in FileTasks /\ Way(task[w], job[w])
      /\ data \in [Transfer!Inodes -> Seq(Nat)]
  BY DEF TransferInv, TransferTyped
<1>2. job[w].fd \in Transfer!Inodes /\ job[w].offset \in Nat
  BY <1>1 DEF Way, FileJobs, Ajar, Sending
<1>3. data[job[w].fd] \in Seq(Nat)
  BY <1>1, <1>2
<1>4. Len(data[job[w].fd]) \in Nat
  BY <1>3, LenProperties
<1> QED BY <1>2, <1>4 DEF Transfer!Available, Transfer!Larger

(* What is read at the offset is a piece of the file. *)
LEMMA PartIs ==
    ASSUME TransferInv, NEW w \in Workers, job[w].fd # NoFile, NEW n \in Nat \ {0}, n <= Transfer!Available(w)
    PROVE  /\ data[job[w].fd] \in Seq(Nat) /\ job[w].offset + n <= Len(data[job[w].fd])
           /\ Transfer!Part(w, n) \in Seq(Nat) /\ Len(Transfer!Part(w, n)) = n
<1>1. job[w] \in FileJobs /\ data \in [Transfer!Inodes -> Seq(Nat)]
  BY DEF TransferInv, TransferTyped
<1>2. PICK d : d = data[job[w].fd]
  OBVIOUS
<1>3. d \in Seq(Nat) /\ job[w].offset \in Nat
  BY <1>1, <1>2 DEF FileJobs
<1>4. Len(d) \in Nat
  BY <1>3, LenProperties
<1>5. job[w].offset + n <= Len(d)
  BY <1>2, <1>3, <1>4 DEF Transfer!Available, Transfer!Larger
<1>6. PICK a \in Nat : a = job[w].offset
  BY <1>3
<1>7. a + n <= Len(d)
  BY <1>5, <1>6
<1>8. SubSeq(d, a + 1, a + n) \in Seq(Nat) /\ Len(SubSeq(d, a + 1, a + n)) = n
  <2>1. PICK b \in Nat : b = a + n
    OBVIOUS
  <2>2. a <= b /\ b <= Len(d) /\ b - a = n
    BY <1>7, <2>1
  <2>3. d \in Seq(Nat)
    BY <1>3
  <2>4. SubSeq(d, a + 1, b) \in Seq(Nat) /\ Len(SubSeq(d, a + 1, b)) = b - a
    BY ONLY <2>2, <2>3, a \in Nat, b \in Nat, PieceIs
  <2> QED BY ONLY <2>1, <2>2, <2>4
<1> QED BY <1>2, <1>3, <1>5, <1>6, <1>8 DEF Transfer!Part

LEMMA SentKeeps ==
    ASSUME TransferHypothesis, TransferInv, NEW w \in Workers, NEW n \in Nat \ {0}, NEW next \in Sending,
           job[w].pc \in Sending, n <= job[w].left, n <= Transfer!Available(w),
           Transfer!Sent(w, n, next), UNCHANGED <<entry, data, task>>
    PROVE  TransferInv'
<1>1. /\ job[w] \in FileJobs /\ task[w] \in FileTasks /\ Way(task[w], job[w])
      /\ task[w].op \in {"GET", "HEAD", "BODY"} /\ task[w].op \notin Transfer!Writers
      /\ job[w].fd # NoFile /\ ~ job[w].last /\ job[w].status >= -14 /\ job[w].status \in Int
      /\ UNCHANGED <<entry, data, task>>
  BY WorkerIs DEF Transfer!Writers, Way, Shut, Ajar, Closing, Sending, FileJobs, FileTasks
<1>2. Transfer!Part(w, n) \in Seq(Nat)
  BY <1>1, PartIs
<1>3. /\ job[w].left \in Int /\ job[w].left - n \in Int /\ (job[w].left # n => job[w].left - n > 0)
      /\ job[w].offset + n \in Nat /\ Transfer!Smaller(job[w].loops + 1, 1) \in Nat
  <2>1. job[w].left \in Int /\ job[w].offset \in Nat /\ job[w].loops \in Nat
    BY <1>1 DEF FileJobs
  <2>2. Transfer!Smaller(job[w].loops + 1, 1) \in Nat
    BY ONLY <2>1 DEF Transfer!Smaller
  <2>3. job[w].left - n \in Int /\ (job[w].left # n => job[w].left - n > 0)
    BY ONLY <2>1, n <= job[w].left, n \in Nat \ {0}
  <2> QED BY <2>1, <2>2, <2>3
<1>4. job[w].sent \o Transfer!Part(w, n) \in Seq(Nat)
  <2>1. job[w].sent \in Seq(Nat)
    BY <1>1 DEF FileJobs
  <2> QED BY <1>2, <2>1, ConcatProperties
<1> DEFINE r == [pc |-> IF job[w].left = n THEN "close" ELSE next, left |-> job[w].left - n,
                 offset |-> job[w].offset + n, loops |-> Transfer!Smaller(job[w].loops + 1, 1),
                 sent |-> job[w].sent \o Transfer!Part(w, n)]
<1>5. PICK j : Becomes(j, r, job[w]) /\ Moves(w, j)
  BY SetBecomes DEF Transfer!Sent
<1>6. Fits(r)
  <2>1. (IF job[w].left = n THEN "close" ELSE next) \in Transfer!Steps
    BY DEF Sending, Transfer!Steps
  <2> QED BY <1>3, <1>4, <2>1 DEF Fits
<1>7. /\ j.pc = (IF job[w].left = n THEN "close" ELSE next) /\ j.left = job[w].left - n
         /\ j.fd = job[w].fd
      /\ j.status = job[w].status /\ j.alone = job[w].alone /\ j.last = job[w].last
  BY <1>5 DEF Becomes
<1>8. j \in FileJobs
  BY <1>1, <1>5, <1>6, JobFits
<1>9. Way(task[w], j)
  BY ONLY <1>1, <1>3, <1>7, next \in Sending DEF Way, Shut, Ajar, Closing, Sending
<1> QED BY <1>1, <1>5, <1>7, <1>8, <1>9, ReaderKeeps

LEMMA SendfileSomeKeeps ==
    ASSUME TransferHypothesis, TransferInv, NEW w \in Workers, Transfer!SendfileSome(w)
    PROVE  TransferInv'
<1>1. PICK n \in 1 .. Transfer!Smaller(job[w].left, Transfer!Available(w)) : Transfer!Sent(w, n, "sendfile")
  BY DEF Transfer!SendfileSome
<1>2. job[w].left \in Int /\ Transfer!Available(w) \in Nat
  <2>1. job[w].pc \in Sending /\ job[w] \in FileJobs
    BY WorkerIs DEF Transfer!SendfileSome, Sending
  <2> QED BY <2>1, AvailableIs DEF FileJobs
<1>3. n \in Nat \ {0} /\ n <= job[w].left /\ n <= Transfer!Available(w)
  BY <1>1, <1>2 DEF Transfer!Smaller
<1> QED BY <1>1, <1>3, SentKeeps DEF Transfer!SendfileSome, Sending

LEMMA CopyKeeps ==
    ASSUME TransferHypothesis, TransferInv, NEW w \in Workers, Transfer!Copy(w)
    PROVE  TransferInv'
<1>1. job[w].left \in Int /\ job[w].left > 0 /\ Transfer!Available(w) \in Nat /\ BufLen \in Nat \ {0}
  BY AvailableIs, WorkerIs, FileSorts DEF Transfer!Copy, FileJobs, Way, Sending
<1> DEFINE n == Transfer!Smaller(Transfer!Smaller(BufLen, job[w].left), Transfer!Available(w))
<1>2. CASE Transfer!Available(w) > 0 /\ Transfer!Sent(w, n, "copy")
  <2>1. n \in Nat \ {0} /\ n <= job[w].left /\ n <= Transfer!Available(w)
    BY <1>1, <1>2 DEF Transfer!Smaller
  <2> HIDE DEF n
  <2> QED BY <1>2, <2>1, SentKeeps DEF Transfer!Copy, Sending
<1>3. CASE Transfer!Set(w, [pc |-> "close"])
  BY <1>3, EndsSending DEF Transfer!Copy, Sending
<1>4. CASE Transfer!Set(w, [pc |-> "close", gone |-> TRUE])
  BY <1>4, EndsSending DEF Transfer!Copy, Sending
<1> QED BY <1>2, <1>3, <1>4 DEF Transfer!Copy

LEMMA RangeIs ==
    ASSUME NEW t \in FileTasks
    PROVE  t.range[1] \in Int /\ t.range[2] \in Int /\ t.range[3] \in Int
<1>1. PICK r \in Int \X Int \X Int : r = t.range
  BY DEF FileTasks
<1>2. r[1] \in Int /\ r[2] \in Int /\ r[3] \in Int
  OBVIOUS
<1> QED BY <1>1, <1>2

(* send_file_data begins. *)
LEMMA SendsKeeps ==
    ASSUME TransferHypothesis, TransferInv, NEW w \in Workers, job[w].pc = "header",
           NEW status \in {0, 200, 206}, NEW offset \in Nat, NEW len \in Int,
           Transfer!Sends(w, status, offset, len), UNCHANGED <<entry, data, task>>
    PROVE  TransferInv'
<1>1. /\ job[w] \in FileJobs /\ task[w] \in FileTasks /\ Way(task[w], job[w])
      /\ task[w].op \in {"GET", "HEAD", "BODY"} /\ task[w].op \notin Transfer!Writers
      /\ job[w].fd # NoFile /\ ~ job[w].last
  BY WorkerIs DEF Transfer!Writers, Way, Shut, Ajar, Closing, Sending, FileJobs, FileTasks
<1> DEFINE next == IF len <= 0 \/ task[w].op = "HEAD" THEN "close" ELSE IF Sendfile THEN "sendfile" ELSE "copy"
           there == IF offset > job[w].size THEN job[w].size ELSE offset
           r == [pc |-> next, status |-> status, cl |-> len, left |-> len, from |-> offset, offset |-> there]
<1>2. PICK j : Becomes(j, r, job[w]) /\ Moves(w, j)
  BY SetBecomes DEF Transfer!Sends
<1>3. /\ j.pc = next /\ j.left = len /\ j.fd = job[w].fd
      /\ j.status = status /\ j.alone = job[w].alone /\ j.last = job[w].last
  BY <1>2 DEF Becomes
<1>4. next \in {"sendfile", "copy", "close"} /\ (next \in Sending => len > 0)
  BY DEF Sending
<1>5. there \in Nat
  BY <1>1 DEF FileJobs
<1> HIDE DEF next, there
<1>6. Fits(r)
  <2>1. next \in Transfer!Steps
    BY <1>4 DEF Transfer!Steps
  <2> QED BY <1>5, <2>1 DEF Fits
<1>7. j \in FileJobs
  BY <1>1, <1>2, <1>6, JobFits
<1>8. Way(task[w], j)
  BY ONLY <1>1, <1>3, <1>4, status \in {0, 200, 206}, len \in Int DEF Way, Shut, Ajar,
       Closing, Sending
<1> QED BY <1>1, <1>2, <1>3, <1>7, <1>8, ReaderKeeps

LEMMA HeaderKeeps ==
    ASSUME TransferHypothesis, TransferInv, NEW w \in Workers, Transfer!Header(w)
    PROVE  TransferInv'
<1>1. /\ job[w] \in FileJobs /\ task[w] \in FileTasks /\ job[w].pc = "header"
      /\ UNCHANGED <<entry, data, task>> /\ task[w].op \in {"GET", "HEAD"}
      /\ task[w].op \notin Transfer!Writers
  BY WorkerIs DEF Transfer!Header, Transfer!At, Transfer!Reads, Transfer!Writers
<1>2. CASE Transfer!RangeOK(w) /\ Transfer!Sends(w, 206, task[w].range[2], Transfer!RangeLength(w))
  <2>1. task[w].range[2] \in Nat /\ task[w].range[3] \in Int
    <3>1. task[w].range[2] \in Int /\ task[w].range[3] \in Int
      BY <1>1, RangeIs
    <3>2. task[w].range[2] >= 0
      BY <1>2 DEF Transfer!RangeOK
    <3> QED BY ONLY <3>1, <3>2
  <2>2. Transfer!RangeLength(w) \in Int
    <3>1. job[w].cl \in Int
      BY <1>1 DEF FileJobs
    <3> QED BY <2>1, <3>1 DEF Transfer!RangeLength, Transfer!Smaller
  <2> QED BY <1>1, <1>2, <2>1, <2>2, SendsKeeps
<1>3. CASE Transfer!Sends(w, 200, 0, job[w].cl)
  <2>1. job[w].cl \in Int /\ 0 \in Nat
    BY <1>1 DEF FileJobs
  <2> QED BY <1>1, <1>3, <2>1, SendsKeeps
<1>4. CASE Transfer!Set(w, [pc |-> "close", status |-> 416])
  <2>1. PICK j : Becomes(j, [pc |-> "close", status |-> 416], job[w]) /\ Moves(w, j)
    BY <1>4, SetBecomes
  <2>2. Fits([pc |-> "close", status |-> 416])
    BY DEF Fits, Transfer!Steps
  <2>3. /\ j.pc = "close" /\ j.fd = job[w].fd /\ j.status = 416
        /\ j.alone = job[w].alone /\ j.last = job[w].last
    BY <2>1 DEF Becomes
  <2>4. j \in FileJobs
    BY <1>1, <2>1, <2>2, JobFits
  <2>5. ~ job[w].last /\ job[w].fd # NoFile
    BY <1>1, WorkerIs DEF Way, Ajar
  <2>6. Way(task[w], j)
    BY ONLY <1>1, <2>3, <2>5 DEF Way, Shut, Ajar, Closing, Sending
  <2> QED BY <1>1, <2>1, <2>3, <2>4, <2>6, ReaderKeeps
<1> QED BY <1>2, <1>3, <1>4 DEF Transfer!Header

LEMMA BodyKeeps ==
    ASSUME TransferHypothesis, TransferInv, NEW w \in Workers, Transfer!Body(w)
    PROVE  TransferInv'
<1>1. /\ job[w].pc = "header" /\ UNCHANGED <<entry, data, task>> /\ Transfer!Sends(w, 0, 0, Everything)
  BY DEF Transfer!Body, Transfer!At
<1>2. Everything \in Int /\ 0 \in Nat
  BY FileSorts
<1> QED BY <1>1, <1>2, SendsKeeps

-----------------------------------------------------------------------------
LEMMA WriterIs ==
    ASSUME TransferInv, NEW w \in Workers, task[w].op \in Transfer!Writers
    PROVE  /\ job[w] \in FileJobs /\ task[w] \in FileTasks
           /\ Way(task[w], job[w]) /\ Got(task[w], job[w])
           /\ job[w].body \in Seq(Nat) /\ job[w].pending \in Seq(Nat) /\ job[w].offset \in Nat
           /\ job[w].status \in Int /\ job[w].status >= -14 /\ task[w].body \in Seq(Nat)
           /\ entry \in [Transfer!Names -> Transfer!Inodes \cup {NoFile}]
           /\ data \in [Transfer!Inodes -> Seq(Nat)]
           /\ job[w].alone /\ job[w].last => Stored(task[w], job[w], entry, data)
BY DEF TransferInv, TransferTyped, FileJobs, FileTasks, Way

(* A request that does not get as far as to have the file open. *)
LEMMA BeginFileKeeps ==
    ASSUME TransferInv, NEW w \in Workers, task[w].op \in Transfer!Writers, job[w].pc \in {"start", "open"},
           UNCHANGED <<entry, data, task>>, NEW r,
           Transfer!Set(w, r), r = [pc |-> "open"] \/ (\E s \in Int : s >= -14 /\ r = [pc |-> "open", status |-> s])
               \/ (\E s \in Int \ {100, 200} : s >= -14 /\ r = [pc |-> "done", status |-> s])
    PROVE  TransferInv'
<1>1. /\ job[w] \in FileJobs /\ task[w] \in FileTasks /\ Way(task[w], job[w]) /\ Got(task[w], job[w])
      /\ job[w].status \in Int /\ job[w].status >= -14
      /\ entry \in [Transfer!Names -> Transfer!Inodes \cup {NoFile}]
      /\ data \in [Transfer!Inodes -> Seq(Nat)]
  BY WriterIs
<1>2. PICK j : Becomes(j, r, job[w]) /\ Moves(w, j)
  BY SetBecomes
<1>3. Fits(r)
  <2>1. CASE r = [pc |-> "open"]
    BY <2>1 DEF Fits, Transfer!Steps
  <2>2. CASE \E s \in Int : r = [pc |-> "open", status |-> s]
    BY <2>2 DEF Fits, Transfer!Steps
  <2>3. CASE \E s \in Int : r = [pc |-> "done", status |-> s]
    BY <2>3 DEF Fits, Transfer!Steps
  <2> QED BY <2>1, <2>2, <2>3
<1>4. j \in FileJobs
  BY <1>1, <1>2, <1>3, JobFits
<1>5. /\ j.fd = job[w].fd /\ j.alone = job[w].alone /\ j.last = job[w].last
      /\ j.body = job[w].body /\ j.pending = job[w].pending /\ j.offset = job[w].offset
  <2>1. DOMAIN r = {"pc"} \/ DOMAIN r = {"pc", "status"}
    OBVIOUS
  <2> QED BY <1>2, <2>1 DEF Becomes
<1>6. j.status \in Int /\ j.status >= -14 /\ (j.pc = "open" \/ (j.pc = "done" /\ j.status \notin {100, 200}))
  <2>1. CASE r = [pc |-> "open"]
    <3>1. j.pc = "open" /\ j.status = job[w].status
      BY <1>2, <2>1 DEF Becomes
    <3> QED BY <1>1, <3>1
  <2>2. CASE \E s \in Int : s >= -14 /\ r = [pc |-> "open", status |-> s]
    BY <1>2, <2>2 DEF Becomes
  <2>3. CASE \E s \in Int \ {100, 200} : s >= -14 /\ r = [pc |-> "done", status |-> s]
    BY <1>2, <2>3 DEF Becomes
  <2> QED BY <2>1, <2>2, <2>3
<1>7. ~ j.last /\ j.fd = NoFile
  BY <1>1, <1>5 DEF Way, Shut
<1>8. Way(task[w], j)
  BY ONLY <1>6, <1>7, task[w].op \in Transfer!Writers DEF Way, Shut, Ajar, Closing, Sending,
       Transfer!Writers
<1>9. Got(task[w], j)
  <2>1. job[w].body = <<>> /\ job[w].pending = <<>> /\ job[w].offset = 0
    BY <1>1 DEF Got
  <2> QED BY ONLY <1>5, <1>6, <2>1 DEF Got, Closing
<1> QED BY <1>1, <1>2, <1>4, <1>5, <1>7, <1>8, <1>9, OneTransfer

LEMMA PutKeeps ==
    ASSUME TransferHypothesis, TransferInv, NEW w \in Workers, Transfer!Put(w)
    PROVE  TransferInv'
<1>1. /\ task[w].op \in Transfer!Writers /\ job[w].pc \in {"start", "open"}
      /\ UNCHANGED <<entry, data, task>>
  BY DEF Transfer!Put, Transfer!At, Transfer!Writers
<1>2. task[w].dirs \in {"made", "directory", "too long", "failed"}
  BY <1>1, WriterIs DEF FileTasks
<1>3. Transfer!PutDir(w) \in {1, 0, -1, -2}
  BY <1>2 DEF Transfer!PutDir
<1>4. \/ Transfer!Set(w, [pc |-> "open", status |-> 200])
      \/ Transfer!Set(w, [pc |-> "open", status |-> 201])
      \/ Transfer!Set(w, [pc |-> "done", status |-> 403])
      \/ Transfer!Set(w, [pc |-> "done", status |-> 201])
      \/ Transfer!Set(w, [pc |-> "done", status |-> 414])
      \/ Transfer!Set(w, [pc |-> "done", status |-> 500])
  BY <1>3 DEF Transfer!Put, Transfer!Ends
<1> QED BY <1>1, <1>4, BeginFileKeeps

LEMMA StoreKeeps ==
    ASSUME TransferHypothesis, TransferInv, NEW w \in Workers, Transfer!Store(w)
    PROVE  TransferInv'
<1>1. /\ task[w].op \in Transfer!Writers /\ job[w].pc \in {"start", "open"}
      /\ UNCHANGED <<entry, data, task>>
  BY DEF Transfer!Store, Transfer!At, Transfer!Writers
<1>2. task[w].dirs \in {"made", "directory", "too long", "failed"}
  BY <1>1, WriterIs DEF FileTasks
<1>3. Transfer!PutDir(w) \in {1, 0, -1, -2}
  BY <1>2 DEF Transfer!PutDir
<1>4. CASE Transfer!Set(w, [pc |-> "open"])
  BY <1>1, <1>4, BeginFileKeeps
<1>5. CASE Transfer!Set(w, [pc |-> "done", status |-> Transfer!PutDir(w)])
  <2> DEFINE s == Transfer!PutDir(w)
  <2>1. s \in Int \ {100, 200} /\ s >= -14
    BY <1>3
  <2> HIDE DEF s
  <2> QED BY <1>1, <1>5, <2>1, BeginFileKeeps DEF s
<1> QED BY <1>4, <1>5 DEF Transfer!Store, Transfer!Ends

(* fopen for writing. *)
LEMMA OpenWriteKeeps ==
    ASSUME TransferHypothesis, TransferInv, NEW w \in Workers, Transfer!OpenWrite(w)
    PROVE  TransferInv'
<1>1. /\ task[w].op \in Transfer!Writers /\ job[w].pc = "open" /\ task' = task
  BY DEF Transfer!OpenWrite, Transfer!At
<1>2. /\ job[w] \in FileJobs /\ Way(task[w], job[w]) /\ Got(task[w], job[w])
      /\ entry \in [Transfer!Names -> Transfer!Inodes \cup {NoFile}]
      /\ data \in [Transfer!Inodes -> Seq(Nat)]
      /\ job \in [Workers -> FileJobs] /\ job[w].body \in Seq(Nat) /\ job[w].pending \in Seq(Nat)
  BY <1>1, WriterIs DEF TransferInv, TransferTyped
<1>3. job[w].body = <<>> /\ job[w].pending = <<>> /\ job[w].offset = 0
  BY <1>1, <1>2 DEF Got
<1> DEFINE inode == IF Transfer!Exists("plain") THEN entry["plain"] ELSE w
           others == {v \in Workers \ {w} : Transfer!HasOpen(v)}
           mine == [job[w] EXCEPT !.pc = IF task[w].op = "PUT" THEN "seek" ELSE "receive",
                                  !.fd = inode, !.alone = (others = {}), !.last = TRUE]
           theirs(v) == [job[v] EXCEPT !.alone = @ /\ v \notin others, !.last = FALSE]
<1>4. CASE /\ entry' = [entry EXCEPT !["plain"] = inode]
           /\ data' = [data EXCEPT ![inode] = <<>>]
           /\ job' = [v \in Workers |-> IF v = w THEN mine ELSE theirs(v)]
  <2>1. inode \in Transfer!Inodes /\ inode # NoFile
    BY <1>2, FileSorts, EntryIs DEF Transfer!Exists, Transfer!Inodes
  <2>2. others = {} \/ others # {}
    OBVIOUS
  <2> HIDE DEF inode, others
  <2>3. /\ job'[w] = mine /\ mine \in FileJobs
        /\ mine.pc = (IF task[w].op = "PUT" THEN "seek" ELSE "receive") /\ mine.fd = inode
        /\ mine.alone = (others = {}) /\ mine.last = TRUE /\ mine.status = job[w].status
        /\ mine.body = <<>> /\ mine.pending = <<>> /\ mine.offset = 0
    <3>1. (others = {}) \in BOOLEAN
      OBVIOUS
    <3>2. PICK b \in BOOLEAN : b = (others = {})
      BY <3>1
    <3>3. PICK p \in {"seek", "receive"} : p = IF task[w].op = "PUT" THEN "seek" ELSE "receive"
      OBVIOUS
    <3>4. mine = [job[w] EXCEPT !.pc = p, !.fd = inode, !.alone = b, !.last = TRUE]
      BY <3>2, <3>3
    <3> HIDE DEF mine
    <3>5. mine \in FileJobs /\ mine.pc = p /\ mine.fd = inode /\ mine.alone = b /\ mine.last = TRUE
          /\ mine.status = job[w].status /\ mine.body = job[w].body
          /\ mine.pending = job[w].pending /\ mine.offset = job[w].offset
      BY <1>2, <2>1, <3>4 DEF FileJobs, Transfer!Steps
    <3> QED BY <1>3, <1>4, <3>2, <3>3, <3>5
  <2>4. ASSUME NEW v \in Workers, v # w
        PROVE  /\ job'[v] \in FileJobs /\ job'[v].last = FALSE /\ job'[v].pc = job[v].pc
               /\ job'[v].fd = job[v].fd /\ job'[v].status = job[v].status /\ job'[v].left = job[v].left
               /\ job'[v].body = job[v].body /\ job'[v].pending = job[v].pending
               /\ job'[v].offset = job[v].offset
    <3>1. job[v] \in FileJobs
      BY <1>2
    <3>2. PICK b \in BOOLEAN : b = (job[v].alone /\ v \notin others)
      BY <3>1, AndBoolean DEF FileJobs
    <3>3. job'[v] = [job[v] EXCEPT !.alone = b, !.last = FALSE]
      BY <1>4, <2>4, <3>2
    <3> QED BY ZenonT(40), <3>1, <3>3 DEF FileJobs
  <2> HIDE DEF mine, theirs
  <2>5. job' = [v \in Workers |-> job'[v]]
    BY <1>4
  <2>6. job' \in [Workers -> FileJobs]
    BY <2>3, <2>4, <2>5
  <2>7. /\ entry' \in [Transfer!Names -> Transfer!Inodes \cup {NoFile}] /\ entry'["plain"] = inode
        /\ data' \in [Transfer!Inodes -> Seq(Nat)] /\ data'[inode] = <<>>
    <3>1. <<>> \in Seq(Nat)
      OBVIOUS
    <3> QED BY <1>2, <1>4, <2>1, <3>1, FileSorts
  <2>8. TransferTyped'
    BY <1>1, <2>6, <2>7 DEF TransferInv, TransferTyped
  <2>9. ASSUME NEW v \in Workers PROVE Way(task'[v], job'[v]) /\ Got(task'[v], job'[v])
    <3>1. CASE v = w
      <4>1. job[w].status \in Int /\ job[w].status >= -14 /\ task[w].body \in Seq(Nat)
        BY <1>1, WriterIs
      <4>2. PICK k : k = job'[w]
        OBVIOUS
      <4>3. /\ k.pc = (IF task[w].op = "PUT" THEN "seek" ELSE "receive") /\ k.fd # NoFile
            /\ k.last /\ k.status = job[w].status /\ k.body = <<>> /\ k.pending = <<>> /\ k.offset = 0
        BY <2>1, <2>3, <4>2
      <4>4. Way(task[w], k)
        BY ONLY <1>1, <4>1, <4>3 DEF Way, Shut, Ajar, Closing, Sending, Transfer!Writers
      <4>5. Got(task[w], k)
        BY ONLY <1>1, <4>3 DEF Got, Place, Closing, Transfer!Writers
      <4> QED BY <1>1, <3>1, <4>2, <4>4, <4>5
    <3>2. CASE v # w
      <4>1. Way(task[v], job[v]) /\ Got(task[v], job[v])
        BY DEF TransferInv
      <4>2. Way(task[v], job'[v])
        BY <2>4, <3>2, <4>1 DEF Way
      <4>3. Got(task[v], job'[v])
        BY <2>4, <3>2, <4>1 DEF Got
      <4> QED BY <1>1, <4>2, <4>3
    <3> QED BY <3>1, <3>2
  <2>10. ASSUME NEW u \in Workers, job'[u].alone, job'[u].last
         PROVE  /\ \A v \in Workers \ {u} : ~ (job'[v].fd # NoFile /\ task'[v].op \in Transfer!Writers)
                /\ Stored(task'[u], job'[u], entry', data')
    <3>1. u = w
      BY <2>4, <2>10
    <3>2. others = {}
      BY <2>3, <2>10, <3>1
    <3>3. \A v \in Workers \ {w} : ~ Transfer!HasOpen(v)
      BY <3>2 DEF others
    <3>4. \A v \in Workers \ {w} : ~ (job'[v].fd # NoFile /\ task'[v].op \in Transfer!Writers)
      BY <1>1, <2>4, <3>3 DEF Transfer!HasOpen
    <3>5. PICK k : k = job'[w]
      OBVIOUS
    <3>6. /\ k.pc \in {"seek", "receive"} /\ k.fd = inode /\ k.body = <<>> /\ k.pending = <<>>
      BY <2>3, <3>5
    <3>7. Stored(task[w], k, entry', data')
      <4>1. Transfer!Written(data'[inode], k.offset, k.pending) = <<>>
        BY <2>7, <3>6 DEF Transfer!Written
      <4>2. Transfer!Written(<<>>, Place(task[w]), k.body) = <<>>
        BY <3>6 DEF Transfer!Written
      <4> QED BY <2>7, <3>6, <4>1, <4>2 DEF Stored
    <3> QED BY <1>1, <3>1, <3>4, <3>5, <3>7
  <2>11. (\A v \in Workers : Way(task[v], job[v]) /\ Got(task[v], job[v]))'
    BY <2>9 DEF Way, Got, Place, Shut, Ajar, Closing, Sending, Transfer!Writers
  <2>12. (\A u \in Workers : job[u].alone /\ job[u].last =>
           /\ \A v \in Workers \ {u} : ~ Transfer!HasOpen(v)
           /\ Stored(task[u], job[u], entry, data))'
    BY <2>10 DEF Transfer!HasOpen, Stored, Place, Ajar, Transfer!Writers, Transfer!Written,
         Transfer!Larger
  <2> QED BY <2>8, <2>11, <2>12 DEF TransferInv
<1>5. CASE Transfer!Ends(w, IF task[w].op = "PUT" THEN 500 ELSE -12) /\ UNCHANGED <<entry, data>>
  <2>1. PICK s \in Int \ {100, 200} : s = (IF task[w].op = "PUT" THEN 500 ELSE -12) /\ s >= -14
    OBVIOUS
  <2>2. Transfer!Set(w, [pc |-> "done", status |-> s])
    BY <1>5, <2>1 DEF Transfer!Ends
  <2>3. UNCHANGED <<entry, data, task>> /\ job[w].pc \in {"start", "open"}
    BY <1>1, <1>5
  <2> QED BY <1>1, <2>1, <2>2, <2>3, BeginFileKeeps
<1> QED BY <1>4, <1>5 DEF Transfer!OpenWrite

(* A step of a writer that has the file open, and goes on with it. *)
LEMMA WriterKeeps ==
    ASSUME TransferHypothesis, TransferInv, NEW w \in Workers, task[w].op \in Transfer!Writers,
           job[w].pc \in Ajar, NEW r, NEW j, Becomes(j, r, job[w]), Moves(w, j), Fits(r),
           task' = task, j.alone = job[w].alone, j.last = job[w].last,
           Way(task[w], j), Got(task[w], j),
           entry' \in [Transfer!Names -> Transfer!Inodes \cup {NoFile}],
           data' \in [Transfer!Inodes -> Seq(Nat)],
           j.alone /\ j.last /\ Stored(task[w], job[w], entry, data) => Stored(task[w], j, entry', data')
    PROVE  TransferInv'
<1>1. job[w] \in FileJobs /\ job[w].fd # NoFile /\ Transfer!HasOpen(w)
      /\ (job[w].alone /\ job[w].last => Stored(task[w], job[w], entry, data))
  BY WriterIs DEF Way, Transfer!HasOpen
<1>2. j \in FileJobs
  BY <1>1, JobFits
<1>3. (entry' = entry /\ data' = data) \/ Transfer!HasOpen(w)
  BY <1>1
<1>4. j.alone /\ j.last => Stored(task[w], j, entry', data')
  BY <1>1
<1> QED BY ONLY TransferInv, w \in Workers, Way(task[w], j), Got(task[w], j), <1>1, <1>2,
     <1>3, <1>4, OneTransfer,
       Moves(w, j), task' = task, j.alone = job[w].alone, j.last = job[w].last,
       entry' \in [Transfer!Names -> Transfer!Inodes \cup {NoFile}], data' \in [Transfer!Inodes -> Seq(Nat)]

LEMMA SeekKeeps ==
    ASSUME TransferHypothesis, TransferInv, NEW w \in Workers, Transfer!Seek(w)
    PROVE  TransferInv'
<1>1. task[w].op = "PUT" /\ job[w].pc = "seek" /\ UNCHANGED <<entry, data, task>>
  BY WorkerIs DEF Transfer!Seek, Way, Shut, Closing, FileTasks
<1>2. task[w].op \in Transfer!Writers /\ job[w].pc \in Ajar
  BY <1>1 DEF Transfer!Writers, Ajar
<1>3. /\ task[w] \in FileTasks /\ Way(task[w], job[w]) /\ job[w].fd # NoFile
      /\ job[w].body = <<>> /\ job[w].pending = <<>> /\ job[w].offset = 0 /\ job[w].status \in Int
      /\ job[w].status >= -14
      /\ entry \in [Transfer!Names -> Transfer!Inodes \cup {NoFile}]
      /\ data \in [Transfer!Inodes -> Seq(Nat)]
  BY <1>1, <1>2, WriterIs DEF Got, Way, Ajar
<1>4. task[w].range[1] \in Int /\ task[w].range[2] \in Int
  BY <1>3, RangeIs
<1>5. Stored(task[w], job[w], entry, data) => entry["plain"] = job[w].fd /\ data[job[w].fd] = <<>>
  BY <1>2, <1>3 DEF Stored, Transfer!Written
<1>6. ASSUME NEW j, j.pc = "forward", j.fd = job[w].fd, j.body = <<>>, j.pending = <<>>,
             j.alone = job[w].alone, j.last = job[w].last,
             j.status \in Int, j.status >= -14, j.offset = Place(task[w])
      PROVE  /\ Way(task[w], j) /\ Got(task[w], j)
             /\ Stored(task[w], job[w], entry, data) => Stored(task[w], j, entry, data)
  <2>1. Way(task[w], j)
    BY ONLY <1>1, <1>3, <1>6 DEF Way, Shut, Ajar, Closing, Sending, Transfer!Writers
  <2>2. Got(task[w], j)
    BY ONLY <1>1, <1>6 DEF Got, Closing
  <2>3. Stored(task[w], job[w], entry, data) => Stored(task[w], j, entry, data)
    BY ONLY <1>1, <1>5, <1>6 DEF Stored, Ajar, Transfer!Written
  <2> QED BY <2>1, <2>2, <2>3
<1>7. CASE ~ Transfer!HasRange(w) /\ Transfer!Set(w, [pc |-> "forward"])
  <2>1. PICK j : Becomes(j, [pc |-> "forward"], job[w]) /\ Moves(w, j)
    BY <1>7, SetBecomes
  <2>2. /\ j.pc = "forward" /\ j.fd = job[w].fd /\ j.body = job[w].body /\ j.pending = job[w].pending
        /\ j.alone = job[w].alone /\ j.last = job[w].last /\ j.status = job[w].status
        /\ j.offset = job[w].offset
    BY <2>1 DEF Becomes
  <2>3. Fits([pc |-> "forward"])
    BY DEF Fits, Transfer!Steps
  <2>4. Place(task[w]) = 0
    BY <1>7 DEF Place, Transfer!HasRange
  <2>5. /\ Way(task[w], j) /\ Got(task[w], j)
        /\ Stored(task[w], job[w], entry, data) => Stored(task[w], j, entry, data)
    BY <1>3, <1>6, <2>2, <2>4
  <2> QED BY <1>1, <1>2, <1>3, <2>1, <2>2, <2>3, <2>5, WriterKeeps
<1>8. CASE /\ Transfer!HasRange(w) /\ task[w].range[2] >= 0
           /\ Transfer!Set(w, [pc |-> "forward", status |-> 206, offset |-> task[w].range[2]])
  <2> DEFINE r == [pc |-> "forward", status |-> 206, offset |-> task[w].range[2]]
  <2>1. PICK j : Becomes(j, r, job[w]) /\ Moves(w, j)
    BY <1>8, SetBecomes
  <2>2. /\ j.pc = "forward" /\ j.fd = job[w].fd /\ j.body = job[w].body /\ j.pending = job[w].pending
        /\ j.alone = job[w].alone /\ j.last = job[w].last /\ j.status = 206
        /\ j.offset = task[w].range[2]
    BY <2>1 DEF Becomes
  <2>3. Fits(r)
    <3>1. task[w].range[2] \in Nat
      BY <1>4, <1>8
    <3> QED BY <3>1 DEF Fits, Transfer!Steps
  <2>4. Place(task[w]) = task[w].range[2]
    BY <1>1, <1>8 DEF Place, Transfer!HasRange
  <2>5. /\ Way(task[w], j) /\ Got(task[w], j)
        /\ Stored(task[w], job[w], entry, data) => Stored(task[w], j, entry, data)
    BY <1>3, <1>6, <2>2, <2>4
  <2> QED BY <1>1, <1>2, <1>3, <2>1, <2>2, <2>3, <2>5, WriterKeeps
<1>9. CASE /\ Transfer!HasRange(w) /\ ~ (task[w].range[2] >= 0)
           /\ Transfer!Set(w, [pc |-> "done", status |-> 500])
  <2> DEFINE r == [pc |-> "done", status |-> 500]
  <2>1. PICK j : Becomes(j, r, job[w]) /\ Moves(w, j)
    BY <1>9, SetBecomes
  <2>2. /\ j.pc = "done" /\ j.fd = job[w].fd
        /\ j.alone = job[w].alone /\ j.last = job[w].last /\ j.status = 500
    BY <2>1 DEF Becomes
  <2>3. Fits(r)
    BY DEF Fits, Transfer!Steps
  <2>4. task[w].range[1] > 0 /\ task[w].range[2] < 0
    BY <1>4, <1>9 DEF Transfer!HasRange
  <2>5. Way(task[w], j)
    BY ONLY <1>1, <2>2, <2>4 DEF Way, Shut, Ajar, Closing, Sending, Transfer!Writers
  <2>6. Got(task[w], j)
    BY ONLY <1>1, <2>2 DEF Got, Closing
  <2>7. Stored(task[w], job[w], entry, data) => Stored(task[w], j, entry, data)
    BY ONLY <1>1, <2>2 DEF Stored, Ajar
  <2>8. entry' = entry /\ data' = data /\ task' = task
    BY <1>1
  <2>9. j.alone /\ j.last /\ Stored(task[w], job[w], entry, data) => Stored(task[w], j, entry', data')
    BY <2>7, <2>8
  <2>10. /\ entry' \in [Transfer!Names -> Transfer!Inodes \cup {NoFile}]
         /\ data' \in [Transfer!Inodes -> Seq(Nat)]
    BY <1>3, <2>8
  <2>11. j.alone = job[w].alone /\ j.last = job[w].last
    BY <2>2
  <2> HIDE DEF r
  <2> QED BY ONLY TransferHypothesis, TransferInv, w \in Workers, <1>2, <2>1, <2>3, <2>5,
       <2>6, <2>8, <2>9, <2>10, <2>11, WriterKeeps
<1> QED BY <1>1, <1>7, <1>8, <1>9 DEF Transfer!Seek, Transfer!Ends

LEMMA ForwardBodyKeeps ==
    ASSUME TransferHypothesis, TransferInv, NEW w \in Workers, Transfer!Forward(w)
    PROVE  TransferInv'
<1>1. task[w].op = "PUT" /\ job[w].pc = "forward" /\ UNCHANGED <<entry, data, task>>
  BY WorkerIs DEF Transfer!Forward, Way, Shut, Closing, FileTasks
<1>2. task[w].op \in Transfer!Writers /\ job[w].pc \in Ajar
  BY <1>1 DEF Transfer!Writers, Ajar
<1>3. /\ task[w] \in FileTasks /\ Way(task[w], job[w]) /\ job[w].fd # NoFile
      /\ task[w].body \in Seq(Nat)
      /\ job[w].body = <<>> /\ job[w].pending = <<>> /\ job[w].offset = Place(task[w])
      /\ job[w].offset \in Nat
      /\ entry \in [Transfer!Names -> Transfer!Inodes \cup {NoFile}]
      /\ data \in [Transfer!Inodes -> Seq(Nat)]
  BY <1>1, <1>2, WriterIs DEF Got, Way, Ajar
<1>4. PICK p \in {"close", "receive"}, s \in {417, 100, 200} :
        Transfer!Set(w, [pc |-> p, status |-> s]) /\ (p = "close" => s = 417)
  BY DEF Transfer!Forward
<1>5. PICK j : Becomes(j, [pc |-> p, status |-> s], job[w]) /\ Moves(w, j)
  BY <1>4, SetBecomes
<1>6. /\ j.pc = p /\ j.fd = job[w].fd /\ j.body = <<>> /\ j.pending = <<>>
      /\ j.alone = job[w].alone /\ j.last = job[w].last /\ j.status = s /\ j.offset = Place(task[w])
  BY <1>3, <1>5 DEF Becomes
<1>7. Fits([pc |-> p, status |-> s])
  BY DEF Fits, Transfer!Steps
<1>8. Way(task[w], j)
  BY ONLY <1>1, <1>3, <1>4, <1>6 DEF Way, Shut, Ajar, Closing, Sending, Transfer!Writers
<1>9. Got(task[w], j)
  <2>1. Place(task[w]) \in Nat /\ Len(<<>>) = 0 /\ Len(task[w].body) \in Nat
    BY <1>3
  <2>2. SubSeq(task[w].body, 1, 0) = <<>>
    BY <1>3, SubSeqEmpty
  <2> QED BY ONLY <1>1, <1>4, <1>6, <2>1, <2>2 DEF Got, Closing
<1>10. Stored(task[w], job[w], entry, data) => Stored(task[w], j, entry, data)
  <2>1. Stored(task[w], job[w], entry, data) => entry["plain"] = job[w].fd /\ data[job[w].fd] = <<>>
    BY <1>2, <1>3 DEF Stored, Transfer!Written
  <2> QED BY ONLY <1>1, <1>4, <1>6, <2>1 DEF Stored, Ajar, Transfer!Written
<1> QED BY <1>1, <1>2, <1>3, <1>5, <1>6, <1>7, <1>8, <1>9, <1>10, WriterKeeps

(* What a writer knows that takes in its body or is about to close. *)
LEMMA WriterHas ==
    ASSUME TransferHypothesis, TransferInv, NEW w \in Workers, task[w].op \in Transfer!Writers,
           job[w].pc \in {"receive", "close"}
    PROVE  /\ job[w].pc \in Ajar /\ job[w].fd \in Transfer!Inodes /\ job[w].fd # NoFile
           /\ data[job[w].fd] \in Seq(Nat)
           /\ Stored(task[w], job[w], entry, data) =>
                /\ entry["plain"] = job[w].fd
                /\ Transfer!Written(data[job[w].fd], job[w].offset, job[w].pending)
                     = Transfer!Written(<<>>, Place(task[w]), job[w].body)
           /\ Transfer!Written(data[job[w].fd], job[w].offset, job[w].pending) \in Seq(Nat)
<1>1. job[w].pc \in Ajar
  BY DEF Ajar
<1>2. job[w].fd \in Transfer!Inodes /\ job[w].fd # NoFile
  BY <1>1, WriterIs DEF Way, FileJobs
<1>3. data[job[w].fd] \in Seq(Nat) /\ job[w].offset \in Nat /\ job[w].pending \in Seq(Nat)
  BY <1>2, WriterIs
<1>4. Transfer!Written(data[job[w].fd], job[w].offset, job[w].pending) \in Seq(Nat)
  BY <1>3, WrittenSeq
<1> QED BY <1>1, <1>2, <1>3, <1>4 DEF Stored

LEMMA ReceiveKeeps ==
    ASSUME TransferHypothesis, TransferInv, NEW w \in Workers, Transfer!Receive(w)
    PROVE  TransferInv'
<1>1. task[w].op \in Transfer!Writers /\ job[w].pc = "receive" /\ UNCHANGED <<entry, data, task>>
  BY WorkerIs DEF Transfer!Receive, Way, Shut, Closing, FileTasks, Transfer!Writers
<1>2. /\ task[w] \in FileTasks /\ Way(task[w], job[w]) /\ Got(task[w], job[w]) /\ job[w].fd # NoFile
      /\ job[w].body \in Seq(Nat) /\ job[w].pending \in Seq(Nat) /\ job[w].offset \in Nat
      /\ task[w].body \in Seq(Nat)
      /\ entry \in [Transfer!Names -> Transfer!Inodes \cup {NoFile}]
      /\ data \in [Transfer!Inodes -> Seq(Nat)]
  BY <1>1, WriterIs DEF Way, Ajar
<1>3. PICK B \in Nat, T \in Nat : B = Len(job[w].body) /\ T = Len(task[w].body)
  <2>1. job[w].body \in Seq(Nat) /\ task[w].body \in Seq(Nat)
    BY <1>2
  <2> QED BY ONLY <2>1, LenProperties
<1>4. PICK n \in 1 .. Transfer!Smaller(BufLen, T - B) :
        LET s == SubSeq(task[w].body, B + 1, B + n)
        IN  Transfer!Set(w, [body |-> job[w].body \o s, pending |-> job[w].pending \o s])
  BY <1>3 DEF Transfer!Receive, Transfer!Remaining
<1>5. n \in Nat \ {0} /\ B + n <= T
  <2>1. n \in 1 .. Transfer!Smaller(BufLen, T - B) /\ BufLen \in Nat
    BY <1>4, FileSorts
  <2> QED BY ONLY <2>1, B \in Nat, T \in Nat DEF Transfer!Smaller
<1>6. PICK s : s = SubSeq(task[w].body, B + 1, B + n)
  OBVIOUS
<1>7. s \in Seq(Nat) /\ Len(s) = n
  <2>1. B \in Nat /\ B + n \in Nat /\ B <= B + n /\ B + n <= Len(task[w].body) /\ (B + n) - B = n
    BY <1>3, <1>5
  <2> QED BY <1>2, <1>6, <2>1, PieceIs
<1>8. PICK b : b = job[w].body \o s
  OBVIOUS
<1>9. PICK p : p = job[w].pending \o s
  OBVIOUS
<1>10. b \in Seq(Nat) /\ Len(b) = B + n
  BY ONLY <1>2, <1>3, <1>7, <1>8, ConcatProperties
<1>11. p \in Seq(Nat) /\ Len(p) = Len(job[w].pending) + n /\ Len(job[w].pending) \in Nat
  BY ONLY <1>2, <1>7, <1>9, ConcatProperties, LenProperties
<1>12. PICK j : Becomes(j, [body |-> b, pending |-> p], job[w]) /\ Moves(w, j)
  BY <1>4, <1>6, <1>8, <1>9, SetBecomes
<1>13. /\ j.pc = job[w].pc /\ j.fd = job[w].fd /\ j.body = b /\ j.pending = p
       /\ j.alone = job[w].alone /\ j.last = job[w].last /\ j.status = job[w].status
       /\ j.offset = job[w].offset
       /\ j.left = job[w].left
  BY <1>12 DEF Becomes
<1>14. Fits([body |-> b, pending |-> p])
  BY <1>10, <1>11 DEF Fits
<1>15. Way(task[w], j)
  BY <1>2, <1>13 DEF Way
<1>16. job[w].offset + Len(job[w].pending) = Place(task[w]) + B /\ Place(task[w]) >= 0
  BY <1>1, <1>2, <1>3 DEF Got
<1>17. Place(task[w]) \in Int
  BY <1>2, RangeIs DEF Place
<1>18. Got(task[w], j)
  <2>1. j.offset + Len(j.pending) = Place(task[w]) + Len(j.body)
    <3>1. j.offset = job[w].offset /\ Len(j.pending) = Len(job[w].pending) + n /\ Len(j.body) = B + n
      BY <1>10, <1>11, <1>13
    <3>2. job[w].offset \in Nat /\ Len(job[w].pending) \in Nat
      BY <1>2, <1>11
    <3>3. PICK L \in Nat, O \in Nat, P \in Int : L = Len(job[w].pending) /\ O = job[w].offset
          /\ P = Place(task[w])
      BY <1>17, <3>2
    <3>4. O + L = P + B
      BY <1>16, <3>3
    <3>5. O + (L + n) = P + (B + n)
      BY ONLY <1>5, <3>4, B \in Nat, L \in Nat, O \in Nat, P \in Int
    <3> QED BY ONLY <3>1, <3>3, <3>5
  <2>2. ASSUME task[w].op = "PUT" PROVE Len(b) <= Len(task[w].body)
        /\ b = SubSeq(task[w].body, 1, Len(b))
    <3>1. job[w].body = SubSeq(task[w].body, 1, B)
      BY <1>1, <1>2, <1>3, <2>2 DEF Got
    <3>2. PICK t \in Seq(Nat) : t = task[w].body
      BY <1>2
    <3>3. SubSeq(t, 0 + 1, B) \o SubSeq(t, B + 1, B + n) = SubSeq(t, 0 + 1, B + n)
      <4>1. 0 \in Nat /\ B \in Nat /\ B + n \in Nat /\ 0 <= B /\ B <= B + n /\ B + n <= Len(t)
        BY <1>3, <1>5, <3>2
      <4> QED BY <4>1, PieceAfterPiece
    <3>4. b = SubSeq(t, 1, B + n)
      <4>1. 0 + 1 = 1
        OBVIOUS
      <4>2. SubSeq(t, 1, B) \o SubSeq(t, B + 1, B + n) = SubSeq(t, 1, B + n)
        BY ONLY <3>3, <4>1
      <4> QED BY ONLY <1>6, <1>8, <3>1, <3>2, <4>2
    <3> QED BY <1>3, <1>5, <1>10, <3>2, <3>4
  <2> QED BY ONLY <1>1, <1>13, <1>16, <2>1, <2>2 DEF Got, Closing
<1>19. Stored(task[w], job[w], entry, data) => Stored(task[w], j, entry, data)
  <2>1. SUFFICES ASSUME Stored(task[w], job[w], entry, data) PROVE Stored(task[w], j, entry, data)
    OBVIOUS
  <2>2. PICK d \in Seq(Nat) : d = data[job[w].fd]
    BY <1>1, WriterHas
  <2>3. PICK o \in Nat : o = job[w].offset
    BY <1>2
  <2>4. PICK q \in Nat : q = Place(task[w])
    BY <1>16, <1>17
  <2>5. PICK x \in Seq(Nat) : x = job[w].pending
    BY <1>2
  <2>6. PICK y \in Seq(Nat) : y = job[w].body
    BY <1>2
  <2>7. PICK e \in Seq(Nat) : e = <<>>
    <3>1. <<>> \in Seq(Nat)
      OBVIOUS
    <3> QED BY <3>1
  <2>8. entry["plain"] = job[w].fd /\ Transfer!Written(d, o, x) = Transfer!Written(e, q, y)
    BY <1>1, <2>1, <2>2, <2>3, <2>4, <2>5, <2>6, <2>7, WriterHas
  <2>9. Transfer!Written(Transfer!Written(d, o, x), o + Len(x), s) = Transfer!Written(d, o, x \o s)
    BY <1>7, WrittenTwice
  <2>10. Transfer!Written(Transfer!Written(e, q, y), q + Len(y), s) = Transfer!Written(e, q, y \o s)
    BY <1>7, WrittenTwice
  <2>11. o + Len(x) = q + Len(y)
    BY <1>3, <1>16, <2>3, <2>4, <2>5, <2>6
  <2>12. Transfer!Written(d, o, p) = Transfer!Written(e, q, b)
    BY <1>8, <1>9, <2>5, <2>6, <2>8, <2>9, <2>10, <2>11
  <2> QED BY ONLY <1>1, <1>13, <2>2, <2>3, <2>4, <2>7, <2>8, <2>12 DEF Stored
<1> QED BY <1>1, <1>2, <1>12, <1>13, <1>14, <1>15, <1>18, <1>19, WriterKeeps, WriterHas

LEMMA FlushKeeps ==
    ASSUME TransferHypothesis, TransferInv, NEW w \in Workers, Transfer!Flush(w)
    PROVE  TransferInv'
<1>1. task[w].op \in Transfer!Writers /\ job[w].pc = "receive" /\ UNCHANGED <<entry, task>>
  BY WorkerIs DEF Transfer!Flush, Way, Shut, Closing, FileTasks, Transfer!Writers
<1>2. /\ task[w] \in FileTasks /\ Way(task[w], job[w]) /\ Got(task[w], job[w])
      /\ job[w].body \in Seq(Nat) /\ job[w].pending \in Seq(Nat) /\ job[w].offset \in Nat
      /\ entry \in [Transfer!Names -> Transfer!Inodes \cup {NoFile}]
      /\ data \in [Transfer!Inodes -> Seq(Nat)]
  BY <1>1, WriterIs
<1>3. PICK f : f = Transfer!Written(data[job[w].fd], job[w].offset, job[w].pending)
  OBVIOUS
<1>4. /\ job[w].pc \in Ajar /\ job[w].fd \in Transfer!Inodes /\ job[w].fd # NoFile /\ f \in Seq(Nat)
      /\ Stored(task[w], job[w], entry, data) =>
           entry["plain"] = job[w].fd /\ f = Transfer!Written(<<>>, Place(task[w]), job[w].body)
  BY <1>1, <1>3, WriterHas
<1>5. data' = [data EXCEPT ![job[w].fd] = f]
  BY <1>3 DEF Transfer!Flush
<1>6. data' \in [Transfer!Inodes -> Seq(Nat)] /\ data'[job[w].fd] = f
  BY <1>2, <1>4, <1>5
<1>7. PICK o \in Nat : o = job[w].offset + Len(job[w].pending)
  BY <1>2
<1>8. PICK e \in Seq(Nat) : e = <<>>
  <2>1. <<>> \in Seq(Nat)
    OBVIOUS
  <2> QED BY <2>1
<1>9. PICK j : Becomes(j, [offset |-> o, pending |-> e], job[w]) /\ Moves(w, j)
  BY <1>7, <1>8, SetBecomes DEF Transfer!Flush
<1>10. /\ j.pc = job[w].pc /\ j.fd = job[w].fd /\ j.body = job[w].body /\ j.pending = e
       /\ j.alone = job[w].alone /\ j.last = job[w].last /\ j.status = job[w].status /\ j.offset = o
       /\ j.left = job[w].left
  BY <1>9 DEF Becomes
<1>11. Fits([offset |-> o, pending |-> e])
  BY DEF Fits
<1>12. Way(task[w], j)
  BY <1>2, <1>10 DEF Way
<1>13. Got(task[w], j)
  <2>1. o = Place(task[w]) + Len(job[w].body) /\ Len(e) = 0
    BY <1>1, <1>2, <1>7, <1>8 DEF Got
  <2> QED BY <1>1, <1>2, <1>7, <1>10, <2>1 DEF Got, Closing
<1>14. Stored(task[w], job[w], entry, data) => Stored(task[w], j, entry', data')
  <2>1. Transfer!Written(data'[j.fd], j.offset, j.pending) = f
    BY <1>6, <1>8, <1>10 DEF Transfer!Written
  <2> QED BY ONLY <1>1, <1>4, <1>10, <2>1 DEF Stored
<1> QED BY <1>1, <1>2, <1>4, <1>6, <1>9, <1>10, <1>11, <1>12, <1>13, <1>14, WriterKeeps

LEMMA ReceivedKeeps ==
    ASSUME TransferHypothesis, TransferInv, NEW w \in Workers, Transfer!Received(w)
    PROVE  TransferInv'
<1>1. task[w].op \in Transfer!Writers /\ job[w].pc = "receive" /\ UNCHANGED <<entry, data, task>>
  BY WorkerIs DEF Transfer!Received, Way, Shut, Closing, FileTasks, Transfer!Writers
<1>2. /\ task[w] \in FileTasks /\ Way(task[w], job[w]) /\ Got(task[w], job[w]) /\ job[w].fd # NoFile
      /\ job[w].body \in Seq(Nat) /\ task[w].body \in Seq(Nat) /\ job[w].status >= -14
      /\ entry \in [Transfer!Names -> Transfer!Inodes \cup {NoFile}]
      /\ data \in [Transfer!Inodes -> Seq(Nat)]
  BY <1>1, WriterIs DEF Way, Ajar
<1>3. PICK j : Becomes(j, [pc |-> "close"], job[w]) /\ Moves(w, j)
  BY SetBecomes DEF Transfer!Received
<1>4. /\ j.pc = "close" /\ j.fd = job[w].fd /\ j.body = job[w].body /\ j.pending = job[w].pending
      /\ j.alone = job[w].alone /\ j.last = job[w].last /\ j.status = job[w].status
      /\ j.offset = job[w].offset
  BY <1>3 DEF Becomes
<1>5. Fits([pc |-> "close"])
  BY DEF Fits, Transfer!Steps
<1>6. Way(task[w], j)
  BY ONLY <1>1, <1>2, <1>4 DEF Way, Shut, Ajar, Closing, Sending, Transfer!Writers
<1>7. Got(task[w], j)
  <2>1. ASSUME task[w].op = "PUT", "timeout" \notin Faults PROVE job[w].body = task[w].body
    <3>1. Len(task[w].body) - Len(job[w].body) = 0
      BY <2>1 DEF Transfer!Received, Transfer!Remaining
    <3>2. Len(job[w].body) = Len(task[w].body)
      BY <1>2, <3>1, LenProperties
    <3>3. job[w].body = SubSeq(task[w].body, 1, Len(task[w].body))
      BY <1>1, <1>2, <2>1, <3>2 DEF Got
    <3> QED BY <1>2, <3>3
  <2> QED BY ONLY <1>4, <2>1 DEF Got, Closing
<1>8. Stored(task[w], job[w], entry, data) => Stored(task[w], j, entry, data)
  BY ONLY <1>1, <1>4 DEF Stored, Ajar
<1>9. job[w].pc \in Ajar
  BY <1>1 DEF Ajar
<1> QED BY <1>1, <1>2, <1>3, <1>4, <1>5, <1>6, <1>7, <1>8, <1>9, WriterKeeps

LEMMA LostKeeps ==
    ASSUME TransferHypothesis, TransferInv, NEW w \in Workers, Transfer!Lost(w)
    PROVE  TransferInv'
<1>1. task[w].op \in Transfer!Writers /\ job[w].pc = "receive" /\ UNCHANGED <<entry, data, task>>
  BY WorkerIs DEF Transfer!Lost, Way, Shut, Closing, FileTasks, Transfer!Writers
<1>2. /\ task[w] \in FileTasks /\ Way(task[w], job[w]) /\ job[w].fd # NoFile
      /\ job[w].status \in Int /\ job[w].status >= -14
      /\ entry \in [Transfer!Names -> Transfer!Inodes \cup {NoFile}]
      /\ data \in [Transfer!Inodes -> Seq(Nat)]
  BY <1>1, WriterIs DEF Way, Ajar
<1>3. PICK s \in Int : s = (IF task[w].op = "PUT" THEN 500 ELSE job[w].status) /\ s >= -14
  <2>1. (IF task[w].op = "PUT" THEN 500 ELSE job[w].status) \in Int
    BY ONLY <1>2
  <2>2. (IF task[w].op = "PUT" THEN 500 ELSE job[w].status) >= -14
    BY ONLY <1>2
  <2> QED BY <2>1, <2>2
<1>4. PICK j : Becomes(j, [pc |-> "close", gone |-> TRUE, status |-> s], job[w])
      /\ Moves(w, j)
  BY <1>3, SetBecomes DEF Transfer!Lost
<1>5. /\ j.pc = "close" /\ j.fd = job[w].fd /\ j.body = job[w].body /\ j.pending = job[w].pending
      /\ j.alone = job[w].alone /\ j.last = job[w].last /\ j.status = s /\ j.offset = job[w].offset
  BY <1>4 DEF Becomes
<1>6. Fits([pc |-> "close", gone |-> TRUE, status |-> s])
  BY DEF Fits, Transfer!Steps
<1>7. Way(task[w], j)
  BY ONLY <1>1, <1>2, <1>3, <1>5 DEF Way, Shut, Ajar, Closing, Sending, Transfer!Writers
<1>8. Got(task[w], j)
  BY ONLY <1>3, <1>5 DEF Got, Closing
<1>9. Stored(task[w], job[w], entry, data) => Stored(task[w], j, entry, data)
  BY ONLY <1>1, <1>5 DEF Stored, Ajar
<1>10. job[w].pc \in Ajar
  BY <1>1 DEF Ajar
<1> QED BY <1>1, <1>2, <1>4, <1>5, <1>6, <1>7, <1>8, <1>9, <1>10, WriterKeeps

LEMMA WriteFailsKeeps ==
    ASSUME TransferHypothesis, TransferInv, NEW w \in Workers, Transfer!WriteFails(w)
    PROVE  TransferInv'
<1>1. task[w].op \in Transfer!Writers /\ job[w].pc = "receive" /\ UNCHANGED <<data, task>>
  BY WorkerIs DEF Transfer!WriteFails, Way, Shut, Closing, FileTasks, Transfer!Writers
<1>2. /\ task[w] \in FileTasks /\ Way(task[w], job[w]) /\ job[w].fd # NoFile /\ job[w].pc \in Ajar
      /\ entry \in [Transfer!Names -> Transfer!Inodes \cup {NoFile}]
      /\ data \in [Transfer!Inodes -> Seq(Nat)]
  BY <1>1, WriterIs DEF Way, Ajar
<1>3. CASE task[w].op = "PUT"
  <2>1. PICK j : Becomes(j, [pc |-> "close", status |-> 500], job[w]) /\ Moves(w, j)
    BY <1>3, SetBecomes DEF Transfer!WriteFails
  <2>2. /\ j.pc = "close" /\ j.fd = job[w].fd /\ j.body = job[w].body /\ j.pending = job[w].pending
        /\ j.alone = job[w].alone /\ j.last = job[w].last /\ j.status = 500 /\ j.offset = job[w].offset
    BY <2>1 DEF Becomes
  <2>3. Fits([pc |-> "close", status |-> 500])
    BY DEF Fits, Transfer!Steps
  <2>4. Way(task[w], j)
    BY ONLY <1>1, <1>2, <1>3, <2>2 DEF Way, Shut, Ajar, Closing, Sending, Transfer!Writers
  <2>5. Got(task[w], j)
    BY ONLY <2>2 DEF Got, Closing
  <2>6. Stored(task[w], job[w], entry, data) => Stored(task[w], j, entry, data)
    BY ONLY <1>1, <2>2 DEF Stored, Ajar
  <2>7. entry' = entry
    BY <1>3 DEF Transfer!WriteFails
  <2> QED BY ZenonT(40), <1>1, <1>2, <2>1, <2>2, <2>3, <2>4, <2>5, <2>6, <2>7, WriterKeeps
<1>4. CASE task[w].op # "PUT"
  <2>1. PICK j : /\ Becomes(j, [pc |-> "done", status |-> -13, fd |-> NoFile], job[w])
                 /\ Moves(w, j)
    BY <1>4, SetBecomes DEF Transfer!WriteFails
  <2>2. /\ j.pc = "done" /\ j.fd = NoFile
        /\ j.alone = job[w].alone /\ j.last = job[w].last /\ j.status = -13
    BY <2>1 DEF Becomes
  <2>3. Fits([pc |-> "done", status |-> -13, fd |-> NoFile])
    BY DEF Fits, Transfer!Steps
  <2>4. task[w].op = "STORE"
    BY <1>1, <1>4 DEF Transfer!Writers
  <2>5. Way(task[w], j)
    BY ONLY <2>2, <2>4 DEF Way, Shut, Ajar, Closing, Sending, Transfer!Writers
  <2>6. Got(task[w], j)
    BY ONLY <2>2, <2>4 DEF Got, Closing
  <2>7. entry' \in [Transfer!Names -> Transfer!Inodes \cup {NoFile}] /\ entry'["plain"] = NoFile
    BY <1>2, <1>4, FileSorts DEF Transfer!WriteFails, Transfer!Removed
  <2>8. Stored(task[w], j, entry', data')
    BY ONLY <2>2, <2>4, <2>7 DEF Stored, Ajar
  <2> QED BY <1>1, <1>2, <2>1, <2>2, <2>3, <2>5, <2>6, <2>7, <2>8, WriterKeeps
<1> QED BY <1>3, <1>4

LEMMA ClosePutKeeps ==
    ASSUME TransferHypothesis, TransferInv, NEW w \in Workers, Transfer!ClosePut(w)
    PROVE  TransferInv'
<1>1. /\ task[w].op = "PUT" /\ task[w].op \in Transfer!Writers /\ job[w].pc = "close"
      /\ job[w].pc \in {"receive", "close"} /\ UNCHANGED <<entry, task>>
  BY DEF Transfer!ClosePut, Transfer!At, Transfer!Writers
<1>2. /\ task[w] \in FileTasks /\ Got(task[w], job[w]) /\ job[w].status \in Int /\ job[w].status >= -14
      /\ entry \in [Transfer!Names -> Transfer!Inodes \cup {NoFile}]
      /\ data \in [Transfer!Inodes -> Seq(Nat)]
  BY <1>1, WriterIs
<1>3. PICK f : f = Transfer!Written(data[job[w].fd], job[w].offset, job[w].pending)
  OBVIOUS
<1>4. /\ job[w].pc \in Ajar /\ job[w].fd \in Transfer!Inodes /\ job[w].fd # NoFile /\ f \in Seq(Nat)
      /\ Stored(task[w], job[w], entry, data) =>
           entry["plain"] = job[w].fd /\ f = Transfer!Written(<<>>, Place(task[w]), job[w].body)
  BY <1>1, <1>3, WriterHas
<1>5. CASE Transfer!Set(w, [pc |-> "done", fd |-> NoFile]) /\ Transfer!Closed(w)
  <2>1. data' \in [Transfer!Inodes -> Seq(Nat)] /\ data'[job[w].fd] = f
    BY <1>2, <1>3, <1>4, <1>5 DEF Transfer!Closed
  <2>2. PICK j : Becomes(j, [pc |-> "done", fd |-> NoFile], job[w]) /\ Moves(w, j)
    BY <1>5, SetBecomes
  <2>3. /\ j.pc = "done" /\ j.fd = NoFile /\ j.body = job[w].body
        /\ j.alone = job[w].alone /\ j.last = job[w].last /\ j.status = job[w].status
    BY <2>2 DEF Becomes
  <2>4. Fits([pc |-> "done", fd |-> NoFile])
    BY DEF Fits, Transfer!Steps
  <2>5. Way(task[w], j)
    BY ONLY <1>1, <1>2, <2>3 DEF Way, Shut, Ajar, Closing, Sending, Transfer!Writers
  <2>6. Got(task[w], j)
    BY ONLY <1>1, <1>2, <2>3 DEF Got, Closing
  <2>7. Stored(task[w], job[w], entry, data) => Stored(task[w], j, entry', data')
    <3>1. SUFFICES ASSUME Stored(task[w], job[w], entry, data) PROVE Stored(task[w], j, entry', data')
      OBVIOUS
    <3>2. entry'["plain"] = job[w].fd /\ data'[entry'["plain"]] = Transfer!Written(<<>>, Place(task[w]), job[w].body)
      BY <1>1, <1>4, <2>1, <3>1
    <3>3. "timeout" \notin Faults /\ job[w].status \in {100, 200} => job[w].body = task[w].body
      BY <1>1, <1>2 DEF Got, Closing
    <3>4. job[w].fd # NoFile
      BY <1>4
    <3> QED BY ONLY <1>1, <2>3, <3>2, <3>3, <3>4 DEF Stored, Ajar
  <2> QED BY <1>1, <1>2, <1>4, <2>1, <2>2, <2>3, <2>4, <2>5, <2>6, <2>7, WriterKeeps
<1>6. CASE /\ Transfer!Set(w, [pc |-> "done", fd |-> NoFile,
                                status |-> IF job[w].status \in {417, 500} THEN job[w].status ELSE 507])
           /\ UNCHANGED data
  <2>1. PICK s \in {417, 500, 507} : s = IF job[w].status \in {417, 500} THEN job[w].status ELSE 507
    OBVIOUS
  <2> DEFINE r == [pc |-> "done", fd |-> NoFile, status |-> s]
  <2>0. Transfer!Set(w, r)
    BY <1>6, <2>1
  <2>2. PICK j : Becomes(j, r, job[w]) /\ Moves(w, j)
    BY <2>0, SetBecomes
  <2>3. /\ j.pc = "done" /\ j.fd = NoFile
        /\ j.alone = job[w].alone /\ j.last = job[w].last /\ j.status = s
    BY <2>2 DEF Becomes
  <2>4. Fits(r)
    BY DEF Fits, Transfer!Steps
  <2> HIDE DEF r
  <2>5. Way(task[w], j)
    BY ONLY <1>1, <2>3, s \in {417, 500, 507} DEF Way, Shut, Ajar, Closing, Sending,
         Transfer!Writers
  <2>6. Got(task[w], j)
    BY ONLY <2>3, s \in {417, 500, 507} DEF Got, Closing
  <2>7. Stored(task[w], j, entry', data')
    BY ONLY <1>1, <2>3, s \in {417, 500, 507} DEF Stored, Ajar
  <2>8. /\ entry' \in [Transfer!Names -> Transfer!Inodes \cup {NoFile}]
        /\ data' \in [Transfer!Inodes -> Seq(Nat)] /\ task' = task
    BY <1>1, <1>2, <1>6
  <2>9. job[w].pc \in Ajar /\ task[w].op \in Transfer!Writers
    BY <1>1, <1>4
  <2>10. j.alone /\ j.last /\ Stored(task[w], job[w], entry, data) => Stored(task[w], j, entry', data')
    BY <2>7
  <2> QED BY ONLY TransferHypothesis, TransferInv, w \in Workers, <2>2, <2>3, <2>4, <2>5,
       <2>6, <2>8, <2>9, <2>10,
         WriterKeeps
<1> QED BY <1>5, <1>6 DEF Transfer!ClosePut

LEMMA CloseStoreKeeps ==
    ASSUME TransferHypothesis, TransferInv, NEW w \in Workers, Transfer!CloseStore(w)
    PROVE  TransferInv'
<1>1. /\ task[w].op = "STORE" /\ task[w].op \in Transfer!Writers
      /\ job[w].pc \in {"receive", "close"} /\ task' = task
  BY DEF Transfer!CloseStore, Transfer!At, Transfer!Writers
<1>2. /\ task[w] \in FileTasks /\ job[w].body \in Seq(Nat)
      /\ entry \in [Transfer!Names -> Transfer!Inodes \cup {NoFile}]
      /\ data \in [Transfer!Inodes -> Seq(Nat)]
  BY <1>1, WriterIs
<1>3. PICK f : f = Transfer!Written(data[job[w].fd], job[w].offset, job[w].pending)
  OBVIOUS
<1>4. /\ job[w].pc \in Ajar /\ job[w].fd \in Transfer!Inodes /\ job[w].fd # NoFile /\ f \in Seq(Nat)
      /\ Stored(task[w], job[w], entry, data) =>
           entry["plain"] = job[w].fd /\ f = Transfer!Written(<<>>, Place(task[w]), job[w].body)
  BY <1>1, <1>3, WriterHas
<1>5. PICK n \in Nat : n = Len(job[w].body)
  BY <1>2, LenProperties
<1>6. CASE /\ Transfer!Set(w, [pc |-> "done", fd |-> NoFile, status |-> n])
           /\ Transfer!Closed(w) /\ UNCHANGED entry
  <2>1. data' \in [Transfer!Inodes -> Seq(Nat)] /\ data'[job[w].fd] = f
    BY <1>2, <1>3, <1>4, <1>6 DEF Transfer!Closed
  <2>2. PICK j : Becomes(j, [pc |-> "done", fd |-> NoFile, status |-> n], job[w])
        /\ Moves(w, j)
    BY <1>6, SetBecomes
  <2>3. /\ j.pc = "done" /\ j.fd = NoFile
        /\ j.alone = job[w].alone /\ j.last = job[w].last /\ j.status = n
    BY <2>2 DEF Becomes
  <2>4. Fits([pc |-> "done", fd |-> NoFile, status |-> n])
    BY DEF Fits, Transfer!Steps
  <2>5. Way(task[w], j)
    BY ONLY <1>1, <2>3, n \in Nat DEF Way, Shut, Ajar, Closing, Sending, Transfer!Writers
  <2>6. Got(task[w], j)
    BY ONLY <1>1, <2>3 DEF Got, Closing
  <2>7. Stored(task[w], job[w], entry, data) => Stored(task[w], j, entry', data')
    <3>1. SUFFICES ASSUME Stored(task[w], job[w], entry, data) PROVE Stored(task[w], j, entry', data')
      OBVIOUS
    <3>2. Place(task[w]) = 0
      BY <1>1 DEF Place
    <3>3. Len(f) = n
      BY <1>2, <1>4, <1>5, <3>1, <3>2, WrittenLength
    <3>4. entry'["plain"] = job[w].fd /\ Len(data'[entry'["plain"]]) = n /\ job[w].fd # NoFile
      BY <1>4, <1>6, <2>1, <3>1, <3>3
    <3> QED BY ONLY <1>1, <2>3, <3>4, n \in Nat DEF Stored, Ajar
  <2> QED BY <1>1, <1>2, <1>4, <1>6, <2>1, <2>2, <2>3, <2>4, <2>5, <2>6, <2>7, WriterKeeps
<1>7. CASE /\ Transfer!Set(w, [pc |-> "done", fd |-> NoFile, status |-> -14])
           /\ Transfer!Removed /\ UNCHANGED data
  <2>1. PICK j : /\ Becomes(j, [pc |-> "done", fd |-> NoFile, status |-> -14], job[w])
                 /\ Moves(w, j)
    BY <1>7, SetBecomes
  <2>2. /\ j.pc = "done" /\ j.fd = NoFile
        /\ j.alone = job[w].alone /\ j.last = job[w].last /\ j.status = -14
    BY <2>1 DEF Becomes
  <2>3. Fits([pc |-> "done", fd |-> NoFile, status |-> -14])
    BY DEF Fits, Transfer!Steps
  <2>4. Way(task[w], j)
    BY ONLY <1>1, <2>2 DEF Way, Shut, Ajar, Closing, Sending, Transfer!Writers
  <2>5. Got(task[w], j)
    BY ONLY <1>1, <2>2 DEF Got, Closing
  <2>6. entry' \in [Transfer!Names -> Transfer!Inodes \cup {NoFile}] /\ entry'["plain"] = NoFile
    BY <1>2, <1>7, FileSorts DEF Transfer!Removed
  <2>7. Stored(task[w], j, entry', data')
    BY ONLY <1>1, <2>2, <2>6 DEF Stored, Ajar
  <2> QED BY <1>1, <1>2, <1>4, <1>7, <2>1, <2>2, <2>3, <2>4, <2>5, <2>6, <2>7, WriterKeeps
<1> QED BY <1>5, <1>6, <1>7 DEF Transfer!CloseStore

-----------------------------------------------------------------------------
LEMMA TransferStep ==
    ASSUME TransferHypothesis
    PROVE  TransferInv /\ [Transfer!Next]_(Transfer!vars) => TransferInv'
<1> SUFFICES ASSUME TransferInv, [Transfer!Next]_(Transfer!vars) PROVE TransferInv'
  OBVIOUS
<1>1. CASE UNCHANGED Transfer!vars
  <2>1. entry' = entry /\ data' = data /\ task' = task /\ job' = job
    BY <1>1 DEF Transfer!vars
  <2>2. TransferTyped'
    BY <2>1 DEF TransferInv, TransferTyped
  <2>3. (\A w \in Workers : Way(task[w], job[w]) /\ Got(task[w], job[w]))'
    BY <2>1 DEF TransferInv, Way, Got, Place, Shut, Ajar, Closing, Sending, Transfer!Writers
  <2>4. ASSUME NEW w \in Workers, job'[w].alone, job'[w].last
        PROVE  /\ \A v \in Workers \ {w} :
                     ~ (job'[v].fd # NoFile /\ task'[v].op \in Transfer!Writers)
               /\ Stored(task'[w], job'[w], entry', data')
    <3>1. job[w].alone /\ job[w].last
      BY <2>1, <2>4
    <3>2. (\A v \in Workers \ {w} : ~ Transfer!HasOpen(v)) /\ Stored(task[w], job[w], entry, data)
      BY <3>1 DEF TransferInv
    <3>3. Stored(task'[w], job'[w], entry', data')
      BY ONLY <2>1, <3>2
    <3> QED BY ONLY <2>1, <3>2, <3>3 DEF Transfer!HasOpen
  <2>5. (\A w \in Workers : job[w].alone /\ job[w].last =>
           /\ \A v \in Workers \ {w} : ~ Transfer!HasOpen(v)
           /\ Stored(task[w], job[w], entry, data))'
    BY ONLY <2>4 DEF Stored, Place, Ajar, Transfer!HasOpen, Transfer!Writers, Transfer!Written,
                     Transfer!Larger
  <2> QED BY <2>2, <2>3, <2>5 DEF TransferInv
<1>2. CASE Transfer!Next
  <2>1. PICK w \in Workers :
          \/ Transfer!Stat(w) \/ Transfer!Variant(w) \/ Transfer!Restat(w) \/ Transfer!Open(w)
          \/ Transfer!OpenBody(w) \/ Transfer!Header(w) \/ Transfer!Body(w)
          \/ Transfer!SendfileSome(w) \/ Transfer!SendfileNone(w) \/ Transfer!SendfileError(w)
          \/ Transfer!Copy(w) \/ Transfer!CloseRead(w)
          \/ Transfer!Put(w) \/ Transfer!Store(w) \/ Transfer!OpenWrite(w) \/ Transfer!Seek(w)
          \/ Transfer!Forward(w) \/ Transfer!Receive(w) \/ Transfer!Flush(w) \/ Transfer!Received(w)
          \/ Transfer!Lost(w) \/ Transfer!WriteFails(w) \/ Transfer!ClosePut(w) \/ Transfer!CloseStore(w)
    BY <1>2 DEF Transfer!Next
  <2> QED BY <2>1, StatKeeps, VariantKeeps, RestatKeeps, OpenKeeps, OpenBodyKeeps,
       HeaderKeeps, BodyKeeps,
            SendfileSomeKeeps, SendfileNoneKeeps, SendfileErrorKeeps, CopyKeeps, CloseReadKeeps,
            PutKeeps, StoreKeeps, OpenWriteKeeps, SeekKeeps, ForwardBodyKeeps, ReceiveKeeps, FlushKeeps,
            ReceivedKeeps, LostKeeps, WriteFailsKeeps, ClosePutKeeps, CloseStoreKeeps
<1> QED BY <1>1, <1>2

(* Each worker is at a place of its task, with offsets and statuses that   *)
(* are numbers, and each name is bound to an inode or to nothing.          *)
THEOREM TransferTypes == ASSUME TransferHypothesis PROVE Transfer!Spec => []Transfer!TypeOK
<1>1. TransferInv => Transfer!TypeOK
  <2>1. SUFFICES ASSUME TransferInv PROVE Transfer!TypeOK
    OBVIOUS
  <2>2. ASSUME NEW w \in Workers
        PROVE  /\ job[w].pc \in Transfer!Steps /\ job[w].offset >= 0
               /\ job[w].fd \in Transfer!Inodes \cup {NoFile}
               /\ job[w].gz \in BOOLEAN /\ job[w].status >= -14
    BY <2>1, WorkerIs DEF FileJobs, Way
  <2>3. entry \in [Transfer!Names -> Transfer!Inodes \cup {NoFile}]
    BY <2>1 DEF TransferInv, TransferTyped
  <2> QED BY <2>2, <2>3 DEF Transfer!TypeOK
<1> QED BY <1>1, TransferInit, TransferStep, PTL DEF Transfer!Spec

(* Every way out of GET, HEAD, PUT and the calls that send and store       *)
(* bodies closes the file, but for a Content-Range with a negative         *)
(* position (handle_static_file_request, put_file, mg_store_body).         *)
THEOREM TransferCloses == ASSUME TransferHypothesis PROVE Transfer!Spec => []Transfer!FilesClosed
<1>1. TransferInv => Transfer!FilesClosed
  <2>1. SUFFICES ASSUME TransferInv, NEW w \in Workers, job[w].pc = "done", job[w].fd # NoFile
                 PROVE  task[w].op = "PUT" /\ Transfer!HasRange(w) /\ task[w].range[2] < 0
    BY DEF Transfer!FilesClosed
  <2> QED BY <2>1, WorkerIs DEF Way, Transfer!HasRange
<1> QED BY <1>1, TransferInit, TransferStep, PTL DEF Transfer!Spec

(* A PUT that is answered 200 or 100 has stored all of its body where its  *)
(* range said, unless another writer came between; a body that does not    *)
(* come in time is left out (put_file, forward_body_data, fwrite).         *)
THEOREM TransferStores ==
    ASSUME TransferHypothesis, "timeout" \notin Faults PROVE Transfer!Spec => []Transfer!StoredWhole
<1>1. TransferInv => Transfer!StoredWhole
  <2>1. SUFFICES ASSUME TransferInv, NEW w \in Workers, Transfer!Done(w, {"PUT"}), job[w].status \in {100, 200},
                        job[w].alone, job[w].last
                 PROVE  /\ entry["plain"] # NoFile
                        /\ data[entry["plain"]] = Transfer!Written(<<>>, Transfer!Position(w), task[w].body)
    BY DEF Transfer!StoredWhole
  <2>2. task[w].op = "PUT" /\ job[w].pc = "done" /\ Stored(task[w], job[w], entry, data)
    BY <2>1 DEF TransferInv, Transfer!Done, Transfer!At
  <2>3. Place(task[w]) = Transfer!Position(w)
    BY DEF Place, Transfer!Position, Transfer!HasRange
  <2> QED BY <2>1, <2>2, <2>3 DEF Stored
<1> QED BY <1>1, TransferInit, TransferStep, PTL DEF Transfer!Spec

(* mg_store_body leaves a file with as many bytes as it returns, and none  *)
(* when it could not write it, unless another writer came between.         *)
THEOREM TransferCleansUp == ASSUME TransferHypothesis PROVE Transfer!Spec => []Transfer!StoreCleansUp
<1>1. TransferInv => Transfer!StoreCleansUp
  <2>1. SUFFICES ASSUME TransferInv, NEW w \in Workers, Transfer!Done(w, {"STORE"}), job[w].alone, job[w].last
                 PROVE  IF job[w].status < 0 THEN entry["plain"] = NoFile
                        ELSE Transfer!Exists("plain") /\ Transfer!Size("plain") = job[w].status
    BY DEF Transfer!StoreCleansUp
  <2>2. task[w].op = "STORE" /\ job[w].pc = "done" /\ Stored(task[w], job[w], entry, data)
    BY <2>1 DEF TransferInv, Transfer!Done, Transfer!At
  <2> QED BY <2>2 DEF Stored, Transfer!Exists, Transfer!Size
<1> QED BY <1>1, TransferInit, TransferStep, PTL DEF Transfer!Spec

-----------------------------------------------------------------------------
(* Readers only. *)
LEMMA ReadIs ==
    ASSUME ReadHypothesis, ReadInv, NEW w \in Workers
    PROVE  /\ job[w] \in FileJobs /\ task[w] \in FileTasks /\ Way(task[w], job[w])
           /\ task[w].op \in {"GET", "HEAD", "BODY"} /\ job[w].name \in Transfer!Names
           /\ Found(task[w], job[w], entry, data) /\ Asked(task[w], job[w], data)
           /\ SentSoFar(task[w], job[w], data)
           /\ job[w].sent \in Seq(Nat) /\ job[w].from \in Nat /\ job[w].offset \in Nat
           /\ job[w].left \in Int
           /\ job[w].cl \in Int /\ job[w].size \in Nat /\ job[w].loops \in Nat
<1>1. job[w] \in FileJobs /\ task[w] \in FileTasks /\ Way(task[w], job[w]) /\ task[w] \in Tasks
  BY WorkerIs DEF ReadInv, TransferInv, TransferTyped
<1>2. task[w].op \in {"GET", "HEAD", "BODY"}
  BY <1>1 DEF ReadHypothesis, FileTasks, Transfer!Writers
<1> QED BY <1>1, <1>2 DEF ReadInv, FileJobs

LEMMA ReadNames ==
    ASSUME ReadHypothesis, ReadInv, NEW n \in Transfer!Names
    PROVE  /\ data[n] \in Seq(Nat) /\ Len(data[n]) \in Nat
           /\ Transfer!Exists(n) => entry[n] = n /\ n # NoFile /\ Transfer!Size(n) = Len(data[n])
<1>1. data \in [Transfer!Inodes -> Seq(Nat)] /\ n \in Transfer!Inodes /\ entry[n] \in {n, NoFile}
  BY DEF ReadInv, TransferInv, TransferTyped, Transfer!Inodes
<1>2. data[n] \in Seq(Nat)
  BY <1>1
<1>3. Len(data[n]) \in Nat
  BY <1>2, LenProperties
<1> QED BY <1>1, <1>2, <1>3 DEF Transfer!Exists, Transfer!Size

(* A step of worker w that changes no file. *)
Turned(w, j) == Moves(w, j) /\ UNCHANGED <<entry, data, task>>

(* A reader's step changes its own job only. *)
LEMMA OneRead ==
    ASSUME ReadInv, TransferInv', NEW w \in Workers, NEW j, Turned(w, j),
           Found(task[w], j, entry, data), Asked(task[w], j, data), SentSoFar(task[w], j, data)
    PROVE  ReadInv'
<1>1. /\ job'[w] = j /\ \A v \in Workers : v # w => job'[v] = job[v]
      /\ entry' = entry /\ data' = data /\ task' = task
  BY DEF ReadInv, TransferInv, TransferTyped, Turned, Moves
<1>2. \A v \in Workers : Found(task'[v], job'[v], entry', data') /\ Asked(task'[v], job'[v], data')
                         /\ SentSoFar(task'[v], job'[v], data')
  BY <1>1 DEF ReadInv
<1>3. (\A v \in Workers : /\ Found(task[v], job[v], entry, data) /\ Asked(task[v], job[v], data)
                          /\ SentSoFar(task[v], job[v], data))'
  BY <1>2 DEF Found, Asked, SentSoFar, Variety, Shut, Closing, Sending, Transfer!Smaller
<1>4. (\A n \in Transfer!Names : entry[n] \in {n, NoFile})'
  BY <1>1 DEF ReadInv, Transfer!Names
<1> QED BY <1>3, <1>4 DEF ReadInv

(* Before anything is sent ... *)
LEMMA Unsent ==
    ASSUME NEW t, NEW j, NEW d \in Seq(Nat), d = data[j.name], j.sent = <<>>, j.from \in Nat, j.status \notin {200, 206},
           j.pc \notin Sending
    PROVE  Asked(t, j, data) /\ SentSoFar(t, j, data)
<1>1. Len(<<>>) = 0
  OBVIOUS
<1>2. PICK f \in Nat : f = j.from
  OBVIOUS
<1>3. SubSeq(d, f + 1, f + 0) = <<>>
  <2>1. f + 0 < f + 1
    OBVIOUS
  <2> QED BY <2>1, SubSeqEmpty
<1>4. j.sent = SubSeq(data[j.name], j.from + 1, j.from + Len(j.sent))
  BY <1>1, <1>2, <1>3
<1> QED BY <1>4 DEF Asked, SentSoFar, Closing, Sending

(* ... each step finds out a little more. *)
LEMMA FindingKeeps ==
    ASSUME ReadHypothesis, ReadInv, TransferInv', NEW w \in Workers, NEW j,
           Turned(w, j),
           j.sent = <<>>, j.from = 0, j.pc \notin Sending,
           j.status \notin {200, 206}, j.name \in Transfer!Names,
           Found(task[w], j, entry, data)
    PROVE  ReadInv'
<1>1. data[j.name] \in Seq(Nat)
  BY ReadNames
<1>2. j.from \in Nat
  OBVIOUS
<1>3. Asked(task[w], j, data) /\ SentSoFar(task[w], j, data)
  BY <1>1, <1>2, Unsent
<1> QED BY <1>3, OneRead

LEMMA StatReads ==
    ASSUME ReadHypothesis, ReadInv, TransferInv', NEW w \in Workers, Transfer!Stat(w)
    PROVE  ReadInv'
<1>1. /\ job[w].pc = "start" /\ job[w].pc \in Shut /\ UNCHANGED <<entry, data, task>>
      /\ Found(task[w], job[w], entry, data) /\ job[w].status = 0 /\ job[w].sent = <<>>
      /\ job[w].from = 0
      /\ job[w].name \in Transfer!Names /\ "plain" \in Transfer!Names /\ "zipped" \in Transfer!Names
  BY ReadIs DEF Transfer!Stat, Transfer!At, Shut, Found, Transfer!Names
<1>2. /\ Transfer!Exists("plain") => entry["plain"] # NoFile /\ Transfer!Size("plain") = Len(data["plain"])
      /\ Transfer!Exists("zipped") => entry["zipped"] # NoFile /\ Transfer!Size("zipped") = Len(data["zipped"])
  BY <1>1, ReadNames DEF Transfer!Exists
<1>3. CASE Transfer!Set(w, [pc |-> "variant", size |-> Transfer!Size("plain"), cl |-> Transfer!Size("plain")]) /\ Transfer!Exists("plain")
  <2>1. PICK j : Becomes(j, [pc |-> "variant", size |-> Transfer!Size("plain"), cl |-> Transfer!Size("plain")], job[w])
                 /\ Moves(w, j)
    BY <1>3, SetBecomes DEF ReadInv
  <2>2. j.pc = "variant" /\ j.name = job[w].name /\ j.size = Transfer!Size("plain")
        /\ j.gz = job[w].gz /\ j.zipped = job[w].zipped /\ j.cl = Transfer!Size("plain")
        /\ j.fd = job[w].fd /\ j.status = job[w].status /\ j.from = job[w].from /\ j.sent = job[w].sent
    BY <2>1 DEF Becomes
  <2>3. Found(task[w], j, entry, data)
    BY <1>1, <1>2, <1>3, <2>2 DEF Found, Variety, Shut, Closing, Sending, Transfer!Stat,
         Transfer!At, Transfer!Reads
  <2>4. j.status \notin {200, 206} /\ j.name \in Transfer!Names /\ j.pc \notin Sending
        /\ j.sent = <<>> /\ j.from = 0 /\ Turned(w, j)
    BY <1>1, <2>1, <2>2 DEF Sending, Turned
  <2> QED BY <2>3, <2>4, FindingKeeps
<1>4. CASE Transfer!Set(w, [pc |-> "variant", size |-> Transfer!Size("zipped"), cl |-> Transfer!Size("zipped"), gz |-> TRUE]) /\ Transfer!Exists("zipped")
  <2>1. PICK j : Becomes(j, [pc |-> "variant", size |-> Transfer!Size("zipped"), cl |-> Transfer!Size("zipped"), gz |-> TRUE], job[w])
                 /\ Moves(w, j)
    BY <1>4, SetBecomes DEF ReadInv
  <2>2. j.pc = "variant" /\ j.name = job[w].name /\ j.size = Transfer!Size("zipped") /\ j.gz = TRUE
        /\ j.zipped = job[w].zipped /\ j.cl = Transfer!Size("zipped") /\ j.fd = job[w].fd
        /\ j.status = job[w].status /\ j.from = job[w].from /\ j.sent = job[w].sent
    BY <2>1 DEF Becomes
  <2>3. Found(task[w], j, entry, data)
    BY <1>1, <1>2, <1>4, <2>2 DEF Found, Variety, Shut, Closing, Sending, Transfer!Stat,
         Transfer!At, Transfer!Reads
  <2>4. j.status \notin {200, 206} /\ j.name \in Transfer!Names /\ j.pc \notin Sending
        /\ j.sent = <<>> /\ j.from = 0 /\ Turned(w, j)
    BY <1>1, <2>1, <2>2 DEF Sending, Turned
  <2> QED BY <2>3, <2>4, FindingKeeps
<1>5. CASE Transfer!Set(w, [pc |-> "done", status |-> 404])
  <2>1. PICK j : Becomes(j, [pc |-> "done", status |-> 404], job[w])
                 /\ Moves(w, j)
    BY <1>5, SetBecomes DEF ReadInv
  <2>2. j.pc = "done" /\ j.name = job[w].name /\ j.size = job[w].size /\ j.gz = job[w].gz
        /\ j.zipped = job[w].zipped /\ j.cl = job[w].cl /\ j.fd = job[w].fd /\ j.status = 404
        /\ j.from = job[w].from /\ j.sent = job[w].sent
    BY <2>1 DEF Becomes
  <2>3. Found(task[w], j, entry, data)
    BY <1>1, <1>2, <1>5, <2>2 DEF Found, Variety, Shut, Closing, Sending, Transfer!Stat,
         Transfer!At, Transfer!Reads
  <2>4. j.status \notin {200, 206} /\ j.name \in Transfer!Names /\ j.pc \notin Sending
        /\ j.sent = <<>> /\ j.from = 0 /\ Turned(w, j)
    BY <1>1, <2>1, <2>2 DEF Sending, Turned
  <2> QED BY <2>3, <2>4, FindingKeeps
<1> QED BY <1>3, <1>4, <1>5 DEF Transfer!Stat, Transfer!Ends

LEMMA VariantReads ==
    ASSUME ReadHypothesis, ReadInv, TransferInv', NEW w \in Workers, Transfer!Variant(w)
    PROVE  ReadInv'
<1>1. /\ job[w].pc = "variant" /\ job[w].pc \in Shut /\ UNCHANGED <<entry, data, task>>
      /\ Found(task[w], job[w], entry, data) /\ job[w].status = 0 /\ job[w].sent = <<>>
      /\ job[w].from = 0
      /\ job[w].name \in Transfer!Names /\ "plain" \in Transfer!Names /\ "zipped" \in Transfer!Names
  BY ReadIs DEF Transfer!Variant, Transfer!At, Shut, Found, Transfer!Names
<1>2. /\ Transfer!Exists("plain") => entry["plain"] # NoFile /\ Transfer!Size("plain") = Len(data["plain"])
      /\ Transfer!Exists("zipped") => entry["zipped"] # NoFile /\ Transfer!Size("zipped") = Len(data["zipped"])
  BY <1>1, ReadNames DEF Transfer!Exists
<1>3. CASE Transfer!Set(w, [pc |-> "stat", name |-> "zipped", zipped |-> TRUE]) /\ job[w].gz
  <2>1. PICK j : Becomes(j, [pc |-> "stat", name |-> "zipped", zipped |-> TRUE], job[w])
                 /\ Moves(w, j)
    BY <1>3, SetBecomes DEF ReadInv
  <2>2. j.pc = "stat" /\ j.name = "zipped" /\ j.size = job[w].size /\ j.gz = job[w].gz
        /\ j.zipped = TRUE /\ j.cl = job[w].cl /\ j.fd = job[w].fd /\ j.status = job[w].status
        /\ j.from = job[w].from /\ j.sent = job[w].sent
    BY <2>1 DEF Becomes
  <2>3. Found(task[w], j, entry, data)
    BY <1>1, <1>2, <1>3, <2>2 DEF Found, Variety, Shut, Closing, Sending, Transfer!Variant,
         Transfer!At, Transfer!Reads
  <2>4. j.status \notin {200, 206} /\ j.name \in Transfer!Names /\ j.pc \notin Sending
        /\ j.sent = <<>> /\ j.from = 0 /\ Turned(w, j)
    BY <1>1, <2>1, <2>2 DEF Sending, Turned
  <2> QED BY <2>3, <2>4, FindingKeeps
<1>4. CASE Transfer!Set(w, [pc |-> "stat", name |-> "zipped", zipped |-> TRUE, gz |-> TRUE, size |-> Transfer!Size("zipped"), cl |-> Transfer!Size("zipped")]) /\ Transfer!Exists("zipped")
  <2>1. PICK j : Becomes(j, [pc |-> "stat", name |-> "zipped", zipped |-> TRUE, gz |-> TRUE, size |-> Transfer!Size("zipped"), cl |-> Transfer!Size("zipped")], job[w])
                 /\ Moves(w, j)
    BY <1>4, SetBecomes DEF ReadInv
  <2>2. j.pc = "stat" /\ j.name = "zipped" /\ j.size = Transfer!Size("zipped") /\ j.gz = TRUE
        /\ j.zipped = TRUE /\ j.cl = Transfer!Size("zipped") /\ j.fd = job[w].fd
        /\ j.status = job[w].status /\ j.from = job[w].from /\ j.sent = job[w].sent
    BY <2>1 DEF Becomes
  <2>3. Found(task[w], j, entry, data)
    BY <1>1, <1>2, <1>4, <2>2 DEF Found, Variety, Shut, Closing, Sending, Transfer!Variant,
         Transfer!At, Transfer!Reads
  <2>4. j.status \notin {200, 206} /\ j.name \in Transfer!Names /\ j.pc \notin Sending
        /\ j.sent = <<>> /\ j.from = 0 /\ Turned(w, j)
    BY <1>1, <2>1, <2>2 DEF Sending, Turned
  <2> QED BY <2>3, <2>4, FindingKeeps
<1>5. CASE Transfer!Set(w, [pc |-> "stat"]) /\ ~ job[w].gz
  <2>1. PICK j : Becomes(j, [pc |-> "stat"], job[w])
                 /\ Moves(w, j)
    BY <1>5, SetBecomes DEF ReadInv
  <2>2. j.pc = "stat" /\ j.name = job[w].name /\ j.size = job[w].size /\ j.gz = job[w].gz
        /\ j.zipped = job[w].zipped /\ j.cl = job[w].cl /\ j.fd = job[w].fd
        /\ j.status = job[w].status /\ j.from = job[w].from /\ j.sent = job[w].sent
    BY <2>1 DEF Becomes
  <2>3. Found(task[w], j, entry, data)
    BY <1>1, <1>2, <1>5, <2>2 DEF Found, Variety, Shut, Closing, Sending, Transfer!Variant,
         Transfer!At, Transfer!Reads
  <2>4. j.status \notin {200, 206} /\ j.name \in Transfer!Names /\ j.pc \notin Sending
        /\ j.sent = <<>> /\ j.from = 0 /\ Turned(w, j)
    BY <1>1, <2>1, <2>2 DEF Sending, Turned
  <2> QED BY <2>3, <2>4, FindingKeeps
<1> QED BY <1>3, <1>4, <1>5 DEF Transfer!Variant, Transfer!Ends

LEMMA OpenBodyReads ==
    ASSUME ReadHypothesis, ReadInv, TransferInv', NEW w \in Workers, Transfer!OpenBody(w)
    PROVE  ReadInv'
<1>1. /\ job[w].pc = "start" /\ job[w].pc \in Shut /\ UNCHANGED <<entry, data, task>>
      /\ Found(task[w], job[w], entry, data) /\ job[w].status = 0 /\ job[w].sent = <<>>
      /\ job[w].from = 0
      /\ job[w].name \in Transfer!Names /\ "plain" \in Transfer!Names /\ "zipped" \in Transfer!Names
  BY ReadIs DEF Transfer!OpenBody, Transfer!At, Shut, Found, Transfer!Names
<1>3. CASE Transfer!Set(w, [pc |-> "stat"])
  <2>1. PICK j : Becomes(j, [pc |-> "stat"], job[w])
                 /\ Moves(w, j)
    BY <1>3, SetBecomes DEF ReadInv
  <2>2. j.pc = "stat" /\ j.name = job[w].name /\ j.size = job[w].size /\ j.gz = job[w].gz
        /\ j.zipped = job[w].zipped /\ j.cl = job[w].cl /\ j.fd = job[w].fd
        /\ j.status = job[w].status /\ j.from = job[w].from /\ j.sent = job[w].sent
    BY <2>1 DEF Becomes
  <2>3. Found(task[w], j, entry, data)
    BY <1>1, <1>3, <2>2 DEF Found, Variety, Shut, Closing, Sending, Transfer!OpenBody,
         Transfer!At, Transfer!Reads
  <2>4. j.status \notin {200, 206} /\ j.name \in Transfer!Names /\ j.pc \notin Sending
        /\ j.sent = <<>> /\ j.from = 0 /\ Turned(w, j)
    BY <1>1, <2>1, <2>2 DEF Sending, Turned
  <2> QED BY <2>3, <2>4, FindingKeeps
<1> QED BY <1>3 DEF Transfer!OpenBody, Transfer!Ends

LEMMA RestatReads ==
    ASSUME ReadHypothesis, ReadInv, TransferInv', NEW w \in Workers, Transfer!Restat(w)
    PROVE  ReadInv'
<1>1. /\ job[w].pc = "stat" /\ job[w].pc \in Shut /\ UNCHANGED <<entry, data, task>>
      /\ Found(task[w], job[w], entry, data) /\ job[w].status = 0 /\ job[w].sent = <<>>
      /\ job[w].from = 0
      /\ job[w].name \in Transfer!Names /\ "plain" \in Transfer!Names /\ "zipped" \in Transfer!Names
  BY ReadIs DEF Transfer!Restat, Transfer!At, Shut, Found, Transfer!Names
<1>2. Transfer!Exists(job[w].name) =>
        entry[job[w].name] = job[w].name /\ Transfer!Size(job[w].name) = Len(data[job[w].name])
  BY <1>1, ReadNames
<1>3. CASE Transfer!Set(w, [pc |-> "open", size |-> Transfer!Size(job[w].name), gz |-> FALSE]) /\ Transfer!Exists(job[w].name)
  <2>1. PICK j : Becomes(j, [pc |-> "open", size |-> Transfer!Size(job[w].name), gz |-> FALSE], job[w])
                 /\ Moves(w, j)
    BY <1>3, SetBecomes DEF ReadInv
  <2>2. j.pc = "open" /\ j.name = job[w].name /\ j.size = Transfer!Size(job[w].name)
        /\ j.gz = FALSE /\ j.zipped = job[w].zipped /\ j.cl = job[w].cl /\ j.fd = job[w].fd
        /\ j.status = job[w].status /\ j.from = job[w].from /\ j.sent = job[w].sent
    BY <2>1 DEF Becomes
  <2>3. Found(task[w], j, entry, data)
    BY <1>1, <1>2, <1>3, <2>2 DEF Found, Variety, Shut, Closing, Sending, Transfer!Restat,
         Transfer!At, Transfer!Reads
  <2>4. j.status \notin {200, 206} /\ j.name \in Transfer!Names /\ j.pc \notin Sending
        /\ j.sent = <<>> /\ j.from = 0 /\ Turned(w, j)
    BY <1>1, <2>1, <2>2 DEF Sending, Turned
  <2> QED BY <2>3, <2>4, FindingKeeps
<1>4. CASE Transfer!Set(w, [pc |-> "done", status |-> IF task[w].op = "BODY" THEN -1 ELSE 500])
  <2>1. PICK j : Becomes(j, [pc |-> "done", status |-> IF task[w].op = "BODY" THEN -1 ELSE 500], job[w])
                 /\ Moves(w, j)
    BY <1>4, SetBecomes DEF ReadInv
  <2>2. j.pc = "done" /\ j.name = job[w].name /\ j.size = job[w].size /\ j.gz = job[w].gz
        /\ j.zipped = job[w].zipped /\ j.cl = job[w].cl /\ j.fd = job[w].fd
        /\ j.status = (IF task[w].op = "BODY" THEN -1 ELSE 500) /\ j.from = job[w].from
        /\ j.sent = job[w].sent
    BY <2>1 DEF Becomes
  <2>3. Found(task[w], j, entry, data)
    BY <1>1, <1>2, <1>4, <2>2 DEF Found, Variety, Shut, Closing, Sending, Transfer!Restat,
         Transfer!At, Transfer!Reads
  <2>4. j.status \notin {200, 206} /\ j.name \in Transfer!Names /\ j.pc \notin Sending
        /\ j.sent = <<>> /\ j.from = 0 /\ Turned(w, j)
    BY <1>1, <2>1, <2>2 DEF Sending, Turned
  <2> QED BY <2>3, <2>4, FindingKeeps
<1> QED BY <1>3, <1>4 DEF Transfer!Restat, Transfer!Ends

LEMMA OpenReads ==
    ASSUME ReadHypothesis, ReadInv, TransferInv', NEW w \in Workers, Transfer!Open(w)
    PROVE  ReadInv'
<1>1. /\ job[w].pc = "open" /\ job[w].pc \in Shut /\ UNCHANGED <<entry, data, task>>
      /\ Found(task[w], job[w], entry, data) /\ job[w].status = 0 /\ job[w].sent = <<>>
      /\ job[w].from = 0
      /\ job[w].name \in Transfer!Names /\ "plain" \in Transfer!Names /\ "zipped" \in Transfer!Names
  BY ReadIs DEF Transfer!Open, Transfer!At, Shut, Found, Transfer!Names
<1>2. Transfer!Exists(job[w].name) =>
        entry[job[w].name] = job[w].name /\ Transfer!Size(job[w].name) = Len(data[job[w].name])
  BY <1>1, ReadNames
<1>3. CASE Transfer!Set(w, [pc |-> "header", fd |-> entry[job[w].name]]) /\ Transfer!Exists(job[w].name)
  <2>1. PICK j : Becomes(j, [pc |-> "header", fd |-> entry[job[w].name]], job[w])
                 /\ Moves(w, j)
    BY <1>3, SetBecomes DEF ReadInv
  <2>2. j.pc = "header" /\ j.name = job[w].name /\ j.size = job[w].size /\ j.gz = job[w].gz
        /\ j.zipped = job[w].zipped /\ j.cl = job[w].cl /\ j.fd = entry[job[w].name]
        /\ j.status = job[w].status /\ j.from = job[w].from /\ j.sent = job[w].sent
    BY <2>1 DEF Becomes
  <2>3. Found(task[w], j, entry, data)
    BY <1>1, <1>2, <1>3, <2>2 DEF Found, Variety, Shut, Closing, Sending, Transfer!Open,
         Transfer!At, Transfer!Reads
  <2>4. j.status \notin {200, 206} /\ j.name \in Transfer!Names /\ j.pc \notin Sending
        /\ j.sent = <<>> /\ j.from = 0 /\ Turned(w, j)
    BY <1>1, <2>1, <2>2 DEF Sending, Turned
  <2> QED BY <2>3, <2>4, FindingKeeps
<1>4. CASE Transfer!Set(w, [pc |-> "done", status |-> IF task[w].op = "BODY" THEN -1 ELSE 500])
  <2>1. PICK j : Becomes(j, [pc |-> "done", status |-> IF task[w].op = "BODY" THEN -1 ELSE 500], job[w])
                 /\ Moves(w, j)
    BY <1>4, SetBecomes DEF ReadInv
  <2>2. j.pc = "done" /\ j.name = job[w].name /\ j.size = job[w].size /\ j.gz = job[w].gz
        /\ j.zipped = job[w].zipped /\ j.cl = job[w].cl /\ j.fd = job[w].fd
        /\ j.status = (IF task[w].op = "BODY" THEN -1 ELSE 500) /\ j.from = job[w].from
        /\ j.sent = job[w].sent
    BY <2>1 DEF Becomes
  <2>3. Found(task[w], j, entry, data)
    BY <1>1, <1>2, <1>4, <2>2 DEF Found, Variety, Shut, Closing, Sending, Transfer!Open,
         Transfer!At, Transfer!Reads
  <2>4. j.status \notin {200, 206} /\ j.name \in Transfer!Names /\ j.pc \notin Sending
        /\ j.sent = <<>> /\ j.from = 0 /\ Turned(w, j)
    BY <1>1, <2>1, <2>2 DEF Sending, Turned
  <2> QED BY <2>3, <2>4, FindingKeeps
<1> QED BY <1>3, <1>4 DEF Transfer!Open, Transfer!Ends

(* The file's bytes and the offset, for a reader that has it open. *)
LEMMA SendingIs ==
    ASSUME ReadHypothesis, ReadInv, NEW w \in Workers, job[w].pc \in Sending
    PROVE  \E d \in Seq(Nat), L \in Nat, S \in Nat, f \in Nat, o \in Nat, c \in Int, l \in Int :
             /\ d = data[job[w].name] /\ d = data[job[w].fd] /\ L = Len(d) /\ S = Len(job[w].sent)
             /\ f = job[w].from /\ o = job[w].offset /\ c = job[w].cl /\ l = job[w].left
             /\ l > 0 /\ l + S = c /\ o = Transfer!Smaller(f, L) + S
             /\ job[w].sent = SubSeq(d, f + 1, f + S) /\ job[w].sent \in Seq(Nat)
             /\ Transfer!Available(w) = Transfer!Larger(L - o, 0) /\ job[w].fd # NoFile
<1>1. /\ job[w].fd = job[w].name /\ job[w].name \in Transfer!Names /\ job[w].fd # NoFile
      /\ SentSoFar(task[w], job[w], data)
      /\ job[w].sent \in Seq(Nat) /\ job[w].from \in Nat /\ job[w].offset \in Nat /\ job[w].cl \in Int
      /\ job[w].left \in Int
  BY ReadIs DEF Found, Way, Ajar, Sending
<1>2. PICK d \in Seq(Nat) : d = data[job[w].name]
  BY <1>1, ReadNames
<1>3. PICK L \in Nat : L = Len(d)
  BY <1>2, LenProperties
<1>4. PICK S \in Nat : S = Len(job[w].sent)
  BY <1>1, LenProperties
<1> QED BY <1>1, <1>2, <1>3, <1>4 DEF SentSoFar, Transfer!Available

(* A reader that has begun to send goes on, or ends. *)
LEMMA SendingKeeps ==
    ASSUME ReadHypothesis, ReadInv, TransferInv', NEW w \in Workers, NEW j,
           Turned(w, j),
           job[w].pc \in Sending \cup {"close"}, j.pc \in Sending \cup Closing,
           j.name = job[w].name, j.zipped = job[w].zipped, j.status = job[w].status, j.cl = job[w].cl,
           j.from = job[w].from, j.pc \in Sending => j.fd = job[w].fd /\ job[w].pc \in Sending,
           SentSoFar(task[w], j, data)
    PROVE  ReadInv'
<1>1. Found(task[w], job[w], entry, data) /\ Asked(task[w], job[w], data)
  BY ReadIs
<1>2. Found(task[w], j, entry, data)
  BY <1>1 DEF Found, Variety, Shut, Sending, Closing
<1>3. Asked(task[w], j, data)
  BY <1>1 DEF Asked
<1> QED BY <1>2, <1>3, OneRead

(* What a request asks send_file_data for. *)
Wanted(t, n, d, status, offset, len) ==
    /\ t.op = "GET" /\ status = 200 => offset = 0 /\ len = Len(d[n])
    /\ t.op = "GET" /\ status = 206 =>
         /\ offset = t.range[2]
         /\ t.range[1] = 2 => len = Transfer!Smaller(t.range[3], Len(d[n])) - t.range[2] + 1

(* send_file_data begins. *)
LEMMA SendsReads ==
    ASSUME ReadHypothesis, ReadInv, TransferInv', NEW w \in Workers, job[w].pc = "header",
           NEW status \in {0, 200, 206}, NEW offset \in Nat, NEW len \in Int,
           Transfer!Sends(w, status, offset, len), UNCHANGED <<entry, data, task>>,
           Wanted(task[w], job[w].name, data, status, offset, len)
    PROVE  ReadInv'
<1>1. /\ Found(task[w], job[w], entry, data) /\ job[w].fd = job[w].name /\ job[w].sent = <<>>
      /\ job[w].size = Len(data[job[w].name]) /\ job[w].name \in Transfer!Names
      /\ data[job[w].name] \in Seq(Nat) /\ Len(data[job[w].name]) \in Nat
  BY ReadIs, ReadNames DEF Found, Sending
<1> DEFINE next == IF len <= 0 \/ task[w].op = "HEAD" THEN "close" ELSE IF Sendfile THEN "sendfile" ELSE "copy"
           there == IF offset > job[w].size THEN job[w].size ELSE offset
           r == [pc |-> next, status |-> status, cl |-> len, left |-> len, from |-> offset, offset |-> there]
<1>2. PICK j : Becomes(j, r, job[w]) /\ Moves(w, j)
  BY SetBecomes DEF Transfer!Sends, ReadInv
<1>3. /\ j.pc = next /\ j.left = len /\ j.cl = len /\ j.fd = job[w].fd /\ j.status = status
      /\ j.from = offset /\ j.offset = there /\ j.name = job[w].name /\ j.zipped = job[w].zipped
      /\ j.sent = <<>> /\ j.gz = job[w].gz /\ j.size = job[w].size
  BY <1>1, <1>2 DEF Becomes
<1>4. /\ next \in {"sendfile", "copy", "close"} /\ (next \in Sending => len > 0)
      /\ next \in Closing /\ task[w].op = "GET" => len <= 0
  BY DEF Sending, Closing
<1>5. PICK L \in Nat : L = Len(data[job[w].name])
  BY <1>1
<1>6. there = Transfer!Smaller(offset, L)
  BY <1>1, <1>5 DEF Transfer!Smaller
<1> HIDE DEF next, there
<1>7. Found(task[w], j, entry, data)
  BY ONLY <1>1, <1>3, <1>4 DEF Found, Variety, Shut, Sending, Closing
<1>8. Asked(task[w], j, data)
  BY <1>3 DEF Asked, Wanted
<1>9. SentSoFar(task[w], j, data)
  <2>1. Len(j.sent) = 0 /\ j.sent = SubSeq(data[j.name], j.from + 1, j.from + Len(j.sent))
    <3>1. offset + 0 < offset + 1
      OBVIOUS
    <3>2. SubSeq(data[job[w].name], offset + 1, offset + 0) = <<>>
      BY <1>1, <3>1, SubSeqEmpty
    <3> QED BY <1>3, <3>2
  <2>2. j.pc \in Sending => /\ j.left > 0 /\ j.left + Len(j.sent) = j.cl
                            /\ j.offset = Transfer!Smaller(j.from, Len(data[j.name])) + Len(j.sent)
    <3>1. Transfer!Smaller(offset, L) \in Int
      BY DEF Transfer!Smaller
    <3> QED BY <1>3, <1>4, <1>5, <1>6, <2>1, <3>1
  <2>3. task[w].op = "GET" /\ j.pc \in Closing /\ 0 <= j.cl => Len(j.sent) = j.cl
    BY <1>3, <1>4, <2>1
  <2> QED BY <2>1, <2>2, <2>3 DEF SentSoFar
<1>10. Turned(w, j)
  BY <1>2 DEF Turned
<1> QED BY ONLY <1>7, <1>8, <1>9, <1>10, ReadInv, TransferInv', w \in Workers, OneRead

LEMMA HeaderReads ==
    ASSUME ReadHypothesis, ReadInv, TransferInv', NEW w \in Workers, Transfer!Header(w)
    PROVE  ReadInv'
<1>1. /\ job[w].pc = "header" /\ task[w].op \in {"GET", "HEAD"} /\ UNCHANGED <<entry, data, task>>
      /\ Found(task[w], job[w], entry, data) /\ job[w].status = 0 /\ job[w].sent = <<>>
      /\ job[w].from = 0
      /\ job[w].cl = Len(data[job[w].name]) /\ job[w].name \in Transfer!Names
      /\ job[w].cl \in Int /\ task[w] \in FileTasks
  BY ReadIs DEF Transfer!Header, Transfer!At, Transfer!Reads, Found
<1>2. CASE Transfer!RangeOK(w) /\ Transfer!Sends(w, 206, task[w].range[2], Transfer!RangeLength(w))
  <2>1. task[w].range[2] \in Nat /\ task[w].range[3] \in Int
    <3>1. task[w].range[2] \in Int /\ task[w].range[3] \in Int
      BY <1>1, RangeIs
    <3>2. task[w].range[2] >= 0
      BY <1>2 DEF Transfer!RangeOK
    <3> QED BY ONLY <3>1, <3>2
  <2>2. Transfer!RangeLength(w) \in Int
    BY SMTT(30), <1>1, <2>1 DEF Transfer!RangeLength, Transfer!Smaller
  <2>3. Wanted(task[w], job[w].name, data, 206, task[w].range[2], Transfer!RangeLength(w))
    BY <1>1 DEF Transfer!RangeLength, Wanted
  <2>4. PICK a \in Nat, l \in Int : a = task[w].range[2] /\ l = Transfer!RangeLength(w)
    BY <2>1, <2>2
  <2>5. Transfer!Sends(w, 206, a, l) /\ Wanted(task[w], job[w].name, data, 206, a, l)
    BY <1>2, <2>3, <2>4
  <2>6. job[w].pc = "header" /\ UNCHANGED <<entry, data, task>>
    BY <1>1
  <2> QED BY <2>5, <2>6, SendsReads
<1>3. CASE Transfer!Sends(w, 200, 0, job[w].cl)
  <2>1. 0 \in Nat /\ Wanted(task[w], job[w].name, data, 200, 0, job[w].cl)
    BY <1>1 DEF Wanted
  <2> QED BY <1>1, <1>3, <2>1, SendsReads
<1>4. CASE Transfer!Set(w, [pc |-> "close", status |-> 416])
  <2>1. PICK j : Becomes(j, [pc |-> "close", status |-> 416], job[w]) /\ Moves(w, j)
    BY <1>4, SetBecomes DEF ReadInv
  <2>2. /\ j.pc = "close" /\ j.status = 416 /\ j.name = job[w].name /\ j.zipped = job[w].zipped
        /\ j.sent = <<>> /\ j.from = 0
    BY <1>1, <2>1 DEF Becomes
  <2>3. Found(task[w], j, entry, data)
    BY <1>1, <2>2 DEF Found, Variety, Shut, Sending
  <2>4. j.pc \notin Sending /\ j.status \notin {200, 206} /\ j.name \in Transfer!Names
        /\ j.sent = <<>> /\ j.from = 0
        /\ Turned(w, j)
    BY <1>1, <2>1, <2>2 DEF Sending, Turned
  <2> QED BY <2>3, <2>4, FindingKeeps
<1> QED BY <1>2, <1>3, <1>4 DEF Transfer!Header

LEMMA BodyReads ==
    ASSUME ReadHypothesis, ReadInv, TransferInv', NEW w \in Workers, Transfer!Body(w)
    PROVE  ReadInv'
<1>1. /\ job[w].pc = "header" /\ task[w].op = "BODY" /\ UNCHANGED <<entry, data, task>>
      /\ Transfer!Sends(w, 0, 0, Everything)
  BY DEF Transfer!Body, Transfer!At
<1>2. Everything \in Int /\ 0 \in Nat /\ Wanted(task[w], job[w].name, data, 0, 0, Everything)
  BY <1>1, FileSorts DEF ReadHypothesis, Wanted
<1> QED BY <1>1, <1>2, SendsReads

(* A piece more has been sent. *)
LEMMA SentReads ==
    ASSUME ReadHypothesis, ReadInv, TransferInv', NEW w \in Workers, NEW n \in Nat \ {0}, NEW next \in Sending,
           job[w].pc \in Sending, n <= job[w].left, n <= Transfer!Available(w),
           Transfer!Sent(w, n, next), UNCHANGED <<entry, data, task>>
    PROVE  ReadInv'
<1>1. PICK d \in Seq(Nat), L \in Nat, S \in Nat, f \in Nat, o \in Nat, c \in Int, l \in Int :
        /\ d = data[job[w].name] /\ d = data[job[w].fd] /\ L = Len(d) /\ S = Len(job[w].sent)
        /\ f = job[w].from /\ o = job[w].offset /\ c = job[w].cl /\ l = job[w].left
        /\ l > 0 /\ l + S = c /\ o = Transfer!Smaller(f, L) + S
        /\ job[w].sent = SubSeq(d, f + 1, f + S) /\ job[w].sent \in Seq(Nat)
        /\ Transfer!Available(w) = Transfer!Larger(L - o, 0) /\ job[w].fd # NoFile
  BY SendingIs
<1>2. o = f + S /\ o + n <= L
  <2>1. n <= Transfer!Larger(L - o, 0)
    BY <1>1
  <2>2. o + n <= L
    BY <2>1 DEF Transfer!Larger
  <2>3. o = Transfer!Smaller(f, L) + S
    BY <1>1
  <2> QED BY ONLY <2>2, <2>3, n \in Nat \ {0}, L \in Nat, S \in Nat, f \in Nat,
       o \in Nat DEF Transfer!Smaller
<1>3. /\ job[w].sent \o Transfer!Part(w, n) = SubSeq(d, f + 1, f + (S + n))
      /\ Len(job[w].sent \o Transfer!Part(w, n)) = S + n
  <2>1. Transfer!Part(w, n) = SubSeq(d, o + 1, o + n)
    BY <1>1 DEF Transfer!Part
  <2>2. PICK p \in Nat : p = o + n
    OBVIOUS
  <2>3. f <= o /\ o <= p /\ f <= p /\ p <= L /\ o = f + S /\ p = f + (S + n) /\ p - f = S + n
    BY ONLY <1>2, <2>2, n \in Nat \ {0}, L \in Nat, S \in Nat, f \in Nat, o \in Nat, p \in Nat
  <2>4. L = Len(d) /\ job[w].sent = SubSeq(d, f + 1, f + S)
    BY <1>1
  <2>5. p <= Len(d)
    BY <2>3, <2>4
  <2>6. SubSeq(d, f + 1, o) \o SubSeq(d, o + 1, p) = SubSeq(d, f + 1, p)
    BY ONLY <2>3, <2>5, d \in Seq(Nat), f \in Nat, o \in Nat, p \in Nat, PieceAfterPiece
  <2>7. Len(SubSeq(d, f + 1, p)) = p - f
    BY ONLY <2>3, <2>5, d \in Seq(Nat), f \in Nat, p \in Nat, PieceIs
  <2> QED BY ONLY <2>1, <2>2, <2>3, <2>4, <2>6, <2>7
<1> DEFINE more == job[w].sent \o Transfer!Part(w, n)
           r == [pc |-> IF job[w].left = n THEN "close" ELSE next, left |-> job[w].left - n,
                 offset |-> job[w].offset + n, loops |-> Transfer!Smaller(job[w].loops + 1, 1),
                 sent |-> job[w].sent \o Transfer!Part(w, n)]
<1>4. PICK j : Becomes(j, r, job[w]) /\ Moves(w, j)
  BY SetBecomes DEF Transfer!Sent, ReadInv
<1>5. /\ j.pc = (IF l = n THEN "close" ELSE next) /\ j.left = l - n /\ j.fd = job[w].fd
      /\ j.name = job[w].name /\ j.zipped = job[w].zipped /\ j.status = job[w].status /\ j.cl = c
      /\ j.from = f /\ j.offset = o + n /\ j.sent = more
  BY <1>1, <1>4 DEF Becomes
<1> HIDE DEF more, r
<1>6. /\ j.pc \in Sending => l # n
      /\ j.pc \in Closing => l = n
      /\ j.pc \in Sending \cup Closing
  BY <1>5 DEF Sending, Closing
<1>7. more = SubSeq(d, f + 1, f + (S + n)) /\ Len(more) = S + n
  BY <1>3 DEF more
<1>8. SentSoFar(task[w], j, data)
  <2>1. j.sent = SubSeq(data[j.name], j.from + 1, j.from + Len(j.sent)) /\ Len(j.sent) = S + n
    BY <1>1, <1>5, <1>7
  <2>2. j.pc \in Sending => /\ j.left > 0 /\ j.left + Len(j.sent) = j.cl
                            /\ j.offset = Transfer!Smaller(j.from, Len(data[j.name])) + Len(j.sent)
    <3>1. l # n => l - n > 0
      <4>1. n <= l
        BY <1>1
      <4> QED BY <4>1
    <3>2. (l - n) + (S + n) = c
      <4>1. l + S = c
        BY <1>1
      <4> QED BY ONLY <4>1, l \in Int, S \in Nat, n \in Nat \ {0}, c \in Int
    <3>3. o + n = Transfer!Smaller(f, L) + (S + n)
      <4>1. Transfer!Smaller(f, L) = f
        BY ONLY <1>2, n \in Nat \ {0}, L \in Nat, S \in Nat, f \in Nat,
             o \in Nat DEF Transfer!Smaller
      <4> QED BY ONLY <4>1, <1>2, n \in Nat \ {0}, S \in Nat, f \in Nat, o \in Nat
    <3>4. Len(data[j.name]) = L
      BY <1>1, <1>5
    <3> QED BY <1>5, <1>6, <2>1, <3>1, <3>2, <3>3, <3>4
  <2>3. j.pc \in Closing => Len(j.sent) = j.cl
    <3>1. l = n => S + n = c
      <4>1. l + S = c
        BY <1>1
      <4> QED BY ONLY <4>1, l \in Int, S \in Nat, n \in Nat \ {0}, c \in Int
    <3> QED BY <1>5, <1>6, <2>1, <3>1
  <2> QED BY <2>1, <2>2, <2>3 DEF SentSoFar
<1>9. /\ job[w].pc \in Sending \cup {"close"} /\ j.pc \in Sending \cup Closing
      /\ j.name = job[w].name /\ j.zipped = job[w].zipped /\ j.status = job[w].status
      /\ j.cl = job[w].cl
      /\ j.from = job[w].from /\ j.fd = job[w].fd
      /\ Turned(w, j)
  BY <1>1, <1>4, <1>5, <1>6 DEF Turned
<1> QED BY <1>8, <1>9, SendingKeeps

LEMMA SendfileSomeReads ==
    ASSUME ReadHypothesis, ReadInv, TransferInv', NEW w \in Workers, Transfer!SendfileSome(w)
    PROVE  ReadInv'
<1>1. PICK n \in 1 .. Transfer!Smaller(job[w].left, Transfer!Available(w)) : Transfer!Sent(w, n, "sendfile")
  BY DEF Transfer!SendfileSome
<1>2. job[w].left \in Int /\ Transfer!Available(w) \in Nat
  <2>1. job[w].pc \in Sending /\ job[w] \in FileJobs
    BY ReadIs DEF Transfer!SendfileSome, Sending
  <2> QED BY <2>1, AvailableIs DEF FileJobs, ReadHypothesis, ReadInv
<1>3. n \in Nat \ {0} /\ n <= job[w].left /\ n <= Transfer!Available(w)
  BY <1>1, <1>2 DEF Transfer!Smaller
<1> QED BY <1>1, <1>3, SentReads DEF Transfer!SendfileSome, Sending

(* A file that ends before the length asked for; a reader that is told so  *)
(* only stops where a request within the file has got its length.          *)
LEMMA StopsReads ==
    ASSUME ReadHypothesis, ReadInv, TransferInv', NEW w \in Workers, NEW j, Turned(w, j), job[w].pc \in Sending, j.pc = "close",
           Transfer!Available(w) = 0 \/ j.gone,
           j.name = job[w].name, j.zipped = job[w].zipped, j.status = job[w].status, j.cl = job[w].cl,
           j.from = job[w].from, j.sent = job[w].sent
    PROVE  ReadInv'
<1>1. PICK d \in Seq(Nat), L \in Nat, S \in Nat, f \in Nat, o \in Nat, c \in Int, l \in Int :
        /\ d = data[job[w].name] /\ d = data[job[w].fd] /\ L = Len(d) /\ S = Len(job[w].sent)
        /\ f = job[w].from /\ o = job[w].offset /\ c = job[w].cl /\ l = job[w].left
        /\ l > 0 /\ l + S = c /\ o = Transfer!Smaller(f, L) + S
        /\ job[w].sent = SubSeq(d, f + 1, f + S) /\ job[w].sent \in Seq(Nat)
        /\ Transfer!Available(w) = Transfer!Larger(L - o, 0) /\ job[w].fd # NoFile
  BY SendingIs
<1>2. ~ j.gone /\ f + c <= L => S = c
  <2>1. SUFFICES ASSUME ~ j.gone, f + c <= L PROVE S = c
    OBVIOUS
  <2>2. Transfer!Larger(L - o, 0) = 0
    BY <1>1, <2>1
  <2>3. o >= L
    BY <2>2 DEF Transfer!Larger
  <2>4. o = Transfer!Smaller(f, L) + S /\ l > 0 /\ l + S = c
    BY <1>1
  <2> QED BY ONLY <2>1, <2>3, <2>4, L \in Nat, S \in Nat, f \in Nat, o \in Nat, c \in Int,
       l \in Int
          DEF Transfer!Smaller
<1>3. SentSoFar(task[w], j, data)
  BY ONLY ZenonT(40), <1>1, <1>2, j.pc = "close", j.name = job[w].name, j.cl = job[w].cl,
       j.from = job[w].from,
          j.sent = job[w].sent DEF SentSoFar, Sending
<1>4. j.pc \in Sending \cup Closing /\ job[w].pc \in Sending \cup {"close"} /\ j.pc \notin Sending
  BY DEF Sending, Closing
<1> QED BY <1>3, <1>4, SendingKeeps

(* Another way of sending takes over. *)
LEMMA TurnsReads ==
    ASSUME ReadHypothesis, ReadInv, TransferInv', NEW w \in Workers, NEW j, Turned(w, j), job[w].pc \in Sending, j.pc = "copy",
           j.name = job[w].name, j.zipped = job[w].zipped, j.status = job[w].status, j.cl = job[w].cl,
           j.from = job[w].from, j.sent = job[w].sent, j.fd = job[w].fd, j.left = job[w].left,
           j.offset = job[w].offset
    PROVE  ReadInv'
<1>1. SentSoFar(task[w], job[w], data)
  BY ReadIs
<1>2. SentSoFar(task[w], j, data)
  BY <1>1 DEF SentSoFar, Sending, Closing
<1>3. j.pc \in Sending \cup Closing /\ job[w].pc \in Sending \cup {"close"}
  BY DEF Sending
<1> QED BY <1>2, <1>3, SendingKeeps

LEMMA SendfileNoneReads ==
    ASSUME ReadHypothesis, ReadInv, TransferInv', NEW w \in Workers, Transfer!SendfileNone(w)
    PROVE  ReadInv'
<1> DEFINE next == IF job[w].loops = 0 THEN "copy" ELSE "close"
<1>1. /\ job[w].pc \in Sending /\ Transfer!Available(w) = 0 /\ UNCHANGED <<entry, data, task>>
      /\ Transfer!Set(w, [pc |-> next])
  BY DEF Transfer!SendfileNone, Sending
<1>2. next \in {"copy", "close"}
  OBVIOUS
<1> HIDE DEF next
<1>3. PICK j : Becomes(j, [pc |-> next], job[w]) /\ Moves(w, j)
  BY <1>1, SetBecomes DEF ReadInv
<1>4. /\ j.pc = next /\ j.name = job[w].name /\ j.zipped = job[w].zipped /\ j.status = job[w].status
      /\ j.cl = job[w].cl /\ j.from = job[w].from /\ j.sent = job[w].sent /\ j.fd = job[w].fd
      /\ j.left = job[w].left /\ j.offset = job[w].offset
      /\ Turned(w, j)
  BY <1>1, <1>3 DEF Becomes, Turned
<1>5. CASE next = "close"
  BY <1>1, <1>4, <1>5, StopsReads
<1>6. CASE next = "copy"
  BY <1>1, <1>4, <1>6, TurnsReads
<1> QED BY <1>2, <1>5, <1>6

LEMMA SendfileErrorReads ==
    ASSUME ReadHypothesis, ReadInv, TransferInv', NEW w \in Workers, Transfer!SendfileError(w)
    PROVE  ReadInv'
<1>1. /\ job[w].pc \in Sending /\ UNCHANGED <<entry, data, task>> /\ Transfer!Set(w, [pc |-> "copy"])
  BY DEF Transfer!SendfileError, Sending
<1>2. PICK j : Becomes(j, [pc |-> "copy"], job[w]) /\ Moves(w, j)
  BY <1>1, SetBecomes DEF ReadInv
<1>3. /\ j.pc = "copy" /\ j.name = job[w].name /\ j.zipped = job[w].zipped /\ j.status = job[w].status
      /\ j.cl = job[w].cl /\ j.from = job[w].from /\ j.sent = job[w].sent /\ j.fd = job[w].fd
      /\ j.left = job[w].left /\ j.offset = job[w].offset
      /\ Turned(w, j)
  BY <1>1, <1>2 DEF Becomes, Turned
<1> QED BY <1>1, <1>3, TurnsReads

LEMMA CopyReads ==
    ASSUME ReadHypothesis, ReadInv, TransferInv', NEW w \in Workers, Transfer!Copy(w)
    PROVE  ReadInv'
<1>1. /\ job[w].left \in Int /\ job[w].left > 0 /\ Transfer!Available(w) \in Nat /\ BufLen \in Nat \ {0}
      /\ job[w].pc \in Sending /\ UNCHANGED <<entry, data, task>>
  BY AvailableIs, WorkerIs, FileSorts DEF Transfer!Copy, FileJobs, Way, Sending,
       ReadHypothesis, ReadInv
<1> DEFINE n == Transfer!Smaller(Transfer!Smaller(BufLen, job[w].left), Transfer!Available(w))
<1>2. CASE Transfer!Available(w) > 0 /\ Transfer!Sent(w, n, "copy")
  <2>1. n \in Nat \ {0} /\ n <= job[w].left /\ n <= Transfer!Available(w)
    BY <1>1, <1>2 DEF Transfer!Smaller
  <2> HIDE DEF n
  <2> QED BY <1>1, <1>2, <2>1, SentReads DEF Sending
<1>3. CASE Transfer!Available(w) = 0 /\ Transfer!Set(w, [pc |-> "close"])
  <2>1. PICK j : Becomes(j, [pc |-> "close"], job[w]) /\ Moves(w, j)
    BY <1>3, SetBecomes DEF ReadInv
  <2>2. /\ j.pc = "close" /\ j.name = job[w].name /\ j.zipped = job[w].zipped
        /\ j.status = job[w].status
        /\ j.cl = job[w].cl /\ j.from = job[w].from /\ j.sent = job[w].sent
        /\ Turned(w, j)
    BY <1>1, <2>1 DEF Becomes, Turned
  <2> QED BY <1>1, <1>3, <2>2, StopsReads
<1>4. CASE Transfer!Set(w, [pc |-> "close", gone |-> TRUE])
  <2>1. PICK j : Becomes(j, [pc |-> "close", gone |-> TRUE], job[w]) /\ Moves(w, j)
    BY <1>4, SetBecomes DEF ReadInv
  <2>2. /\ j.pc = "close" /\ j.name = job[w].name /\ j.zipped = job[w].zipped
        /\ j.status = job[w].status
        /\ j.cl = job[w].cl /\ j.from = job[w].from /\ j.sent = job[w].sent /\ j.gone
        /\ Turned(w, j)
    BY <1>1, <2>1 DEF Becomes, Turned
  <2> QED BY <1>1, <2>2, StopsReads
<1> QED BY <1>2, <1>3, <1>4 DEF Transfer!Copy

LEMMA CloseReadReads ==
    ASSUME ReadHypothesis, ReadInv, TransferInv', NEW w \in Workers, Transfer!CloseRead(w)
    PROVE  ReadInv'
<1>1. /\ job[w].pc = "close" /\ UNCHANGED <<entry, data, task>>
      /\ Transfer!Set(w, [pc |-> "done", fd |-> NoFile])
  BY DEF Transfer!CloseRead, Transfer!At
<1>2. PICK j : Becomes(j, [pc |-> "done", fd |-> NoFile], job[w]) /\ Moves(w, j)
  BY <1>1, SetBecomes DEF ReadInv
<1>3. /\ j.pc = "done" /\ j.name = job[w].name /\ j.zipped = job[w].zipped /\ j.status = job[w].status
      /\ j.cl = job[w].cl /\ j.from = job[w].from /\ j.sent = job[w].sent /\ j.gone = job[w].gone
      /\ Turned(w, j)
  BY <1>1, <1>2 DEF Becomes, Turned
<1>4. SentSoFar(task[w], job[w], data)
  BY ReadIs
<1>5. SentSoFar(task[w], j, data)
  BY ONLY <1>1, <1>3, <1>4 DEF SentSoFar, Sending, Closing
<1>6. j.pc \in Sending \cup Closing /\ job[w].pc \in Sending \cup {"close"} /\ j.pc \notin Sending
  BY <1>1, <1>3 DEF Sending, Closing
<1> QED BY <1>3, <1>5, <1>6, SendingKeeps

LEMMA ReadInit == ASSUME ReadHypothesis PROVE Transfer!Init => ReadInv
<1> SUFFICES ASSUME Transfer!Init PROVE ReadInv
  OBVIOUS
<1>1. TransferInv
  BY TransferInit DEF ReadHypothesis
<1>2. \A n \in Transfer!Names : entry[n] \in {n, NoFile}
  BY DEF Transfer!Init
<1>3. ASSUME NEW w \in Workers
      PROVE  /\ Found(task[w], job[w], entry, data) /\ Asked(task[w], job[w], data)
             /\ SentSoFar(task[w], job[w], data)
  <2>1. /\ job[w].pc = "start" /\ job[w].name = "plain" /\ ~ job[w].gz /\ ~ job[w].zipped
        /\ job[w].sent = <<>> /\ job[w].from = 0 /\ job[w].status = 0
    BY DEF Transfer!Init
  <2>2. Found(task[w], job[w], entry, data)
    BY <2>1 DEF Found, Variety, Sending
  <2>3. data["plain"] \in Seq(Nat)
    BY <1>1 DEF TransferInv, TransferTyped, Transfer!Inodes, Transfer!Names
  <2>4. job[w].from \in Nat /\ job[w].status \notin {200, 206} /\ job[w].pc \notin Sending
        /\ data[job[w].name] \in Seq(Nat) /\ job[w].sent = <<>>
    BY <2>1, <2>3 DEF Sending
  <2> QED BY <2>2, <2>4, Unsent
<1> QED BY <1>1, <1>2, <1>3 DEF ReadInv

LEMMA ReadStep ==
    ASSUME ReadHypothesis PROVE ReadInv /\ [Transfer!Next]_(Transfer!vars) => ReadInv'
<1> SUFFICES ASSUME ReadInv, [Transfer!Next]_(Transfer!vars) PROVE ReadInv'
  OBVIOUS
<1>1. TransferInv /\ TransferInv'
  BY TransferStep DEF ReadInv, ReadHypothesis
<1>2. CASE UNCHANGED Transfer!vars
  <2>1. entry' = entry /\ data' = data /\ task' = task /\ job' = job
    BY <1>2 DEF Transfer!vars
  <2> QED BY <1>1, <2>1 DEF ReadInv, Found, Asked, SentSoFar, Variety, Shut, Closing, Sending,
       Transfer!Smaller,
                            Transfer!Names
<1>3. CASE Transfer!Next
  <2>1. PICK w \in Workers :
          \/ Transfer!Stat(w) \/ Transfer!Variant(w) \/ Transfer!Restat(w) \/ Transfer!Open(w)
          \/ Transfer!OpenBody(w) \/ Transfer!Header(w) \/ Transfer!Body(w)
          \/ Transfer!SendfileSome(w) \/ Transfer!SendfileNone(w) \/ Transfer!SendfileError(w)
          \/ Transfer!Copy(w) \/ Transfer!CloseRead(w)
          \/ Transfer!Put(w) \/ Transfer!Store(w) \/ Transfer!OpenWrite(w) \/ Transfer!Seek(w)
          \/ Transfer!Forward(w) \/ Transfer!Receive(w) \/ Transfer!Flush(w) \/ Transfer!Received(w)
          \/ Transfer!Lost(w) \/ Transfer!WriteFails(w) \/ Transfer!ClosePut(w) \/ Transfer!CloseStore(w)
    BY <1>3 DEF Transfer!Next
  <2>2. /\ task[w].op \in {"GET", "HEAD", "BODY"}
        /\ job[w].pc \in Shut \cup {"header", "sendfile", "copy"} \cup Closing
    BY ReadIs DEF Way, Shut, Closing
  <2>3. ~ (\/ Transfer!Put(w) \/ Transfer!Store(w) \/ Transfer!OpenWrite(w) \/ Transfer!Seek(w)
           \/ Transfer!Forward(w) \/ Transfer!Receive(w) \/ Transfer!Flush(w) \/ Transfer!Received(w)
           \/ Transfer!Lost(w) \/ Transfer!WriteFails(w) \/ Transfer!ClosePut(w) \/ Transfer!CloseStore(w))
    BY ONLY <2>2 DEF Shut, Closing, Transfer!At, Transfer!Put, Transfer!Store,
         Transfer!OpenWrite, Transfer!Writers,
           Transfer!Seek, Transfer!Forward, Transfer!Receive, Transfer!Flush, Transfer!Received, Transfer!Lost,
           Transfer!WriteFails, Transfer!ClosePut, Transfer!CloseStore
  <2> QED BY <1>1, <2>1, <2>3, StatReads, VariantReads, RestatReads, OpenReads, OpenBodyReads,
       HeaderReads, BodyReads,
             SendfileSomeReads, SendfileNoneReads, SendfileErrorReads, CopyReads, CloseReadReads
<1> QED BY <1>2, <1>3

LEMMA OriginalIs ==
    ASSUME ReadHypothesis, ReadInv, NEW w \in Workers
    PROVE  /\ Transfer!Original(w) = data[job[w].name] /\ Transfer!Original(w) \in Seq(Nat)
           /\ job[w].from \in Nat /\ job[w].cl \in Int /\ SentSoFar(task[w], job[w], data)
           /\ Asked(task[w], job[w], data)
<1>1. job[w].name = Variety(job[w]) /\ job[w].name \in Transfer!Names
  BY ReadIs DEF Found
<1>2. data[job[w].name] \in Seq(Nat)
  BY <1>1, ReadNames
<1> QED BY <1>1, <1>2, ReadIs DEF Transfer!Original, Variety

(* A GET that has ended, within the file, has sent the length it said. *)
LEMMA SentAll ==
    ASSUME ReadHypothesis, ReadInv, NEW w \in Workers, task[w].op = "GET", job[w].pc = "done",
           job[w].status \in {200, 206}, ~ job[w].gone, 0 <= job[w].cl,
           job[w].from + job[w].cl <= Len(Transfer!Original(w))
    PROVE  /\ Len(job[w].sent) = job[w].cl
           /\ job[w].sent = SubSeq(Transfer!Original(w), job[w].from + 1, job[w].from + job[w].cl)
<1>1. Transfer!Original(w) = data[job[w].name] /\ SentSoFar(task[w], job[w], data)
  BY OriginalIs
<1>2. job[w].pc \in Closing /\ job[w].from + job[w].cl <= Len(data[job[w].name])
  BY <1>1 DEF Closing
<1>3. Len(job[w].sent) = job[w].cl
  BY <1>1, <1>2 DEF SentSoFar
<1>4. job[w].sent = SubSeq(data[job[w].name], job[w].from + 1, job[w].from + Len(job[w].sent))
  BY <1>1 DEF SentSoFar
<1> QED BY <1>1, <1>3, <1>4

(* While nobody writes, a GET that is answered 200 and whose client stays  *)
(* gets all of the file, plain or zipped as the answer says, however       *)
(* sendfile and the copying share the work (send_file_data).               *)
THEOREM ReadWhole == ASSUME ReadHypothesis PROVE Transfer!Spec => []Transfer!WholeFileSent
<1>1. ReadInv => Transfer!WholeFileSent
  <2>1. SUFFICES ASSUME ReadInv, NEW w \in Workers, Transfer!Done(w, {"GET"}), job[w].status = 200, ~ job[w].gone
                 PROVE  job[w].sent = Transfer!Original(w) /\ job[w].cl = Len(Transfer!Original(w))
    BY DEF Transfer!WholeFileSent
  <2>2. task[w].op = "GET" /\ job[w].pc = "done"
    BY <2>1 DEF Transfer!Done, Transfer!At
  <2>3. PICK d \in Seq(Nat) : d = Transfer!Original(w) /\ d = data[job[w].name]
    BY <2>1, OriginalIs
  <2>4. Len(d) \in Nat
    BY LenProperties
  <2>5. job[w].from = 0 /\ job[w].cl = Len(d)
    BY <2>1, <2>2, <2>3, OriginalIs DEF Asked
  <2>6. 0 <= job[w].cl /\ job[w].from + job[w].cl <= Len(Transfer!Original(w)) /\ 0 + Len(d) = Len(d)
    BY <2>3, <2>4, <2>5
  <2>7. job[w].sent = SubSeq(Transfer!Original(w), job[w].from + 1, job[w].from + job[w].cl)
    BY <2>1, <2>2, <2>6, SentAll
  <2>8. job[w].sent = SubSeq(d, 1, Len(d))
    <3>1. job[w].from + 1 = 1 /\ job[w].from + job[w].cl = Len(d)
      BY ONLY <2>4, <2>5, <2>6
    <3>2. d = Transfer!Original(w)
      BY <2>3
    <3> QED BY ONLY <2>7, <3>1, <3>2
  <2>9. SubSeq(d, 1, Len(d)) = d
    OBVIOUS
  <2> QED BY <2>3, <2>5, <2>8, <2>9
<1> QED BY <1>1, ReadInit, ReadStep, PTL DEF Transfer!Spec

(* While nobody writes, no client has at any time got other bytes than     *)
(* those from the requested position on (send_file_data).                  *)
THEOREM ReadInPlace == ASSUME ReadHypothesis PROVE Transfer!Spec => []Transfer!BytesInPlace
<1>1. ReadInv => Transfer!BytesInPlace
  <2>1. SUFFICES ASSUME ReadInv, NEW w \in Workers
                 PROVE  job[w].sent = SubSeq(Transfer!Original(w), job[w].from + 1, job[w].from + Len(job[w].sent))
    BY DEF Transfer!BytesInPlace
  <2> QED BY <2>1, OriginalIs DEF SentSoFar
<1> QED BY <1>1, ReadInit, ReadStep, PTL DEF Transfer!Spec

(* While nobody writes, a range inside the file is sent as it was asked    *)
(* for (handle_static_file_request's Content-Range arithmetic).            *)
THEOREM ReadRange == ASSUME ReadHypothesis PROVE Transfer!Spec => []Transfer!ValidRangeSent
<1>1. ReadInv => Transfer!ValidRangeSent
  <2>1. SUFFICES ASSUME ReadInv, NEW w \in Workers, Transfer!Done(w, {"GET"}), job[w].status = 206, ~ job[w].gone,
                        task[w].range[1] = 2, 0 <= task[w].range[2], task[w].range[2] <= task[w].range[3],
                        task[w].range[3] < Len(Transfer!Original(w))
                 PROVE  job[w].sent = SubSeq(Transfer!Original(w), task[w].range[2] + 1, task[w].range[3] + 1)
    BY DEF Transfer!ValidRangeSent
  <2>2. task[w].op = "GET" /\ job[w].pc = "done" /\ task[w] \in FileTasks
    BY <2>1, ReadIs DEF Transfer!Done, Transfer!At
  <2>3. PICK d \in Seq(Nat) : d = Transfer!Original(w) /\ d = data[job[w].name]
    BY <2>1, OriginalIs
  <2>4. PICK L \in Nat : L = Len(d)
    BY LenProperties
  <2>5. PICK a \in Int, b \in Int : a = task[w].range[2] /\ b = task[w].range[3]
    BY <2>2, RangeIs
  <2>6. 0 <= a /\ a <= b /\ b < L
    BY <2>1, <2>3, <2>4, <2>5
  <2>7. job[w].from = a /\ job[w].cl = Transfer!Smaller(b, L) - a + 1
    BY <2>1, <2>2, <2>3, <2>4, <2>5, OriginalIs DEF Asked
  <2>8. job[w].cl = b - a + 1 /\ 0 <= job[w].cl /\ job[w].from + job[w].cl <= L
    BY ONLY <2>6, <2>7, L \in Nat, a \in Int, b \in Int DEF Transfer!Smaller
  <2>9. job[w].sent = SubSeq(Transfer!Original(w), job[w].from + 1, job[w].from + job[w].cl)
    BY <2>1, <2>2, <2>3, <2>4, <2>8, SentAll
  <2>10. a + job[w].cl = b + 1
    BY ONLY <2>8, a \in Int, b \in Int
  <2>11. job[w].from + job[w].cl = task[w].range[3] + 1 /\ job[w].from = task[w].range[2]
    BY <2>5, <2>7, <2>10
  <2> QED BY <2>9, <2>11
<1> QED BY <1>1, ReadInit, ReadStep, PTL DEF Transfer!Spec
=============================================================================
