------------------------------ MODULE DavFiles ------------------------------
(***************************************************************************)
(* What DELETE, MKCOL, MOVE, COPY, PROPFIND and a directory listing do to  *)
(* the file system and see of it (src/Server/civetweb/civetweb.c:          *)
(* delete_file with remove_directory, dav_mkcol, dav_move_file,            *)
(* scan_directory with the callbacks of its users).  Worker threads run    *)
(* them at the same time; a system call is a step.                         *)
(*                                                                         *)
(* A path is a sequence of names.  The tree maps every path there is to    *)
(* "dir" or to the identity of a file.                                     *)
(***************************************************************************)
EXTENDS Naturals, Sequences, FiniteSets, SequencesExt

CONSTANTS
    Workers,
    Names,
    Trees,          \* functions from paths to "dir" or a file
    Tasks,          \* [op, path, dest, overwrite, body]
    ReadOnly,       \* files without write permission
    Sealed,         \* directories whose entries cannot be changed
    TooLong,        \* paths that do not fit UTF8_PATH_MAX
    Hidden,         \* names that match config HIDE_FILES
    ArrSize,        \* dir_scan_data.arr_size at first
    MayFail         \* whether allocations fail

VARIABLES
    tree,
    task,
    pc,
    stack,          \* worker -> the remove_directory calls it is in
    found,          \* worker -> dir_scan_data: the entries
    arr_size,       \* worker -> their capacity, 0 before there are any
    todo,           \* worker -> what readdir has still to bring
    answer          \* worker -> status, 0 before

scan == <<found, arr_size, todo>>
vars == <<tree, task, pc, stack, scan, answer>>

Kinds == {"dir"} \cup UNION {{t[p] : p \in DOMAIN t} : t \in Trees}

TypeOK ==
    /\ \A p \in DOMAIN tree : tree[p] \in Kinds
    /\ \A p \in DOMAIN tree : p = <<>> \/ Front(p) \in DOMAIN tree
    /\ pc \in [Workers -> {"start", "entries", "remove", "stat", "rename", "mkdir", "scan", "done"}]
    /\ \A w \in Workers :
         answer[w] \in {0, 200, 201, 204, 207, 400, 403, 404, 405, 409, 412, 415, 423, 500, 502}

Init ==
    /\ tree \in Trees
    /\ task \in [Workers -> Tasks]
    /\ pc = [w \in Workers |-> "start"]
    /\ stack = [w \in Workers |-> <<>>]
    /\ found = [w \in Workers |-> {}]
    /\ arr_size = [w \in Workers |-> 0]
    /\ todo = [w \in Workers |-> {}]
    /\ answer = [w \in Workers |-> 0]

-----------------------------------------------------------------------------
(* The file system *)
Exists(p) == p \in DOMAIN tree
IsDir(p) == Exists(p) /\ tree[p] = "dir"
Entries(p) == {n \in Names : Exists(Append(p, n))}
Below(p) == {q \in DOMAIN tree : IsPrefix(p, q)}
Changeable(p) == p # <<>> /\ Front(p) \notin Sealed

(* remove(3): a file, or an empty directory. *)
Removable(p) == Exists(p) /\ Entries(p) = {} /\ Changeable(p)
Without(ps) == [q \in DOMAIN tree \ ps |-> tree[q]]

(* rename(2): the tree it leaves. *)
Moved(p, d) == [q \in Below(p) |-> d \o SubSeq(q, Len(p) + 1, Len(q))]
Renamed(p, d) ==
    LET kept == (DOMAIN tree \ Below(p)) \ {d}
        moved == {Moved(p, d)[q] : q \in Below(p)}
    IN  [q \in kept \cup moved |->
            IF q \in moved THEN tree[CHOOSE o \in Below(p) : Moved(p, d)[o] = q] ELSE tree[q]]

(* ... and the errno it fails with, "" if it succeeds. *)
RenameError(p, d) ==
    CASE ~ Exists(p) \/ ~ IsDir(Front(d)) -> "ENOENT"
      [] Exists(p) /\ IsDir(Front(d)) /\ ~ (Changeable(p) /\ Changeable(d)) -> "EACCES"
      [] Exists(d) /\ d # p /\ (IsDir(p) # IsDir(d) \/ Entries(d) # {}) -> "other"
      [] IsStrictPrefix(p, d) -> "other"
      [] OTHER -> ""

Go(w, next) == pc' = [pc EXCEPT ![w] = next] /\ UNCHANGED answer
Answer(w, status) == pc' = [pc EXCEPT ![w] = "done"] /\ answer' = [answer EXCEPT ![w] = status]
At(w, next, ops) == pc[w] = next /\ task[w].op \in ops

-----------------------------------------------------------------------------
(* DELETE *)

(* A call of remove_directory, with the entries that readdir will bring.   *)
Call(p) == [dir |-> p, entries |-> Entries(p), ok |-> TRUE]

Delete(w) ==
    /\ At(w, "start", {"DELETE"})
    /\ LET p == task[w].path
       IN  CASE ~ Exists(p) -> Answer(w, 404) /\ UNCHANGED <<tree, stack>>
             [] IsDir(p) -> /\ stack' = [stack EXCEPT ![w] = <<Call(p)>>]
                            /\ Go(w, "entries") /\ UNCHANGED tree
             [] Exists(p) /\ ~ IsDir(p) /\ tree[p] \in ReadOnly ->
                  Answer(w, 403) /\ UNCHANGED <<tree, stack>>
             [] OTHER -> Go(w, "stat") /\ UNCHANGED <<tree, stack>>
    /\ UNCHANGED <<task, scan>>

DeleteFile(w) ==
    /\ At(w, "stat", {"DELETE"})
    /\ LET p == task[w].path
       IN  IF Removable(p) THEN tree' = Without({p}) /\ Answer(w, 204)
           ELSE UNCHANGED tree /\ Answer(w, 423)
    /\ UNCHANGED <<task, stack, scan>>

Top(w) == Last(stack[w])
SetTop(w, r) == stack' = [stack EXCEPT ![w] = Append(Front(@), r)]

(* An entry: a directory is removed by a call of its own, anything else by *)
(* mg_remove, whose success makes ok 0.  (mg_stat and mg_remove in one     *)
(* step.)                                                                  *)
RemoveEntry(w) ==
    /\ pc[w] = "entries"
    /\ \E n \in Top(w).entries :
         LET p == Append(Top(w).dir, n)
             rest == [Top(w) EXCEPT !.entries = @ \ {n}]
         IN  CASE p \in TooLong \/ ~ Exists(p) ->
                    SetTop(w, [rest EXCEPT !.ok = FALSE]) /\ UNCHANGED tree
               [] IsDir(p) /\ p \notin TooLong ->
                    /\ stack' = [stack EXCEPT ![w] = Append(Append(Front(@), rest), Call(p))]
                    /\ UNCHANGED tree
               [] OTHER ->
                    IF Removable(p)
                      THEN tree' = Without({p}) /\ SetTop(w, [rest EXCEPT !.ok = FALSE])
                      ELSE UNCHANGED tree /\ SetTop(w, rest)
    /\ UNCHANGED <<task, pc, scan, answer>>

(* The call ends with rmdir, whatever comes of it; its result is ok.       *)
RemoveDir(w) ==
    /\ pc[w] = "entries"
    /\ Top(w).entries = {}
    /\ tree' = IF IsDir(Top(w).dir) /\ Removable(Top(w).dir) THEN Without({Top(w).dir}) ELSE tree
    /\ LET calls == Front(stack[w])
           ok == Top(w).ok
       IN  IF calls = <<>>
             THEN /\ stack' = [stack EXCEPT ![w] = <<>>]
                  /\ Answer(w, IF ok THEN 204 ELSE 500)
             ELSE /\ stack' = [stack EXCEPT ![w] =
                        Append(Front(calls), [Last(calls) EXCEPT !.ok = @ /\ ok])]
                  /\ UNCHANGED <<pc, answer>>
    /\ UNCHANGED <<task, scan>>

-----------------------------------------------------------------------------
(* MKCOL *)
Mkcol(w) ==
    /\ At(w, "start", {"MKCOL"})
    /\ CASE Exists(task[w].path) -> Answer(w, 405)
         [] ~ Exists(task[w].path) /\ task[w].body -> Answer(w, 415)
         [] OTHER -> Go(w, "mkdir")
    /\ UNCHANGED <<tree, task, stack, scan>>

Mkdir(w) ==
    /\ pc[w] = "mkdir"
    /\ LET p == task[w].path
       IN  CASE ~ IsDir(Front(p)) -> Answer(w, 409) /\ UNCHANGED tree
             [] Exists(p) -> Answer(w, 405) /\ UNCHANGED tree
             [] IsDir(Front(p)) /\ ~ Exists(p) /\ ~ Changeable(p) -> Answer(w, 403) /\ UNCHANGED tree
             [] OTHER -> /\ tree' = [q \in DOMAIN tree \cup {p} |-> IF q = p THEN "dir" ELSE tree[q]]
                         /\ Answer(w, 201)
    /\ UNCHANGED <<task, stack, scan>>

-----------------------------------------------------------------------------
(* MOVE and COPY *)
Moves == {"MOVE", "COPY"}

(* The Destination header: none, or not one of this server. *)
Destination(w) ==
    /\ At(w, "start", Moves)
    /\ CASE task[w].dest = <<"none">> -> Answer(w, 400)
         [] task[w].dest = <<"elsewhere">> -> Answer(w, 502)
         [] OTHER -> Go(w, "stat")
    /\ UNCHANGED <<tree, task, stack, scan>>

StatDest(w) ==
    /\ At(w, "stat", Moves)
    /\ IF Exists(task[w].dest)
         THEN IF task[w].overwrite THEN Go(w, "remove") ELSE Answer(w, 412)
         ELSE Go(w, "rename")
    /\ UNCHANGED <<tree, task, stack, scan>>

(* Overwriting: the destination is removed first. *)
RemoveDest(w) ==
    /\ At(w, "remove", Moves)
    /\ IF Removable(task[w].dest)
         THEN tree' = Without({task[w].dest}) /\ Go(w, "rename")
         ELSE UNCHANGED tree /\ Answer(w, 403)
    /\ UNCHANGED <<task, stack, scan>>

(* Faulty: an error that is not expected counts as success. *)
RenameUnchecked(w) ==
    /\ At(w, "rename", {"MOVE"})
    /\ tree' = IF RenameError(task[w].path, task[w].dest) = ""
               THEN Renamed(task[w].path, task[w].dest) ELSE tree
    /\ Answer(w, IF RenameError(task[w].path, task[w].dest) = "ENOENT" THEN 409 ELSE 204)
    /\ UNCHANGED <<task, stack, scan>>

Rename(w) ==
    /\ At(w, "rename", Moves)
    /\ LET p == task[w].path
           d == task[w].dest
       IN  CASE task[w].op = "COPY" -> Answer(w, 403) /\ UNCHANGED tree
             [] task[w].op = "MOVE" /\ RenameError(p, d) = "" ->
                  tree' = Renamed(p, d) /\ Answer(w, 204)
             [] task[w].op = "MOVE" /\ RenameError(p, d) = "ENOENT" ->
                  Answer(w, 409) /\ UNCHANGED tree
             [] task[w].op = "MOVE" /\ RenameError(p, d) = "EACCES" ->
                  Answer(w, 403) /\ UNCHANGED tree
             [] OTHER -> Answer(w, 400) /\ UNCHANGED tree
    /\ UNCHANGED <<task, stack, scan>>

-----------------------------------------------------------------------------
(* A listing, and PROPFIND with the entries of the directory *)
Lists == {"LIST", "PROPFIND"}

Scan(w) ==
    /\ At(w, "start", Lists)
    /\ IF IsDir(task[w].path)
         THEN todo' = [todo EXCEPT ![w] = Entries(task[w].path)] /\ Go(w, "scan")
         ELSE UNCHANGED todo /\ Answer(w, IF task[w].op = "LIST" THEN 500 ELSE 207)
    /\ UNCHANGED <<tree, task, stack, found, arr_size>>

Full(w) == Cardinality(found[w]) >= arr_size[w]

(* scan_directory passes over hidden names and paths that are too long. *)
Skipped(w, n) == n \in Hidden \/ Append(task[w].path, n) \in TooLong

(* dir_scan_callback doubles the array when it is full; the first one has  *)
(* twice arr_size already.                                                 *)
Entry(w) ==
    /\ pc[w] = "scan"
    /\ \E n \in todo[w] :
         /\ todo' = [todo EXCEPT ![w] = @ \ {n}]
         /\ IF Skipped(w, n)
              THEN UNCHANGED <<found, arr_size>>
              ELSE /\ found' = [found EXCEPT ![w] = @ \cup {n}]
                   /\ arr_size' = [arr_size EXCEPT ![w] =
                        IF @ = 0 THEN 2 * ArrSize ELSE IF Full(w) THEN 2 * @ ELSE @]
    /\ UNCHANGED <<tree, task, pc, stack, answer>>

(* No memory: the callback stops the scan. *)
StopScan(w) ==
    /\ pc[w] = "scan" /\ MayFail
    /\ \E n \in todo[w] : ~ Skipped(w, n)
    /\ todo' = [todo EXCEPT ![w] = {}]
    /\ UNCHANGED <<tree, task, pc, stack, found, arr_size, answer>>

(* The page or the XML is complete. *)
ScanEnd(w) ==
    /\ pc[w] = "scan"
    /\ todo[w] = {}
    /\ Answer(w, IF task[w].op = "LIST" THEN 200 ELSE 207)
    /\ UNCHANGED <<tree, task, stack, scan>>

Step(w) ==
    \/ Delete(w) \/ DeleteFile(w) \/ RemoveEntry(w) \/ RemoveDir(w)
    \/ Mkcol(w) \/ Mkdir(w)
    \/ Destination(w) \/ StatDest(w) \/ RemoveDest(w) \/ Rename(w)
    \/ Scan(w) \/ Entry(w) \/ StopScan(w) \/ ScanEnd(w)

Next == \E w \in Workers : Step(w)

(* The scheduler runs every worker thread. *)
Spec == Init /\ [][Next]_vars /\ \A w \in Workers : WF_vars(Step(w))

-----------------------------------------------------------------------------
(* Of two who make the same collection at once one is told that he has.    *)
CreatedOnce ==
    \A v, w \in Workers :
        v # w /\ answer[v] = 201 /\ answer[w] = 201 => task[v].path # task[w].path

(* A file vanishes only below what a DELETE names, or where a MOVE or COPY *)
(* goes to that may overwrite it or found nothing there.                   *)
Vanished == {f \in Kinds \ {"dir"} : /\ \E p \in DOMAIN tree : tree[p] = f
                                     /\ \A p \in DOMAIN tree' : tree'[p] # f}
LostForCause ==
    \A f \in Vanished : \A p \in DOMAIN tree : tree[p] = f =>
       \E w \in Workers :
           \/ task[w].op = "DELETE" /\ IsPrefix(task[w].path, p)
           \/ task[w].op \in Moves /\ task[w].dest = p
                /\ (task[w].overwrite \/ pc[w] = "rename")

(* A MOVE that answers 204 has put there all that was at its path then,    *)
(* and left nothing behind.                                                *)
MovedIsThere ==
    \A w \in Workers : task[w].op = "MOVE" /\ answer[w] = 0 /\ answer'[w] = 204 =>
       LET p == task[w].path
           d == task[w].dest
       IN  /\ Exists(p)
           /\ \A q \in Below(p) :
                Moved(p, d)[q] \in DOMAIN tree' /\ tree'[Moved(p, d)[q]] = tree[q]
           /\ p # d => p \notin DOMAIN tree'

(* dir_scan_callback never writes past the array it has allocated.         *)
NoOverrun == \A w \in Workers : Cardinality(found[w]) <= arr_size[w]

=============================================================================
