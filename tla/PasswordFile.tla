----------------------------- MODULE PasswordFile -----------------------------
(***************************************************************************)
(* mg_modify_passwords_file_ha1 and mg_modify_passwords_file               *)
(* (src/Server/civetweb/civetweb.c): a passwords file that applications    *)
(* edit "on the fly" while requests are authorised against it.  There is   *)
(* no lock: an edit reads the file, empties it and writes it again.        *)
(*                                                                         *)
(* A line is an entry, with a key (user and domain) and a hash, or, under  *)
(* the key "special", one that begins with ":".  Lines are equally long:   *)
(* what two editors write overlaps line by line.                           *)
(***************************************************************************)
EXTENDS Naturals, Sequences, FiniteSets, SequencesExt

CONSTANTS
    Keys, Hashes,   \* ha1 is one of Hashes, or "none" to remove the entry
    Editors,        \* threads that edit
    Requests,       \* threads that authorise
    InitialFiles,   \* contents the file may have at first
    Spare,          \* lines the copy has room for, more than the file had
    Faults          \* of {"memory", "read", "create", "write"}

PasswordAssumption == Spare \in Nat \ {0} /\ "special" \notin Keys /\ "none" \notin Hashes

VARIABLES
    exists, file,
    edit,           \* of each editor: its step, arguments, copy and result
    request,        \* of each request: its step, what it asks for, and the answer
    before,         \* ghost: the file when the edit began
    alone           \* ghost: no other edit has been under way meanwhile

vars == <<exists, file, edit, request, before, alone>>

Entry(k, h) == [key |-> k, hash |-> h]

(* The first entry of a key decides, as in read_auth_file. *)
Lookup(f, k) ==
    LET i == SelectInSeq(f, LAMBDA l : l.key = k) IN IF i = 0 THEN "none" ELSE f[i].hash
Count(f, k) == Cardinality({i \in DOMAIN f : f[i].key = k})

Idle == [at |-> "idle", key |-> "special", ha1 |-> "none", size |-> 0, copy |-> <<>>,
         found |-> FALSE, result |-> 1]
Busy(e) == edit[e].at \notin {"idle", "done"}

TypeOK ==
    /\ ~exists => file = <<>>
    /\ \A e \in Editors :
         /\ edit[e].at \in {"idle", "stat", "read", "create", "write", "done"}
         /\ edit[e].result \in 0 .. 1 /\ Len(edit[e].copy) <= edit[e].size + Spare
    /\ \A r \in Requests : request[r].at \in {"idle", "open", "granted", "refused"}

Init ==
    /\ exists \in BOOLEAN
    /\ file \in IF exists THEN InitialFiles ELSE {<<>>}
    /\ edit = [e \in Editors |-> Idle]
    /\ request = [r \in Requests |-> [at |-> "idle", key |-> "special", hash |-> "none"]]
    /\ before = [e \in Editors |-> <<>>] /\ alone = [e \in Editors |-> TRUE]

-----------------------------------------------------------------------------
(* An edit *)

Step(e, at) == edit' = [edit EXCEPT ![e].at = at]
Fail(e) == edit' = [edit EXCEPT ![e].at = "done", ![e].result = 0]

Begin(e) ==
    /\ edit[e].at = "idle"
    /\ \E k \in Keys, h \in Hashes \cup {"none"} :
         edit' = [edit EXCEPT ![e] = [Idle EXCEPT !.at = "stat", !.key = k, !.ha1 = h]]
    /\ before' = [before EXCEPT ![e] = file]
    /\ alone' = [x \in Editors |-> IF x = e THEN \A y \in Editors : ~Busy(y)
                                   ELSE alone[x] /\ ~Busy(x)]
    /\ UNCHANGED <<exists, file, request>>

(* stat, and the memory for the copy. *)
Stat(e) ==
    /\ edit[e].at = "stat"
    /\ \/ ~exists /\ Step(e, "create")
       \/ exists /\ edit' = [edit EXCEPT ![e].at = "read", ![e].size = Len(file)]
       \/ exists /\ "memory" \in Faults /\ Fail(e)
    /\ UNCHANGED <<exists, file, request, before, alone>>

(* Faulty: the duplicates of an entry are copied. *)
CopyOfFirst(f, k, h) ==
    LET first == SelectInSeq(f, LAMBDA l : l.key = k)
    IN SelectSeq([i \in DOMAIN f |-> IF i = first THEN Entry(k, h) ELSE f[i]],
                 LAMBDA l : l.key # "special" /\ l.hash # "none")

(* The lines with three fields: the first of the key is changed or dropped, *)
(* its duplicates are dropped, every other line is copied.                  *)
CopyOf(f, k, h) ==
    LET first == SelectInSeq(f, LAMBDA l : l.key = k)
        Kept(i) == f[i].key \in Keys /\ (f[i].key # k \/ (i = first /\ h # "none"))
        lines == [i \in DOMAIN f |-> [keep |-> Kept(i),
                                      line |-> IF i = first THEN Entry(k, h) ELSE f[i]]]
        kept == SelectSeq(lines, LAMBDA x : x.keep)
    IN [i \in DOMAIN kept |-> kept[i].line]

Read(e) ==
    /\ edit[e].at = "read"
    /\ \/ LET c == CopyOf(file, edit[e].key, edit[e].ha1)
          IN edit' = [edit EXCEPT ![e].at = "create",
                                  ![e].copy = SubSeq(c, 1, IF Len(c) <= edit[e].size + Spare THEN Len(c)
                                                           ELSE edit[e].size + Spare),
                                  ![e].found = Lookup(file, edit[e].key) # "none"]
       \/ "read" \in Faults /\ Fail(e)
    /\ UNCHANGED <<exists, file, request, before, alone>>

(* fopen with "w" empties the file. *)
Create(e) ==
    /\ edit[e].at = "create"
    /\ \/ exists' = TRUE /\ file' = <<>> /\ Step(e, "write")
       \/ "create" \in Faults /\ Fail(e) /\ UNCHANGED <<exists, file>>
    /\ UNCHANGED <<request, before, alone>>

NewLine(e) == IF edit[e].ha1 # "none" /\ ~edit[e].found
              THEN <<Entry(edit[e].key, edit[e].ha1)>> ELSE <<>>
(* What is written from the beginning of the file over what it has. *)
Over(new, old) == new \o SubSeq(old, Len(new) + 1, Len(old))

Write(e) ==
    /\ edit[e].at = "write"
    /\ LET new == edit[e].copy \o NewLine(e)
       IN \/ /\ file' = Over(new, file)
             /\ Step(e, "done")
          \/ /\ "write" \in Faults
             /\ \E n \in 0 .. Len(new) : file' = Over(SubSeq(new, 1, n), file)
             /\ Fail(e)
    /\ UNCHANGED <<exists, request, before, alone>>

-----------------------------------------------------------------------------
(* A request: the file is opened, and read up to the entry. *)

Open(r) ==
    /\ request[r].at = "idle" /\ exists
    /\ \E k \in Keys, h \in Hashes : request' = [request EXCEPT ![r] = [at |-> "open", key |-> k, hash |-> h]]
    /\ UNCHANGED <<exists, file, edit, before, alone>>
Authorize(r) ==
    /\ request[r].at = "open"
    /\ request' = [request EXCEPT ![r].at = IF Lookup(file, request[r].key) = request[r].hash
                                            THEN "granted" ELSE "refused"]
    /\ UNCHANGED <<exists, file, edit, before, alone>>

Next ==
    \/ \E e \in Editors : Begin(e) \/ Stat(e) \/ Read(e) \/ Create(e) \/ Write(e)
    \/ \E r \in Requests : Open(r) \/ Authorize(r)

Spec == Init /\ [][Next]_vars

-----------------------------------------------------------------------------
(* Properties *)

(* mg_modify_passwords_file: "entry modified or added", "entry is          *)
(* deleted".  An edit that no other overlaps and that succeeds leaves the  *)
(* key with its new hash, once or not at all, whatever duplicates the file *)
(* had, and every other key with the hash it had.                          *)
EditApplied ==
    \A e \in Editors :
      (edit[e].at = "write" /\ edit'[e].result = 1 /\ edit'[e].at = "done" /\ alone[e]) =>
         /\ Lookup(file', edit[e].key) = edit[e].ha1
         /\ Count(file', edit[e].key) <= 1
         /\ \A k \in Keys \ {edit[e].key} : Lookup(file', k) = Lookup(before[e], k)

(* At no step of an edit that no other overlaps, and in no file that one   *)
(* leaves that fails, does anybody have another hash than the one before   *)
(* the edit, or the one that is asked for: a duplicate or an old entry     *)
(* behind what has been written never comes to count.  Entries may be      *)
(* missing, as the file is emptied first.                                  *)
NoOtherLogin ==
    \A e \in Editors : Busy(e) /\ alone[e] =>
      \A k \in Keys : Lookup(file', k) \in {Lookup(before[e], k), "none"}
                        \cup (IF k = edit[e].key THEN {edit[e].ha1} ELSE {})

=============================================================================
