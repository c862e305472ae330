---------------------------- MODULE FileTransfer ----------------------------
(***************************************************************************)
(* Worker threads of the HTTP front end that send a file and store one     *)
(* (src/Server/civetweb/civetweb.c): handle_static_file_request and        *)
(* send_file_data for GET and HEAD, mg_send_file_body, put_file with       *)
(* forward_body_data for PUT, mg_store_body.  They share the files "plain" *)
(* and "zipped" (the same name with .gz), and lock nothing.                *)
(*                                                                         *)
(* A name is bound to an inode that holds bytes; a file that is created    *)
(* gets the inode of the worker that creates it.  offset and left are the  *)
(* C code's offset and len.                                                *)
(***************************************************************************)
EXTENDS Naturals, Integers, Sequences, FiniteSets, SequencesExt

CONSTANTS
    Workers,
    NoFile,         \* what a name without an inode is bound to
    Disks,          \* [names -> Seq(bytes) or NoFile] at the start
    Tasks,          \* [op, range, gzip, expect, dirs, writable, body]
    BufLen,         \* MG_BUF_LEN
    SizeLimit,      \* MG_FILE_COMPRESSION_SIZE_LIMIT
    Everything,     \* INT64_MAX
    Sendfile,       \* config ALLOW_SENDFILE_CALL
    Faults          \* of {"sendfile", "client", "timeout", "lost", "open", "write", "close"}

SizesAssumption == BufLen \in Nat \ {0} /\ Everything \in Nat /\ NoFile \notin Workers

VARIABLES
    entry,          \* name -> inode
    data,           \* inode -> bytes
    task,
    job             \* worker -> what it has found out and done

vars == <<entry, data, task, job>>

Names == {"plain", "zipped"}
Inodes == Names \cup Workers
Writers == {"PUT", "STORE"}
Steps == {"start", "variant", "stat", "open", "header", "sendfile", "copy", "seek",
          "forward", "receive", "close", "done"}

TypeOK ==
    /\ entry \in [Names -> Inodes \cup {NoFile}]
    /\ \A w \in Workers :
         /\ job[w].pc \in Steps
         /\ job[w].offset >= 0
         /\ job[w].fd \in Inodes \cup {NoFile}
         /\ job[w].gz \in BOOLEAN
         /\ job[w].status >= -14

Smaller(a, b) == IF a < b THEN a ELSE b
Larger(a, b) == IF a > b THEN a ELSE b

(* Writing s at pos; a gap is filled with zeros, and writing nothing        *)
(* fills none.                                                             *)
Written(d, pos, s) ==
    IF s = <<>> THEN d ELSE
    [i \in 1 .. Larger(Len(d), pos + Len(s)) |->
        IF i \in pos + 1 .. pos + Len(s) THEN s[i - pos] ELSE IF i <= Len(d) THEN d[i] ELSE 0]

Init ==
    /\ \E d \in Disks :
         /\ entry = [n \in Names |-> IF d[n] = NoFile THEN NoFile ELSE n]
         /\ data = [i \in Inodes |-> IF i \in Names /\ d[i] # NoFile THEN d[i] ELSE <<>>]
    /\ task \in [Workers -> Tasks]
    /\ job = [w \in Workers |->
                [pc |-> "start", name |-> "plain", size |-> 0, gz |-> FALSE, zipped |-> FALSE,
                 cl |-> 0, offset |-> 0, left |-> 0, loops |-> 0, fd |-> NoFile, status |-> 0,
                 sent |-> <<>>, gone |-> FALSE, from |-> 0,
                 body |-> <<>>, pending |-> <<>>, alone |-> TRUE, last |-> FALSE]]

(* Worker w goes on with the fields that r changes. *)
With(r, s) == [f \in DOMAIN s |-> IF f \in DOMAIN r THEN r[f] ELSE s[f]]
Set(w, r) == job' = [job EXCEPT ![w] = With(r, @)]
At(w, pc, ops) == job[w].pc = pc /\ task[w].op \in ops
Ends(w, status) == Set(w, [pc |-> "done", status |-> status])

Exists(n) == entry[n] # NoFile
Size(n) == IF Exists(n) THEN Len(data[entry[n]]) ELSE 0
HasRange(w) == task[w].range[1] > 0

-----------------------------------------------------------------------------
(* GET and HEAD *)

Reads == {"GET", "HEAD"}

(* What interpret_uri has left in filep->stat. *)
Stat(w) ==
    /\ At(w, "start", Reads)
    /\ IF Exists("plain")
         THEN Set(w, [pc |-> "variant", size |-> Size("plain"), cl |-> Size("plain")])
         ELSE IF task[w].gzip /\ Exists("zipped")
         THEN Set(w, [pc |-> "variant", size |-> Size("zipped"), cl |-> Size("zipped"),
                      gz |-> TRUE])
         ELSE Ends(w, 404)
    /\ UNCHANGED <<entry, data, task>>

(* The zipped file instead of a large plain one.  The field zipped is the  *)
(* encoding the answer will name.                                          *)
Variant(w) ==
    /\ At(w, "variant", Reads)
    /\ IF job[w].gz
         THEN Set(w, [pc |-> "stat", name |-> "zipped", zipped |-> TRUE])
         ELSE IF /\ task[w].gzip /\ task[w].range[1] = 0 /\ job[w].size >= SizeLimit
                 /\ Exists("zipped")
         THEN Set(w, [pc |-> "stat", name |-> "zipped", zipped |-> TRUE, gz |-> TRUE,
                      size |-> Size("zipped"), cl |-> Size("zipped")])
         ELSE Set(w, [pc |-> "stat"])
    /\ UNCHANGED <<entry, data, task>>

(* mg_fopen for reading: mg_stat clears the stat, is_gzipped too ... *)
Restat(w) ==
    /\ At(w, "stat", Reads \cup {"BODY"})
    /\ IF Exists(job[w].name)
         THEN Set(w, [pc |-> "open", size |-> Size(job[w].name), gz |-> FALSE])
         ELSE Ends(w, IF task[w].op = "BODY" THEN -1 ELSE 500)
    /\ UNCHANGED <<entry, data, task>>

(* ... and fopen. *)
Open(w) ==
    /\ At(w, "open", Reads \cup {"BODY"})
    /\ \/ /\ Exists(job[w].name)
          /\ Set(w, [pc |-> "header", fd |-> entry[job[w].name]])
       \/ /\ ~ Exists(job[w].name) \/ "open" \in Faults
          /\ Ends(w, IF task[w].op = "BODY" THEN -1 ELSE 500)
    /\ UNCHANGED <<entry, data, task>>

(* send_file_data checks offset and len, and chooses how to send. *)
Sends(w, status, offset, len) ==
    Set(w, [pc |-> IF len <= 0 \/ task[w].op = "HEAD" THEN "close"
                   ELSE IF Sendfile THEN "sendfile" ELSE "copy",
            status |-> status, cl |-> len, left |-> len, from |-> offset,
            offset |-> IF offset > job[w].size THEN job[w].size ELSE offset])

OpenBody(w) ==
    /\ At(w, "start", {"BODY"})
    /\ Set(w, [pc |-> "stat"])
    /\ UNCHANGED <<entry, data, task>>

RangeOK(w) == HasRange(w) /\ task[w].range[2] >= 0 /\ task[w].range[3] >= 0

(* The length of a range. *)
RangeLength(w) ==
    LET n == task[w].range[1]
        r1 == task[w].range[2]
        r2 == task[w].range[3]
        cl == job[w].cl
    IN  IF n = 2 THEN Smaller(r2, cl) - r1 + 1 ELSE cl - r1

(* The answer's header, and the file if the request wants it. *)
Header(w) ==
    /\ At(w, "header", Reads)
    /\ IF RangeOK(w) /\ job[w].gz
         THEN Set(w, [pc |-> "close", status |-> 416])
         ELSE IF RangeOK(w)
         THEN Sends(w, 206, task[w].range[2], RangeLength(w))
         ELSE Sends(w, 200, 0, job[w].cl)
    /\ UNCHANGED <<entry, data, task>>

Body(w) ==
    /\ At(w, "header", {"BODY"})
    /\ Sends(w, 0, 0, Everything)
    /\ UNCHANGED <<entry, data, task>>

(* What the file still has at offset. *)
Available(w) == Larger(Len(data[job[w].fd]) - job[w].offset, 0)
Part(w, n) == SubSeq(data[job[w].fd], job[w].offset + 1, job[w].offset + n)

Sent(w, n, next) ==
    Set(w, [pc |-> IF job[w].left = n THEN "close" ELSE next,
            left |-> job[w].left - n, offset |-> job[w].offset + n,
            loops |-> Smaller(job[w].loops + 1, 1), sent |-> job[w].sent \o Part(w, n)])

(* sendfile sends some, or fails; at the end of the file it sends nothing. *)
SendfileSome(w) ==
    /\ job[w].pc = "sendfile"
    /\ \E n \in 1 .. Smaller(job[w].left, Available(w)) : Sent(w, n, "sendfile")
    /\ UNCHANGED <<entry, data, task>>

SendfileNone(w) ==
    /\ job[w].pc = "sendfile"
    /\ Available(w) = 0
    /\ Set(w, [pc |-> IF job[w].loops = 0 THEN "copy" ELSE "close"])
    /\ UNCHANGED <<entry, data, task>>

(* Faulty: after an error of sendfile all of the range is sent again. *)
SendfileErrorRestarts(w) ==
    /\ job[w].pc = "sendfile"
    /\ "sendfile" \in Faults
    /\ Set(w, [pc |-> "copy", offset |-> job[w].from])
    /\ UNCHANGED <<entry, data, task>>

(* The classic way goes on where sendfile failed. *)
SendfileError(w) ==
    /\ job[w].pc = "sendfile"
    /\ "sendfile" \in Faults
    /\ Set(w, [pc |-> "copy"])
    /\ UNCHANGED <<entry, data, task>>

Copy(w) ==
    /\ job[w].pc = "copy"
    /\ \/ /\ Available(w) > 0
          /\ Sent(w, Smaller(Smaller(BufLen, job[w].left), Available(w)), "copy")
       \/ Available(w) = 0 /\ Set(w, [pc |-> "close"])
       \/ "client" \in Faults /\ Set(w, [pc |-> "close", gone |-> TRUE])
    /\ UNCHANGED <<entry, data, task>>

CloseRead(w) ==
    /\ At(w, "close", Reads \cup {"BODY"})
    /\ Set(w, [pc |-> "done", fd |-> NoFile])
    /\ UNCHANGED <<entry, data, task>>

-----------------------------------------------------------------------------
(* PUT, and mg_store_body *)

(* put_dir makes the directories, and says if the path is one. *)
PutDir(w) == CASE task[w].dirs = "made" -> 1
               [] task[w].dirs = "directory" -> 0
               [] task[w].dirs = "too long" -> -1
               [] task[w].dirs = "failed" -> -2

Put(w) ==
    /\ At(w, "start", {"PUT"})
    /\ IF Exists("plain")
         THEN IF task[w].writable THEN Set(w, [pc |-> "open", status |-> 200]) ELSE Ends(w, 403)
         ELSE CASE PutDir(w) = 1 -> Set(w, [pc |-> "open", status |-> 201])
                [] PutDir(w) = 0 -> Ends(w, 201)
                [] PutDir(w) = -1 -> Ends(w, 414)
                [] PutDir(w) = -2 -> Ends(w, 500)
    /\ UNCHANGED <<entry, data, task>>

Store(w) ==
    /\ At(w, "start", {"STORE"})
    /\ IF PutDir(w) = 1 THEN Set(w, [pc |-> "open"]) ELSE Ends(w, PutDir(w))
    /\ UNCHANGED <<entry, data, task>>

HasOpen(w) == job[w].fd # NoFile /\ task[w].op \in Writers

(* fopen for writing empties the file.  alone: nobody else has had it open *)
(* for writing meanwhile; last: nobody has opened it so since.             *)
OpenWrite(w) ==
    /\ At(w, "open", Writers)
    /\ LET inode == IF Exists("plain") THEN entry["plain"] ELSE w
           others == {v \in Workers \ {w} : HasOpen(v)}
       IN  \/ /\ entry' = [entry EXCEPT !["plain"] = inode]
              /\ data' = [data EXCEPT ![inode] = <<>>]
              /\ job' = [v \in Workers |->
                   IF v = w
                     THEN [job[v] EXCEPT !.pc = IF task[v].op = "PUT" THEN "seek" ELSE "receive",
                                         !.fd = inode, !.alone = (others = {}), !.last = TRUE]
                     ELSE [job[v] EXCEPT !.alone = @ /\ v \notin others, !.last = FALSE]]
           \/ /\ "open" \in Faults
              /\ Ends(w, IF task[w].op = "PUT" THEN 500 ELSE -12)
              /\ UNCHANGED <<entry, data>>
    /\ UNCHANGED task

(* Faulty: the body is written from the beginning of the file on. *)
SeekIgnored(w) ==
    /\ job[w].pc = "seek"
    /\ CASE ~ HasRange(w) -> Set(w, [pc |-> "forward"])
         [] HasRange(w) /\ task[w].range[2] >= 0 -> Set(w, [pc |-> "forward", status |-> 206])
         [] OTHER -> Ends(w, 500)
    /\ UNCHANGED <<entry, data, task>>

(* Content-Range; a negative position cannot be sought, and the file is    *)
(* left open.                                                              *)
Seek(w) ==
    /\ job[w].pc = "seek"
    /\ CASE ~ HasRange(w) -> Set(w, [pc |-> "forward"])
         [] HasRange(w) /\ task[w].range[2] >= 0 ->
              Set(w, [pc |-> "forward", status |-> 206, offset |-> task[w].range[2]])
         [] OTHER -> Ends(w, 500)
    /\ UNCHANGED <<entry, data, task>>

(* forward_body_data begins with Expect, and sets the status again. *)
Forward(w) ==
    /\ job[w].pc = "forward"
    /\ CASE task[w].expect = "other" -> Set(w, [pc |-> "close", status |-> 417])
         [] task[w].expect = "100-continue" -> Set(w, [pc |-> "receive", status |-> 100])
         [] OTHER -> Set(w, [pc |-> "receive", status |-> 200])
    /\ UNCHANGED <<entry, data, task>>

Remaining(w) == Len(task[w].body) - Len(job[w].body)

(* mg_read brings bytes, fwrite keeps them in the buffer of the FILE. *)
Receive(w) ==
    /\ job[w].pc = "receive"
    /\ Remaining(w) > 0
    /\ \E n \in 1 .. Smaller(BufLen, Remaining(w)) :
         LET s == SubSeq(task[w].body, Len(job[w].body) + 1, Len(job[w].body) + n)
         IN  Set(w, [body |-> job[w].body \o s, pending |-> job[w].pending \o s])
    /\ UNCHANGED <<entry, data, task>>

(* The library writes the buffer when it likes. *)
Flush(w) ==
    /\ job[w].pending # <<>> /\ job[w].pc = "receive"
    /\ data' = [data EXCEPT ![job[w].fd] = Written(@, job[w].offset, job[w].pending)]
    /\ Set(w, [offset |-> job[w].offset + Len(job[w].pending), pending |-> <<>>])
    /\ UNCHANGED <<entry, task>>

(* mg_read returns 0: at the end of the body, and when nothing comes in    *)
(* time.                                                                   *)
Received(w) ==
    /\ job[w].pc = "receive"
    /\ Remaining(w) = 0 \/ "timeout" \in Faults
    /\ Set(w, [pc |-> "close"])
    /\ UNCHANGED <<entry, data, task>>

(* mg_read returns -1.  PUT answers with an error, mg_store_body takes it  *)
(* for the end.                                                            *)
Lost(w) ==
    /\ job[w].pc = "receive"
    /\ "lost" \in Faults /\ Remaining(w) > 0
    /\ Set(w, [pc |-> "close", gone |-> TRUE,
               status |-> IF task[w].op = "PUT" THEN 500 ELSE job[w].status])
    /\ UNCHANGED <<entry, data, task>>

(* fclose writes the rest of the buffer. *)
Closed(w) ==
    data' = [data EXCEPT ![job[w].fd] = Written(@, job[w].offset, job[w].pending)]

Removed == entry' = [entry EXCEPT !["plain"] = NoFile]

(* fwrite fails: the disk is full.  mg_store_body removes the file, PUT    *)
(* leaves it as it is.                                                     *)
WriteFails(w) ==
    /\ job[w].pc = "receive"
    /\ "write" \in Faults /\ Remaining(w) > 0
    /\ IF task[w].op = "PUT"
         THEN Set(w, [pc |-> "close", status |-> 500]) /\ UNCHANGED entry
         ELSE Set(w, [pc |-> "done", status |-> -13, fd |-> NoFile]) /\ Removed
    /\ UNCHANGED <<data, task>>

ClosePut(w) ==
    /\ At(w, "close", {"PUT"})
    /\ \/ Set(w, [pc |-> "done", fd |-> NoFile]) /\ Closed(w)
       \/ /\ "close" \in Faults /\ job[w].pending # <<>>
          /\ Set(w, [pc |-> "done", fd |-> NoFile,
                     status |-> IF job[w].status \in {417, 500} THEN job[w].status ELSE 507])
          /\ UNCHANGED data
    /\ UNCHANGED <<entry, task>>

CloseStore(w) ==
    /\ At(w, "close", {"STORE"})
    /\ \/ /\ Set(w, [pc |-> "done", fd |-> NoFile, status |-> Len(job[w].body)])
          /\ Closed(w) /\ UNCHANGED entry
       \/ /\ "close" \in Faults /\ job[w].pending # <<>>
          /\ Set(w, [pc |-> "done", fd |-> NoFile, status |-> -14])
          /\ Removed /\ UNCHANGED data
    /\ UNCHANGED task

Next == \E w \in Workers :
    \/ Stat(w) \/ Variant(w) \/ Restat(w) \/ Open(w) \/ OpenBody(w) \/ Header(w) \/ Body(w)
    \/ SendfileSome(w) \/ SendfileNone(w) \/ SendfileError(w) \/ Copy(w) \/ CloseRead(w)
    \/ Put(w) \/ Store(w) \/ OpenWrite(w) \/ Seek(w) \/ Forward(w)
    \/ Receive(w) \/ Flush(w) \/ Received(w) \/ Lost(w) \/ WriteFails(w)
    \/ ClosePut(w) \/ CloseStore(w)

Spec == Init /\ [][Next]_vars
-----------------------------------------------------------------------------
Done(w, ops) == At(w, "done", ops)
Original(w) == data[IF job[w].zipped THEN "zipped" ELSE "plain"]

(* A GET that is answered 200 and whose client stays gets all of the file, *)
(* plain or zipped as the answer's encoding says, however sendfile and the *)
(* copying share the work.                                                 *)
WholeFileSent ==
    \A w \in Workers :
        Done(w, {"GET"}) /\ job[w].status = 200 /\ ~ job[w].gone => job[w].sent = Original(w) /\ job[w].cl = Len(Original(w))

(* At no time has a client got other bytes than those from the requested   *)
(* position on.                                                            *)
BytesInPlace ==
    \A w \in Workers :
        job[w].sent = SubSeq(Original(w), job[w].from + 1, job[w].from + Len(job[w].sent))

(* A range inside the file is sent as it was asked for.                    *)
ValidRangeSent ==
    \A w \in Workers :
        LET r == task[w].range
        IN  /\ Done(w, {"GET"}) /\ job[w].status = 206 /\ ~ job[w].gone
            /\ r[1] = 2 /\ 0 <= r[2] /\ r[2] <= r[3] /\ r[3] < Len(Original(w))
            => job[w].sent = SubSeq(Original(w), r[2] + 1, r[3] + 1)

(* Every way out of a request closes the file, but for a Content-Range     *)
(* with a negative position.                                               *)
FilesClosed ==
    \A w \in Workers :
        job[w].pc = "done" /\ ~ (task[w].op = "PUT" /\ HasRange(w) /\ task[w].range[2] < 0)
          => job[w].fd = NoFile

Position(w) == IF task[w].op = "PUT" /\ HasRange(w) THEN task[w].range[2] ELSE 0

(* What a PUT is told is stored has been stored, all of it, unless another *)
(* writer came between.                                                    *)
StoredWhole ==
    \A w \in Workers :
        Done(w, {"PUT"}) /\ job[w].status \in {100, 200} /\ job[w].alone /\ job[w].last
          => /\ entry["plain"] # NoFile
             /\ data[entry["plain"]] = Written(<<>>, Position(w), task[w].body)

(* mg_store_body leaves a file with as many bytes as it returns, and none  *)
(* when it could not write it.                                             *)
StoreCleansUp ==
    \A w \in Workers :
        Done(w, {"STORE"}) /\ job[w].alone /\ job[w].last =>
            IF job[w].status < 0 THEN entry["plain"] = NoFile
            ELSE Exists("plain") /\ Size("plain") = job[w].status

=============================================================================
