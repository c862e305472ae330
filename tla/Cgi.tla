--------------------------------- MODULE Cgi ---------------------------------
(***************************************************************************)
(* handle_cgi_request of src/Server/civetweb/civetweb.c with               *)
(* spawn_process, forward_body_data, read_message and send_file_data as it *)
(* calls them, and abort_cgi_process: worker threads run one program each, *)
(* over three pipes.                                                       *)
(*                                                                         *)
(* Bodies and outputs are counted in blocks.  The first block of an output *)
(* is its header, if the program writes one.                               *)
(***************************************************************************)
EXTENDS Naturals, FiniteSets

CONSTANTS
    Workers,
    Programs,   \* a set of [reads : "all", "each" or "none", outs, errs, head, status]
    MaxBody,    \* the blocks of a body
    PipeSize,   \* the blocks a pipe holds
    BufferRoom, \* max_request_size, the room for the header of the output
    Faults      \* a subset of "env", "path", "pipe", "memory", "fork", "fdopen", "expect", "lost", "timeout",
                \* "gone"

Ends == {"in0", "in1", "out0", "out1", "err0", "err1"}
Files == {"in1", "out0", "err0"}
CgiAssumption ==
    /\ IsFiniteSet(Workers) /\ PipeSize \in Nat \ {0} /\ BufferRoom \in Nat \ {0} /\ MaxBody \in Nat
    /\ \A p \in Programs : p.outs \in Nat /\ p.errs \in Nat /\ p.status \in {0, 1}

VARIABLES
    job,     \* [Workers -> [pc, body, fd, open, marked, file, fed, got, sent, answers]]
    prog,    \* [Workers -> [kind, state, held, taken, eof, wrote, erred]]
    pipe,    \* [Workers -> [in, out, err]], the blocks in the pipes
    twice,   \* whether a descriptor has been closed that was not open
    stray    \* whether a signal has been sent to a process that is not the program's

vars == <<job, prog, pipe, twice, stray>>

TypeOK ==
    /\ \A w \in Workers :
         /\ job[w].open \subseteq Ends /\ job[w].fd \subseteq Ends /\ job[w].file \subseteq Files
         /\ \A p \in {"in", "out", "err"} : pipe[w][p] \in 0 .. PipeSize
         /\ prog[w].state \in {"none", "running", "zombie", "reaped"}
    /\ twice \in BOOLEAN /\ stray \in BOOLEAN

(* The record s with the fields of r. *)
With(r, s) == [f \in DOMAIN s |-> IF f \in DOMAIN r THEN r[f] ELSE s[f]]
Set(w, r) == job' = [job EXCEPT ![w] = With(r, @)]
SetProg(w, r) == prog' = [prog EXCEPT ![w] = With(r, @)]
Fails(f) == f \in Faults

Init ==
    /\ job \in [Workers -> {[pc |-> "prepare", body |-> b, fd |-> {}, open |-> {}, marked |-> {}, file |-> {},
                             fed |-> 0, got |-> 0, sent |-> 0, answers |-> 0] : b \in 0 .. MaxBody}]
    /\ prog \in [Workers -> {[kind |-> p, state |-> "none", held |-> {}, taken |-> 0, eof |-> FALSE,
                              wrote |-> 0, erred |-> 0] : p \in Programs}]
    /\ pipe = [w \in Workers |-> [in |-> 0, out |-> 0, err |-> 0]]
    /\ twice = FALSE /\ stray = FALSE

Answered(w) == job[w].answers + 1
Error(w) == Set(w, [pc |-> "done", answers |-> Answered(w)])

(* Who has an end of w's pipes open: the server, or a running program.     *)
IsOpen(w, e) == e \in job[w].open \/ \E v \in Workers : <<w, e>> \in prog[v].held
Running(w) == prog[w].state = "running"

HasRoom(n) == n < PipeSize

-----------------------------------------------------------------------------
(* The worker. *)

(* prepare_cgi_environment, without an answer if it fails, and the path of *)
(* the program.                                                            *)
Prepare(w) ==
    /\ job[w].pc = "prepare"
    /\ \/ Set(w, [pc |-> "pipe"])
       \/ Fails("env") /\ Set(w, [pc |-> "done"])
       \/ Fails("path") /\ Error(w)
    /\ UNCHANGED <<prog, pipe, twice, stray>>

(* The pipes before the one that fails stay open until the end. *)
Pipes(w) ==
    /\ job[w].pc = "pipe"
    /\ \/ Set(w, [pc |-> "spawn", fd |-> Ends, open |-> Ends])
       \/ /\ Fails("pipe")
          /\ \E some \in {{}, {"in0", "in1"}, {"in0", "in1", "out0", "out1"}} :
               Set(w, [pc |-> "done", fd |-> some, open |-> some, answers |-> Answered(w)])
    /\ UNCHANGED <<prog, pipe, twice, stray>>

(* fork leaves the child every descriptor that is open and not yet marked  *)
(* close-on-exec, whosever it is; the child closes its own six when it has *)
(* three of them as its standard files.                                    *)
Inherited(w) ==
    {<<w, "in0">>, <<w, "out1">>, <<w, "err1">>} \cup
    UNION {{v} \X (job[v].open \ job[v].marked) : v \in Workers \ {w}}
spawn_process(w) ==
    /\ job[w].pc = "spawn"
    /\ \/ SetProg(w, [state |-> "running", held |-> Inherited(w)]) /\ Set(w, [pc |-> "mark"])
       \/ (Fails("memory") \/ Fails("fork")) /\ Error(w) /\ UNCHANGED prog
    /\ UNCHANGED <<pipe, twice, stray>>

(* set_close_on_exec comes after the fork. *)
Mark(w) ==
    /\ job[w].pc = "mark" /\ Set(w, [pc |-> "close", marked |-> Files])
    /\ UNCHANGED <<prog, pipe, twice, stray>>

Closes(w, set) == twice' = (twice \/ ~(set \subseteq job[w].open))

CloseChildSide(w) ==
    /\ job[w].pc = "close" /\ Closes(w, Ends \ Files)
    /\ Set(w, [pc |-> "fdopen", fd |-> Files, open |-> job[w].open \ (Ends \ Files)])
    /\ UNCHANGED <<prog, pipe, stray>>

Fdopen(w) ==
    /\ job[w].pc = "fdopen"
    /\ \/ Set(w, [pc |-> IF job[w].body > 0 THEN "forward" ELSE "closein", file |-> Files])
       \/ /\ Fails("fdopen")
          /\ \E some \in {{}, {"in1"}, {"in1", "out0"}} :
               Set(w, [pc |-> "done", file |-> some, answers |-> Answered(w)])
    /\ UNCHANGED <<prog, pipe, twice, stray>>

(* forward_body_data: a block at a time, which waits for room in the pipe. *)
(* It fails when nobody can read the pipe any more, and when the client is *)
(* lost; a timeout is the end.  An Expect it does not know is refused.     *)
ForwardFails(w) == Error(w)
Forward(w) ==
    /\ job[w].pc = "forward"
    /\ \/ /\ job[w].fed < job[w].body /\ IsOpen(w, "in0") /\ HasRoom(pipe[w].in)
          /\ Set(w, [fed |-> job[w].fed + 1]) /\ pipe' = [pipe EXCEPT ![w].in = @ + 1]
       \/ /\ job[w].fed < job[w].body /\ (~IsOpen(w, "in0") \/ Fails("lost"))
          /\ ForwardFails(w) /\ UNCHANGED pipe
       \/ job[w].fed = 0 /\ Fails("expect") /\ Error(w) /\ UNCHANGED pipe
       \/ /\ job[w].fed = job[w].body \/ Fails("timeout")
          /\ Set(w, [pc |-> "closein"]) /\ UNCHANGED pipe
    /\ UNCHANGED <<prog, twice, stray>>

(* fclose(in), and the buffer for the header. *)
WithoutIn(w) ==
    Set(w, [pc |-> "head", fd |-> job[w].fd \ {"in1"}, open |-> job[w].open \ {"in1"},
            file |-> job[w].file \ {"in1"}])
CloseIn(w) ==
    /\ job[w].pc = "closein" /\ Closes(w, {"in1"}) /\ WithoutIn(w)
    /\ UNCHANGED <<prog, pipe, stray>>
NoBuffer(w) ==
    /\ job[w].pc = "head" /\ job[w].got = 0 /\ Fails("memory") /\ Error(w)
    /\ UNCHANGED <<prog, pipe, twice, stray>>

AtEnd(w, p, e) == pipe[w][p] = 0 /\ ~IsOpen(w, e)

(* read_message waits for the header, the end of the output or a full      *)
(* buffer, with nothing to wake it: a pipe is read without a timeout.      *)
Headed(w) == prog[w].kind.head /\ job[w].got > 0
ReadHead(w) ==
    /\ job[w].pc = "head" /\ ~Headed(w)
    /\ \/ /\ job[w].got < BufferRoom /\ pipe[w].out > 0
          /\ pipe' = [pipe EXCEPT ![w].out = @ - 1] /\ Set(w, [got |-> job[w].got + 1])
       \/ /\ job[w].got = BufferRoom \/ AtEnd(w, "out", "out1")
          /\ Set(w, [pc |-> "stderr"]) /\ UNCHANGED pipe
    /\ UNCHANGED <<prog, twice, stray>>

(* pull_all of what the program says of its error, up to its end. *)
ReadErr(w) ==
    /\ job[w].pc = "stderr"
    /\ \/ pipe[w].err > 0 /\ pipe' = [pipe EXCEPT ![w].err = @ - 1] /\ UNCHANGED job
       \/ AtEnd(w, "err", "err1") /\ Error(w) /\ UNCHANGED pipe
    /\ UNCHANGED <<prog, twice, stray>>

(* The status line, the headers, and what has been read behind them. *)
StatusLine(w) ==
    /\ job[w].pc = "head" /\ Headed(w)
    /\ Set(w, [pc |-> "send", sent |-> job[w].got, answers |-> Answered(w)])
    /\ UNCHANGED <<prog, pipe, twice, stray>>

(* Faulty: one block of the output is sent. *)
SendsAndEnds(w) ==
    /\ pipe[w].out > 0 /\ pipe' = [pipe EXCEPT ![w].out = @ - 1]
    /\ Set(w, [pc |-> "done", got |-> job[w].got + 1, sent |-> job[w].sent + 1])

(* send_file_data: until the end of the output, or a client that is gone. *)
SendsBlock(w) ==
    /\ pipe[w].out > 0 /\ pipe' = [pipe EXCEPT ![w].out = @ - 1]
    /\ \/ Set(w, [got |-> job[w].got + 1, sent |-> job[w].sent + 1])
       \/ Fails("gone") /\ Set(w, [pc |-> "done", got |-> job[w].got + 1])
Send(w) ==
    /\ job[w].pc = "send"
    /\ \/ SendsBlock(w)
       \/ AtEnd(w, "out", "out1") /\ Set(w, [pc |-> "done"]) /\ UNCHANGED pipe
    /\ UNCHANGED <<prog, twice, stray>>

(* abort_cgi_process: waitpid with WNOHANG, a signal if the status is 0,   *)
(* which it is for a program that runs and for one that has ended well, and *)
(* waitpid until there is nothing to wait for.                             *)
WaitNoHang(w) ==
    /\ job[w].pc = "done"
    /\ CASE prog[w].state = "none" -> Set(w, [pc |-> "cleanup"]) /\ UNCHANGED prog
         [] prog[w].state = "running" -> Set(w, [pc |-> "kill"]) /\ UNCHANGED prog
         [] OTHER -> /\ SetProg(w, [state |-> "reaped"])
                     /\ Set(w, [pc |-> IF prog[w].kind.status = 0 THEN "kill" ELSE "cleanup"])
    /\ UNCHANGED <<pipe, twice, stray>>
Kill(w) ==
    /\ job[w].pc = "kill" /\ Set(w, [pc |-> "wait"])
    /\ stray' = (stray \/ prog[w].state = "reaped")
    /\ IF Running(w) THEN SetProg(w, [state |-> "zombie", held |-> {}]) ELSE UNCHANGED prog
    /\ UNCHANGED <<pipe, twice>>

Reaps(w) == prog[w].state # "running" /\ SetProg(w, [state |-> "reaped"])
Wait(w) ==
    /\ job[w].pc = "wait" /\ Reaps(w) /\ Set(w, [pc |-> "cleanup"])
    /\ UNCHANGED <<pipe, twice, stray>>

(* A FILE is closed with its descriptor, a descriptor without a FILE by    *)
(* itself.                                                                 *)
ClosesOnce(w) == Closes(w, job[w].fd \cup job[w].file)
Cleanup(w) ==
    /\ job[w].pc = "cleanup" /\ ClosesOnce(w)
    /\ Set(w, [pc |-> "end", open |-> job[w].open \ (job[w].fd \cup job[w].file)])
    /\ pipe' = [pipe EXCEPT ![w] = [in |-> 0, out |-> 0, err |-> 0]]
    /\ UNCHANGED <<prog, stray>>

Worker(w) ==
    \/ Prepare(w) \/ Pipes(w) \/ spawn_process(w) \/ Mark(w) \/ CloseChildSide(w) \/ Fdopen(w)
    \/ Forward(w) \/ CloseIn(w) \/ NoBuffer(w) \/ ReadHead(w) \/ ReadErr(w) \/ StatusLine(w) \/ Send(w)
    \/ WaitNoHang(w) \/ Kill(w) \/ Wait(w) \/ Cleanup(w)

-----------------------------------------------------------------------------
(* The program: what it writes is its own affair, as long as it comes from *)
(* what it has read.                                                       *)
Due(w) ==
    LET p == prog[w].kind
    IN CASE p.reads = "none" -> p.outs
         [] p.reads = "all" -> IF prog[w].eof THEN p.outs ELSE 0
         [] p.reads = "each" -> prog[w].taken + (IF prog[w].eof THEN p.outs ELSE 0)

ProgramReads(w) ==
    /\ prog[w].kind.reads # "none" /\ prog[w].wrote = Due(w) /\ pipe[w].in > 0
    /\ SetProg(w, [taken |-> prog[w].taken + 1]) /\ pipe' = [pipe EXCEPT ![w].in = @ - 1]
ProgramEof(w) ==
    /\ prog[w].kind.reads # "none" /\ ~prog[w].eof /\ AtEnd(w, "in", "in1")
    /\ SetProg(w, [eof |-> TRUE]) /\ UNCHANGED pipe
ProgramErrs(w) ==
    /\ prog[w].erred < prog[w].kind.errs /\ HasRoom(pipe[w].err)
    /\ SetProg(w, [erred |-> prog[w].erred + 1]) /\ pipe' = [pipe EXCEPT ![w].err = @ + 1]
ProgramWrites(w) ==
    /\ prog[w].wrote < Due(w) /\ prog[w].erred = prog[w].kind.errs /\ HasRoom(pipe[w].out)
    /\ SetProg(w, [wrote |-> prog[w].wrote + 1]) /\ pipe' = [pipe EXCEPT ![w].out = @ + 1]
ProgramExits(w) ==
    /\ prog[w].wrote = Due(w) /\ prog[w].erred = prog[w].kind.errs
    /\ prog[w].kind.reads = "none" \/ prog[w].eof
    /\ SetProg(w, [state |-> "zombie", held |-> {}]) /\ UNCHANGED pipe
Program(w) ==
    /\ Running(w)
    /\ \/ ProgramReads(w) \/ ProgramEof(w) \/ ProgramErrs(w) \/ ProgramWrites(w) \/ ProgramExits(w)
    /\ UNCHANGED <<job, twice, stray>>

Next == \E w \in Workers : Worker(w) \/ Program(w)
Spec == Init /\ [][Next]_vars /\ \A w \in Workers : WF_vars(Worker(w)) /\ WF_vars(Program(w))

-----------------------------------------------------------------------------
(* However far a request has come, at its end every descriptor it has      *)
(* opened is closed, and none is closed that is not its own (the number    *)
(* may be another thread's by then).                                       *)
EndsReleased ==
    /\ ~twice
    /\ \A w \in Workers : job[w].pc = "end" => job[w].open = {}

(* "don't leave zombies": no program outlives its request, and each is     *)
(* waited for, though it may end by itself or by the signal.               *)
NoZombies == \A w \in Workers : job[w].pc = "end" => prog[w].state \in {"none", "reaped"}

(* The client gets one answer, whatever fails, but for the environment.    *)
AnsweredOnce ==
    \A w \in Workers :
        /\ job[w].answers <= 1
        /\ job[w].pc = "end" /\ ("env" \notin Faults \/ prog[w].state # "none") => job[w].answers = 1

(* What the program has written is sent, all of it, unless the client is   *)
(* gone; the program has had the whole body if the client sent it.         *)
OutputWhole ==
    \A w \in Workers :
        (job[w].pc \in {"done", "kill", "wait", "cleanup"} /\ job[w].sent > 0 /\ "gone" \notin Faults) =>
            /\ job[w].sent = prog[w].wrote /\ pipe[w].out = 0
            /\ prog[w].kind.reads = "all" /\ "timeout" \notin Faults => prog[w].taken = job[w].body

=============================================================================
