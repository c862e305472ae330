------------------------------ MODULE WriteLog ------------------------------
(***************************************************************************)
(* What the AsyncWriter promises its callers: the accepted writes reach    *)
(* the table one at a time, each at most once, in the order in which they  *)
(* were accepted.  A statement that fails may leave the table as it was;   *)
(* it is not tried again.  Once the writer is closed no further write      *)
(* reaches the table, accepted or not.                                     *)
(***************************************************************************)
EXTENDS WriteTasks, Naturals, Sequences

VARIABLES
    log,        \* the accepted writes, in order
    applied,    \* how many of them have been dealt with
    table,      \* the database table
    closed      \* the writer has been stopped

logVars == <<log, applied, table, closed>>

LogInit ==
    /\ log = <<>>
    /\ applied = 0
    /\ table = [k \in Keys |-> NoValue]
    /\ closed = FALSE

Accept(task) ==
    /\ log' = Append(log, task)
    /\ UNCHANGED <<applied, table, closed>>

Apply ==
    /\ ~closed
    /\ applied < Len(log)
    /\ applied' = applied + 1
    /\ table' \in {table, Effect(log[applied + 1], table)}
    /\ UNCHANGED <<log, closed>>

Close ==
    /\ ~closed
    /\ closed' = TRUE
    /\ UNCHANGED <<log, applied, table>>

LogNext ==
    \/ \E task \in AsyncTask : Accept(task)
    \/ Apply
    \/ Close

LogSpecification == LogInit /\ [][LogNext]_logVars

=============================================================================
