----------------------------- MODULE WriteTasks -----------------------------
(***************************************************************************)
(* The writes that go to the database: the AsyncTask of include/async.h    *)
(* and what its SQL statement does to table kvstore.  A key is absent from *)
(* the table when its value is NoValue.                                    *)
(***************************************************************************)
CONSTANTS
    Keys,
    Values,
    NoValue     \* no row for this key; the value field of a DELETE_OP

ASSUME NoValueAssumption == NoValue \notin Values

AsyncTask ==
    [type : {"INSERT_OP"}, key : Keys, value : Values]
        \cup [type : {"DELETE_OP"}, key : Keys, value : {NoValue}]

Tables == [Keys -> Values \cup {NoValue}]

(* INSERT ... ON DUPLICATE KEY UPDATE v=VALUES(v) sets the key's value,    *)
(* whether it has a row or not; DELETE ... WHERE k= removes the row, if    *)
(* there is one.  Either way the table ends with the task's value.         *)
Effect(task, table) == [table EXCEPT ![task.key] = task.value]
=============================================================================
