------------------------------ MODULE PoolSpec ------------------------------
(***************************************************************************)
(* What include/dbpool.h promises of a MySQLPool to its users, the HTTP    *)
(* handlers and the async writer: a fixed set of connections, each free or *)
(* owned by one thread, taken and given back one at a time.  Nothing here  *)
(* says which free connection a thread gets, nor how a thread waits.       *)
(***************************************************************************)

CONSTANTS
    Threads,    \* the threads that use the pool
    Conns,      \* the pool_size connections
    NoConn      \* "no connection", not one of Conns

VARIABLES
    state,      \* "new" while the pool is built, then "up", at last "down"
    free,       \* the connections nobody owns
    owner       \* owner[t]: the connection t owns, or NoConn

specVars == <<state, free, owner>>

SpecInit ==
    /\ state = "new"
    /\ free = {}
    /\ owner = [t \in Threads |-> NoConn]

(* The pool comes up with all of its connections, or not at all. *)
Open ==
    /\ state = "new"
    /\ state' = "up"
    /\ free' = Conns
    /\ UNCHANGED owner

Fail ==
    /\ state = "new"
    /\ state' = "down"
    /\ UNCHANGED <<free, owner>>

(* acquire(): blocks (is disabled) until a connection is free. *)
Take(t) ==
    /\ state = "up"
    /\ owner[t] = NoConn
    /\ \E c \in free :
          /\ free' = free \ {c}
          /\ owner' = [owner EXCEPT ![t] = c]
    /\ UNCHANGED state

(* release(): the connection goes back to the pool. *)
Give(t) ==
    /\ state = "up"
    /\ owner[t] # NoConn
    /\ free' = free \cup {owner[t]}
    /\ owner' = [owner EXCEPT ![t] = NoConn]
    /\ UNCHANGED state

(* Destruction: the free connections are gone, the owned ones stay owned. *)
Close ==
    /\ state = "up"
    /\ state' = "down"
    /\ free' = {}
    /\ UNCHANGED owner

SpecNext ==
    \/ Open
    \/ Fail
    \/ \E t \in Threads : Take(t) \/ Give(t)
    \/ Close

PoolSpecification == SpecInit /\ [][SpecNext]_specVars

=============================================================================
