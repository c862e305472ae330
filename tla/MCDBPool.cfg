SPECIFICATION Spec
CONSTANTS
    t1 = t1
    t2 = t2
    t3 = t3
    t4 = t4
    t5 = t5
    c1 = c1
    c2 = c2
    c3 = c3
    Threads <- MCThreads
    Conns <- MCConns
    NoConn = NoConn
INVARIANTS
    TypeOK
    Exclusive
    Conservation
    NoLostWakeup
PROPERTIES
    FreeConnTaken
    PoolRefinement
CHECK_DEADLOCK FALSE
