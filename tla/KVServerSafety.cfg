SPECIFICATION Spec
CONSTANTS
    Threads = {t1, t2, t3}
    Conns = {c1, c2}
    Keys = {k1, k2}
    Values = {v1, v2}
    ShardOf <- MCShardOf
    Capacity = 1
    Writer = Writer
    NoConn = NoConn
    NoKey = NoKey
    NoValue = NoValue
    Unknown = Unknown
    MaxRequests = 3
SYMMETRY MCSymmetry
INVARIANTS
    TypeOK
    NoThinAir
    Coherent
    ReadsLatest
CHECK_DEADLOCK FALSE
