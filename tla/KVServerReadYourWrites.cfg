SPECIFICATION Spec
CONSTANTS
    Threads = {t1, t2}
    Conns = {c1}
    Keys = {k1, k2}
    Values = {v1}
    ShardOf <- MCShardOf
    Capacity = 1
    Writer = Writer
    NoConn = NoConn
    NoKey = NoKey
    NoValue = NoValue
    Unknown = Unknown
    MaxRequests = 3
INVARIANTS
    ReadYourWrites
CHECK_DEADLOCK FALSE
