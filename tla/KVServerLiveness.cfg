SPECIFICATION Spec
CONSTANTS
    Threads = {t1, t2}
    Conns = {c1}
    Keys = {k1}
    Values = {v1}
    ShardOf <- MCShardOf
    Capacity = 1
    Writer = Writer
    NoConn = NoConn
    NoKey = NoKey
    NoValue = NoValue
    Unknown = Unknown
    MaxRequests = 3
PROPERTIES
    Answered
    WritesExecuted
CHECK_DEADLOCK FALSE
