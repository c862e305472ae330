SPECIFICATION Spec
CONSTANTS
    k1 = k1
    k2 = k2
    k3 = k3
    k4 = k4
    v1 = v1
    v2 = v2
    s1 = s1
    s2 = s2
    n1 = n1
    n2 = n2
    n3 = n3
    Keys <- MCKeys
    Values <- MCValues
    Shards <- MCShards
    ShardOf <- MCShardOf
    Nodes <- MCNodes
    Capacity = 2
    NoValue = NoValue
    NoNode = NoNode
    NoEntry = NoEntry
INVARIANTS
    TypeOK
    IteratorsValid
    WithinCapacity
PROPERTIES
    LRURefinement
