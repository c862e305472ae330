SPECIFICATION Spec
CONSTANTS
    h1 = h1
    h2 = h2
    k1 = k1
    k2 = k2
    v1 = v1
    Producers <- MCProducers
    Keys <- MCKeys
    Values <- MCValues
    NoValue = NoValue
    NoTask = NoTask
    MaxTasks = 2
PROPERTIES
    StopTerminates
CHECK_DEADLOCK FALSE
