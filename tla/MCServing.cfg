SPECIFICATION SuiteSpec
CONSTANTS
    Parts = {"sockets", "steady sockets", "start", "shutdown", "connection", "output", "url form", "multipart", "cut multipart", "client", "load", "cgi", "failing cgi", "two cgi", "environment"}
    None = None
    s1 = s1
    s2 = s2
    s3 = s3
    NoSocket = NoSocket
    Sockets = {s1, s2, s3}
    SqSize = 2
    MaxWorkers = 2
    MayFail = TRUE
INVARIANTS
    TypesOK
    ConnectionsOwned
    StartUndone
    FormsWhole
    ClientsTold
    CgiWhole
PROPERTIES
    QueueRefinement
    BytesExact
    AllEnd
CHECK_DEADLOCK FALSE
