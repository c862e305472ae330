SPECIFICATION Spec
CONSTANTS
    n1 = n1
    n2 = n2
    n3 = n3
    kv = kv
    sub = sub
    pat = pat
    h1 = h1
    h2 = h2
    t1 = t1
    t2 = t2
    c1 = c1
    c2 = c2
    NoNode = NoNode
    NoCall = NoCall
    NoCallback = NoCallback
    Nodes = {n1, n2}
    Uris = {kv, pat}
    RequestUris = {kv}
    Inside <- Below
    Matching <- Patterns
    Callbacks = {h1, h2}
    Serves <- KvHandlers
    Methods = {"GET", "PUT"}
    PutDelete = {"PUT", "DELETE"}
    Calls <- CoreCalls
    Registrars = {t1, t2}
    Requests = {c1, c2}
    RefMod = 4
    SameAnswer = TRUE
INVARIANTS
    PutSupported
CHECK_DEADLOCK FALSE
