CONSTANTS
    Browser = {b1}
    Flow = {f1}
    Code = {k1}
    Request = {q1}
    Verifier = {v1}
    u1 = u1
    u2 = u2
    u3 = u3
    m1 = m1
    Redirect = {u1, u2, u3}
    Dynamic = {d1, d2}
    Documented = {m1}
    Foreign = {x1}
    Document <- Documents
    Place <- Places
    NotLoopback = NotLoopback
    NoFlow = NoFlow
    NoCode = NoCode
    NoWork = NoWork
    NoClient = NoClient
    BaseIsHTTPS = TRUE
    MaxClients = 1
    StateTTL = 0
    CodeTTL = 1
    CallBound = 1
    LastStart = 1
    MaxTime = 3
SPECIFICATION FairSpec
INVARIANTS
    RedirectStaysRegistered
PROPERTIES
    AbandonedIsReclaimed
CHECK_DEADLOCK FALSE
