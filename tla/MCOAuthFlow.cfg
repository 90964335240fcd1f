CONSTANTS
    Browser = {b1, b2}
    Flow = {f1, f2}
    Code = {k1, k2}
    Request = {q1, q2}
    Verifier = {v1, v2}
    u1 = u1
    u2 = u2
    u3 = u3
    m1 = m1
    Redirect = {u3}
    Dynamic = {}
    Documented = {}
    Foreign = {x1}
    Document <- Documents
    Place <- Places
    NotLoopback = NotLoopback
    NoFlow = NoFlow
    NoCode = NoCode
    NoWork = NoWork
    NoClient = NoClient
    BaseIsHTTPS = FALSE
    MaxClients = 1
    StateTTL = 1
    CodeTTL = 1
    CallBound = 1
    LastStart = 4
    MaxTime = 4
SYMMETRY Symmetry
SPECIFICATION Spec
INVARIANTS
    SessionBelongsToStarter
    FlowInOnePlace
    SessionIsPrompt
PROPERTIES
    FlowsGoForward
CHECK_DEADLOCK FALSE
