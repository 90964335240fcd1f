CONSTANTS
    Client = {q1}
    Tool <- Served
    Requests <- Sent
    NeedsConfirm <- Confirming
    Items = 2
    MaxRetries = 2
    Session = {s1, s2}
    ApiKey = {g1, g2}
    NoKey = NoKey
    Junk = Junk
    Caller = {m1}
    Proc = {p1, p2}
    Pair = {k1, k2}
    NoPair = NoPair
    NoEntry = NoEntry
    Free = Free
    MaxRev = 1
SPECIFICATION CallsSpec
INVARIANTS
    ToolTypeOK
    ListsAreWhole
    AppliedAtMostOnce
    AnswersAreTrue
    VersionedAfterCheck
    ActsForItsBearer
    NoNilProvider
    SessionsKept
PROPERTIES
    EveryToolReturns
    CancelledToolReturns
    EveryCallReturns
CHECK_DEADLOCK FALSE
