CONSTANTS
    Client = {q1}
    Tool <- Served
    Requests <- Sent
    NeedsConfirm <- Confirming
    Items = 2
    MaxRetries = 1
    Session = {}
    ApiKey = {}
    NoKey = NoKey
    Junk = Junk
    Caller = {}
    Proc = {p1}
    Pair = {k1}
    NoPair = NoPair
    NoEntry = NoEntry
    Free = Free
    MaxRev = 0
SPECIFICATION CallsSpec
INVARIANTS
    ListsReturnAll
CHECK_DEADLOCK FALSE
