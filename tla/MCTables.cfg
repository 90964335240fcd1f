CONSTANTS
    Access = {a1, a2, a3}
    Refresh = {r1, r2, r3}
    Client = {c1}
    NoAccess = NoAccess
    NoRefresh = NoRefresh
    NoToken = NoToken
    AccessTTL = 1
    RefreshWindow = 3
    PurgeGrace = 0
    GoogleExpiry = {0}
    MaxTime = 3
    Address = {v1, v2, v3}
    Request = {q1, q2}
    Limiter = {l1, l2, l3, l4}
    NoLimiter = NoLimiter
    NoAddress = NoAddress
    Rate = 1
    Burst = 2
    StaleAfter = 3
    MaxVisitors = 2
    Stall = 1
    Url = {u1, u2, u3}
    Fetcher = {f1, f2}
    NoUrl = NoUrl
    NoDocument = NoDocument
    MaxEntries = 2
    DefaultTTL = 1
    MaxTTL = 2
    MaxAges = {0, 1, 3, 6, 9}
    Wrap = 5
    FetchBound = 1
    LastMoment = 4
SYMMETRY Symmetry
SPECIFICATION TablesSpec
INVARIANTS
    TypeOK
    IndexConsistent
    SpentIsDead
    LimiterTypeOK
    CacheTypeOK
    ServedDocumentIsRecent
PROPERTIES
    DeadStaysDead
    OnlyRotationOrDeletionEnds
    OneBucketPerAddress
    LiveDocumentsKept
CHECK_DEADLOCK FALSE
