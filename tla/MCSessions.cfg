CONSTANTS
    Access = {a1, a2}
    Refresh = {r1, r2}
    Client = {c1}
    Request = {q1, q2}
    NoAccess = NoAccess
    NoRefresh = NoRefresh
    NoToken = NoToken
    NoEntry = NoEntry
    AccessTTL = 1
    RefreshWindow = 3
    PurgeGrace = 0
    GoogleExpiry <- GoogleMoments
    GoogleTTL = 0
    MaxAges = {0, 1}
    CallBound = 1
    MaxTime = 6
SYMMETRY Symmetry
SPECIFICATION SSpec
INVARIANTS
    SessionTypeOK
    RenewalChainBounded
    WindowBounded
    OnePairPerSession
    GoogleTokenNotStale
CHECK_DEADLOCK FALSE
