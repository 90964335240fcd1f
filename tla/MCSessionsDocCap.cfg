CONSTANTS
    Access = {a1, a2, a3}
    Refresh = {r1, r2, r3}
    Client = {c1}
    Request = {q1, q2}
    NoAccess = NoAccess
    NoRefresh = NoRefresh
    NoToken = NoToken
    NoEntry = NoEntry
    AccessTTL = 1
    RefreshWindow = 4
    PurgeGrace = 0
    GoogleExpiry <- GoogleMoments
    GoogleTTL = 1
    MaxAges = {2}
    CallBound = 1
    MaxTime = 6
SYMMETRY Symmetry
SPECIFICATION SSpec
INVARIANTS
    DocumentedAgeCap
CHECK_DEADLOCK FALSE
