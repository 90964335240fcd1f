CONSTANTS
    Proc = {p1, p2}
    Pair = {k1, k2, k3}
    NoPair = NoPair
    NoEntry = NoEntry
    Free = Free
    MaxRev = 1
SYMMETRY Symmetry
SPECIFICATION Spec
INVARIANTS
    TypeOK
    ReplacedStaysGone
    AckedSuccessorOnDisk
    RevokedStaysGone
    QuietFileIsCurrent
PROPERTIES
    StoreIsDurable
CHECK_DEADLOCK FALSE
