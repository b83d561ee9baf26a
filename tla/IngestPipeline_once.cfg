SPECIFICATION Spec
CONSTANTS
    Requests = {r1, r2, r3}
    Nodes = {n1, n2}
    Ids = {i1, i2}
    Quota = 2
    NoEntry = NoEntry
SYMMETRY Symmetry
INVARIANTS FannedOutOnce CountersBalance
CHECK_DEADLOCK FALSE
