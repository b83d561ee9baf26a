SPECIFICATION Spec
CONSTANTS
    Ids = {i1, i2, i3, i4}
    Tenants = {a, b}
    Sessions = {s1, s2}
    a = a
    b = b
    s1 = s1
    s2 = s2
    NoRow = NoRow
    Times <- MCTimes
    MayUse <- MCSharedSessions
SYMMETRY IdSymmetry
INVARIANTS IInv SummariesExact StartedAtStored
PROPERTIES OnlyOwnEventsMoveASummary
CONSTRAINT CountBound
