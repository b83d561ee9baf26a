SPECIFICATION PgSpec
CONSTANTS
    Ids = {i1, i2}
    Tenants = {a}
    Sessions = {s1, s2}
    a = a
    s1 = s1
    s2 = s2
    NoRow = NoRow
    Times <- MCTimes
    MayUse <- MCMayUse
    Workers = {w1, w2}
    Pruner = Pruner
    Nobody = Nobody
    Untouched = Untouched
    MaxCount = 3
    Cutoffs <- MCCutoffs
SYMMETRY Symmetry
INVARIANTS NoOrphanEvents
