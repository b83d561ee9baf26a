SPECIFICATION PgLiveSpec
CONSTANTS
    Ids = {i1, i2}
    Tenants = {a}
    Sessions = {s1}
    a = a
    s1 = s1
    s2 = s2
    NoRow = NoRow
    Times <- MCTimes
    MayUse <- MCMayUse
    Workers = {w1, w2}
    Pruner = Pruner
    Nobody = Nobody
    Untouched = Untouched
    MaxCount = 2
    Cutoffs <- MCCutoffs
INVARIANTS PgIInv AnsweredIsStored ReconcileHasEvents NoDeadlock
PROPERTIES ImplementsEventStore TransactionsEnd
