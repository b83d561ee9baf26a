SPECIFICATION LiveSpec
CONSTANTS
    Events = {e1, e2, e3}
    Hooks = {h1}
    MaxConcurrent = 1
    MaxRetries = 1
    SyncDb = FALSE
INVARIANTS SemaphoreAccounted NoLostWakeup ConcurrencyBounded OutcomesTrue
PROPERTIES DeliveriesEnd
CHECK_DEADLOCK FALSE
