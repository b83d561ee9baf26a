SPECIFICATION Spec
CONSTANTS
    Events = {e1, e2}
    Hooks = {h1, h2}
    MaxConcurrent = 1
    MaxRetries = 0
    SyncDb = TRUE
SYMMETRY Symmetry
INVARIANTS ConcurrencyBounded
