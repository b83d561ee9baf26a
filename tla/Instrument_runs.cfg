SPECIFICATION LiveSpec
CONSTANTS
    NumRuns = 2
    Cores = {c1, c2}
    Me = c1
    MaxRuns = 1
    MaxQueue = 1
    MaxCalls = 2
    None = None
INVARIANTS TracesAreTrees RunsAccounted ReportedOnce
PROPERTIES ImplementsChannel EmitterRests
CHECK_DEADLOCK FALSE
