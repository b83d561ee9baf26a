SPECIFICATION LiveSpec
CONSTANTS
    Clients = {c1, c2}
    Seeds = {key0, hook0}
    DefaultTenant = tenant0
    NewTenant = u
    Admin = Admin
    Nothing = Nothing
    Names = {n}
    DefaultProject = default
    OpenReads = {c1}
    FirstKeys <- MCFirstKeys
    FirstHooks <- MCFirstHooks
    ApiKeys = {key0}
    EventIds = {e}
    Admins = {Admin}
    key0 = key0
    hook0 = hook0
    tenant0 = tenant0
CHECK_DEADLOCK FALSE
INVARIANTS ExitTruth DeletedOnce RevokedRefused UpdatesKept
PROPERTIES CommandsEnd
