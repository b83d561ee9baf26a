SPECIFICATION LiveSpec
CONSTANTS
    Processes = {p1, p2}
    Me = p1
    LastVersion = 2
    Clients = {k1, k2, k3}
    Tickets = {t1}
    Tenants = {default, a}
    Default = default
    Admin = Admin
    None = None
    MaxConnections = 2
    MaxPerTenant = 1
INVARIANTS SchemaBeforeTraffic HubAccounted TicketsOnce
PROPERTIES SlotsComeBack
