SPECIFICATION Spec
CONSTANTS
    Ids = {i1, i2}
    Tenants = {a, b}
    Projects = {p1, p2}
    a = a
    b = b
    p1 = p1
    p2 = p2
    p3 = p3
    TenantOf <- OneEach
    RetentionDays <- Windows
    Slug <- OneSlug
    FreshKeys = FALSE
    ExportJob = FALSE
    Times <- Around
    MaxNow = 3
SYMMETRY Symmetry
INVARIANTS DeletedIsArchived
