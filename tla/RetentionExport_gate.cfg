SPECIFICATION Spec
CONSTANTS
    Ids = {i1, i2}
    Tenants = {a, b}
    Projects = {p1, p2, p3}
    a = a
    b = b
    p1 = p1
    p2 = p2
    p3 = p3
    TenantOf <- WithForever
    RetentionDays <- WindowsForever
    Slug <- DistinctSlugs
    FreshKeys = TRUE
    ExportJob = TRUE
    Times <- Around
    MaxNow = 2
SYMMETRY Symmetry
INVARIANTS IInv DeletedIsArchived
PROPERTIES PassComplete
CONSTRAINT ObjectBound
