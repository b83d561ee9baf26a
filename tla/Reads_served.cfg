SPECIFICATION Spec
CONSTANTS
    a = a
    b = b
    v9 = v9
    v10 = v10
    vLow = vLow
    vNum = vNum
    None = None
    Absent = None
    NonScalar = NonScalar
    Unspecified = Unspecified
    NotVerified = NotVerified
    Secret = Secret
    OtherSecret = OtherSecret
    Undefined = Undefined
    NotANumber = NotANumber
    IsText <- MCIsText
    TextRank <- MCTextRank
    IsNumber <- MCIsNumber
    NumberOf <- MCNumberOf
    Day = 2
    MaxFilters = 2
    MaxGroupBy = 2
    MaxAggregations = 2
    DefaultLimit = 3
    MaxLimit = 3
    RateScale = 12
    Cutoff = 35
    MinSamples = 3
    Worlds <- MCWorlds
    Read <- MCRead
    Measured <- MCMeasured
    Cutoffs <- MCCutoffs
    PageSize = 1
    Words <- MCWords
    Specs <- MCSpecs
    Windows <- MCWindows
    SigningConfigured = TRUE
    AccessLogEnabled = TRUE
    RetentionConfigured = FALSE
INVARIANTS WalksAreExact BundlesAreTruthful TreesAreComplete QueriesAddUp ReportsAgree MetricsFit
