CONSTANTS
    LicenseTypes <- MC_LicenseTypes
    RecordChoices <- MC_RecordChoices
    MaxHistory = 3
    FreqPrecision = 10
SPECIFICATION Spec
INVARIANTS
    ProjectionMatchesReference
