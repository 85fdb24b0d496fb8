SPECIFICATION FairSpec
CONSTANTS
    Window = 5
    Limit = 3
    Second = 2
INVARIANTS TypeOK BurstBounded RetryAfterHonest
PROPERTIES AdmissionsApart CountingHeals
