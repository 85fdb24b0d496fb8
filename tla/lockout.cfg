\* Four logins at once, a threshold of three, and one key that loses its TTL.
SPECIFICATION FairSpec
CONSTANTS
    Requests = {p1, p2, p3, p4}
    Threshold = 3
    Window = 3
    LockTTL = 4
    MaxMistakes = 1
    MaxCount = 8
INVARIANTS
    TypeOK
    ThresholdLocks
    OvershootBounded
PROPERTIES
    OnlyTimeUnlocks
    LockReleases
