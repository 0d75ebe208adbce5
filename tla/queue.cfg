SPECIFICATION Spec
CONSTANTS
    m1 = m1
    m2 = m2
    m3 = m3
    Ids <- ThreeIds
    Priorities = {1, 4}
    InitCounts = {0, 65535}
    MaxAges = {1}
    QUEUE_MAX_MESSAGES = 2
    QUEUE_PROMOTION_THRESHOLD = 100
    COUNT_WRAP = 65536
    TIME_WRAP = 3
    UniqueIds = TRUE
    MaxEnqueues = 3
    MaxClock = 3
SYMMETRY IdSymmetry
INVARIANTS
    TypeOK
    CountMatchesLevels
    PromotionsBoundedByLevel
PROPERTIES
    DequeueMostUrgentOldest
    ExpiryByTrueAge
    ImplementsPool
