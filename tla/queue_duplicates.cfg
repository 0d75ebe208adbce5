SPECIFICATION Spec
CONSTANTS
    m1 = m1
    m2 = m2
    m3 = m3
    Ids <- TwoIds
    Priorities = {1}
    InitCounts = {0}
    MaxAges = {0}
    QUEUE_MAX_MESSAGES = 3
    QUEUE_PROMOTION_THRESHOLD = 100
    COUNT_WRAP = 65536
    TIME_WRAP = 3
    UniqueIds = FALSE
    MaxEnqueues = 4
    MaxClock = 1
SYMMETRY IdSymmetry
INVARIANT CountMatchesLevels
