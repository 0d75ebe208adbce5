SPECIFICATION Spec
CONSTANTS
    r1 = r1
    r2 = r2
    r3 = r3
    d1 = d1
    d2 = d2
    Ids <- ThreeIds
    Dests <- TwoDests
    Priorities = {3, 4}
    Ttls = {0, 1, 2}
    Deltas = {1, 3}
    HopLists <- SomeHops
    ROUTING_TABLE_MAX = 2
    METRIC_WRAP = 4
    MaxAgings = 3
SYMMETRY RouteSymmetry
INVARIANTS
    TypeOK
    ActiveWhileAlive
PROPERTIES
    LookupFindsCheapest
