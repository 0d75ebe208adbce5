SPECIFICATION Spec
CONSTANTS
    sm1 = sm1
    sm2 = sm2
    s1 = s1
    s2 = s2
    c1 = c1
    c2 = c2
    c3 = c3
    c4 = c4
    Free = Free
    Managers <- TwoManagers
    SessionIds <- TwoSessions
    Telemetry <- ThreeRuns
    Cells <- FourCells
    MaxTelemetry = 3
SYMMETRY Interchangeable
INVARIANTS
    TypeOK
    OwnedByOneManager
PROPERTIES
    ImplementsBook
