SPECIFICATION IngestSpec
CONSTANTS
    ConfigEntries <- SomeEntries
    SchemaIds = {0, 1}
    Fields <- SomeFields
    OFFSET_WRAP = 16
    FilterRules <- SomeRules
    TransformStages <- SomeStages
    Devices <- SomeDevices
    MetricSamples <- SomeSamples
    MAX_SAMPLES = 2
    Events <- SomeEvents
    MAX_EVENTS = 3
    TelemetryRecords <- SomeTelemetry
    Payloads <- SomeSections
    Empty = Empty
    CAPACITY = 2
    MAX_PUSHED = 3
    Sections <- SomeSections
    Announced = {0, 1, 3}
    MAX_PACKETS = 2
    MAX_HISTORY = 3
INVARIANTS
    IngestTypeOK
    BufferHoldsNewest
    PartsFollowSections
    StatsCoverAllSamples
PROPERTIES
    VerdictCountsSections
