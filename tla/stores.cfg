SPECIFICATION StoresSpec
CONSTANTS
    SnapshotIds = {0, 1, 2}
    SnapshotTimes = {0, 1}
    StoreIds = {1, 2}
    StoreRecords <- SomeStored
    AppendSizes <- SomeAppends
    COUNT_WRAP = 4
    MAX_METADATA = 5
    LimitKeys = {"k"}
    LimitConfigs <- LimitChoices
    LimitTimes = {0, 1, 2, 3, 4}
    MAX_ADMITTED = 4
    Payloads = {p, q}
    Empty = Empty
    CAPACITY = 2
    MAX_PUSHED = 5
    MetricSamples <- SomeSamples
    MAX_SAMPLES = 2
    Events <- SomeEvents
    MAX_EVENTS = 3
    SyncSamples <- SomeSyncs
    MAX_SYNC_SAMPLES = 2
    CLOCK_WRAP = 16
    Stages <- SomeJobs
    Devices <- SomeDevices
    RouteEntries <- SomeRoutes
    ArchiveEntries <- SomeArchived
    FieldMappings <- SomeMappings
    SIZE_WRAP = 8
    TlvTypes = {1, 2}
    TlvLengths = {0, 5, 16}
    PACKET_WRAP = 16
    OVERHEAD = 2
    ValidationRules <- SomeChecks
    Blocks <- SomeBlocks
    PARAM_WRAP = 8
    Thresholds <- SomeThresholds
    Ciphers = {c, d}
    CipherKeys <- SomeKeys
    CIPHER_MIN_KEY_LEN = 1
    CIPHER_MAX_KEY_LEN = 6
    Garbage <- SomeGarbage
    SchemaIds = {0, 1}
    Fields <- SomeFields
    OFFSET_WRAP = 8
    FilterRules <- SomeRules
    TransformStages <- SomeStages
    TelemetryRecords <- SomeTelemetry
    ProbeBytes = {0, 1, 127, 129, 130, 255}
    ProbeNumbers <- SomeNumbers
    MAX_PROBE = 4
INVARIANTS
    StoresTypeOK
    LatestLostOnlyByPruning
    BytesFollowMetadata
    WindowHonoured
    DeliveredOnceInOrder
    StagesSettleOnce
    ByteLaws
    CopiedKeysDecrypt
    NumericLaws
