SPECIFICATION Spec
CONSTANTS
    c1 = c1
    c2 = c2
    a1 = a1
    a2 = a2
    f = f
    bytes = bytes
    r = r
    d = d
    q = q
    hello = hello
    Chunks <- SomeChunks
    Packets <- SomePackets
    MaxChunks = 4
    Undecodable = Undecodable
    Self = Self
    SessionIds = {1, 65537}
    Telemetry = {}
    Cells <- TwoCells
    Free = Free
    MaxTelemetry = 0
    FragmentMsgs = {f}
    FragIds = {0, 1, 2}
    Totals = {1}
    Payloads = {bytes}
    Length <- OneByte
    Addrs <- TwoAddrs
    Null = Null
    MAX_FRAGMENT_PAYLOAD = 1
    MAX_FRAGMENTS_PER_MSG = 2
    MaxAcks = 4
    CapIds = {0, 5}
    CapVersions = {1}
    CapFlags = {0}
    Versions = {1}
    Bodies = {hello}
    CAPABILITY_TABLE_SIZE = 5
    PROTOCOL_VERSION = 1
    SEQUENCE_WRAP = 2
    MaxCount = 6
    RouteIds = {r}
    Dests = {d}
    RoutePriorities = {3}
    Ttls = {0}
    HopLists <- NoHops
    ROUTING_TABLE_MAX = 1
    METRIC_WRAP = 4
    QueueIds = {q}
    QUEUE_MAX_MESSAGES = 2
    QUEUE_PROMOTION_THRESHOLD = 100
    COUNT_WRAP = 65536
    TIME_WRAP = 2
INVARIANTS
    TypeOK
    TelemetryIsReplay
    QueueOwnsPayloads
PROPERTIES
    VerdictTellsEffect
