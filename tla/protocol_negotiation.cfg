SPECIFICATION ProtocolSpec
CONSTANTS
    CapIds = {0, 1, 2, 3}
    CapVersions = {1}
    CapFlags = {257}
    Versions = {1, 2}
    Bodies = {hello}
    CAPABILITY_TABLE_SIZE = 3
    PROTOCOL_VERSION = 1
    SEQUENCE_WRAP = 2
    MaxCount = 4
PROPERTY NegotiationEstablishes
