SPECIFICATION Spec
CONSTANTS
    a1 = a1
    a2 = a2
    a3 = a3
    m1 = m1
    m2 = m2
    bytes = bytes
    noise = noise
    empty = empty
    huge = huge
    Null = Null
    Free = Free
    MsgIds <- Msgs
    FragIds = {0, 1, 2}
    Totals = {1, 2, 3}
    Payloads <- Texts
    Length <- Sizes
    Addrs <- Cells
    MAX_FRAGMENT_PAYLOAD = 1024
    MAX_FRAGMENTS_PER_MSG = 2
    MaxAcks = 2
SYMMETRY Symmetry
INVARIANT NoDanglingAck
