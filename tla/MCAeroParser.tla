---------------------------- MODULE MCAeroParser ----------------------------
(* Small instances of AeroParser. *)
EXTENDS AeroParser

CONSTANTS
    c1, c2,    \* heap cells of sessions
    a1, a2,    \* heap cells of fragments
    f, bytes,  \* a fragmented message, its payload
    r, d,      \* a route, its destination
    q,         \* a message id in the queue
    hello      \* the body of a Data message

TwoCells == {c1, c2}
TwoAddrs == {a1, a2}
NoHops    == {<<>>}
OneByte   == [p \in {bytes} |-> 1]

\* Session ids, one of them beyond 16 bits: fixes at either time go to the first.
Near == 1
Far  == 65537

SessionCmd(action, id)  == [type |-> "SessionCmd", action |-> action, id |-> id]
Coded(t, id, content)   == [type |-> t, id |-> id, bytes |-> content]
QueueStatus(action)     == [type |-> "QueueStatus", action |-> action, id |-> q]
Msg(m, arg)             == [type |-> "ProtocolMsg", msg |-> m, arg |-> arg]

Batch ==
    [type |-> "TelemetryBatch",
     fixes |-> <<[timestamp_ms |-> Near, bytes |-> <<4>>],
                 [timestamp_ms |-> Far, bytes |-> <<5>>]>>]

FragmentChunk(id) ==
    [type |-> "Fragment", key |-> <<f, id>>, total |-> 1, payload |-> bytes]
Resend == [type |-> "RetransmitReq", key |-> <<f, 0>>]
Route  == [type |-> "RoutingUpdate", id |-> r, dest |-> d, priority |-> 3, ttl |-> 0,
           hops |-> <<>>]

SessionChunks ==
    {SessionCmd(1, Near), SessionCmd(2, Near), SessionCmd(1, Far), SessionCmd(3, Near),
     Coded("CompressedData", Near, <<1>>), Coded("CipheredData", Far, <<2>>),
     Coded("MultiCompress", Near, Undecodable), Batch}

OtherChunks ==
    {FragmentChunk(0), FragmentChunk(1), FragmentChunk(2), Resend, Route,
     Msg("VersionDeclare", 1), Msg("CapabilityDeclare", 0), Msg("CapabilityDeclare", 5),
     Msg("Heartbeat", 0), Msg("Data", hello),
     QueueStatus(0), QueueStatus(1), QueueStatus(2), QueueStatus(3),
     [type |-> "Other"]}

SomeChunks == SessionChunks \cup OtherChunks

Packet(size, magic_ok, total_length, payload, cut, crc_ok) ==
    [size |-> size, magic_ok |-> magic_ok, total_length |-> total_length,
     tlvs |-> payload, cut |-> cut, crc_ok |-> crc_ok]

\* Headers that are refused, each for one of the reasons, and packets of up to
\* two chunks, whole and cut, with the right CRC and a wrong one.
SomePackets ==
    {Packet(9, TRUE, 9, <<>>, FALSE, TRUE), Packet(40, FALSE, 40, <<>>, FALSE, TRUE),
     Packet(40, TRUE, 9, <<>>, FALSE, TRUE), Packet(40, TRUE, 41, <<>>, FALSE, TRUE),
     Packet(10, TRUE, 10, <<>>, FALSE, TRUE)}
    \cup {Packet(40, TRUE, 40, <<c>>, FALSE, crc) : c \in SomeChunks, crc \in BOOLEAN}
    \cup {Packet(40, TRUE, 40, <<c>>, TRUE, TRUE) : c \in SomeChunks}
    \cup {Packet(40, TRUE, 40, <<SessionCmd(1, Near), c>>, FALSE, TRUE) : c \in SomeChunks}
    \cup {Packet(40, TRUE, 40, <<c, QueueStatus(2)>>, FALSE, FALSE) : c \in SomeChunks}

=============================================================================
