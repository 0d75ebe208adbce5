----------------------------- MODULE AeroParser -----------------------------
(***************************************************************************)
(* aeroframe::AeroParser (src/src/aeroframe.cpp) and the components whose  *)
(* state it owns: the sessions, the fragment reassembler, the protocol     *)
(* engine, the routing table and the priority queue.  A packet goes        *)
(* through parse in phases: the header checks, the scan of the payload     *)
(* into chunks, the dispatch of one chunk after the other, the CRC.        *)
(*                                                                         *)
(* A packet is what these phases tell apart: its size, whether the magic   *)
(* number is right, the length it announces, the chunks in its payload,    *)
(* whether the payload ends inside a chunk, and whether its CRC is right.  *)
(* A chunk is its type and the fields its handler reads.  Chunks that are  *)
(* too short for their handler, of an unknown type, or for the ingest      *)
(* pipeline, the schema registry and the validator, which are not part of  *)
(* this module, are of type "Other".                                       *)
(***************************************************************************)
EXTENDS Integers, SequencesExt

CONSTANTS
    Chunks,       \* the chunks there may be in a payload
    Packets,      \* the packets that may arrive
    MaxChunks,    \* bound: chunks dispatched in a behaviour
    Undecodable,  \* what decompression or decryption yields when it fails
    Self,         \* the parser's session_manager_
    \* the constants of the components
    SessionIds, Telemetry, Cells, Free, MaxTelemetry,
    FragmentMsgs, FragIds, Totals, Payloads, Length, Addrs, Null,
    MAX_FRAGMENT_PAYLOAD, MAX_FRAGMENTS_PER_MSG, MaxAcks,
    CapIds, CapVersions, CapFlags, Versions, Bodies,
    CAPABILITY_TABLE_SIZE, PROTOCOL_VERSION, SEQUENCE_WRAP, MaxCount,
    RouteIds, Dests, RoutePriorities, Ttls, HopLists, ROUTING_TABLE_MAX,
    METRIC_WRAP,
    QueueIds, QUEUE_MAX_MESSAGES, QUEUE_PROMOTION_THRESHOLD, COUNT_WRAP,
    TIME_WRAP

ASSUME ParserConstants ==
    /\ \A p \in Packets : p.tlvs \in Seq(Chunks) /\ p.cut \in BOOLEAN
    /\ MaxChunks \in Nat

VARIABLES
    phase,   \* where parse is: idle, scan or dispatch
    packet,  \* its argument
    tlvs,    \* result.tlvs
    next,    \* the chunk that is dispatched next
    error,   \* result.error of the last call
    acted,   \* history: the chunks this call has acted on
    budget,  \* history: how many more chunks may be dispatched (a bound)
    due,     \* history: what the chunks so far should have made of the sessions
    sessions, heap, deletes,
    fragments, memory, acks, tail, count, careful, steady,
    state, sequence_counter, capabilities, capability_count, context,
    context_valid, version, response, declared, overrun,
    routes, history, result,
    queues, total_messages, live, births, clock, out, delivered, expired

Sess == INSTANCE SessionManager WITH Managers <- {Self}
Frag == INSTANCE FragmentReassembler WITH MsgIds <- FragmentMsgs
Prot == INSTANCE ProtocolEngine
Rout == INSTANCE RoutingTable WITH
            Ids <- RouteIds, Priorities <- RoutePriorities, Deltas <- {}, MaxAgings <- 0
Prio == INSTANCE PriorityQueue WITH
            Ids <- QueueIds, Priorities <- {1}, InitCounts <- {0}, MaxAges <- {},
            UniqueIds <- FALSE, MaxEnqueues <- MaxChunks, MaxClock <- 0

\* What the components assume of their constants.
ASSUME ComponentConstants ==
    /\ Sess!SessionConstants
    /\ Frag!FragmentConstants /\ Frag!FreeIsNoFragment
    /\ Prot!ProtocolConstants
    /\ Rout!RoutingConstants
    /\ Prio!QueueConstants

\* The fields of a chunk are values of the component it is for.
ASSUME ChunkFields == \A c \in Chunks :
    CASE c.type = "SessionCmd" -> c.id \in SessionIds
      [] c.type \in {"CompressedData", "CipheredData", "MultiCompress"} ->
            c.bytes = Undecodable \/ c.bytes \in Seq(Nat)
      [] c.type = "TelemetryBatch" -> c.fixes \in Seq([timestamp_ms : Nat, bytes : Seq(Nat)])
      [] c.type = "Fragment" -> /\ c.key \in Frag!Keys /\ c.total \in Totals
                                /\ c.payload \in Payloads
      [] c.type = "RetransmitReq" -> c.key \in Frag!Keys
      [] c.type = "ProtocolMsg" -> /\ c.msg = "VersionDeclare" => c.arg \in Versions
                                   /\ c.msg = "CapabilityDeclare" => c.arg \in CapIds
                                   /\ c.msg = "Data" => c.arg \in Bodies
      [] c.type = "RoutingUpdate" -> /\ c.id \in RouteIds /\ c.dest \in Dests
                                     /\ c.priority \in RoutePriorities
                                     /\ c.ttl \in Ttls /\ c.hops \in HopLists
      [] c.type = "QueueStatus" -> c.id \in QueueIds
      [] OTHER -> TRUE

parseVars == <<phase, packet, tlvs, next, error>>
sessVars  == <<sessions, heap, deletes>>
fragVars  == <<fragments, memory, acks, tail, count, careful, steady>>
protVars  == <<state, sequence_counter, capabilities, capability_count, context,
               context_valid, version, response, declared, overrun>>
routVars  == <<routes, history, result>>
prioVars  == <<queues, total_messages, live, births, clock, out, delivered, expired>>
compVars  == <<sessVars, fragVars, protVars, routVars, prioVars>>
histVars  == <<acted, budget, due>>
vars      == <<parseVars, histVars, compVars>>

HEADER_SIZE  == 8
CRC_SIZE     == 2
MIN_PKT_SIZE == HEADER_SIZE + CRC_SIZE

NoPacket == [tlvs |-> <<>>]

-----------------------------------------------------------------------------
(* Helpers.  X_Y is X with a plausible mistake, for the mutation runs.     *)

\* The header checks, in their order.
HeaderError(p) ==
    IF p.size < MIN_PKT_SIZE THEN "PacketTooShort"
    ELSE IF ~p.magic_ok THEN "InvalidMagic"
    ELSE IF p.total_length < MIN_PKT_SIZE \/ p.total_length > p.size
    THEN "LengthMismatch" ELSE "None"

\* After the last whole chunk: is the payload read to its end?
Truncated_Ignored == FALSE
Truncated         == packet.cut

\* The sessions' buffers after bytes are appended for an id; an id without a
\* session is passed over.
Appended_AnySession(h, to) == [c \in Cells |->
    IF c \in Sess!Owned(Self) THEN h[c] \o to.bytes ELSE h[c]]
Appended(h, to) ==
    IF to.id \in DOMAIN sessions[Self]
    THEN [h EXCEPT ![sessions[Self][to.id]] = @ \o to.bytes] ELSE h

\* The session that processTelemetryBatch files a GPS fix under.
FixSession(fix) == [id |-> fix.timestamp_ms % 65536, bytes |-> fix.bytes]

\* The buffers after all fixes of a batch, one by one.
AppendedAll(h, fixes) ==
    LET after[n \in 0 .. Len(fixes)] ==
          IF n = 0 THEN h ELSE Appended(after[n - 1], FixSession(fixes[n]))
    IN  after[Len(fixes)]

-----------------------------------------------------------------------------
(* History: what the chunks should have done to the sessions, taken one by *)
(* one.  A book is a function from the open ids to their telemetry.        *)

Deposited(book, id, bytes) ==
    IF id \in DOMAIN book THEN [book EXCEPT ![id] = @ \o bytes] ELSE book

DepositedAll(book, fixes) ==
    LET after[n \in 0 .. Len(fixes)] ==
          IF n = 0 THEN book
          ELSE Deposited(after[n - 1], fixes[n].timestamp_ms % 65536, fixes[n].bytes)
    IN  after[Len(fixes)]

Replayed(book, c) ==
    CASE c.type = "SessionCmd" /\ c.action = 1 ->
            [i \in DOMAIN book \cup {c.id} |-> IF i \in DOMAIN book THEN book[i] ELSE <<>>]
      [] c.type = "SessionCmd" /\ c.action = 2 ->
            [i \in DOMAIN book \ {c.id} |-> book[i]]
      [] c.type \in {"CompressedData", "CipheredData", "MultiCompress"} ->
            IF c.bytes = Undecodable THEN book ELSE Deposited(book, c.id, c.bytes)
      [] c.type = "TelemetryBatch" -> DepositedAll(book, c.fixes)
      [] OTHER -> book

-----------------------------------------------------------------------------
(* parse: the phases before the dispatch. *)

Init ==
    /\ phase = "idle"
    /\ packet = NoPacket
    /\ tlvs = <<>>
    /\ next = 1
    /\ error = "None"
    /\ acted = <<>>
    /\ budget = MaxChunks
    /\ due = Sess!NoSessions
    /\ sessions = [m \in {Self} |-> Sess!NoSessions]
    /\ heap = [c \in Cells |-> Free]
    /\ deletes = TRUE
    /\ Frag!Init
    /\ Prot!ProtocolInit
    /\ Rout!Init
    /\ Prio!Init

\* A call returns: its packet and chunks are gone.
Return(err) ==
    /\ phase' = "idle"
    /\ packet' = NoPacket
    /\ tlvs' = <<>>
    /\ next' = 1
    /\ error' = err
    /\ acted' = <<>>

Refuse(p) ==
    /\ phase = "idle"
    /\ HeaderError(p) # "None"
    /\ Return(HeaderError(p))
    /\ UNCHANGED <<budget, due, compVars>>

Receive(p) ==
    /\ phase = "idle"
    /\ HeaderError(p) = "None"
    /\ Len(p.tlvs) <= budget
    /\ phase' = "scan"
    /\ packet' = p
    /\ UNCHANGED <<tlvs, next, error, histVars, compVars>>

\* parseTLVs: one turn of its loop, and its end.
ScanChunk ==
    /\ phase = "scan"
    /\ Len(tlvs) < Len(packet.tlvs)
    /\ tlvs' = Append(tlvs, packet.tlvs[Len(tlvs) + 1])
    /\ UNCHANGED <<phase, packet, next, error, histVars, compVars>>

ScanEnd ==
    /\ phase = "scan"
    /\ Len(tlvs) = Len(packet.tlvs)
    /\ \/ /\ Truncated
          /\ Return("TruncatedTLV")
       \/ /\ ~Truncated
          /\ phase' = "dispatch"
          /\ UNCHANGED <<packet, tlvs, next, error, acted>>
    /\ UNCHANGED <<budget, due, compVars>>

\* The CRC is computed and compared after every chunk was dispatched.
CheckCrc ==
    /\ phase = "dispatch"
    /\ next > Len(tlvs)
    /\ Return(IF packet.crc_ok THEN "None" ELSE "InvalidCRC")
    /\ UNCHANGED <<budget, due, compVars>>

-----------------------------------------------------------------------------
(* parse: the dispatch, one action per handler. *)

\* The chunk whose turn it is, if it is of type t.
Turn(t) == {c \in ToSet(tlvs) : phase = "dispatch" /\ next <= Len(tlvs)
                                /\ c = tlvs[next] /\ c.type = t}

Advance(c) ==
    /\ next' = next + 1
    /\ acted' = Append(acted, c)
    /\ budget' = budget - 1
    /\ due' = Replayed(due, c)
    /\ UNCHANGED <<phase, packet, tlvs, error>>

OnlySessions  == UNCHANGED <<fragVars, protVars, routVars, prioVars>>
OnlyFragments == UNCHANGED <<sessVars, protVars, routVars, prioVars>>
OnlyProtocol  == UNCHANGED <<sessVars, fragVars, routVars, prioVars>>
OnlyRoutes    == UNCHANGED <<sessVars, fragVars, protVars, prioVars>>
OnlyQueue     == UNCHANGED <<sessVars, fragVars, protVars, routVars>>

ProcessSessionCmd ==
    \E c \in Turn("SessionCmd") :
        /\ Advance(c)
        /\ \/ c.action = 1 /\ Sess!OpenSession(Self, c.id)
           \/ c.action = 2 /\ Sess!CloseSession(Self, c.id)
           \/ /\ \/ c.action = 1 /\ c.id \in DOMAIN sessions[Self]
                 \/ c.action = 2 /\ c.id \notin DOMAIN sessions[Self]
                 \/ c.action \notin {1, 2}
              /\ UNCHANGED sessVars
        /\ OnlySessions

\* The three handlers that decode a payload for a session.
Deposit(t) ==
    \E c \in Turn(t) :
        /\ Advance(c)
        /\ heap' = IF c.bytes = Undecodable THEN heap ELSE Appended(heap, c)
        /\ UNCHANGED <<sessions, deletes>>
        /\ OnlySessions

ProcessCompressedData == Deposit("CompressedData")
ProcessCipheredData   == Deposit("CipheredData")
ProcessMultiCompress  == Deposit("MultiCompress")

\* Every valid GPS fix of the batch, in order; the other records go nowhere.
ProcessTelemetryBatch ==
    \E c \in Turn("TelemetryBatch") :
        /\ Advance(c)
        /\ heap' = AppendedAll(heap, c.fixes)
        /\ UNCHANGED <<sessions, deletes>>
        /\ OnlySessions

ProcessFragment ==
    \E c \in Turn("Fragment") :
        /\ Advance(c)
        /\ \/ Frag!PushFragment(c.key, c.total, c.payload)
           \/ ~Frag!Accepts(c.key, c.total, c.payload) /\ UNCHANGED fragVars
        /\ OnlyFragments

ProcessRetransmitReq ==
    \E c \in Turn("RetransmitReq") :
        /\ Advance(c)
        /\ \/ Frag!RequestRetransmit(c.key)
           \/ fragments[c.key] = Null /\ UNCHANGED fragVars
        /\ OnlyFragments

\* The response is a local of the handler: what it says is lost.
ProcessProtocolMsg ==
    \E c \in Turn("ProtocolMsg") :
        /\ Advance(c)
        /\ \/ c.msg = "VersionDeclare" /\ Prot!HandleVersionDeclare(c.arg)
           \/ c.msg = "CapabilityDeclare" /\ \E v \in CapVersions, flags \in CapFlags :
                 Prot!HandleCapabilityDeclare(c.arg, v, flags)
           \/ c.msg = "Heartbeat" /\ Prot!HandleHeartbeat
           \/ c.msg = "Data" /\ Prot!HandleData(c.arg)
           \/ /\ \/ c.msg = "VersionDeclare" /\ c.arg # PROTOCOL_VERSION
                 \/ c.msg = "CapabilityDeclare" /\ ~Prot!InTable(c.arg)
              /\ Prot!HandleRefused
        /\ OnlyProtocol

ProcessRoutingUpdate ==
    \E c \in Turn("RoutingUpdate") :
        /\ Advance(c)
        /\ \/ Rout!AddRoute(c.id, c.dest, c.priority, c.ttl, c.hops)
           \/ /\ \/ ~Rout!HasRoom
                 \/ c.id \in DOMAIN routes
                 \/ c.priority > Rout!ROUTE_PRIORITY_CRITICAL
              /\ UNCHANGED routVars
        /\ OnlyRoutes

\* There is no case for action 1, dequeue.
ProcessQueueStatus ==
    \E c \in Turn("QueueStatus") :
        /\ Advance(c)
        /\ \/ c.action = 0 /\ Prio!Enqueue(c.id, 1, 0)
           \/ c.action = 2 /\ Prio!Promote(c.id)
           \/ c.action = 3 /\ Prio!Demote(c.id)
           \/ /\ \/ c.action = 0 /\ ~Prio!HasRoom
                 \/ c.action = 2 /\ Prio!FoundAt(c.id) \subseteq {Prio!Top}
                 \/ c.action = 3 /\ Prio!FoundAt(c.id) \subseteq {0}
                 \/ c.action = 1
              /\ UNCHANGED prioVars
        /\ OnlyQueue

ProcessOther ==
    \E c \in Turn("Other") :
        /\ Advance(c)
        /\ UNCHANGED compVars

Next ==
    \/ \E p \in Packets : Refuse(p) \/ Receive(p)
    \/ ScanChunk \/ ScanEnd \/ CheckCrc
    \/ ProcessSessionCmd
    \/ ProcessCompressedData \/ ProcessCipheredData \/ ProcessMultiCompress
    \/ ProcessTelemetryBatch
    \/ ProcessFragment \/ ProcessRetransmitReq
    \/ ProcessProtocolMsg
    \/ ProcessRoutingUpdate
    \/ ProcessQueueStatus
    \/ ProcessOther

Spec == Init /\ [][Next]_vars

-----------------------------------------------------------------------------
(* Properties. *)

\* Every variable has its type, those of the components in the words of their
\* own modules: what packets do stays within the types and limits of each.
TypeOK ==
    /\ phase \in {"idle", "scan", "dispatch"}
    /\ IsPrefix(tlvs, packet.tlvs)
    /\ next \in 1 .. Len(tlvs) + 1
    /\ error \in {"None", "PacketTooShort", "InvalidMagic", "LengthMismatch",
                  "TruncatedTLV", "InvalidCRC"}
    /\ Sess!TypeOK /\ Frag!TypeOK /\ Prot!ProtocolTypeOK /\ Rout!TypeOK /\ Prio!TypeOK

\* At any point the open sessions and the telemetry in their buffers are what
\* the chunks dispatched so far, replayed in their order, should have made,
\* whatever packets they came in (those later refused for their CRC included)
\* and whatever other chunks came between: no session sees what was sent to
\* another, or to an earlier session of its own id.
TelemetryIsReplay ==
    [id \in DOMAIN sessions[Self] |-> heap[sessions[Self][id]]] = due

\* The verdict of parse tells what became of the packet's chunks.  Under None
\* and InvalidCRC each was acted on once and in order, for the CRC is compared
\* last; under any other verdict none was, not even those before the cut.
VerdictTellsEffect ==
    [][phase' = "idle" =>
          IF error' \in {"None", "InvalidCRC"}
          THEN acted = packet.tlvs /\ ~packet.cut /\ HeaderError(packet) = "None"
          ELSE acted = <<>>]_vars

\* Packets may use a message id twice.  The queue still has each payload copy
\* in one place at most, all of them allocated, and counts the copies it holds
\* in memory, those that promote and demote drop from the levels included.
QueueOwnsPayloads == Prio!PayloadsOwnedOnce /\ Prio!CountIsOwnedCopies

=============================================================================
