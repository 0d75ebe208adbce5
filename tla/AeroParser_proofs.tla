-------------------------- MODULE AeroParser_proofs --------------------------
(***************************************************************************)
(* What holds of the parser for every set of packets: its verdict tells    *)
(* its effect, its components stay within the invariants of their own      *)
(* modules, and the sessions are what the chunks made them.  Progress says *)
(* where a call has got to: nothing is acted on before the whole payload   *)
(* is scanned, and then the chunks acted on are those before `next`.  For  *)
(* the components, each handler is one action of one component, and the    *)
(* lemma on that action in the component's proofs says that its invariant  *)
(* survives; the other components are left alone.                          *)
(***************************************************************************)
EXTENDS AeroParser, RecordStream_proofs

Idle == acted = <<>> /\ tlvs = <<>> /\ next = 1 /\ packet = NoPacket

Scanning ==
    /\ packet \in Packets
    /\ HeaderError(packet) = "None"
    /\ acted = <<>> /\ next = 1
    /\ Len(tlvs) <= Len(packet.tlvs)
    /\ tlvs = SubSeq(packet.tlvs, 1, Len(tlvs))
    /\ tlvs \in Seq(Chunks)

Dispatching ==
    /\ packet \in Packets
    /\ HeaderError(packet) = "None"
    /\ ~packet.cut
    /\ tlvs = packet.tlvs
    /\ next \in 1 .. Len(tlvs) + 1
    /\ acted = SubSeq(tlvs, 1, next - 1)

Progress ==
    /\ phase \in {"idle", "scan", "dispatch"}
    /\ phase = "idle" => Idle
    /\ phase = "scan" => Scanning
    /\ phase = "dispatch" => Dispatching

Handlers ==
    \/ ProcessSessionCmd
    \/ ProcessCompressedData \/ ProcessCipheredData \/ ProcessMultiCompress
    \/ ProcessTelemetryBatch
    \/ ProcessFragment \/ ProcessRetransmitReq
    \/ ProcessProtocolMsg
    \/ ProcessRoutingUpdate
    \/ ProcessQueueStatus
    \/ ProcessOther

\* A sequence up to n, and its next element, is the sequence up to n + 1.
LEMMA OneMore ==
    ASSUME NEW S, NEW s \in Seq(S), NEW n \in 1 .. Len(s)
    PROVE  Append(SubSeq(s, 1, n - 1), s[n]) = SubSeq(s, 1, n)
OBVIOUS

\* A sequence up to its own length is the sequence.
LEMMA WholeSequence ==
    ASSUME NEW S, NEW s \in Seq(S)
    PROVE  SubSeq(s, 1, Len(s)) = s
OBVIOUS

\* Whatever a handler does to its component, the call moves on by one chunk.
LEMMA HandlerAdvances ==
    ASSUME Handlers
    PROVE  /\ phase = "dispatch" /\ next <= Len(tlvs)
           /\ next' = next + 1
           /\ acted' = Append(acted, tlvs[next])
           /\ UNCHANGED <<phase, packet, tlvs>>
<1>1. \E t : \E c \in Turn(t) : Advance(c)
    <2>1. CASE ProcessSessionCmd
        BY <2>1 DEF ProcessSessionCmd
    <2>2. CASE ProcessCompressedData \/ ProcessCipheredData \/ ProcessMultiCompress
        BY <2>2 DEF ProcessCompressedData, ProcessCipheredData, ProcessMultiCompress,
                    Deposit
    <2>3. CASE ProcessTelemetryBatch
        BY <2>3 DEF ProcessTelemetryBatch
    <2>4. CASE ProcessFragment \/ ProcessRetransmitReq
        BY <2>4 DEF ProcessFragment, ProcessRetransmitReq
    <2>5. CASE ProcessProtocolMsg
        BY <2>5 DEF ProcessProtocolMsg
    <2>6. CASE ProcessRoutingUpdate \/ ProcessQueueStatus \/ ProcessOther
        BY <2>6 DEF ProcessRoutingUpdate, ProcessQueueStatus, ProcessOther
    <2>7. QED BY <2>1, <2>2, <2>3, <2>4, <2>5, <2>6 DEF Handlers
<1>2. QED BY <1>1 DEF Turn, Advance

\* No call is under way at first.
LEMMA InitProgress == Init => Progress
BY DEF Init, Progress, Idle

\* Every step keeps to the phases.
LEMMA NextProgress == Progress /\ [Next]_vars => Progress'
<1> SUFFICES ASSUME Progress, [Next]_vars PROVE Progress'
    OBVIOUS
<1>1. ASSUME NEW err, Return(err) PROVE Progress'
    BY <1>1 DEF Return, Progress, Idle
<1>2. CASE \E p \in Packets : Refuse(p)
    BY <1>1, <1>2 DEF Refuse
<1>3. ASSUME NEW p \in Packets, Receive(p) PROVE Progress'
    <2>1. /\ phase' = "scan" /\ packet' = p
          /\ acted' = <<>> /\ tlvs' = <<>> /\ next' = 1
          /\ HeaderError(p) = "None"
        BY <1>3 DEF Receive, histVars, Progress, Idle
    <2>2. p.tlvs \in Seq(Chunks)
        BY ParserConstants
    <2>3. Scanning'
        BY <2>1, <2>2 DEF Scanning
    <2>4. QED BY <2>1, <2>3 DEF Progress
<1>4. CASE ScanChunk
    <2>1. /\ phase = "scan" /\ phase' = phase /\ packet' = packet
          /\ acted' = acted /\ next' = next
          /\ Len(tlvs) < Len(packet.tlvs)
          /\ tlvs' = Append(tlvs, packet.tlvs[Len(tlvs) + 1])
        BY <1>4 DEF ScanChunk, histVars
    <2>2. Scanning
        BY <2>1 DEF Progress
    <2>3. packet.tlvs \in Seq(Chunks) /\ tlvs \in Seq(Chunks)
        BY <2>2, ParserConstants DEF Scanning
    <2>4. /\ Len(tlvs') = Len(tlvs) + 1
          /\ tlvs' \in Seq(Chunks)
        BY <2>1, <2>3
    <2>5. tlvs' = SubSeq(packet.tlvs, 1, Len(tlvs) + 1)
        <3> DEFINE n == Len(tlvs) + 1
        <3>1. n \in 1 .. Len(packet.tlvs)
            BY <2>1, <2>3
        <3>2. Append(SubSeq(packet.tlvs, 1, n - 1), packet.tlvs[n])
                 = SubSeq(packet.tlvs, 1, n)
            BY <2>3, <3>1, OneMore
        <3>3. n - 1 = Len(tlvs)
            BY <2>3
        <3>4. QED BY <2>1, <2>2, <3>2, <3>3 DEF Scanning
    <2>6. Scanning'
        BY <2>1, <2>2, <2>3, <2>4, <2>5 DEF Scanning
    <2>7. QED BY <2>1, <2>6 DEF Progress
<1>5. CASE ScanEnd
    <2>1. CASE Truncated
        BY <1>1, <1>5, <2>1 DEF ScanEnd
    <2>2. CASE ~Truncated
        <3>1. /\ phase = "scan" /\ phase' = "dispatch"
              /\ Len(tlvs) = Len(packet.tlvs)
              /\ UNCHANGED <<packet, tlvs, next, acted>>
            BY <1>5, <2>2 DEF ScanEnd
        <3>2. Scanning /\ ~packet.cut
            BY <2>2, <3>1 DEF Progress, Truncated
        <3>3. packet.tlvs \in Seq(Chunks)
            BY <3>2, ParserConstants DEF Scanning
        <3>4. tlvs = packet.tlvs
            BY <3>1, <3>2, <3>3, WholeSequence DEF Scanning
        <3>5. next = 1 /\ acted = <<>> /\ SubSeq(tlvs, 1, 0) = <<>> /\ Len(tlvs) \in Nat
            BY <3>2, <3>3, <3>4 DEF Scanning
        <3>6. Dispatching'
            BY <3>1, <3>2, <3>4, <3>5 DEF Scanning, Dispatching
        <3>7. QED BY <3>1, <3>6 DEF Progress
    <2>3. QED BY <2>1, <2>2
<1>6. CASE CheckCrc
    BY <1>1, <1>6 DEF CheckCrc
<1>7. CASE Handlers
    <2>1. /\ phase = "dispatch" /\ next <= Len(tlvs)
          /\ next' = next + 1
          /\ acted' = Append(acted, tlvs[next])
          /\ UNCHANGED <<phase, packet, tlvs>>
        BY <1>7, HandlerAdvances
    <2>2. Dispatching
        BY <2>1 DEF Progress
    <2>3. tlvs \in Seq(Chunks) /\ next \in 1 .. Len(tlvs)
        BY <2>1, <2>2, ParserConstants DEF Dispatching
    <2>4. acted' = SubSeq(tlvs, 1, next)
        BY <2>1, <2>2, <2>3, OneMore DEF Dispatching
    <2>5. next' \in 1 .. Len(tlvs) + 1 /\ next' - 1 = next
        BY <2>1, <2>3
    <2>6. Dispatching'
        BY <2>1, <2>2, <2>4, <2>5 DEF Dispatching
    <2>7. QED BY <2>1, <2>6 DEF Progress
<1>8. CASE UNCHANGED vars
    BY <1>8 DEF vars, parseVars, histVars, Progress, Idle, Scanning, Dispatching
<1>9. QED BY <1>2, <1>3, <1>4, <1>5, <1>6, <1>7, <1>8 DEF Next, Handlers

\* The step that returns from a call returns the verdict that its effect earns.
LEMMA ReturnTells ==
    ASSUME Progress, Next, phase' = "idle"
    PROVE  IF error' \in {"None", "InvalidCRC"}
           THEN acted = packet.tlvs /\ ~packet.cut /\ HeaderError(packet) = "None"
           ELSE acted = <<>>
<1>1. CASE \E p \in Packets : Refuse(p)
    <2>1. PICK p \in Packets : Refuse(p)
        BY <1>1
    <2>2. /\ error' = HeaderError(p)
          /\ HeaderError(p) \in {"PacketTooShort", "InvalidMagic", "LengthMismatch"}
          /\ acted = <<>>
        BY <2>1 DEF Refuse, Return, HeaderError, Progress, Idle
    <2>3. QED BY <2>2
<1>2. CASE ScanEnd
    <2>1. /\ phase = "scan" /\ error' = "TruncatedTLV"
        BY <1>2 DEF ScanEnd, Return
    <2>2. acted = <<>>
        BY <2>1 DEF Progress, Scanning
    <2>3. QED BY <2>1, <2>2
<1>3. CASE CheckCrc
    <2>1. /\ phase = "dispatch" /\ next > Len(tlvs)
          /\ error' \in {"None", "InvalidCRC"}
        BY <1>3 DEF CheckCrc, Return
    <2>2. Dispatching
        BY <2>1 DEF Progress
    <2>3. tlvs \in Seq(Chunks)
        BY <2>2, ParserConstants DEF Dispatching
    <2>4. next - 1 = Len(tlvs)
        BY <2>1, <2>2, <2>3 DEF Dispatching
    <2>5. acted = packet.tlvs
        BY <2>2, <2>3, <2>4, WholeSequence DEF Dispatching
    <2>6. QED BY <2>1, <2>2, <2>5 DEF Dispatching
<1>4. CASE \E p \in Packets : Receive(p)
    BY <1>4 DEF Receive
<1>5. CASE ScanChunk
    BY <1>5 DEF ScanChunk
<1>6. CASE Handlers
    BY <1>6, HandlerAdvances
<1>7. QED BY <1>1, <1>2, <1>3, <1>4, <1>5, <1>6 DEF Next, Handlers

\* A packet is reported as None or InvalidCRC exactly when every one of its
\* chunks was acted on, once and in order, and as anything else only when none was.
THEOREM VerdictIsTrue == Spec => VerdictTellsEffect
<1>1. Progress /\ [Next]_vars =>
         [phase' = "idle" =>
             IF error' \in {"None", "InvalidCRC"}
             THEN acted = packet.tlvs /\ ~packet.cut /\ HeaderError(packet) = "None"
             ELSE acted = <<>>]_vars
    BY ReturnTells
<1>2. QED BY <1>1, InitProgress, NextProgress, PTL DEF Spec, VerdictTellsEffect

-----------------------------------------------------------------------------
(* The components.  Each handler is an action of one component, for which  *)
(* the component's own proofs have a lemma; its constants are those that   *)
(* AeroParser gives it.                                                    *)

SessP == INSTANCE SessionManager_proofs WITH Managers <- {Self}
FragP == INSTANCE FragmentReassembler_proofs WITH MsgIds <- FragmentMsgs
PeerP == INSTANCE PeerTables_proofs WITH
            Ids <- RouteIds, Priorities <- RoutePriorities, Deltas <- {}, MaxAgings <- 0
PrioP == INSTANCE PriorityQueue_proofs WITH
            Ids <- QueueIds, Priorities <- {1}, InitCounts <- {0}, MaxAges <- {},
            UniqueIds <- FALSE, MaxEnqueues <- MaxChunks, MaxClock <- 0

\* The invariants of the components, with the parser's one manager.
Components ==
    /\ DOMAIN sessions = {Self}
    /\ SessP!IInv
    /\ FragP!IInv
    /\ PeerP!ProtocolInv
    /\ PeerP!IInv
    /\ PrioP!QueueInv

\* What the components' proofs assume of their constants is granted.
LEMMA Assumed ==
    /\ SessP!SessionConstants
    /\ FragP!FragmentConstants /\ FragP!FreeIsNoFragment
    /\ PeerP!ProtocolConstants
    /\ PeerP!RoutingConstants
    /\ PrioP!QueueConstants
<1>1. SessP!SessionConstants
    BY ComponentConstants DEF Sess!SessionConstants, SessP!SessionConstants
<1>2. FragP!FragmentConstants /\ FragP!FreeIsNoFragment
    BY ComponentConstants DEF Frag!FragmentConstants, FragP!FragmentConstants,
       Frag!FreeIsNoFragment, FragP!FreeIsNoFragment, Frag!Fragment, FragP!Fragment,
       Frag!Keys, FragP!Keys
<1>3. PeerP!ProtocolConstants
    BY ComponentConstants DEF Prot!ProtocolConstants, PeerP!ProtocolConstants
<1>4. PeerP!RoutingConstants
    BY ComponentConstants DEF Rout!RoutingConstants, PeerP!RoutingConstants
<1>5. PrioP!QueueConstants
    BY ComponentConstants DEF Prio!QueueConstants, PrioP!QueueConstants
<1>6. QED BY <1>1, <1>2, <1>3, <1>4, <1>5

\* A component that a step leaves alone keeps its invariant.
LEMMA Untouched ==
    ASSUME Components
    PROVE  /\ UNCHANGED sessVars => SessP!IInv' /\ DOMAIN sessions' = {Self}
           /\ UNCHANGED fragVars => FragP!IInv'
           /\ UNCHANGED protVars => PeerP!ProtocolInv'
           /\ UNCHANGED routVars => PeerP!IInv'
           /\ UNCHANGED prioVars => PrioP!QueueInv'
<1>1. UNCHANGED sessVars => SessP!IInv' /\ DOMAIN sessions' = {Self}
    BY SessP!NextInvariant, Assumed DEF Components, sessVars, SessP!vars, SessP!SessionConstants
<1>2. UNCHANGED fragVars => FragP!IInv'
    BY FragP!NextInvariant, Assumed DEF Components, fragVars, FragP!vars,
       FragP!FragmentConstants, FragP!FreeIsNoFragment
<1>3. UNCHANGED protVars => PeerP!ProtocolInv'
    BY PeerP!ProtocolKeeps, Assumed DEF Components, protVars, PeerP!protocolVars, PeerP!ProtocolConstants
<1>4. UNCHANGED routVars => PeerP!IInv'
    BY PeerP!NextInvariant, Assumed DEF Components, routVars, PeerP!vars, PeerP!RoutingConstants
<1>5. UNCHANGED prioVars => PrioP!QueueInv'
    BY PrioP!NextKeeps, Assumed DEF Components, prioVars, PrioP!vars, PrioP!QueueConstants
<1>6. QED BY <1>1, <1>2, <1>3, <1>4, <1>5

-----------------------------------------------------------------------------
(* The chunk whose turn it is. *)

\* A chunk whose turn it is is one of the packet and of the type that is dispatched.
LEMMA TurnIs ==
    ASSUME Progress, NEW t, NEW c \in Turn(t)
    PROVE  c \in Chunks /\ c.type = t
<1>1. phase = "dispatch" /\ next <= Len(tlvs) /\ c = tlvs[next] /\ c.type = t
    BY DEF Turn
<1>2. Dispatching
    BY <1>1 DEF Progress
<1>3. tlvs \in Seq(Chunks) /\ next \in 1 .. Len(tlvs)
    BY <1>1, <1>2, ParserConstants DEF Dispatching
<1>4. QED BY <1>1, <1>3

\* Chunks that are not for the sessions leave the book alone.
LEMMA NotForSessions ==
    ASSUME NEW c, Advance(c),
           c.type \notin {"SessionCmd", "CompressedData", "CipheredData", "MultiCompress",
                          "TelemetryBatch"}
    PROVE  due' = due
BY DEF Advance, Replayed

\* What the dispatch of a chunk makes of components that are not the sessions.
Elsewhere == Components' /\ UNCHANGED sessVars /\ due' = due

\* A Fragment chunk leaves every component sound (aero_parser.cpp).
LEMMA FragmentHandled ==
    ASSUME Progress, Components, ProcessFragment
    PROVE  Elsewhere
<1>1. PICK c \in Turn("Fragment") :
          /\ Advance(c)
          /\ \/ Frag!PushFragment(c.key, c.total, c.payload)
             \/ ~Frag!Accepts(c.key, c.total, c.payload) /\ UNCHANGED fragVars
          /\ OnlyFragments
    BY DEF ProcessFragment
<1>2. c \in Chunks /\ c.type = "Fragment"
    BY TurnIs
<1>3. c.key \in FragP!Keys /\ c.total \in Totals /\ c.payload \in Payloads
    BY <1>2, ChunkFields DEF Frag!Keys, FragP!Keys
<1>4. ASSUME Frag!PushFragment(c.key, c.total, c.payload) PROVE FragP!IInv'
    <2>1. FragP!PushFragment(c.key, c.total, c.payload)
        BY <1>4 DEF Frag!PushFragment, FragP!PushFragment, Frag!Accepts, FragP!Accepts,
           Frag!Store, FragP!Store, Frag!Released, FragP!Released,
           Frag!PointedTo, FragP!PointedTo, Frag!Stored, FragP!Stored
    <2>2. FragP!IInv
        BY DEF Components
    <2>3. QED BY <1>3, <2>1, <2>2, FragP!PushInvariant, Assumed
              DEF FragP!FragmentConstants, FragP!FreeIsNoFragment
<1>5. FragP!IInv'
    BY <1>1, <1>4, Untouched
<1>6. due' = due
    BY <1>1, <1>2, NotForSessions
<1>7. QED BY <1>1, <1>5, <1>6, Untouched DEF OnlyFragments, Elsewhere, Components

\* A RetransmitReq chunk leaves every component sound (aero_parser.cpp).
LEMMA RetransmitHandled ==
    ASSUME Progress, Components, ProcessRetransmitReq
    PROVE  Elsewhere
<1>1. PICK c \in Turn("RetransmitReq") :
          /\ Advance(c)
          /\ \/ Frag!RequestRetransmit(c.key)
             \/ fragments[c.key] = Null /\ UNCHANGED fragVars
          /\ OnlyFragments
    BY DEF ProcessRetransmitReq
<1>2. c \in Chunks /\ c.type = "RetransmitReq"
    BY TurnIs
<1>3. c.key \in FragP!Keys
    BY <1>2, ChunkFields DEF Frag!Keys, FragP!Keys
<1>4. ASSUME Frag!RequestRetransmit(c.key) PROVE FragP!IInv'
    <2>1. FragP!RequestRetransmit(c.key)
        BY <1>4 DEF Frag!RequestRetransmit, FragP!RequestRetransmit,
           Frag!PointedTo, FragP!PointedTo
    <2>2. FragP!IInv
        BY DEF Components
    <2>3. QED BY <1>3, <2>1, <2>2, FragP!RequestInvariant, Assumed
              DEF FragP!FragmentConstants, FragP!FreeIsNoFragment
<1>5. FragP!IInv'
    BY <1>1, <1>4, Untouched
<1>6. due' = due
    BY <1>1, <1>2, NotForSessions
<1>7. QED BY <1>1, <1>5, <1>6, Untouched DEF OnlyFragments, Elsewhere, Components

\* A ProtocolMsg chunk leaves every component sound (aero_parser.cpp).
LEMMA ProtocolHandled ==
    ASSUME Progress, Components, ProcessProtocolMsg
    PROVE  Elsewhere
<1>1. PICK c \in Turn("ProtocolMsg") :
          /\ Advance(c)
          /\ \/ c.msg = "VersionDeclare" /\ Prot!HandleVersionDeclare(c.arg)
             \/ c.msg = "CapabilityDeclare" /\ \E v \in CapVersions, flags \in CapFlags :
                   Prot!HandleCapabilityDeclare(c.arg, v, flags)
             \/ c.msg = "Heartbeat" /\ Prot!HandleHeartbeat
             \/ c.msg = "Data" /\ Prot!HandleData(c.arg)
             \/ Prot!HandleRefused
          /\ OnlyProtocol
    BY DEF ProcessProtocolMsg
<1>2. c \in Chunks /\ c.type = "ProtocolMsg"
    BY TurnIs
<1>3. /\ c.msg = "VersionDeclare" => c.arg \in Versions
      /\ c.msg = "CapabilityDeclare" => c.arg \in CapIds
      /\ c.msg = "Data" => c.arg \in Bodies
    BY <1>2, ChunkFields
<1>4. PeerP!ProtocolInv
    BY DEF Components
<1>5. ASSUME c.msg = "CapabilityDeclare",
             \E v \in CapVersions, flags \in CapFlags :
                Prot!HandleCapabilityDeclare(c.arg, v, flags)
      PROVE  PeerP!ProtocolInv'
    <2>1. PICK v \in CapVersions, flags \in CapFlags :
              Prot!HandleCapabilityDeclare(c.arg, v, flags)
        BY <1>5
    <2>2. PeerP!HandleCapabilityDeclare(c.arg, v, flags)
        BY <2>1 DEF Prot!HandleCapabilityDeclare, PeerP!HandleCapabilityDeclare,
           Prot!Entry, PeerP!Entry, Prot!InTable, PeerP!InTable, Prot!Direct, PeerP!Direct,
           Prot!Compact, PeerP!Compact, Prot!Slots, PeerP!Slots,
           Prot!ContextFlag, PeerP!ContextFlag
    <2>3. QED BY <1>3, <1>4, <1>5, <2>2, PeerP!CapabilityMessageInvariant, Assumed
              DEF PeerP!ProtocolConstants
<1>6. ASSUME \/ c.msg = "VersionDeclare" /\ Prot!HandleVersionDeclare(c.arg)
             \/ c.msg = "Heartbeat" /\ Prot!HandleHeartbeat
             \/ c.msg = "Data" /\ Prot!HandleData(c.arg)
             \/ Prot!HandleRefused
      PROVE  PeerP!ProtocolInv'
    <2>1. \/ \E ver \in Versions : PeerP!HandleVersionDeclare(ver)
          \/ \E body \in Bodies : PeerP!HandleData(body)
          \/ PeerP!HandleHeartbeat
          \/ PeerP!HandleRefused
        BY <1>3, <1>6 DEF Prot!HandleVersionDeclare, PeerP!HandleVersionDeclare,
           Prot!HandleData, PeerP!HandleData, Prot!HandleHeartbeat, PeerP!HandleHeartbeat,
           Prot!HandleRefused, PeerP!HandleRefused
    <2>2. QED BY <1>4, <2>1, PeerP!OtherInvariant, Assumed DEF PeerP!ProtocolConstants
<1>7. PeerP!ProtocolInv'
    BY <1>1, <1>5, <1>6
<1>8. due' = due
    BY <1>1, <1>2, NotForSessions
<1>9. QED BY <1>1, <1>7, <1>8, Untouched DEF OnlyProtocol, Elsewhere, Components

\* The library's operators are the same, whichever component uses them.
LEMMA SameOperators ==
    /\ \A S : Rout!Cardinality(S) = PeerP!Cardinality(S)
    /\ \A q, id : Prio!FirstWith(q, id) = PrioP!FirstWith(q, id)
<1>1. ASSUME NEW S PROVE Rout!Cardinality(S) = PeerP!Cardinality(S)
    BY DEF Rout!Cardinality, PeerP!Cardinality
<1>2. ASSUME NEW q, NEW id PROVE Prio!FirstWith(q, id) = PrioP!FirstWith(q, id)
    BY DEF Prio!FirstWith, PrioP!FirstWith, Prio!SelectInSeq, PrioP!SelectInSeq,
           Prio!Min, PrioP!Min
<1>3. QED BY <1>1, <1>2

\* A RoutingUpdate chunk leaves every component sound (aero_parser.cpp).
LEMMA RoutingHandled ==
    ASSUME Progress, Components, ProcessRoutingUpdate
    PROVE  Elsewhere
<1>1. PICK c \in Turn("RoutingUpdate") :
          /\ Advance(c)
          /\ \/ Rout!AddRoute(c.id, c.dest, c.priority, c.ttl, c.hops)
             \/ UNCHANGED routVars
          /\ OnlyRoutes
    BY DEF ProcessRoutingUpdate
<1>2. c \in Chunks /\ c.type = "RoutingUpdate"
    BY TurnIs
<1>3. /\ c.id \in RouteIds /\ c.dest \in Dests /\ c.priority \in RoutePriorities
      /\ c.ttl \in Ttls /\ c.hops \in HopLists
    BY <1>2, ChunkFields
<1>4. ASSUME Rout!AddRoute(c.id, c.dest, c.priority, c.ttl, c.hops) PROVE PeerP!IInv'
    <2>1. PeerP!AddRoute(c.id, c.dest, c.priority, c.ttl, c.hops)
        BY <1>4, SameOperators DEF Rout!AddRoute, PeerP!AddRoute, Rout!HasRoom, PeerP!HasRoom,
           Rout!NoResult, PeerP!NoResult,
           Rout!ROUTE_PRIORITY_CRITICAL, PeerP!ROUTE_PRIORITY_CRITICAL
    <2>2. PeerP!IInv
        BY DEF Components
    <2>3. QED BY <1>3, <2>1, <2>2, PeerP!AddInvariant, Assumed DEF PeerP!RoutingConstants
<1>5. PeerP!IInv'
    BY <1>1, <1>4, Untouched
<1>6. due' = due
    BY <1>1, <1>2, NotForSessions
<1>7. QED BY <1>1, <1>5, <1>6, Untouched DEF OnlyRoutes, Elsewhere, Components

\* A QueueStatus chunk leaves every component sound (aero_parser.cpp).
LEMMA QueueHandled ==
    ASSUME Progress, Components, ProcessQueueStatus
    PROVE  Elsewhere
<1>1. PICK c \in Turn("QueueStatus") :
          /\ Advance(c)
          /\ \/ Prio!Enqueue(c.id, 1, 0)
             \/ Prio!Promote(c.id)
             \/ Prio!Demote(c.id)
             \/ UNCHANGED prioVars
          /\ OnlyQueue
    BY DEF ProcessQueueStatus
<1>2. c \in Chunks /\ c.type = "QueueStatus"
    BY TurnIs
<1>3. c.id \in QueueIds
    BY <1>2, ChunkFields
<1>4. PrioP!QueueInv
    BY DEF Components
<1>5. ASSUME Prio!Enqueue(c.id, 1, 0) PROVE PrioP!QueueInv'
    <2>1. PrioP!Enqueue(c.id, 1, 0)
        BY <1>5 DEF Prio!Enqueue, PrioP!Enqueue, Prio!HasRoom, PrioP!HasRoom,
           Prio!Top, PrioP!Top, Prio!Nothing, PrioP!Nothing
    <2>2. QED BY <1>3, <1>4, <2>1, PrioP!EnqueueKeeps, Assumed DEF PrioP!QueueConstants
<1>6. ASSUME Prio!Promote(c.id) PROVE PrioP!QueueInv'
    <2>1. PrioP!Promote(c.id)
        BY <1>6, SameOperators DEF Prio!Promote, PrioP!Promote, Prio!Relocate, PrioP!Relocate,
           Prio!FoundAt, PrioP!FoundAt, Prio!LevelsWith, PrioP!LevelsWith,
           Prio!Levels, PrioP!Levels, Prio!Top, PrioP!Top, Prio!Nothing, PrioP!Nothing,
           Prio!WithoutId, PrioP!WithoutId,
           Prio!PromotedCount, PrioP!PromotedCount, Prio!Kept, PrioP!Kept,
           Prio!ToSet, PrioP!ToSet
    <2>2. QED BY <1>3, <1>4, <2>1, PrioP!PromoteKeeps, Assumed DEF PrioP!QueueConstants
<1>7. ASSUME Prio!Demote(c.id) PROVE PrioP!QueueInv'
    <2>1. PrioP!Demote(c.id)
        BY <1>7, SameOperators DEF Prio!Demote, PrioP!Demote, Prio!Relocate, PrioP!Relocate,
           Prio!FoundAt, PrioP!FoundAt, Prio!LevelsWith, PrioP!LevelsWith,
           Prio!Levels, PrioP!Levels, Prio!Top, PrioP!Top, Prio!Nothing, PrioP!Nothing,
           Prio!WithoutId, PrioP!WithoutId,
           Prio!DemotedCount, PrioP!DemotedCount, Prio!Kept, PrioP!Kept,
           Prio!ToSet, PrioP!ToSet
    <2>2. QED BY <1>3, <1>4, <2>1, PrioP!DemoteKeeps, Assumed DEF PrioP!QueueConstants
<1>8. PrioP!QueueInv'
    BY <1>1, <1>5, <1>6, <1>7, Untouched
<1>9. due' = due
    BY <1>1, <1>2, NotForSessions
<1>10. QED BY <1>1, <1>8, <1>9, Untouched DEF OnlyQueue, Elsewhere, Components


-----------------------------------------------------------------------------
(* The sessions.  A book is what a map of sessions says with a heap.       *)

ReadBook(map, h) == [id \in DOMAIN map |-> h[map[id]]]

\* Heaps in which the same cells are allocated.
Alike(h) == {g \in [Cells -> Seq(Nat) \cup {Free}] :
                \A c \in Cells : g[c] = Free <=> h[c] = Free}

\* What the dispatch of a chunk makes of the sessions.
Sessions == Components' /\ TelemetryIsReplay'

\* The one manager's sessions are allocated cells, each its own.
LEMMA OneManager ==
    ASSUME Components
    PROVE  /\ sessions[Self] \in [DOMAIN sessions[Self] -> Cells]
           /\ DOMAIN sessions[Self] \subseteq SessionIds
           /\ heap \in [Cells -> Seq(Nat) \cup {Free}]
           /\ heap \in Alike(heap)
           /\ \A id \in DOMAIN sessions[Self] : heap[sessions[Self][id]] # Free
           /\ \A i, j \in DOMAIN sessions[Self] :
                 sessions[Self][i] = sessions[Self][j] => i = j
<1>1. DOMAIN sessions = {Self} /\ SessP!TypeOK /\ SessP!OwnedByOneManager
    BY DEF Components, SessP!IInv
<1>2. Self \in DOMAIN sessions
    BY <1>1
<1>3. /\ sessions[Self] \in [DOMAIN sessions[Self] -> Cells]
      /\ DOMAIN sessions[Self] \subseteq SessionIds
      /\ heap \in [Cells -> Seq(Nat) \cup {Free}]
    BY <1>1, <1>2 DEF SessP!TypeOK
<1>4. heap \in Alike(heap)
    BY <1>3 DEF Alike
<1>5. /\ \A id \in DOMAIN sessions[Self] : heap[sessions[Self][id]] # Free
      /\ \A i, j \in DOMAIN sessions[Self] :
            sessions[Self][i] = sessions[Self][j] => i = j
    BY <1>1, <1>2 DEF SessP!OwnedByOneManager
<1>6. QED BY <1>3, <1>4, <1>5

\* A step that allocates and frees nothing keeps the ownership of the heap.
LEMMA SameCells ==
    ASSUME Components, heap' \in Alike(heap), UNCHANGED <<sessions, deletes>>
    PROVE  SessP!IInv' /\ DOMAIN sessions' = {Self}
<1>1. DOMAIN sessions = {Self} /\ SessP!TypeOK /\ SessP!OwnedByOneManager
    BY DEF Components, SessP!IInv
<1>2. /\ heap' \in [Cells -> Seq(Nat) \cup {Free}]
      /\ \A c \in Cells : heap'[c] = Free <=> heap[c] = Free
    BY DEF Alike
<1>3. SessP!TypeOK'
    BY <1>1, <1>2 DEF SessP!TypeOK
<1>4. \A m \in DOMAIN sessions : \A id \in DOMAIN sessions[m] : sessions[m][id] \in Cells
    BY <1>1 DEF SessP!TypeOK
<1>5. SessP!OwnedByOneManager'
    <2>1. \A m \in DOMAIN sessions : \A id \in DOMAIN sessions[m] :
             heap'[sessions[m][id]] # Free
        BY <1>1, <1>2, <1>4 DEF SessP!OwnedByOneManager
    <2>2. \A c \in Cells : heap'[c] # Free => \E m \in DOMAIN sessions : c \in SessP!Owned(m)
        BY <1>1, <1>2 DEF SessP!OwnedByOneManager
    <2>3. \A m : SessP!Owned(m)' = SessP!Owned(m)
        BY DEF SessP!Owned
    <2>4. QED BY <1>1, <2>1, <2>2, <2>3 DEF SessP!OwnedByOneManager
<1>6. QED BY <1>1, <1>3, <1>5 DEF SessP!IInv

\* Bytes for an id reach the buffer of its session and no other.
LEMMA AppendedIs ==
    ASSUME Components, NEW h \in Alike(heap), NEW to, to.bytes \in Seq(Nat)
    PROVE  /\ Appended(h, to) \in Alike(heap)
           /\ ReadBook(sessions[Self], Appended(h, to))
                 = Deposited(ReadBook(sessions[Self], h), to.id, to.bytes)
<1> DEFINE map == sessions[Self]
           c   == map[to.id]
           g   == Appended(h, to)
<1>1. CASE to.id \notin DOMAIN map
    BY <1>1 DEF Appended, ReadBook, Deposited
<1>2. CASE to.id \in DOMAIN map
    <2>1. c \in Cells /\ heap[c] # Free
        BY <1>2, OneManager
    <2>2. h[c] \in Seq(Nat) /\ h \in [Cells -> Seq(Nat) \cup {Free}]
        BY <2>1 DEF Alike
    <2>3. h[c] \o to.bytes \in Seq(Nat)
        BY <2>2
    <2>4. h[c] \o to.bytes # Free
        BY <2>3, Assumed DEF SessP!SessionConstants
    <2>5. g = [h EXCEPT ![c] = h[c] \o to.bytes]
        BY <1>2 DEF Appended
    <2>6. /\ g \in [Cells -> Seq(Nat) \cup {Free}]
          /\ g[c] = h[c] \o to.bytes
          /\ \A d \in Cells \ {c} : g[d] = h[d]
        BY <2>1, <2>2, <2>3, <2>5
    <2>7. g \in Alike(heap)
        BY <2>1, <2>4, <2>6 DEF Alike
    <2>8. ASSUME NEW id \in DOMAIN map
          PROVE  g[map[id]] = IF id = to.id THEN h[map[id]] \o to.bytes ELSE h[map[id]]
        <3>1. map[id] \in Cells /\ (map[id] = c => id = to.id)
            BY <1>2, OneManager
        <3>2. QED BY <2>6, <3>1
    <2>9. ReadBook(map, g) = Deposited(ReadBook(map, h), to.id, to.bytes)
        BY <1>2, <2>8 DEF ReadBook, Deposited
    <2>10. QED BY <2>7, <2>9
<1>3. QED BY <1>1, <1>2

\* The three handlers that decode a payload deposit it, if it could be decoded.
LEMMA DepositHandled ==
    ASSUME Progress, Components, TelemetryIsReplay,
           NEW t \in {"CompressedData", "CipheredData", "MultiCompress"}, Deposit(t)
    PROVE  Sessions
<1>1. PICK c \in Turn(t) :
          /\ Advance(c)
          /\ heap' = IF c.bytes = Undecodable THEN heap ELSE Appended(heap, c)
          /\ UNCHANGED <<sessions, deletes>>
          /\ OnlySessions
    BY DEF Deposit
<1>2. c \in Chunks /\ c.type = t
    BY TurnIs
<1>3. c.bytes = Undecodable \/ c.bytes \in Seq(Nat)
    BY <1>2, ChunkFields
<1>4. due = ReadBook(sessions[Self], heap)
    BY DEF TelemetryIsReplay, ReadBook
<1>5. due' = IF c.bytes = Undecodable THEN due ELSE Deposited(due, c.id, c.bytes)
    BY <1>1, <1>2 DEF Advance, Replayed
<1>6. heap \in Alike(heap)
    BY OneManager
<1>7. heap' \in Alike(heap) /\ due' = ReadBook(sessions[Self], heap')
    <2>1. CASE c.bytes = Undecodable
        BY <1>1, <1>4, <1>5, <1>6, <2>1
    <2>2. CASE c.bytes # Undecodable
        BY <1>1, <1>3, <1>4, <1>5, <1>6, <2>2, AppendedIs
    <2>3. QED BY <2>1, <2>2
<1>8. TelemetryIsReplay'
    BY <1>1, <1>7 DEF TelemetryIsReplay, ReadBook
<1>9. SessP!IInv' /\ DOMAIN sessions' = {Self}
    BY <1>1, <1>7, SameCells
<1>10. QED BY <1>1, <1>8, <1>9, Untouched DEF OnlySessions, Sessions, Components


\* The fixes of a batch, one by one.
LEMMA BatchIs ==
    ASSUME Components, NEW fixes \in Seq([timestamp_ms : Nat, bytes : Seq(Nat)])
    PROVE  /\ AppendedAll(heap, fixes) \in Alike(heap)
           /\ ReadBook(sessions[Self], AppendedAll(heap, fixes))
                 = DepositedAll(ReadBook(sessions[Self], heap), fixes)
<1> DEFINE A == Alike(heap)
           B == [timestamp_ms : Nat, bytes : Seq(Nat)]
           F == [p \in A \X B |-> Appended(p[1], FixSession(p[2]))]
           map == sessions[Self]
           book == ReadBook(map, heap)
           step(f, n) == IF n = 0 THEN heap ELSE Appended(f[n - 1], FixSession(fixes[n]))
           after == CHOOSE f : f = [n \in 0 .. Len(fixes) |-> step(f, n)]
           turn(f, n) == IF n = 0 THEN book
                         ELSE Deposited(f[n - 1], fixes[n].timestamp_ms % 65536,
                                        fixes[n].bytes)
           books == CHOOSE f : f = [n \in 0 .. Len(fixes) |-> turn(f, n)]
<1>1. ASSUME NEW h \in A, NEW x \in B
      PROVE  /\ Appended(h, FixSession(x)) \in A
             /\ ReadBook(map, Appended(h, FixSession(x)))
                   = Deposited(ReadBook(map, h), x.timestamp_ms % 65536, x.bytes)
    <2>1. FixSession(x).id = x.timestamp_ms % 65536 /\ FixSession(x).bytes = x.bytes
          /\ x.bytes \in Seq(Nat)
        BY DEF FixSession
    <2> HIDE DEF B
    <2>2. QED BY <2>1, AppendedIs
<1>2. heap \in A /\ fixes \in Seq(B) /\ Len(fixes) \in Nat
    BY OneManager
<1> HIDE DEF A, B
<1>3. F \in [A \X B -> A]
    BY <1>1
<1>4. \E f : f = [n \in 0 .. Len(fixes) |-> step(f, n)]
    <2> HIDE DEF F
    <2>1. PICK f \in [0 .. Len(fixes) -> A] : IsLoop(f, F, heap, fixes)
        BY <1>2, <1>3, Iterates
    <2>2. ASSUME NEW n \in 0 .. Len(fixes) PROVE f[n] = step(f, n)
        <3>1. CASE n = 0
            BY <2>1, <3>1 DEF IsLoop
        <3>2. CASE n # 0
            <4>1. n \in 1 .. Len(fixes) /\ n - 1 \in 0 .. Len(fixes)
                BY <1>2, <3>2
            <4>2. /\ f[n - 1] \in A /\ fixes[n] \in B
                  /\ f[n] = F[<<f[n - 1], fixes[n]>>]
                <5>1. f[n - 1] \in A
                    BY <4>1
                <5>2. fixes[n] \in B
                    BY <1>2, <4>1
                <5>3. f[n] = F[<<f[n - 1], fixes[n]>>]
                    BY <2>1, <4>1 DEF IsLoop
                <5>4. QED BY <5>1, <5>2, <5>3
            <4>3. F[<<f[n - 1], fixes[n]>>] = Appended(f[n - 1], FixSession(fixes[n]))
                BY <4>2 DEF F
            <4>4. QED BY <3>2, <4>2, <4>3
        <3>3. QED BY <3>1, <3>2
    <2>3. f = [n \in 0 .. Len(fixes) |-> f[n]]
        OBVIOUS
    <2> HIDE DEF step
    <2>4. f = [n \in 0 .. Len(fixes) |-> step(f, n)]
        BY <2>2, <2>3
    <2>5. QED BY <2>4
<1> HIDE DEF F
<1>5. after = [n \in 0 .. Len(fixes) |-> step(after, n)]
    <2> HIDE DEF step
    <2>1. QED BY <1>4
<1>6. AppendedAll(heap, fixes) = after[Len(fixes)]
    BY DEF AppendedAll
<1> HIDE DEF after
<1>7. \A n \in 0 .. Len(fixes) : after[n] = step(after, n)
    <2> HIDE DEF step
    <2>1. QED BY <1>5
<1> DEFINE T == {n \in Nat : n <= Len(fixes) => after[n] \in A}
<1>8. after[0] = heap
    BY <1>2, <1>7
<1>9. ASSUME NEW n \in Nat, n + 1 <= Len(fixes)
      PROVE  /\ n \in 0 .. Len(fixes) /\ fixes[n + 1] \in B
             /\ after[n + 1] = Appended(after[n], FixSession(fixes[n + 1]))
    <2>1. n + 1 \in 0 .. Len(fixes) /\ n + 1 # 0 /\ (n + 1) - 1 = n /\ n + 1 \in 1 .. Len(fixes)
          /\ n \in 0 .. Len(fixes)
        BY <1>2, <1>9
    <2>2. QED BY <1>2, <1>7, <2>1
<1>10. \A n \in 0 .. Len(fixes) : after[n] \in A
    <2>1. 0 \in T
        BY <1>2, <1>8
    <2>2. ASSUME NEW n \in Nat, n \in T PROVE n + 1 \in T
        <3> SUFFICES ASSUME n + 1 <= Len(fixes) PROVE after[n + 1] \in A
            OBVIOUS
        <3>1. n <= Len(fixes)
            BY <1>2
        <3>2. after[n] \in A
            BY <2>2, <3>1
        <3>3. fixes[n + 1] \in B /\ after[n + 1] = Appended(after[n], FixSession(fixes[n + 1]))
            BY <1>9
        <3> HIDE DEF T
        <3>4. QED BY <1>1, <3>2, <3>3
    <2> HIDE DEF T
    <2>3. Nat \subseteq T
        BY <2>1, <2>2, SetInduction
    <2>4. QED BY <1>2, <2>3 DEF T
<1>11. \E f : f = [n \in 0 .. Len(fixes) |-> turn(f, n)]
    <2> DEFINE g == [n \in 0 .. Len(fixes) |-> ReadBook(map, after[n])]
    <2>1. ASSUME NEW n \in 0 .. Len(fixes) PROVE g[n] = turn(g, n)
        <3>1. CASE n = 0
            BY <1>2, <1>8, <3>1
        <3>2. CASE n # 0
            <4>1. n - 1 \in Nat /\ (n - 1) + 1 = n /\ n - 1 \in 0 .. Len(fixes) /\ n \in Nat
                  /\ n <= Len(fixes)
                BY <1>2, <3>2
            <4>2. fixes[n] \in B /\ after[n] = Appended(after[n - 1], FixSession(fixes[n]))
                BY <1>9, <4>1
            <4>3. after[n - 1] \in A
                BY <1>10, <4>1
            <4>4. g[n] = Deposited(g[n - 1], fixes[n].timestamp_ms % 65536, fixes[n].bytes)
                BY <1>1, <4>1, <4>2, <4>3
            <4>5. QED BY <3>2, <4>4
        <3>3. QED BY <3>1, <3>2
    <2>2. g = [n \in 0 .. Len(fixes) |-> g[n]]
        OBVIOUS
    <2> HIDE DEF g, turn
    <2>3. g = [n \in 0 .. Len(fixes) |-> turn(g, n)]
        BY <2>1, <2>2
    <2>4. QED BY <2>3
<1>12. books = [n \in 0 .. Len(fixes) |-> turn(books, n)]
    <2> HIDE DEF turn
    <2>1. QED BY <1>11
<1>13. DepositedAll(book, fixes) = books[Len(fixes)]
    BY DEF DepositedAll
<1> HIDE DEF books
<1>14. \A n \in 0 .. Len(fixes) : books[n] = turn(books, n)
    <2> HIDE DEF turn
    <2>1. QED BY <1>12
<1> DEFINE U == {n \in Nat : n <= Len(fixes) => books[n] = ReadBook(map, after[n])}
<1>15. Len(fixes) \in U
    <2>1. 0 \in U
        BY <1>2, <1>8, <1>14
    <2>2. ASSUME NEW n \in Nat, n \in U PROVE n + 1 \in U
        <3> SUFFICES ASSUME n + 1 <= Len(fixes)
                     PROVE  books[n + 1] = ReadBook(map, after[n + 1])
            OBVIOUS
        <3>1. /\ n \in 0 .. Len(fixes) /\ fixes[n + 1] \in B
              /\ after[n + 1] = Appended(after[n], FixSession(fixes[n + 1]))
            BY <1>9
        <3>2. books[n] = ReadBook(map, after[n]) /\ after[n] \in A
            BY <1>2, <1>10, <2>2, <3>1
        <3>3. n + 1 \in 0 .. Len(fixes) /\ n + 1 # 0 /\ (n + 1) - 1 = n
            BY <1>2
        <3>4. books[n + 1] = Deposited(books[n], fixes[n + 1].timestamp_ms % 65536,
                                       fixes[n + 1].bytes)
            BY <1>14, <3>3
        <3>5. QED BY <1>1, <3>1, <3>2, <3>4
    <2> HIDE DEF U
    <2>3. Nat \subseteq U
        BY <2>1, <2>2, SetInduction
    <2>4. QED BY <1>2, <2>3
<1>16. Len(fixes) \in 0 .. Len(fixes)
    BY <1>2
<1>17. QED BY <1>6, <1>10, <1>13, <1>15, <1>16 DEF A

\* A TelemetryBatch chunk leaves the sessions sound and their telemetry replayable
\* (aero_parser.cpp).
LEMMA BatchHandled ==
    ASSUME Progress, Components, TelemetryIsReplay, ProcessTelemetryBatch
    PROVE  Sessions
<1>1. PICK c \in Turn("TelemetryBatch") :
          /\ Advance(c)
          /\ heap' = AppendedAll(heap, c.fixes)
          /\ UNCHANGED <<sessions, deletes>>
          /\ OnlySessions
    BY DEF ProcessTelemetryBatch
<1>2. c \in Chunks /\ c.type = "TelemetryBatch"
    BY TurnIs
<1>3. c.fixes \in Seq([timestamp_ms : Nat, bytes : Seq(Nat)])
    BY <1>2, ChunkFields
<1>4. due = ReadBook(sessions[Self], heap)
    BY DEF TelemetryIsReplay, ReadBook
<1>5. due' = DepositedAll(due, c.fixes)
    BY <1>1, <1>2 DEF Advance, Replayed
<1>6. heap' \in Alike(heap) /\ due' = ReadBook(sessions[Self], heap')
    BY <1>1, <1>3, <1>4, <1>5, BatchIs
<1>7. TelemetryIsReplay'
    BY <1>1, <1>6 DEF TelemetryIsReplay, ReadBook
<1>8. SessP!IInv' /\ DOMAIN sessions' = {Self}
    BY <1>1, <1>6, SameCells
<1>9. QED BY <1>1, <1>7, <1>8, Untouched DEF OnlySessions, Sessions, Components

\* A SessionCmd chunk leaves the sessions sound and their telemetry replayable (aero_parser.cpp).
LEMMA SessionCmdHandled ==
    ASSUME Progress, Components, TelemetryIsReplay, ProcessSessionCmd
    PROVE  Sessions
<1> DEFINE map == sessions[Self]
<1>1. PICK c \in Turn("SessionCmd") :
          /\ Advance(c)
          /\ \/ c.action = 1 /\ Sess!OpenSession(Self, c.id)
             \/ c.action = 2 /\ Sess!CloseSession(Self, c.id)
             \/ /\ \/ c.action = 1 /\ c.id \in DOMAIN map
                   \/ c.action = 2 /\ c.id \notin DOMAIN map
                   \/ c.action \notin {1, 2}
                /\ UNCHANGED sessVars
          /\ OnlySessions
    BY DEF ProcessSessionCmd
<1>2. c \in Chunks /\ c.type = "SessionCmd"
    BY TurnIs
<1>3. c.id \in SessionIds
    BY <1>2, ChunkFields
<1>4. due = [id \in DOMAIN map |-> heap[map[id]]]
    BY DEF TelemetryIsReplay
<1>5. SessP!IInv /\ DOMAIN sessions = {Self}
    BY DEF Components
<1>6. due' = Replayed(due, c)
    BY <1>1 DEF Advance
<1>7. ASSUME c.action = 1, Sess!OpenSession(Self, c.id)
      PROVE  SessP!IInv' /\ DOMAIN sessions' = {Self} /\ TelemetryIsReplay'
    <2>1. SessP!OpenSession(Self, c.id)
        BY <1>7 DEF Sess!OpenSession, SessP!OpenSession
    <2>2. SessP!IInv'
        BY <1>3, <1>5, <2>1, SessP!OpenInvariant, Assumed DEF SessP!SessionConstants
    <2>3. PICK d \in Cells :
              /\ heap[d] = Free
              /\ heap' = [heap EXCEPT ![d] = <<>>]
              /\ sessions' = [sessions EXCEPT ![Self] =
                    [i \in DOMAIN @ \cup {c.id} |-> IF i = c.id THEN d ELSE @[i]]]
        BY <1>7 DEF Sess!OpenSession
    <2>4. c.id \notin DOMAIN map
        BY <1>7 DEF Sess!OpenSession
    <2>5. /\ DOMAIN sessions' = {Self}
          /\ sessions'[Self] = [i \in DOMAIN map \cup {c.id} |->
                                   IF i = c.id THEN d ELSE map[i]]
        BY <1>5, <2>3
    <2>6. /\ heap'[d] = <<>>
          /\ \A i \in DOMAIN map : heap'[map[i]] = heap[map[i]]
        BY <2>3, OneManager
    <2>7. due' = [i \in DOMAIN due \cup {c.id} |-> IF i \in DOMAIN due THEN due[i] ELSE <<>>]
        BY <1>2, <1>6, <1>7 DEF Replayed
    <2>8. due' = [i \in DOMAIN map \cup {c.id} |-> IF i = c.id THEN <<>> ELSE heap[map[i]]]
        BY <1>4, <2>4, <2>7
    <2>9. TelemetryIsReplay'
        BY <2>4, <2>5, <2>6, <2>8 DEF TelemetryIsReplay
    <2>10. QED BY <2>2, <2>5, <2>9
<1>8. ASSUME c.action = 2, Sess!CloseSession(Self, c.id)
      PROVE  SessP!IInv' /\ DOMAIN sessions' = {Self} /\ TelemetryIsReplay'
    <2>1. SessP!CloseSession(Self, c.id)
        BY <1>8 DEF Sess!CloseSession, SessP!CloseSession, Sess!Delete, SessP!Delete,
           Sess!Without, SessP!Without
    <2>2. SessP!IInv'
        BY <1>3, <1>5, <2>1, SessP!CloseInvariant, Assumed DEF SessP!SessionConstants
    <2>3. /\ c.id \in DOMAIN map
          /\ heap' = [d \in Cells |-> IF d \in {map[c.id]} THEN Free ELSE heap[d]]
          /\ sessions' = [sessions EXCEPT ![Self] = [i \in DOMAIN @ \ {c.id} |-> @[i]]]
        BY <1>8 DEF Sess!CloseSession, Sess!Delete, Sess!Without
    <2>4. /\ DOMAIN sessions' = {Self}
          /\ sessions'[Self] = [i \in DOMAIN map \ {c.id} |-> map[i]]
        BY <1>5, <2>3
    <2>5. \A i \in DOMAIN map \ {c.id} : heap'[map[i]] = heap[map[i]]
        BY <2>3, OneManager
    <2>6. due' = [i \in DOMAIN due \ {c.id} |-> due[i]]
        BY <1>2, <1>6, <1>8 DEF Replayed
    <2>7. due' = [i \in DOMAIN map \ {c.id} |-> heap[map[i]]]
        BY <1>4, <2>6
    <2>8. TelemetryIsReplay'
        BY <2>4, <2>5, <2>7 DEF TelemetryIsReplay
    <2>9. QED BY <2>2, <2>4, <2>8
<1>9. ASSUME \/ c.action = 1 /\ c.id \in DOMAIN map
             \/ c.action = 2 /\ c.id \notin DOMAIN map
             \/ c.action \notin {1, 2},
             UNCHANGED sessVars
      PROVE  SessP!IInv' /\ DOMAIN sessions' = {Self} /\ TelemetryIsReplay'
    <2>1. due' = due
        <3>1. CASE c.action = 1 /\ c.id \in DOMAIN map
            <4>1. due' = [i \in DOMAIN due \cup {c.id} |->
                             IF i \in DOMAIN due THEN due[i] ELSE <<>>]
                BY <1>2, <1>6, <3>1 DEF Replayed
            <4>2. QED BY <1>4, <3>1, <4>1
        <3>2. CASE c.action = 2 /\ c.id \notin DOMAIN map
            <4>1. due' = [i \in DOMAIN due \ {c.id} |-> due[i]]
                BY <1>2, <1>6, <3>2 DEF Replayed
            <4>2. QED BY <1>4, <3>2, <4>1
        <3>3. CASE c.action \notin {1, 2}
            BY <1>2, <1>6, <3>3 DEF Replayed
        <3>4. QED BY <1>9, <3>1, <3>2, <3>3
    <2>2. TelemetryIsReplay'
        BY <1>9, <2>1 DEF TelemetryIsReplay, sessVars
    <2>3. QED BY <1>9, <2>2, Untouched
<1>10. SessP!IInv' /\ DOMAIN sessions' = {Self} /\ TelemetryIsReplay'
    BY <1>1, <1>7, <1>8, <1>9
<1>11. QED BY <1>1, <1>10, Untouched DEF OnlySessions, Sessions, Components


-----------------------------------------------------------------------------
(* The invariant of the parser: where its call has got to, the invariants  *)
(* of its components, and that the sessions are what the chunks made them. *)

Errors == {"None", "PacketTooShort", "InvalidMagic", "LengthMismatch",
           "TruncatedTLV", "InvalidCRC"}

ParserInv ==
    /\ Progress
    /\ error \in Errors
    /\ Components
    /\ TelemetryIsReplay

\* The components start out as in their own modules, the one manager with no session.
LEMMA InitParser == Init => ParserInv
<1> SUFFICES ASSUME Init PROVE ParserInv
    OBVIOUS
<1>1. DOMAIN sessions = {Self} /\ sessions[Self] = Sess!NoSessions
    BY DEF Init
<1>2. DOMAIN Sess!NoSessions = {}
    BY DEF Sess!NoSessions
<1>3. SessP!IInv
    <2>1. heap = [c \in Cells |-> Free] /\ deletes = TRUE
        BY DEF Init
    <2>2. \A m \in DOMAIN sessions : sessions[m] = Sess!NoSessions /\ DOMAIN sessions[m] = {}
        BY <1>1, <1>2
    <2>3. Sess!NoSessions \in [{} -> Cells]
        BY DEF Sess!NoSessions
    <2>4. SessP!TypeOK
        BY <1>1, <2>1, <2>2, <2>3 DEF SessP!TypeOK
    <2>5. SessP!OwnedByOneManager
        BY <2>1, <2>2 DEF SessP!OwnedByOneManager
    <2>6. QED BY <2>4, <2>5 DEF SessP!IInv
<1>4. FragP!IInv
    <2>1. FragP!Init
        BY DEF Init, Frag!Init, FragP!Init, Frag!Keys, FragP!Keys
    <2>2. QED BY <2>1, FragP!InitInvariant, Assumed
              DEF FragP!FragmentConstants, FragP!FreeIsNoFragment
<1>5. PeerP!ProtocolInv
    <2>1. PeerP!ProtocolInit
        BY DEF Init, Prot!ProtocolInit, PeerP!ProtocolInit, Prot!Slots, PeerP!Slots, Prot!NoEntry,
           PeerP!NoEntry, Prot!NoContext, PeerP!NoContext
    <2>2. QED BY <2>1, PeerP!ProtocolStarts, Assumed DEF PeerP!ProtocolConstants
<1>6. PeerP!IInv
    <2>1. PeerP!Init
        BY DEF Init, Rout!Init, PeerP!Init, Rout!NoResult, PeerP!NoResult
    <2>2. QED BY <2>1, PeerP!InitInvariant, Assumed DEF PeerP!RoutingConstants
<1>7. PrioP!QueueInv
    <2>1. PrioP!Init
        BY DEF Init, Prio!Init, PrioP!Init, Prio!Levels, PrioP!Levels, Prio!Top, PrioP!Top,
           Prio!Nothing, PrioP!Nothing
    <2>2. QED BY <2>1, PrioP!InitKeeps, Assumed DEF PrioP!QueueConstants
<1>8. TelemetryIsReplay
    <2>1. due = Sess!NoSessions
        BY DEF Init
    <2>2. QED BY <1>1, <1>2, <2>1 DEF TelemetryIsReplay, Sess!NoSessions
<1>9. Progress /\ error \in Errors
    BY InitProgress DEF Init, Errors
<1>10. QED BY <1>1, <1>3, <1>4, <1>5, <1>6, <1>7, <1>8, <1>9 DEF ParserInv, Components

\* Steps that leave the components and the book alone.
LEMMA NothingHandled ==
    ASSUME Components, TelemetryIsReplay, UNCHANGED compVars, due' = due
    PROVE  Sessions
BY Untouched DEF compVars, Sessions, Components, TelemetryIsReplay, sessVars

\* What any handler leaves holds.
LEMMA HandlersKeep ==
    ASSUME Progress, Components, TelemetryIsReplay, Handlers
    PROVE  Sessions
<1>1. ASSUME Elsewhere PROVE Sessions
    BY <1>1 DEF Elsewhere, Sessions, TelemetryIsReplay, sessVars
<1>2. CASE ProcessSessionCmd
    BY <1>2, SessionCmdHandled
<1>3. CASE ProcessCompressedData \/ ProcessCipheredData \/ ProcessMultiCompress
    <2>1. PICK t \in {"CompressedData", "CipheredData", "MultiCompress"} : Deposit(t)
        BY <1>3 DEF ProcessCompressedData, ProcessCipheredData, ProcessMultiCompress
    <2>2. QED BY <2>1, DepositHandled
<1>4. CASE ProcessTelemetryBatch
    BY <1>4, BatchHandled
<1>5. CASE ProcessFragment \/ ProcessRetransmitReq
    BY <1>1, <1>5, FragmentHandled, RetransmitHandled
<1>6. CASE ProcessProtocolMsg \/ ProcessRoutingUpdate \/ ProcessQueueStatus
    BY <1>1, <1>6, ProtocolHandled, RoutingHandled, QueueHandled
<1>7. CASE ProcessOther
    <2>1. PICK c \in Turn("Other") : Advance(c) /\ UNCHANGED compVars
        BY <1>7 DEF ProcessOther
    <2>2. c.type = "Other"
        BY <2>1, TurnIs
    <2>3. due' = due
        BY <2>1, <2>2, NotForSessions
    <2>4. QED BY <2>1, <2>3, NothingHandled
<1>8. QED BY <1>2, <1>3, <1>4, <1>5, <1>6, <1>7 DEF Handlers

\* Every step keeps the invariant.
LEMMA NextParser == ParserInv /\ [Next]_vars => ParserInv'
<1> SUFFICES ASSUME ParserInv, [Next]_vars PROVE ParserInv'
    OBVIOUS
<1>1. Progress /\ error \in Errors /\ Components /\ TelemetryIsReplay
    BY DEF ParserInv
<1>2. Progress'
    BY <1>1, NextProgress
<1>3. ASSUME Handlers PROVE Sessions /\ error' = error
    <2>1. Sessions
        BY <1>1, <1>3, HandlersKeep
    <2>2. \E c : Advance(c)
        BY <1>3 DEF Handlers, ProcessSessionCmd, ProcessCompressedData, ProcessCipheredData,
           ProcessMultiCompress, Deposit, ProcessTelemetryBatch, ProcessFragment,
           ProcessRetransmitReq, ProcessProtocolMsg, ProcessRoutingUpdate,
           ProcessQueueStatus, ProcessOther
    <2>3. error' = error
        BY <2>2 DEF Advance
    <2>4. QED BY <2>1, <2>3
<1>4. ASSUME \/ \E p \in Packets : Refuse(p) \/ Receive(p)
             \/ ScanChunk \/ ScanEnd \/ CheckCrc
             \/ UNCHANGED vars
      PROVE  Sessions /\ error' \in Errors
    <2>1. UNCHANGED compVars /\ due' = due
        BY <1>4 DEF Refuse, Receive, ScanChunk, ScanEnd, CheckCrc, histVars, vars
    <2>2. Sessions
        BY <1>1, <2>1, NothingHandled
    <2>3. \A p : HeaderError(p) \in Errors
        BY DEF HeaderError, Errors
    <2>4. error' \in Errors
        BY <1>1, <1>4, <2>3 DEF Refuse, Receive, ScanChunk, ScanEnd, CheckCrc, Return, vars,
           parseVars, Errors
    <2>5. QED BY <2>2, <2>4
<1>5. Sessions /\ error' \in Errors
    BY <1>1, <1>3, <1>4 DEF Next, Handlers
<1>6. QED BY <1>2, <1>5 DEF ParserInv, Sessions

\* Wherever a call has got to, its components keep the invariants of their own
\* modules and the sessions are what the chunks so far made of them.
THEOREM ParserInvariant == Spec => []ParserInv
<1>1. QED BY InitParser, NextParser, PTL DEF Spec

\* Whatever packets come, the open sessions and their telemetry are the chunks
\* dispatched so far, replayed in their order.
THEOREM TelemetryReplayed == Spec => []TelemetryIsReplay
<1>1. ParserInv => TelemetryIsReplay
    BY DEF ParserInv
<1>2. QED BY <1>1, ParserInvariant, PTL

\* What packets do to the queue keeps each payload copy in one place at most,
\* allocated and counted, message ids used twice included.
THEOREM OwnsPayloads == Spec => []QueueOwnsPayloads
<1>1. ParserInv => QueueOwnsPayloads
    <2> SUFFICES ASSUME ParserInv PROVE QueueOwnsPayloads
        OBVIOUS
    <2>1. PrioP!PayloadsOwnedOnce /\ PrioP!CountIsOwnedCopies
        BY PrioP!QueueOwns, Assumed DEF ParserInv, Components, PrioP!QueueConstants
    <2>2. \A S : Prio!Cardinality(S) = PrioP!Cardinality(S)
        BY DEF Prio!Cardinality, PrioP!Cardinality
    <2>3. Prio!PayloadsOwnedOnce
        BY <2>1, <2>2 DEF Prio!PayloadsOwnedOnce, PrioP!PayloadsOwnedOnce,
           Prio!HeldBufs, PrioP!HeldBufs, Prio!Held, PrioP!Held, Prio!Levels, PrioP!Levels,
           Prio!Top, PrioP!Top, Prio!ToSet, PrioP!ToSet, Prio!Population, PrioP!Population
    <2>4. Prio!CountIsOwnedCopies
        BY <2>1, <2>2 DEF Prio!CountIsOwnedCopies, PrioP!CountIsOwnedCopies
    <2>5. QED BY <2>3, <2>4 DEF QueueOwnsPayloads
<1>2. QED BY <1>1, ParserInvariant, PTL


\* Every variable has its type, those of the components in their own words.
THEOREM TypeCorrect == Spec => []TypeOK
<1>1. ParserInv => TypeOK
    <2> SUFFICES ASSUME ParserInv PROVE TypeOK
        OBVIOUS
    <2>1. /\ phase \in {"idle", "scan", "dispatch"}
          /\ IsPrefix(tlvs, packet.tlvs)
          /\ next \in 1 .. Len(tlvs) + 1
        <3>1. CASE phase = "idle"
            BY <3>1 DEF ParserInv, Progress, Idle, NoPacket, IsPrefix
        <3>2. CASE phase = "scan"
            <4>1. Scanning
                BY <3>2 DEF ParserInv, Progress
            <4>2. /\ tlvs \in Seq(Chunks) /\ packet.tlvs \in Seq(Chunks)
                  /\ next = 1 /\ Len(tlvs) <= Len(packet.tlvs)
                  /\ tlvs = SubSeq(packet.tlvs, 1, Len(tlvs))
                BY <4>1, ParserConstants DEF Scanning
            <4>3. SubSeq(tlvs, 1, Len(tlvs)) = tlvs /\ Len(tlvs) \in Nat
                BY <4>2, WholeSequence
            <4>4. QED BY <3>2, <4>2, <4>3 DEF IsPrefix
        <3>3. CASE phase = "dispatch"
            <4>1. Dispatching
                BY <3>3 DEF ParserInv, Progress
            <4>2. /\ tlvs \in Seq(Chunks) /\ packet.tlvs = tlvs
                  /\ next \in 1 .. Len(tlvs) + 1
                BY <4>1, ParserConstants DEF Dispatching
            <4>3. Len(tlvs) <= Len(tlvs)
                BY <4>2
            <4>4. QED BY <3>3, <4>2, <4>3 DEF IsPrefix
        <3>4. QED BY <3>1, <3>2, <3>3 DEF ParserInv, Progress
    <2>2. Sess!TypeOK
        BY DEF ParserInv, Components, SessP!IInv, SessP!TypeOK, Sess!TypeOK
    <2>3. Frag!TypeOK
        BY DEF ParserInv, Components, FragP!IInv, FragP!TypeOK, Frag!TypeOK,
           Frag!Keys, FragP!Keys, Frag!Limited, FragP!Limited, Frag!Fragment, FragP!Fragment,
           Frag!Ack, FragP!Ack
    <2>4. Prot!ProtocolTypeOK
        BY DEF ParserInv, Components, PeerP!ProtocolInv, PeerP!ProtocolTypeOK, Prot!ProtocolTypeOK,
           Prot!ProtocolStates, PeerP!ProtocolStates, Prot!Slots, PeerP!Slots,
           Prot!Entries, PeerP!Entries, Prot!NoEntry, PeerP!NoEntry,
           Prot!Contexts, PeerP!Contexts, Prot!NoContext, PeerP!NoContext
    <2>5. Rout!TypeOK
        <3>1. Rout!IsFiniteSet(DOMAIN routes) <=> PeerP!IsFiniteSet(DOMAIN routes)
            BY DEF Rout!IsFiniteSet, PeerP!IsFiniteSet
        <3>2. QED BY <3>1, SameOperators DEF ParserInv, Components, PeerP!IInv,
                  PeerP!TypeOK, Rout!TypeOK, Rout!Route, PeerP!Route, Rout!Past, PeerP!Past,
                  Rout!ROUTE_PRIORITY_CRITICAL, PeerP!ROUTE_PRIORITY_CRITICAL
    <2>6. Prio!TypeOK
        <3>1. PrioP!TypeOK
            BY PrioP!QueueTypes, Assumed DEF ParserInv, Components, PrioP!QueueConstants
        <3>2. QED BY <3>1 DEF PrioP!TypeOK, Prio!TypeOK, Prio!Levels, PrioP!Levels,
                  Prio!Top, PrioP!Top, Prio!Held, PrioP!Held, Prio!ToSet, PrioP!ToSet,
                  Prio!Message, PrioP!Message, Prio!Nothing, PrioP!Nothing,
                  Prio!Urgency, PrioP!Urgency
    <2>7. error \in {"None", "PacketTooShort", "InvalidMagic", "LengthMismatch",
                     "TruncatedTLV", "InvalidCRC"}
        BY DEF ParserInv, Errors
    <2>8. QED BY <2>1, <2>2, <2>3, <2>4, <2>5, <2>6, <2>7 DEF TypeOK
<1>2. QED BY <1>1, ParserInvariant, PTL


=============================================================================
