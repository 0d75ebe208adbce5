------------------------ MODULE PeerTables_proofs ------------------------
(***************************************************************************)
(* What holds of the two tables that a peer fills by its messages, the     *)
(* capabilities of ProtocolEngine and the routes of RoutingTable, for any  *)
(* table sizes, ids and messages.                                          *)
(*                                                                         *)
(* Capabilities: the table, the handshake states and the answer to Data    *)
(* messages.                                                               *)
(*                                                                         *)
(* Routes: TypeOK and ActiveWhileAlive are inductive together: the active  *)
(* flag is right after a tick because ttl was what was left of the life    *)
(* before it.  The loop of lookup is followed turn by turn: its best so    *)
(* far is the cheapest of the routes it has passed.                        *)
(***************************************************************************)
EXTENDS ProtocolEngine, RoutingTable, RecordStream_proofs

(* The inductive invariant: a full table stays full, which is what keeps   *)
(* the compact view without holes once the count is no longer trustworthy; *)
(* and the flag that guards the context is never set by the class itself.  *)

FullAfterOverrun == overrun => \A i \in Slots : capabilities[i].active

FlagNeverSet == ~overrun => ~context_valid

ProtocolInv ==
    /\ ProtocolTypeOK
    /\ TableViewsAgree
    /\ NothingInvented
    /\ HandshakeEvidence
    /\ FullAfterOverrun
    /\ FlagNeverSet

tableVars == <<capabilities, capability_count, declared, overrun>>

-----------------------------------------------------------------------------
(* The table. *)

\* An entry made from the fields of a message or of a call is an active entry.
LEMMA EntryFields ==
    ASSUME NEW id \in CapIds, NEW v \in CapVersions, NEW flags \in CapFlags
    PROVE  /\ Entry(id, v, flags) \in Entries
           /\ Entry(id, v, flags).active
           /\ Entry(id, v, flags).id = id
BY DEF Entry, Entries

\* The two stores put the entry at one index each and leave the other slots.
LEMMA StoreSlots ==
    ASSUME ProtocolTypeOK, NEW e \in Entries
    PROVE  /\ Compact(e) \in [Slots -> Entries \cup {NoEntry}]
           /\ Direct(Compact(e), e) \in [Slots -> Entries \cup {NoEntry}]
           /\ \A i \in Slots : Compact(e)[i] =
                 IF i = capability_count THEN e ELSE capabilities[i]
           /\ \A i \in Slots : Direct(Compact(e), e)[i] =
                 IF i = e.id \/ i = capability_count THEN e ELSE capabilities[i]
BY DEF ProtocolTypeOK, Compact, Direct

\* An operation that leaves the table alone keeps what is said of the table.
LEMMA TableUntouched ==
    ASSUME ProtocolInv, UNCHANGED tableVars
    PROVE  (TableViewsAgree /\ NothingInvented /\ FullAfterOverrun)'
BY DEF ProtocolInv, tableVars, TableViewsAgree, NothingInvented, FullAfterOverrun

-----------------------------------------------------------------------------
(* Initially, and step by step. *)

\* The constructor establishes the invariant.
LEMMA ProtocolStarts == ProtocolInit => ProtocolInv
<1> SUFFICES ASSUME ProtocolInit PROVE ProtocolInv
    OBVIOUS
<1>1. ProtocolTypeOK
    <2>1. capabilities \in [Slots -> Entries \cup {NoEntry}]
        BY DEF ProtocolInit
    <2>2. /\ sequence_counter \in 0 .. SEQUENCE_WRAP - 1
          /\ capability_count \in 0 .. MaxCount
          /\ capability_count <= CAPABILITY_TABLE_SIZE
        BY ProtocolConstants DEF ProtocolInit
    <2>3. /\ state \in ProtocolStates
          /\ context \in Contexts
          /\ context_valid \in BOOLEAN
          /\ version \in Versions \cup {0}
          /\ declared \subseteq Entries
          /\ overrun \in BOOLEAN
        BY DEF ProtocolInit, ProtocolStates, Contexts
    <2>4. QED BY <2>1, <2>2, <2>3 DEF ProtocolTypeOK
<1>2. TableViewsAgree /\ NothingInvented /\ FullAfterOverrun
    BY DEF ProtocolInit, TableViewsAgree, NothingInvented, FullAfterOverrun, NoEntry, Slots
<1>3. HandshakeEvidence /\ FlagNeverSet
    BY DEF ProtocolInit, HandshakeEvidence, FlagNeverSet
<1>4. QED BY <1>1, <1>2, <1>3 DEF ProtocolInv

\* declare_capability, which checks the count before it stores.
LEMMA DeclareInvariant ==
    ASSUME ProtocolInv, NEW id \in CapIds, NEW v \in CapVersions, NEW flags \in CapFlags,
           DeclareCapability(id, v, flags)
    PROVE  ProtocolInv'
<1> USE DEF ProtocolInv
<1> DEFINE e == Entry(id, v, flags)
<1>1. e \in Entries /\ e.active
    BY EntryFields
<1>2. /\ capability_count \in Nat
      /\ capability_count < CAPABILITY_TABLE_SIZE
      /\ capability_count' = capability_count + 1
      /\ capabilities' = Compact(e)
      /\ declared' = declared \cup {e}
      /\ UNCHANGED <<state, sequence_counter, context, context_valid, version, overrun>>
    BY DEF DeclareCapability, HasSlot, ProtocolTypeOK
<1> HIDE DEF e
<1>3. /\ capabilities' \in [Slots -> Entries \cup {NoEntry}]
      /\ \A i \in Slots : capabilities'[i] =
            IF i = capability_count THEN e ELSE capabilities[i]
    BY <1>1, <1>2, StoreSlots
<1>4. ProtocolTypeOK'
    BY <1>1, <1>2, <1>3, ProtocolConstants DEF ProtocolTypeOK
<1>5. TableViewsAgree'
    BY <1>1, <1>2, <1>3, ProtocolConstants DEF TableViewsAgree, Slots
<1>6. NothingInvented'
    BY <1>1, <1>2, <1>3 DEF NothingInvented
<1>7. FullAfterOverrun'
    BY <1>1, <1>2, <1>3 DEF FullAfterOverrun
<1>8. HandshakeEvidence' /\ FlagNeverSet'
    BY <1>2 DEF HandshakeEvidence, FlagNeverSet
<1>9. QED BY <1>4, <1>5, <1>6, <1>7, <1>8

\* A CapabilityDeclare message, with the count inside the table or past it.
LEMMA CapabilityMessageInvariant ==
    ASSUME ProtocolInv, NEW id \in CapIds, NEW v \in CapVersions, NEW flags \in CapFlags,
           HandleCapabilityDeclare(id, v, flags)
    PROVE  ProtocolInv'
<1> USE DEF ProtocolInv
<1> DEFINE e == Entry(id, v, flags)
<1>1. e \in Entries /\ e.active /\ e.id = id
    BY EntryFields
<1>2. /\ capabilities' = Direct(Compact(e), e)
      /\ declared' = declared \cup {e}
      /\ UNCHANGED <<state, sequence_counter>>
      /\ context' \in Contexts
    <2>1. flags % 256 \in 0 .. 255
        BY ProtocolConstants
    <2>2. QED BY <2>1 DEF HandleCapabilityDeclare, Contexts
<1>3. capability_count \in Nat
    BY DEF ProtocolTypeOK
<1>4. CASE /\ capability_count < CAPABILITY_TABLE_SIZE
           /\ capability_count' = capability_count + 1
           /\ context_valid' = ContextFlag
           /\ UNCHANGED <<version, overrun>>
    <2> HIDE DEF e
    <2>1. /\ capabilities' \in [Slots -> Entries \cup {NoEntry}]
          /\ \A i \in Slots : capabilities'[i] =
                IF i = e.id \/ i = capability_count THEN e ELSE capabilities[i]
        BY <1>1, <1>2, StoreSlots
    <2>2. ProtocolTypeOK'
        BY <1>1, <1>2, <1>4, <2>1, ProtocolConstants DEF ProtocolTypeOK, ContextFlag
    <2>3. TableViewsAgree'
        BY <1>1, <1>3, <1>4, <2>1, ProtocolConstants DEF TableViewsAgree, Slots
    <2>4. NothingInvented'
        BY <1>1, <1>2, <2>1 DEF NothingInvented
    <2>5. FullAfterOverrun'
        BY <1>1, <1>4, <2>1 DEF FullAfterOverrun
    <2>6. HandshakeEvidence' /\ FlagNeverSet'
        BY <1>2, <1>3, <1>4 DEF HandshakeEvidence, FlagNeverSet, ContextFlag
    <2>7. QED BY <2>2, <2>3, <2>4, <2>5, <2>6
<1>5. CASE /\ capability_count >= CAPABILITY_TABLE_SIZE
           /\ overrun' = TRUE
           /\ capability_count' \in 0 .. MaxCount
           /\ context_valid' \in BOOLEAN
           /\ version' \in Versions \cup {0}
    <2> HIDE DEF e
    <2>1. /\ capabilities' \in [Slots -> Entries \cup {NoEntry}]
          /\ \A i \in Slots : capabilities'[i] =
                IF i = e.id \/ i = capability_count THEN e ELSE capabilities[i]
        BY <1>1, <1>2, StoreSlots
    <2>2. ProtocolTypeOK'
        BY <1>1, <1>2, <1>5, <2>1 DEF ProtocolTypeOK
    <2>3. \A i \in Slots : capabilities'[i].active
        BY <1>1, <1>3, <1>5, <2>1, ProtocolConstants DEF TableViewsAgree, Slots
    <2>4. NothingInvented'
        BY <1>1, <1>2, <2>1 DEF NothingInvented
    <2>5. QED BY <1>5, <2>2, <2>3, <2>4
              DEF TableViewsAgree, FullAfterOverrun, HandshakeEvidence, FlagNeverSet
<1>6. QED BY <1>4, <1>5 DEF HandleCapabilityDeclare

\* Every other operation leaves the table alone.
LEMMA OtherInvariant ==
    ASSUME ProtocolInv,
           \/ \E ver \in Versions : HandleVersionDeclare(ver)
           \/ \E body \in Bodies : HandleData(body)
           \/ HandleHeartbeat
           \/ \E type \in {"Ack", "Nak"}, body \in Bodies : HandleAckNak(type, body)
           \/ HandleRefused
           \/ NegotiateCapabilities
           \/ NextSequence
           \/ ResetContext
           \/ UNCHANGED protocolVars
    PROVE  ProtocolInv'
<1>1. UNCHANGED tableVars
    BY DEF HandleVersionDeclare, HandleData, HandleHeartbeat, HandleAckNak,
           HandleRefused, NegotiateCapabilities, NextSequence, ResetContext, protocolVars,
           tableVars
<1>2. (TableViewsAgree /\ NothingInvented /\ FullAfterOverrun)'
    BY <1>1, TableUntouched
<1>3. CASE \E ver \in Versions : HandleVersionDeclare(ver)
    BY <1>2, <1>3 DEF HandleVersionDeclare, ProtocolInv, ProtocolTypeOK, HandshakeEvidence,
                      FlagNeverSet, ProtocolStates
<1>4. CASE \/ \E body \in Bodies : HandleData(body)
           \/ \E type \in {"Ack", "Nak"}, body \in Bodies : HandleAckNak(type, body)
           \/ HandleRefused
           \/ UNCHANGED protocolVars
    <2>1. UNCHANGED <<state, sequence_counter, capabilities, capability_count,
                      context, context_valid, version, declared, overrun>>
        BY <1>4 DEF HandleData, HandleAckNak, HandleRefused, protocolVars
    <2>2. ProtocolTypeOK'
        BY <2>1 DEF ProtocolInv, ProtocolTypeOK
    <2>3. (HandshakeEvidence /\ FlagNeverSet)'
        BY <2>1 DEF ProtocolInv, HandshakeEvidence, FlagNeverSet
    <2>4. QED BY <1>2, <2>2, <2>3 DEF ProtocolInv
<1>5. CASE HandleHeartbeat
    BY <1>2, <1>5 DEF HandleHeartbeat, ProtocolInv, ProtocolTypeOK, HandshakeEvidence, FlagNeverSet,
                      ProtocolStates
<1>6. CASE NegotiateCapabilities
    BY <1>2, <1>6 DEF NegotiateCapabilities, ProtocolInv, ProtocolTypeOK, HandshakeEvidence,
                      FlagNeverSet, ProtocolStates
<1>7. CASE NextSequence
    <2>1. sequence_counter' \in 0 .. SEQUENCE_WRAP - 1
        BY <1>7, ProtocolConstants DEF NextSequence, ProtocolInv, ProtocolTypeOK
    <2>2. QED BY <1>2, <1>7, <2>1 DEF NextSequence, ProtocolInv, ProtocolTypeOK, HandshakeEvidence,
                                      FlagNeverSet
<1>8. CASE ResetContext
    BY <1>2, <1>8 DEF ResetContext, ProtocolInv, ProtocolTypeOK, HandshakeEvidence, FlagNeverSet,
                      Contexts
<1>9. QED BY <1>3, <1>4, <1>5, <1>6, <1>7, <1>8

\* The invariant is inductive.
LEMMA ProtocolKeeps == ProtocolInv /\ [ProtocolNext]_protocolVars => ProtocolInv'
<1> SUFFICES ASSUME ProtocolInv, [ProtocolNext]_protocolVars PROVE ProtocolInv'
    OBVIOUS
<1>1. ASSUME NEW id \in CapIds, NEW v \in CapVersions, NEW flags \in CapFlags,
             DeclareCapability(id, v, flags)
      PROVE  ProtocolInv'
    BY <1>1, DeclareInvariant
<1>2. ASSUME NEW id \in CapIds, NEW v \in CapVersions, NEW flags \in CapFlags,
             HandleCapabilityDeclare(id, v, flags)
      PROVE  ProtocolInv'
    BY <1>2, CapabilityMessageInvariant
<1>3. QED BY <1>1, <1>2, OtherInvariant DEF ProtocolNext, HandleMessage

\* The invariant holds throughout.
LEMMA ProtocolInvariant == ProtocolSpec => []ProtocolInv
<1>1. QED BY ProtocolStarts, ProtocolKeeps, PTL DEF ProtocolSpec

-----------------------------------------------------------------------------
(* The theorems. *)

\* Types hold, and without an overrun the count stays within the table.
THEOREM ProtocolTypeCorrect == ProtocolSpec => []ProtocolTypeOK
<1>1. ProtocolInv => ProtocolTypeOK
    BY DEF ProtocolInv
<1>2. QED BY <1>1, ProtocolInvariant, PTL

\* The compact view of the capability table never has a hole, and the direct
\* view never shows an id at a foreign index.
THEOREM ViewsAgree == ProtocolSpec => []TableViewsAgree
<1>1. ProtocolInv => TableViewsAgree
    BY DEF ProtocolInv
<1>2. QED BY <1>1, ProtocolInvariant, PTL

\* An active slot is always an entry exactly as it was declared.
THEOREM TableIsHonest == ProtocolSpec => []NothingInvented
<1>1. ProtocolInv => NothingInvented
    BY DEF ProtocolInv
<1>2. QED BY <1>1, ProtocolInvariant, PTL

\* Without an overrun, an engine that waits for capabilities has accepted this
\* version, and one that negotiates has counted a capability.  Established is
\* backed by nothing: a Heartbeat sets it from any state.
THEOREM HandshakeIsBacked == ProtocolSpec => []HandshakeEvidence
<1>1. ProtocolInv => HandshakeEvidence
    BY DEF ProtocolInv
<1>2. QED BY <1>1, ProtocolInvariant, PTL

\* No Data message is ever answered with the fields of a CapabilityDeclare.
THEOREM DataIsAnsweredBare == ProtocolSpec => DataAnsweredBare
<1>1. ASSUME ProtocolInv, NEW body \in Bodies, HandleData(body), ~overrun
      PROVE  response' = <<"Data", body>>
    <2>1. ~context_valid
        BY <1>1 DEF ProtocolInv, FlagNeverSet
    <2>2. response' = <<>> \o <<"Data", body>>
        BY <1>1, <2>1 DEF HandleData
    <2>3. QED BY <2>2
<1>2. ProtocolInv /\ [ProtocolNext]_protocolVars =>
         [\A body \in Bodies : HandleData(body) /\ ~overrun
             => response' = <<"Data", body>>]_protocolVars
    BY <1>1
<1>3. QED BY <1>2, ProtocolInvariant, PTL DEF ProtocolSpec, DataAnsweredBare

-----------------------------------------------------------------------------
(* Routes.                                                                 *)

IInv == TypeOK /\ ActiveWhileAlive

\* One tick in the life of one route keeps its flag and its ttl in step with it.
LEMMA OneTick ==
    ASSUME NEW r \in Route, NEW h \in Past,
           r.active <=> (h.ttl = 0 \/ h.agings < h.ttl),
           h.ttl = 0 \/ h.agings < h.ttl => r.ttl + h.agings = h.ttl \/ h.ttl = 0,
           h.ttl = 0 \/ ~(h.ttl = 0 \/ h.agings < h.ttl) => r.ttl = 0
    PROVE  /\ Aged(r) \in Route
           /\ Aged(r).active <=> (h.ttl = 0 \/ h.agings + 1 < h.ttl)
           /\ h.ttl = 0 \/ h.agings + 1 < h.ttl
                 => Aged(r).ttl + (h.agings + 1) = h.ttl \/ h.ttl = 0
           /\ h.ttl = 0 \/ ~(h.ttl = 0 \/ h.agings + 1 < h.ttl) => Aged(r).ttl = 0
<1>1. /\ r.ttl \in Nat
      /\ r.active \in BOOLEAN
    BY DEF Route
<1>2. /\ h.ttl \in Nat
      /\ h.agings \in Nat
    <2>1. h.ttl \in Ttls
        BY DEF Past
    <2>2. h.agings \in 0 .. MaxAgings
        BY DEF Past
    <2>3. Ttls \subseteq Nat
        BY RoutingConstants
    <2>4. h.ttl \in Nat
        BY <2>1, <2>3
    <2>5. h.agings \in Nat
        BY <2>2
    <2>6. QED BY <2>4, <2>5
<1>3. /\ Aged(r) \in Route
      /\ Aged(r).ttl = IF r.ttl > 0 THEN r.ttl - 1 ELSE 0
      /\ Aged(r).active <=> (r.active /\ r.ttl # 1)
    <2>1. Aged(r) = [r EXCEPT !.ttl = IF r.ttl > 0 THEN r.ttl - 1 ELSE 0,
                              !.active = r.active /\ r.ttl # 1]
        BY DEF Aged
    <2>2. (IF r.ttl > 0 THEN r.ttl - 1 ELSE 0) \in Nat
        BY <1>1
    <2>3. QED BY <2>1, <2>2 DEF Route
<1>4. QED BY <1>1, <1>2, <1>3

\* The empty table satisfies the invariant.
LEMMA InitInvariant == Init => IInv
<1> SUFFICES ASSUME Init PROVE IInv
    OBVIOUS
<1>1. DOMAIN routes = {} /\ DOMAIN history = {}
    BY DEF Init
<1>2. TypeOK
    BY <1>1, FS_EmptySet, RoutingConstants DEF TypeOK, Init
<1>3. QED BY <1>1, <1>2 DEF IInv, ActiveWhileAlive

\* A new route starts its life with all of its ttl.
LEMMA AddInvariant ==
    ASSUME IInv, NEW id \in Ids, NEW dest \in Dests, NEW priority \in Priorities,
           NEW ttl \in Ttls, NEW hops \in HopLists,
           AddRoute(id, dest, priority, ttl, hops)
    PROVE  IInv'
<1> DEFINE new == [dest_addr |-> dest, priority |-> priority, ttl |-> ttl,
                   metric |-> 0, next_hops |-> hops, active |-> TRUE]
           past == [ttl |-> ttl, agings |-> 0]
<1>1. new \in Route /\ past \in Past
    BY RoutingConstants DEF AddRoute, Route, Past, ROUTE_PRIORITY_CRITICAL
<1>2. /\ DOMAIN routes' = DOMAIN routes \cup {id}
      /\ \A k \in DOMAIN routes : routes'[k] = routes[k] /\ history'[k] = history[k]
      /\ routes'[id] = new /\ history'[id] = past
      /\ routes' \in [DOMAIN routes \cup {id} -> Route]
      /\ history' \in [DOMAIN routes \cup {id} -> Past]
    BY <1>1 DEF AddRoute, IInv, TypeOK
<1>3. /\ IsFiniteSet(DOMAIN routes \cup {id})
      /\ Cardinality(DOMAIN routes \cup {id}) <= ROUTING_TABLE_MAX
    <2>1. /\ IsFiniteSet(DOMAIN routes \cup {id})
          /\ Cardinality(DOMAIN routes \cup {id}) = Cardinality(DOMAIN routes) + 1
        BY FS_AddElement DEF AddRoute, IInv, TypeOK
    <2>2. Cardinality(DOMAIN routes) \in Nat
        BY FS_CardinalityType DEF IInv, TypeOK
    <2>3. QED BY <2>1, <2>2, RoutingConstants DEF AddRoute, HasRoom
<1>4. TypeOK'
    BY <1>2, <1>3 DEF IInv, TypeOK
<1>5. ActiveWhileAlive'
    <2>1. ttl \in Nat
        BY RoutingConstants
    <2>2. QED BY <1>2, <2>1 DEF IInv, ActiveWhileAlive, Alive
<1>6. QED BY <1>4, <1>5 DEF IInv

\* Removing a route leaves the lives of the others as they are.
LEMMA RemoveInvariant ==
    ASSUME IInv, NEW id \in Ids, RemoveRoute(id)
    PROVE  IInv'
<1>1. /\ DOMAIN routes' = DOMAIN routes \ {id}
      /\ \A k \in DOMAIN routes \ {id} :
            routes'[k] = routes[k] /\ history'[k] = history[k]
      /\ routes' \in [DOMAIN routes \ {id} -> Route]
      /\ history' \in [DOMAIN routes \ {id} -> Past]
    BY DEF RemoveRoute, IInv, TypeOK
<1>2. /\ IsFiniteSet(DOMAIN routes \ {id})
      /\ Cardinality(DOMAIN routes \ {id}) <= ROUTING_TABLE_MAX
    <2>1. /\ IsFiniteSet(DOMAIN routes \ {id})
          /\ Cardinality(DOMAIN routes \ {id}) = Cardinality(DOMAIN routes) - 1
        BY FS_RemoveElement DEF RemoveRoute, IInv, TypeOK
    <2>2. Cardinality(DOMAIN routes) \in Nat
        BY FS_CardinalityType DEF IInv, TypeOK
    <2>3. QED BY <2>1, <2>2, RoutingConstants DEF IInv, TypeOK
<1>3. TypeOK'
    BY <1>1, <1>2 DEF IInv, TypeOK
<1>4. ActiveWhileAlive'
    BY <1>1 DEF IInv, ActiveWhileAlive, Alive
<1>5. QED BY <1>3, <1>4 DEF IInv

\* A metric update touches neither the flag nor the ttl, and stays in 16 bits.
LEMMA MetricInvariant ==
    ASSUME IInv, NEW id \in Ids, NEW delta \in Deltas, UpdateMetric(id, delta)
    PROVE  IInv'
<1>1. routes[id] \in Route /\ routes[id].metric \in Nat
    BY RoutingConstants DEF UpdateMetric, IInv, TypeOK, Route
<1>2. (routes[id].metric + delta) % METRIC_WRAP \in 0 .. METRIC_WRAP - 1
    <2>1. ASSUME NEW m \in Int, NEW w \in Nat \ {0} PROVE m % w \in 0 .. w - 1
        BY <2>1
    <2>2. routes[id].metric + delta \in Int /\ METRIC_WRAP \in Nat \ {0}
        BY <1>1, RoutingConstants
    <2>3. QED BY <2>1, <2>2
<1>3. /\ DOMAIN routes' = DOMAIN routes
      /\ routes' \in [DOMAIN routes -> Route]
      /\ \A k \in DOMAIN routes : /\ routes'[k].active = routes[k].active
                                  /\ routes'[k].ttl = routes[k].ttl
    BY <1>1, <1>2 DEF UpdateMetric, IInv, TypeOK, Route
<1>4. TypeOK'
    BY <1>3 DEF UpdateMetric, IInv, TypeOK
<1>5. ActiveWhileAlive'
    BY <1>3 DEF UpdateMetric, IInv, ActiveWhileAlive, Alive
<1>6. QED BY <1>4, <1>5 DEF IInv

\* age_routes is one tick of every route.
LEMMA AgeInvariant ==
    ASSUME IInv, AgeRoutes
    PROVE  IInv'
<1>1. /\ DOMAIN routes' = DOMAIN routes
      /\ \A k \in DOMAIN routes :
            /\ routes'[k] = Aged(routes[k])
            /\ history'[k] = [history[k] EXCEPT !.agings = @ + 1]
    BY DEF AgeRoutes, IInv, TypeOK
<1>2. ASSUME NEW k \in DOMAIN routes
      PROVE  /\ routes'[k] \in Route
             /\ history'[k] \in Past
             /\ history'[k].ttl = history[k].ttl
             /\ history'[k].agings = history[k].agings + 1
    <2>1. history[k] \in Past /\ routes[k] \in Route
        BY DEF IInv, TypeOK
    <2>2. history[k].agings < MaxAgings
        BY DEF AgeRoutes
    <2>3. /\ history'[k] \in Past
          /\ history'[k].ttl = history[k].ttl
          /\ history'[k].agings = history[k].agings + 1
        <3>1. history[k].agings + 1 \in 0 .. MaxAgings
            <4>1. MaxAgings \in Nat /\ history[k].agings \in 0 .. MaxAgings
                BY <2>1, RoutingConstants DEF Past
            <4>2. QED BY <2>2, <4>1
        <3>2. QED BY <1>1, <2>1, <3>1 DEF Past
    <2>4. routes'[k] \in Route
        BY <1>1, <2>1, OneTick DEF IInv, ActiveWhileAlive, Alive
    <2>5. QED BY <2>3, <2>4
<1>3. TypeOK'
    <2>1. routes' \in [DOMAIN routes -> Route] /\ history' \in [DOMAIN routes -> Past]
        BY <1>2 DEF AgeRoutes
    <2>2. QED BY <1>1, <2>1 DEF IInv, TypeOK
<1>4. ASSUME NEW k \in DOMAIN routes
      PROVE  /\ routes'[k].active <=> Alive(k)'
             /\ Alive(k)' => routes'[k].ttl + history'[k].agings = history'[k].ttl
                             \/ history'[k].ttl = 0
             /\ history'[k].ttl = 0 \/ ~Alive(k)' => routes'[k].ttl = 0
    <2> DEFINE r == routes[k]
               h == history[k]
    <2>1. h \in Past /\ r \in Route
        BY DEF IInv, TypeOK
    <2>2. /\ r.active <=> (h.ttl = 0 \/ h.agings < h.ttl)
          /\ h.ttl = 0 \/ h.agings < h.ttl => r.ttl + h.agings = h.ttl \/ h.ttl = 0
          /\ h.ttl = 0 \/ ~(h.ttl = 0 \/ h.agings < h.ttl) => r.ttl = 0
        BY DEF IInv, ActiveWhileAlive, Alive
    <2>3. /\ Aged(r).active <=> (h.ttl = 0 \/ h.agings + 1 < h.ttl)
          /\ h.ttl = 0 \/ h.agings + 1 < h.ttl
                => Aged(r).ttl + (h.agings + 1) = h.ttl \/ h.ttl = 0
          /\ h.ttl = 0 \/ ~(h.ttl = 0 \/ h.agings + 1 < h.ttl) => Aged(r).ttl = 0
        BY <2>1, <2>2, OneTick
    <2>4. /\ routes'[k] = Aged(r)
          /\ history'[k].ttl = h.ttl
          /\ history'[k].agings = h.agings + 1
        BY <1>1, <1>2
    <2>5. Alive(k)' <=> (h.ttl = 0 \/ h.agings + 1 < h.ttl)
        BY <2>4 DEF Alive
    <2>6. QED BY <2>3, <2>4, <2>5
<1>5. ActiveWhileAlive'
    BY <1>1, <1>4 DEF ActiveWhileAlive
<1>6. QED BY <1>3, <1>5 DEF IInv

\* The invariant is inductive.
LEMMA NextInvariant == IInv /\ [Next]_vars => IInv'
<1> SUFFICES ASSUME IInv, [Next]_vars PROVE IInv'
    OBVIOUS
<1>1. ASSUME NEW id \in Ids, NEW dest \in Dests, NEW priority \in Priorities,
             NEW ttl \in Ttls, NEW hops \in HopLists,
             AddRoute(id, dest, priority, ttl, hops)
      PROVE  IInv'
    BY <1>1, AddInvariant
<1>2. ASSUME NEW id \in Ids, RemoveRoute(id) PROVE IInv'
    BY <1>2, RemoveInvariant
<1>3. ASSUME NEW id \in Ids, NEW delta \in Deltas, UpdateMetric(id, delta)
      PROVE  IInv'
    BY <1>3, MetricInvariant
<1>4. CASE AgeRoutes
    BY <1>4, AgeInvariant
<1>5. ASSUME UNCHANGED <<routes, history>> PROVE IInv'
    BY <1>5 DEF IInv, TypeOK, ActiveWhileAlive, Alive
<1>6. QED BY <1>1, <1>2, <1>3, <1>4, <1>5 DEF Next, Lookup, vars

-----------------------------------------------------------------------------
(* A lookup.                                                               *)

\* What the scan has found once it has seen the ids of `seen`.
BestOf(best, seen, dest) ==
    IF best = <<>> THEN Eligible(dest) \cap seen = {}
    ELSE /\ best \in {<<id>> : id \in Eligible(dest) \cap seen}
         /\ \A id \in Eligible(dest) \cap seen : routes[best[1]].metric <= routes[id].metric

\* The routes that the test of the loop lets by.
LEMMA BetterIs ==
    ASSUME IInv, NEW id \in DOMAIN routes, NEW dest, NEW bound \in 0 .. METRIC_WRAP - 1
    PROVE  /\ routes[id].metric \in 0 .. METRIC_WRAP - 1
           /\ Better(routes[id], dest, bound) <=>
                 id \in Eligible(dest) /\ routes[id].metric < bound
<1>1. routes[id] \in Route
    BY DEF IInv, TypeOK
<1>2. routes[id].metric \in 0 .. METRIC_WRAP - 1
    BY <1>1 DEF Route
<1>3. routes[id].metric < bound => routes[id].metric < METRIC_WRAP - 1
    BY <1>2, RoutingConstants
<1>4. routes[id].active <=> Alive(id)
    BY DEF IInv, ActiveWhileAlive
<1>5. QED BY <1>2, <1>3, <1>4 DEF Better, Eligible

\* One turn of the loop sees one more route.
LEMMA OneConsidered ==
    ASSUME IInv, NEW dest, NEW seen \in SUBSET DOMAIN routes, NEW best,
           BestOf(best, seen, dest), NEW id \in DOMAIN routes
    PROVE  BestOf(Considered(best, id, dest), seen \cup {id}, dest)
<1>0. METRIC_WRAP - 1 \in 0 .. METRIC_WRAP - 1
    BY RoutingConstants
<1>1. \A k \in DOMAIN routes : routes[k].metric \in 0 .. METRIC_WRAP - 1
    BY <1>0, BetterIs
<1>2. CASE best = <<>>
    <2>1. Eligible(dest) \cap seen = {}
        BY <1>2 DEF BestOf
    <2>2. Considered(best, id, dest) = IF id \in Eligible(dest) /\ routes[id].metric < METRIC_WRAP - 1
                                       THEN <<id>> ELSE <<>>
        BY <1>0, <1>2, BetterIs DEF Considered
    <2>3. CASE id \in Eligible(dest)
        <3>1. Considered(best, id, dest) = <<id>>
            BY <2>2, <2>3 DEF Eligible
        <3>2. Eligible(dest) \cap (seen \cup {id}) = {id}
            BY <2>1, <2>3
        <3>3. <<id>>[1] = id /\ <<id>> # <<>>
            OBVIOUS
        <3>4. routes[id].metric <= routes[id].metric
            BY <1>1
        <3>5. QED BY <3>1, <3>2, <3>3, <3>4 DEF BestOf
    <2>4. CASE id \notin Eligible(dest)
        BY <2>1, <2>2, <2>4 DEF BestOf
    <2>5. QED BY <2>3, <2>4
<1>3. CASE best # <<>>
    <2>1. PICK b \in Eligible(dest) \cap seen :
              /\ best = <<b>>
              /\ \A k \in Eligible(dest) \cap seen : routes[best[1]].metric <= routes[k].metric
        BY <1>3 DEF BestOf
    <2>2. b \in DOMAIN routes /\ best[1] = b
        BY <2>1 DEF Eligible
    <2>3. Considered(best, id, dest) = IF id \in Eligible(dest) /\ routes[id].metric < routes[b].metric
                                       THEN <<id>> ELSE <<b>>
        BY <1>1, <1>3, <2>1, <2>2, BetterIs DEF Considered
    <2>4. CASE id \in Eligible(dest) /\ routes[id].metric < routes[b].metric
        <3>1. Considered(best, id, dest) = <<id>> /\ <<id>>[1] = id /\ <<id>> # <<>>
            BY <2>3, <2>4
        <3>2. ASSUME NEW k \in Eligible(dest) \cap (seen \cup {id})
              PROVE  routes[id].metric <= routes[k].metric
            <4>1. k \in DOMAIN routes
                BY DEF Eligible
            <4>2. k = id \/ routes[b].metric <= routes[k].metric
                BY <2>1, <2>2
            <4>3. QED BY <1>1, <2>2, <2>4, <4>1, <4>2
        <3>3. id \in Eligible(dest) \cap (seen \cup {id})
            BY <2>4
        <3>4. QED BY <3>1, <3>2, <3>3 DEF BestOf
    <2>5. CASE ~(id \in Eligible(dest) /\ routes[id].metric < routes[b].metric)
        <3>1. Considered(best, id, dest) = <<b>> /\ <<b>>[1] = b /\ <<b>> # <<>>
            BY <2>3, <2>5
        <3>2. ASSUME NEW k \in Eligible(dest) \cap (seen \cup {id})
              PROVE  routes[b].metric <= routes[k].metric
            <4>1. k \in DOMAIN routes
                BY DEF Eligible
            <4>2. k = id \/ routes[b].metric <= routes[k].metric
                BY <2>1, <2>2
            <4>3. QED BY <1>1, <2>2, <2>5, <4>1, <4>2
        <3>3. b \in Eligible(dest) \cap (seen \cup {id})
            BY <2>1
        <3>4. QED BY <3>1, <3>2, <3>3 DEF BestOf
    <2>6. QED BY <2>4, <2>5
<1>4. QED BY <1>2, <1>3

\* The whole loop sees every id of the order it goes in.
LEMMA ScanIs ==
    ASSUME IInv, NEW dest, NEW order \in Seq(DOMAIN routes)
    PROVE  BestOf(Scan(order, dest), {order[i] : i \in 1 .. Len(order)}, dest)
<1> DEFINE B == DOMAIN routes
           A == {<<>>} \cup {<<id>> : id \in B}
           F == [p \in A \X B |-> Considered(p[1], p[2], dest)]
           step(f, n) == IF n = 0 THEN <<>> ELSE Considered(f[n - 1], order[n], dest)
           best == CHOOSE f : f = [n \in 0 .. Len(order) |-> step(f, n)]
           seen(n) == {order[i] : i \in 1 .. n}
<1>1. F \in [A \X B -> A]
    <2>1. ASSUME NEW a \in A, NEW id \in B PROVE Considered(a, id, dest) \in A
        BY DEF Considered
    <2> HIDE DEF A
    <2>2. QED BY <2>1
<1>2. <<>> \in A /\ order \in Seq(B) /\ Len(order) \in Nat
    OBVIOUS
<1> HIDE DEF A, B
<1>3. \E f : f = [n \in 0 .. Len(order) |-> step(f, n)]
    <2> HIDE DEF F
    <2>1. PICK f \in [0 .. Len(order) -> A] : IsLoop(f, F, <<>>, order)
        BY <1>1, <1>2, Iterates
    <2>2. ASSUME NEW n \in 0 .. Len(order) PROVE f[n] = step(f, n)
        <3>1. CASE n = 0
            BY <2>1, <3>1 DEF IsLoop
        <3>2. CASE n # 0
            <4>1. n \in 1 .. Len(order) /\ n - 1 \in 0 .. Len(order)
                BY <1>2, <3>2
            <4>2. f[n - 1] \in A /\ order[n] \in B
                BY <1>2, <4>1
            <4>3. f[n] = F[<<f[n - 1], order[n]>>]
                BY <2>1, <4>1 DEF IsLoop
            <4>4. F[<<f[n - 1], order[n]>>] = Considered(f[n - 1], order[n], dest)
                BY <4>2 DEF F
            <4>5. QED BY <3>2, <4>3, <4>4
        <3>3. QED BY <3>1, <3>2
    <2>3. f = [n \in 0 .. Len(order) |-> f[n]]
        OBVIOUS
    <2> HIDE DEF step
    <2>4. f = [n \in 0 .. Len(order) |-> step(f, n)]
        BY <2>2, <2>3
    <2>5. QED BY <2>4
<1> HIDE DEF F
<1>4. best = [n \in 0 .. Len(order) |-> step(best, n)]
    <2> HIDE DEF step
    <2>1. QED BY <1>3
<1>5. Scan(order, dest) = best[Len(order)]
    BY DEF Scan
<1> HIDE DEF best
<1>6. \A n \in 0 .. Len(order) : best[n] = step(best, n)
    <2> HIDE DEF step
    <2>1. QED BY <1>4
<1> DEFINE T == {n \in Nat : n <= Len(order) => BestOf(best[n], seen(n), dest)}
<1>7. 0 \in T
    <2>1. best[0] = <<>>
        BY <1>2, <1>6
    <2>2. seen(0) = {}
        OBVIOUS
    <2>3. QED BY <2>1, <2>2 DEF BestOf
<1>8. ASSUME NEW n \in Nat, n \in T PROVE n + 1 \in T
    <2> SUFFICES ASSUME n + 1 <= Len(order) PROVE BestOf(best[n + 1], seen(n + 1), dest)
        OBVIOUS
    <2>1. n + 1 \in 1 .. Len(order) /\ n + 1 \in 0 .. Len(order) /\ n + 1 # 0 /\ (n + 1) - 1 = n
          /\ n <= Len(order)
        BY <1>2
    <2>2. BestOf(best[n], seen(n), dest)
        BY <1>8, <2>1
    <2>3. best[n + 1] = Considered(best[n], order[n + 1], dest)
        BY <1>6, <2>1
    <2>4. order[n + 1] \in DOMAIN routes
        BY <2>1
    <2>5. seen(n) \in SUBSET DOMAIN routes
        BY <2>1
    <2>6. seen(n + 1) = seen(n) \cup {order[n + 1]}
        <3>1. 1 .. n + 1 = (1 .. n) \cup {n + 1}
            OBVIOUS
        <3>2. QED BY <3>1
    <2> HIDE DEF seen, T, step
    <2>7. BestOf(Considered(best[n], order[n + 1], dest), seen(n) \cup {order[n + 1]}, dest)
        BY <2>2, <2>4, <2>5, OneConsidered
    <2>8. QED BY <2>3, <2>6, <2>7
<1>9. Len(order) \in T
    <2> HIDE DEF T
    <2>1. Nat \subseteq T
        BY <1>7, <1>8, SetInduction
    <2>2. QED BY <1>2, <2>1
<1>10. BestOf(best[Len(order)], seen(Len(order)), dest)
    <2> HIDE DEF seen, step
    <2>1. QED BY <1>2, <1>9
<1>11. QED BY <1>5, <1>10

\* An order of the hash map is a sequence of all its ids.
LEMMA OrderIsWhole ==
    ASSUME IInv, NEW order \in SetToSeqs(DOMAIN routes)
    PROVE  /\ order \in Seq(DOMAIN routes)
           /\ {order[i] : i \in 1 .. Len(order)} = DOMAIN routes
<1> DEFINE S == DOMAIN routes
           n == Cardinality(S)
<1>1. IsFiniteSet(S) /\ n \in Nat
    BY FS_CardinalityType DEF IInv, TypeOK
<1>2. /\ order \in [1 .. n -> S]
      /\ \A i, j \in 1 .. n : i # j => order[i] # order[j]
    BY DEF SetToSeqs
<1>3. order \in Seq(S) /\ Len(order) = n
    BY <1>1, <1>2
<1> DEFINE I == {order[i] : i \in 1 .. n}
<1>4. IsFiniteSet(1 .. n) /\ Cardinality(1 .. n) = n
    BY <1>1, FS_Interval
<1> HIDE DEF n
<1>5. Cardinality(I) = Cardinality(1 .. n)
    <2> DEFINE D == 1 .. n
    <2>1. \A i, j \in D : order[i] = order[j] => i = j
        BY <1>2
    <2>2. IsFiniteSet(D)
        BY <1>4
    <2> HIDE DEF D
    <2>3. Cardinality({order[i] : i \in D}) = Cardinality(D)
        BY <2>1, <2>2, CountOfImage
    <2>4. QED BY <2>3 DEF D
<1>6. I \subseteq S
    BY <1>2
<1> HIDE DEF I
<1>7. I = S
    BY <1>1, <1>4, <1>5, <1>6, FS_Subset DEF n
<1>8. QED BY <1>3, <1>7 DEF I

\* What lookup answers, on whatever order the hash map has.
LEMMA LookupAnswers ==
    ASSUME IInv, NEW dest, Lookup(dest)
    PROVE  /\ result'.found <=> Eligible(dest) # {}
           /\ result'.found =>
                 /\ result'.entry \in Eligible(dest)
                 /\ \A id \in Eligible(dest) :
                       routes[result'.entry].metric <= routes[id].metric
                 /\ routes[result'.entry].next_hops # <<>> =>
                       result'.next_hop = routes[result'.entry].next_hops[1] % 65536
<1>1. PICK order \in SetToSeqs(DOMAIN routes) : result' = Answer(Scan(order, dest))
    BY DEF Lookup
<1> DEFINE best == Scan(order, dest)
<1>2. BestOf(best, DOMAIN routes, dest)
    BY OrderIsWhole, ScanIs
<1>3. Eligible(dest) \cap DOMAIN routes = Eligible(dest)
    BY DEF Eligible
<1>4. result' = Answer(best)
    BY <1>1
<1> HIDE DEF best
<1>5. CASE best = <<>>
    BY <1>2, <1>3, <1>4, <1>5 DEF BestOf, Answer, NoResult
<1>6. CASE best # <<>>
    <2>1. PICK b \in Eligible(dest) :
              /\ best = <<b>>
              /\ \A id \in Eligible(dest) : routes[best[1]].metric <= routes[id].metric
        BY <1>2, <1>3, <1>6 DEF BestOf
    <2>2. /\ result'.found = TRUE /\ result'.entry = b
          /\ routes[b].next_hops # <<>> => result'.next_hop = Head(routes[b].next_hops) % 65536
        BY <1>4, <1>6, <2>1 DEF Answer
    <2>3. routes[b] \in Route
        BY DEF IInv, TypeOK, Eligible
    <2>4. routes[b].next_hops \in Seq(Nat)
        BY <2>3, RoutingConstants DEF Route
    <2>5. routes[b].next_hops # <<>> => Head(routes[b].next_hops) = routes[b].next_hops[1]
        BY <2>4
    <2>6. QED BY <2>1, <2>2, <2>5
<1>7. QED BY <1>5, <1>6

-----------------------------------------------------------------------------
(* The theorems. *)

\* Every variable keeps its type and the table never outgrows
\* ROUTING_TABLE_MAX, for any number of ids.
THEOREM TypeCorrect == Spec => []TypeOK
<1>1. IInv => TypeOK
    BY DEF IInv
<1>2. QED BY <1>1, InitInvariant, NextInvariant, PTL DEF Spec

\* A route is active exactly while its time to live has not run out, whatever
\* calls were made in between.
THEOREM LifeIsExact == Spec => []ActiveWhileAlive
<1>1. IInv => ActiveWhileAlive
    BY DEF IInv
<1>2. QED BY <1>1, InitInvariant, NextInvariant, PTL DEF Spec

\* Whatever order the hash map is scanned in, a lookup answers with one of the
\* cheapest routes that are alive, and with none only when there is none.
THEOREM CheapestIsFound == Spec => LookupFindsCheapest
<1>1. IInv /\ [Next]_vars =>
        [\A dest \in Dests :
            Lookup(dest) =>
               /\ result'.found <=> Eligible(dest) # {}
               /\ result'.found =>
                     /\ result'.entry \in Eligible(dest)
                     /\ \A id \in Eligible(dest) :
                           routes[result'.entry].metric <= routes[id].metric
                     /\ routes[result'.entry].next_hops # <<>> =>
                           result'.next_hop = routes[result'.entry].next_hops[1] % 65536]_vars
    <2> SUFFICES ASSUME IInv, NEW dest \in Dests, Lookup(dest)
                 PROVE  /\ result'.found <=> Eligible(dest) # {}
                        /\ result'.found =>
                              /\ result'.entry \in Eligible(dest)
                              /\ \A id \in Eligible(dest) :
                                    routes[result'.entry].metric <= routes[id].metric
                              /\ routes[result'.entry].next_hops # <<>> =>
                                    result'.next_hop
                                       = routes[result'.entry].next_hops[1] % 65536
        OBVIOUS
    <2>1. QED BY LookupAnswers
<1>2. QED BY <1>1, InitInvariant, NextInvariant, PTL DEF Spec, LookupFindsCheapest
=============================================================================
