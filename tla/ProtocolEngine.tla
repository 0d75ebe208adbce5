--------------------------- MODULE ProtocolEngine ---------------------------
(***************************************************************************)
(* aeroframe::ProtocolEngine (src/src/protocol.cpp): the handshake state,  *)
(* the capability table and the pending-message context.  handle_message   *)
(* is one action per message type; a message it refuses still clears the   *)
(* caller's response.                                                      *)
(*                                                                         *)
(* The CapabilityDeclare handler stores at index capability_count_ without *)
(* a bound.  A store past the table is undefined: it lands on the members  *)
(* declared after the array, so from then on (overrun) their values are    *)
(* arbitrary, while state_, which lies before it, keeps its meaning.       *)
(***************************************************************************)
EXTENDS Naturals, Sequences

CONSTANTS
    CapIds,                 \* capability ids in messages and calls
    CapVersions, CapFlags,  \* versions and flags that come with them
    Versions,               \* protocol versions in VersionDeclare messages
    Bodies,                 \* contents of Data, Ack and Nak messages
    CAPABILITY_TABLE_SIZE,  \* protocol.h: 12
    PROTOCOL_VERSION,       \* protocol.h: 1
    SEQUENCE_WRAP,          \* sequence_counter_ is a uint16_t
    MaxCount                \* bound: values of capability_count_ after an overrun

ASSUME ProtocolConstants ==
    /\ CapIds \subseteq Nat /\ CapVersions \subseteq Nat
    /\ CapFlags \subseteq Nat /\ Versions \subseteq Nat
    /\ CAPABILITY_TABLE_SIZE \in Nat \ {0}
    /\ PROTOCOL_VERSION \in Nat \ {0}
    /\ SEQUENCE_WRAP \in Nat \ {0}
    /\ MaxCount \in Nat /\ MaxCount > CAPABILITY_TABLE_SIZE

VARIABLES
    state,             \* state_
    sequence_counter,  \* sequence_counter_
    capabilities,      \* capabilities_[0 .. CAPABILITY_TABLE_SIZE - 1]
    capability_count,  \* capability_count_
    context,           \* context_, where CapabilityDeclare leaves its fields
    context_valid,     \* context_valid_, the member beside it
    version,           \* version_
    response,          \* what the last message was answered with
    declared,          \* history: the entries stored so far
    overrun            \* history: has a store gone past the table?

protocolVars == <<state, sequence_counter, capabilities, capability_count, context,
          context_valid, version, response, declared, overrun>>

ProtocolStates == {"Closed", "WaitingVersion", "WaitingCapabilities",
                   "Negotiating", "Established", "Error"}

Slots == 0 .. CAPABILITY_TABLE_SIZE - 1

NoEntry == [id |-> 0, version |-> 0, flags |-> 0, active |-> FALSE]
Entry(id, v, flags) == [id |-> id, version |-> v, flags |-> flags, active |-> TRUE]
Entries == [id : CapIds, version : CapVersions, flags : CapFlags, active : {TRUE}]

NoContext == [pending |-> "none", sequence |-> 0, valid |-> FALSE]
Contexts  == {NoContext} \cup [pending : {"CapabilityDeclare"},
                               sequence : 0 .. 255, valid : {TRUE}]

-----------------------------------------------------------------------------
(* Helpers.  X_Y is X with a plausible mistake, for the mutation runs.     *)

InTable(id) == id < CAPABILITY_TABLE_SIZE

HasSlot_OffByOne == capability_count <= CAPABILITY_TABLE_SIZE
HasSlot          == capability_count < CAPABILITY_TABLE_SIZE

\* Append at the compact index, as declare_capability does.
Compact_Renames(e) == [i \in Slots |->
    IF i # capability_count THEN capabilities[i]
    ELSE IF capabilities[i].active THEN [capabilities[i] EXCEPT !.id = e.id] ELSE e]
Compact(e)         == [i \in Slots |-> IF i = capability_count THEN e ELSE capabilities[i]]

\* The message handler then also stores at the direct index.
Direct_Shifted(table, e) == [i \in Slots |-> IF i = e.id + 1 THEN e ELSE table[i]]
Direct(table, e)         == [i \in Slots |-> IF i = e.id THEN e ELSE table[i]]

\* CapabilityDeclare fills context_, but not the flag that guards its use.
ContextFlag_Set == TRUE
ContextFlag     == context_valid

-----------------------------------------------------------------------------
(* The operations. *)

ProtocolInit ==
    /\ state = "Closed"
    /\ sequence_counter = 0
    /\ capabilities = [i \in Slots |-> NoEntry]
    /\ capability_count = 0
    /\ context = NoContext
    /\ context_valid = FALSE
    /\ version = 0
    /\ response = <<>>
    /\ declared = {}
    /\ overrun = FALSE

\* The call declare_capability, which does check the count.
DeclareCapability(id, v, flags) ==
    /\ HasSlot
    /\ InTable(id)
    /\ capabilities' = Compact(Entry(id, v, flags))
    /\ capability_count' = capability_count + 1
    /\ declared' = declared \cup {Entry(id, v, flags)}
    /\ UNCHANGED <<state, sequence_counter, context, context_valid, version,
                   response, overrun>>

NegotiateCapabilities_Unchecked ==
    /\ state' = "Negotiating"
    /\ UNCHANGED <<sequence_counter, capabilities, capability_count, context,
                   context_valid, version, response, declared, overrun>>

NegotiateCapabilities ==
    /\ capability_count # 0
    /\ state' = "Negotiating"
    /\ UNCHANGED <<sequence_counter, capabilities, capability_count, context,
                   context_valid, version, response, declared, overrun>>

NextSequence ==
    /\ sequence_counter' = (sequence_counter + 1) % SEQUENCE_WRAP
    /\ UNCHANGED <<state, capabilities, capability_count, context, context_valid,
                   version, response, declared, overrun>>

ResetContext ==
    /\ context_valid' = FALSE
    /\ context' = NoContext
    /\ UNCHANGED <<state, sequence_counter, capabilities, capability_count,
                   version, response, declared, overrun>>

(* handle_message *)

HandleVersionDeclare(ver) ==
    /\ ver = PROTOCOL_VERSION
    /\ version' = ver
    /\ state' = "WaitingCapabilities"
    /\ response' = <<"VersionAccept", PROTOCOL_VERSION>>
    /\ UNCHANGED <<sequence_counter, capabilities, capability_count, context,
                   context_valid, declared, overrun>>

HandleCapabilityDeclare(id, v, flags) ==
    LET e == Entry(id, v, flags)
    IN  /\ InTable(id)
        /\ capabilities' = Direct(Compact(e), e)
        /\ context' = [pending |-> "CapabilityDeclare", sequence |-> flags % 256,
                       valid |-> TRUE]
        /\ response' = <<"CapabilityAck", id>>
        /\ declared' = declared \cup {e}
        /\ \/ /\ capability_count < CAPABILITY_TABLE_SIZE
              /\ capability_count' = capability_count + 1
              /\ context_valid' = ContextFlag
              /\ UNCHANGED <<version, overrun>>
           \/ /\ capability_count >= CAPABILITY_TABLE_SIZE
              /\ overrun' = TRUE
              /\ capability_count' \in 0 .. MaxCount
              /\ context_valid' \in BOOLEAN
              /\ version' \in Versions \cup {0}
        /\ UNCHANGED <<state, sequence_counter>>

HandleData(body) ==
    /\ response' = (IF context_valid THEN <<context.pending, context.sequence>> ELSE <<>>)
                   \o <<"Data", body>>
    /\ UNCHANGED <<state, sequence_counter, capabilities, capability_count, context,
                   context_valid, version, declared, overrun>>

HandleHeartbeat ==
    /\ state' = "Established"
    /\ response' = <<"Heartbeat", 1>>
    /\ UNCHANGED <<sequence_counter, capabilities, capability_count, context,
                   context_valid, version, declared, overrun>>

HandleAckNak(type, body) ==
    /\ response' = <<type, body>>
    /\ UNCHANGED <<state, sequence_counter, capabilities, capability_count, context,
                   context_valid, version, declared, overrun>>

\* A short body, another version, an id outside the table or any other type,
\* Control included: handle_message returns false with the response cleared.
HandleRefused ==
    /\ response' = <<>>
    /\ UNCHANGED <<state, sequence_counter, capabilities, capability_count, context,
                   context_valid, version, declared, overrun>>

HandleMessage ==
    \/ \E ver \in Versions : HandleVersionDeclare(ver)
    \/ \E id \in CapIds, v \in CapVersions, flags \in CapFlags :
          HandleCapabilityDeclare(id, v, flags)
    \/ \E body \in Bodies : HandleData(body)
    \/ HandleHeartbeat
    \/ \E type \in {"Ack", "Nak"}, body \in Bodies : HandleAckNak(type, body)
    \/ HandleRefused

ProtocolNext ==
    \/ HandleMessage
    \/ \E id \in CapIds, v \in CapVersions, flags \in CapFlags :
          DeclareCapability(id, v, flags)
    \/ NegotiateCapabilities
    \/ NextSequence
    \/ ResetContext

ProtocolSpec == ProtocolInit /\ [][ProtocolNext]_protocolVars

-----------------------------------------------------------------------------
(* Properties. *)

\* Every variable has its type; without an overrun the count stays in the table.
ProtocolTypeOK ==
    /\ state \in ProtocolStates
    /\ sequence_counter \in 0 .. SEQUENCE_WRAP - 1
    /\ capabilities \in [Slots -> Entries \cup {NoEntry}]
    /\ capability_count \in 0 .. MaxCount
    /\ ~overrun => capability_count <= CAPABILITY_TABLE_SIZE
    /\ context \in Contexts
    /\ context_valid \in BOOLEAN
    /\ version \in Versions \cup {0}
    /\ declared \subseteq Entries
    /\ overrun \in BOOLEAN

\* The compact view has no holes, whatever the direct stores put over it: every
\* slot below capability_count_ is active, even when the count has been
\* overrun.  A slot at or above the count is active only as a direct store, and
\* then holds the id that is its own index.
TableViewsAgree ==
    /\ \A i \in Slots : i < capability_count => capabilities[i].active
    /\ ~overrun => \A i \in Slots :
          capabilities[i].active /\ i >= capability_count => capabilities[i].id = i

\* The table shows nothing that was not declared: an active slot is one entry as
\* it was declared, never the id of one with the version or flags of another.
NothingInvented ==
    \A i \in Slots : capabilities[i].active => capabilities[i] \in declared

\* Two handshake states are backed by the data they stand for, as long as the
\* table was not overrun: waiting for capabilities means that this version was
\* accepted, and negotiating that there is a capability to negotiate.  Of
\* Established nothing is said: a Heartbeat sets it from any state.
HandshakeEvidence ==
    ~overrun => /\ state = "WaitingCapabilities" => version = PROTOCOL_VERSION
                /\ state = "Negotiating" => capability_count > 0

\* A Data message is answered with its own bytes alone: the fields a
\* CapabilityDeclare message left in the context never reach the answer.
DataAnsweredBare ==
    [][\A body \in Bodies :
          HandleData(body) /\ ~overrun => response' = <<"Data", body>>]_protocolVars

\* The view of the two indices as one: every capability that was declared is
\* found below capability_count_.  The direct store breaks this.
DeclaredIsListed ==
    ~overrun => \A e \in declared : \E i \in Slots :
                   i < capability_count /\ capabilities[i].id = e.id

\* The handshake is over once the capabilities are negotiated.
NegotiationEstablishes == [][NegotiateCapabilities => state' = "Established"]_protocolVars

=============================================================================
