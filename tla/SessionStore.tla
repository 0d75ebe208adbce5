---------------------------- MODULE SessionStore ----------------------------
(* session_store.cpp: records of sessions that stay after they are closed.    *)
EXTENDS RecordStream

CONSTANTS StoreIds,          \* session ids
          StoreRecords,      \* records a stream may bring
          AppendSizes,       \* sizes of appended data
          COUNT_WRAP,        \* byte_count is a number modulo this (2^32)
          MAX_METADATA       \* bound on the metadata of a session

\* Metadata stands for its length: the bytes are kept in order and never looked at.
StoreRecord == [id: StoreIds, opened_at: Nat, last_active: Nat, state: 0..255,
                byte_count: 0..COUNT_WRAP - 1, metadata: 0..MAX_METADATA]

ASSUME StoreAssumption ==
  /\ COUNT_WRAP \in Nat \ {0} /\ MAX_METADATA \in Nat /\ AppendSizes \subseteq Nat
  /\ StoreRecords \subseteq StoreRecord

VARIABLES records_by_id,     \* id -> record
          declared           \* history: byte_count less metadata, as a stream brought it (0 for open)

storeVars == <<records_by_id, declared>>

StoreTypeOK ==
  /\ DOMAIN records_by_id = DOMAIN declared
  /\ \A i \in DOMAIN records_by_id :
       records_by_id[i] \in StoreRecord /\ records_by_id[i].id = i

StoreInit == records_by_id = << >> /\ declared = << >>

\* The record's own count against the bytes it holds.
Surplus(r) == (r.byte_count - r.metadata) % COUNT_WRAP

StoreEach(recs) ==
  /\ records_by_id' = PutAll(records_by_id, recs)
  /\ declared' = [i \in DOMAIN records_by_id' |->
                    IF i \in IdsOf(recs) THEN Surplus(LastOf(recs, i)) ELSE declared[i]]

\* Opening an id that is there, open or closed, replaces its record.
OpenStored(id, time) ==
  StoreEach(<<[id |-> id, opened_at |-> time, last_active |-> time, state |-> 1,
               byte_count |-> 0, metadata |-> 0]>>)

\* The record stays, metadata and all.
CloseStored(id) ==
  /\ id \in DOMAIN records_by_id
  /\ records_by_id' = [records_by_id EXCEPT ![id].state = 0]
  /\ UNCHANGED declared

\* A plausible mistake: the count is set to the size of what came last.
AppendStored_CountSet(id, size) ==
  /\ id \in DOMAIN records_by_id
  /\ records_by_id[id].state # 0
  /\ records_by_id[id].metadata + size <= MAX_METADATA
  /\ records_by_id' = [records_by_id EXCEPT ![id].byte_count = size % COUNT_WRAP,
                                            ![id].metadata = @ + size]
  /\ UNCHANGED declared

\* Neither last_active nor a limit is looked at.
AppendStored(id, size) ==
  /\ id \in DOMAIN records_by_id
  /\ records_by_id[id].state # 0
  /\ records_by_id[id].metadata + size <= MAX_METADATA
  /\ records_by_id' = [records_by_id EXCEPT ![id].byte_count = (@ + size) % COUNT_WRAP,
                                            ![id].metadata = @ + size]
  /\ UNCHANGED declared

LoadStoreBinary(s) == s.header /\ StoreEach(Taken(s, FALSE))

ActiveCount == Cardinality({i \in DOMAIN records_by_id : records_by_id[i].state # 0})

\* session_store_validate_0 .. 149, n its number.
session_store_validate(n, id, state) == id # 0 /\ state <= n % 4

StoreNext ==
  \/ \E id \in StoreIds :
       \/ \E time \in 0..1 : OpenStored(id, time)
       \/ CloseStored(id)
       \/ \E size \in AppendSizes : AppendStored(id, size)
  \/ \E s \in StreamsOf(StoreRecords, 2) : LoadStoreBinary(s)

StoreSpec == StoreInit /\ [][StoreNext]_storeVars

-----------------------------------------------------------------------------
(* Properties *)

\* byte_count and the metadata grow together (session_store.cpp:36-37), also when the count wraps
\* and when an id is opened again over a session with metadata: whatever the calls, they differ by
\* what the record started with.
BytesFollowMetadata ==
  \A i \in DOMAIN records_by_id : Surplus(records_by_id[i]) = declared[i]
=============================================================================
