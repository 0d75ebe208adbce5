---------------------------- MODULE RecordBuffer ----------------------------
(* record_buffer.cpp: a capped vector of records with a read position. pop    *)
(* leaves the record in the vector and moves its payload out; a push into a   *)
(* full buffer erases the record at the read position and sets the position   *)
(* back to the front.                                                         *)
EXTENDS RecordStream

CONSTANTS Payloads,          \* what is pushed
          Empty,             \* the empty payload: of a record whose payload was moved out
          CAPACITY,
          MAX_PUSHED         \* bound on the sequence numbers

ASSUME BufferAssumption ==
  CAPACITY \in Nat \ {0} /\ MAX_PUSHED \in Nat /\ Empty \notin Payloads

VARIABLES records,           \* the vector
          head,              \* the read position, from 0
          next_seq,
          delivered          \* history: the sequence numbers of the payloads pop gave out

bufferVars == <<records, head, next_seq, delivered>>

Record == [sequence: 0..MAX_PUSHED, payload: Payloads \cup {Empty}]

BufferTypeOK ==
  /\ records \in Seq(Record)
  /\ Len(records) <= CAPACITY
  /\ head \in 0..Len(records)
  /\ next_seq \in 0..MAX_PUSHED
  /\ delivered \in Seq(0..MAX_PUSHED)

BufferInit == records = <<>> /\ head = 0 /\ next_seq = 0 /\ delivered = <<>>

\* A vector without its entry number i.
Without(q, i) == [j \in 1..Len(q) - 1 |-> IF j < i THEN q[j] ELSE q[j + 1]]

Appended(q, payload) == Append(q, [sequence |-> next_seq, payload |-> payload])

\* The payload is refused when it is empty, and when the buffer is full and read to its end.
PushRefused(payload) == payload = Empty \/ (Len(records) >= CAPACITY /\ head >= Len(records))

Push(payload) ==
  /\ ~PushRefused(payload)
  /\ next_seq < MAX_PUSHED
  /\ next_seq' = next_seq + 1
  /\ \/ /\ Len(records) >= CAPACITY
        /\ records' = Appended(Without(records, head + 1), payload)
        /\ head' = 0
     \/ /\ Len(records) < CAPACITY
        /\ records' = Appended(records, payload)
        /\ UNCHANGED head
  /\ UNCHANGED delivered

\* A plausible mistake: pop copies the record and leaves the payload in the vector.
Pop_Copies ==
  /\ head < Len(records)
  /\ head' = head + 1
  /\ delivered' = IF records[head + 1].payload = Empty
                  THEN delivered ELSE Append(delivered, records[head + 1].sequence)
  /\ UNCHANGED <<records, next_seq>>

\* A record read a second time comes with an empty payload: that is no delivery.
Pop ==
  /\ head < Len(records)
  /\ records' = [records EXCEPT ![head + 1].payload = Empty]
  /\ head' = head + 1
  /\ delivered' = IF records[head + 1].payload = Empty
                  THEN delivered ELSE Append(delivered, records[head + 1].sequence)
  /\ UNCHANGED next_seq

Peek(index) == IF head + index < Len(records) THEN {records[head + index + 1]} ELSE {}

Compact ==
  /\ head # 0
  /\ records' = SubSeq(records, head + 1, Len(records))
  /\ head' = 0
  /\ UNCHANGED <<next_seq, delivered>>

\* record_buffer_slot_0 .. 89, n its number.
record_buffer_slot(n, base, cap) == (base + n) % cap

BufferNext == (\E payload \in Payloads : Push(payload)) \/ Pop \/ Compact

BufferSpec == BufferInit /\ [][BufferNext]_bufferVars

-----------------------------------------------------------------------------
(* Properties *)

\* No payload is given out twice and none after a younger one (record_buffer.cpp:18-38), although
\* a push into a full buffer moves the read position back over records that were read before.
DeliveredOnceInOrder ==
  \A i, j \in DOMAIN delivered : i < j => delivered[i] < delivered[j]
=============================================================================
