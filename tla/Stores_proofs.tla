---------------------------- MODULE Stores_proofs ----------------------------
(* What the stores that keep records for a later call promise (the record     *)
(* buffer, the rate limiter, the snapshot store, the session store, the       *)
(* scheduler and the metrics), and what the ingest pipeline that fills them   *)
(* does, for every capacity, window, stream and sequence of calls; and that   *)
(* in all of their states what Algorithms_proofs proves can be relied upon.   *)
EXTENDS IngestPipeline, MCStores,
        Algorithms_proofs

-----------------------------------------------------------------------------
(* The record buffer: every payload is given out once and in the order of the *)
(* pushes.                                                                    *)

\* Numbers rise along the buffer and none has been given yet.
Numbered ==
  /\ \A i, j \in DOMAIN records : i < j => records[i].sequence < records[j].sequence
  /\ \A i \in DOMAIN records : records[i].sequence < next_seq

\* The records without a payload stand at the front, and those before the read position are among
\* them; the position itself may have gone back.
ReadFirst ==
  /\ \A i \in DOMAIN records : i <= head => records[i].payload = Empty
  /\ \A i, j \in DOMAIN records :
       i < j /\ records[j].payload = Empty => records[i].payload = Empty

\* What was delivered is older than all that still has its payload, and than all to come.
DeliveredOld ==
  /\ \A k \in DOMAIN delivered, i \in DOMAIN records :
       records[i].payload # Empty => delivered[k] < records[i].sequence
  /\ \A k \in DOMAIN delivered : delivered[k] < next_seq

BufferInv == BufferTypeOK /\ Numbered /\ ReadFirst /\ DeliveredOld /\ DeliveredOnceInOrder

\* Taking an entry out of a sequence leaves a sequence that is one shorter.
LEMMA WithoutIsShorter ==
  ASSUME NEW S, NEW q \in Seq(S), NEW i \in 1..Len(q)
  PROVE  /\ Without(q, i) \in Seq(S)
         /\ Len(Without(q, i)) = Len(q) - 1
         /\ \A j \in 1..Len(q) - 1 : Without(q, i)[j] = IF j < i THEN q[j] ELSE q[j + 1]
<1> DEFINE w == [j \in 1..Len(q) - 1 |-> IF j < i THEN q[j] ELSE q[j + 1]]
<1>1. Len(q) - 1 \in Nat
  OBVIOUS
<1>2. \A j \in 1..Len(q) - 1 : (IF j < i THEN q[j] ELSE q[j + 1]) \in S
  OBVIOUS
<1>3. w \in [1..Len(q) - 1 -> S]
  BY <1>2
<1>4. w \in Seq(S) /\ Len(w) = Len(q) - 1
  BY <1>1, <1>3
<1> QED
  BY <1>4 DEF Without

\* The buffer that a push appends to: the same one, or without the record at the read position.
LEMMA PushRecords ==
  ASSUME BufferInv, NEW payload \in Payloads, Push(payload)
  PROVE  \E q \in Seq(Record) :
           /\ records' = Appended(q, payload)
           /\ Len(q) < CAPACITY
           /\ head' <= Len(q) /\ head' \in Nat
           /\ \E f \in [1..Len(q) -> DOMAIN records] :
                /\ \A i, j \in 1..Len(q) : i < j => f[i] < f[j]
                /\ \A i \in 1..Len(q) : q[i] = records[f[i]]
                /\ \A i \in 1..Len(q) : i <= head' => f[i] <= head
<1>1. records \in Seq(Record) /\ head \in 0..Len(records) /\ Len(records) <= CAPACITY
  BY DEF BufferInv, BufferTypeOK
<1>2. CASE Len(records) >= CAPACITY
  <2> DEFINE q == Without(records, head + 1)
  <2> DEFINE f == [i \in 1..Len(records) - 1 |-> IF i < head + 1 THEN i ELSE i + 1]
  <2>1. head + 1 \in 1..Len(records)
    BY <1>1, <1>2 DEF Push, PushRefused
  <2>2. /\ q \in Seq(Record) /\ Len(q) = Len(records) - 1
        /\ \A j \in 1..Len(records) - 1 : q[j] = IF j < head + 1 THEN records[j] ELSE records[j + 1]
    BY <1>1, <2>1, WithoutIsShorter
  <2>3. records' = Appended(q, payload) /\ head' = 0
    BY <1>1, <1>2, BufferAssumption DEF Push
  <2>4. f \in [1..Len(q) -> DOMAIN records]
    BY <1>1, <2>2
  <2>5. \A i, j \in 1..Len(q) : i < j => f[i] < f[j]
    BY <1>1, <2>2
  <2>6. \A i \in 1..Len(q) : q[i] = records[f[i]]
    BY <1>1, <2>2
  <2> HIDE DEF q, f
  <2>7. Len(q) < CAPACITY /\ head' <= Len(q) /\ head' \in Nat
    BY <1>1, <2>1, <2>2, <2>3, BufferAssumption
  <2>8. \A i \in 1..Len(q) : i <= head' => f[i] <= head
    BY <2>3
  <2> QED
    BY <2>2, <2>3, <2>4, <2>5, <2>6, <2>7, <2>8
<1>3. CASE Len(records) < CAPACITY
  <2> DEFINE f == [i \in 1..Len(records) |-> i]
  <2>1. records' = Appended(records, payload) /\ head' = head
    BY <1>1, <1>3, BufferAssumption DEF Push
  <2>2. f \in [1..Len(records) -> DOMAIN records]
    BY <1>1
  <2>3. \A i \in 1..Len(records) : f[i] = i
    OBVIOUS
  <2> HIDE DEF f
  <2>4. \A i, j \in 1..Len(records) : i < j => f[i] < f[j]
    BY <2>3
  <2>5. \A i \in 1..Len(records) : records[i] = records[f[i]]
    BY <2>3
  <2>6. \A i \in 1..Len(records) : i <= head' => f[i] <= head
    BY <2>1, <2>3
  <2>7. head' <= Len(records) /\ head' \in Nat
    BY <1>1, <2>1
  <2> QED
    BY <1>1, <1>3, <2>1, <2>2, <2>4, <2>5, <2>6, <2>7
<1>4. Len(records) >= CAPACITY \/ Len(records) < CAPACITY
  BY <1>1, BufferAssumption
<1> QED
  BY <1>2, <1>3, <1>4

\* A push keeps the invariant.
LEMMA PushKeeps ==
  ASSUME BufferInv, NEW payload \in Payloads, Push(payload)
  PROVE  BufferInv'
<1>1. PICK q \in Seq(Record) :
           /\ records' = Appended(q, payload)
           /\ Len(q) < CAPACITY
           /\ head' <= Len(q) /\ head' \in Nat
           /\ \E f \in [1..Len(q) -> DOMAIN records] :
                /\ \A i, j \in 1..Len(q) : i < j => f[i] < f[j]
                /\ \A i \in 1..Len(q) : q[i] = records[f[i]]
                /\ \A i \in 1..Len(q) : i <= head' => f[i] <= head
  BY PushRecords
<1>2. PICK f \in [1..Len(q) -> DOMAIN records] :
                /\ \A i, j \in 1..Len(q) : i < j => f[i] < f[j]
                /\ \A i \in 1..Len(q) : q[i] = records[f[i]]
                /\ \A i \in 1..Len(q) : i <= head' => f[i] <= head
  BY <1>1
<1> DEFINE new == [sequence |-> next_seq, payload |-> payload]
<1>3. /\ records \in Seq(Record) /\ next_seq \in 0..MAX_PUSHED /\ delivered \in Seq(0..MAX_PUSHED)
      /\ next_seq < MAX_PUSHED /\ next_seq' = next_seq + 1 /\ delivered' = delivered
      /\ MAX_PUSHED \in Nat /\ CAPACITY \in Nat
  BY BufferAssumption DEF BufferInv, BufferTypeOK, Push
<1>4. new \in Record /\ new.sequence = next_seq /\ new.payload # Empty
  BY <1>3, BufferAssumption DEF Record
<1>5. records' = Append(q, new)
  BY <1>1 DEF Appended
<1>6. /\ DOMAIN records' = 1..Len(q) + 1 /\ records'[Len(q) + 1] = new
      /\ \A i \in 1..Len(q) : records'[i] = q[i]
      /\ records' \in Seq(Record) /\ Len(records') = Len(q) + 1
  BY <1>4, <1>5
<1>7. \A i \in 1..Len(q) : f[i] \in DOMAIN records /\ records'[i] = records[f[i]]
  BY <1>2, <1>6
<1>8. \A i \in DOMAIN records : records[i].sequence \in Nat
  <2>1. \A i \in DOMAIN records : records[i] \in Record
    BY <1>3
  <2>2. \A r \in Record : r.sequence \in Nat
    BY DEF Record
  <2> QED
    BY <2>1, <2>2
<1> HIDE DEF new
<1>9. BufferTypeOK'
  BY <1>1, <1>3, <1>6 DEF BufferTypeOK
<1>10. Numbered'
  <2>1. \A i, j \in 1..Len(q) : i < j => records'[i].sequence < records'[j].sequence
    BY <1>2, <1>7 DEF BufferInv, Numbered
  <2>2. \A i \in 1..Len(q) : records'[i].sequence < next_seq
    BY <1>7 DEF BufferInv, Numbered
  <2>3. \A i \in 1..Len(q) : records'[i].sequence \in Nat
    BY <1>7, <1>8
  <2>4. \A i \in DOMAIN records' : i \in 1..Len(q) \/ i = Len(q) + 1
    BY <1>6
  <2>5. records'[Len(q) + 1].sequence = next_seq
    BY <1>4, <1>6
  <2>6. \A i \in DOMAIN records' : records'[i].sequence < next_seq'
    <3>1. next_seq \in Nat /\ next_seq' = next_seq + 1
      BY <1>3
    <3>2. \A i \in 1..Len(q) : records'[i].sequence < next_seq'
      BY <2>2, <2>3, <3>1
    <3>3. records'[Len(q) + 1].sequence < next_seq'
      BY <2>5, <3>1
    <3> QED
      BY <2>4, <3>2, <3>3
  <2>7. \A i, j \in DOMAIN records' : i < j => records'[i].sequence < records'[j].sequence
    <3> SUFFICES ASSUME NEW i \in DOMAIN records', NEW j \in DOMAIN records', i < j
                 PROVE  records'[i].sequence < records'[j].sequence
      OBVIOUS
    <3>1. Len(q) \in Nat
      OBVIOUS
    <3>2. CASE j = Len(q) + 1
      BY <2>2, <2>4, <2>5, <3>1, <3>2
    <3>3. CASE j \in 1..Len(q)
      BY <2>1, <2>4, <3>1, <3>3
    <3> QED
      BY <2>4, <3>2, <3>3
  <2> QED
    BY <2>6, <2>7 DEF Numbered
<1>11. ReadFirst'
  <2>1. \A i \in 1..Len(q) : i <= head' => records'[i].payload = Empty
    BY <1>2, <1>7 DEF BufferInv, ReadFirst
  <2>2. \A i, j \in 1..Len(q) : i < j /\ records'[j].payload = Empty => records'[i].payload = Empty
    BY <1>2, <1>7 DEF BufferInv, ReadFirst
  <2> QED
    BY <1>1, <1>4, <1>6, <2>1, <2>2 DEF ReadFirst
<1>12. DeliveredOld'
  <2>1. \A k \in DOMAIN delivered, i \in 1..Len(q) :
          records'[i].payload # Empty => delivered[k] < records'[i].sequence
    BY <1>7 DEF BufferInv, DeliveredOld
  <2>2. \A k \in DOMAIN delivered : delivered[k] < next_seq /\ delivered[k] \in Nat
    BY <1>3 DEF BufferInv, DeliveredOld
  <2>3. \A i \in DOMAIN records' : i \in 1..Len(q) \/ i = Len(q) + 1
    BY <1>6
  <2>4. records'[Len(q) + 1].sequence = next_seq
    BY <1>4, <1>6
  <2>5. \A k \in DOMAIN delivered, i \in DOMAIN records' :
          records'[i].payload # Empty => delivered[k] < records'[i].sequence
    BY <2>1, <2>2, <2>3, <2>4
  <2>6. \A k \in DOMAIN delivered : delivered[k] < next_seq + 1
    BY <1>3, <2>2
  <2> QED
    BY <1>3, <2>5, <2>6 DEF DeliveredOld
<1>13. DeliveredOnceInOrder'
  BY <1>3 DEF BufferInv, DeliveredOnceInOrder
<1> QED
  BY <1>9, <1>10, <1>11, <1>12, <1>13 DEF BufferInv

\* A pop keeps the invariant.
LEMMA PopKeeps ==
  ASSUME BufferInv, Pop
  PROVE  BufferInv'
<1> DEFINE at == head + 1
<1> DEFINE gone == records[at]
<1>1. /\ records \in Seq(Record) /\ next_seq \in 0..MAX_PUSHED /\ delivered \in Seq(0..MAX_PUSHED)
      /\ head \in 0..Len(records) /\ Len(records) <= CAPACITY
      /\ at \in DOMAIN records /\ head' = at /\ next_seq' = next_seq /\ head \in Nat
  BY DEF BufferInv, BufferTypeOK, Pop
<1>2. gone \in Record /\ gone.sequence \in 0..MAX_PUSHED
  <2>1. gone \in Record
    BY <1>1
  <2> QED
    BY <2>1 DEF Record
<1>3. /\ records' \in Seq(Record) /\ Len(records') = Len(records) /\ DOMAIN records' = DOMAIN records
      /\ records'[at].payload = Empty /\ records'[at].sequence = gone.sequence
      /\ \A i \in DOMAIN records : i # at => records'[i] = records[i]
  <2>1. records' = [records EXCEPT ![at] = [gone EXCEPT !.payload = Empty]]
    BY DEF Pop
  <2>2. [gone EXCEPT !.payload = Empty] \in Record
    BY <1>2 DEF Record
  <2>3. [gone EXCEPT !.payload = Empty].payload = Empty
        /\ [gone EXCEPT !.payload = Empty].sequence = gone.sequence
    BY <1>2 DEF Record
  <2> DEFINE emptied == [gone EXCEPT !.payload = Empty]
  <2> HIDE DEF emptied
  <2>4. records' = [records EXCEPT ![at] = emptied]
    BY <2>1 DEF emptied
  <2>5. emptied \in Record /\ emptied.payload = Empty /\ emptied.sequence = gone.sequence
    BY <2>2, <2>3 DEF emptied
  <2> HIDE DEF at, gone
  <2>6. DOMAIN records = 1..Len(records) /\ Len(records) \in Nat
    BY <1>1
  <2>7. records' \in Seq(Record) /\ Len(records') = Len(records) /\ DOMAIN records' = DOMAIN records
    BY <1>1, <2>4, <2>5
  <2>8. records'[at] = emptied /\ \A i \in DOMAIN records : i # at => records'[i] = records[i]
    BY <1>1, <2>4, <2>6
  <2> QED
    BY <2>5, <2>7, <2>8
<1>4. \A i \in DOMAIN records : /\ records'[i].sequence = records[i].sequence
                                /\ records'[i].payload # Empty =>
                                     records[i].payload # Empty /\ i # at
  BY <1>3
<1> HIDE DEF at, gone
<1>5. Numbered'
  BY <1>1, <1>3, <1>4 DEF BufferInv, Numbered
<1>6. \A i \in DOMAIN records : i < at => records[i].payload = Empty
  BY <1>1 DEF BufferInv, ReadFirst, at
<1>7. ReadFirst'
  <2>1. ASSUME NEW i \in DOMAIN records, i <= at PROVE records'[i].payload = Empty
    <3>1. i \in Nat /\ at \in Nat /\ at \in DOMAIN records
      BY <1>1
    <3>2. CASE i = at
      BY <1>3, <3>2
    <3>3. CASE i # at
      <4>1. i < at /\ records'[i] = records[i]
        BY <1>3, <2>1, <3>1, <3>3
      <4> QED
        BY <1>6, <4>1
    <3> QED
      BY <3>2, <3>3
  <2>2. \A i, j \in DOMAIN records :
          i < j /\ records'[j].payload = Empty => records'[i].payload = Empty
    <3> SUFFICES ASSUME NEW i \in DOMAIN records, NEW j \in DOMAIN records, i < j,
                        records'[j].payload = Empty
                 PROVE  records'[i].payload = Empty
      OBVIOUS
    <3>1. CASE i <= at
      BY <2>1, <3>1
    <3>2. CASE ~(i <= at)
      <4>1. records'[i] = records[i] /\ records'[j] = records[j]
        BY <1>1, <1>3, <3>2
      <4> QED
        BY <4>1 DEF BufferInv, ReadFirst
    <3> QED
      BY <3>1, <3>2
  <2> QED
    BY <1>1, <1>3, <2>1, <2>2 DEF ReadFirst
<1>8. CASE gone.payload = Empty
  <2>1. delivered' = delivered
    BY <1>8 DEF Pop, gone, at
  <2>2. DeliveredOld'
    BY <1>1, <1>3, <1>4, <2>1 DEF BufferInv, DeliveredOld
  <2>3. DeliveredOnceInOrder'
    BY <2>1 DEF BufferInv, DeliveredOnceInOrder
  <2>4. BufferTypeOK'
    BY <1>1, <1>3, <2>1 DEF BufferTypeOK, at
  <2> QED
    BY <1>5, <1>7, <2>2, <2>3, <2>4 DEF BufferInv
<1>9. CASE gone.payload # Empty
  <2>1. delivered' = Append(delivered, gone.sequence)
    BY <1>9 DEF Pop, gone, at
  <2>2. \A k \in DOMAIN delivered : delivered[k] < gone.sequence
    BY <1>1, <1>9 DEF BufferInv, DeliveredOld, gone
  <2>3. gone.sequence < next_seq
    BY <1>1 DEF BufferInv, Numbered, gone
  <2>4. \A i \in DOMAIN records : records'[i].payload # Empty => gone.sequence < records'[i].sequence
    <3> SUFFICES ASSUME NEW i \in DOMAIN records, records'[i].payload # Empty
                 PROVE  gone.sequence < records[i].sequence
      BY <1>4
    <3>1. i > at
      BY <1>1, <1>4, <1>6
    <3> QED
      BY <1>1, <3>1 DEF BufferInv, Numbered, gone
  <2>5. /\ DOMAIN delivered' = 1..Len(delivered) + 1 /\ delivered'[Len(delivered) + 1] = gone.sequence
        /\ \A k \in 1..Len(delivered) : delivered'[k] = delivered[k]
        /\ delivered' \in Seq(0..MAX_PUSHED)
    BY <1>1, <1>2, <2>1
  <2>6. DeliveredOld'
    <3>1. \A k \in 1..Len(delivered), i \in DOMAIN records :
            records'[i].payload # Empty => delivered[k] < records'[i].sequence
      BY <1>1, <1>4 DEF BufferInv, DeliveredOld
    <3>2. \A k \in 1..Len(delivered) : delivered[k] < next_seq
      BY <1>1 DEF BufferInv, DeliveredOld
    <3>3. \A k \in DOMAIN delivered' : k \in 1..Len(delivered) \/ k = Len(delivered) + 1
      BY <2>5
    <3>4. \A i \in DOMAIN records' : i \in DOMAIN records /\ records'[i].sequence = records[i].sequence
      BY <1>3, <1>4
    <3>5. \A k \in DOMAIN delivered', i \in DOMAIN records' :
            records'[i].payload # Empty => delivered'[k] < records'[i].sequence
      BY <2>4, <2>5, <3>1, <3>3, <3>4
    <3>6. \A k \in DOMAIN delivered' : delivered'[k] < next_seq'
      BY <1>1, <2>3, <2>5, <3>2, <3>3
    <3> QED
      BY <3>5, <3>6 DEF DeliveredOld
  <2>7. DeliveredOnceInOrder'
    <3>1. \A i, j \in 1..Len(delivered) : i < j => delivered[i] < delivered[j]
      BY <1>1 DEF BufferInv, DeliveredOnceInOrder
    <3>2. \A k \in 1..Len(delivered) : delivered[k] < gone.sequence
      BY <1>1, <2>2
    <3>3. ASSUME NEW i \in DOMAIN delivered', NEW j \in DOMAIN delivered', i < j
          PROVE  delivered'[i] < delivered'[j]
      <4>1. Len(delivered) \in Nat
        BY <1>1
      <4>2. i \in 1..Len(delivered)
        BY <2>5, <3>3, <4>1
      <4>3. CASE j \in 1..Len(delivered)
        BY <2>5, <3>1, <3>3, <4>2, <4>3
      <4>4. CASE j = Len(delivered) + 1
        BY <2>5, <3>2, <4>2, <4>4
      <4> QED
        BY <2>5, <4>1, <4>3, <4>4
    <3> QED
      BY <3>3 DEF DeliveredOnceInOrder
  <2>8. BufferTypeOK'
    BY <1>1, <1>3, <2>5 DEF BufferTypeOK, at
  <2> QED
    BY <1>5, <1>7, <2>6, <2>7, <2>8 DEF BufferInv
<1> QED
  BY <1>8, <1>9

\* Compacting keeps the invariant.
LEMMA CompactKeeps ==
  ASSUME BufferInv, Compact
  PROVE  BufferInv'
<1>1. /\ records \in Seq(Record) /\ head \in 0..Len(records) /\ Len(records) <= CAPACITY
      /\ head' = 0 /\ next_seq' = next_seq /\ delivered' = delivered
      /\ records' = SubSeq(records, head + 1, Len(records))
  BY DEF BufferInv, BufferTypeOK, Compact
<1>2. /\ records' \in Seq(Record) /\ Len(records') = Len(records) - head
      /\ \A i \in 1..Len(records) - head : records'[i] = records[head + i] /\ head + i \in DOMAIN records
  BY <1>1
<1>3. DOMAIN records' = 1..Len(records) - head
  BY <1>2
<1>4. BufferTypeOK'
  BY <1>1, <1>2, BufferAssumption DEF BufferInv, BufferTypeOK
<1>5. Numbered'
  <2>1. \A i \in DOMAIN records' : i \in Nat /\ head + i \in DOMAIN records
                                  /\ records'[i] = records[head + i]
    BY <1>1, <1>2, <1>3
  <2>2. head \in Nat
    BY <1>1
  <2>3. \A i \in DOMAIN records' : records'[i].sequence < next_seq'
    BY <1>1, <2>1 DEF BufferInv, Numbered
  <2>4. \A i, j \in DOMAIN records' : i < j => head + i < head + j
    BY <2>1, <2>2
  <2>5. \A i, j \in DOMAIN records' : i < j => records'[i].sequence < records'[j].sequence
    BY <2>1, <2>4 DEF BufferInv, Numbered
  <2> QED
    BY <2>3, <2>5 DEF Numbered
<1>6. ReadFirst'
  <2>1. \A i \in DOMAIN records' : i \in Nat /\ i # 0 /\ head + i \in DOMAIN records
                                  /\ records'[i] = records[head + i]
    BY <1>1, <1>2, <1>3
  <2>2. head \in Nat /\ head' = 0
    BY <1>1
  <2>3. \A i \in DOMAIN records' : ~(i <= head')
    BY <2>1, <2>2
  <2>4. \A i, j \in DOMAIN records' : i < j => head + i < head + j
    BY <2>1, <2>2
  <2>5. \A i, j \in DOMAIN records :
          i < j /\ records[j].payload = Empty => records[i].payload = Empty
    BY DEF BufferInv, ReadFirst
  <2>6. \A i, j \in DOMAIN records' :
          i < j /\ records'[j].payload = Empty => records'[i].payload = Empty
    BY <2>1, <2>4, <2>5
  <2> QED
    BY <2>3, <2>6 DEF ReadFirst
<1>7. DeliveredOld'
  BY <1>1, <1>2, <1>3 DEF BufferInv, DeliveredOld
<1>8. DeliveredOnceInOrder'
  BY <1>1 DEF BufferInv, DeliveredOnceInOrder
<1> QED
  BY <1>4, <1>5, <1>6, <1>7, <1>8 DEF BufferInv

-----------------------------------------------------------------------------
\* The invariant holds from the start and every step keeps it.
THEOREM BufferInvariant == BufferSpec => []BufferInv
<1>1. BufferInit => BufferInv
  BY BufferAssumption
  DEF BufferInit, BufferInv, BufferTypeOK, Numbered, ReadFirst, DeliveredOld, DeliveredOnceInOrder
<1>2. BufferInv /\ [BufferNext]_bufferVars => BufferInv'
  <2> SUFFICES ASSUME BufferInv, [BufferNext]_bufferVars PROVE BufferInv'
    OBVIOUS
  <2>1. CASE \E payload \in Payloads : Push(payload)
    BY <2>1, PushKeeps
  <2>2. CASE Pop
    BY <2>2, PopKeeps
  <2>3. CASE Compact
    BY <2>3, CompactKeeps
  <2>4. CASE UNCHANGED bufferVars
    BY <2>4 DEF bufferVars, BufferInv, BufferTypeOK, Numbered, ReadFirst, DeliveredOld,
                DeliveredOnceInOrder
  <2> QED
    BY <2>1, <2>2, <2>3, <2>4 DEF BufferNext
<1> QED
  BY <1>1, <1>2, PTL DEF BufferSpec

\* The buffer keeps its types and its capacity (record_buffer.cpp:7-51).
THEOREM BufferTypeCorrect == BufferSpec => []BufferTypeOK
<1>1. BufferInv => BufferTypeOK
  BY DEF BufferInv
<1> QED
  BY <1>1, BufferInvariant, PTL

\* No payload is given out twice and none after a younger one (record_buffer.cpp:18-38).
THEOREM DeliveryInOrder == BufferSpec => []DeliveredOnceInOrder
<1>1. BufferInv => DeliveredOnceInOrder
  BY DEF BufferInv
<1> QED
  BY <1>1, BufferInvariant, PTL

-----------------------------------------------------------------------------
(* The rate limiter: a key never admits more than its number of events in one *)
(* window.                                                                    *)

\* What leaves the front of a deque is older than the cutoff.
LEMMA ExpiredFound ==
  ASSUME NEW stamps \in Seq(Nat), NEW cutoff \in Nat
  PROVE  /\ Expired(stamps, cutoff) \in 0..Len(stamps)
         /\ \A i \in 1..Expired(stamps, cutoff) : stamps[i] < cutoff
<1> DEFINE stays == {i \in DOMAIN stamps : stamps[i] >= cutoff}
<1> DEFINE P(n) == /\ \A i \in 1..n : stamps[i] < cutoff
                   /\ n < Len(stamps) => stamps[n + 1] >= cutoff
<1>1. \E n \in 0..Len(stamps) : P(n)
  <2>1. CASE stays = {}
    <3>1. \A i \in 1..Len(stamps) : stamps[i] < cutoff
      BY <2>1
    <3> QED
      BY <3>1
  <2>2. CASE stays # {}
    <3>1. stays \subseteq Nat
      OBVIOUS
    <3>2. PICK x \in stays : \A y \in stays : x <= y
      BY <2>2, <3>1, LeastNatural
    <3>3. x \in 1..Len(stamps) /\ stamps[x] >= cutoff
      OBVIOUS
    <3>4. \A i \in 1..x - 1 : stamps[i] < cutoff
      BY <3>2, <3>3
    <3>5. P(x - 1) /\ x - 1 \in 0..Len(stamps)
      BY <3>3, <3>4
    <3> QED
      BY <3>5
  <2> QED
    BY <2>1, <2>2
<1> HIDE DEF P
<1>2. Expired(stamps, cutoff) \in 0..Len(stamps) /\ P(Expired(stamps, cutoff))
  <2>1. Expired(stamps, cutoff) = CHOOSE n \in 0..Len(stamps) : P(n)
    BY DEF Expired, P
  <2> QED
    BY <1>1, <2>1
<1> QED
  BY <1>2 DEF P

-----------------------------------------------------------------------------
(* One key *)

\* The deque ends with what was admitted after the first d events, which are older than the window
\* was at some time; stamps of an earlier configuration may stand in front.
Follows(stamps, adm, window, now, d) ==
  /\ d \in 0..Len(adm)
  /\ Len(adm) - d <= Len(stamps)
  /\ \A i \in d + 1..Len(adm) : stamps[Len(stamps) - (Len(adm) - i)] = adm[i]
  /\ \A i \in 1..d : adm[i] + window < now

Honoured(adm, most, window) ==
  \A j \in most + 1..Len(adm) : adm[j - most] + window < adm[j]

\* What is left of a deque at a time, and what is known of the stamps that left it.
LEMMA FreshFollows ==
  ASSUME NEW stamps \in Seq(Nat), NEW adm \in Seq(Nat), NEW window \in Nat, NEW now \in Nat,
         NEW time \in Nat, now <= time, NEW d, Follows(stamps, adm, window, now, d),
         NEW cutoff \in Nat, cutoff = IF time > window THEN time - window ELSE 0
  PROVE  \E e \in 0..Len(adm) :
           /\ Follows(Fresh(stamps, cutoff), adm, window, time, e)
           /\ Len(adm) - e <= Len(Fresh(stamps, cutoff))
           /\ \A i \in 1..Len(adm) : Len(adm) - i >= Len(Fresh(stamps, cutoff)) => i <= e
<1> DEFINE gone == Expired(stamps, cutoff)
<1> DEFINE left == Len(stamps) - gone
<1> DEFINE fresh == Fresh(stamps, cutoff)
<1> DEFINE e == IF Len(adm) - d <= left THEN d ELSE Len(adm) - left
<1>1. gone \in 0..Len(stamps) /\ \A i \in 1..gone : stamps[i] < cutoff
  BY ExpiredFound
<1>2. Len(stamps) \in Nat /\ Len(adm) \in Nat /\ d \in 0..Len(adm) /\ Len(adm) - d <= Len(stamps)
  BY DEF Follows
<1> HIDE DEF gone
<1>3. left \in Nat /\ left <= Len(stamps)
  BY <1>1, <1>2
<1>4. fresh = SubSeq(stamps, gone + 1, Len(stamps))
  BY DEF Fresh, gone
<1>5. fresh \in Seq(Nat) /\ Len(fresh) = left /\ \A i \in 1..left : fresh[i] = stamps[gone + i]
  <2>1. gone + 1 \in Int /\ Len(stamps) \in Int /\ \A i \in gone + 1..Len(stamps) : stamps[i] \in Nat
    BY <1>1, <1>2
  <2>2. /\ SubSeq(stamps, gone + 1, Len(stamps)) \in Seq(Nat)
        /\ Len(SubSeq(stamps, gone + 1, Len(stamps))) =
             IF gone + 1 <= Len(stamps) THEN Len(stamps) - (gone + 1) + 1 ELSE 0
        /\ \A i \in 1..Len(stamps) - (gone + 1) + 1 :
             SubSeq(stamps, gone + 1, Len(stamps))[i] = stamps[(gone + 1) + i - 1]
    BY <2>1, SubSeqProperties
  <2> HIDE DEF fresh
  <2>3. fresh \in Seq(Nat) /\ Len(fresh) = left
    BY <1>1, <1>2, <1>4, <2>2
  <2>4. \A i \in 1..left : fresh[i] = stamps[gone + i]
    <3> SUFFICES ASSUME NEW i \in 1..left PROVE fresh[i] = stamps[gone + i]
      OBVIOUS
    <3>1. (gone + 1) + i - 1 = gone + i /\ i \in 1..Len(stamps) - (gone + 1) + 1
      BY <1>1, <1>2
    <3> QED
      BY <1>4, <2>2, <3>1
  <2> QED
    BY <2>3, <2>4
<1>6. e \in 0..Len(adm) /\ d <= e /\ Len(adm) - e <= left
  BY <1>2, <1>3
<1>7. \A i \in e + 1..Len(adm) : fresh[Len(fresh) - (Len(adm) - i)] = adm[i]
  <2> SUFFICES ASSUME NEW i \in e + 1..Len(adm) PROVE fresh[Len(fresh) - (Len(adm) - i)] = adm[i]
    OBVIOUS
  <2> HIDE DEF e, left
  <2>0. i \in Int /\ e + 1 <= i /\ i <= Len(adm)
    BY <1>2, <1>6
  <2>1. i \in d + 1..Len(adm) /\ left - (Len(adm) - i) \in 1..left
    BY <1>2, <1>3, <1>6, <2>0
  <2> USE DEF left
  <2>2. fresh[left - (Len(adm) - i)] = stamps[gone + (left - (Len(adm) - i))]
    BY <1>5, <2>1
  <2>3. gone + (left - (Len(adm) - i)) = Len(stamps) - (Len(adm) - i)
    BY <1>1, <1>2, <2>1
  <2>4. stamps[Len(stamps) - (Len(adm) - i)] = adm[i]
    BY <2>1 DEF Follows
  <2> QED
    BY <1>5, <2>2, <2>3, <2>4
<1>8. \A i \in 1..e : adm[i] + window < time
  <2> SUFFICES ASSUME NEW i \in 1..e PROVE adm[i] + window < time
    OBVIOUS
  <2>0. e \in 0..Len(adm)
    BY <1>2, <1>6
  <2> HIDE DEF e
  <2>1. i \in 1..Len(adm) /\ adm[i] \in Nat
    BY <2>0
  <2> USE DEF e
  <2>2. CASE i <= d
    <3>1. adm[i] + window < now
      BY <1>2, <2>1, <2>2 DEF Follows
    <3> QED
      BY <2>1, <3>1
  <2>3. CASE ~(i <= d)
    <3>1. e = Len(adm) - left /\ i \in d + 1..Len(adm)
      BY <1>2, <1>6, <2>1, <2>3
    <3>2. Len(stamps) - (Len(adm) - i) \in 1..gone
      BY <1>1, <1>2, <1>3, <2>1, <2>3, <3>1
    <3>3. stamps[Len(stamps) - (Len(adm) - i)] = adm[i]
      BY <3>1 DEF Follows
    <3>4. adm[i] < cutoff
      BY <1>1, <3>2, <3>3
    <3> QED
      BY <2>1, <3>4
  <2> QED
    BY <2>2, <2>3
<1>9. \A i \in 1..Len(adm) : Len(adm) - i >= left => i <= e
  BY <1>2, <1>3
<1>10. Follows(fresh, adm, window, time, e)
  <2> HIDE DEF fresh, e, left
  <2> QED
    BY <1>5, <1>6, <1>7, <1>8 DEF Follows
<1> QED
  BY <1>5, <1>6, <1>9, <1>10

\* Admitting one more event keeps the promise of the window.
LEMMA AdmitHonours ==
  ASSUME NEW fresh \in Seq(Nat), NEW adm \in Seq(Nat), NEW window \in Nat, NEW most \in Nat,
         NEW time \in Nat, Honoured(adm, most, window), NEW e \in 0..Len(adm),
         Follows(fresh, adm, window, time, e), Len(fresh) < most,
         \A i \in 1..Len(adm) : Len(adm) - i >= Len(fresh) => i <= e
  PROVE  /\ Honoured(Append(adm, time), most, window)
         /\ Follows(Append(fresh, time), Append(adm, time), window, time, e)
<1> DEFINE grown == Append(adm, time)
<1> DEFINE stamps == Append(fresh, time)
<1>1. /\ Len(grown) = Len(adm) + 1 /\ grown[Len(adm) + 1] = time /\ Len(adm) \in Nat
      /\ \A i \in 1..Len(adm) : grown[i] = adm[i]
  OBVIOUS
<1>2. /\ Len(stamps) = Len(fresh) + 1 /\ stamps[Len(fresh) + 1] = time /\ Len(fresh) \in Nat
      /\ \A i \in 1..Len(fresh) : stamps[i] = fresh[i]
  OBVIOUS
<1> HIDE DEF grown, stamps
<1>3. \A i \in 1..e : adm[i] + window < time
  BY DEF Follows
<1>4. ASSUME NEW j \in most + 1..Len(grown) PROVE grown[j - most] + window < grown[j]
  <2>1. CASE j \in 1..Len(adm)
    <3>1. j \in most + 1..Len(adm) /\ j - most \in 1..Len(adm)
      BY <1>1, <2>1
    <3> QED
      BY <1>1, <2>1, <3>1 DEF Honoured
  <2>2. CASE j = Len(adm) + 1
    <3>1. j - most \in 1..Len(adm) /\ Len(adm) - (j - most) >= Len(fresh)
      BY <1>1, <1>2, <2>2
    <3> DEFINE i == j - most
    <3> HIDE DEF i
    <3>3. i \in 1..Len(adm) /\ Len(adm) - i >= Len(fresh)
      BY <3>1 DEF i
    <3>4. i \in 1..e
      BY <3>3
    <3>2. j - most \in 1..e
      BY <3>4 DEF i
    <3> QED
      BY <1>1, <1>3, <2>2, <3>1, <3>2
  <2>3. j \in 1..Len(adm) \/ j = Len(adm) + 1
    <3> DEFINE n == Len(adm)
    <3>1. j \in Int /\ most + 1 <= j /\ j <= n + 1 /\ n \in Nat
      BY <1>1
    <3> HIDE DEF n
    <3>2. 1 <= j
      BY <3>1
    <3>3. CASE j <= n
      <4>1. j \in 1..n
        BY <3>1, <3>2, <3>3
      <4> QED
        BY <4>1 DEF n
    <3>4. CASE j > n
      <4>1. j = n + 1
        BY <3>1, <3>4
      <4> QED
        BY <4>1 DEF n
    <3> QED
      BY <3>1, <3>3, <3>4
  <2> QED
    BY <2>1, <2>2, <2>3
<1>5. \A i \in e + 1..Len(grown) : stamps[Len(stamps) - (Len(grown) - i)] = grown[i]
  <2> SUFFICES ASSUME NEW i \in e + 1..Len(grown)
               PROVE  stamps[Len(stamps) - (Len(grown) - i)] = grown[i]
    OBVIOUS
  <2>1. CASE i = Len(adm) + 1
    BY <1>1, <1>2, <2>1
  <2>2. CASE i \in e + 1..Len(adm)
    <3>1. Len(adm) - e <= Len(fresh) /\ fresh[Len(fresh) - (Len(adm) - i)] = adm[i]
      BY <2>2 DEF Follows
    <3>2. Len(stamps) - (Len(grown) - i) = Len(fresh) - (Len(adm) - i)
      BY <1>1, <1>2, <2>2
    <3>3. Len(fresh) - (Len(adm) - i) \in 1..Len(fresh)
      BY <1>1, <1>2, <2>2, <3>1
    <3>4. i \in 1..Len(adm)
      BY <2>2
    <3>5. stamps[Len(fresh) - (Len(adm) - i)] = fresh[Len(fresh) - (Len(adm) - i)]
      BY <1>2, <3>3
    <3>6. grown[i] = adm[i]
      BY <1>1, <3>4
    <3> QED
      BY <3>1, <3>2, <3>5, <3>6
  <2>3. i \in e + 1..Len(adm) \/ i = Len(adm) + 1
    BY <1>1
  <2> QED
    BY <2>1, <2>2, <2>3
<1>6. Len(grown) - e <= Len(stamps) /\ e \in 0..Len(grown)
  <2>1. Len(adm) - e <= Len(fresh)
    BY DEF Follows
  <2> QED
    BY <1>1, <1>2, <2>1
<1>7. \A i \in 1..e : grown[i] + window < time
  <2>1. \A i \in 1..e : i \in 1..Len(adm)
    BY <1>1
  <2> QED
    BY <1>1, <1>3, <2>1
<1>8. Follows(stamps, grown, window, time, e)
  BY <1>5, <1>6, <1>7 DEF Follows
<1>9. Honoured(grown, most, window)
  BY <1>4 DEF Honoured
<1> QED
  BY <1>8, <1>9 DEF grown, stamps

-----------------------------------------------------------------------------
(* All keys *)

Steadily(k) ==
  /\ Honoured(admitted[k], configs[k].max_events, configs[k].window)
  /\ \E d \in 0..Len(admitted[k]) :
       Follows(timestamps[k], admitted[k], configs[k].window, clock[k], d)

\* Strengthening: while the clock of a key does not step back, its deque follows what it admitted.
LimitInv == LimitTypeOK /\ \A k \in DOMAIN configs : steady[k] => Steadily(k)

\* The configuration of a key, and its histories, have the types of natural numbers.
LEMMA KeyTypes ==
  ASSUME LimitTypeOK, NEW k \in DOMAIN configs
  PROVE  /\ k \in LimitKeys /\ configs[k] \in LimitConfigs
         /\ configs[k].max_events \in Nat /\ configs[k].window \in Nat
         /\ timestamps[k] \in Seq(Nat) /\ admitted[k] \in Seq(Nat) /\ clock[k] \in Nat
<1>1. k \in LimitKeys /\ configs[k] \in LimitConfigs /\ LimitTimes \subseteq Nat
  BY LimitAssumption DEF LimitTypeOK
<1>2. configs[k].max_events \in Nat /\ configs[k].window \in Nat
  <2>1. configs[k] \in [id: LimitKeys, max_events: Nat, window: Nat]
    BY <1>1, LimitAssumption
  <2> QED
    BY <2>1
<1>3. timestamps[k] \in Seq(LimitTimes) /\ admitted[k] \in Seq(LimitTimes) /\ clock[k] \in Nat
  <2>1. timestamps \in [LimitKeys -> Seq(LimitTimes)] /\ admitted \in [LimitKeys -> Seq(LimitTimes)]
        /\ clock \in [LimitKeys -> LimitTimes \cup {0}]
    BY DEF LimitTypeOK
  <2>2. timestamps[k] \in Seq(LimitTimes) /\ admitted[k] \in Seq(LimitTimes)
    BY <1>1, <2>1, Zenon
  <2>3. clock[k] \in LimitTimes \cup {0}
    BY <1>1, <2>1, Zenon
  <2>4. clock[k] \in Nat
    <3>1. 0 \in Nat
      OBVIOUS
    <3>2. LimitTimes \cup {0} \subseteq Nat
      BY <1>1, <3>1, Zenon
    <3> QED
      BY <2>3, <3>2, Zenon
  <2> QED
    BY <2>2, <2>4, Zenon
<1>4. timestamps[k] \in Seq(Nat) /\ admitted[k] \in Seq(Nat)
  BY <1>1, <1>3, SeqMonotonic
<1> QED
  BY <1>1, <1>2, <1>3, <1>4

\* A history that starts over honours every window, whatever the deque holds.
LEMMA NothingAdmitted ==
  ASSUME NEW stamps \in Seq(Nat), NEW most \in Nat, NEW window
  PROVE  /\ Honoured(<<>>, most, window)
         /\ Follows(stamps, <<>>, window, 0, 0)
<1>1. Len(<<>>) = 0 /\ Len(stamps) \in Nat
  OBVIOUS
<1> QED
  BY <1>1 DEF Honoured, Follows

\* Configuring keys keeps the invariant.
LEMMA ConfigureKeeps ==
  ASSUME LimitInv, NEW recs \in Seq(LimitConfigs), ConfigureEach(recs)
  PROVE  LimitInv'
<1>1. LimitTypeOK
  BY DEF LimitInv
<1>2. IdsOf(recs) \subseteq LimitKeys
  BY LimitAssumption DEF IdsOf
<1>3. /\ configs' = PutAll(configs, recs) /\ timestamps' = timestamps
      /\ admitted' = [k \in LimitKeys |-> IF k \in IdsOf(recs) THEN <<>> ELSE admitted[k]]
      /\ clock' = [k \in LimitKeys |-> IF k \in IdsOf(recs) THEN 0 ELSE clock[k]]
      /\ steady' = [k \in LimitKeys |-> IF k \in IdsOf(recs) THEN TRUE ELSE steady[k]]
  BY DEF ConfigureEach, StartOver
<1>4. DOMAIN configs' = DOMAIN configs \cup IdsOf(recs)
  BY <1>3 DEF PutAll
<1>5. \A k \in IdsOf(recs) : configs'[k] \in LimitConfigs
  BY <1>3, LastOfFound DEF PutAll
<1>6. \A k \in DOMAIN configs : k \notin IdsOf(recs) => configs'[k] = configs[k]
  BY <1>3 DEF PutAll
<1>7. LimitTypeOK'
  <2>1. DOMAIN configs' \subseteq LimitKeys /\ \A k \in DOMAIN configs' : configs'[k] \in LimitConfigs
    BY <1>1, <1>2, <1>4, <1>5, <1>6 DEF LimitTypeOK
  <2>2. timestamps' \in [LimitKeys -> Seq(LimitTimes)]
    BY <1>1, <1>3 DEF LimitTypeOK
  <2>3. admitted' \in [LimitKeys -> Seq(LimitTimes)]
    <3>1. <<>> \in Seq(LimitTimes) /\ \A k \in LimitKeys : admitted[k] \in Seq(LimitTimes)
      BY <1>1, EmptySeq DEF LimitTypeOK
    <3> QED
      BY <1>3, <3>1
  <2>4. clock' \in [LimitKeys -> LimitTimes \cup {0}]
    <3>1. \A k \in LimitKeys : clock[k] \in LimitTimes \cup {0}
      BY <1>1 DEF LimitTypeOK
    <3> QED
      BY <1>3, <3>1
  <2>5. steady' \in [LimitKeys -> BOOLEAN]
    <3>1. \A k \in LimitKeys : (IF k \in IdsOf(recs) THEN TRUE ELSE steady[k]) \in BOOLEAN
      BY <1>1, Zenon DEF LimitTypeOK
    <3> QED
      BY <1>3, <3>1
  <2> QED
    BY <2>1, <2>2, <2>3, <2>4, <2>5 DEF LimitTypeOK
<1>8. ASSUME NEW k \in DOMAIN configs', steady'[k] PROVE Steadily(k)'
  <2>0. k \in LimitKeys
    BY <1>7 DEF LimitTypeOK
  <2>1. CASE k \in IdsOf(recs)
    <3>1. admitted'[k] = <<>> /\ clock'[k] = 0 /\ timestamps'[k] = timestamps[k]
      BY <1>3, <2>0, <2>1
    <3>2. configs'[k] \in LimitConfigs /\ configs'[k].max_events \in Nat
      BY <1>5, <2>1, LimitAssumption
    <3>3. timestamps[k] \in Seq(Nat)
      BY <1>1, <2>0, LimitAssumption, SeqMonotonic DEF LimitTypeOK
    <3>4. /\ Honoured(<<>>, configs'[k].max_events, configs'[k].window)
          /\ Follows(timestamps[k], <<>>, configs'[k].window, 0, 0)
      BY <3>2, <3>3, NothingAdmitted
    <3>5. 0 \in 0..Len(<<>>)
      OBVIOUS
    <3> QED
      BY <3>1, <3>4, <3>5 DEF Steadily
  <2>2. CASE k \notin IdsOf(recs)
    <3>1. /\ admitted'[k] = admitted[k] /\ clock'[k] = clock[k] /\ timestamps'[k] = timestamps[k]
          /\ steady'[k] = steady[k]
      BY <1>3, <2>0, <2>2
    <3>2. k \in DOMAIN configs /\ configs'[k] = configs[k]
      BY <1>4, <1>6, <2>2
    <3>3. Steadily(k)
      BY <1>8, <3>1, <3>2 DEF LimitInv
    <3> QED
      BY <3>1, <3>2, <3>3 DEF Steadily
  <2> QED
    BY <2>1, <2>2
<1> QED
  BY <1>7, <1>8 DEF LimitInv

\* Resetting a key keeps the invariant.
LEMMA ResetKeeps ==
  ASSUME LimitInv, NEW key \in LimitKeys, ResetKey(key)
  PROVE  LimitInv'
<1>1. LimitTypeOK
  BY DEF LimitInv
<1>2. /\ configs' = configs /\ timestamps' = [timestamps EXCEPT ![key] = <<>>]
      /\ admitted' = [k \in LimitKeys |-> IF k \in {key} THEN <<>> ELSE admitted[k]]
      /\ clock' = [k \in LimitKeys |-> IF k \in {key} THEN 0 ELSE clock[k]]
      /\ steady' = [k \in LimitKeys |-> IF k \in {key} THEN TRUE ELSE steady[k]]
  BY DEF ResetKey, StartOver
<1>3. LimitTypeOK'
  <2>1. <<>> \in Seq(LimitTimes) /\ \A k \in LimitKeys : admitted[k] \in Seq(LimitTimes)
    BY <1>1, EmptySeq DEF LimitTypeOK
  <2>2. timestamps' \in [LimitKeys -> Seq(LimitTimes)] /\ admitted' \in [LimitKeys -> Seq(LimitTimes)]
    BY <1>1, <1>2, <2>1 DEF LimitTypeOK
  <2>3. clock' \in [LimitKeys -> LimitTimes \cup {0}]
    BY <1>1, <1>2 DEF LimitTypeOK
  <2>4. steady' \in [LimitKeys -> BOOLEAN]
    <3>1. \A k \in LimitKeys : (IF k \in {key} THEN TRUE ELSE steady[k]) \in BOOLEAN
      BY <1>1, Zenon DEF LimitTypeOK
    <3> QED
      BY <1>2, <3>1
  <2>5. DOMAIN configs' \subseteq LimitKeys /\ \A k \in DOMAIN configs' : configs'[k] \in LimitConfigs
    BY <1>1, <1>2 DEF LimitTypeOK
  <2> QED
    BY <2>2, <2>3, <2>4, <2>5 DEF LimitTypeOK
<1>4. ASSUME NEW k \in DOMAIN configs', steady'[k] PROVE Steadily(k)'
  <2>0. k \in DOMAIN configs /\ k \in LimitKeys /\ configs'[k] = configs[k]
    BY <1>1, <1>2 DEF LimitTypeOK
  <2>1. CASE k = key
    <3>1. admitted'[k] = <<>> /\ clock'[k] = 0 /\ timestamps'[k] = <<>>
      BY <1>1, <1>2, <2>0, <2>1 DEF LimitTypeOK
    <3>2. configs[k].max_events \in Nat
      BY <1>1, <2>0, KeyTypes
    <3>3. <<>> \in Seq(Nat)
      BY EmptySeq
    <3>4. /\ Honoured(<<>>, configs[k].max_events, configs[k].window)
          /\ Follows(<<>>, <<>>, configs[k].window, 0, 0)
      BY <3>2, <3>3, NothingAdmitted
    <3>5. 0 \in 0..Len(<<>>)
      OBVIOUS
    <3> QED
      BY <2>0, <3>1, <3>4, <3>5 DEF Steadily
  <2>2. CASE k # key
    <3>1. /\ admitted'[k] = admitted[k] /\ clock'[k] = clock[k] /\ timestamps'[k] = timestamps[k]
          /\ steady'[k] = steady[k]
      BY <1>1, <1>2, <2>0, <2>2 DEF LimitTypeOK
    <3>2. Steadily(k)
      BY <1>4, <2>0, <3>1 DEF LimitInv
    <3> QED
      BY <2>0, <3>1, <3>2 DEF Steadily
  <2> QED
    BY <2>1, <2>2
<1> QED
  BY <1>3, <1>4 DEF LimitInv

\* A call of allow keeps the invariant.
LEMMA AllowKeeps ==
  ASSUME LimitInv, NEW key \in LimitKeys, NEW time \in LimitTimes, Allow(key, time)
  PROVE  LimitInv'
<1> DEFINE cutoff == Cutoff(key, time)
<1> DEFINE fresh == Fresh(timestamps[key], cutoff)
<1> DEFINE most == configs[key].max_events
<1> DEFINE window == configs[key].window
<1>1. LimitTypeOK /\ key \in DOMAIN configs /\ time \in Nat /\ LimitTimes \subseteq Nat
  BY LimitAssumption DEF LimitInv, Allow
<1>2. /\ configs' = configs
      /\ clock' = [clock EXCEPT ![key] = time]
      /\ steady' = [steady EXCEPT ![key] = steady[key] /\ clock[key] <= time]
  BY DEF Allow
<1>3. \/ /\ timestamps' = [timestamps EXCEPT ![key] = fresh]
         /\ admitted' = admitted
      \/ /\ Len(fresh) < most
         /\ timestamps' = [timestamps EXCEPT ![key] = Append(fresh, time)]
         /\ admitted' = [admitted EXCEPT ![key] = Append(admitted[key], time)]
  BY DEF Allow
<1>4. /\ most \in Nat /\ window \in Nat /\ timestamps[key] \in Seq(Nat)
      /\ admitted[key] \in Seq(Nat) /\ clock[key] \in Nat
  BY <1>1, KeyTypes
<1>5. cutoff \in Nat /\ cutoff = IF time > window THEN time - window ELSE 0
  BY <1>1, <1>4 DEF Cutoff
<1>6. timestamps[key] \in Seq(LimitTimes) /\ admitted[key] \in Seq(LimitTimes)
  BY <1>1 DEF LimitTypeOK
<1> HIDE DEF cutoff, most, window
<1>7. fresh \in Seq(LimitTimes)
  <2> DEFINE gone == Expired(timestamps[key], cutoff)
  <2> HIDE DEF gone
  <2>1. gone \in 0..Len(timestamps[key])
    BY <1>4, <1>5, ExpiredFound DEF gone
  <2>2. /\ gone + 1 \in Int /\ Len(timestamps[key]) \in Int
        /\ \A i \in gone + 1..Len(timestamps[key]) : timestamps[key][i] \in LimitTimes
    BY <1>6, <2>1
  <2>3. SubSeq(timestamps[key], gone + 1, Len(timestamps[key])) \in Seq(LimitTimes)
    BY <2>2, SubSeqProperties
  <2> QED
    BY <2>3 DEF Fresh, gone
<1> HIDE DEF fresh
<1>8. LimitTypeOK'
  <2>1. timestamps' \in [LimitKeys -> Seq(LimitTimes)] /\ admitted' \in [LimitKeys -> Seq(LimitTimes)]
    <3>1. Append(fresh, time) \in Seq(LimitTimes) /\ Append(admitted[key], time) \in Seq(LimitTimes)
      BY <1>6, <1>7
    <3> QED
      BY <1>1, <1>3, <1>7, <3>1 DEF LimitTypeOK
  <2>2. clock' \in [LimitKeys -> LimitTimes \cup {0}]
    BY <1>1, <1>2 DEF LimitTypeOK
  <2>3. steady' \in [LimitKeys -> BOOLEAN]
    <3> DEFINE still == steady[key] /\ clock[key] <= time
    <3>1. still \in BOOLEAN
      OBVIOUS
    <3> HIDE DEF still
    <3>2. steady' = [steady EXCEPT ![key] = still]
      BY <1>2 DEF still
    <3> QED
      BY <1>1, <3>1, <3>2 DEF LimitTypeOK
  <2>4. DOMAIN configs' \subseteq LimitKeys /\ \A k \in DOMAIN configs' : configs'[k] \in LimitConfigs
    BY <1>1, <1>2 DEF LimitTypeOK
  <2> QED
    BY <2>1, <2>2, <2>3, <2>4 DEF LimitTypeOK
<1>9. ASSUME steady'[key] PROVE Steadily(key)'
  <2>1. steady[key] /\ clock[key] <= time /\ clock'[key] = time /\ configs'[key] = configs[key]
    BY <1>1, <1>2, <1>9 DEF LimitTypeOK
  <2>2. Honoured(admitted[key], most, window)
    BY <1>1, <2>1 DEF LimitInv, Steadily, most, window
  <2>3. PICK d \in 0..Len(admitted[key]) :
          Follows(timestamps[key], admitted[key], window, clock[key], d)
    BY <1>1, <2>1 DEF LimitInv, Steadily, window
  <2>4. PICK e \in 0..Len(admitted[key]) :
           /\ Follows(fresh, admitted[key], window, time, e)
           /\ Len(admitted[key]) - e <= Len(fresh)
           /\ \A i \in 1..Len(admitted[key]) : Len(admitted[key]) - i >= Len(fresh) => i <= e
    BY <1>1, <1>4, <1>5, <2>1, <2>3, FreshFollows DEF fresh
  <2>5. CASE timestamps' = [timestamps EXCEPT ![key] = fresh] /\ admitted' = admitted
    <3>1. timestamps'[key] = fresh /\ admitted'[key] = admitted[key]
      BY <1>1, <2>5 DEF LimitTypeOK
    <3> QED
      BY <2>1, <2>2, <2>4, <3>1 DEF Steadily, most, window
  <2>6. CASE /\ Len(fresh) < most
             /\ timestamps' = [timestamps EXCEPT ![key] = Append(fresh, time)]
             /\ admitted' = [admitted EXCEPT ![key] = Append(admitted[key], time)]
    <3>1. timestamps'[key] = Append(fresh, time) /\ admitted'[key] = Append(admitted[key], time)
      BY <1>1, <2>6 DEF LimitTypeOK
    <3>2. fresh \in Seq(Nat)
      BY <1>1, <1>7, SeqMonotonic
    <3>3. /\ Honoured(Append(admitted[key], time), most, window)
          /\ Follows(Append(fresh, time), Append(admitted[key], time), window, time, e)
      BY <1>1, <1>4, <2>2, <2>4, <2>6, <3>2, AdmitHonours
    <3>4. e \in 0..Len(Append(admitted[key], time))
      BY <1>4
    <3> QED
      BY <2>1, <3>1, <3>3, <3>4 DEF Steadily, most, window
  <2> QED
    BY <1>3, <2>5, <2>6
<1>10. ASSUME NEW k \in DOMAIN configs', steady'[k] PROVE Steadily(k)'
  <2>1. CASE k = key
    BY <1>9, <1>10, <2>1
  <2>2. CASE k # key
    <3>1. k \in DOMAIN configs /\ k \in LimitKeys /\ configs'[k] = configs[k]
      BY <1>1, <1>2 DEF LimitTypeOK
    <3>2. /\ admitted'[k] = admitted[k] /\ clock'[k] = clock[k] /\ timestamps'[k] = timestamps[k]
          /\ steady'[k] = steady[k]
      BY <1>1, <1>2, <1>3, <2>2, <3>1 DEF LimitTypeOK
    <3>3. Steadily(k)
      BY <1>10, <3>1, <3>2 DEF LimitInv
    <3> QED
      BY <3>1, <3>2, <3>3 DEF Steadily
  <2> QED
    BY <2>1, <2>2
<1> QED
  BY <1>8, <1>10 DEF LimitInv

-----------------------------------------------------------------------------
\* The invariant holds from the start and every step keeps it.
THEOREM LimitInvariant == LimitSpec => []LimitInv
<1>1. LimitInit => LimitInv
  <2> SUFFICES ASSUME LimitInit PROVE LimitInv
    OBVIOUS
  <2>1. DOMAIN configs = {}
    BY DEF LimitInit
  <2>2. <<>> \in Seq(LimitTimes)
    BY EmptySeq
  <2>3. LimitTypeOK
    BY <2>1, <2>2 DEF LimitInit, LimitTypeOK
  <2> QED
    BY <2>1, <2>3 DEF LimitInv
<1>2. LimitInv /\ [LimitNext]_limitVars => LimitInv'
  <2> SUFFICES ASSUME LimitInv, [LimitNext]_limitVars PROVE LimitInv'
    OBVIOUS
  <2>1. CASE \E cfg \in LimitConfigs : Configure(cfg)
    <3>1. PICK cfg \in LimitConfigs : Configure(cfg)
      BY <2>1
    <3>2. <<cfg>> \in Seq(LimitConfigs) /\ ConfigureEach(<<cfg>>)
      BY <3>1 DEF Configure
    <3> QED
      BY <3>2, ConfigureKeeps
  <2>2. CASE \E s \in StreamsOf(LimitConfigs, 2) : LoadConfigBinary(s)
    <3>1. PICK s \in StreamsOf(LimitConfigs, 2) : LoadConfigBinary(s)
      BY <2>2
    <3>2. Taken(s, FALSE) \in Seq(LimitConfigs) /\ ConfigureEach(Taken(s, FALSE))
      BY <3>1, TakenRecords DEF LoadConfigBinary
    <3> QED
      BY <3>2, ConfigureKeeps
  <2>3. CASE \E k \in LimitKeys : ResetKey(k) \/ \E time \in LimitTimes : Allow(k, time)
    BY <2>3, ResetKeeps, AllowKeeps
  <2>4. CASE UNCHANGED limitVars
    BY <2>4 DEF limitVars, LimitInv, LimitTypeOK, Steadily
  <2> QED
    BY <2>1, <2>2, <2>3, <2>4 DEF LimitNext
<1> QED
  BY <1>1, <1>2, PTL DEF LimitSpec

\* The limiter keeps its types (rate_limiter.cpp:14-52).
THEOREM LimitTypeCorrect == LimitSpec => []LimitTypeOK
<1>1. LimitInv => LimitTypeOK
  BY DEF LimitInv
<1> QED
  BY <1>1, LimitInvariant, PTL

\* A key never admits more than max_events in one window (rate_limiter.cpp:35-47).
THEOREM WindowIsHonoured == LimitSpec => []WindowHonoured
<1>1. LimitInv => WindowHonoured
  BY DEF LimitInv, Steadily, Honoured, WindowHonoured
<1> QED
  BY <1>1, LimitInvariant, PTL

-----------------------------------------------------------------------------
(* The snapshot store: the latest snapshot is found unless pruning took it.   *)

StateInv == StateTypeOK /\ LatestLostOnlyByPruning

\* The records of a sequence that are saved: those without the id 0.
LEMMA SavedRecords ==
  ASSUME NEW recs \in Seq(Snapshot), NEW kept, kept = Kept(recs, {r \in ToSet(recs) : r.id # 0})
  PROVE  /\ kept \in Seq(Snapshot) /\ IdsOf(kept) \subseteq SnapshotIds \ {0}
         /\ \A i \in DOMAIN kept : kept[i].id \in SnapshotIds \ {0}
<1> DEFINE S == {r \in ToSet(recs) : r.id # 0}
<1>1. \A r \in S : r.id # 0
  OBVIOUS
<1> HIDE DEF S
<1>2. Kept(recs, S) \in Seq(Snapshot) /\ \E f : Places(Kept(recs, S), recs, Len(recs), S, f)
  BY KeptPlaces
<1>3. PICK f : Places(Kept(recs, S), recs, Len(recs), S, f)
  BY <1>2
<1>4. kept = Kept(recs, S)
  BY DEF S
<1>5. kept \in Seq(Snapshot) /\ DOMAIN kept = 1..Len(kept)
  BY <1>2, <1>4
<1>6. ASSUME NEW i \in DOMAIN kept PROVE kept[i].id \in SnapshotIds \ {0}
  <2>1. kept[i] \in S
    BY <1>3, <1>4, <1>5 DEF Places
  <2>2. kept[i] \in Snapshot
    BY <1>5
  <2> QED
    BY <1>1, <2>1, <2>2 DEF Snapshot
<1> QED
  BY <1>5, <1>6 DEF IdsOf

\* Saving keeps the largest id, and makes every id of the sequence present again.
LEMMA SavesKeep ==
  ASSUME StateInv, NEW recs \in Seq(Snapshot), SaveEach(recs)
  PROVE  StateInv'
<1> DEFINE kept == Kept(recs, {r \in ToSet(recs) : r.id # 0})
<1> DEFINE ids == IdsOf(kept)
<1> DEFINE all == {latest_id} \cup ids
<1>1. /\ snapshots' = PutAll(snapshots, kept)
      /\ latest_id' = Max(all)
      /\ pruned' = pruned \ ids
  BY DEF SaveEach
<1> HIDE DEF kept
<1>2. /\ kept \in Seq(Snapshot) /\ ids \subseteq SnapshotIds \ {0}
      /\ \A i \in DOMAIN kept : kept[i].id \in SnapshotIds \ {0}
  BY SavedRecords DEF kept
<1>3. latest_id \in Nat /\ SnapshotIds \subseteq Nat /\ Len(kept) \in Nat
  <2>1. latest_id \in Nat /\ SnapshotIds \subseteq Nat
    BY StateAssumption DEF StateInv, StateTypeOK
  <2>2. Len(kept) \in Nat
    BY <1>2
  <2> QED
    BY <2>1, <2>2
<1>4. latest_id' \in all /\ \A y \in all : latest_id' >= y
  <2> DEFINE f == [i \in 1..Len(kept) |-> kept[i].id]
  <2>1. DOMAIN kept = 1..Len(kept)
    BY <1>2
  <2>2. \A i \in 1..Len(kept) : f[i] \in Nat
    BY <1>2, <1>3, <2>1
  <2>3. all = {latest_id} \cup {f[i] : i \in 1..Len(kept)}
    BY <2>1 DEF IdsOf
  <2>4. latest_id' = Max(all)
    BY <1>1
  <2> DEFINE n == Len(kept)
  <2>5. n \in Nat /\ latest_id \in Nat
    BY <1>3
  <2> HIDE DEF f, all, n
  <2>6. Max(all) \in all /\ \A y \in all : Max(all) >= y
    <3>1. \A i \in 1..n : f[i] \in Nat
      BY <2>2 DEF n
    <3>2. all = {latest_id} \cup {f[i] : i \in 1..n}
      BY <2>3 DEF n
    <3>3. Gathers(all, latest_id, n, f)
      BY <2>5, <3>1, <3>2 DEF Gathers
    <3> QED
      BY <3>3, GreatestOf
  <2> QED
    BY <2>4, <2>6
<1>5. /\ DOMAIN snapshots' = DOMAIN snapshots \cup ids
      /\ \A i \in DOMAIN snapshots' :
            snapshots'[i] = IF i \in ids THEN LastOf(kept, i) ELSE snapshots[i]
  BY <1>1 DEF PutAll
<1>6. \A i \in ids : LastOf(kept, i) \in Snapshot
  BY <1>2, LastOfFound
<1> HIDE DEF ids
<1>7. StateTypeOK'
  <2>1. DOMAIN snapshots' \subseteq SnapshotIds \ {0}
    BY <1>2, <1>5 DEF StateInv, StateTypeOK
  <2>2. \A i \in DOMAIN snapshots' : snapshots'[i] \in Snapshot
    BY <1>5, <1>6 DEF StateInv, StateTypeOK
  <2>3. latest_id' \in SnapshotIds \cup {0}
    BY <1>2, <1>4 DEF StateInv, StateTypeOK
  <2>4. pruned' \subseteq SnapshotIds
    BY <1>1 DEF StateInv, StateTypeOK
  <2> QED
    BY <2>1, <2>2, <2>3, <2>4 DEF StateTypeOK
<1>8. \A i \in DOMAIN snapshots' : i <= latest_id'
  <2>1. ASSUME NEW i \in DOMAIN snapshots PROVE i <= latest_id'
    <3>1. i <= latest_id /\ i \in Nat
      BY <1>3 DEF StateInv, StateTypeOK, LatestLostOnlyByPruning
    <3>2. latest_id' >= latest_id /\ latest_id' \in Nat
      BY <1>2, <1>3, <1>4
    <3> QED
      BY <1>3, <3>1, <3>2
  <2>2. ASSUME NEW i \in ids PROVE i <= latest_id'
    BY <1>2, <1>3, <1>4
  <2> QED
    BY <1>5, <2>1, <2>2
<1>9. ASSUME GetLatest' = {} PROVE latest_id' = 0 \/ latest_id' \in pruned'
  <2>1. latest_id' \notin DOMAIN snapshots'
    BY <1>9 DEF GetLatest, GetSnapshot
  <2>2. latest_id' = latest_id /\ latest_id \notin ids /\ latest_id \notin DOMAIN snapshots
    BY <1>4, <1>5, <2>1
  <2>3. latest_id = 0 \/ latest_id \in pruned
    BY <2>2 DEF StateInv, LatestLostOnlyByPruning, GetLatest, GetSnapshot
  <2> QED
    BY <1>1, <2>2, <2>3
<1>10. pruned' \cap DOMAIN snapshots' = {}
  BY <1>1, <1>5 DEF StateInv, LatestLostOnlyByPruning
<1> QED
  BY <1>7, <1>8, <1>9, <1>10 DEF StateInv, LatestLostOnlyByPruning

\* Pruning takes old snapshots, and remembers no latest id that it did not take.
LEMMA PruneKeeps ==
  ASSUME StateInv, NEW time \in SnapshotTimes, PruneBefore(time)
  PROVE  StateInv'
<1> DEFINE old == {i \in DOMAIN snapshots : snapshots[i].timestamp < time}
<1>1. /\ snapshots' = [i \in DOMAIN snapshots \ old |-> snapshots[i]]
      /\ pruned' = pruned \cup old /\ latest_id' = latest_id
      /\ old \subseteq DOMAIN snapshots
  BY DEF PruneBefore
<1> HIDE DEF old
<1>2. StateTypeOK'
  BY <1>1 DEF StateInv, StateTypeOK
<1>3. LatestLostOnlyByPruning'
  BY <1>1 DEF StateInv, LatestLostOnlyByPruning, GetLatest, GetSnapshot
<1> QED
  BY <1>2, <1>3 DEF StateInv

\* The snapshots keep their types, and the latest is lost to a pruning only (state_store.cpp).
THEOREM StateInvariant == StateSpec => []StateInv
<1>1. StateInit => StateInv
  BY DEF StateInit, StateInv, StateTypeOK, LatestLostOnlyByPruning
<1>2. StateInv /\ [StateNext]_stateVars => StateInv'
  <2> SUFFICES ASSUME StateInv, [StateNext]_stateVars PROVE StateInv'
    OBVIOUS
  <2>1. ASSUME NEW snap \in Snapshot, SaveSnapshot(snap) PROVE StateInv'
    <3>1. <<snap>> \in Seq(Snapshot)
      OBVIOUS
    <3> QED
      BY <2>1, <3>1, SavesKeep DEF SaveSnapshot
  <2>2. ASSUME NEW s \in StreamsOf(Snapshot, 2), LoadSnapshotBinary(s) PROVE StateInv'
    BY <2>2, TakenRecords, SavesKeep DEF LoadSnapshotBinary
  <2>3. CASE UNCHANGED stateVars
    BY <2>3 DEF stateVars, StateInv, StateTypeOK, LatestLostOnlyByPruning, GetLatest, GetSnapshot
  <2> QED
    BY <2>1, <2>2, <2>3, PruneKeeps DEF StateNext
<1> QED
  BY <1>1, <1>2, PTL DEF StateSpec

\* The latest id is the largest ever saved, and it is found unless prune_before took that very
\* snapshot (state_store.cpp:15-59), also after a stream that was refused half way.
THEOREM LatestIsFound == StateSpec => []LatestLostOnlyByPruning
<1>1. StateInv => LatestLostOnlyByPruning
  BY DEF StateInv
<1> QED
  BY <1>1, StateInvariant, PTL


-----------------------------------------------------------------------------
(* The session store: byte_count and metadata grow together.                  *)

StoreInv == StoreTypeOK /\ BytesFollowMetadata

\* Storing records replaces what their ids had, count, metadata and all.
LEMMA StoresKeep ==
  ASSUME StoreInv, NEW recs \in Seq(StoreRecord), StoreEach(recs)
  PROVE  StoreInv'
<1> DEFINE ids == IdsOf(recs)
<1>1. /\ DOMAIN records_by_id' = DOMAIN records_by_id \cup ids
      /\ \A i \in DOMAIN records_by_id' :
            records_by_id'[i] = IF i \in ids THEN LastOf(recs, i) ELSE records_by_id[i]
  BY DEF StoreEach, PutAll
<1>2. /\ DOMAIN declared' = DOMAIN records_by_id'
      /\ \A i \in DOMAIN records_by_id' :
            declared'[i] = IF i \in ids THEN Surplus(LastOf(recs, i)) ELSE declared[i]
  BY DEF StoreEach
<1>3. \A i \in ids : LastOf(recs, i) \in StoreRecord /\ LastOf(recs, i).id = i
  BY LastOfFound
<1> HIDE DEF ids
<1>4. StoreTypeOK'
  BY <1>1, <1>2, <1>3 DEF StoreInv, StoreTypeOK
<1>5. BytesFollowMetadata'
  <2> SUFFICES ASSUME NEW i \in DOMAIN records_by_id'
               PROVE  Surplus(records_by_id'[i]) = declared'[i]
    BY DEF BytesFollowMetadata
  <2>1. CASE i \in ids
    BY <1>1, <1>2, <2>1
  <2>2. CASE i \notin ids
    BY <1>1, <1>2, <2>2 DEF StoreInv, BytesFollowMetadata
  <2> QED
    BY <2>1, <2>2
<1> QED
  BY <1>4, <1>5 DEF StoreInv

\* An opened session starts with no bytes.
LEMMA OpensKeep ==
  ASSUME StoreInv, NEW id \in StoreIds, NEW time \in 0..1, OpenStored(id, time)
  PROVE  StoreInv'
<1> DEFINE rec == [id |-> id, opened_at |-> time, last_active |-> time, state |-> 1,
                   byte_count |-> 0, metadata |-> 0]
<1>1. rec \in StoreRecord
  BY StoreAssumption DEF StoreRecord
<1>2. <<rec>> \in Seq(StoreRecord)
  BY <1>1
<1>3. StoreEach(<<rec>>)
  BY DEF OpenStored
<1> HIDE DEF rec
<1> QED
  BY <1>2, <1>3, StoresKeep

\* Closing leaves the bytes alone.
LEMMA ClosesKeep ==
  ASSUME StoreInv, NEW id \in StoreIds, CloseStored(id)
  PROVE  StoreInv'
<1>1. /\ id \in DOMAIN records_by_id
      /\ records_by_id' = [records_by_id EXCEPT ![id].state = 0]
      /\ declared' = declared
  BY DEF CloseStored
<1>2. /\ DOMAIN records_by_id' = DOMAIN records_by_id
      /\ \A i \in DOMAIN records_by_id : i # id => records_by_id'[i] = records_by_id[i]
      /\ records_by_id'[id] = [records_by_id[id] EXCEPT !.state = 0]
  BY <1>1
<1>3. records_by_id[id] \in StoreRecord /\ records_by_id[id].id = id
  BY <1>1 DEF StoreInv, StoreTypeOK
<1>4. /\ records_by_id'[id] \in StoreRecord /\ records_by_id'[id].id = id
      /\ Surplus(records_by_id'[id]) = Surplus(records_by_id[id])
  BY <1>2, <1>3 DEF StoreRecord, Surplus
<1>5. StoreTypeOK'
  BY <1>1, <1>2, <1>4 DEF StoreInv, StoreTypeOK
<1>6. BytesFollowMetadata'
  BY <1>1, <1>2, <1>4 DEF StoreInv, BytesFollowMetadata
<1> QED
  BY <1>5, <1>6 DEF StoreInv

\* Appending adds the same to the count, modulo 2^32, and to the metadata.
LEMMA AppendsKeep ==
  ASSUME StoreInv, NEW id \in StoreIds, NEW size \in AppendSizes, AppendStored(id, size)
  PROVE  StoreInv'
<1> DEFINE r == records_by_id[id]
<1> DEFINE new == [r EXCEPT !.byte_count = (r.byte_count + size) % COUNT_WRAP,
                            !.metadata = r.metadata + size]
<1>1. /\ id \in DOMAIN records_by_id
      /\ r.metadata + size <= MAX_METADATA
      /\ records_by_id' = [records_by_id EXCEPT ![id] = new]
      /\ declared' = declared
  BY DEF AppendStored
<1>2. r \in StoreRecord /\ r.id = id
  BY <1>1 DEF StoreInv, StoreTypeOK
<1>3. /\ r.byte_count \in Nat /\ r.metadata \in Nat /\ size \in Nat
      /\ COUNT_WRAP \in Nat \ {0} /\ MAX_METADATA \in Nat
  BY <1>2, StoreAssumption DEF StoreRecord
<1>4. /\ (r.byte_count + size) % COUNT_WRAP \in 0..COUNT_WRAP - 1
      /\ r.metadata + size \in 0..MAX_METADATA
  BY <1>1, <1>3
<1>5. /\ new.byte_count = (r.byte_count + size) % COUNT_WRAP
      /\ new.metadata = r.metadata + size
      /\ new \in StoreRecord /\ new.id = id
  BY <1>2, <1>4 DEF StoreRecord
<1>6. Surplus(new) = Surplus(r)
  BY <1>3, <1>5, SameSurplus DEF Surplus
<1> HIDE DEF new
<1>7. StoreTypeOK'
  BY <1>1, <1>5 DEF StoreInv, StoreTypeOK
<1>8. BytesFollowMetadata'
  BY <1>1, <1>6 DEF StoreInv, StoreTypeOK, BytesFollowMetadata
<1> QED
  BY <1>7, <1>8 DEF StoreInv

\* Sequences over a set are sequences over a larger one.
LEMMA SeqOfSubset ==
  ASSUME NEW A, NEW B, A \subseteq B, NEW q \in Seq(A) PROVE q \in Seq(B)
<1>1. Len(q) \in Nat /\ q \in [1..Len(q) -> A]
  OBVIOUS
<1>2. q \in [1..Len(q) -> B]
  BY <1>1
<1> QED
  BY <1>1, <1>2

\* The session store keeps its types, and its byte counts follow the metadata (session_store.cpp).
THEOREM StoreInvariant == StoreSpec => []StoreInv
<1>1. StoreInit => StoreInv
  BY DEF StoreInit, StoreInv, StoreTypeOK, BytesFollowMetadata
<1>2. StoreInv /\ [StoreNext]_storeVars => StoreInv'
  <2> SUFFICES ASSUME StoreInv, [StoreNext]_storeVars PROVE StoreInv'
    OBVIOUS
  <2>1. ASSUME NEW s \in StreamsOf(StoreRecords, 2), LoadStoreBinary(s) PROVE StoreInv'
    <3>1. Taken(s, FALSE) \in Seq(StoreRecords)
      BY TakenRecords
    <3>2. Taken(s, FALSE) \in Seq(StoreRecord)
      BY <3>1, StoreAssumption, SeqOfSubset
    <3> QED
      BY <2>1, <3>2, StoresKeep DEF LoadStoreBinary
  <2>2. CASE UNCHANGED storeVars
    BY <2>2 DEF storeVars, StoreInv, StoreTypeOK, BytesFollowMetadata
  <2> QED
    BY <2>1, <2>2, OpensKeep, ClosesKeep, AppendsKeep DEF StoreNext
<1> QED
  BY <1>1, <1>2, PTL DEF StoreSpec

\* Whatever is opened, loaded, closed and appended, a record's count and its metadata differ by
\* what the record started with (session_store.cpp:36-37), also when the count wraps.
THEOREM BytesFollow == StoreSpec => []BytesFollowMetadata
<1>1. StoreInv => BytesFollowMetadata
  BY DEF StoreInv
<1> QED
  BY <1>1, StoreInvariant, PTL


-----------------------------------------------------------------------------
(* The scheduler: whatever is accepted is settled once.                       *)

Settlement(Times_now) == [stage: Stages, run: Nat, now: Times_now, ran: BOOLEAN]

\* The number of a run is not used again: that tells the settlements of different runs apart.
RunsRise == \A j, k \in DOMAIN settled : j < k => settled[j].run <= settled[k].run

SchedulerInv(Times_now) ==
  /\ SchedulerTypeOK
  /\ settled \in Seq(Settlement(Times_now))
  /\ RunsRise
  /\ StagesSettleOnce

\* An order of the stages has the same stages, as many.
LEMMA OrderOfStages ==
  ASSUME NEW S, NEW q \in Seq(S), NEW order \in Orders(q)
  PROVE  order \in Seq(S) /\ Len(order) = Len(q) /\ Urgent(order)
<1>1. PICK p \in Bijection(DOMAIN q, DOMAIN q) : order = [k \in DOMAIN q |-> q[p[k]]]
  BY DEF Orders
<1>2. Urgent(order)
  BY DEF Orders
<1>3. p \in [1..Len(q) -> 1..Len(q)] /\ DOMAIN q = 1..Len(q) /\ Len(q) \in Nat
  <2>1. p \in [DOMAIN q -> DOMAIN q]
    BY <1>1 DEF Bijection, Injection
  <2>2. DOMAIN q = 1..Len(q) /\ Len(q) \in Nat
    OBVIOUS
  <2> QED
    BY <2>1, <2>2
<1>4. order \in [1..Len(q) -> S]
  BY <1>1, <1>3
<1> QED
  BY <1>2, <1>3, <1>4


\* A run settles what was pending, in an order by priority.
LEMMA RunsKeep ==
  ASSUME NEW T, SchedulerInv(T), NEW now \in T, RunUntil(now)
  PROVE  SchedulerInv(T)'
<1>1. PICK order \in Orders(pending) :
        LET ran(k) == ~Late(order[k], now) /\ RunStage(order[k])
            runs == Cardinality({k \in DOMAIN order : ran(k)})
            number == IF settled = <<>> THEN 1 ELSE Last(settled).run + 1
        IN /\ total_run' = total_run + runs
           /\ last_result' = [completed |-> runs = Len(order), stages_run |-> runs,
                              stages_failed |-> Len(order) - runs]
           /\ settled' = settled \o [k \in DOMAIN order |->
                                       [stage |-> order[k], run |-> number, now |-> now, ran |-> ran(k)]]
           /\ pending' = <<>>
           /\ UNCHANGED enqueued
  BY DEF RunUntil
<1> DEFINE ran(k) == ~Late(order[k], now) /\ RunStage(order[k])
<1> DEFINE R == {k \in DOMAIN order : ran(k)}
<1> DEFINE number == IF settled = <<>> THEN 1 ELSE Last(settled).run + 1
<1> DEFINE added == [k \in DOMAIN order |->
                      [stage |-> order[k], run |-> number, now |-> now, ran |-> ran(k)]]
<1> DEFINE L == Len(settled)
<1> DEFINE n == Len(order)
<1>2. /\ pending \in Seq(Stages) /\ total_run \in Nat /\ enqueued \in Nat
      /\ settled \in Seq(Settlement(T)) /\ L \in Nat
      /\ RunsRise /\ StagesSettleOnce
  BY DEF SchedulerInv, SchedulerTypeOK
<1>3. order \in Seq(Stages) /\ n = Len(pending) /\ n \in Nat /\ Urgent(order)
      /\ DOMAIN order = 1..n
  BY <1>2, OrderOfStages
<1>4. /\ total_run' = total_run + Cardinality(R)
      /\ last_result' = [completed |-> Cardinality(R) = n, stages_run |-> Cardinality(R),
                         stages_failed |-> n - Cardinality(R)]
      /\ settled' = settled \o added
      /\ pending' = <<>> /\ enqueued' = enqueued
  BY <1>1
<1>5. number \in Nat /\ \A k \in DOMAIN settled : settled[k].run < number
  <2>1. CASE settled = <<>>
    BY <2>1
  <2>2. CASE settled # <<>>
    <3>1. Last(settled) = settled[L] /\ L \in DOMAIN settled /\ settled[L] \in Settlement(T)
      BY <1>2, <2>2 DEF Last
    <3>2. settled[L].run \in Nat
      BY <3>1 DEF Settlement
    <3>3. ASSUME NEW k \in DOMAIN settled PROVE settled[k].run \in Nat /\ settled[k].run <= settled[L].run
      <4>1. settled[k] \in Settlement(T) /\ k \in 1..L
        BY <1>2
      <4>2. settled[k].run \in Nat
        BY <4>1 DEF Settlement
      <4> QED
        BY <1>2, <3>1, <3>2, <4>1, <4>2 DEF RunsRise
    <3>4. number = settled[L].run + 1
      BY <2>2, <3>1
    <3> QED
      BY <3>2, <3>3, <3>4
  <2> QED
    BY <2>1, <2>2
<1>6. IsFiniteSet(R) /\ Cardinality(R) \in 0..n
  <2>2. R \subseteq 1..n
    BY <1>3
  <2> HIDE DEF R, n
  <2>1. IsFiniteSet(1..n) /\ Cardinality(1..n) = n
    <3>1. 1 \in Int /\ n \in Int /\ (IF 1 > n THEN 0 ELSE n - 1 + 1) = n
      BY <1>3
    <3> QED
      BY <3>1, FS_Interval
  <2>3. IsFiniteSet(R) /\ Cardinality(R) <= Cardinality(1..n)
    BY <2>1, <2>2, FS_Subset
  <2> QED
    BY <2>1, <2>3, FS_CardinalityType
<1>7. /\ added \in Seq(Settlement(T)) /\ Len(added) = n
      /\ \A k \in 1..n : /\ added[k].stage = order[k] /\ added[k].run = number
                         /\ added[k].now = now /\ added[k].ran = ran(k)
  <2> HIDE DEF number, ran
  <2>1. ASSUME NEW k \in 1..n PROVE order[k] \in Stages /\ (ran(k) \in BOOLEAN)
    BY <1>3 DEF ran
  <2>2. added \in [1..n -> Settlement(T)]
    BY <1>3, <1>5, <2>1 DEF Settlement
  <2> QED
    BY <1>3, <2>2
<1> HIDE DEF added, number, ran, n, L
<1>8. /\ settled' \in Seq(Settlement(T)) /\ Len(settled') = L + n
      /\ \A k \in 1..L : settled'[k] = settled[k]
      /\ \A k \in L + 1..L + n : settled'[k] = added[k - L] /\ k - L \in 1..n
      /\ DOMAIN settled' = 1..L + n
  <2>1. settled' \in Seq(Settlement(T)) /\ Len(settled') = L + n
    <3> DEFINE S == Settlement(T)
    <3>1. settled \in Seq(S) /\ added \in Seq(S) /\ settled' = settled \o added
      BY <1>2, <1>4, <1>7
    <3> HIDE DEF S
    <3>2. settled' \in Seq(S) /\ Len(settled') = Len(settled) + Len(added)
      BY <3>1
    <3> QED
      BY <1>7, <3>2 DEF S, L
  <2>2. /\ \A k \in 1..L : settled'[k] = settled[k]
        /\ \A k \in L + 1..L + n : settled'[k] = added[k - L]
    BY <1>2, <1>3, <1>4, <1>7 DEF L
  <2>3. \A k \in L + 1..L + n : k - L \in 1..n
    BY <1>2, <1>3
  <2> QED
    BY <2>1, <2>2, <2>3
<1>9. total_run' = Cardinality({k \in DOMAIN settled' : settled'[k].ran})
  <2> DEFINE A == {k \in DOMAIN settled : settled[k].ran}
  <2> DEFINE f == [k \in R |-> L + k]
  <2> DEFINE B == {f[k] : k \in R}
  <2>1. IsFiniteSet(A)
    <3>1. A \subseteq 1..L
      BY <1>2 DEF L
    <3>2. IsFiniteSet(1..L)
      <4>1. 1 \in Int /\ L \in Int
        BY <1>2
      <4> QED
        BY <4>1, FS_Interval
    <3> HIDE DEF A
    <3> QED
      BY <3>1, <3>2, FS_Subset
  <2>2. R \subseteq 1..n
    BY <1>3 DEF n
  <2>3. \A x, y \in R : f[x] = f[y] => x = y
    BY <1>2, <1>3, <2>2
  <2>4. IsFiniteSet(B) /\ Cardinality(B) = Cardinality(R)
    <3> HIDE DEF f, R
    <3> QED
      BY <1>6, <2>3, CountOfImage
  <2>5. A \subseteq 1..L /\ B \subseteq L + 1..L + n
    <3>1. A \subseteq 1..L
      BY <1>2 DEF L
    <3>2. ASSUME NEW k \in R PROVE f[k] \in L + 1..L + n
      <4>1. f[k] = L + k /\ k \in 1..n
        BY <2>2
      <4> QED
        BY <1>2, <1>3, <4>1
    <3> QED
      BY <3>1, <3>2
  <2>6. A \cap B = {}
    BY <1>2, <1>3, <2>5
  <2>7. ASSUME NEW k \in 1..L + n PROVE k \in A \cup B <=> settled'[k].ran
    <3>1. CASE k \in 1..L
      <4>1. k \in DOMAIN settled /\ settled'[k] = settled[k]
        BY <1>2, <1>8, <3>1 DEF L
      <4>2. k \notin B
        BY <1>2, <1>3, <2>5, <3>1
      <4> QED
        BY <4>1, <4>2
    <3>2. CASE k \in L + 1..L + n
      <4>1. k - L \in 1..n /\ settled'[k].ran = ran(k - L)
        <5>1. k - L \in 1..n /\ settled'[k] = added[k - L]
          BY <1>8, <3>2
        <5> QED
          BY <1>7, <5>1
      <4>4. k \notin A
        BY <1>2, <2>5, <3>2
      <4>2. k - L \in R <=> ran(k - L)
        BY <1>3, <4>1 DEF n, R, ran
      <4>3. k \in B <=> k - L \in R
        <5>1. k - L \in R => f[k - L] = k
          BY <1>2, <4>1
        <5>2. ASSUME k \in B PROVE k - L \in R
          <6>1. PICK j \in R : k = f[j]
            BY <5>2
          <6>2. k - L = j
            BY <1>2, <1>3, <2>2, <6>1
          <6> QED
            BY <6>1, <6>2
        <5> QED
          BY <5>1, <5>2
      <4> QED
        BY <4>1, <4>2, <4>3, <4>4
    <3> QED
      BY <1>2, <1>3, <3>1, <3>2
  <2> HIDE DEF A, B
  <2>8. {k \in DOMAIN settled' : settled'[k].ran} = A \cup B
    <3>1. A \cup B \subseteq 1..L + n
      BY <1>2, <1>3, <2>5
    <3> QED
      BY <1>8, <2>7, <3>1
  <2>9. Cardinality(A \cup B) = Cardinality(A) + Cardinality(B)
    BY <2>1, <2>4, <2>6, CountOfUnion
  <2> QED
    BY <1>2, <1>4, <2>4, <2>8, <2>9 DEF StagesSettleOnce, A
<1>10. SchedulerTypeOK'
  <2>1. last_result' \in [completed: BOOLEAN, stages_run: Nat, stages_failed: Nat]
    <3>1. Cardinality(R) \in Nat /\ n - Cardinality(R) \in Nat
      BY <1>3, <1>6
    <3> QED
      BY <1>4, <3>1
  <2>2. total_run' \in Nat /\ pending' \in Seq(Stages) /\ enqueued' \in Nat
    BY <1>2, <1>4, <1>6, <1>3
  <2> QED
    BY <2>1, <2>2 DEF SchedulerTypeOK
<1>11. ASSUME NEW k \in 1..L + n
       PROVE settled'[k].ran => ~Late(settled'[k].stage, settled'[k].now)
  <2>1. CASE k \in 1..L
    <3>1. k \in DOMAIN settled /\ settled'[k] = settled[k]
      BY <1>2, <1>8, <2>1 DEF L
    <3> QED
      BY <1>2, <3>1 DEF StagesSettleOnce
  <2>2. CASE k \in L + 1..L + n
    <3>1. k - L \in 1..n /\ settled'[k] = added[k - L]
      BY <1>8, <2>2
    <3> QED
      BY <1>7, <3>1 DEF ran
  <2> QED
    BY <1>2, <1>3, <2>1, <2>2
<1>12. ASSUME NEW j \in 1..L + n, NEW k \in 1..L + n, j < k
       PROVE  /\ settled'[j].run <= settled'[k].run
              /\ settled'[j].run = settled'[k].run
                   => settled'[j].stage.priority >= settled'[k].stage.priority
  <2>1. CASE k \in 1..L
    <3>1. j \in 1..L
      BY <1>2, <1>12, <2>1
    <3>2. /\ j \in DOMAIN settled /\ settled'[j] = settled[j]
          /\ k \in DOMAIN settled /\ settled'[k] = settled[k]
      BY <1>2, <1>8, <2>1, <3>1 DEF L
    <3> QED
      BY <1>2, <1>12, <3>2 DEF StagesSettleOnce, RunsRise
  <2>2. CASE k \in L + 1..L + n /\ j \in 1..L
    <3>2. settled[j] \in Settlement(T) /\ settled'[j] = settled[j] /\ j \in DOMAIN settled
      BY <1>2, <1>8, <2>2 DEF L
    <3>4. k - L \in 1..n /\ settled'[k] = added[k - L]
      BY <1>8, <2>2
    <3>1. settled'[k].run = number /\ settled'[j].run < number
      BY <1>5, <1>7, <3>2, <3>4
    <3>3. settled'[j].run \in Nat
      BY <3>2 DEF Settlement
    <3> QED
      BY <1>5, <3>1, <3>3
  <2>3. CASE k \in L + 1..L + n /\ j \in L + 1..L + n
    <3>1. /\ settled'[j].run = number /\ settled'[k].run = number
          /\ settled'[j].stage = order[j - L] /\ settled'[k].stage = order[k - L]
          /\ j - L \in 1..n /\ k - L \in 1..n
      <4>1. /\ j - L \in 1..n /\ settled'[j] = added[j - L]
            /\ k - L \in 1..n /\ settled'[k] = added[k - L]
        BY <1>8, <2>3
      <4> QED
        BY <1>7, <4>1
    <3>2. j - L < k - L
      BY <1>2, <1>12
    <3> QED
      BY <1>3, <1>5, <3>1, <3>2 DEF Urgent, n
  <2> QED
    BY <1>2, <1>3, <2>1, <2>2, <2>3
<1>13. Len(settled') + Len(pending') = enqueued'
  <2>1. L + Len(pending) = enqueued /\ Len(pending) = n /\ Len(pending') = 0
    BY <1>2, <1>3, <1>4 DEF StagesSettleOnce, L, n
  <2> QED
    BY <1>2, <1>3, <1>4, <1>8, <2>1
<1>14. StagesSettleOnce'
  BY <1>8, <1>9, <1>11, <1>12, <1>13 DEF StagesSettleOnce
<1>15. RunsRise'
  BY <1>8, <1>12 DEF RunsRise
<1> QED
  BY <1>8, <1>10, <1>14, <1>15 DEF SchedulerInv


\* Stages are taken in at the end of the queue.
LEMMA EnqueuesKeep ==
  ASSUME NEW T, SchedulerInv(T), NEW recs \in Seq(Stages), EnqueueEach(recs)
  PROVE  SchedulerInv(T)'
<1>1. /\ pending' = pending \o recs /\ enqueued' = enqueued + Len(recs)
      /\ total_run' = total_run /\ last_result' = last_result /\ settled' = settled
  BY DEF EnqueueEach
<1>2. pending' \in Seq(Stages) /\ Len(pending') = Len(pending) + Len(recs)
  BY <1>1 DEF SchedulerInv, SchedulerTypeOK
<1>3. Len(settled) \in Nat /\ Len(pending) \in Nat /\ Len(recs) \in Nat
  BY DEF SchedulerInv, SchedulerTypeOK
<1>4. SchedulerTypeOK'
  BY <1>1, <1>2, <1>3 DEF SchedulerInv, SchedulerTypeOK
<1>5. StagesSettleOnce'
  BY <1>1, <1>2, <1>3 DEF SchedulerInv, StagesSettleOnce
<1> QED
  BY <1>1, <1>4, <1>5 DEF SchedulerInv, RunsRise

\* What is cleared is not counted any more.
LEMMA ClearKeeps ==
  ASSUME NEW T, SchedulerInv(T), SchedulerClear
  PROVE  SchedulerInv(T)'
<1>1. /\ pending' = <<>> /\ enqueued' = enqueued - Len(pending)
      /\ total_run' = total_run /\ last_result' = last_result /\ settled' = settled
  BY DEF SchedulerClear
<1>2. /\ Len(settled) + Len(pending) = enqueued
      /\ Len(settled) \in Nat /\ Len(pending) \in Nat
  BY DEF SchedulerInv, SchedulerTypeOK, StagesSettleOnce
<1>3. SchedulerTypeOK'
  BY <1>1, <1>2 DEF SchedulerInv, SchedulerTypeOK
<1>4. StagesSettleOnce'
  BY <1>1, <1>2 DEF SchedulerInv, StagesSettleOnce
<1> QED
  BY <1>1, <1>3, <1>4 DEF SchedulerInv, RunsRise

\* No stage is settled at first.
LEMMA SchedulerStarts == ASSUME NEW T PROVE SchedulerInit => SchedulerInv(T)
<1> SUFFICES ASSUME SchedulerInit PROVE SchedulerInv(T)
  OBVIOUS
<1>1. SchedulerTypeOK
  BY DEF SchedulerInit, SchedulerTypeOK
<1>2. {k \in DOMAIN settled : settled[k].ran} = {} /\ Cardinality({}) = 0
  BY FS_EmptySet DEF SchedulerInit
<1> QED
  BY <1>1, <1>2 DEF SchedulerInit, SchedulerInv, RunsRise, StagesSettleOnce

\* Enqueueing, cancelling and running keep every stage settled at most once.
LEMMA SchedulerKeeps ==
  ASSUME NEW T, NEW maxEnqueued, SchedulerInv(T), [SchedulerNext(T, maxEnqueued)]_schedulerVars
  PROVE  SchedulerInv(T)'
<1>1. ASSUME NEW stage \in Stages, Enqueue(stage) PROVE SchedulerInv(T)'
  <2>1. <<stage>> \in Seq(Stages)
    OBVIOUS
  <2> QED
    BY <1>1, <2>1, EnqueuesKeep DEF Enqueue
<1>2. ASSUME NEW s \in StreamsOf(Stages, 2), LoadScheduleBinary(s) PROVE SchedulerInv(T)'
  BY <1>2, TakenRecords, EnqueuesKeep DEF LoadScheduleBinary
<1>3. CASE UNCHANGED schedulerVars
  BY <1>3 DEF schedulerVars, SchedulerInv, SchedulerTypeOK, RunsRise, StagesSettleOnce
<1> QED
  BY <1>1, <1>2, <1>3, RunsKeep, ClearKeeps DEF SchedulerNext

\* Every stage is settled at most once, by runs whose numbers rise, for any times and any bound on
\* what is enqueued.
THEOREM SchedulerInvariant ==
  ASSUME NEW T, NEW maxEnqueued
  PROVE  SchedulerSpec(T, maxEnqueued) => []SchedulerInv(T)
<1>1. SchedulerInit => SchedulerInv(T)
  BY SchedulerStarts
<1>2. SchedulerInv(T) /\ [SchedulerNext(T, maxEnqueued)]_schedulerVars => SchedulerInv(T)'
  BY SchedulerKeeps
<1> QED
  BY <1>1, <1>2, PTL DEF SchedulerSpec

\* Every stage accepted and not cleared is settled once, none late, the more urgent first
\* (pipeline_scheduler.cpp:27-93): for every order the sort may leave equals in, every clock and
\* every number of stages.
THEOREM StagesSettle ==
  ASSUME NEW T, NEW maxEnqueued
  PROVE  SchedulerSpec(T, maxEnqueued) => []StagesSettleOnce
<1>1. SchedulerInv(T) => StagesSettleOnce
  BY DEF SchedulerInv
<1> QED
  BY <1>1, SchedulerInvariant, PTL


-----------------------------------------------------------------------------
(* The metrics: what is kept is the tail of what came, what is derived covers *)
(* all of it.                                                                 *)

Statistic == [min: Int, max: Int, sum: Int, count: Nat, last: Int]
Series == [samples: Seq(MetricSamples), stats: Statistic]

\* A series stands for a history of samples.
Covers(series, h) ==
  /\ series \in Series /\ h \in Seq(MetricSamples)
  /\ Len(series.samples) <= MAX_SAMPLES /\ Len(series.samples) <= Len(h)
  /\ \A k \in 1..Len(series.samples) :
       series.samples[k] = h[Len(h) - Len(series.samples) + k]
  /\ series.stats.count = Len(h)
  /\ \A k \in 1..Len(h) : series.stats.min <= h[k].value /\ h[k].value <= series.stats.max
  /\ h # <<>> => /\ \E k \in 1..Len(h) : h[k].value = series.stats.min
                 /\ \E k \in 1..Len(h) : h[k].value = series.stats.max
                 /\ series.stats.last = h[Len(h)].value

MetricInv ==
  /\ DOMAIN samples = DOMAIN stats /\ DOMAIN stats = DOMAIN recorded
  /\ \A m \in DOMAIN samples :
       Covers([samples |-> samples[m], stats |-> stats[m]], recorded[m]) /\ recorded[m] # <<>>

\* A queue with a cap keeps the newest: what stays moves up by one when the oldest makes room.
LEMMA CappedIsTail ==
  ASSUME NEW S, NEW q \in Seq(S), NEW x \in S, NEW cap \in Nat \ {0}, Len(q) <= cap,
         NEW w, w = Capped(q, x, cap)
  PROVE  /\ w \in Seq(S) /\ Len(w) \in 1..cap /\ Len(w) <= Len(q) + 1
         /\ w[Len(w)] = x
         /\ \A k \in 1..Len(w) - 1 : w[k] = q[Len(q) - (Len(w) - 1) + k]
<1>1. CASE Len(q) >= cap
  <2>1. q # <<>> /\ w = Append(Tail(q), x)
    BY <1>1 DEF Capped
  <2>2. Tail(q) \in Seq(S) /\ Len(Tail(q)) = Len(q) - 1
        /\ \A k \in 1..Len(q) - 1 : Tail(q)[k] = q[k + 1]
    BY <2>1
  <2>3. w \in Seq(S) /\ Len(w) = Len(q) /\ w[Len(q)] = x
        /\ \A k \in 1..Len(q) - 1 : w[k] = q[k + 1]
    BY <2>1, <2>2
  <2>4. Len(q) \in 1..cap
    BY <1>1
  <2>5. \A k \in 1..Len(q) - 1 : Len(q) - (Len(q) - 1) + k = k + 1
    BY <2>4
  <2> QED
    BY <2>3, <2>4, <2>5
<1>2. CASE Len(q) < cap
  <2>1. w = Append(q, x)
    BY <1>2 DEF Capped
  <2>3. w \in Seq(S) /\ Len(w) = Len(q) + 1 /\ w[Len(q) + 1] = x
        /\ \A k \in 1..Len(q) : w[k] = q[k]
    BY <2>1
  <2>4. Len(q) + 1 \in 1..cap
    BY <1>2
  <2>5. \A k \in 1..Len(q) : Len(q) - (Len(q) + 1 - 1) + k = k
    BY <2>4
  <2> QED
    BY <2>3, <2>4, <2>5
<1> QED
  BY <1>1, <1>2

\* One more sample: the statistics take it in before the cap drops any.
LEMMA OneMoreSample ==
  ASSUME NEW series, NEW h, Covers(series, h), NEW r \in MetricSamples
  PROVE  Covers(Recorded(series, r), Append(h, r))
<1> DEFINE q == series.samples
<1> DEFINE st == series.stats
<1> DEFINE w == Capped(q, r, MAX_SAMPLES)
<1> DEFINE g == Append(h, r)
<1> DEFINE new == Counted(st, r.value)
<1>1. /\ q \in Seq(MetricSamples) /\ st \in Statistic /\ h \in Seq(MetricSamples)
      /\ r.value \in Int /\ MAX_SAMPLES \in Nat \ {0} /\ Len(q) <= MAX_SAMPLES /\ Len(q) <= Len(h)
      /\ st.count = Len(h)
  BY MetricAssumption DEF Covers, Series
<1>2. st.min \in Int /\ st.max \in Int /\ st.sum \in Int /\ st.count \in Nat
  BY <1>1 DEF Statistic
<1>3. /\ new.count = st.count + 1 /\ new.last = r.value
      /\ new.min \in Int /\ new.max \in Int /\ new \in Statistic
      /\ new.min <= r.value /\ r.value <= new.max
      /\ st.count = 0 => new.min = r.value /\ new.max = r.value
      /\ st.count # 0 => /\ new.min <= st.min /\ st.max <= new.max
                         /\ new.min \in {st.min, r.value} /\ new.max \in {st.max, r.value}
  <2>1. /\ new.min = IF st.count = 0 THEN r.value ELSE Min({st.min, r.value})
        /\ new.max = IF st.count = 0 THEN r.value ELSE Max({st.max, r.value})
        /\ new.count = st.count + 1 /\ new.last = r.value
        /\ new = [min |-> new.min, max |-> new.max, sum |-> st.sum + r.value,
                  count |-> st.count + 1, last |-> r.value]
    BY DEF Counted
  <2>2. /\ Min({st.min, r.value}) \in {st.min, r.value} /\ Min({st.min, r.value}) <= st.min
        /\ Min({st.min, r.value}) <= r.value
        /\ Max({st.max, r.value}) \in {st.max, r.value} /\ st.max <= Max({st.max, r.value})
        /\ r.value <= Max({st.max, r.value})
    BY <1>1, <1>2, MinMaxOfTwo
  <2> HIDE DEF new
  <2>3. new.min \in Int /\ new.max \in Int
    BY <1>1, <1>2, <2>1, <2>2
  <2>4. new \in Statistic
    BY <1>1, <1>2, <2>1, <2>3, SMTT(30) DEF Statistic
  <2> QED
    BY <1>1, <1>2, <2>1, <2>2, <2>3, <2>4
<1>4. /\ w \in Seq(MetricSamples) /\ Len(w) \in 1..MAX_SAMPLES /\ Len(w) <= Len(q) + 1
      /\ w[Len(w)] = r
      /\ \A k \in 1..Len(w) - 1 : w[k] = q[Len(q) - (Len(w) - 1) + k]
  <2> DEFINE cap == MAX_SAMPLES
  <2>1. /\ q \in Seq(MetricSamples) /\ cap \in Nat \ {0} /\ Len(q) <= cap
        /\ w = Capped(q, r, cap)
    BY <1>1
  <2> HIDE DEF w, q, cap
  <2> QED
    BY <2>1, CappedIsTail DEF cap
<1>5. /\ g \in Seq(MetricSamples) /\ Len(g) = Len(h) + 1 /\ g[Len(h) + 1] = r
      /\ \A k \in 1..Len(h) : g[k] = h[k]
  BY <1>1
<1>6. Recorded(series, r) = [samples |-> w, stats |-> new]
  BY DEF Recorded
<1> HIDE DEF w, g, new
<1>7. ASSUME NEW k \in 1..Len(w) PROVE w[k] = g[Len(g) - Len(w) + k]
  <2>1. Len(w) \in Nat /\ Len(q) \in Nat /\ Len(h) \in Nat
    BY <1>1, <1>4
  <2>2. CASE k = Len(w)
    <3>1. Len(g) - Len(w) + k = Len(h) + 1
      BY <1>5, <2>1, <2>2
    <3> QED
      BY <1>4, <1>5, <2>2, <3>1
  <2>3. CASE k \in 1..Len(w) - 1
    <3> DEFINE i == Len(q) - (Len(w) - 1) + k
    <3>1. i \in 1..Len(q) /\ Len(h) - Len(q) + i = Len(g) - Len(w) + k
          /\ Len(h) - Len(q) + i \in 1..Len(h)
      <4>1. /\ Len(w) >= 1 /\ Len(w) <= Len(q) + 1 /\ Len(q) <= Len(h) /\ Len(g) = Len(h) + 1
        BY <1>1, <1>4, <1>5
      <4> HIDE DEF q
      <4>2. i \in 1..Len(q)
        BY <2>1, <2>3, <4>1
      <4> QED
        BY <2>1, <2>3, <4>1, <4>2
    <3> HIDE DEF i
    <3>2. q[i] = h[Len(h) - Len(q) + i]
      BY <3>1 DEF Covers
    <3>3. w[k] = q[i]
      BY <1>4, <2>3 DEF i
    <3> QED
      BY <1>5, <3>1, <3>2, <3>3
  <2> QED
    BY <2>1, <2>2, <2>3
<1>8. ASSUME NEW k \in 1..Len(g)
      PROVE  new.min <= g[k].value /\ g[k].value <= new.max
  <2>1. CASE k = Len(h) + 1
    BY <1>3, <1>5, <2>1
  <2>2. CASE k \in 1..Len(h)
    <3>1. g[k] = h[k] /\ h[k] \in MetricSamples
      BY <1>1, <1>5, <2>2
    <3>2. h[k].value \in Int /\ st.min <= h[k].value /\ h[k].value <= st.max
      BY <2>2, <3>1, MetricAssumption DEF Covers
    <3>3. st.count # 0
      BY <1>1, <2>2
    <3> QED
      BY <1>2, <1>3, <3>1, <3>2, <3>3
  <2> QED
    BY <1>1, <1>5, <2>1, <2>2
<1>9. Len(h) + 1 \in 1..Len(g) /\ Len(g) = Len(h) + 1 /\ Len(h) \in Nat
  BY <1>1, <1>5
<1>10. \E k \in 1..Len(g) : g[k].value = new.min
  <2>1. CASE new.min = r.value
    BY <1>5, <1>9, <2>1
  <2>2. CASE new.min # r.value
    <3>1. h # <<>> /\ new.min = st.min
      BY <1>1, <1>3, <2>2
    <3>2. PICK k \in 1..Len(h) : h[k].value = st.min
      BY <3>1 DEF Covers
    <3>3. k \in 1..Len(g) /\ g[k] = h[k]
      BY <1>5, <1>9
    <3> QED
      BY <3>1, <3>2, <3>3
  <2> QED
    BY <2>1, <2>2
<1>11. \E k \in 1..Len(g) : g[k].value = new.max
  <2>1. CASE new.max = r.value
    BY <1>5, <1>9, <2>1
  <2>2. CASE new.max # r.value
    <3>1. h # <<>> /\ new.max = st.max
      BY <1>1, <1>3, <2>2
    <3>2. PICK k \in 1..Len(h) : h[k].value = st.max
      BY <3>1 DEF Covers
    <3>3. k \in 1..Len(g) /\ g[k] = h[k]
      BY <1>5, <1>9
    <3> QED
      BY <3>1, <3>2, <3>3
  <2> QED
    BY <2>1, <2>2
<1>12. new.count = Len(g) /\ new.last = g[Len(g)].value
  BY <1>1, <1>3, <1>5
<1>13. Len(w) <= MAX_SAMPLES /\ Len(w) <= Len(g)
  BY <1>1, <1>4, <1>9
<1> DEFINE s == Recorded(series, r)
<1>14. s.samples = w /\ s.stats = new /\ s \in Series
  BY <1>3, <1>4, <1>6 DEF Series
<1> HIDE DEF s
<1>15. Covers(s, g)
  BY <1>5, <1>7, <1>8, <1>10, <1>11, <1>12, <1>13, <1>14 DEF Covers
<1> QED
  BY <1>15 DEF s, g


\* The samples of a sequence one by one.
LEMMA MoreSamples ==
  ASSUME NEW series, NEW h, Covers(series, h), NEW recs \in Seq(MetricSamples)
  PROVE  Covers(RecordedAll(series, recs), h \o recs)
<1> DEFINE A == {s \in Series : \E g \in Seq(MetricSamples) : Covers(s, g)}
<1> DEFINE F == [p \in A \X MetricSamples |-> Recorded(p[1], p[2])]
<1> DEFINE step(f, n) == IF n = 0 THEN series ELSE Recorded(f[n - 1], recs[n])
<1> DEFINE after == CHOOSE f : f = [n \in 0..Len(recs) |-> step(f, n)]
<1>1. F \in [A \X MetricSamples -> A]
  <2>1. ASSUME NEW s \in A, NEW r \in MetricSamples PROVE Recorded(s, r) \in A
    <3>1. PICK g \in Seq(MetricSamples) : Covers(s, g)
      OBVIOUS
    <3>2. Covers(Recorded(s, r), Append(g, r)) /\ Append(g, r) \in Seq(MetricSamples)
      BY <3>1, OneMoreSample
    <3>3. Recorded(s, r) \in Series
      BY <3>2 DEF Covers
    <3> QED
      BY <3>2, <3>3
  <2> HIDE DEF A
  <2> QED
    BY <2>1
<1>2. series \in A /\ h \in Seq(MetricSamples)
  BY DEF Covers
<1>3. \E f : f = [n \in 0..Len(recs) |-> step(f, n)]
  <2> HIDE DEF F, A
  <2>1. PICK f \in [0..Len(recs) -> A] : IsLoop(f, F, series, recs)
    BY <1>1, <1>2, Iterates
  <2>2. ASSUME NEW n \in 0..Len(recs) PROVE f[n] = step(f, n)
    <3>1. CASE n = 0
      BY <2>1, <3>1 DEF IsLoop
    <3>2. CASE n # 0
      <4>1. n \in 1..Len(recs) /\ n - 1 \in 0..Len(recs)
        BY <3>2
      <4>2. f[n - 1] \in A /\ recs[n] \in MetricSamples /\ f[n] = F[<<f[n - 1], recs[n]>>]
        BY <2>1, <4>1 DEF IsLoop
      <4>3. F[<<f[n - 1], recs[n]>>] = Recorded(f[n - 1], recs[n])
        BY <4>2 DEF F
      <4> QED
        BY <3>2, <4>2, <4>3
    <3> QED
      BY <3>1, <3>2
  <2>3. f = [n \in 0..Len(recs) |-> f[n]]
    OBVIOUS
  <2> HIDE DEF step
  <2>4. f = [n \in 0..Len(recs) |-> step(f, n)]
    BY <2>2, <2>3
  <2> QED
    BY <2>4
<1>4. after = [n \in 0..Len(recs) |-> step(after, n)]
  BY <1>3
<1>5. RecordedAll(series, recs) = after[Len(recs)]
  BY DEF RecordedAll
<1> HIDE DEF after
<1>6. \A n \in 0..Len(recs) : after[n] = step(after, n)
  BY <1>4
<1> DEFINE T == {n \in Nat : n <= Len(recs) => Covers(after[n], h \o SubSeq(recs, 1, n))}
<1>7. 0 \in T
  <2>1. after[0] = series
    BY <1>6
  <2>2. h \o SubSeq(recs, 1, 0) = h
    BY <1>2
  <2> QED
    BY <2>1, <2>2
<1>8. ASSUME NEW n \in Nat, n \in T PROVE n + 1 \in T
  <2> SUFFICES ASSUME n + 1 <= Len(recs)
               PROVE  Covers(after[n + 1], h \o SubSeq(recs, 1, n + 1))
    OBVIOUS
  <2> DEFINE g == h \o SubSeq(recs, 1, n)
  <2>1. Covers(after[n], g)
    BY <1>8
  <2>2. n + 1 \in 0..Len(recs) /\ n + 1 # 0 /\ (n + 1) - 1 = n /\ recs[n + 1] \in MetricSamples
        /\ n \in 0..Len(recs) - 1
    OBVIOUS
  <2>3. after[n + 1] = Recorded(after[n], recs[n + 1])
    BY <1>6, <2>2
  <2>4. h \o SubSeq(recs, 1, n + 1) = Append(g, recs[n + 1])
    BY <1>2, <2>2, LongerTail
  <2> HIDE DEF g
  <2>5. Covers(Recorded(after[n], recs[n + 1]), Append(g, recs[n + 1]))
    BY <2>1, <2>2, OneMoreSample
  <2> QED
    BY <2>3, <2>4, <2>5
<1>9. Len(recs) \in T
  <2> HIDE DEF T
  <2>1. Nat \subseteq T
    BY <1>7, <1>8, SetInduction
  <2> QED
    BY <2>1
<1>10. SubSeq(recs, 1, Len(recs)) = recs /\ Len(recs) \in Nat
  OBVIOUS
<1>11. Covers(after[Len(recs)], h \o SubSeq(recs, 1, Len(recs)))
  BY <1>9, <1>10
<1> QED
  BY <1>5, <1>10, <1>11

\* Samples dropped from the front leave a shorter tail.
LEMMA FewerSamples ==
  ASSUME NEW q, NEW st, NEW h, Covers([samples |-> q, stats |-> st], h), NEW i \in 1..Len(q) + 1
  PROVE  Covers([samples |-> SubSeq(q, i, Len(q)), stats |-> st], h)
<1> DEFINE w == SubSeq(q, i, Len(q))
<1> DEFINE old == [samples |-> q, stats |-> st]
<1> DEFINE new == [samples |-> w, stats |-> st]
<1>1. old.samples = q /\ old.stats = st /\ new.samples = w /\ new.stats = st
  OBVIOUS
<1>2. q \in Seq(MetricSamples) /\ st \in Statistic /\ h \in Seq(MetricSamples)
      /\ Len(q) <= MAX_SAMPLES /\ Len(q) <= Len(h)
  BY <1>1 DEF Covers, Series
<1>3. /\ w \in Seq(MetricSamples) /\ Len(w) = Len(q) - i + 1
      /\ \A k \in 1..Len(w) : w[k] = q[i + k - 1]
  BY <1>2
<1>4. Len(w) \in Nat /\ Len(q) \in Nat /\ Len(h) \in Nat /\ Len(w) <= Len(q)
  BY <1>2, <1>3
<1> HIDE DEF w
<1>5. ASSUME NEW k \in 1..Len(w) PROVE w[k] = h[Len(h) - Len(w) + k]
  <2> DEFINE j == i + k - 1
  <2>1. j \in 1..Len(q) /\ Len(h) - Len(q) + j = Len(h) - Len(w) + k
    BY <1>3, <1>4
  <2> HIDE DEF j
  <2>2. q[j] = h[Len(h) - Len(q) + j]
    BY <1>1, <2>1 DEF Covers
  <2>3. w[k] = q[j]
    BY <1>3 DEF j
  <2> QED
    BY <2>1, <2>2, <2>3
<1>6. new \in Series
  BY <1>2, <1>3 DEF Series
<1>7. Len(w) <= MAX_SAMPLES /\ Len(w) <= Len(h)
  BY <1>2, <1>4, MetricAssumption
<1>8. Covers(old, h)
  OBVIOUS
<1> HIDE DEF old, new
<1>9. Covers(new, h)
  BY <1>1, <1>2, <1>5, <1>6, <1>7, <1>8 DEF Covers
<1> QED
  BY <1>9 DEF new, w


\* A series that is new stands for no sample.
LEMMA NothingCovered == Covers([samples |-> NoSamples, stats |-> NoStats], <<>>)
<1> DEFINE s == [samples |-> NoSamples, stats |-> NoStats]
<1>1. s.samples = <<>> /\ s.stats = NoStats /\ s.samples \in Seq(MetricSamples)
  BY DEF NoSamples
<1>2. NoStats \in Statistic /\ NoStats.count = 0
  BY DEF NoStats, Statistic
<1>3. s \in Series
  BY <1>1, <1>2 DEF Series
<1>4. MAX_SAMPLES \in Nat
  BY MetricAssumption
<1> HIDE DEF s
<1>5. Covers(s, <<>>)
  BY <1>1, <1>2, <1>3, <1>4 DEF Covers
<1> QED
  BY <1>5 DEF s

\* Recording samples keeps the statistics those of all samples (metric_store.cpp).
LEMMA RecordsKeep ==
  ASSUME MetricInv, NEW recs \in Seq(MetricSamples), RecordEach(recs)
  PROVE  MetricInv'
<1> DEFINE of(id) == Kept(recs, {r \in ToSet(recs) : r.id = id})
<1> DEFINE known == DOMAIN samples \cup IdsOf(recs)
<1> DEFINE old(id) == [samples |-> At(samples, id, NoSamples), stats |-> At(stats, id, NoStats)]
<1> DEFINE past(id) == At(recorded, id, NoSamples)
<1>1. /\ samples' = [id \in known |-> RecordedAll(old(id), of(id)).samples]
      /\ stats' = [id \in known |-> RecordedAll(old(id), of(id)).stats]
      /\ recorded' = [id \in known |-> past(id) \o of(id)]
  BY DEF RecordEach
<1>2. ASSUME NEW id \in known PROVE Covers(old(id), past(id))
  <2>1. CASE id \in DOMAIN samples
    BY <2>1 DEF MetricInv, At
  <2>2. CASE id \notin DOMAIN samples
    <3>1. old(id) = [samples |-> NoSamples, stats |-> NoStats] /\ past(id) = <<>>
      BY <2>2 DEF MetricInv, At, NoSamples
    <3> QED
      BY <3>1, NothingCovered
  <2> QED
    BY <2>1, <2>2
<1>3. ASSUME NEW id \in known PROVE of(id) \in Seq(MetricSamples)
  BY KeptPlaces
<1>4. ASSUME NEW id \in known PROVE past(id) \o of(id) # <<>>
  <2> DEFINE S == {r \in ToSet(recs) : r.id = id}
  <2>1. past(id) \in Seq(MetricSamples) /\ of(id) \in Seq(MetricSamples)
    BY <1>2, <1>3 DEF Covers
  <2>2. CASE id \in DOMAIN samples
    <3>1. past(id) # <<>>
      BY <2>2 DEF MetricInv, At
    <3> HIDE DEF past, of
    <3> QED
      BY <2>1, <3>1
  <2>3. CASE id \notin DOMAIN samples
    <3>1. PICK k \in DOMAIN recs : recs[k].id = id
      BY <2>3 DEF IdsOf
    <3>2. k \in 1..Len(recs) /\ recs[k] \in S
      BY <3>1 DEF ToSet
    <3>3. \E f : Places(Kept(recs, S), recs, Len(recs), S, f)
      <4> HIDE DEF S
      <4> QED
        BY KeptPlaces
    <3> HIDE DEF S
    <3>4. \E j \in 1..Len(Kept(recs, S)) : TRUE
      BY <3>2, <3>3 DEF Places
    <3>5. Len(of(id)) # 0
      <4>1. Len(Kept(recs, S)) \in Nat
        BY <2>1 DEF S
      <4> QED
        BY <3>4, <4>1 DEF S
    <3> HIDE DEF past, of
    <3> QED
      BY <2>1, <3>5
  <2> QED
    BY <2>2, <2>3
<1>5. ASSUME NEW id \in known
      PROVE  Covers([samples |-> samples'[id], stats |-> stats'[id]], recorded'[id])
             /\ recorded'[id] # <<>>
  <2> DEFINE s == RecordedAll(old(id), of(id))
  <2>1. Covers(s, past(id) \o of(id))
    BY <1>2, <1>3, MoreSamples
  <2>2. s = [samples |-> s.samples, stats |-> s.stats]
    <3>1. s \in Series
      BY <2>1 DEF Covers
    <3> HIDE DEF s
    <3> QED
      BY <3>1 DEF Series
  <2>3. samples'[id] = s.samples /\ stats'[id] = s.stats /\ recorded'[id] = past(id) \o of(id)
    BY <1>1
  <2> HIDE DEF s, past, of, old
  <2> QED
    BY <1>4, <2>1, <2>2, <2>3
<1>6. DOMAIN samples' = known /\ DOMAIN stats' = known /\ DOMAIN recorded' = known
  BY <1>1
<1> HIDE DEF known
<1> QED
  BY <1>5, <1>6 DEF MetricInv

\* A non-empty set of naturals up to a number has a least element, which is Min of it.
LEMMA FirstOf ==
  ASSUME NEW n \in Nat, NEW S, S \subseteq 1..n, S # {}
  PROVE  Min(S) \in S /\ \A y \in S : Min(S) <= y
<1>1. S \subseteq Nat
  OBVIOUS
<1>2. PICK x \in S : \A y \in S : x <= y
  BY <1>1, LeastNatural
<1> QED
  BY <1>2 DEF Min

\* Expiring samples keeps the statistics those of all samples (metric_store.cpp).
LEMMA ExpiryKeeps ==
  ASSUME MetricInv, NEW time, ExpireBefore(time)
  PROVE  MetricInv'
<1> DEFINE stays(m) == {k \in DOMAIN samples[m] : samples[m][k].timestamp >= time}
<1> DEFINE from(m) == Min(stays(m) \cup {Len(samples[m]) + 1})
<1>1. /\ samples' = [m \in DOMAIN samples |-> SubSeq(samples[m], from(m), Len(samples[m]))]
      /\ stats' = stats /\ recorded' = recorded
  BY DEF ExpireBefore
<1>2. ASSUME NEW m \in DOMAIN samples
      PROVE  Covers([samples |-> samples'[m], stats |-> stats[m]], recorded[m])
  <2> DEFINE q == samples[m]
  <2>1. Covers([samples |-> q, stats |-> stats[m]], recorded[m])
    BY DEF MetricInv
  <2>2. q \in Seq(MetricSamples) /\ Len(q) \in Nat /\ DOMAIN q = 1..Len(q)
    BY <2>1 DEF Covers, Series
  <2>3. from(m) \in 1..Len(q) + 1
    <3> DEFINE S == stays(m) \cup {Len(q) + 1}
    <3>1. S \subseteq 1..Len(q) + 1 /\ S # {} /\ Len(q) + 1 \in Nat
      BY <2>2
    <3> HIDE DEF S
    <3>2. Min(S) \in S
      BY <3>1, FirstOf
    <3>3. Min(S) \in 1..Len(q) + 1
      BY <3>1, <3>2
    <3> QED
      BY <3>3 DEF S
  <2>4. samples'[m] = SubSeq(q, from(m), Len(q))
    BY <1>1
  <2> HIDE DEF q, from
  <2> QED
    BY <2>1, <2>3, <2>4, FewerSamples
<1>3. DOMAIN samples' = DOMAIN samples
  BY <1>1
<1> QED
  BY <1>1, <1>2, <1>3 DEF MetricInv

\* The statistics of a metric cover all its samples, for any bound on what is recorded.
THEOREM MetricInvariant ==
  ASSUME NEW maxRecorded
  PROVE  MetricSpec(maxRecorded) => []MetricInv
<1>1. MetricInit => MetricInv
  BY DEF MetricInit, MetricInv
<1>2. MetricInv /\ [MetricNext(maxRecorded)]_metricVars => MetricInv'
  <2> SUFFICES ASSUME MetricInv, [MetricNext(maxRecorded)]_metricVars PROVE MetricInv'
    OBVIOUS
  <2>1. ASSUME NEW r \in MetricSamples, RecordEach(<<r>>) PROVE MetricInv'
    <3>1. <<r>> \in Seq(MetricSamples)
      OBVIOUS
    <3> QED
      BY <2>1, <3>1, RecordsKeep
  <2>2. ASSUME NEW s \in StreamsOf(MetricSamples, 2), LoadBatchBinary(s) PROVE MetricInv'
    BY <2>2, TakenRecords, RecordsKeep DEF LoadBatchBinary
  <2>3. CASE UNCHANGED metricVars
    BY <2>3 DEF metricVars, MetricInv
  <2> QED
    BY <2>1, <2>2, <2>3, ExpiryKeeps DEF MetricNext
<1> QED
  BY <1>1, <1>2, PTL DEF MetricSpec

\* What a series covers, in the words of the property.
LEMMA CoveredStatistics ==
  ASSUME NEW q, NEW st, NEW h, Covers([samples |-> q, stats |-> st], h), h # <<>>
  PROVE  LET values == {h[k].value : k \in DOMAIN h}
         IN /\ q = Newest(h, Len(q))
            /\ st.count = Len(h)
            /\ st.min = Min(values) /\ st.max = Max(values)
            /\ q # <<>> => st.last = Last(q).value
<1> DEFINE s == [samples |-> q, stats |-> st]
<1> DEFINE values == {h[k].value : k \in DOMAIN h}
<1>1. s.samples = q /\ s.stats = st /\ Covers(s, h)
  OBVIOUS
<1> HIDE DEF s
<1>2. /\ q \in Seq(MetricSamples) /\ h \in Seq(MetricSamples) /\ st \in Statistic
      /\ Len(q) <= Len(h) /\ Len(q) \in Nat /\ Len(h) \in Nat /\ Len(h) # 0
      /\ st.count = Len(h) /\ st.last = h[Len(h)].value
      /\ \A k \in 1..Len(q) : q[k] = h[Len(h) - Len(q) + k]
      /\ \A k \in 1..Len(h) : st.min <= h[k].value /\ h[k].value <= st.max
      /\ \E k \in 1..Len(h) : h[k].value = st.min
      /\ \E k \in 1..Len(h) : h[k].value = st.max
  BY <1>1 DEF Covers, Series
<1>3. q = Newest(h, Len(q))
  <2>1. CASE Len(h) = Len(q)
    <3>1. \A k \in 1..Len(q) : q[k] = h[k]
      BY <1>2, <2>1
    <3>2. q = h
      BY <1>2, <2>1, <3>1
    <3> QED
      BY <1>2, <2>1, <3>2 DEF Newest
  <2>2. CASE Len(h) # Len(q)
    <3> DEFINE w == SubSeq(h, Len(h) - Len(q) + 1, Len(h))
    <3>1. /\ w \in Seq(MetricSamples) /\ Len(w) = Len(q)
          /\ \A k \in 1..Len(w) : w[k] = h[(Len(h) - Len(q) + 1) + k - 1]
      BY <1>2
    <3>2. Newest(h, Len(q)) = w
      BY <1>2, <2>2 DEF Newest
    <3> HIDE DEF w
    <3>3. \A k \in 1..Len(q) : w[k] = q[k]
      <4>1. ASSUME NEW k \in 1..Len(q) PROVE w[k] = q[k]
        <5>1. (Len(h) - Len(q) + 1) + k - 1 = Len(h) - Len(q) + k
          BY <1>2
        <5> QED
          BY <1>2, <3>1, <5>1
      <4> QED
        BY <4>1
    <3>4. q \in Seq(MetricSamples)
      BY <1>2
    <3>5. w \in Seq(MetricSamples) /\ Len(w) = Len(q)
      BY <3>1
    <3>6. q = w
      BY <3>3, <3>4, <3>5
    <3> QED
      BY <3>2, <3>6
  <2> QED
    BY <2>1, <2>2
<1>4. \A k \in 1..Len(h) : h[k].value \in Int
  BY <1>2, MetricAssumption
<1>5. st.min \in Int /\ st.max \in Int
  BY <1>2 DEF Statistic
<1>6. DOMAIN h = 1..Len(h)
  BY <1>2
<1>7. values \subseteq Int /\ st.min \in values /\ st.max \in values
      /\ \A v \in values : st.min <= v /\ v <= st.max
  BY <1>2, <1>4, <1>6
<1> HIDE DEF values
<1>8. st.min = Min(values)
  <2>1. \E x \in values : \A y \in values : x <= y
    BY <1>7
  <2>2. Min(values) \in values /\ \A y \in values : Min(values) <= y
    BY <2>1 DEF Min
  <2> HIDE DEF Min
  <2>3. Min(values) \in Int /\ Min(values) <= st.min /\ st.min <= Min(values)
    BY <1>7, <2>2
  <2> QED
    BY <1>5, <2>3
<1>9. st.max = Max(values)
  <2>1. \E x \in values : \A y \in values : x >= y
    BY <1>5, <1>7
  <2>2. Max(values) \in values /\ \A y \in values : Max(values) >= y
    BY <2>1 DEF Max
  <2> HIDE DEF Max
  <2>3. Max(values) \in Int /\ Max(values) >= st.max /\ Max(values) <= st.max
    BY <1>7, <2>2
  <2> QED
    BY <1>5, <2>3
<1>10. ASSUME q # <<>> PROVE st.last = Last(q).value
  <2>1. Len(q) \in 1..Len(q) /\ Len(h) - Len(q) + Len(q) = Len(h)
    BY <1>2, <1>10
  <2>2. q[Len(q)] = h[Len(h)]
    BY <1>2, <2>1
  <2> QED
    BY <1>2, <2>2 DEF Last
<1> QED
  BY <1>2, <1>3, <1>8, <1>9, <1>10 DEF values

\* The statistics cover every sample there ever was and the window is the tail of the same history
\* (metric_store.cpp:16-35, 74-81): for every cap, in whatever batches the samples came and
\* whatever was dropped in between.
THEOREM StatsCover ==
  ASSUME NEW maxRecorded
  PROVE  MetricSpec(maxRecorded) => []StatsCoverAllSamples
<1>1. MetricInv => StatsCoverAllSamples
  <2> SUFFICES ASSUME MetricInv PROVE StatsCoverAllSamples
    OBVIOUS
  <2>1. ASSUME NEW m \in DOMAIN samples
        PROVE  Covers([samples |-> samples[m], stats |-> stats[m]], recorded[m])
               /\ recorded[m] # <<>>
    BY DEF MetricInv
  <2> QED
    BY <2>1, CoveredStatistics DEF StatsCoverAllSamples
<1> QED
  BY <1>1, MetricInvariant, PTL

\* The samples of a window, of any samples of which the last is in it.
LEMMA WindowOf ==
  ASSUME NEW q \in Seq(MetricSamples), q # <<>>, NEW window \in Nat, NEW cutoff,
         cutoff = (IF Last(q).timestamp > window THEN Last(q).timestamp - window ELSE 0),
         NEW w, w = Kept(q, {x \in ToSet(q) : x.timestamp >= cutoff})
  PROVE  w # <<>> /\ \A k \in DOMAIN w : w[k].timestamp + window >= Last(q).timestamp
<1> DEFINE S == {x \in ToSet(q) : x.timestamp >= cutoff}
           n == Len(q)
<1>1. n \in Nat \ {0} /\ \A i \in 1..n : q[i] \in MetricSamples /\ q[i].timestamp \in Nat
  <2>1. n \in Nat \ {0} /\ \A i \in 1..n : q[i] \in MetricSamples
    OBVIOUS
  <2> QED
    BY <2>1, MetricAssumption
<1>2. Last(q) = q[n] /\ q[n] \in ToSet(q) /\ n \in 1..n
  BY <1>1 DEF Last, ToSet
<1>3. Last(q).timestamp \in Nat /\ cutoff \in Nat /\ cutoff <= Last(q).timestamp
      /\ cutoff + window >= Last(q).timestamp
  BY <1>1, <1>2
<1>4. q[n] \in S
  BY <1>2, <1>3
<1>5. w \in Seq(MetricSamples) /\ \A i \in 1..Len(w) : w[i] \in S
  <2> HIDE DEF S
  <2>1. w = Kept(q, S)
    BY DEF S
  <2> QED
    BY <2>1, KeptElements
<1>6. w # <<>>
  <2> HIDE DEF S
  <2>1. w = Kept(q, S)
    BY DEF S
  <2>2. q[Len(q)] \in S
    BY <1>4
  <2> QED
    BY <2>1, <2>2, LastIsKept
<1>7. ASSUME NEW k \in DOMAIN w PROVE w[k].timestamp + window >= Last(q).timestamp
  <2>1. w[k] \in S
    BY <1>5
  <2>2. w[k].timestamp >= cutoff /\ w[k].timestamp \in Nat
    <3>1. w[k] \in MetricSamples
      BY <1>5
    <3> QED
      BY <2>1, <3>1, MetricAssumption
  <2> HIDE DEF S
  <2> QED
    BY <1>3, <2>2
<1> QED
  BY <1>6, <1>7

\* What the series hold makes every window of them recent.
LEMMA WindowsFollow == MetricInv => WindowsAreRecent(Nat)
<1> SUFFICES ASSUME MetricInv, NEW m \in DOMAIN samples, NEW window \in Nat, NEW w,
                    w = GetWindow(m, window)
             PROVE  /\ (w = <<>>) <=> (samples[m] = <<>>)
                    /\ \A k \in DOMAIN w : w[k].timestamp + window >= Last(samples[m]).timestamp
  BY DEF WindowsAreRecent
<1> DEFINE q == samples[m]
           cutoff == IF Last(q).timestamp > window THEN Last(q).timestamp - window ELSE 0
<1>1. q \in Seq(MetricSamples)
  BY DEF MetricInv, Covers, Series
<1>2. CASE q = <<>>
  BY <1>2 DEF GetWindow
<1>3. CASE q # <<>>
  <2>1. w = Kept(q, {x \in ToSet(q) : x.timestamp >= cutoff})
    BY <1>3 DEF GetWindow
  <2> HIDE DEF q, cutoff
  <2>2. cutoff = IF Last(q).timestamp > window THEN Last(q).timestamp - window ELSE 0
    BY DEF cutoff
  <2>3. w # <<>> /\ \A k \in DOMAIN w : w[k].timestamp + window >= Last(q).timestamp
    BY <1>1, <1>3, <2>1, <2>2, WindowOf
  <2> QED
    BY <1>3, <2>3 DEF q
<1> QED
  BY <1>2, <1>3

\* Whatever window is asked for of a metric that has samples, it is not empty and holds no older
\* sample (metric_store.cpp:60-72).
THEOREM RecentWindows ==
  ASSUME NEW maxRecorded
  PROVE  MetricSpec(maxRecorded) => []WindowsAreRecent(Nat)
  BY WindowsFollow, MetricInvariant, PTL

-----------------------------------------------------------------------------
(* The event log *)

\* Appended one by one to the newest of a sequence, more elements leave the newest of the longer one.
LEMMA EventsFollow ==
  ASSUME NEW q \in Seq(Events), NEW evs \in Seq(Events)
  PROVE  AppendEach(Newest(q, MAX_EVENTS), evs) = Newest(q \o evs, MAX_EVENTS)
<1> DEFINE log == Newest(q, MAX_EVENTS)
<1> DEFINE step(f, n) == IF n = 0 THEN log ELSE Capped(f[n - 1], evs[n], MAX_EVENTS)
<1> DEFINE after == CHOOSE f : f = [n \in 0..Len(evs) |-> step(f, n)]
<1> DEFINE g == [n \in 0..Len(evs) |-> Newest(q \o SubSeq(evs, 1, n), MAX_EVENTS)]
<1>1. MAX_EVENTS \in Nat \ {0}
  BY EventLogAssumption
<1>2. ASSUME NEW n \in 0..Len(evs) PROVE g[n] = step(g, n)
  <2>1. g[n] = Newest(q \o SubSeq(evs, 1, n), MAX_EVENTS)
    OBVIOUS
  <2>2. CASE n = 0
    <3>1. q \o SubSeq(evs, 1, 0) = q
      OBVIOUS
    <3> QED
      BY <2>1, <2>2, <3>1
  <2>3. CASE n # 0
    <3> DEFINE m == n - 1
    <3>1. m \in 0..Len(evs) - 1 /\ m \in 0..Len(evs) /\ n = m + 1 /\ evs[n] \in Events
          /\ SubSeq(evs, 1, m) \in Seq(Events)
      BY <2>3
    <3> HIDE DEF m
    <3>2. q \o SubSeq(evs, 1, n) = Append(q \o SubSeq(evs, 1, m), evs[n])
      BY <3>1, LongerTail
    <3>3. q \o SubSeq(evs, 1, m) \in Seq(Events)
      BY <3>1
    <3>4. g[n] = Capped(Newest(q \o SubSeq(evs, 1, m), MAX_EVENTS), evs[n], MAX_EVENTS)
      <4> DEFINE so == q \o SubSeq(evs, 1, m)
                 ev == evs[n]
      <4>1. so \in Seq(Events) /\ ev \in Events /\ g[n] = Newest(Append(so, ev), MAX_EVENTS)
        BY <2>1, <3>1, <3>2, <3>3
      <4> HIDE DEF g, so, ev
      <4>2. g[n] = Capped(Newest(so, MAX_EVENTS), ev, MAX_EVENTS)
        BY <1>1, <4>1, NewestAndOne
      <4> QED
        BY <4>2 DEF so, ev
    <3>5. g[m] = Newest(q \o SubSeq(evs, 1, m), MAX_EVENTS)
      BY <3>1
    <3> HIDE DEF g
    <3>6. g[n - 1] = g[m]
      BY <3>1
    <3> QED
      BY <2>3, <3>4, <3>5, <3>6
  <2> QED
    BY <2>2, <2>3
<1>3. g = [n \in 0..Len(evs) |-> g[n]]
  OBVIOUS
<1> HIDE DEF g
<1>4. g = [n \in 0..Len(evs) |-> step(g, n)]
  <2> HIDE DEF step
  <2> QED
    BY <1>2, <1>3
<1>5. after = [n \in 0..Len(evs) |-> step(after, n)]
  BY <1>4
<1>6. AppendEach(log, evs) = after[Len(evs)]
  BY DEF AppendEach
<1> HIDE DEF after
<1>7. \A n \in 0..Len(evs) : after[n] = step(after, n)
  BY <1>5
<1> DEFINE T == {n \in Nat : n <= Len(evs) => after[n] = g[n]}
<1>8. 0 \in T
  BY <1>2, <1>7
<1>9. ASSUME NEW n \in Nat, n \in T PROVE n + 1 \in T
  <2> SUFFICES ASSUME n + 1 <= Len(evs) PROVE after[n + 1] = g[n + 1]
    OBVIOUS
  <2>1. n + 1 \in 0..Len(evs) /\ n + 1 # 0 /\ (n + 1) - 1 = n /\ after[n] = g[n]
    BY <1>9
  <2> QED
    BY <1>2, <1>7, <2>1
<1>10. Len(evs) \in T /\ Len(evs) \in Nat
  <2> HIDE DEF T
  <2>1. Nat \subseteq T
    BY <1>8, <1>9, SetInduction
  <2> QED
    BY <2>1
<1>11. after[Len(evs)] = g[Len(evs)]
  BY <1>10
<1>12. SubSeq(evs, 1, Len(evs)) = evs /\ Len(evs) \in 0..Len(evs)
  OBVIOUS
<1> QED
  BY <1>6, <1>11, <1>12 DEF g

-----------------------------------------------------------------------------
(* The ingest pipeline: its packets. While the sections of a packet come, as  *)
(* many entries of the history as were handed on are its own; once it is cut  *)
(* short there is an error, and less was accepted than announced.             *)

Loads == {[type |-> "LoadConfig", schema |-> 0, body |-> body] : body \in ConfigBodies}
Handed == [section: Sections \cup Loads, ok: BOOLEAN]
Results == [accepted: BOOLEAN, records_processed: Nat, errors: Nat]

PacketTypes ==
  /\ phase \in {"idle", "sections"} /\ todo \in Nat /\ packets_seen \in Nat
  /\ announced \in Nat /\ result \in Results
  /\ history \in Seq(Handed) /\ since \in 0..Len(history)

Handled == result.records_processed + result.errors

InPacket ==
  phase = "sections" =>
    /\ Handled <= announced
    /\ \/ /\ Handled + todo = announced /\ Handled <= Len(history)
          /\ result.errors = 0 =>
               \A k \in Len(history) - Handled + 1..Len(history) : history[k].ok
       \/ todo = 0 /\ result.errors > 0 /\ result.records_processed < announced

PacketInv == PacketTypes /\ InPacket

\* A section is accepted or not.
LEMMA AcceptedIsBoolean == ASSUME NEW sec PROVE SectionAccepted(sec) \in BOOLEAN
  BY DEF SectionAccepted, ConfigParses, SchemaLoads, FilterLoads, TransformLoads, DevicesLoad,
         CodecTableLoads, BatchDecodes, Whole

\* One entry more at the end of the history.
LEMMA OneMoreHanded ==
  ASSUME PacketTypes, NEW h \in Handed, history' = Append(history, h)
  PROVE  /\ history' \in Seq(Handed) /\ Len(history') = Len(history) + 1
         /\ history'[Len(history) + 1] = h
         /\ \A k \in 1..Len(history) : history'[k] = history[k]
         /\ Len(history) \in Nat
  BY DEF PacketTypes

\* Handing a section on keeps the account of the packet.
LEMMA HandleKeepsPacket ==
  ASSUME PacketInv, NEW sec \in Sections, HandleSection(sec)
  PROVE  PacketInv'
<1> DEFINE h == [section |-> sec, ok |-> SectionAccepted(sec)]
<1> DEFINE acc == SectionAccepted(sec)
<1>1. /\ phase = "sections" /\ todo > 0 /\ todo' = todo - 1
      /\ history' = Append(history, h)
      /\ phase' = phase /\ packets_seen' = packets_seen /\ announced' = announced /\ since' = since
      /\ result' = IF acc THEN [result EXCEPT !.records_processed = @ + 1]
                          ELSE [result EXCEPT !.errors = @ + 1]
  BY DEF HandleSection
<1>2. h \in Handed /\ h.ok = acc /\ acc \in BOOLEAN
  BY AcceptedIsBoolean DEF Handed
<1> HIDE DEF h, acc
<1>3. /\ history' \in Seq(Handed) /\ Len(history') = Len(history) + 1
      /\ history'[Len(history) + 1] = h
      /\ \A k \in 1..Len(history) : history'[k] = history[k]
      /\ Len(history) \in Nat
  BY <1>1, <1>2, OneMoreHanded DEF PacketInv
<1>4. /\ result \in Results /\ result.records_processed \in Nat /\ result.errors \in Nat
      /\ result.accepted \in BOOLEAN /\ todo \in Nat /\ announced \in Nat
  BY DEF PacketInv, PacketTypes, Results
<1>5. /\ result' \in Results
      /\ acc => /\ result'.records_processed = result.records_processed + 1
                /\ result'.errors = result.errors
      /\ ~acc => /\ result'.records_processed = result.records_processed
                 /\ result'.errors = result.errors + 1
  <2>1. CASE acc
    BY <1>1, <1>4, <2>1 DEF Results
  <2>2. CASE ~acc
    BY <1>1, <1>4, <2>2 DEF Results
  <2> QED
    BY <2>1, <2>2
<1>6. PacketTypes'
  <2>1. since \in 0..Len(history) /\ todo - 1 \in Nat
    BY <1>1, <1>4 DEF PacketInv, PacketTypes
  <2> QED
    BY <1>1, <1>3, <1>5, <2>1 DEF PacketInv, PacketTypes
<1>7. /\ Handled + todo = announced /\ Handled <= Len(history) /\ Handled \in Nat
      /\ result.errors = 0 =>
               \A k \in Len(history) - Handled + 1..Len(history) : history[k].ok
  BY <1>1, <1>4 DEF PacketInv, InPacket, Handled
<1>8. Handled' = Handled + 1
  BY <1>4, <1>5 DEF Handled
<1>9. ASSUME result'.errors = 0, NEW k \in Len(history') - Handled' + 1..Len(history')
      PROVE  history'[k].ok
  <2>1. acc /\ result.errors = 0
    BY <1>2, <1>4, <1>5, <1>9
  <2>2. k \in Len(history) - Handled + 1..Len(history) + 1 /\ Len(history) - Handled + 1 >= 1
    BY <1>3, <1>7, <1>8
  <2>3. CASE k = Len(history) + 1
    BY <1>2, <1>3, <2>1, <2>3
  <2>4. CASE k # Len(history) + 1
    <3>1. k \in Len(history) - Handled + 1..Len(history) /\ k \in 1..Len(history)
      BY <1>3, <1>7, <2>2, <2>4
    <3>2. history[k].ok
      BY <1>7, <2>1, <3>1
    <3> QED
      BY <1>3, <3>1, <3>2
  <2> QED
    BY <2>3, <2>4
<1>10. Handled' + todo' = announced' /\ Handled' <= Len(history') /\ Handled' <= announced'
  BY <1>1, <1>3, <1>4, <1>7, <1>8
<1>11. InPacket'
  <2> USE DEF InPacket
  <2> QED
    BY <1>9, <1>10
<1> QED
  BY <1>6, <1>11 DEF PacketInv

\* Every step keeps the account of the packet: what was handled and what is left add up to what was
\* announced.
LEMMA PacketKeeps ==
  ASSUME PacketInv, [IngestNext]_ingestVars
  PROVE  PacketInv'
<1>1. /\ result \in Results /\ result.records_processed \in Nat /\ result.errors \in Nat
      /\ result.accepted \in BOOLEAN /\ todo \in Nat /\ announced \in Nat
      /\ phase \in {"idle", "sections"} /\ packets_seen \in Nat
      /\ history \in Seq(Handed) /\ Len(history) \in Nat /\ since \in 0..Len(history)
  BY DEF PacketInv, PacketTypes, Results
<1>2. NoResult \in Results /\ NoResult.records_processed = 0 /\ NoResult.errors = 0
      /\ [NoResult EXCEPT !.errors = 1] \in Results
  BY DEF NoResult, Results
<1>3. CASE RefusePacket
  BY <1>1, <1>2, <1>3 DEF RefusePacket, PacketInv, PacketTypes, InPacket
<1>4. ASSUME NEW n \in Announced, BeginPacket(n) PROVE PacketInv'
  <2>1. /\ n \in Nat /\ phase' = "sections" /\ todo' = n /\ announced' = n /\ result' = NoResult
        /\ history' = history /\ since' = since /\ packets_seen' = packets_seen + 1
    BY <1>4, IngestAssumption DEF BeginPacket
  <2>2. PacketTypes'
    BY <1>1, <1>2, <2>1 DEF PacketTypes
  <2>3. Handled' = 0
    BY <1>2, <2>1 DEF Handled
  <2>4. \A k \in Len(history) - 0 + 1..Len(history) : history[k].ok
    BY <1>1
  <2>5. InPacket'
    BY <1>1, <2>1, <2>3, <2>4 DEF InPacket
  <2> QED
    BY <2>2, <2>5 DEF PacketInv
<1>5. ASSUME NEW sec \in Sections, HandleSection(sec) PROVE PacketInv'
  BY <1>5, HandleKeepsPacket
<1>6. CASE CutShort
  <2>1. /\ phase = "sections" /\ todo > 0 /\ todo' = 0 /\ phase' = phase
        /\ result' = [result EXCEPT !.errors = @ + 1]
        /\ packets_seen' = packets_seen /\ history' = history /\ announced' = announced /\ since' = since
    BY <1>6 DEF CutShort
  <2>2. result' \in Results /\ result'.records_processed = result.records_processed
        /\ result'.errors = result.errors + 1
    BY <1>1, <2>1 DEF Results
  <2>3. Handled + todo = announced /\ Handled' = Handled + 1
    BY <1>1, <2>1, <2>2 DEF PacketInv, InPacket, Handled
  <2>4. Handled' <= announced' /\ result'.errors > 0 /\ result'.records_processed < announced'
    BY <1>1, <2>1, <2>2, <2>3 DEF Handled
  <2> QED
    BY <1>1, <2>1, <2>2, <2>4 DEF PacketInv, PacketTypes, InPacket
<1>7. CASE ReturnPacket
  <2>1. phase' = "idle" /\ result' = [result EXCEPT !.accepted = (result.errors = 0)]
        /\ UNCHANGED <<todo, packets_seen, history, announced, since>>
    BY <1>7 DEF ReturnPacket
  <2>2. result' \in Results
    BY <1>1, <2>1 DEF Results
  <2> QED
    BY <1>1, <2>1, <2>2 DEF PacketInv, PacketTypes, InPacket
<1>8. ASSUME NEW body \in ConfigBodies, LoadConfig(body) PROVE PacketInv'
  <2> DEFINE h == [section |-> [type |-> "LoadConfig", schema |-> 0, body |-> body],
                   ok |-> ConfigParses(body)]
  <2>1. phase' = "idle" /\ history' = Append(history, h)
        /\ UNCHANGED <<todo, result, packets_seen, announced, since>>
    BY <1>8 DEF LoadConfig
  <2>2. h \in Handed
    <3>1. ConfigParses(body) \in BOOLEAN
      BY DEF ConfigParses, Whole
    <3> QED
      BY <3>1 DEF Handed, Loads
  <2> HIDE DEF h
  <2>3. history' \in Seq(Handed) /\ Len(history') = Len(history) + 1
    BY <2>1, <2>2, OneMoreHanded DEF PacketInv
  <2> QED
    BY <1>1, <2>1, <2>3 DEF PacketInv, PacketTypes, InPacket
<1>9. CASE Reset
  <2>1. phase = "idle" /\ packets_seen' = 0 /\ since' = Len(history)
        /\ UNCHANGED <<phase, todo, result, history, announced>>
    BY <1>9 DEF Reset
  <2> QED
    BY <1>1, <2>1 DEF PacketInv, PacketTypes, InPacket
<1>10. CASE UNCHANGED ingestVars
  BY <1>10 DEF ingestVars, PacketInv, PacketTypes, InPacket, Handled
<1> QED
  BY <1>3, <1>4, <1>5, <1>6, <1>7, <1>8, <1>9, <1>10 DEF IngestNext

\* No packet is being processed at first.
LEMMA PacketStarts == IngestInit => PacketInv
  BY DEF IngestInit, PacketInv, PacketTypes, InPacket, Results, NoResult

\* While a packet is processed, what was handled and what is left add up to what it announced.
THEOREM PacketInvariant == IngestSpec => []PacketInv
  BY PacketStarts, PacketKeeps, PTL DEF IngestSpec

\* When a packet ends, its result counts the sections that were handed on.
LEMMA VerdictStep ==
  ASSUME PacketInv, [IngestNext]_ingestVars, phase = "sections", phase' = "idle"
  PROVE  LET handled == result.records_processed + result.errors
             mine == SubSeq(history, Len(history) - Min({handled, Len(history)}) + 1, Len(history))
         IN /\ handled <= announced
            /\ result'.accepted <=> result.records_processed = announced
            /\ result.errors = 0 => Len(mine) = announced /\ \A k \in DOMAIN mine : mine[k].ok
<1> DEFINE mine == SubSeq(history, Len(history) - Min({Handled, Len(history)}) + 1, Len(history))
<1>1. /\ result \in Results /\ result.records_processed \in Nat /\ result.errors \in Nat
      /\ todo \in Nat /\ announced \in Nat /\ history \in Seq(Handed) /\ Len(history) \in Nat
  BY DEF PacketInv, PacketTypes, Results
<1>2. ReturnPacket
  BY DEF IngestNext, RefusePacket, BeginPacket, HandleSection, CutShort, LoadConfig, Reset, ingestVars
<1>3. todo = 0 /\ result' = [result EXCEPT !.accepted = (result.errors = 0)]
  BY <1>2 DEF ReturnPacket
<1>4. result'.accepted <=> result.errors = 0
  BY <1>1, <1>3 DEF Results
<1>5. /\ Handled <= announced /\ Handled \in Nat
      /\ \/ /\ Handled = announced /\ Handled <= Len(history)
            /\ result.errors = 0 =>
                 \A k \in Len(history) - Handled + 1..Len(history) : history[k].ok
         \/ result.errors > 0 /\ result.records_processed < announced
  BY <1>1, <1>3 DEF PacketInv, InPacket, Handled
<1>6. result.errors = 0 <=> result.records_processed = announced
  BY <1>1, <1>5 DEF Handled
<1>7. ASSUME result.errors = 0 PROVE Len(mine) = announced /\ \A k \in DOMAIN mine : mine[k].ok
  <2>1. /\ Handled = announced /\ Handled <= Len(history)
        /\ \A k \in Len(history) - Handled + 1..Len(history) : history[k].ok
    BY <1>5, <1>7
  <2>2. Min({Handled, Len(history)}) = Handled
    <3>1. /\ Min({Handled, Len(history)}) \in {Handled, Len(history)}
          /\ Min({Handled, Len(history)}) <= Handled
      <4>1. Handled \in Int /\ Len(history) \in Int
        BY <1>1, <1>5
      <4> QED
        BY <4>1, MinMaxOfTwo
    <3> QED
      BY <1>1, <1>5, <2>1, <3>1
  <2>3. ASSUME NEW i \in 1..Len(history) + 1
        PROVE  /\ Len(SubSeq(history, i, Len(history))) = Len(history) - i + 1
               /\ SubSeq(history, i, Len(history)) \in Seq(Handed)
               /\ \A k \in 1..Len(history) - i + 1 :
                    SubSeq(history, i, Len(history))[k] = history[i + k - 1]
    BY <1>1
  <2> DEFINE i == Len(history) - Handled + 1
  <2>4. i \in 1..Len(history) + 1 /\ Len(history) - i + 1 = announced
    BY <1>1, <1>5, <2>1
  <2>5. mine = SubSeq(history, i, Len(history))
    BY <2>2
  <2> HIDE DEF mine
  <2>6. /\ mine \in Seq(Handed) /\ Len(mine) = announced
        /\ \A k \in 1..announced : mine[k] = history[i + k - 1]
    <3> HIDE DEF i
    <3> QED
      BY <2>3, <2>4, <2>5
  <2>7. ASSUME NEW k \in 1..announced PROVE mine[k].ok
    <3>1. i + k - 1 \in Len(history) - Handled + 1..Len(history)
      BY <1>1, <1>5, <2>1
    <3> HIDE DEF i
    <3> QED
      BY <2>1, <2>6, <3>1
  <2>8. DOMAIN mine = 1..announced
    BY <2>6
  <2> QED
    BY <2>6, <2>7, <2>8
<1> HIDE DEF mine
<1>8. Handled <= announced /\ (result'.accepted <=> result.records_processed = announced)
  BY <1>4, <1>5, <1>6
<1> QED
  BY <1>7, <1>8 DEF mine, Handled

\* A result accounts for every section the packet announced (ingest_pipeline.cpp:66-90), for any
\* packets and any sections: accepted exactly when all of them were handed on and accepted.
THEOREM VerdictCounts == IngestSpec => VerdictCountsSections
<1>1. PacketInv /\ [IngestNext]_ingestVars =>
        [phase = "sections" /\ phase' = "idle" =>
           LET handled == result.records_processed + result.errors
               mine == SubSeq(history, Len(history) - Min({handled, Len(history)}) + 1, Len(history))
           IN /\ handled <= announced
              /\ result'.accepted <=> result.records_processed = announced
              /\ result.errors = 0 => Len(mine) = announced /\ \A k \in DOMAIN mine : mine[k].ok]_ingestVars
  BY VerdictStep
<1> QED
  BY <1>1, PacketInvariant, PTL DEF IngestSpec, VerdictCountsSections

-----------------------------------------------------------------------------
(* Its buffer: a record is kept for every section that was accepted, and the  *)
(* read position stays at the front because nothing is popped.                *)

Accepted == [section: Sections, ok: {TRUE}]
BufferFollows == BufferInv /\ head = 0 /\ BufferHoldsNewest

\* What the history keeps of a section or a load.
LEMMA AcceptedFollow ==
  ASSUME PacketTypes, NEW h \in Handed, history' = Append(history, h)
  PROVE  /\ Kept(history, Accepted) \in Seq(Handed)
         /\ Kept(history', Accepted) = IF h \in Accepted THEN Append(Kept(history, Accepted), h)
                                                         ELSE Kept(history, Accepted)
<1>1. history \in Seq(Handed)
  BY DEF PacketTypes
<1> QED
  BY <1>1, KeptAppend, KeptPlaces

\* A section that is accepted is the newest record of the buffer.
LEMMA PushFollows ==
  ASSUME PacketTypes, BufferFollows, NEW sec \in Sections, Push(sec),
         history' = Append(history, [section |-> sec, ok |-> TRUE])
  PROVE  BufferFollows'
<1> DEFINE h == [section |-> sec, ok |-> TRUE]
           a == Kept(history, Accepted)
           v == Newest(a, CAPACITY)
           w == Newest(Append(a, h), CAPACITY)
           rec == [sequence |-> next_seq, payload |-> sec]
<1>1. h \in Handed /\ h \in Accepted /\ h.section = sec
  BY DEF Handed, Accepted
<1>2. rec.sequence = next_seq /\ rec.payload = sec
  OBVIOUS
<1> HIDE DEF h, rec
<1>3. a \in Seq(Handed) /\ Kept(history', Accepted) = Append(a, h)
  BY <1>1, AcceptedFollow DEF h
<1>4. CAPACITY \in Nat \ {0} /\ sec \in Payloads
  BY BufferAssumption, IngestAssumption
<1> HIDE DEF a
<1>5. v \in Seq(Handed) /\ Len(v) = (IF Len(a) <= CAPACITY THEN Len(a) ELSE CAPACITY)
  <2> HIDE DEF v
  <2>1. v = Newest(a, CAPACITY) /\ CAPACITY \in Nat
    BY <1>4 DEF v
  <2> QED
    BY <1>3, <2>1, NewestIs
<1>6. w = Capped(v, h, CAPACITY)
  BY <1>1, <1>3, <1>4, NewestAndOne
<1> HIDE DEF v, w
<1>7. /\ next_seq = Len(a) /\ Len(records) = Len(v)
      /\ \A k \in DOMAIN v : records[k] = [sequence |-> next_seq - Len(v) + k - 1,
                                           payload |-> v[k].section]
  BY DEF BufferFollows, BufferHoldsNewest, Accepted, a, v
<1>8. /\ records \in Seq(Record) /\ next_seq \in 0..MAX_PUSHED /\ head = 0 /\ Len(records) <= CAPACITY
      /\ MAX_PUSHED \in Nat
  BY BufferAssumption DEF BufferFollows, BufferInv, BufferTypeOK
<1>9. rec \in Record /\ next_seq' = next_seq + 1 /\ next_seq \in Nat
  BY <1>4, <1>8 DEF rec, Record, Push
<1>10. BufferInv'
  BY <1>4, PushKeeps DEF BufferFollows
<1>11. Len(v) \in Nat /\ DOMAIN v = 1..Len(v)
  BY <1>5
<1>15. Len(v) \in Nat
  BY <1>5
<1>12. CASE Len(records) >= CAPACITY
  <2>1. records' = Append(Without(records, 1), rec) /\ head' = 0
    <3>1. head + 1 = 1
      BY <1>8
    <3>2. records' = Appended(Without(records, head + 1), sec) /\ head' = 0
      BY <1>4, <1>8, <1>12 DEF Push
    <3> QED
      BY <3>1, <3>2 DEF Appended, rec
  <2>2. 1 \in 1..Len(records) /\ Len(records) \in Nat \ {0}
    BY <1>4, <1>8, <1>12
  <2>3. /\ Without(records, 1) \in Seq(Record)
        /\ Len(Without(records, 1)) = Len(records) - 1
        /\ \A j \in 1..Len(records) - 1 :
             Without(records, 1)[j] = IF j < 1 THEN records[j] ELSE records[j + 1]
    BY <1>8, <2>2, WithoutIsShorter
  <2>4. \A j \in 1..Len(records) - 1 : Without(records, 1)[j] = records[j + 1]
    BY <2>2, <2>3
  <2> DEFINE u == Without(records, 1)
  <2>5. u \in Seq(Record) /\ Len(u) = Len(v) - 1 /\ \A j \in 1..Len(v) - 1 : u[j] = records[j + 1]
    BY <1>7, <2>3, <2>4
  <2> HIDE DEF u
  <2>6. /\ Len(records') = Len(v) /\ records'[Len(v)] = rec
        /\ \A j \in 1..Len(v) - 1 : records'[j] = records[j + 1]
    BY <1>7, <1>9, <2>1, <2>2, <2>5 DEF u
  <2>7. v # <<>> /\ w = Append(Tail(v), h)
    BY <1>6, <1>7, <1>12, <2>2 DEF Capped
  <2>8. /\ w \in Seq(Handed) /\ Len(w) = Len(v) /\ w[Len(v)] = h
        /\ \A j \in 1..Len(v) - 1 : w[j] = v[j + 1]
    BY <1>1, <1>5, <2>7
  <2>9. ASSUME NEW k \in 1..Len(v)
        PROVE  records'[k] = [sequence |-> next_seq' - Len(v) + k - 1, payload |-> w[k].section]
    <3>1. CASE k = Len(v)
      <4>1. next_seq' - Len(v) + k - 1 = next_seq
        BY <1>9, <1>11, <3>1
      <4> QED
        BY <1>1, <2>6, <2>8, <3>1, <4>1 DEF rec
    <3>2. CASE k # Len(v)
      <4>1. k \in 1..Len(v) - 1 /\ k + 1 \in 1..Len(v)
        BY <1>15, <3>2
      <4>2. next_seq' - Len(v) + k - 1 = next_seq - Len(v) + (k + 1) - 1
        BY <1>9, <1>11
      <4>3. records[k + 1] = [sequence |-> next_seq - Len(v) + (k + 1) - 1, payload |-> v[k + 1].section]
        BY <1>7, <1>11, <4>1
      <4> QED
        BY <2>6, <2>8, <4>1, <4>2, <4>3
    <3> QED
      BY <3>1, <3>2
  <2>10. Len(records') = Len(w) /\ DOMAIN w = 1..Len(v) /\ head' = 0
    BY <2>1, <2>6, <2>8
  <2>11. next_seq' = Len(Append(a, h))
    BY <1>1, <1>3, <1>7, <1>9
  <2>12. BufferHoldsNewest'
    BY <1>3, <2>8, <2>9, <2>10, <2>11 DEF BufferHoldsNewest, Accepted, w
  <2> QED
    BY <1>10, <2>10, <2>12 DEF BufferFollows
<1>13. CASE Len(records) < CAPACITY
  <2>1. records' = Append(records, rec) /\ head' = 0
    <3>1. records' = Appended(records, sec) /\ head' = head
      BY <1>4, <1>8, <1>13 DEF Push
    <3> QED
      BY <1>8, <3>1 DEF Appended, rec
  <2>2. /\ Len(records') = Len(v) + 1 /\ records'[Len(v) + 1] = rec
        /\ \A j \in 1..Len(v) : records'[j] = records[j]
    BY <1>7, <1>8, <1>9, <2>1
  <2>3. w = Append(v, h)
    BY <1>4, <1>6, <1>7, <1>11, <1>13 DEF Capped
  <2>4. /\ w \in Seq(Handed) /\ Len(w) = Len(v) + 1 /\ w[Len(v) + 1] = h
        /\ \A j \in 1..Len(v) : w[j] = v[j]
    BY <1>1, <1>5, <2>3
  <2>5. ASSUME NEW k \in 1..Len(v) + 1
        PROVE  records'[k] = [sequence |-> next_seq' - (Len(v) + 1) + k - 1, payload |-> w[k].section]
    <3>1. CASE k = Len(v) + 1
      <4>1. next_seq' - (Len(v) + 1) + k - 1 = next_seq
        BY <1>9, <1>11, <3>1
      <4> QED
        BY <1>1, <2>2, <2>4, <3>1, <4>1 DEF rec
    <3>2. CASE k # Len(v) + 1
      <4>1. k \in 1..Len(v)
        BY <1>11, <3>2
      <4>2. next_seq' - (Len(v) + 1) + k - 1 = next_seq - Len(v) + k - 1
        BY <1>9, <1>11
      <4>3. records[k] = [sequence |-> next_seq - Len(v) + k - 1, payload |-> v[k].section]
        BY <1>7, <1>11, <4>1
      <4> QED
        BY <2>2, <2>4, <4>1, <4>2, <4>3
    <3> QED
      BY <3>1, <3>2
  <2>6. Len(records') = Len(w) /\ DOMAIN w = 1..Len(v) + 1 /\ head' = 0
    BY <2>1, <2>2, <2>4
  <2>7. next_seq' = Len(Append(a, h))
    BY <1>1, <1>3, <1>7, <1>9
  <2>8. BufferHoldsNewest'
    BY <1>3, <2>4, <2>5, <2>6, <2>7 DEF BufferHoldsNewest, Accepted, w
  <2> QED
    BY <1>10, <2>6, <2>8 DEF BufferFollows
<1>14. Len(records) \in Nat /\ CAPACITY \in Nat
  BY <1>4, <1>8
<1> QED
  BY <1>12, <1>13, <1>14

\* Every step keeps the newest accepted sections in the buffer.
LEMMA BufferKeeps ==
  ASSUME PacketTypes, BufferFollows, [IngestNext]_ingestVars
  PROVE  BufferFollows'
<1>1. ASSUME UNCHANGED <<history, bufferVars>> PROVE BufferFollows'
  BY <1>1 DEF BufferFollows, bufferVars, BufferInv, BufferTypeOK, Numbered, ReadFirst, DeliveredOld,
              DeliveredOnceInOrder, BufferHoldsNewest
<1>2. ASSUME NEW h \in Handed, h \notin Accepted, history' = Append(history, h), UNCHANGED bufferVars
      PROVE  BufferFollows'
  <2>1. Kept(history', Accepted) = Kept(history, Accepted)
    BY <1>2, AcceptedFollow
  <2>2. BufferHoldsNewest'
    BY <1>2, <2>1 DEF BufferFollows, BufferHoldsNewest, Accepted, bufferVars
  <2>3. BufferInv'
    BY <1>2 DEF BufferFollows, bufferVars, BufferInv, BufferTypeOK, Numbered, ReadFirst,
                DeliveredOld, DeliveredOnceInOrder
  <2> QED
    BY <1>2, <2>2, <2>3 DEF BufferFollows, bufferVars
<1>3. ASSUME NEW sec \in Sections, HandleSection(sec) PROVE BufferFollows'
  <2> DEFINE acc == SectionAccepted(sec)
  <2>1. /\ history' = Append(history, [section |-> sec, ok |-> acc])
        /\ (acc /\ Push(sec)) \/ (~acc /\ UNCHANGED bufferVars)
    BY <1>3 DEF HandleSection
  <2>2. acc \in BOOLEAN
    BY AcceptedIsBoolean
  <2> HIDE DEF acc
  <2>3. CASE acc
    <3>1. acc = TRUE /\ Push(sec)
      BY <2>1, <2>2, <2>3
    <3>2. history' = Append(history, [section |-> sec, ok |-> TRUE])
      BY <2>1, <3>1
    <3> QED
      BY <3>1, <3>2, PushFollows
  <2>4. CASE ~acc
    <3> DEFINE h == [section |-> sec, ok |-> FALSE]
    <3>1. acc = FALSE /\ UNCHANGED bufferVars
      BY <2>1, <2>2, <2>4
    <3>2. h \in Handed /\ h \notin Accepted
      BY DEF Handed, Accepted
    <3>3. history' = Append(history, h)
      BY <2>1, <3>1
    <3> HIDE DEF h
    <3> QED
      BY <1>2, <3>1, <3>2, <3>3
  <2> QED
    BY <2>3, <2>4
<1>4. ASSUME NEW body \in ConfigBodies, LoadConfig(body) PROVE BufferFollows'
  <2> DEFINE sec == [type |-> "LoadConfig", schema |-> 0, body |-> body]
             h == [section |-> sec, ok |-> ConfigParses(body)]
  <2>1. history' = Append(history, h) /\ UNCHANGED bufferVars
    BY <1>4 DEF LoadConfig
  <2>2. sec \in Loads /\ sec.type = "LoadConfig"
    BY DEF Loads
  <2>3. sec \notin Sections
    <3> HIDE DEF sec
    <3> QED
      BY <2>2, IngestAssumption
  <2>4. h.section = sec /\ h \in Handed
    <3>1. ConfigParses(body) \in BOOLEAN
      BY DEF ConfigParses, Whole
    <3> HIDE DEF sec
    <3> QED
      BY <2>2, <3>1 DEF Handed
  <2> HIDE DEF h, sec
  <2>5. h \notin Accepted
    BY <2>3, <2>4 DEF Accepted
  <2> QED
    BY <1>2, <2>1, <2>4, <2>5
<1>5. ASSUME \/ RefusePacket \/ (\E n \in Announced : BeginPacket(n)) \/ CutShort \/ ReturnPacket \/ Reset
             \/ UNCHANGED ingestVars
      PROVE  UNCHANGED <<history, bufferVars>>
  BY <1>5 DEF RefusePacket, BeginPacket, CutShort, ReturnPacket, Reset, ingestVars, partVars
<1> QED
  BY <1>1, <1>3, <1>4, <1>5 DEF IngestNext

\* No section has been accepted at first and the buffer is empty.
LEMMA BufferStarts == IngestInit => BufferFollows
<1> SUFFICES ASSUME IngestInit PROVE BufferFollows
  OBVIOUS
<1>1. history = <<>> /\ BufferInit
  BY DEF IngestInit
<1>2. BufferInv /\ head = 0
  BY <1>1, BufferAssumption DEF BufferInit, BufferInv, BufferTypeOK, Numbered, ReadFirst, DeliveredOld,
                                DeliveredOnceInOrder
<1>3. Kept(history, Accepted) = <<>>
  BY <1>1, KeptOfEmpty
<1>4. Newest(<<>>, CAPACITY) = <<>>
  BY BufferAssumption DEF Newest
<1>6. Newest(Kept(history, Accepted), CAPACITY) = <<>>
  BY <1>3, <1>4
<1>7. records = <<>> /\ next_seq = 0 /\ DOMAIN <<>> = {} /\ Len(<<>>) = 0
  BY <1>1 DEF BufferInit
<1>5. BufferHoldsNewest
  BY <1>3, <1>6, <1>7 DEF BufferHoldsNewest, Accepted
<1> QED
  BY <1>2, <1>5 DEF BufferFollows

\* The buffer holds the newest of the accepted sections and nothing else
\* (ingest_pipeline.cpp:80-86), for every capacity, whatever packets they came in.
THEOREM BufferHolds == IngestSpec => []BufferHoldsNewest
<1>1. PacketInv => PacketTypes
  BY DEF PacketInv
<1>2. BufferFollows => BufferHoldsNewest
  BY DEF BufferFollows
<1> QED
  BY <1>1, <1>2, BufferStarts, BufferKeeps, PacketInvariant, PTL DEF IngestSpec

-----------------------------------------------------------------------------
(* Its parts: what a section leaves in the part it is for. *)

\* What is taken of a stream are records of its kind.
LEMMA TakenOf ==
  ASSUME NEW S, NEW s \in StreamOf(S), NEW slack \in BOOLEAN
  PROVE  Taken(s, slack) \in Seq(S)
<1>1. s.records \in Seq(S) /\ s.count \in Nat
  BY DEF StreamOf
<1>2. Len(s.records) \in Nat /\ <<>> \in Seq(S)
  BY <1>1
<1>3. Readable(s, slack) \in 0..Len(s.records)
  <2>1. s.records # <<>> => Len(s.records) # 0
    BY <1>1
  <2>2. Readable(s, slack) = Len(s.records)
        \/ (s.records # <<>> /\ Readable(s, slack) = Len(s.records) - 1)
    BY DEF Readable
  <2> QED
    BY <1>2, <2>1, <2>2
<1> DEFINE m == Min({s.count, Readable(s, slack)})
<1>4. m \in 0..Len(s.records)
  <2>1. /\ m \in {s.count, Readable(s, slack)} /\ m <= Readable(s, slack)
    <3>1. s.count \in Int /\ Readable(s, slack) \in Int
      BY <1>1, <1>3
    <3> QED
      BY <3>1, MinMaxOfTwo
  <2> HIDE DEF m
  <2> QED
    BY <1>1, <1>2, <1>3, <2>1
<1>5. Taken(s, slack) = SubSeq(s.records, 1, m) \/ Taken(s, slack) = <<>>
  BY DEF Taken
<1> HIDE DEF m
<1>6. SubSeq(s.records, 1, m) \in Seq(S)
  BY <1>1, <1>4
<1> QED
  BY <1>2, <1>5, <1>6

\* The body of a section by its type.
LEMMA SectionBodies ==
  ASSUME NEW sec \in Sections
  PROVE  /\ sec.schema \in SchemaIds
         /\ sec.type = "Config" => sec.body \in StreamOf(ConfigEntries)
         /\ sec.type = "Schema" => sec.body \in StreamOf(Fields)
         /\ sec.type = "Filter" => sec.body \in StreamOf(FilterRules)
         /\ sec.type = "Transform" => sec.body \in StreamOf(TransformStages)
         /\ sec.type = "Device" => sec.body \in StreamOf(Devices)
         /\ sec.type = "Metrics" => sec.body \in StreamOf(MetricSamples)
         /\ sec.type = "Log" => sec.body \in StreamOf(Events)
         /\ sec.type = "Codec" => sec.body \in StreamOf(Codecs \cup {"Other"})
         /\ sec.type = "Telemetry" => sec.body \in StreamOf(TelemetryRecords)
<1>1. /\ sec.schema \in SchemaIds
      /\ sec.type \in DOMAIN RecordsFor => sec.body \in StreamOf(RecordsFor[sec.type])
  BY IngestAssumption
<1>2. DOMAIN RecordsFor = {"Config", "Schema", "Filter", "Transform", "Device", "Metrics", "Log",
                           "Codec", "Telemetry"}
  BY DEF RecordsFor
<1>3. /\ RecordsFor["Config"] = ConfigEntries /\ RecordsFor["Schema"] = Fields
      /\ RecordsFor["Filter"] = FilterRules /\ RecordsFor["Transform"] = TransformStages
      /\ RecordsFor["Device"] = Devices /\ RecordsFor["Metrics"] = MetricSamples
      /\ RecordsFor["Log"] = Events /\ RecordsFor["Codec"] = Codecs \cup {"Other"}
      /\ RecordsFor["Telemetry"] = TelemetryRecords
  BY DEF RecordsFor
<1> QED
  BY <1>1, <1>2, <1>3

\* A map of records by id, after the records of a sequence were put into it.
LEMMA PutRecords ==
  ASSUME NEW S, NEW m, \A i \in DOMAIN m : m[i] \in S /\ m[i].id = i, NEW recs \in Seq(S),
         NEW n, n = PutAll(m, recs), NEW i \in DOMAIN n
  PROVE  n[i] \in S /\ n[i].id = i /\ (i \in DOMAIN m \/ i \in IdsOf(recs))
<1>1. n = [k \in DOMAIN m \cup IdsOf(recs) |-> IF k \in IdsOf(recs) THEN LastOf(recs, k) ELSE m[k]]
  BY DEF PutAll
<1>2. \A k \in IdsOf(recs) : LastOf(recs, k) \in S /\ LastOf(recs, k).id = k
  BY LastOfFound
<1> QED
  BY <1>1, <1>2

\* Parsing a configuration keeps its types (config_parser.cpp).
LEMMA ConfigKeeps ==
  ASSUME ConfigTypeOK, NEW body \in StreamOf(ConfigEntries), ParseBinary(body)
  PROVE  ConfigTypeOK'
<1>1. CASE body.header
  <2>1. entries' = PutAll(<< >>, Taken(body, FALSE)) /\ Taken(body, FALSE) \in Seq(ConfigEntries)
    BY <1>1, TakenOf DEF ParseBinary
  <2> DEFINE none == << >>
             recs == Taken(body, FALSE)
  <2>2. \A i \in DOMAIN none : none[i] \in ConfigEntries /\ none[i].id = i
    OBVIOUS
  <2>4. entries' = PutAll(none, recs) /\ recs \in Seq(ConfigEntries)
    BY <2>1
  <2> HIDE DEF none, recs
  <2>3. \A i \in DOMAIN entries' : entries'[i] \in ConfigEntries /\ entries'[i].id = i
    <3> DEFINE e == entries'
    <3>1. e = PutAll(none, recs)
      BY <2>4
    <3> HIDE DEF e
    <3>2. \A i \in DOMAIN e : e[i] \in ConfigEntries /\ e[i].id = i
      BY <2>2, <2>4, <3>1, PutRecords
    <3> QED
      BY <3>2 DEF e
  <2> QED
    BY <2>3 DEF ConfigTypeOK
<1>2. CASE ~body.header
  BY <1>2 DEF ParseBinary, ConfigTypeOK
<1> QED
  BY <1>1, <1>2

\* Loading a schema keeps the types of the registry (schema_registry.cpp).
LEMMA SchemasKeep ==
  ASSUME SchemaTypeOK, NEW id \in SchemaIds, NEW body \in StreamOf(Fields), LoadBinarySchema(id, body)
  PROVE  SchemaTypeOK'
<1> DEFINE fields == Taken(body, FALSE)
<1>1. CASE SchemaLoads(id, body)
  <2> DEFINE new == [fields |-> fields, record_size |-> RecordSize(fields)]
  <2>1. schemas' = [i \in DOMAIN schemas \cup {id} |-> IF i = id THEN new ELSE schemas[i]]
    BY <1>1 DEF LoadBinarySchema
  <2>2. id # 0 /\ fields # <<>> /\ fields \in Seq(Fields)
    BY <1>1, TakenOf DEF SchemaLoads, RegisterRefused
  <2>3. new.fields # <<>> /\ new.record_size < OFFSET_WRAP
    BY <2>2, RecordSizeBounded
  <2> HIDE DEF new
  <2>4. /\ DOMAIN schemas' = {id} \cup DOMAIN schemas
        /\ \A i \in DOMAIN schemas' : schemas'[i] = IF i = id THEN new ELSE schemas[i]
    BY <2>1
  <2> QED
    BY <2>2, <2>3, <2>4 DEF SchemaTypeOK
<1>2. CASE ~SchemaLoads(id, body)
  BY <1>2 DEF LoadBinarySchema, SchemaTypeOK
<1> QED
  BY <1>1, <1>2

GoodRules == {r \in FilterRules : r.conditions # <<>>}

\* The rules that are taken over are the good ones in their order, none without conditions.
LEMMA AcceptableIs ==
  ASSUME NEW recs \in Seq(FilterRules)
  PROVE  /\ Acceptable(recs) = Kept(recs, GoodRules)
         /\ Acceptable(recs) \in Seq(FilterRules)
         /\ \A i \in 1..Len(Acceptable(recs)) : Acceptable(recs)[i].conditions # <<>>
<1> DEFINE S == {r \in ToSet(recs) : r.conditions # <<>>}
<1>1. ASSUME NEW i \in 1..Len(recs) PROVE recs[i] \in S <=> recs[i] \in GoodRules
  <2>1. recs[i] \in FilterRules /\ recs[i] \in ToSet(recs)
    BY DEF ToSet
  <2> QED
    BY <2>1 DEF GoodRules
<1>2. Acceptable(recs) = Kept(recs, S)
  BY DEF Acceptable
<1> HIDE DEF S
<1>3. Kept(recs, S) = Kept(recs, GoodRules)
  BY <1>1, KeptSame
<1>4. /\ Kept(recs, GoodRules) \in Seq(FilterRules)
      /\ \A i \in 1..Len(Kept(recs, GoodRules)) : Kept(recs, GoodRules)[i] \in GoodRules
  BY KeptElements
<1> QED
  BY <1>2, <1>3, <1>4 DEF GoodRules

\* Loading rules keeps the types of the filter (filter_engine.cpp).
LEMMA RulesKeep ==
  ASSUME FilterTypeOK, NEW body \in StreamOf(FilterRules), LoadRulesBinary(body)
  PROVE  FilterTypeOK'
<1> DEFINE new == Acceptable(Taken(body, FALSE))
<1>1. rules' = rules \o new
  BY DEF LoadRulesBinary
<1>2. new \in Seq(FilterRules) /\ \A i \in 1..Len(new) : new[i].conditions # <<>>
  <2>1. Taken(body, FALSE) \in Seq(FilterRules)
    BY TakenOf
  <2> QED
    BY <2>1, AcceptableIs
<1>3. rules \in Seq(FilterRules) /\ \A k \in 1..Len(rules) : rules[k].conditions # <<>>
  BY DEF FilterTypeOK
<1> HIDE DEF new
<1>4. /\ rules' \in Seq(FilterRules) /\ Len(rules') = Len(rules) + Len(new)
      /\ \A k \in 1..Len(rules) + Len(new) :
           rules'[k] = IF k <= Len(rules) THEN rules[k] ELSE new[k - Len(rules)]
  BY <1>1, <1>2, <1>3
<1>5. Len(rules) \in Nat /\ Len(new) \in Nat
  BY <1>2, <1>3
<1>6. ASSUME NEW k \in 1..Len(rules) + Len(new) PROVE rules'[k].conditions # <<>>
  <2>1. CASE k <= Len(rules)
    BY <1>3, <1>4, <1>5, <2>1
  <2>2. CASE ~(k <= Len(rules))
    <3>1. k - Len(rules) \in 1..Len(new)
      BY <1>5, <2>2
    <3> QED
      BY <1>2, <1>4, <2>2, <3>1
  <2> QED
    BY <2>1, <2>2
<1>7. DOMAIN rules' = 1..Len(rules) + Len(new)
  BY <1>4
<1> QED
  BY <1>4, <1>6, <1>7 DEF FilterTypeOK

\* Loading a pipeline keeps its types (transform_pipeline.cpp).
LEMMA StagesKeep ==
  ASSUME TransformTypeOK, NEW body \in StreamOf(TransformStages), LoadPipelineBinary(body)
  PROVE  TransformTypeOK'
  BY TakenOf DEF TransformTypeOK, LoadPipelineBinary

\* Loading devices keeps the types of the registry (device_registry.cpp).
LEMMA DevicesKeep ==
  ASSUME DeviceTypeOK, NEW body \in StreamOf(Devices), LoadRegistryBinary(body)
  PROVE  DeviceTypeOK'
<1> DEFINE taken == Taken(body, FALSE)
           S == {d \in ToSet(taken) : d.id # 0}
           recs == Kept(taken, S)
           e == devices'
<1>1. e = PutAll(devices, recs)
  BY DEF LoadRegistryBinary
<1>2. taken \in Seq(Devices)
  BY TakenOf
<1>3. \A d \in S : d.id # 0
  OBVIOUS
<1> HIDE DEF taken, S, e
<1>4. recs \in Seq(Devices) /\ \A i \in 1..Len(recs) : recs[i] \in S
  BY <1>2, KeptElements
<1> HIDE DEF recs
<1>5. 0 \notin IdsOf(recs)
  BY <1>3, <1>4 DEF IdsOf
<1>6. e = [i \in DOMAIN devices \cup IdsOf(recs) |-> IF i \in IdsOf(recs) THEN LastOf(recs, i) ELSE devices[i]]
  BY <1>1 DEF PutAll
<1>7. \A i \in IdsOf(recs) : LastOf(recs, i).id = i
  BY <1>4, LastOfFound
<1>8. 0 \notin DOMAIN e /\ \A i \in DOMAIN e : e[i].id = i
  BY <1>5, <1>6, <1>7 DEF DeviceTypeOK
<1> QED
  BY <1>8 DEF e, DeviceTypeOK

\* Parsing a log stream keeps the types and the limit of the log (event_log.cpp).
LEMMA EventsKeep ==
  ASSUME EventLogTypeOK, NEW body \in StreamOf(Events), ParseLogStream(body)
  PROVE  EventLogTypeOK'
<1> DEFINE evs == Taken(body, FALSE)
           log == events'
<1>1. evs \in Seq(Events) /\ log = AppendEach(events, evs)
  BY TakenOf DEF ParseLogStream
<1>2. MAX_EVENTS \in Nat /\ events \in Seq(Events) /\ Len(events) <= MAX_EVENTS
  BY EventLogAssumption DEF EventLogTypeOK
<1> HIDE DEF evs, log
<1>3. Newest(events, MAX_EVENTS) = events
  BY <1>2 DEF Newest
<1>4. log = Newest(events \o evs, MAX_EVENTS)
  BY <1>1, <1>2, <1>3, EventsFollow
<1>5. events \o evs \in Seq(Events)
  BY <1>1, <1>2
<1>6. log \in Seq(Events) /\ Len(log) <= MAX_EVENTS
  <2>1. /\ log \in Seq(Events)
        /\ Len(log) <= MAX_EVENTS
    <3> DEFINE all == events \o evs
               n == MAX_EVENTS
    <3>1. all \in Seq(Events) /\ n \in Nat /\ log = Newest(all, n) /\ Len(all) \in Nat
      BY <1>2, <1>4, <1>5
    <3> HIDE DEF all, n
    <3>2. log \in Seq(Events) /\ Len(log) = IF Len(all) <= n THEN Len(all) ELSE n
      BY <3>1, NewestIs
    <3> QED
      BY <3>1, <3>2 DEF n
  <2> QED
    BY <1>2, <2>1
<1> QED
  BY <1>6 DEF log, EventLogTypeOK

\* Loading a codec table keeps its types (codec_dispatch.cpp).
LEMMA CodecsKeep ==
  ASSUME CodecTypeOK, NEW body \in StreamOf(Codecs \cup {"Other"}), LoadCodecTable(body)
  PROVE  CodecTypeOK'
  BY TakenOf DEF CodecTypeOK, LoadCodecTable

\* The valid records of a batch are records.
LEMMA ValidRecords ==
  ASSUME NEW body \in StreamOf(TelemetryRecords)
  PROVE  ValidOf(body) \in Seq(TelemetryRecords)
<1>1. body.records \in Seq(TelemetryRecords) /\ <<>> \in Seq(TelemetryRecords)
  BY DEF StreamOf
<1> QED
  BY <1>1, KeptElements DEF ValidOf

\* Decoding a batch keeps the types of the decoder (telemetry_decoder.cpp).
LEMMA CountsKeep ==
  ASSUME TelemetryTypeOK, NEW body \in StreamOf(TelemetryRecords), DecodeBatch(body)
  PROVE  TelemetryTypeOK'
<1> DEFINE valid == ValidOf(body)
           S(t) == {r \in ToSet(valid) : r.type = t}
           n(t) == Len(Kept(valid, S(t)))
<1>1. decode_stats' = [t \in RecordTypes |-> decode_stats[t] + n(t)]
  BY DEF DecodeBatch
<1>2. valid \in Seq(TelemetryRecords)
  BY ValidRecords
<1> HIDE DEF valid
<1>3. ASSUME NEW t \in RecordTypes PROVE decode_stats[t] + n(t) \in Nat
  <2> HIDE DEF S
  <2>1. Kept(valid, S(t)) \in Seq(TelemetryRecords)
    BY <1>2, KeptElements
  <2>2. n(t) \in Nat
    BY <2>1
  <2> HIDE DEF n
  <2> QED
    BY <2>2 DEF TelemetryTypeOK
<1>4. batch_count' \in Nat
  BY DEF DecodeBatch, TelemetryTypeOK
<1> HIDE DEF n, S
<1> QED
  BY <1>1, <1>3, <1>4 DEF TelemetryTypeOK

\* The power rails of a batch give samples.
LEMMA RailSamples ==
  ASSUME NEW body \in StreamOf(TelemetryRecords)
  PROVE  Rails(body) \in Seq(MetricSamples)
<1> DEFINE valid == ValidOf(body)
           S == {r \in ToSet(valid) : r.type = "PowerRail"}
           rails == Kept(valid, S)
<1>1. Rails(body) = [k \in DOMAIN rails |-> RailSample(rails[k])]
  BY DEF Rails
<1>2. valid \in Seq(TelemetryRecords) /\ \A r \in S : r.type = "PowerRail"
  BY ValidRecords
<1> HIDE DEF valid, S
<1>3. rails \in Seq(TelemetryRecords) /\ \A k \in 1..Len(rails) : rails[k] \in S
  BY <1>2, KeptElements
<1> HIDE DEF rails
<1>4. DOMAIN rails = 1..Len(rails) /\ Len(rails) \in Nat
  BY <1>3
<1>5. ASSUME NEW k \in 1..Len(rails) PROVE RailSample(rails[k]) \in MetricSamples
  BY <1>2, <1>3, IngestAssumption
<1>6. Rails(body) \in [1..Len(rails) -> MetricSamples]
  BY <1>1, <1>4, <1>5
<1> QED
  BY <1>4, <1>6

\* What a section does to each part: it is handled by the part it is for and leaves the others.
LEMMA SectionParts ==
  ASSUME NEW sec, ProcessSection(sec)
  PROVE  /\ IF sec.type = "Config" THEN ParseBinary(sec.body) ELSE UNCHANGED entries
         /\ IF sec.type = "Schema" THEN LoadBinarySchema(sec.schema, sec.body) ELSE UNCHANGED schemaVars
         /\ IF sec.type = "Device" THEN LoadRegistryBinary(sec.body) ELSE UNCHANGED devices
         /\ IF sec.type = "Log" THEN ParseLogStream(sec.body) ELSE UNCHANGED events
         /\ IF sec.type = "Codec" THEN LoadCodecTable(sec.body) ELSE UNCHANGED preferred_order
         /\ IF sec.type = "Filter" THEN LoadRulesBinary(sec.body) ELSE UNCHANGED rules
         /\ IF sec.type = "Transform" THEN LoadPipelineBinary(sec.body) ELSE UNCHANGED stages
         /\ IF sec.type = "Telemetry" THEN DecodeBatch(sec.body) ELSE UNCHANGED telemetryVars
         /\ \/ sec.type = "Metrics" /\ RecordEach(Taken(sec.body, FALSE))
            \/ sec.type = "Telemetry" /\ RecordEach(Rails(sec.body))
            \/ UNCHANGED metricVars
<1>1. /\ For(sec, "Config", ParseBinary(sec.body), entries)
      /\ For(sec, "Schema", LoadBinarySchema(sec.schema, sec.body), schemaVars)
      /\ For(sec, "Device", LoadRegistryBinary(sec.body), devices)
      /\ For(sec, "Log", ParseLogStream(sec.body), events)
      /\ For(sec, "Codec", LoadCodecTable(sec.body), preferred_order)
  BY DEF ProcessSection
<1>2. CASE sec.type = "Telemetry"
  <2>1. EvaluateTelemetry(sec.body)
    BY <1>2 DEF ProcessSection
  <2>2. DecodeBatch(sec.body) /\ RecordEach(Rails(sec.body)) /\ UNCHANGED <<stages, rules>>
    BY <2>1 DEF EvaluateTelemetry
  <2> QED
    BY <1>1, <1>2, <2>2 DEF For
<1>3. CASE sec.type = "Filter"
  <2>1. LoadRulesBinary(sec.body) /\ UNCHANGED <<transformVars, metricVars, telemetryVars>>
    BY <1>3 DEF ProcessSection
  <2> QED
    BY <1>1, <1>3, <2>1 DEF For, transformVars
<1>4. CASE sec.type = "Transform"
  <2>1. LoadPipelineBinary(sec.body) /\ UNCHANGED <<apply_count, filterVars, metricVars, telemetryVars>>
    BY <1>4 DEF ProcessSection
  <2> QED
    BY <1>1, <1>4, <2>1 DEF For, filterVars
<1>5. CASE sec.type = "Metrics"
  <2>1. RecordEach(Taken(sec.body, FALSE)) /\ UNCHANGED <<filterVars, transformVars, telemetryVars>>
    BY <1>5 DEF ProcessSection
  <2> QED
    BY <1>1, <1>5, <2>1 DEF For, filterVars, transformVars
<1>6. CASE sec.type \notin {"Telemetry", "Filter", "Transform", "Metrics"}
  <2>1. UNCHANGED <<filterVars, transformVars, metricVars, telemetryVars>>
    BY <1>6 DEF ProcessSection
  <2> QED
    BY <1>1, <1>6, <2>1 DEF For, filterVars, transformVars
<1> QED
  BY <1>2, <1>3, <1>4, <1>5, <1>6

PartTypes ==
  /\ ConfigTypeOK /\ SchemaTypeOK /\ FilterTypeOK /\ TransformTypeOK /\ DeviceTypeOK
  /\ MetricInv /\ EventLogTypeOK /\ CodecTypeOK /\ TelemetryTypeOK

\* Processing a section keeps the types of the parts.
LEMMA SectionTypes ==
  ASSUME PartTypes, NEW sec \in Sections, ProcessSection(sec)
  PROVE  PartTypes'
<1> USE DEF PartTypes
<1>1. ConfigTypeOK'
  <2>1. CASE sec.type = "Config"
    BY <2>1, SectionParts, SectionBodies, ConfigKeeps
  <2>2. CASE sec.type # "Config"
    BY <2>2, SectionParts DEF ConfigTypeOK
  <2> QED
    BY <2>1, <2>2
<1>2. SchemaTypeOK'
  <2>1. CASE sec.type = "Schema"
    BY <2>1, SectionParts, SectionBodies, SchemasKeep
  <2>2. CASE sec.type # "Schema"
    BY <2>2, SectionParts DEF SchemaTypeOK, schemaVars
  <2> QED
    BY <2>1, <2>2
<1>3. FilterTypeOK'
  <2>1. CASE sec.type = "Filter"
    BY <2>1, SectionParts, SectionBodies, RulesKeep
  <2>2. CASE sec.type # "Filter"
    BY <2>2, SectionParts DEF FilterTypeOK
  <2> QED
    BY <2>1, <2>2
<1>4. TransformTypeOK'
  <2>1. CASE sec.type = "Transform"
    BY <2>1, SectionParts, SectionBodies, StagesKeep
  <2>2. CASE sec.type # "Transform"
    BY <2>2, SectionParts DEF TransformTypeOK
  <2> QED
    BY <2>1, <2>2
<1>5. DeviceTypeOK'
  <2>1. CASE sec.type = "Device"
    BY <2>1, SectionParts, SectionBodies, DevicesKeep
  <2>2. CASE sec.type # "Device"
    BY <2>2, SectionParts DEF DeviceTypeOK
  <2> QED
    BY <2>1, <2>2
<1>6. MetricInv'
  <2>1. CASE sec.type = "Metrics" /\ RecordEach(Taken(sec.body, FALSE))
    <3>1. sec.body \in StreamOf(MetricSamples)
      BY <2>1, SectionBodies
    <3>2. Taken(sec.body, FALSE) \in Seq(MetricSamples)
      BY <3>1, TakenOf
    <3> QED
      BY <2>1, <3>2, RecordsKeep
  <2>2. CASE sec.type = "Telemetry" /\ RecordEach(Rails(sec.body))
    <3>1. sec.body \in StreamOf(TelemetryRecords)
      BY <2>2, SectionBodies
    <3>2. Rails(sec.body) \in Seq(MetricSamples)
      BY <3>1, RailSamples
    <3> QED
      BY <2>2, <3>2, RecordsKeep
  <2>3. CASE UNCHANGED metricVars
    BY <2>3 DEF metricVars, MetricInv
  <2> QED
    BY <2>1, <2>2, <2>3, SectionParts
<1>7. EventLogTypeOK'
  <2>1. CASE sec.type = "Log"
    BY <2>1, SectionParts, SectionBodies, EventsKeep
  <2>2. CASE sec.type # "Log"
    BY <2>2, SectionParts DEF EventLogTypeOK
  <2> QED
    BY <2>1, <2>2
<1>8. CodecTypeOK'
  <2>1. CASE sec.type = "Codec"
    BY <2>1, SectionParts, SectionBodies, CodecsKeep
  <2>2. CASE sec.type # "Codec"
    BY <2>2, SectionParts DEF CodecTypeOK
  <2> QED
    BY <2>1, <2>2
<1>9. TelemetryTypeOK'
  <2>1. CASE sec.type = "Telemetry"
    BY <2>1, SectionParts, SectionBodies, CountsKeep
  <2>2. CASE sec.type # "Telemetry"
    BY <2>2, SectionParts DEF TelemetryTypeOK, telemetryVars
  <2> QED
    BY <2>1, <2>2
<1> QED
  BY <1>1, <1>2, <1>3, <1>4, <1>5, <1>6, <1>7, <1>8, <1>9

\* Every step keeps the types of the parts.
LEMMA TypesKeep ==
  ASSUME PartTypes, [IngestNext]_ingestVars
  PROVE  PartTypes'
<1>1. ASSUME UNCHANGED partVars PROVE PartTypes'
  BY <1>1 DEF partVars, PartTypes, ConfigTypeOK, SchemaTypeOK, schemaVars, FilterTypeOK, filterVars,
              TransformTypeOK, transformVars, DeviceTypeOK, MetricInv, metricVars, EventLogTypeOK,
              CodecTypeOK, TelemetryTypeOK, telemetryVars
<1>2. ASSUME NEW sec \in Sections, HandleSection(sec) PROVE PartTypes'
  BY <1>2, SectionTypes DEF HandleSection
<1>3. ASSUME NEW body \in ConfigBodies, LoadConfig(body) PROVE PartTypes'
  <2>1. PICK sec \in Sections : sec.type = "Config" /\ body = sec.body
    BY DEF ConfigBodies
  <2>2. body \in StreamOf(ConfigEntries)
    BY <2>1, SectionBodies
  <2>3. /\ ParseBinary(body)
        /\ UNCHANGED <<schemaVars, filterVars, transformVars, devices, metricVars, events,
                       preferred_order, telemetryVars>>
    BY <1>3 DEF LoadConfig
  <2>4. ConfigTypeOK'
    BY <2>2, <2>3, ConfigKeeps DEF PartTypes
  <2> QED
    BY <2>3, <2>4 DEF PartTypes, SchemaTypeOK, schemaVars, FilterTypeOK, filterVars,
              TransformTypeOK, transformVars, DeviceTypeOK, MetricInv, metricVars, EventLogTypeOK,
              CodecTypeOK, TelemetryTypeOK, telemetryVars
<1>4. CASE Reset
  <2>1. /\ rules' = <<>> /\ stages' = <<>> /\ events' = <<>> /\ entries' = << >>
        /\ UNCHANGED <<schemaVars, devices, metricVars, preferred_order, telemetryVars>>
    BY <1>4 DEF Reset, FilterClear, TransformClear, EventLogClear, ConfigClear
  <2>2. <<>> \in Seq(FilterRules) /\ <<>> \in Seq(TransformStages) /\ <<>> \in Seq(Events)
        /\ Len(<<>>) = 0 /\ DOMAIN << >> = {} /\ MAX_EVENTS \in Nat
    BY EventLogAssumption
  <2>3. ConfigTypeOK' /\ FilterTypeOK' /\ TransformTypeOK' /\ EventLogTypeOK'
    BY <2>1, <2>2 DEF ConfigTypeOK, FilterTypeOK, TransformTypeOK, EventLogTypeOK
  <2> QED
    BY <2>1, <2>3 DEF PartTypes, SchemaTypeOK, schemaVars, DeviceTypeOK, MetricInv, metricVars,
              CodecTypeOK, TelemetryTypeOK, telemetryVars
<1>5. ASSUME \/ RefusePacket \/ (\E n \in Announced : BeginPacket(n)) \/ CutShort \/ ReturnPacket
             \/ UNCHANGED ingestVars
      PROVE  UNCHANGED partVars
  BY <1>5 DEF RefusePacket, BeginPacket, CutShort, ReturnPacket, ingestVars
<1> QED
  BY <1>1, <1>2, <1>3, <1>4, <1>5 DEF IngestNext

\* The parts start with their types.
LEMMA TypesStart == IngestInit => PartTypes
<1> SUFFICES ASSUME IngestInit PROVE PartTypes
  OBVIOUS
<1>1. /\ entries = << >> /\ schemas = << >> /\ rules = <<>> /\ stages = <<>> /\ devices = << >>
      /\ samples = << >> /\ stats = << >> /\ recorded = << >> /\ events = <<>>
      /\ preferred_order = <<"Raw", "Rle", "Lzss", "Delta", "Varint">>
      /\ decode_stats = [t \in RecordTypes |-> 0] /\ batch_count = 0
  BY DEF IngestInit, ConfigInit, SchemaInit, FilterInit, TransformInit, DeviceInit, MetricInit,
         EventLogInit, CodecInit, TelemetryInit
<1>2. <<>> \in Seq(FilterRules) /\ <<>> \in Seq(TransformStages) /\ <<>> \in Seq(Events)
      /\ Len(<<>>) = 0 /\ DOMAIN << >> = {} /\ MAX_EVENTS \in Nat
  BY EventLogAssumption
<1>3. CodecTypeOK
  BY <1>1 DEF CodecTypeOK, Codecs
<1>4. ConfigTypeOK /\ SchemaTypeOK /\ FilterTypeOK /\ TransformTypeOK /\ DeviceTypeOK /\ EventLogTypeOK
  BY <1>1, <1>2 DEF ConfigTypeOK, SchemaTypeOK, FilterTypeOK, TransformTypeOK, DeviceTypeOK,
                    EventLogTypeOK
<1>5. MetricInv /\ TelemetryTypeOK
  BY <1>1, <1>2 DEF MetricInv, TelemetryTypeOK
<1> QED
  BY <1>3, <1>4, <1>5 DEF PartTypes

\* Every part keeps its types, whatever sections come.
THEOREM PartsInvariant == IngestSpec => []PartTypes
  BY TypesStart, TypesKeep, PTL DEF IngestSpec

\* The pipeline, its parts and its buffer keep their types (ingest_pipeline.cpp:6-90).
THEOREM IngestTypes == IngestSpec => []IngestTypeOK
<1>1. MetricInv => MetricTypeOK
  BY DEF MetricInv, MetricTypeOK, Covers, Series
<1>2. PacketInv /\ BufferFollows /\ PartTypes => IngestTypeOK
  BY <1>1 DEF PacketInv, PacketTypes, BufferFollows, BufferInv, PartTypes, IngestTypeOK
<1>3. PacketInv => PacketTypes
  BY DEF PacketInv
<1> QED
  BY <1>2, <1>3, PacketInvariant, BufferStarts, BufferKeeps, PartsInvariant, PTL DEF IngestSpec

\* The metrics of the pipeline count every sample of a section, and of a power rail, that there
\* ever was (ingest_pipeline.cpp:32-64).
THEOREM IngestStats == IngestSpec => []StatsCoverAllSamples
<1>1. PartTypes => StatsCoverAllSamples
  <2> SUFFICES ASSUME PartTypes PROVE StatsCoverAllSamples
    OBVIOUS
  <2>1. ASSUME NEW m \in DOMAIN samples
        PROVE  Covers([samples |-> samples[m], stats |-> stats[m]], recorded[m])
               /\ recorded[m] # <<>>
    BY DEF PartTypes, MetricInv
  <2> QED
    BY <2>1, CoveredStatistics DEF StatsCoverAllSamples
<1> QED
  BY <1>1, PartsInvariant, PTL

-----------------------------------------------------------------------------
(* Its parts and the history: what the cleared parts hold is a function of    *)
(* the sections since the reset.                                              *)

Recent == SubSeq(history, since + 1, Len(history))

\* The definitions of the property, of any sequence of handed sections.
Headed(types) == {h \in Handed : h.section.type \in types /\ h.section.body.header}
BodiesOf(q, types) ==
  LET kept == Kept(q, {h \in ToSet(q) : h.section.type \in types /\ h.section.body.header})
  IN [k \in DOMAIN kept |-> kept[k].section.body]
LastBodyOf(q, types) == IF BodiesOf(q, types) = <<>> THEN BadHeader ELSE Last(BodiesOf(q, types))
TakenOfAll(q, type) == [k \in DOMAIN BodiesOf(q, {type}) |-> Taken(BodiesOf(q, {type})[k], FALSE)]
ConfigFollows(q, e) ==
  LET config == Taken(LastBodyOf(q, {"Config", "LoadConfig"}), FALSE)
  IN DOMAIN e = IdsOf(config) /\ \A key \in DOMAIN e : e[key] = LastOf(config, key)
StagesFollow(q, st) == st = Taken(LastBodyOf(q, {"Transform"}), TRUE)
RulesFollow(q, ru) == ru = Acceptable(FlattenSeq(TakenOfAll(q, "Filter")))
LogFollows(q, ev) == ev = Newest(FlattenSeq(TakenOfAll(q, "Log")), MAX_EVENTS)
PartsFollow ==
  ConfigFollows(Recent, entries) /\ StagesFollow(Recent, stages)
  /\ RulesFollow(Recent, rules) /\ LogFollows(Recent, events)

\* That the parts follow the sections is said part by part.
LEMMA PartsFollowIs == PartsFollow <=> PartsFollowSections
  BY DEF PartsFollow, PartsFollowSections, ConfigFollows, StagesFollow, RulesFollow, LogFollows,
         TakenOfAll, LastBodyOf, LastBody, BodiesOf, Bodies, Recent

\* One more section at the end.
LEMMA OneMoreBody ==
  ASSUME NEW q \in Seq(Handed), NEW h \in Handed, NEW types
  PROVE  BodiesOf(Append(q, h), types) = IF h \in Headed(types)
                                         THEN Append(BodiesOf(q, types), h.section.body)
                                         ELSE BodiesOf(q, types)
<1> DEFINE H(s) == {x \in ToSet(s) : x.section.type \in types /\ x.section.body.header}
           p == Append(q, h)
           body(w) == [k \in DOMAIN w |-> w[k].section.body]
           a == Kept(q, Headed(types))
<1>1. ASSUME NEW s \in Seq(Handed) PROVE Kept(s, H(s)) = Kept(s, Headed(types))
  <2>1. \A i \in 1..Len(s) : s[i] \in H(s) <=> s[i] \in Headed(types)
    <3>1. \A i \in 1..Len(s) : s[i] \in Handed /\ s[i] \in ToSet(s)
      BY DEF ToSet
    <3> QED
      BY <3>1 DEF Headed
  <2> HIDE DEF H
  <2> QED
    BY <2>1, KeptSame
<1>2. p \in Seq(Handed)
  OBVIOUS
<1>3. BodiesOf(q, types) = body(a) /\ BodiesOf(p, types) = body(Kept(p, Headed(types)))
  <2>1. BodiesOf(q, types) = body(Kept(q, H(q))) /\ BodiesOf(p, types) = body(Kept(p, H(p)))
    BY DEF BodiesOf
  <2> HIDE DEF body, H, p
  <2> QED
    BY <1>1, <1>2, <2>1
<1>4. Kept(p, Headed(types)) = IF h \in Headed(types) THEN Append(a, h) ELSE a
  BY KeptAppend
<1>5. a \in Seq(Handed)
  BY KeptElements
<1> HIDE DEF a, p
<1>6. body(Append(a, h)) = Append(body(a), h.section.body)
  <2> DEFINE S == {x.section.body : x \in Handed}
             l == body(Append(a, h))
             r == Append(body(a), h.section.body)
  <2>1. Append(a, h) \in Seq(Handed) /\ Len(Append(a, h)) = Len(a) + 1 /\ Len(a) \in Nat
        /\ Append(a, h)[Len(a) + 1] = h /\ \A k \in 1..Len(a) : Append(a, h)[k] = a[k]
    BY <1>5
  <2>2. body(a) \in Seq(S) /\ Len(body(a)) = Len(a) /\ \A k \in 1..Len(a) : body(a)[k] = a[k].section.body
    BY <1>5
  <2>3. DOMAIN Append(a, h) = 1..Len(a) + 1
    BY <2>1
  <2>4. l \in Seq(S) /\ Len(l) = Len(a) + 1 /\ \A k \in 1..Len(a) + 1 : l[k] = Append(a, h)[k].section.body
    <3> DEFINE b == Append(a, h)
    <3> HIDE DEF b
    <3>1. b \in Seq(Handed) /\ Len(b) = Len(a) + 1
      BY <2>1 DEF b
    <3>2. body(b) \in Seq(S) /\ Len(body(b)) = Len(b) /\ \A k \in 1..Len(b) : body(b)[k] = b[k].section.body
      BY <3>1
    <3> QED
      BY <3>1, <3>2 DEF b
  <2>5. h.section.body \in S
    OBVIOUS
  <2> HIDE DEF S, body
  <2>6. r \in Seq(S) /\ Len(r) = Len(a) + 1 /\ r[Len(a) + 1] = h.section.body
        /\ \A k \in 1..Len(a) : r[k] = a[k].section.body
    BY <2>1, <2>2, <2>5
  <2>7. \A k \in 1..Len(a) + 1 : l[k] = r[k]
    <3>1. ASSUME NEW k \in 1..Len(a) + 1 PROVE l[k] = r[k]
      <4>1. k = Len(a) + 1 \/ k \in 1..Len(a)
        BY <2>1
      <4> HIDE DEF l, r
      <4> QED
        BY <2>1, <2>4, <2>6, <4>1
    <3> QED
      BY <3>1
  <2> HIDE DEF l, r
  <2>8. l = r
    BY <2>4, <2>6, <2>7
  <2> QED
    BY <2>8 DEF l, r
<1> HIDE DEF body
<1> QED
  BY <1>3, <1>4, <1>6 DEF p

\* The bodies of a sequence are streams of their kind.
LEMMA BodiesType ==
  ASSUME NEW q \in Seq(Handed), NEW types, NEW S,
         \A h \in Headed(types) : h.section.body \in StreamOf(S)
  PROVE  BodiesOf(q, types) \in Seq(StreamOf(S))
<1> DEFINE H == {x \in ToSet(q) : x.section.type \in types /\ x.section.body.header}
           a == Kept(q, H)
<1>1. a \in Seq(Handed) /\ \A i \in 1..Len(a) : a[i] \in H
  BY KeptElements
<1>2. \A x \in Handed : x \in H => x \in Headed(types)
  BY DEF Headed
<1>3. BodiesOf(q, types) = [k \in DOMAIN a |-> a[k].section.body]
  BY DEF BodiesOf
<1> HIDE DEF a, H
<1>4. DOMAIN a = 1..Len(a) /\ Len(a) \in Nat /\ \A i \in 1..Len(a) : a[i] \in Handed
  BY <1>1
<1>5. \A i \in 1..Len(a) : a[i].section.body \in StreamOf(S)
  BY <1>1, <1>2, <1>4
<1> HIDE DEF StreamOf
<1> QED
  BY <1>3, <1>4, <1>5

\* The bodies that the cleared parts accept the header of.
LEMMA HeadedBodies ==
  /\ \A h \in Headed({"Filter"}) : h.section.body \in StreamOf(FilterRules)
  /\ \A h \in Headed({"Log"}) : h.section.body \in StreamOf(Events)
<1>1. ASSUME NEW h \in Handed, h.section.type # "LoadConfig" PROVE h.section \in Sections
  BY <1>1 DEF Handed, Loads
<1> QED
  BY <1>1, SectionBodies DEF Headed

\* The body of the last section of some types, after one more section.
LEMMA OneMoreLast ==
  ASSUME NEW q \in Seq(Handed), NEW h \in Handed, NEW types
  PROVE  LastBodyOf(Append(q, h), types) = IF h \in Headed(types) THEN h.section.body
                                           ELSE LastBodyOf(q, types)
<1> DEFINE S == {x.section.body : x \in Handed}
           b == BodiesOf(q, types)
           c == BodiesOf(Append(q, h), types)
<1>1. c = IF h \in Headed(types) THEN Append(b, h.section.body) ELSE b
  BY OneMoreBody
<1>2. b \in Seq(S) /\ h.section.body \in S
  <2> DEFINE H == {x \in ToSet(q) : x.section.type \in types /\ x.section.body.header}
             a == Kept(q, H)
  <2>1. a \in Seq(Handed)
    BY KeptElements
  <2>2. b = [k \in DOMAIN a |-> a[k].section.body]
    BY DEF BodiesOf
  <2> HIDE DEF a, b
  <2> QED
    BY <2>1, <2>2
<1>3. LastBodyOf(Append(q, h), types) = (IF c = <<>> THEN BadHeader ELSE Last(c))
      /\ LastBodyOf(q, types) = (IF b = <<>> THEN BadHeader ELSE Last(b))
  BY DEF LastBodyOf
<1> HIDE DEF b, c, S
<1>4. CASE h \in Headed(types)
  <2>1. c \in Seq(S) /\ Len(c) = Len(b) + 1 /\ c[Len(b) + 1] = h.section.body /\ Len(b) \in Nat
    BY <1>1, <1>2, <1>4
  <2>2. c # <<>> /\ Last(c) = h.section.body
    BY <2>1 DEF Last
  <2> QED
    BY <1>3, <1>4, <2>2
<1>5. CASE h \notin Headed(types)
  BY <1>1, <1>3, <1>5
<1> QED
  BY <1>4, <1>5

\* What was taken from the sections of a type, after one more section.
LEMMA OneMoreTaken ==
  ASSUME NEW q \in Seq(Handed), NEW h \in Handed, NEW type, NEW S,
         \A x \in Headed({type}) : x.section.body \in StreamOf(S)
  PROVE  /\ FlattenSeq(TakenOfAll(q, type)) \in Seq(S)
         /\ FlattenSeq(TakenOfAll(Append(q, h), type)) =
              IF h \in Headed({type})
              THEN FlattenSeq(TakenOfAll(q, type)) \o Taken(h.section.body, FALSE)
              ELSE FlattenSeq(TakenOfAll(q, type))
<1> DEFINE b == BodiesOf(q, {type})
           c == BodiesOf(Append(q, h), {type})
           t == TakenOfAll(q, type)
           u == TakenOfAll(Append(q, h), type)
           x == Taken(h.section.body, FALSE)
<1>1. c = IF h \in Headed({type}) THEN Append(b, h.section.body) ELSE b
  BY OneMoreBody
<1>2. b \in Seq(StreamOf(S))
  BY BodiesType
<1>3. t = [k \in DOMAIN b |-> Taken(b[k], FALSE)] /\ u = [k \in DOMAIN c |-> Taken(c[k], FALSE)]
  BY DEF TakenOfAll
<1> HIDE DEF b, c, t, u
<1>4. t \in Seq(Seq(S)) /\ Len(t) = Len(b) /\ Len(b) \in Nat
  <2>1. ASSUME NEW k \in 1..Len(b) PROVE Taken(b[k], FALSE) \in Seq(S)
    <3>1. b[k] \in StreamOf(S)
      BY <1>2
    <3> QED
      BY <3>1, TakenOf
  <2>2. DOMAIN b = 1..Len(b) /\ Len(b) \in Nat
    BY <1>2
  <2>3. t = [k \in 1..Len(b) |-> Taken(b[k], FALSE)]
    BY <1>3, <2>2
  <2>4. t \in [1..Len(b) -> Seq(S)]
    BY <2>1, <2>3
  <2> QED
    BY <2>2, <2>4
<1>5. ASSUME h \in Headed({type}) PROVE u = Append(t, x) /\ x \in Seq(S)
  <2>1. x \in Seq(S)
    BY <1>5, TakenOf
  <2> DEFINE y == h.section.body
             r == Append(t, x)
  <2>2. y \in StreamOf(S) /\ x = Taken(y, FALSE)
    BY <1>5
  <2> HIDE DEF x, y
  <2>3. c = Append(b, y)
    BY <1>1, <1>5 DEF y
  <2>4. DOMAIN c = 1..Len(b) + 1 /\ c[Len(b) + 1] = y /\ \A k \in 1..Len(b) : c[k] = b[k]
    BY <1>2, <2>2, <2>3
  <2>5. u = [k \in 1..Len(b) + 1 |-> Taken(c[k], FALSE)]
    BY <1>3, <2>4
  <2>6. r \in Seq(Seq(S)) /\ DOMAIN r = 1..Len(b) + 1 /\ r[Len(b) + 1] = x
        /\ \A k \in 1..Len(b) : r[k] = t[k]
    BY <1>4, <2>1
  <2>7. \A k \in 1..Len(b) : t[k] = Taken(b[k], FALSE)
    <3>1. DOMAIN b = 1..Len(b)
      BY <1>2
    <3> QED
      BY <1>3, <3>1
  <2> HIDE DEF r
  <2>8. ASSUME NEW k \in 1..Len(b) + 1 PROVE Taken(c[k], FALSE) = r[k]
    <3>1. k = Len(b) + 1 \/ k \in 1..Len(b)
      BY <1>4
    <3> QED
      BY <2>2, <2>4, <2>6, <2>7, <3>1
  <2>9. r = [k \in 1..Len(b) + 1 |-> r[k]]
    BY <2>6
  <2> QED
    BY <2>1, <2>5, <2>8, <2>9 DEF r
<1>6. h \notin Headed({type}) => u = t
  BY <1>1, <1>3
<1> HIDE DEF x
<1>7. FlattenSeq(t) \in Seq(S)
  <2>1. <<>> \in Seq(S)
    OBVIOUS
  <2> QED
    BY <1>4, <2>1, FlattenLonger
<1>8. h \in Headed({type}) => FlattenSeq(u) = FlattenSeq(t) \o x
  BY <1>4, <1>5, FlattenLonger
<1> QED
  BY <1>6, <1>7, <1>8 DEF t, u, x

\* One section more: the configuration is still the last that was parsed.
LEMMA ConfigStep ==
  ASSUME NEW q \in Seq(Handed), NEW h \in Handed, ConfigFollows(q, entries),
         IF h.section.type \in {"Config", "LoadConfig"} THEN ParseBinary(h.section.body)
                                                        ELSE UNCHANGED entries
  PROVE  ConfigFollows(Append(q, h), entries')
<1> DEFINE types == {"Config", "LoadConfig"}
<1>1. CASE h \in Headed(types)
  <2> DEFINE e == entries'
             taken == Taken(h.section.body, FALSE)
  <2>1. h.section.type \in types /\ h.section.body.header
    BY <1>1 DEF Headed
  <2>2. e = PutAll(<< >>, taken)
    BY <2>1 DEF ParseBinary
  <2>3. LastBodyOf(Append(q, h), types) = h.section.body
    BY <1>1, OneMoreLast
  <2>4. DOMAIN << >> = {}
    OBVIOUS
  <2> HIDE DEF e
  <2>5. ConfigFollows(Append(q, h), e) <=>
          DOMAIN e = IdsOf(taken) /\ \A key \in DOMAIN e : e[key] = LastOf(taken, key)
    BY <2>3 DEF ConfigFollows
  <2> HIDE DEF taken
  <2>6. DOMAIN e = IdsOf(taken) /\ \A key \in DOMAIN e : e[key] = LastOf(taken, key)
    BY <2>2, <2>4 DEF PutAll
  <2> QED
    BY <2>5, <2>6 DEF e
<1>2. CASE h \notin Headed(types)
  <2>1. entries' = entries
    BY <1>2 DEF Headed, ParseBinary
  <2>2. LastBodyOf(Append(q, h), types) = LastBodyOf(q, types)
    BY <1>2, OneMoreLast
  <2> QED
    BY <2>1, <2>2 DEF ConfigFollows
<1> QED
  BY <1>1, <1>2

\* One section more: the stages are still the last that were loaded.
LEMMA StagesStep ==
  ASSUME NEW q \in Seq(Handed), NEW h \in Handed, StagesFollow(q, stages),
         IF h.section.type = "Transform" THEN LoadPipelineBinary(h.section.body)
                                         ELSE UNCHANGED stages
  PROVE  StagesFollow(Append(q, h), stages')
<1>1. CASE h \in Headed({"Transform"})
  <2>1. h.section.type = "Transform" /\ h.section.body.header
    BY <1>1 DEF Headed
  <2>2. stages' = Taken(h.section.body, TRUE)
    BY <2>1 DEF LoadPipelineBinary
  <2>3. LastBodyOf(Append(q, h), {"Transform"}) = h.section.body
    BY <1>1, OneMoreLast
  <2> QED
    BY <2>2, <2>3 DEF StagesFollow
<1>2. CASE h \notin Headed({"Transform"})
  <2>1. stages' = stages
    BY <1>2 DEF Headed, LoadPipelineBinary
  <2>2. LastBodyOf(Append(q, h), {"Transform"}) = LastBodyOf(q, {"Transform"})
    BY <1>2, OneMoreLast
  <2> QED
    BY <2>1, <2>2 DEF StagesFollow
<1> QED
  BY <1>1, <1>2

\* One section more: the rules are still all that were loaded.
LEMMA RulesStep ==
  ASSUME NEW q \in Seq(Handed), NEW h \in Handed, RulesFollow(q, rules),
         IF h.section.type = "Filter" THEN LoadRulesBinary(h.section.body) ELSE UNCHANGED rules
  PROVE  RulesFollow(Append(q, h), rules')
<1> DEFINE all == FlattenSeq(TakenOfAll(q, "Filter"))
           more == FlattenSeq(TakenOfAll(Append(q, h), "Filter"))
           x == Taken(h.section.body, FALSE)
<1>1. /\ all \in Seq(FilterRules)
      /\ more = IF h \in Headed({"Filter"}) THEN all \o x ELSE all
  BY HeadedBodies, OneMoreTaken
<1>2. rules = Acceptable(all) /\ (RulesFollow(Append(q, h), rules') <=> rules' = Acceptable(more))
  BY DEF RulesFollow
<1>3. CASE h \in Headed({"Filter"})
  <2>1. h.section.type = "Filter" /\ h.section.body \in StreamOf(FilterRules)
    BY <1>3, HeadedBodies DEF Headed
  <2>2. rules' = rules \o Acceptable(x) /\ x \in Seq(FilterRules)
    BY <2>1, TakenOf DEF LoadRulesBinary
  <2> HIDE DEF all, more, x
  <2>3. all \o x \in Seq(FilterRules)
    BY <1>1, <2>2
  <2> DEFINE both == all \o x
  <2> HIDE DEF both
  <2>4. /\ Acceptable(both) = Kept(both, GoodRules) /\ Acceptable(all) = Kept(all, GoodRules)
        /\ Acceptable(x) = Kept(x, GoodRules)
    BY <1>1, <2>2, <2>3, AcceptableIs DEF both
  <2>5. Kept(both, GoodRules) = Kept(all, GoodRules) \o Kept(x, GoodRules)
    BY <1>1, <2>2, KeptOfBoth DEF both
  <2> QED
    BY <1>1, <1>2, <1>3, <2>2, <2>4, <2>5 DEF both
<1>4. CASE h \notin Headed({"Filter"})
  <2>1. CASE h.section.type = "Filter"
    <3>1. ~h.section.body.header
      BY <1>4, <2>1 DEF Headed
    <3>2. x = <<>> /\ rules' = rules \o Acceptable(x)
      BY <2>1, <3>1 DEF Taken, LoadRulesBinary
    <3>3. Acceptable(<<>>) = <<>>
      BY KeptOfEmpty DEF Acceptable
    <3>4. rules \in Seq(FilterRules)
      BY <1>1, <1>2, AcceptableIs
    <3> HIDE DEF all, more, x
    <3>5. rules' = rules
      BY <3>2, <3>3, <3>4
    <3> QED
      BY <1>1, <1>2, <1>4, <3>5
  <2>2. CASE h.section.type # "Filter"
    BY <1>1, <1>2, <1>4, <2>2
  <2> QED
    BY <2>1, <2>2
<1> QED
  BY <1>3, <1>4

\* One section more: the log still has the newest events.
LEMMA LogStep ==
  ASSUME NEW q \in Seq(Handed), NEW h \in Handed, LogFollows(q, events),
         IF h.section.type = "Log" THEN ParseLogStream(h.section.body) ELSE UNCHANGED events
  PROVE  LogFollows(Append(q, h), events')
<1> DEFINE all == FlattenSeq(TakenOfAll(q, "Log"))
           more == FlattenSeq(TakenOfAll(Append(q, h), "Log"))
           x == Taken(h.section.body, FALSE)
<1>1. /\ all \in Seq(Events)
      /\ more = IF h \in Headed({"Log"}) THEN all \o x ELSE all
  BY HeadedBodies, OneMoreTaken
<1>2. /\ events = Newest(all, MAX_EVENTS)
      /\ LogFollows(Append(q, h), events') <=> events' = Newest(more, MAX_EVENTS)
  BY DEF LogFollows
<1>3. ASSUME h.section.type = "Log" PROVE events' = AppendEach(Newest(all, MAX_EVENTS), x)
  BY <1>2, <1>3 DEF ParseLogStream
<1>4. CASE h \in Headed({"Log"})
  <2>1. h.section.type = "Log" /\ h.section.body \in StreamOf(Events)
    BY <1>4, HeadedBodies DEF Headed
  <2>2. x \in Seq(Events)
    BY <2>1, TakenOf
  <2>3. events' = AppendEach(Newest(all, MAX_EVENTS), x)
    BY <1>3, <2>1
  <2> HIDE DEF all, more, x
  <2>4. events' = Newest(all \o x, MAX_EVENTS)
    BY <1>1, <2>2, <2>3, EventsFollow
  <2> QED
    BY <1>1, <1>2, <1>4, <2>4
<1>5. CASE h \notin Headed({"Log"})
  <2>1. CASE h.section.type = "Log"
    <3>1. ~h.section.body.header
      BY <1>5, <2>1 DEF Headed
    <3>2. x = <<>> /\ events' = AppendEach(Newest(all, MAX_EVENTS), x)
      BY <1>3, <2>1, <3>1 DEF Taken
    <3>3. <<>> \in Seq(Events)
      OBVIOUS
    <3> HIDE DEF all, more, x
    <3>4. all \o <<>> = all
      BY <1>1
    <3>5. events' = Newest(all \o <<>>, MAX_EVENTS)
      BY <1>1, <3>2, <3>3, EventsFollow
    <3> QED
      BY <1>1, <1>2, <1>5, <3>4, <3>5
  <2>2. CASE h.section.type # "Log"
    BY <1>1, <1>2, <1>5, <2>2
  <2> QED
    BY <2>1, <2>2
<1> QED
  BY <1>4, <1>5

\* One more section in the history is one more recent section.
LEMMA RecentGrows ==
  ASSUME history \in Seq(Handed), since \in 0..Len(history), NEW h \in Handed,
         history' = Append(history, h), since' = since
  PROVE  Recent \in Seq(Handed) /\ Recent' = Append(Recent, h)
<1> DEFINE w == history'
           n == Len(history)
           r == SubSeq(w, since + 1, n + 1)
           t == Append(Recent, h)
<1>1. n \in Nat /\ since \in Nat /\ since <= n
  OBVIOUS
<1>2. w \in Seq(Handed) /\ Len(w) = n + 1 /\ w[n + 1] = h /\ \A k \in 1..n : w[k] = history[k]
  <2>1. w = Append(history, h)
    OBVIOUS
  <2> HIDE DEF w
  <2> QED
    BY <2>1
<1>3. Recent' = r
  BY <1>2 DEF Recent
<1> HIDE DEF w, n
<1>4. Recent = SubSeq(history, since + 1, n)
  BY DEF Recent, n
<1>5. Recent \in Seq(Handed) /\ Len(Recent) = n - since
      /\ \A k \in 1..n - since : Recent[k] = history[since + k]
  BY <1>1, <1>4 DEF n
<1>6. r \in Seq(Handed) /\ Len(r) = n + 1 - since
      /\ \A k \in 1..n + 1 - since : r[k] = w[since + k]
  BY <1>1, <1>2
<1>7. t \in Seq(Handed) /\ Len(t) = n + 1 - since /\ t[n + 1 - since] = h
      /\ \A k \in 1..n - since : t[k] = Recent[k]
  <2> DEFINE s == Recent
  <2>1. s \in Seq(Handed) /\ Len(s) = n - since /\ t = Append(s, h)
    BY <1>5
  <2> HIDE DEF s, t
  <2>2. t \in Seq(Handed) /\ Len(t) = Len(s) + 1 /\ t[Len(s) + 1] = h
        /\ \A k \in 1..Len(s) : t[k] = s[k]
    BY <2>1
  <2>3. Len(s) + 1 = n + 1 - since
    BY <1>1, <2>1
  <2> QED
    BY <2>1, <2>2, <2>3 DEF s
<1>8. ASSUME NEW k \in 1..n + 1 - since PROVE r[k] = t[k]
  <2>1. k \in Nat /\ (k = n + 1 - since \/ k \in 1..n - since)
    BY <1>1
  <2>2. k \in 1..n - since => since + k \in 1..n
    BY <1>1, <2>1
  <2> HIDE DEF r, t
  <2>3. CASE k \in 1..n - since
    BY <1>2, <1>5, <1>6, <1>7, <2>2, <2>3
  <2>4. CASE k = n + 1 - since
    <3>1. since + k = n + 1
      BY <1>1, <2>4
    <3> QED
      BY <1>2, <1>6, <1>7, <2>4, <3>1
  <2> QED
    BY <2>1, <2>3, <2>4
<1> HIDE DEF r, t
<1>9. r = t
  BY <1>6, <1>7, <1>8
<1> QED
  BY <1>3, <1>5, <1>9 DEF t

\* Without sections the cleared parts are empty.
LEMMA NothingRecent ==
  ASSUME NEW e, DOMAIN e = {}
  PROVE  ConfigFollows(<<>>, e) /\ StagesFollow(<<>>, <<>>) /\ RulesFollow(<<>>, <<>>)
         /\ LogFollows(<<>>, <<>>)
<1>1. ASSUME NEW types PROVE BodiesOf(<<>>, types) = <<>>
  <2> DEFINE kept == Kept(<<>>, {h \in ToSet(<<>>) : h.section.type \in types /\ h.section.body.header})
  <2>1. kept = <<>>
    BY KeptOfEmpty
  <2>2. BodiesOf(<<>>, types) = [k \in DOMAIN kept |-> kept[k].section.body]
    BY DEF BodiesOf
  <2> HIDE DEF kept
  <2> QED
    BY <2>1, <2>2
<1>2. ASSUME NEW types, NEW slack PROVE Taken(LastBodyOf(<<>>, types), slack) = <<>>
  <2>1. LastBodyOf(<<>>, types) = BadHeader
    BY <1>1 DEF LastBodyOf
  <2> QED
    BY <2>1 DEF Taken, BadHeader
<1>3. ASSUME NEW type PROVE FlattenSeq(TakenOfAll(<<>>, type)) = <<>>
  <2>1. TakenOfAll(<<>>, type) = <<>>
    <3> DEFINE b == BodiesOf(<<>>, {type})
    <3>1. b = <<>>
      BY <1>1
    <3>2. TakenOfAll(<<>>, type) = [k \in DOMAIN b |-> Taken(b[k], FALSE)]
      BY DEF TakenOfAll
    <3> HIDE DEF b
    <3> QED
      BY <3>1, <3>2
  <2> QED
    BY <2>1, FlattenNone
<1>4. ConfigFollows(<<>>, e)
  <2>1. IdsOf(<<>>) = {}
    BY DEF IdsOf
  <2> QED
    BY <1>2, <2>1 DEF ConfigFollows
<1>5. StagesFollow(<<>>, <<>>)
  BY <1>2 DEF StagesFollow
<1>6. RulesFollow(<<>>, <<>>)
  <2>1. Acceptable(<<>>) = <<>>
    BY KeptOfEmpty DEF Acceptable
  <2> QED
    BY <1>3, <2>1 DEF RulesFollow
<1>7. LogFollows(<<>>, <<>>)
  <2>1. MAX_EVENTS \in Nat /\ Len(<<>>) = 0
    BY EventLogAssumption
  <2>2. Newest(<<>>, MAX_EVENTS) = <<>>
    BY <2>1 DEF Newest
  <2> QED
    BY <1>3, <2>2 DEF LogFollows
<1> QED
  BY <1>4, <1>5, <1>6, <1>7

\* In the next state, too, it is said part by part.
LEMMA PartsNext ==
  ConfigFollows(Recent', entries') /\ StagesFollow(Recent', stages') /\ RulesFollow(Recent', rules')
  /\ LogFollows(Recent', events') => PartsFollow'
  BY DEF PartsFollow

\* No section has been handed on at first, and the parts are empty.
LEMMA PartsStart == IngestInit => PartsFollow
<1> SUFFICES ASSUME IngestInit PROVE PartsFollow
  OBVIOUS
<1>1. /\ entries = << >> /\ stages = <<>> /\ rules = <<>> /\ events = <<>>
      /\ history = <<>> /\ since = 0
  BY DEF IngestInit, ConfigInit, FilterInit, TransformInit, EventLogInit
<1>2. Recent = <<>> /\ DOMAIN << >> = {}
  BY <1>1 DEF Recent
<1> QED
  BY <1>1, <1>2, NothingRecent DEF PartsFollow

\* Every step keeps the parts what the sections since the reset make of them.
LEMMA PartsStep ==
  ASSUME PacketInv, PartsFollow, [IngestNext]_ingestVars
  PROVE  PartsFollow'
<1>1. history \in Seq(Handed) /\ since \in 0..Len(history)
  BY DEF PacketInv, PacketTypes
<1>2. ASSUME NEW sec \in Sections, HandleSection(sec) PROVE PartsFollow'
  <2> DEFINE h == [section |-> sec, ok |-> SectionAccepted(sec)]
  <2>1. h \in Handed /\ h.section = sec
    BY AcceptedIsBoolean DEF Handed
  <2>2. history' = Append(history, h) /\ since' = since /\ ProcessSection(sec)
    BY <1>2 DEF HandleSection
  <2>3. sec.type # "LoadConfig"
    BY IngestAssumption
  <2>4. /\ IF sec.type = "Config" THEN ParseBinary(sec.body) ELSE UNCHANGED entries
        /\ IF sec.type = "Transform" THEN LoadPipelineBinary(sec.body) ELSE UNCHANGED stages
        /\ IF sec.type = "Filter" THEN LoadRulesBinary(sec.body) ELSE UNCHANGED rules
        /\ IF sec.type = "Log" THEN ParseLogStream(sec.body) ELSE UNCHANGED events
    BY <2>2, SectionParts
  <2> HIDE DEF h
  <2>5. Recent \in Seq(Handed) /\ Recent' = Append(Recent, h)
    BY <1>1, <2>1, <2>2, RecentGrows
  <2> DEFINE q == Recent
  <2>6. q \in Seq(Handed) /\ ConfigFollows(q, entries) /\ StagesFollow(q, stages)
        /\ RulesFollow(q, rules) /\ LogFollows(q, events)
    BY <2>5 DEF PartsFollow
  <2> HIDE DEF q
  <2>7. ConfigFollows(Append(q, h), entries')
    BY <2>1, <2>3, <2>4, <2>6, ConfigStep
  <2>8. StagesFollow(Append(q, h), stages')
    BY <2>1, <2>4, <2>6, StagesStep
  <2>9. RulesFollow(Append(q, h), rules')
    BY <2>1, <2>4, <2>6, RulesStep
  <2>10. LogFollows(Append(q, h), events')
    BY <2>1, <2>4, <2>6, LogStep
  <2> QED
    BY <2>5, <2>7, <2>8, <2>9, <2>10, PartsNext DEF q
<1>3. ASSUME NEW body \in ConfigBodies, LoadConfig(body) PROVE PartsFollow'
  <2> DEFINE sec == [type |-> "LoadConfig", schema |-> 0, body |-> body]
             h == [section |-> sec, ok |-> ConfigParses(body)]
  <2>1. h \in Handed /\ h.section.type = "LoadConfig" /\ h.section.body = body
    BY AcceptedIsBoolean DEF Handed, Loads, ConfigParses, Whole
  <2>2. history' = Append(history, h) /\ since' = since /\ ParseBinary(body)
        /\ UNCHANGED <<stages, rules, events>>
    BY <1>3 DEF LoadConfig, filterVars, transformVars
  <2> HIDE DEF h
  <2>5. Recent \in Seq(Handed) /\ Recent' = Append(Recent, h)
    BY <1>1, <2>1, <2>2, RecentGrows
  <2> DEFINE q == Recent
  <2>6. q \in Seq(Handed) /\ ConfigFollows(q, entries) /\ StagesFollow(q, stages)
        /\ RulesFollow(q, rules) /\ LogFollows(q, events)
    BY <2>5 DEF PartsFollow
  <2> HIDE DEF q
  <2>7. ConfigFollows(Append(q, h), entries')
    BY <2>1, <2>2, <2>6, ConfigStep
  <2>8. StagesFollow(Append(q, h), stages')
    BY <2>1, <2>2, <2>6, StagesStep
  <2>9. RulesFollow(Append(q, h), rules')
    BY <2>1, <2>2, <2>6, RulesStep
  <2>10. LogFollows(Append(q, h), events')
    BY <2>1, <2>2, <2>6, LogStep
  <2> QED
    BY <2>5, <2>7, <2>8, <2>9, <2>10, PartsNext DEF q
<1>4. CASE Reset
  <2>1. /\ rules' = <<>> /\ stages' = <<>> /\ events' = <<>> /\ entries' = << >>
        /\ since' = Len(history) /\ history' = history
    BY <1>4 DEF Reset, FilterClear, TransformClear, EventLogClear, ConfigClear
  <2>2. Recent' = <<>> /\ DOMAIN << >> = {}
    BY <1>1, <2>1 DEF Recent
  <2> QED
    BY <2>1, <2>2, NothingRecent, PartsNext
<1>5. CASE UNCHANGED <<history, since, partVars>>
  <2>1. Recent' = Recent /\ entries' = entries /\ stages' = stages /\ rules' = rules /\ events' = events
    BY <1>5 DEF Recent, partVars, filterVars, transformVars
  <2> QED
    BY <2>1, PartsNext DEF PartsFollow
<1>6. ASSUME \/ RefusePacket \/ (\E n \in Announced : BeginPacket(n)) \/ CutShort \/ ReturnPacket
             \/ UNCHANGED ingestVars
      PROVE  UNCHANGED <<history, since, partVars>>
  BY <1>6 DEF RefusePacket, BeginPacket, CutShort, ReturnPacket, ingestVars
<1> QED
  BY <1>2, <1>3, <1>4, <1>5, <1>6 DEF IngestNext

\* The parts that reset clears hold what the sections since the reset brought: the configuration
\* and the stages of the last accepted header, the rules of all filter sections, the newest events
\* of all log sections (ingest_pipeline.cpp:24-64).
THEOREM PartsFollowHistory == IngestSpec => []PartsFollowSections
  BY PartsStart, PartsStep, PacketInvariant, PartsFollowIs, PTL DEF IngestSpec

-----------------------------------------------------------------------------
(* The other stores, and all of them together: a behaviour is one component's  *)
(* calls, the others stay as they are.                                        *)

\* The streams that a run tries are streams.
LEMMA StreamsAreStreams ==
  ASSUME NEW S, NEW n \in Nat, NEW s \in StreamsOf(S, n)
  PROVE  s \in StreamOf(S)
<1>1. CASE s = BadHeader
  <2>1. <<>> \in Seq(S)
    OBVIOUS
  <2> QED
    BY <1>1, <2>1 DEF BadHeader, StreamOf
<1>2. CASE s \in [header: {TRUE}, count: 0..n, records: UNION {[1..k -> S] : k \in 0..n}, spare: BOOLEAN]
  <2>1. ASSUME NEW k \in 0..n, NEW recs \in [1..k -> S] PROVE recs \in Seq(S)
    OBVIOUS
  <2>2. s.records \in Seq(S)
    BY <1>2, <2>1
  <2>3. s.count \in Nat
    BY <1>2
  <2> QED
    BY <1>2, <2>2, <2>3 DEF StreamOf
<1> QED
  BY <1>1, <1>2 DEF StreamsOf

\* Every step of the stores is a step of each component or leaves it as it is.
LEMMA EachSteps ==
  ASSUME [StoresNext]_StoresVars
  PROVE  /\ [StateNext]_stateVars /\ [StoreNext]_storeVars /\ [LimitNext]_limitVars
         /\ [BufferNext]_bufferVars /\ [MetricNext(4)]_metricVars /\ [EventLogNext]_events
         /\ [SyncNext]_syncVars /\ [SchedulerNext({0, 2}, 3)]_schedulerVars /\ [DeviceNext]_devices
         /\ [DispatchNext(2)]_dispatchVars /\ [ArchiveNext]_archiveVars /\ [MappingNext(3)]_mappingVars
         /\ [BuilderNext(3, 2)]_builderVars /\ [ValidatorNext(3, 2)]_validatorVars
         /\ [AlertNext({-1, 3, 6}, 2, 4)]_alertVars /\ [CipherNext]_cipherVars
<1>1. CASE UNCHANGED StoresVars
  BY <1>1 DEF StoresVars
<1>2. CASE StoresNext
  <2>1. [StateNext]_stateVars
    BY <1>2 DEF StoresNext, Of
  <2>2. [StoreNext]_storeVars
    BY <1>2 DEF StoresNext, Of
  <2>3. [LimitNext]_limitVars
    BY <1>2 DEF StoresNext, Of
  <2>4. [BufferNext]_bufferVars
    BY <1>2 DEF StoresNext, Of
  <2>5. [MetricNext(4)]_metricVars
    BY <1>2 DEF StoresNext, Of
  <2>6. [EventLogNext]_events
    BY <1>2 DEF StoresNext, Of
  <2>7. [SyncNext]_syncVars
    BY <1>2 DEF StoresNext, Of
  <2>8. [SchedulerNext({0, 2}, 3)]_schedulerVars
    BY <1>2 DEF StoresNext, Of
  <2>9. [DeviceNext]_devices
    BY <1>2 DEF StoresNext, Of
  <2>10. [DispatchNext(2)]_dispatchVars
    BY <1>2 DEF StoresNext, Of
  <2>11. [ArchiveNext]_archiveVars
    BY <1>2 DEF StoresNext, Of
  <2>12. [MappingNext(3)]_mappingVars
    BY <1>2 DEF StoresNext, Of
  <2>13. [BuilderNext(3, 2)]_builderVars
    BY <1>2 DEF StoresNext, Of
  <2>14. [ValidatorNext(3, 2)]_validatorVars
    BY <1>2 DEF StoresNext, Of
  <2>15. [AlertNext({-1, 3, 6}, 2, 4)]_alertVars
    BY <1>2 DEF StoresNext, Of
  <2>16. [CipherNext]_cipherVars
    BY <1>2 DEF StoresNext, Of
  <2> QED
    BY <2>1, <2>2, <2>3, <2>4, <2>5, <2>6, <2>7, <2>8, <2>9, <2>10, <2>11, <2>12, <2>13, <2>14, <2>15, <2>16
<1> QED
  BY <1>1, <1>2


\* What such a stream yields are records of its kind.
LEMMA StreamRecords ==
  ASSUME NEW S, NEW n \in Nat, NEW s \in StreamsOf(S, n), NEW slack \in BOOLEAN
  PROVE  Taken(s, slack) \in Seq(S)
  BY StreamsAreStreams, TakenOf

\* Samples are capped and the estimate is one of their offsets (time_sync.cpp:18-49).
LEMMA SyncKeeps ==
  ASSUME SyncTypeOK, [SyncNext]_syncVars
  PROVE  SyncTypeOK'
<1>1. CASE UNCHANGED syncVars
  BY <1>1 DEF syncVars, SyncTypeOK
<1>2. ASSUME NEW sample \in SyncSamples, ParseSyncMessage(sample) PROVE SyncTypeOK'
  <2> DEFINE q == Append(sync_samples, sample)
             w == sync_samples'
  <2>1. /\ q \in Seq(SyncSamples) /\ Len(q) \in Nat \ {0} /\ q[Len(q)] = sample
        /\ MAX_SYNC_SAMPLES \in Nat \ {0}
    BY SyncAssumption DEF SyncTypeOK
  <2>2. w = Newest(q, MAX_SYNC_SAMPLES) /\ estimated_offset' = sample.offset
    BY <1>2 DEF ParseSyncMessage
  <2> HIDE DEF q, w
  <2>3. /\ w \in Seq(SyncSamples)
        /\ Len(w) = IF Len(q) <= MAX_SYNC_SAMPLES THEN Len(q) ELSE MAX_SYNC_SAMPLES
        /\ \A k \in 1..Len(w) : w[k] = q[Len(q) - Len(w) + k]
    BY <2>1, <2>2, NewestIs
  <2>4. Len(w) \in Nat \ {0} /\ Len(w) <= MAX_SYNC_SAMPLES
    BY <2>1, <2>3
  <2>5. w[Len(w)] = sample
    <3>1. Len(w) \in 1..Len(w) /\ Len(q) - Len(w) + Len(w) = Len(q)
      BY <2>1, <2>4
    <3> QED
      BY <2>1, <2>3, <3>1
  <2>6. w # <<>> /\ Last(w) = sample
    BY <2>3, <2>4, <2>5 DEF Last
  <2> QED
    BY <2>2, <2>3, <2>4, <2>6 DEF w, SyncTypeOK
<1> QED
  BY <1>1, <1>2 DEF SyncNext

DeviceInv == DeviceTypeOK /\ \A i \in DOMAIN devices : devices[i] \in [id: Nat, status: Nat]

\* Devices are found and replaced by their id (device_registry.cpp).
LEMMA DeviceKeeps ==
  ASSUME DeviceInv, [DeviceNext]_devices
  PROVE  DeviceInv'
<1> DEFINE D == [id: Nat, status: Nat]
<1>1. CASE UNCHANGED devices
  BY <1>1 DEF DeviceInv, DeviceTypeOK
<1>2. ASSUME NEW recs \in Seq(Devices), \A k \in 1..Len(recs) : recs[k].id # 0,
             devices' = PutAll(devices, recs)
      PROVE  DeviceInv'
  <2> DEFINE e == devices'
  <2>1. e = [i \in DOMAIN devices \cup IdsOf(recs) |-> IF i \in IdsOf(recs) THEN LastOf(recs, i) ELSE devices[i]]
    BY <1>2 DEF PutAll
  <2>2. 0 \notin IdsOf(recs) /\ \A i \in IdsOf(recs) : LastOf(recs, i) \in Devices /\ LastOf(recs, i).id = i
    BY <1>2, LastOfFound DEF IdsOf
  <2>3. Devices \subseteq D
    BY DeviceAssumption
  <2> HIDE DEF e, D
  <2>4. 0 \notin DOMAIN e /\ \A i \in DOMAIN e : e[i].id = i /\ e[i] \in D
    BY <2>1, <2>2, <2>3 DEF DeviceInv, DeviceTypeOK, D
  <2> QED
    BY <2>4 DEF e, D, DeviceInv, DeviceTypeOK
<1>3. ASSUME NEW d \in Devices, RegisterDevice(d) PROVE DeviceInv'
  <2>1. /\ <<d>> \in Seq(Devices) /\ \A k \in 1..Len(<<d>>) : <<d>>[k].id # 0
        /\ devices' = PutAll(devices, <<d>>)
    BY <1>3 DEF RegisterDevice
  <2> QED
    BY <1>2, <2>1
<1>4. ASSUME NEW d \in Devices, UpdateStatus(d.id, d.status) PROVE DeviceInv'
  <2>1. /\ d.status \in Nat /\ d.id \in DOMAIN devices
        /\ devices' = [devices EXCEPT ![d.id].status = d.status]
    BY <1>4, DeviceAssumption DEF UpdateStatus
  <2>2. /\ DOMAIN devices' = DOMAIN devices
        /\ \A i \in DOMAIN devices : devices'[i] = IF i = d.id THEN [devices[i] EXCEPT !.status = d.status]
                                                               ELSE devices[i]
    BY <2>1
  <2>3. ASSUME NEW i \in DOMAIN devices PROVE devices'[i] \in D /\ devices'[i].id = i
    BY <2>1, <2>2 DEF DeviceInv, DeviceTypeOK
  <2> QED
    BY <2>2, <2>3 DEF DeviceInv, DeviceTypeOK
<1>5. ASSUME NEW s \in StreamsOf(Devices, 2), LoadRegistryBinary(s) PROVE DeviceInv'
  <2> DEFINE taken == Taken(s, FALSE)
             S == {d \in ToSet(taken) : d.id # 0}
             recs == Kept(taken, S)
  <2>1. devices' = PutAll(devices, recs) /\ \A d \in S : d.id # 0
    BY <1>5 DEF LoadRegistryBinary
  <2>2. taken \in Seq(Devices)
    BY StreamRecords
  <2> HIDE DEF taken, S
  <2>3. recs \in Seq(Devices) /\ \A i \in 1..Len(recs) : recs[i] \in S
    BY <2>2, KeptElements
  <2> HIDE DEF recs
  <2> QED
    BY <1>2, <2>1, <2>3
<1> QED
  BY <1>1, <1>3, <1>4, <1>5 DEF DeviceNext

\* Entries that are put by their id stay distinct and keep their set.
LEMMA PutKeepsIds ==
  ASSUME NEW S, NEW recs \in Seq(S), NEW m, \A i \in DOMAIN m : m[i].id = i
  PROVE  \A i \in DOMAIN PutAll(m, recs) : PutAll(m, recs)[i].id = i
<1>1. \A i \in IdsOf(recs) : LastOf(recs, i).id = i
  BY LastOfFound
<1> QED
  BY <1>1 DEF PutAll

\* Routes stay keyed by their id (dispatch_router.cpp).
LEMMA DispatchKeeps ==
  ASSUME DispatchTypeOK, NEW n, [DispatchNext(n)]_dispatchVars
  PROVE  DispatchTypeOK'
<1>1. ASSUME NEW recs \in Seq(RouteEntries), handlers' = PutAll(handlers, recs) PROVE DispatchTypeOK'
  BY <1>1, PutKeepsIds DEF DispatchTypeOK
<1>2. ASSUME NEW e \in RouteEntries, AddRouteEntry(e) PROVE DispatchTypeOK'
  <2>1. <<e>> \in Seq(RouteEntries)
    OBVIOUS
  <2> QED
    BY <1>1, <1>2, <2>1 DEF AddRouteEntry
<1>3. ASSUME NEW s \in StreamsOf(RouteEntries, 2), LoadRoutesBinary(s) PROVE DispatchTypeOK'
  BY <1>1, <1>3, StreamRecords DEF LoadRoutesBinary
<1>4. CASE DispatchClear
  BY <1>4 DEF DispatchClear, DispatchTypeOK
<1>5. ASSUME handlers' = handlers PROVE DispatchTypeOK'
  BY <1>5 DEF DispatchTypeOK
<1> QED
  BY <1>2, <1>3, <1>4, <1>5 DEF DispatchNext, Dispatch, dispatchVars

\* Archive entries keep their types (archive_index.cpp).
LEMMA ArchiveKeeps ==
  ASSUME ArchiveTypeOK, [ArchiveNext]_archiveVars
  PROVE  ArchiveTypeOK'
<1>1. ASSUME NEW s \in StreamsOf(ArchiveEntries, 2), ParseIndex(s) PROVE ArchiveTypeOK'
  BY <1>1, StreamRecords DEF ParseIndex, ArchiveTypeOK
<1> QED
  BY <1>1 DEF ArchiveNext, archiveVars, ArchiveTypeOK

\* Mappings are only replaced or put behind each other (field_mapper.cpp).
LEMMA MappingKeeps ==
  ASSUME MappingTypeOK, NEW n, [MappingNext(n)]_mappingVars
  PROVE  MappingTypeOK'
<1>1. ASSUME NEW s \in StreamsOf(FieldMappings, 2), LoadMappingsBinary(s) PROVE MappingTypeOK'
  BY <1>1, StreamRecords DEF LoadMappingsBinary, MappingTypeOK
<1>2. ASSUME NEW m \in FieldMappings, AddMapping(m) PROVE MappingTypeOK'
  BY <1>2 DEF AddMapping, MappingTypeOK
<1>3. CASE MappingsClear
  BY <1>3 DEF MappingsClear, MappingTypeOK
<1>4. CASE UNCHANGED mappingVars
  BY <1>4 DEF mappingVars, MappingTypeOK
<1> QED
  BY <1>1, <1>2, <1>3, <1>4 DEF MappingNext


Tlv == [type: TlvTypes, length: 0..PACKET_WRAP - 1]

\* What the packets and the TLVs that are gathered have to do with each other.
BuilderInv ==
  /\ BuilderTypeOK
  /\ PacketsArePrefixes
  /\ \A i \in DOMAIN packets : packets[i].tlvs \in Seq(Tlv)
  /\ DOMAIN packets = 1..Len(packets) /\ Len(packets) \in Nat

\* Packets that are prefixes of a list of TLVs stay so when it grows.
LEMMA PrefixGrows ==
  ASSUME NEW S, NEW p \in Seq(S), NEW q \in Seq(S), NEW x \in S, IsPrefix(p, q)
  PROVE  IsPrefix(p, Append(q, x))
<1>1. Len(p) \in Nat /\ Len(q) \in Nat /\ Len(p) <= Len(q) /\ Len(Append(q, x)) = Len(q) + 1
  BY DEF IsPrefix
<1>2. \A i \in 1..Len(p) : Append(q, x)[i] = q[i]
  BY <1>1
<1>3. SubSeq(Append(q, x), 1, Len(p)) = SubSeq(q, 1, Len(p))
  BY <1>1, <1>2
<1> QED
  BY <1>1, <1>3 DEF IsPrefix

\* A sequence is a prefix of itself.
LEMMA PrefixOfItself == ASSUME NEW S, NEW q \in Seq(S) PROVE IsPrefix(q, q)
  BY DEF IsPrefix

\* A TLV that is put behind the gathered ones leaves the packets their beginnings of it.
LEMMA AppendTlvKeeps ==
  ASSUME BuilderInv, NEW type \in TlvTypes, NEW length \in TlvLengths, AppendTlv(type, length)
  PROVE  BuilderInv'
<1> DEFINE t == [type |-> type, length |-> length]
           q == tlv_payload
<1>1. t \in Tlv /\ q \in Seq(Tlv)
  BY BuilderAssumption DEF AppendTlv, Tlv, BuilderInv, BuilderTypeOK
<1>2. tlv_payload' = Append(q, t) /\ packets' = packets /\ sequence_id' = sequence_id /\ chain' = chain
  BY DEF AppendTlv
<1> HIDE DEF t
<1>3. BuilderTypeOK'
  BY <1>1, <1>2 DEF BuilderInv, BuilderTypeOK, Tlv
<1>4. ASSUME NEW i \in DOMAIN packets
      PROVE  IsPrefix(packets[i].tlvs, Append(q, t)) /\ PacketSize(packets[i].tlvs) < PACKET_WRAP
  <2>1. packets[i].tlvs \in Seq(Tlv) /\ IsPrefix(packets[i].tlvs, q) /\ PacketSize(packets[i].tlvs) < PACKET_WRAP
    BY DEF BuilderInv, PacketsArePrefixes
  <2> QED
    BY <1>1, <2>1, PrefixGrows
<1> HIDE DEF q
<1>5. PacketsArePrefixes'
  BY <1>2, <1>4 DEF PacketsArePrefixes
<1> QED
  BY <1>2, <1>3, <1>5 DEF BuilderInv

\* A packet that is closed holds the TLVs gathered so far (packet_builder.cpp).
LEMMA FinalizeKeeps ==
  ASSUME BuilderInv, Finalize
  PROVE  BuilderInv'
<1> DEFINE p == [sequence |-> sequence_id, tlvs |-> tlv_payload]
           q == tlv_payload
           n == Len(packets)
           new == packets'
<1>1. q \in Seq(Tlv) /\ p.tlvs = q /\ PacketSize(q) < PACKET_WRAP /\ IsPrefix(q, q)
  BY PrefixOfItself DEF Finalize, BuilderInv, BuilderTypeOK, Tlv
<1>2. new = Append(packets, p) /\ UNCHANGED <<tlv_payload, sequence_id, chain>>
  BY DEF Finalize
<1>3. BuilderTypeOK'
  BY <1>2 DEF BuilderInv, BuilderTypeOK
<1>4. n \in Nat /\ DOMAIN packets = 1..n
  BY DEF BuilderInv
<1>5. ASSUME NEW i \in 1..n
      PROVE  packets[i].tlvs \in Seq(Tlv) /\ IsPrefix(packets[i].tlvs, q) /\ PacketSize(packets[i].tlvs) < PACKET_WRAP
  BY <1>4 DEF BuilderInv, PacketsArePrefixes
<1> HIDE DEF p, n
<1>6. /\ Len(new) = n + 1 /\ DOMAIN new = 1..n + 1 
      /\ \A i \in 1..n + 1 : new[i] = IF i = n + 1 THEN p ELSE packets[i]
  BY <1>2, <1>4 DEF Append, n
<1> HIDE DEF new, q
<1>7. ASSUME NEW i \in 1..n + 1
      PROVE  new[i].tlvs \in Seq(Tlv) /\ IsPrefix(new[i].tlvs, q) /\ PacketSize(new[i].tlvs) < PACKET_WRAP
  <2>1. CASE i = n + 1
    BY <1>1, <1>6, <2>1
  <2>2. CASE i # n + 1
    <3>1. i \in 1..n
      BY <1>4, <2>2
    <3> QED
      BY <1>5, <1>6, <2>2, <3>1
  <2> QED
    BY <2>1, <2>2
<1>8. q = tlv_payload'
  BY <1>2 DEF q
<1>9. PacketsArePrefixes'
  BY <1>6, <1>7, <1>8 DEF new, PacketsArePrefixes
<1>10. \A i \in DOMAIN packets' : packets'[i].tlvs \in Seq(Tlv)
  BY <1>6, <1>7 DEF new
<1>11. DOMAIN packets' = 1..Len(packets') /\ Len(packets') \in Nat
  BY <1>4, <1>6 DEF new
<1> QED
  BY <1>3, <1>9, <1>10, <1>11 DEF BuilderInv, Tlv

\* Every call of the packet builder keeps its packets and sizes.
LEMMA BuilderKeeps ==
  ASSUME BuilderInv, NEW m, NEW n, [BuilderNext(m, n)]_builderVars
  PROVE  BuilderInv'
<1>1. CASE UNCHANGED builderVars
  BY <1>1 DEF builderVars, BuilderInv, BuilderTypeOK, PacketsArePrefixes
<1>2. ASSUME NEW seq \in Nat, SetSequence(seq) PROVE BuilderInv'
  BY <1>2 DEF SetSequence, BuilderInv, BuilderTypeOK, PacketsArePrefixes
<1>3. CASE BuilderReset
  <2>1. tlv_payload' = <<>> /\ sequence_id' = 0 /\ packets' = <<>> /\ chain' = chain
    BY <1>3 DEF BuilderReset
  <2>2. DOMAIN <<>> = {} /\ Len(<<>>) = 0 /\ 1..0 = {}
    OBVIOUS
  <2> QED
    BY <2>1, <2>2 DEF BuilderInv, BuilderTypeOK, PacketsArePrefixes
<1>4. ASSUME NEW s \in StreamsOf(ChecksumAlgos, 1), LoadChainSpec(s) PROVE BuilderInv'
  <2>1. chain' = Taken(s, FALSE) /\ UNCHANGED <<tlv_payload, sequence_id, packets>>
    BY <1>4 DEF LoadChainSpec
  <2>2. chain' \in Seq(ChecksumAlgos)
    BY <2>1, StreamRecords
  <2> QED
    BY <2>1, <2>2 DEF BuilderInv, BuilderTypeOK, PacketsArePrefixes
<1>5. 1 \in Nat
  OBVIOUS
<1> QED
  BY <1>1, <1>2, <1>3, <1>4, <1>5, AppendTlvKeeps, FinalizeKeeps DEF BuilderNext

\* Each refused block is one verdict and one failure (binary_validator.cpp).
LEMMA ValidatorKeeps ==
  ASSUME ValidatorTypeOK, NEW m, NEW n, [ValidatorNext(m, n)]_validatorVars
  PROVE  ValidatorTypeOK'
<1>1. CASE UNCHANGED validatorVars
  BY <1>1 DEF validatorVars, ValidatorTypeOK
<1>2. ASSUME NEW r \in ValidationRules, AddValidationRule(r) PROVE ValidatorTypeOK'
  BY <1>2 DEF AddValidationRule, ValidatorTypeOK
<1>3. ASSUME NEW s \in StreamsOf(ValidationRules, 2), LoadValidationRules(s) PROVE ValidatorTypeOK'
  BY <1>3, StreamRecords DEF LoadValidationRules, ValidatorTypeOK
<1>4. ASSUME NEW data \in Blocks, Validate(data) PROVE ValidatorTypeOK'
  <2> DEFINE ok == \A k \in DOMAIN validation_rules : CheckRule(validation_rules[k], data)
             F == {FALSE}
             new == verdicts'
  <2>1. /\ failure_count' = IF ok THEN failure_count ELSE failure_count + 1
        /\ new = Append(verdicts, ok) /\ validation_rules' = validation_rules
    BY <1>4 DEF Validate
  <2>2. ok \in BOOLEAN
    OBVIOUS
  <2> HIDE DEF ok
  <2>3. verdicts \in Seq(BOOLEAN) /\ failure_count = Len(Kept(verdicts, F)) 
    BY DEF ValidatorTypeOK
  <2>4. F = {FALSE}
    OBVIOUS
  <2> HIDE DEF F, new
  <2>5. Kept(new, F) = IF ok \in F THEN Append(Kept(verdicts, F), ok) ELSE Kept(verdicts, F)
    BY <2>1, <2>2, <2>3, KeptAppend
  <2>6. Kept(verdicts, F) \in Seq(BOOLEAN)
    BY <2>3, KeptElements
  <2>7. Len(Kept(new, F)) = failure_count'
    <3>1. CASE ok
      BY <2>1, <2>3, <2>4, <2>5, <3>1
    <3>2. CASE ~ok
      <4>1. ok = FALSE
        BY <2>2, <3>2
      <4>2. Kept(new, F) = Append(Kept(verdicts, F), ok)
        BY <2>4, <2>5, <4>1
      <4>3. Len(Kept(new, F)) = Len(Kept(verdicts, F)) + 1
        BY <2>2, <2>6, <4>2
      <4> QED
        BY <2>1, <2>3, <3>2, <4>3
    <3> QED
      BY <3>1, <3>2
  <2>8. new \in Seq(BOOLEAN)
    BY <2>1, <2>2, <2>3
  <2> QED
    BY <2>1, <2>7, <2>8 DEF new, F, ValidatorTypeOK
<1>5. CASE ValidatorClear
  <2>1. <<>> \in Seq(ValidationRules) /\ <<>> \in Seq(BOOLEAN) /\ Len(<<>>) = 0
    OBVIOUS
  <2> QED
    BY <1>5, <2>1, KeptOfEmpty DEF ValidatorClear, ValidatorTypeOK
<1> QED
  BY <1>1, <1>2, <1>3, <1>4, <1>5 DEF ValidatorNext

AlertInv == AlertTypeOK /\ \E S : alerts \in Seq(S)

\* Alerts are numbered without a gap, and a load that is refused leaves the thresholds (alert_engine.cpp).
LEMMA AlertKeeps ==
  ASSUME AlertInv, NEW V, NEW m, NEW n, [AlertNext(V, m, n)]_alertVars
  PROVE  AlertInv'
<1>1. CASE UNCHANGED alertVars
  BY <1>1 DEF alertVars, AlertInv, AlertTypeOK
<1>2. ASSUME NEW t \in Thresholds, AddThreshold(t) PROVE AlertInv'
  BY <1>2 DEF AddThreshold, AlertInv, AlertTypeOK
<1>3. ASSUME NEW s \in StreamsOf(Thresholds, 2), LoadThresholdsBinary(s) PROVE AlertInv'
  <2> DEFINE q == Taken(s, TRUE)
  <2>1. q \in Seq(Thresholds) /\ thresholds \in Seq(Thresholds)
    BY StreamRecords DEF AlertInv, AlertTypeOK
  <2>2. thresholds' = thresholds \o q /\ next_alert_id' = next_alert_id /\ alerts' = alerts
    BY <1>3 DEF LoadThresholdsBinary
  <2> HIDE DEF q
  <2> QED
    BY <2>1, <2>2 DEF AlertInv, AlertTypeOK
<1>4. CASE AlertClear
  BY <1>4 DEF AlertClear, AlertInv, AlertTypeOK
<1>5. ASSUME NEW metric, NEW value, EvaluateAlerts(metric, value) PROVE AlertInv'
  <2> DEFINE S == {t \in ToSet(thresholds) : t.enabled /\ t.metric = metric
                                              /\ (value < t.lower \/ value > t.upper)}
             crossed == Crossed(metric, value)
             more == [k \in DOMAIN crossed |-> [alert_id |-> next_alert_id + k - 1, metric |-> metric,
                                                value |-> value, severity |-> crossed[k].severity]]
             new == alerts'
             old == alerts
             m0 == Len(old)
             m1 == Len(crossed)
  <2>1. next_alert_id' = next_alert_id + m1 /\ new = alerts \o more /\ thresholds' = thresholds
    BY <1>5 DEF EvaluateAlerts
  <2>2. thresholds \in Seq(Thresholds) /\ next_alert_id = m0 + 1 /\ \A k \in DOMAIN old : old[k].alert_id = k
    BY DEF AlertInv, AlertTypeOK
  <2>3. crossed = Kept(thresholds, S)
    BY DEF Crossed
  <2>4. PICK A : old \in Seq(A)
    BY DEF AlertInv
  <2> HIDE DEF S, crossed, old
  <2>5. crossed \in Seq(Thresholds) /\ m0 \in Nat
    BY <2>2, <2>3, <2>4, KeptElements
  <2>6. m1 \in Nat /\ DOMAIN crossed = 1..m1
    BY <2>5
  <2>7. DOMAIN more = 1..m1 /\ \A k \in 1..m1 : more[k].alert_id = m0 + k
    BY <2>2, <2>5, <2>6
  <2> DEFINE B == A \cup {more[k] : k \in 1..m1}
  <2> HIDE DEF more, m1
  <2>8. more \in [1..m1 -> B]
    <3>1. \A k \in 1..m1 : more[k] \in B
      OBVIOUS
    <3> HIDE DEF B
    <3>2. more = [k \in 1..m1 |-> more[k]]
      BY <2>7 DEF more
    <3> QED
      BY <3>1, <3>2
  <2>9. old \in Seq(B)
    <3>1. A \subseteq B
      OBVIOUS
    <3> HIDE DEF B
    <3> QED
      BY <2>4, <3>1, SeqOfSubset
  <2> HIDE DEF B, new
  <2>10. more \in Seq(B) /\ Len(more) = m1
    BY <2>6, <2>8
  <2>11. /\ new \in Seq(B) /\ Len(new) = m0 + m1
         /\ \A k \in 1..m0 + m1 : new[k] = IF k <= m0 THEN old[k] ELSE more[k - m0]
    <3>1. new = old \o more
      BY <2>1 DEF old
    <3> HIDE DEF m0
    <3>2. /\ old \o more \in Seq(B) /\ Len(old \o more) = Len(old) + Len(more)
          /\ \A k \in 1..Len(old) + Len(more) :
               (old \o more)[k] = IF k <= Len(old) THEN old[k] ELSE more[k - Len(old)]
      BY <2>9, <2>10, JoinedIs
    <3> QED
      BY <2>10, <3>1, <3>2 DEF m0
  <2> HIDE DEF m0
  <2>12. ASSUME NEW k \in 1..m0 + m1 PROVE new[k].alert_id = k
    <3>1. CASE k <= m0
      <4>1. k \in DOMAIN old
        BY <2>4, <3>1 DEF m0
      <4> QED
        BY <2>2, <2>11, <3>1, <4>1
    <3>2. CASE ~(k <= m0)
      <4>1. k - m0 \in 1..m1 /\ m0 + (k - m0) = k
        BY <2>5, <2>6, <3>2
      <4> QED
        BY <2>7, <2>11, <3>2, <4>1
    <3> QED
      BY <3>1, <3>2
  <2>13. next_alert_id' = Len(new) + 1 /\ DOMAIN new = 1..m0 + m1
    BY <2>1, <2>2, <2>5, <2>6, <2>11
  <2> QED
    BY <2>1, <2>2, <2>11, <2>12, <2>13 DEF new, AlertInv, AlertTypeOK
<1> QED
  BY <1>1, <1>2, <1>3, <1>4, <1>5 DEF AlertNext


\* The log stays within its cap (event_log.cpp).
LEMMA EventLogKeeps ==
  ASSUME EventLogTypeOK, [EventLogNext]_events
  PROVE  EventLogTypeOK'
<1>1. CASE UNCHANGED events
  BY <1>1 DEF EventLogTypeOK
<1>2. CASE EventLogClear
  <2>1. <<>> \in Seq(Events) /\ Len(<<>>) = 0 /\ MAX_EVENTS \in Nat
    BY EventLogAssumption
  <2> QED
    BY <1>2, <2>1 DEF EventLogClear, EventLogTypeOK
<1>3. ASSUME NEW ev \in Events, AppendEvent(ev) PROVE EventLogTypeOK'
  <2> DEFINE body == [header |-> TRUE, count |-> 1, records |-> <<ev>>, spare |-> FALSE]
  <2>1. body \in StreamOf(Events) /\ Taken(body, FALSE) = <<ev>>
    <3>1. <<ev>> \in Seq(Events) /\ Len(<<ev>>) = 1 /\ 1 \in Nat
      OBVIOUS
    <3>2. body \in StreamOf(Events)
      BY <3>1 DEF StreamOf
    <3>3. Readable(body, FALSE) = 1
      BY <3>1 DEF Readable
    <3>4. 1 \in Int /\ Min({1, 1}) = 1
      BY MinMaxOfTwo
    <3>5. Taken(body, FALSE) = SubSeq(<<ev>>, 1, 1)
      BY <3>3, <3>4 DEF Taken
    <3>6. SubSeq(<<ev>>, 1, 1) = <<ev>>
      <4> DEFINE q == <<ev>>
      <4>1. q \in Seq(Events) /\ Len(q) = 1
        OBVIOUS
      <4> HIDE DEF q
      <4>2. SubSeq(q, 1, Len(q)) = q
        BY <4>1
      <4> QED
        BY <4>1, <4>2 DEF q
    <3> QED
      BY <3>2, <3>5, <3>6
  <2>2. ParseLogStream(body)
    BY <1>3, <2>1 DEF AppendEvent, ParseLogStream
  <2> QED
    BY <2>1, <2>2, EventsKeep
<1> QED
  BY <1>1, <1>2, <1>3 DEF EventLogNext

\* Every copy of a cipher holds the key it was set from (cipher.cpp).
LEMMA CipherKeeps ==
  ASSUME CipherInv, [CipherNext]_cipherVars
  PROVE  CipherInv'
<1> DEFINE Sound(k) == k = <<>> \/ Len(k) \in CIPHER_MIN_KEY_LEN..CIPHER_MAX_KEY_LEN
<1>1. keys \in [Ciphers -> CipherKeys \cup {<<>>}] /\ origin = keys /\ \A c \in Ciphers : Sound(keys[c])
  BY DEF CipherInv, CipherTypeOK
<1>2. ASSUME keys' \in [Ciphers -> CipherKeys \cup {<<>>}], origin' = keys', \A c \in Ciphers : Sound(keys'[c])
      PROVE  CipherInv'
  BY <1>2 DEF CipherInv, CipherTypeOK
<1>3. CASE UNCHANGED cipherVars
  BY <1>3 DEF cipherVars, CipherInv, CipherTypeOK
<1>4. ASSUME NEW c \in Ciphers, NEW key \in CipherKeys, SetKey(c, key) PROVE CipherInv'
  <2>1. Sound(key) /\ keys' = [keys EXCEPT ![c] = key] /\ origin' = [origin EXCEPT ![c] = key]
    BY <1>4 DEF SetKey
  <2> HIDE DEF Sound
  <2> QED
    BY <1>1, <1>2, <2>1
<1>5. ASSUME NEW c \in Ciphers, NEW from \in Ciphers, CopyCipher(c, from) PROVE CipherInv'
  <2>1. keys' = [keys EXCEPT ![c] = keys[from]] /\ origin' = [origin EXCEPT ![c] = origin[from]]
    BY <1>5 DEF CopyCipher
  <2> HIDE DEF Sound
  <2> QED
    BY <1>1, <1>2, <2>1
<1>6. ASSUME NEW c \in Ciphers, NEW from \in Ciphers, MoveCipher(c, from) PROVE CipherInv'
  <2>1. /\ keys' = [keys EXCEPT ![c] = keys[from], ![from] = <<>>]
        /\ origin' = [origin EXCEPT ![c] = origin[from], ![from] = <<>>]
    BY <1>6 DEF MoveCipher
  <2>2. Sound(<<>>) /\ <<>> \in CipherKeys \cup {<<>>}
    OBVIOUS
  <2> HIDE DEF Sound
  <2> QED
    BY <1>1, <1>2, <2>1, <2>2
<1> QED
  BY <1>3, <1>4, <1>5, <1>6 DEF CipherNext

SchemaInv == SchemaTypeOK /\ \A i \in DOMAIN schemas : schemas[i].fields \in Seq(Fields)

\* Schemas keep the fields they were loaded with (schema_registry.cpp).
LEMMA SchemaKeeps ==
  ASSUME SchemaInv, NEW id \in SchemaIds, NEW body \in StreamOf(Fields), LoadBinarySchema(id, body)
  PROVE  SchemaInv'
<1>1. SchemaTypeOK'
  BY SchemasKeep DEF SchemaInv
<1> DEFINE fields == Taken(body, FALSE)
<1>2. CASE SchemaLoads(id, body)
  <2> DEFINE new == [fields |-> fields, record_size |-> RecordSize(fields)]
  <2>1. schemas' = [i \in DOMAIN schemas \cup {id} |-> IF i = id THEN new ELSE schemas[i]]
    BY <1>2 DEF LoadBinarySchema
  <2>2. new.fields \in Seq(Fields)
    BY TakenOf
  <2> HIDE DEF new
  <2>3. \A i \in DOMAIN schemas' : schemas'[i].fields \in Seq(Fields)
    BY <2>1, <2>2 DEF SchemaInv
  <2> QED
    BY <1>1, <2>3 DEF SchemaInv
<1>3. CASE ~SchemaLoads(id, body)
  BY <1>1, <1>3 DEF LoadBinarySchema, SchemaInv
<1> QED
  BY <1>2, <1>3

\* The tables that the ingest pipeline fills as well, filled from streams here.
Tables ==
  CodecTypeOK /\ SchemaInv /\ FilterTypeOK /\ TransformTypeOK /\ TelemetryTypeOK

\* The tables that a stream is loaded into hold what it can yield.
LEMMA TablesKeep ==
  ASSUME Tables, [StoresNext]_StoresVars
  PROVE  Tables'
<1>1. CASE UNCHANGED StoresVars
  BY <1>1 DEF StoresVars, Tables, CodecTypeOK, SchemaInv, SchemaTypeOK, schemaVars, FilterTypeOK, filterVars,
              TransformTypeOK, transformVars, TelemetryTypeOK, telemetryVars
<1>2. ASSUME StoresNext PROVE CodecTypeOK'
  <2>1. Of("codecs", \E s \in StreamsOf(Codecs, 2) : LoadCodecTable(s), preferred_order)
    BY <1>2 DEF StoresNext
  <2>2. ASSUME NEW s \in StreamsOf(Codecs, 2), LoadCodecTable(s) PROVE CodecTypeOK'
    <3>1. Taken(s, FALSE) \in Seq(Codecs) /\ Codecs \subseteq Codecs \cup {"Other"}
      BY StreamRecords
    <3>2. Taken(s, FALSE) \in Seq(Codecs \cup {"Other"})
      BY <3>1, SeqOfSubset
    <3> QED
      BY <2>2, <3>2 DEF Tables, LoadCodecTable, CodecTypeOK
  <2> QED
    BY <2>1, <2>2 DEF Of, Tables, CodecTypeOK
<1>3. ASSUME StoresNext PROVE SchemaInv'
  <2>1. \/ \E i \in SchemaIds, s \in StreamsOf(Fields, 2) : LoadBinarySchema(i, s)
        \/ UNCHANGED schemaVars
    BY <1>3 DEF StoresNext, Of
  <2>2. ASSUME NEW i \in SchemaIds, NEW s \in StreamsOf(Fields, 2), LoadBinarySchema(i, s) PROVE SchemaInv'
    BY <2>2, StreamsAreStreams, SchemaKeeps DEF Tables
  <2> QED
    BY <2>1, <2>2 DEF Tables, SchemaInv, SchemaTypeOK, schemaVars
<1>4. ASSUME StoresNext PROVE FilterTypeOK'
  <2>1. \/ FilterClear
        \/ \E s \in StreamsOf(FilterRules, 2) : LoadRulesBinary(s)
        \/ UNCHANGED filterVars
    BY <1>4 DEF StoresNext, Of
  <2>2. ASSUME NEW s \in StreamsOf(FilterRules, 2), LoadRulesBinary(s) PROVE FilterTypeOK'
    BY <2>2, StreamsAreStreams, RulesKeep DEF Tables
  <2>3. CASE FilterClear
    BY <2>3 DEF FilterClear, FilterTypeOK
  <2> QED
    BY <2>1, <2>2, <2>3 DEF Tables, FilterTypeOK, filterVars
<1>5. ASSUME StoresNext PROVE TransformTypeOK'
  <2>1. (\E s \in StreamsOf(TransformStages, 2) : LoadPipelineBinary(s)) \/ UNCHANGED transformVars
    BY <1>5 DEF StoresNext, Of
  <2>2. ASSUME NEW s \in StreamsOf(TransformStages, 2), LoadPipelineBinary(s) PROVE TransformTypeOK'
    BY <2>2, StreamsAreStreams, StagesKeep DEF Tables
  <2> QED
    BY <2>1, <2>2 DEF Tables, TransformTypeOK, transformVars
<1>6. ASSUME StoresNext PROVE TelemetryTypeOK'
  <2>1. (\E s \in StreamsOf(TelemetryRecords, 2) : DecodeBatch(s)) \/ UNCHANGED telemetryVars
    BY <1>6 DEF StoresNext, Of
  <2>2. ASSUME NEW s \in StreamsOf(TelemetryRecords, 2), DecodeBatch(s) PROVE TelemetryTypeOK'
    BY <2>2, StreamsAreStreams, CountsKeep DEF Tables
  <2> QED
    BY <2>1, <2>2 DEF Tables, TelemetryTypeOK, telemetryVars
<1> QED
  BY <1>1, <1>2, <1>3, <1>4, <1>5, <1>6 DEF Tables

\* What is tried is made of what may be tried.
ProbeOK ==
  /\ part = "bytes" => probe \in Seq(ProbeBytes)
  /\ part = "numbers" => probe \in Seq(ProbeNumbers)

\* What grows to be tried stays a sequence of what it grows from.
LEMMA ProbeKeeps ==
  ASSUME ProbeOK, [StoresNext]_StoresVars
  PROVE  ProbeOK'
<1>1. ASSUME NEW S, probe \in Seq(S), Grow(S) PROVE probe' \in Seq(S)
  <2>1. <<>> \in Seq(S) /\ \A v \in S : Append(probe, v) \in Seq(S)
    BY <1>1
  <2> QED
    BY <1>1, <2>1 DEF Grow
<1>2. CASE UNCHANGED StoresVars
  BY <1>2 DEF StoresVars, ProbeOK
<1>3. CASE StoresNext
  <2>1. /\ CASE part = "bytes" -> Grow(ProbeBytes)
             [] part = "numbers" -> Grow(ProbeNumbers)
             [] OTHER -> UNCHANGED probe
        /\ part' = part
    BY <1>3 DEF StoresNext
  <2>2. CASE part = "bytes"
    <3>1. Grow(ProbeBytes)
      BY <2>1, <2>2
    <3> QED
      BY <1>1, <2>1, <2>2, <3>1 DEF ProbeOK
  <2>3. CASE part = "numbers"
    <3>1. Grow(ProbeNumbers)
      BY <2>1, <2>3
    <3> QED
      BY <1>1, <2>1, <2>3, <3>1 DEF ProbeOK
  <2> QED
    BY <2>1, <2>2, <2>3 DEF ProbeOK
<1> QED
  BY <1>2, <1>3

\* Everything that is kept here.
OtherStores ==
  /\ EventLogTypeOK /\ SyncTypeOK /\ DeviceInv /\ DispatchTypeOK /\ ArchiveTypeOK /\ MappingTypeOK
  /\ BuilderInv /\ ValidatorTypeOK /\ AlertInv /\ CipherInv /\ Tables /\ ProbeOK

\* The remaining components start with what they promise.
LEMMA OthersStart == StoresInit => OtherStores
<1> SUFFICES ASSUME StoresInit PROVE OtherStores
  OBVIOUS
<1>1. MAX_EVENTS \in Nat /\ MAX_SYNC_SAMPLES \in Nat /\ Len(<<>>) = 0 /\ DOMAIN <<>> = {}
      /\ \A S : <<>> \in Seq(S)
  BY EventLogAssumption, SyncAssumption
<1>2. EventLogTypeOK /\ SyncTypeOK
  BY <1>1 DEF StoresInit, EventLogInit, EventLogTypeOK, SyncInit, SyncTypeOK
<1>3. DeviceInv /\ DispatchTypeOK
  BY DEF StoresInit, DeviceInit, DeviceInv, DeviceTypeOK, DispatchInit, DispatchTypeOK
<1>4. ArchiveTypeOK /\ MappingTypeOK
  BY <1>1 DEF StoresInit, ArchiveInit, ArchiveTypeOK, MappingInit, MappingTypeOK
<1>5. BuilderInv
  <2>1. tlv_payload = <<>> /\ sequence_id = 0 /\ packets = <<>> /\ chain = DefaultChain
    BY DEF StoresInit, BuilderInit
  <2>2. DefaultChain \in Seq(ChecksumAlgos)
    BY DEF DefaultChain, ChecksumAlgos
  <2>3. 1..0 = {}
    OBVIOUS
  <2> QED
    BY <1>1, <2>1, <2>2, <2>3 DEF BuilderInv, BuilderTypeOK, PacketsArePrefixes
<1>6. ValidatorTypeOK
  BY <1>1, KeptOfEmpty DEF StoresInit, ValidatorInit, ValidatorTypeOK
<1>7. AlertInv
  BY <1>1 DEF StoresInit, AlertInit, AlertInv, AlertTypeOK
<1>8. CipherInv
  BY DEF StoresInit, CipherInit, CipherInv, CipherTypeOK
<1>9. Tables
  <2>1. CodecTypeOK
    BY DEF StoresInit, CodecInit, CodecTypeOK, Codecs
  <2>2. SchemaInv /\ FilterTypeOK
    BY <1>1 DEF StoresInit, SchemaInit, SchemaInv, SchemaTypeOK, FilterInit, FilterTypeOK
  <2>3. TransformTypeOK /\ TelemetryTypeOK
    BY <1>1 DEF StoresInit, TransformInit, TransformTypeOK, TelemetryInit, TelemetryTypeOK
  <2> QED
    BY <2>1, <2>2, <2>3 DEF Tables
<1>10. ProbeOK
  BY <1>1 DEF StoresInit, ProbeOK
<1> QED
  BY <1>2, <1>3, <1>4, <1>5, <1>6, <1>7, <1>8, <1>9, <1>10 DEF OtherStores

\* Whichever component steps, the remaining ones keep what they promise.
LEMMA OthersKeep ==
  ASSUME OtherStores, [StoresNext]_StoresVars
  PROVE  OtherStores'
<1> USE DEF OtherStores
<1>1. EventLogTypeOK'
  BY EachSteps, EventLogKeeps
<1>2. SyncTypeOK'
  BY EachSteps, SyncKeeps
<1>3. DeviceInv'
  BY EachSteps, DeviceKeeps
<1>4. DispatchTypeOK'
  BY EachSteps, DispatchKeeps
<1>5. ArchiveTypeOK'
  BY EachSteps, ArchiveKeeps
<1>6. MappingTypeOK'
  BY EachSteps, MappingKeeps
<1>7. BuilderInv'
  BY EachSteps, BuilderKeeps
<1>8. ValidatorTypeOK'
  BY EachSteps, ValidatorKeeps
<1>9. AlertInv'
  BY EachSteps, AlertKeeps
<1>10. CipherInv'
  BY EachSteps, CipherKeeps
<1>11. Tables'
  BY TablesKeep
<1>12. ProbeOK'
  BY ProbeKeeps
<1> QED
  BY <1>1, <1>2, <1>3, <1>4, <1>5, <1>6, <1>7, <1>8, <1>9, <1>10, <1>11, <1>12

\* The components that nothing composes keep their types and what relates their state: packets that
\* are prefixes of what is gathered, copies of a cipher with its key, one failure for a refused block.
THEOREM OthersInvariant == StoresSpec => []OtherStores
  BY OthersStart, OthersKeep, PTL DEF StoresSpec

\* A behaviour of the stores is one of each component on its own: where another one steps, it
\* stutters. What is proved of a component alone holds in their composition.
THEOREM StoresAreComponents ==
  StoresSpec => /\ StateSpec /\ StoreSpec /\ LimitSpec /\ BufferSpec
                /\ MetricSpec(4)
<1>1. StoresInit => StateInit /\ StoreInit /\ LimitInit /\ BufferInit /\ MetricInit
  BY DEF StoresInit
<1>2. ASSUME [StoresNext]_StoresVars
      PROVE  /\ [StateNext]_stateVars /\ [StoreNext]_storeVars /\ [LimitNext]_limitVars
             /\ [BufferNext]_bufferVars /\ [MetricNext(4)]_metricVars
  BY <1>2, EachSteps
<1> QED
  BY <1>1, <1>2, PTL DEF StoresSpec, StateSpec, StoreSpec, LimitSpec, BufferSpec, MetricSpec

\* All the stores keep their types, their limits and the numbers they derive.
THEOREM StoresTypes == StoresSpec => []StoresTypeOK
<1>1. StateInv => StateTypeOK
  BY DEF StateInv
<1>2. StoreInv => StoreTypeOK
  BY DEF StoreInv
<1>3. MetricInv => MetricTypeOK
  BY DEF MetricInv, MetricTypeOK, Covers, Series
<1>4. SchedulerInv({0, 2}) => SchedulerTypeOK
  BY DEF SchedulerInv
<1>5. OtherStores => /\ EventLogTypeOK /\ SyncTypeOK /\ DeviceTypeOK /\ DispatchTypeOK /\ ArchiveTypeOK
                     /\ MappingTypeOK /\ BuilderTypeOK /\ ValidatorTypeOK /\ AlertTypeOK /\ CipherTypeOK
                     /\ CodecTypeOK /\ SchemaTypeOK /\ FilterTypeOK /\ TransformTypeOK /\ TelemetryTypeOK
  BY DEF OtherStores, DeviceInv, BuilderInv, AlertInv, CipherInv, Tables, SchemaInv
<1>6. /\ StateTypeOK /\ StoreTypeOK /\ LimitTypeOK /\ BufferTypeOK /\ MetricTypeOK /\ SchedulerTypeOK
      /\ EventLogTypeOK /\ SyncTypeOK /\ DeviceTypeOK /\ DispatchTypeOK /\ ArchiveTypeOK
      /\ MappingTypeOK /\ BuilderTypeOK /\ ValidatorTypeOK /\ AlertTypeOK /\ CipherTypeOK
      /\ CodecTypeOK /\ SchemaTypeOK /\ FilterTypeOK /\ TransformTypeOK /\ TelemetryTypeOK
      => StoresTypeOK
  BY DEF StoresTypeOK
<1>7. StoresSpec => []SchedulerInv({0, 2})
  <2>1. StoresInit => SchedulerInv({0, 2})
    BY SchedulerStarts DEF StoresInit
  <2>2. SchedulerInv({0, 2}) /\ [StoresNext]_StoresVars => SchedulerInv({0, 2})'
    <3> SUFFICES ASSUME SchedulerInv({0, 2}), [StoresNext]_StoresVars PROVE SchedulerInv({0, 2})'
      OBVIOUS
    <3>1. [SchedulerNext({0, 2}, 3)]_schedulerVars
      BY EachSteps
    <3> QED
      BY <3>1, SchedulerKeeps
  <2> QED
    BY <2>1, <2>2, PTL DEF StoresSpec
<1>8. MetricSpec(4) => []MetricInv
  BY MetricInvariant
<1> QED
  BY <1>1, <1>2, <1>3, <1>4, <1>5, <1>6, <1>7, <1>8, StoresAreComponents, OthersInvariant, StateInvariant,
     StoreInvariant, LimitTypeCorrect, BufferTypeCorrect, PTL

-----------------------------------------------------------------------------
(* What the components compute, as far as the run tries it.                    *)

\* Where the arithmetic of the components meets its ends.
THEOREM NumbersKeepLaws == StoresSpec => []NumericLaws
<1>1. OtherStores /\ MetricInv => NumericLaws
  <2> SUFFICES ASSUME OtherStores, MetricInv PROVE NumericLaws
    OBVIOUS
  <2>1. SyncTypeOK /\ MappingTypeOK /\ SchemaInv /\ TransformTypeOK /\ ProbeOK
    BY DEF OtherStores, Tables
  <2>2. ASSUME sync_samples # <<>>
        PROVE  /\ CorrectionKeepsOrder(estimated_offset)
               /\ FilterStaysBetween(estimated_offset, sync_samples[1].offset)
    <3>1. sync_samples \in Seq(SyncSamples) /\ estimated_offset = sync_samples[Len(sync_samples)].offset
      BY <2>1, <2>2 DEF SyncTypeOK, Last
    <3>2. sync_samples[1] \in SyncSamples /\ sync_samples[Len(sync_samples)] \in SyncSamples
      BY <2>2, <3>1
    <3>3. /\ CLOCK_WRAP \in Nat /\ estimated_offset \in 1 - CLOCK_WRAP..CLOCK_WRAP - 1
          /\ sync_samples[1].offset \in 1 - CLOCK_WRAP..CLOCK_WRAP - 1
      BY <3>1, <3>2, SyncAssumption
    <3>4. estimated_offset \in Int /\ sync_samples[1].offset \in Int
      BY <3>3
    <3> QED
      BY <3>3, <3>4, CorrectionsKeepOrder, FiltersStayBetween
  <2>3. WindowsAreRecent(0..2)
    <3>1. WindowsAreRecent(Nat)
      BY WindowsFollow
    <3> QED
      BY <3>1 DEF WindowsAreRecent
  <2>4. ASSUME NEW i \in DOMAIN schemas, NEW len \in 0..10 PROVE FieldsStayInside(schemas[i].fields, len)
    <3>1. schemas[i].fields \in Seq(Fields) /\ len \in Nat
      BY <2>1 DEF SchemaInv
    <3> QED
      BY <3>1, FieldsInside
  <2>5. ASSUME part = "numbers", NEW a \in ProbeNumbers, NEW b \in ProbeNumbers, a >= 0, b >= 0
        PROVE  OperatorsConsistent(probe, 1, a, b)
    <3> DEFINE p == 2^30
    <3>1. p \in Nat /\ ProbeNumbers \subseteq -p..p
      <4>1. p \in Nat
        BY PowersAre, SMT
      <4>2. ProbeNumbers \subseteq -p..p
        BY ProbeAssumption
      <4> QED
        BY <4>1, <4>2
    <3> HIDE DEF p
    <3>2. probe \in Seq(Int)
      <4>1. probe \in Seq(ProbeNumbers)
        BY <2>1, <2>5 DEF ProbeOK
      <4>2. ProbeNumbers \subseteq Int
        BY <3>1
      <4> QED
        BY <4>1, <4>2, SeqOfSubset
    <3>3. a \in 0..p /\ b \in 0..p
      BY <2>5, <3>1
    <3> QED
      BY <3>2, <3>3, OperatorsAgree DEF p
  <2>6. ASSUME NEW r \in Seq(Int) PROVE StagesTouchOutputs(stages, r) /\ MappedRecordSound(mappings, r)
    BY <2>1, StagesTouch, MappedAreSound DEF TransformTypeOK, MappingTypeOK
  <2>7. <<>> \in Seq(Int)
    OBVIOUS
  <2>8. RecordTried \in Seq(Int)
    BY DEF RecordTried
  <2>9. \A r \in {<<>>, RecordTried} : StagesTouchOutputs(stages, r) /\ MappedRecordSound(mappings, r)
    BY <2>6, <2>7, <2>8, Zenon
  <2> QED
    BY <2>2, <2>3, <2>4, <2>5, <2>9 DEF NumericLaws
<1>2. MetricSpec(4) => []MetricInv
  BY MetricInvariant
<1> QED
  BY <1>1, <1>2, StoresAreComponents, OthersInvariant, PTL

\* The inputs that a run tries are bytes.
LEMMA InputsAreBytes == SomeInputs \in SUBSET Seq(0..255)
<1> SUFFICES ASSUME NEW n \in 0..6 PROVE [i \in 1..n |-> 40 * i] \in Seq(0..255)
  BY DEF SomeInputs
<1> DEFINE s == [i \in 1..n |-> 40 * i]
<1>1. \A i \in 1..n : 40 * i \in 0..255
  OBVIOUS
<1>2. s \in [1..n -> 0..255] /\ n \in Nat
  BY <1>1
<1> QED
  BY <1>2

\* What is tried as bytes are bytes.
LEMMA ProbesAreBytes ==
  ASSUME OtherStores, part = "bytes"
  PROVE  probe \in Seq(Bytes) /\ ProbeBytes \in SUBSET Bytes
<1>1. ProbeBytes \in SUBSET Bytes
  BY ProbeAssumption DEF Bytes
<1>2. probe \in Seq(ProbeBytes)
  BY DEF OtherStores, ProbeOK
<1> QED
  BY <1>1, <1>2

\* Whatever bytes a behaviour tries, delta leaves all but the first, and varint the whole words, each
\* with its bytes turned round (codec_dispatch.cpp:11-92).
LEMMA CodecsAlwaysLeave == StoresSpec => []CodecsLeave
<1>1. ASSUME OtherStores PROVE CodecsLeave
  BY <1>1, ProbesAreBytes, WhatCodecsLeave DEF CodecsLeave
<1> QED
  BY <1>1, OthersInvariant, PTL

\* Whatever bytes a behaviour tries, filled up to eight they are decoded as eight literals, in a room
\* of eight and in no smaller one (compress.cpp:46-96).
LEMMA LiteralsAlwaysDecode == StoresSpec => []LiteralsDecode
<1>1. ASSUME OtherStores PROVE LiteralsDecode
  <2>1. SUFFICES ASSUME part = "bytes", Len(probe) <= 8 PROVE GroupOfLiterals(Padded(probe))
    BY DEF LiteralsDecode
  <2>2. probe \in Seq(Bytes)
    BY <1>1, <2>1, ProbesAreBytes
  <2>3. Padded(probe) \in Seq(Bytes) /\ Len(Padded(probe)) = 8
    <3>0. Len(probe) \in Nat /\ probe \in [1..Len(probe) -> Bytes]
      BY <2>2, LenProperties, Zenon
    <3>1. ASSUME NEW i \in 1..8 PROVE (IF i <= Len(probe) THEN probe[i] ELSE 0) \in Bytes
      <4>1. CASE i <= Len(probe)
        <5>1. i \in 1..Len(probe)
          BY <3>0, <4>1
        <5>2. probe[i] \in Bytes
          BY <3>0, <5>1, Zenon
        <5> QED
          BY <4>1, <5>2
      <4>2. CASE ~(i <= Len(probe))
        <5>1. 0 \in Bytes
          BY DEF Bytes
        <5> QED
          BY <4>2, <5>1
      <4> QED
        BY <4>1, <4>2
    <3>2. Padded(probe) \in [1..8 -> Bytes]
      BY <3>1 DEF Padded
    <3>3. ASSUME NEW eight \in [1..8 -> Bytes] PROVE eight \in Seq(Bytes) /\ Len(eight) = 8
      <4>0. 8 \in Nat
        OBVIOUS
      <4>1. eight \in Seq(Bytes)
        BY <4>0, SeqDef, Zenon
      <4>2. Len(eight) \in Nat /\ DOMAIN eight = 1..Len(eight) /\ DOMAIN eight = 1..8
        BY <4>1, LenProperties
      <4> QED
        BY <4>1, <4>2
    <3> QED
      BY <3>2, <3>3, Zenon
  <2> QED
    BY <2>3, GroupDecodes
<1> QED
  BY <1>1, OthersInvariant, PTL

\* Whatever bytes a behaviour tries, the two run-length decoders agree and no decoder leaves its room
\* (compress.cpp:7-96, compression.cpp:23-62).
LEMMA DecodersAlwaysInside == StoresSpec => []DecodersStayInside
<1>1. ASSUME OtherStores PROVE DecodersStayInside
  <2>1. {0, 2, 5} \subseteq Nat
    OBVIOUS
  <2> QED
    BY <1>1, <2>1, ProbesAreBytes, ExpansionsStayInside DEF DecodersStayInside
<1> QED
  BY <1>1, OthersInvariant, PTL

\* A chain ending in Adler's checksum notices every byte that another is put in the place of
\* (checksum_chain.cpp:9-112).
LEMMA ChangesAreNoticed == StoresSpec => []ChainsNoticeChange
<1>1. ASSUME OtherStores PROVE ChainsNoticeChange
  BY <1>1, ProbesAreBytes, ChainsDetectChanges DEF ChainsNoticeChange
<1> QED
  BY <1>1, OthersInvariant, PTL

\* Whatever bytes a behaviour tries, of any length: codecs leave of them what CodecsLeave says, full
\* groups of literals decode, decoders agree and stay inside their room, and chains notice a change
\* (codec_dispatch.cpp:11-92, compress.cpp:7-96, compression.cpp:23-62, checksum_chain.cpp:9-112).
THEOREM BytesKeepLaws == StoresSpec => []ByteLaws
<1>1. CodecsLeave /\ LiteralsDecode /\ DecodersStayInside /\ ChainsNoticeChange => ByteLaws
  BY DEF ByteLaws
<1> QED
  BY <1>1, CodecsAlwaysLeave, LiteralsAlwaysDecode, DecodersAlwaysInside, ChangesAreNoticed, PTL

\* A cipher decrypts what another of the same key encrypted, for inputs that match the key in length,
\* wherever copies and moves have taken the key (cipher.cpp:26-90, 138-193).
THEOREM KeysDecrypt == StoresSpec => []CopiedKeysDecrypt
<1>1. ASSUME OtherStores PROVE CopiedKeysDecrypt
  BY <1>1, CiphersAgree, InputsAreBytes DEF CopiedKeysDecrypt, OtherStores
<1> QED
  BY <1>1, OthersInvariant, PTL

\* Until a reset every packet given out is a beginning of what is gathered
\* (packet_builder.cpp:37-67).
THEOREM PacketsStayPrefixes == StoresSpec => []PacketsArePrefixes
<1>1. ASSUME OtherStores PROVE PacketsArePrefixes
  BY <1>1 DEF OtherStores, BuilderInv
<1> QED
  BY <1>1, OthersInvariant, PTL
=============================================================================
