---------------------------- MODULE RecordStream ----------------------------
(* What the load functions of the library see of a byte stream, and the       *)
(* collections they fill. A loader checks a header, reads an announced number *)
(* of records and gives up at the first record whose bytes are not all there. *)
(*                                                                            *)
(* A stream is a record:                                                      *)
(*   header   the checks before the loop pass (length, magic, version)        *)
(*   count    the number of records the header announces                      *)
(*   records  the records of which every byte is there, in order              *)
(*   spare    a few bytes more follow the last of them                        *)
(* The last one matters to the loops that ask for more bytes than a record    *)
(* has: they refuse a last record that ends with the stream.                  *)
EXTENDS Integers, Sequences, FiniteSets, TLC, SequencesExt, FiniteSetsExt

\* The number of records the loop can read. `slack`: it asks for spare bytes.
Readable(s, slack) ==
  IF slack /\ ~s.spare /\ s.records # <<>> THEN Len(s.records) - 1
                                           ELSE Len(s.records)

\* The records the loop stores before it ends or gives up.
Taken(s, slack) ==
  IF s.header THEN SubSeq(s.records, 1, Min({s.count, Readable(s, slack)})) ELSE <<>>

\* What the loader returns.
Whole(s, slack) == s.header /\ s.count <= Readable(s, slack)

-----------------------------------------------------------------------------
\* Ids of the records of a sequence.
IdsOf(recs) == {recs[k].id : k \in DOMAIN recs}

\* The last record of an id, the one a map keeps when the same key is stored twice.
LastOf(recs, i) ==
  recs[CHOOSE k \in DOMAIN recs :
         recs[k].id = i /\ \A j \in DOMAIN recs : recs[j].id = i => j <= k]

\* A map (an id to its record) after the records were stored one by one.
PutAll(m, recs) ==
  [i \in DOMAIN m \cup IdsOf(recs) |-> IF i \in IdsOf(recs) THEN LastOf(recs, i) ELSE m[i]]

\* A queue of at most `cap` entries: the oldest makes room.
Capped(q, x, cap) == Append(IF Len(q) >= cap THEN Tail(q) ELSE q, x)

\* The elements of a sequence that are in a set, in their order: what is left when a loop or
\* std::remove_if has taken all the others out.
Kept(q, S) ==
  LET kept[i \in 0..Len(q)] ==
        IF i = 0 THEN <<>> ELSE IF q[i] \in S THEN Append(kept[i - 1], q[i]) ELSE kept[i - 1]
  IN kept[Len(q)]

\* The state that a loop over a sequence ends in: F[s][x] is the state that the element x makes of s.
Loop(F, start, q) ==
  LET after[n \in 0..Len(q)] == IF n = 0 THEN start ELSE F[after[n - 1]][q[n]]
  IN after[Len(q)]

\* The newest n entries of a sequence.
Newest(q, n) == IF Len(q) <= n THEN q ELSE SubSeq(q, Len(q) - n + 1, Len(q))

\* All streams of records of a set, up to a length; one stream stands for every
\* stream whose header is refused.
BadHeader == [header |-> FALSE, count |-> 0, records |-> <<>>, spare |-> FALSE]
StreamsOf(Records, n) ==
  {BadHeader} \cup
  [header: {TRUE}, count: 0..n, records: UNION {[1..k -> Records] : k \in 0..n}, spare: BOOLEAN]
=============================================================================
