--------------------- MODULE FragmentReassembler_proofs ---------------------
(***************************************************************************)
(* Proofs that the map owns the heap, that the retransmit list keeps its   *)
(* tail and its count, that careful callers never leave a dangling pointer *)
(* in it, and that their complete messages stay complete: for any number   *)
(* of messages, fragments, cells and requests.                             *)
(***************************************************************************)
EXTENDS FragmentReassembler, RecordStream_proofs

(* The inductive invariant.  OwnedByMap does not need the list; the list   *)
(* needs OwnedByMap, and that careful callers make at most one request     *)
(* point to a fragment: discard_message clears only the first.             *)

AtMostOneAckEach ==
    \A i, j \in DOMAIN acks :
        acks[i].ptr = acks[j].ptr /\ acks[i].ptr # Null => i = j

AcksAlive == \A i \in DOMAIN acks : acks[i].ptr # Null => memory[acks[i].ptr] # Free

\* All stored fragments of the message announce t.
Agreed(msg, t) ==
    \A k \in Keys : k[1] = msg /\ fragments[k] # Null => memory[fragments[k]].total = t

OneTotal == \A msg \in MsgIds : \E t \in Nat : Agreed(msg, t)

IInv ==
    /\ TypeOK
    /\ OwnedByMap
    /\ RetransmitListSound
    /\ careful => AtMostOneAckEach /\ AcksAlive

-----------------------------------------------------------------------------
(* What the helpers do to the heap. *)

\* What push_fragment lets in is a fragment.
LEMMA LimitedIsFragment == Limited \subseteq Fragment
BY DEF Limited, Fragment, Keys

\* Deleting the fragment under a key empties the cell the key had, and that
\* cell only.
LEMMA ReleasedCells ==
    ASSUME TypeOK, NEW key \in Keys
    PROVE  /\ Released(key) \in [Addrs -> Limited \cup {Free}]
           /\ \A a \in Addrs :
                 Released(key)[a] = IF a = fragments[key] THEN Free ELSE memory[a]
<1>1. CASE fragments[key] = Null
    BY <1>1, FragmentConstants DEF TypeOK, Released
<1>2. CASE fragments[key] # Null
    BY <1>2 DEF TypeOK, Released
<1>3. QED BY <1>1, <1>2

\* Storing a fragment keeps the types and the ownership, and touches no other
\* cell than the one it deletes and the one it allocates.
LEMMA StoreKeepsOwnership ==
    ASSUME TypeOK, OwnedByMap, NEW key \in Keys, NEW total \in Totals,
           NEW payload \in Payloads, Accepts(key, total, payload),
           Store(key, total, payload)
    PROVE  /\ fragments' \in [Keys -> Addrs \cup {Null}]
           /\ memory' \in [Addrs -> Limited \cup {Free}]
           /\ OwnedByMap'
           /\ \A b \in Addrs : memory[b] # Free /\ b # fragments[key] => memory'[b] # Free
<1> DEFINE frag == [key |-> key, total |-> total, payload |-> payload]
<1>1. PICK a \in Addrs : /\ Released(key)[a] = Free
                         /\ memory' = [Released(key) EXCEPT ![a] = frag]
                         /\ fragments' = [fragments EXCEPT ![key] = a]
    BY DEF Store
<1>2. frag \in Limited
    BY DEF Accepts, Limited, Keys
<1>3. frag # Free
    BY <1>2, LimitedIsFragment, FreeIsNoFragment
<1>4. \A b \in Addrs : memory'[b] = IF b = a THEN frag
                                    ELSE IF b = fragments[key] THEN Free ELSE memory[b]
    BY <1>1, ReleasedCells
<1>5. \A k \in Keys : fragments'[k] = IF k = key THEN a ELSE fragments[k]
    BY <1>1 DEF TypeOK
<1>6. fragments' \in [Keys -> Addrs \cup {Null}]
    BY <1>1 DEF TypeOK
<1>7. memory' \in [Addrs -> Limited \cup {Free}]
    BY <1>1, <1>2, ReleasedCells
<1>8. a = fragments[key] \/ memory[a] = Free
    BY <1>1, ReleasedCells
<1>9. a # Null
    BY FragmentConstants
<1>10. ASSUME NEW k \in Keys, fragments'[k] # Null
       PROVE  memory'[fragments'[k]] # Free /\ memory'[fragments'[k]].key = k
    <2>1. CASE k = key
        BY <2>1, <1>3, <1>4, <1>5
    <2>2. CASE k # key
        <3>1. fragments'[k] = fragments[k] /\ fragments[k] \in Addrs
            BY <2>2, <1>5, <1>10 DEF TypeOK
        <3>2. memory[fragments[k]] # Free /\ memory[fragments[k]].key = k
            BY <3>1, <1>10 DEF OwnedByMap
        <3>3. fragments[k] # fragments[key]
            BY <2>2, <3>1, <3>2, FragmentConstants DEF OwnedByMap
        <3>4. fragments[k] # a
            BY <3>2, <3>3, <1>8
        <3>5. QED BY <3>1, <3>2, <3>3, <3>4, <1>4
    <2>3. QED BY <2>1, <2>2
<1>11. ASSUME NEW b \in Addrs, memory'[b] # Free
       PROVE  fragments'[memory'[b].key] = b
    <2>1. CASE b = a
        BY <2>1, <1>4, <1>5
    <2>2. CASE b # a
        <3>1. b # fragments[key] /\ memory'[b] = memory[b] /\ memory[b] # Free
            BY <2>2, <1>4, <1>11
        <3>2. memory[b].key \in Keys
            BY <3>1, LimitedIsFragment DEF TypeOK, Fragment
        <3>3. fragments[memory[b].key] = b
            BY <3>1 DEF OwnedByMap
        <3>4. memory[b].key # key
            BY <3>1, <3>3
        <3>5. QED BY <3>1, <3>2, <3>3, <3>4, <1>5
    <2>3. QED BY <2>1, <2>2
<1>12. OwnedByMap'
    BY <1>10, <1>11 DEF OwnedByMap
<1>13. QED BY <1>3, <1>4, <1>6, <1>7, <1>12

\* The list is a sequence of requests.
LEMMA AckNodes ==
    ASSUME TypeOK
    PROVE  /\ Len(acks) \in Nat /\ DOMAIN acks = 1 .. Len(acks)
           /\ \A i \in DOMAIN acks : /\ acks[i] \in Ack
                                     /\ acks[i].key \in Keys
                                     /\ acks[i].ptr \in Addrs \cup {Null}
<1>1. acks \in Seq(Ack)
    BY DEF TypeOK
<1>2. Len(acks) \in Nat /\ DOMAIN acks = 1 .. Len(acks)
    BY <1>1, LenProperties
<1>3. \A i \in DOMAIN acks : acks[i] \in Ack
    BY <1>1, <1>2, ElementOfSeq
<1>4. QED BY <1>2, <1>3 DEF Ack

\* The list without its i-th node.
LEMMA UnlinkedNodes ==
    ASSUME TypeOK, NEW i \in DOMAIN acks
    PROVE  /\ Unlinked(i) \in Seq(Ack)
           /\ Len(Unlinked(i)) = Len(acks) - 1
           /\ \A j \in 1 .. Len(acks) - 1 :
                 Unlinked(i)[j] = IF j < i THEN acks[j] ELSE acks[j + 1]
<1> DEFINE n == Len(acks)
           front == SubSeq(acks, 1, i - 1)
           back  == SubSeq(acks, i + 1, n)
<1>1. /\ n \in Nat /\ DOMAIN acks = 1 .. n /\ i \in 1 .. n
      /\ \A j \in 1 .. n : acks[j] \in Ack
    BY AckNodes
<1>2. /\ front \in Seq(Ack) /\ Len(front) = i - 1
      /\ \A j \in 1 .. i - 1 : front[j] = acks[j]
    <2>1. \A j \in 1 .. i - 1 : acks[j] \in Ack
        BY <1>1
    <2>2. QED BY <1>1, <2>1, SubSeqProperties
<1>3. /\ back \in Seq(Ack) /\ Len(back) = n - i
      /\ \A j \in 1 .. n - i : back[j] = acks[i + j]
    <2>1. \A j \in i + 1 .. n : acks[j] \in Ack
        BY <1>1
    <2>2. QED BY <1>1, <2>1, SubSeqProperties
<1>4. /\ front \o back \in Seq(Ack)
      /\ Len(front \o back) = Len(front) + Len(back)
      /\ \A j \in 1 .. Len(front) + Len(back) : (front \o back)[j] =
             IF j <= Len(front) THEN front[j] ELSE back[j - Len(front)]
    BY <1>2, <1>3, ConcatProperties
<1>5. Len(front) + Len(back) = n - 1
    BY <1>1, <1>2, <1>3
<1>6. ASSUME NEW j \in 1 .. n - 1
      PROVE  (front \o back)[j] = IF j < i THEN acks[j] ELSE acks[j + 1]
    <2>1. CASE j < i
        BY <1>1, <1>2, <1>4, <1>5, <2>1
    <2>2. CASE ~(j < i)
        <3>1. j - (i - 1) \in 1 .. n - i /\ i + (j - (i - 1)) = j + 1
            BY <1>1, <2>2
        <3>2. (front \o back)[j] = back[j - (i - 1)]
            <4>1. j \in 1 .. Len(front) + Len(back)
                BY <1>5
            <4>2. ~(j <= Len(front))
                BY <1>1, <1>2, <2>2
            <4>3. (front \o back)[j] = back[j - Len(front)]
                BY <1>4, <4>1, <4>2
            <4>4. QED BY <1>2, <4>3
        <3>3. back[j - (i - 1)] = acks[i + (j - (i - 1))]
            BY <1>3, <3>1
        <3>4. QED BY <2>2, <3>1, <3>2, <3>3
    <2>3. QED BY <2>1, <2>2
<1>7. Unlinked(i) = front \o back
    BY DEF Unlinked
<1>8. QED BY <1>4, <1>5, <1>6, <1>7

-----------------------------------------------------------------------------
(* Initially, and step by step. *)

\* Empty map, heap and list satisfy the invariant.
LEMMA InitInvariant == Init => IInv
<1> SUFFICES ASSUME Init PROVE IInv
    OBVIOUS
<1>1. TypeOK
    BY EmptySeq DEF Init, TypeOK
<1>2. OwnedByMap
    BY FragmentConstants DEF Init, OwnedByMap
<1>3. RetransmitListSound /\ AtMostOneAckEach /\ AcksAlive
    BY EmptySeq DEF Init, RetransmitListSound, AtMostOneAckEach, AcksAlive
<1>4. QED BY <1>1, <1>2, <1>3 DEF IInv

\* push_fragment, over a stored fragment or not.
LEMMA PushInvariant ==
    ASSUME IInv, NEW key \in Keys, NEW total \in Totals, NEW payload \in Payloads,
           PushFragment(key, total, payload)
    PROVE  IInv'
<1> USE DEF IInv
<1>1. /\ fragments' \in [Keys -> Addrs \cup {Null}]
      /\ memory' \in [Addrs -> Limited \cup {Free}]
      /\ OwnedByMap'
      /\ \A b \in Addrs : memory[b] # Free /\ b # fragments[key] => memory'[b] # Free
    BY StoreKeepsOwnership DEF PushFragment
<1>2. /\ acks' = acks /\ tail' = tail /\ count' = count
      /\ careful' = (careful /\ (fragments[key] = Null \/ fragments[key] \notin PointedTo))
      /\ steady' \in BOOLEAN
    BY DEF PushFragment, TypeOK
<1>3. TypeOK'
    BY <1>1, <1>2 DEF TypeOK
<1>4. RetransmitListSound'
    BY <1>2 DEF RetransmitListSound
<1>5. ASSUME careful' PROVE (AtMostOneAckEach /\ AcksAlive)'
    <2>1. /\ AtMostOneAckEach /\ AcksAlive
          /\ fragments[key] = Null \/ fragments[key] \notin PointedTo
        BY <1>2, <1>5
    <2>2. AtMostOneAckEach'
        BY <1>2, <2>1 DEF AtMostOneAckEach
    <2>3. \A i \in DOMAIN acks : acks[i].ptr # Null => acks[i].ptr \in Addrs
        BY AckNodes
    <2>4. AcksAlive'
        BY <1>1, <1>2, <2>1, <2>3, FragmentConstants DEF AcksAlive, PointedTo
    <2>5. QED BY <2>2, <2>4
<1>6. QED BY <1>1, <1>3, <1>4, <1>5

\* request_retransmit appends behind the tail pointer.
LEMMA RequestInvariant ==
    ASSUME IInv, NEW key \in Keys, RequestRetransmit(key)
    PROVE  IInv'
<1> USE DEF IInv
<1> DEFINE ack == [key |-> key, ptr |-> fragments[key]]
           n   == Len(acks)
<1>1. /\ fragments[key] \in Addrs /\ fragments' = fragments /\ memory' = memory
      /\ ack \in Ack
    BY DEF RequestRetransmit, TypeOK, Ack
<1>2. n \in Nat /\ DOMAIN acks = 1 .. n /\ tail = n
    BY LenProperties DEF TypeOK, RetransmitListSound
<1>3. acks' = Append(acks, ack)
    <2>1. CASE n = 0
        <3>1. acks = <<>>
            BY <1>2, <2>1, EmptySeq DEF TypeOK
        <3>2. QED BY <1>2, <2>1, <3>1 DEF RequestRetransmit
    <2>2. CASE n # 0
        <3>1. SubSeq(acks, 1, tail) = acks
            BY <1>2, SubSeqFull DEF TypeOK
        <3>2. QED BY <1>2, <2>2, <3>1 DEF RequestRetransmit
    <2>3. QED BY <2>1, <2>2
<1>4. /\ acks' \in Seq(Ack) /\ Len(acks') = n + 1 /\ DOMAIN acks' = 1 .. n + 1
      /\ \A i \in 1 .. n : acks'[i] = acks[i]
      /\ acks'[n + 1] = ack
    BY <1>1, <1>2, <1>3, AppendProperties, LenProperties DEF TypeOK
<1>5. /\ tail' = Len(acks') /\ count' = count + 1 /\ steady' = steady
      /\ careful' = (careful /\ fragments[key] \notin PointedTo)
    BY DEF RequestRetransmit
<1>6. TypeOK'
    BY <1>1, <1>2, <1>4, <1>5 DEF TypeOK
<1>7. OwnedByMap'
    BY <1>1 DEF OwnedByMap
<1>8. RetransmitListSound'
    BY <1>2, <1>4, <1>5 DEF RetransmitListSound
<1>9. ASSUME careful' PROVE (AtMostOneAckEach /\ AcksAlive)'
    <2>1. AtMostOneAckEach /\ AcksAlive
        BY <1>5, <1>9
    <2>2. \A i \in 1 .. n : acks[i].ptr # fragments[key]
        BY <1>2, <1>5, <1>9 DEF PointedTo
    <2>3. \A i \in 1 .. n + 1 : i \in 1 .. n \/ i = n + 1
        BY <1>2
    <2>4. AtMostOneAckEach'
        BY <1>2, <1>4, <2>1, <2>2, <2>3 DEF AtMostOneAckEach
    <2>5. memory[fragments[key]] # Free
        BY <1>1, FragmentConstants DEF OwnedByMap
    <2>6. AcksAlive'
        BY <1>1, <1>2, <1>4, <2>1, <2>3, <2>5 DEF AcksAlive
    <2>7. QED BY <2>4, <2>6
<1>10. QED BY <1>6, <1>7, <1>8, <1>9

\* The node process_retransmit finds goes; what it resends is stored as by
\* push_fragment, and only over the fragment its own pointer leads to.
LEMMA ProcessInvariant ==
    ASSUME IInv, NEW key \in Keys, ProcessRetransmit(key)
    PROVE  IInv'
<1> USE DEF IInv
<1>1. PICK i \in AckIndices(key) :
         /\ ResendNothing(acks[i].ptr) \/ ResendLive(acks[i].ptr) \/ ResendDead(acks[i].ptr)
         /\ acks' = Unlinked(i)
         /\ tail' = TailAfter(i)
         /\ count' = count - 1
         /\ careful' = careful /\ steady' = steady
    BY DEF ProcessRetransmit
<1> DEFINE n   == Len(acks)
           ptr == acks[i].ptr
<1>2. /\ i \in DOMAIN acks /\ i \in 1 .. n /\ n \in Nat /\ DOMAIN acks = 1 .. n
      /\ tail = n /\ count = n
      /\ ptr \in Addrs \cup {Null}
    BY AckNodes DEF AckIndices, RetransmitListSound
<1>3. /\ acks' \in Seq(Ack) /\ Len(acks') = n - 1 /\ DOMAIN acks' = 1 .. n - 1
      /\ \A j \in 1 .. n - 1 : acks'[j] = IF j < i THEN acks[j] ELSE acks[j + 1]
    BY <1>1, <1>2, UnlinkedNodes, LenProperties
<1>4. RetransmitListSound' /\ tail' \in Nat /\ count' \in Nat
    BY <1>1, <1>2, <1>3 DEF RetransmitListSound, TailAfter
\* Every node that is left was there before, at another index than i.
<1>5. \A j \in 1 .. n - 1 : \E k \in 1 .. n :
          /\ k # i /\ acks'[j] = acks[k]
          /\ k = IF j < i THEN j ELSE j + 1
    BY <1>2, <1>3
<1>6. /\ fragments' \in [Keys -> Addrs \cup {Null}]
      /\ memory' \in [Addrs -> Limited \cup {Free}]
      /\ OwnedByMap'
      /\ (ptr = Null \/ memory[ptr] # Free)
            => \A b \in Addrs : memory[b] # Free /\ b # ptr => memory'[b] # Free
    <2>1. CASE ResendNothing(ptr)
        BY <2>1 DEF ResendNothing, TypeOK, OwnedByMap
    <2>2. CASE ResendLive(ptr)
        <3>1. ptr \in Addrs /\ memory[ptr] # Free
            BY <1>2, <2>2 DEF ResendLive, Alive
        <3>2. memory[ptr] \in Limited
            BY <3>1 DEF TypeOK
        <3>3. PICK p \in Payloads :
                 /\ Length[p] = Length[memory[ptr].payload]
                 /\ Store(memory[ptr].key, memory[ptr].total, p)
            BY <2>2 DEF ResendLive
        <3>4. /\ memory[ptr].key \in Keys /\ memory[ptr].total \in Totals
              /\ Accepts(memory[ptr].key, memory[ptr].total, p)
            BY <3>2, <3>3 DEF Limited, Keys, Accepts
        <3>5. fragments[memory[ptr].key] = ptr
            BY <3>1 DEF OwnedByMap
        <3>6. QED BY <3>3, <3>4, <3>5, StoreKeepsOwnership
    <2>3. CASE ResendDead(ptr)
        <3>1. ptr # Null /\ memory[ptr] = Free
            BY <2>3 DEF ResendDead, Alive
        <3>2. PICK frag \in Fragment :
                 /\ Accepts(frag.key, frag.total, frag.payload)
                 /\ Store(frag.key, frag.total, frag.payload)
            BY <2>3 DEF ResendDead
        <3>3. frag.key \in Keys /\ frag.total \in Totals /\ frag.payload \in Payloads
            BY DEF Fragment
        <3>4. QED BY <3>1, <3>2, <3>3, StoreKeepsOwnership
    <2>4. QED BY <1>1, <2>1, <2>2, <2>3
<1>7. TypeOK'
    BY <1>1, <1>3, <1>4, <1>6 DEF TypeOK
<1>8. ASSUME careful' PROVE (AtMostOneAckEach /\ AcksAlive)'
    <2>1. AtMostOneAckEach /\ AcksAlive
        BY <1>1, <1>8
    <2>2. AtMostOneAckEach'
        <3>1. SUFFICES ASSUME NEW j \in 1 .. n - 1, NEW k \in 1 .. n - 1,
                              acks'[j].ptr = acks'[k].ptr, acks'[j].ptr # Null
                       PROVE  j = k
            BY <1>3 DEF AtMostOneAckEach
        <3>2. PICK jj \in 1 .. n : /\ acks'[j] = acks[jj]
                                   /\ jj = IF j < i THEN j ELSE j + 1
            BY <1>5
        <3>3. PICK kk \in 1 .. n : /\ acks'[k] = acks[kk]
                                   /\ kk = IF k < i THEN k ELSE k + 1
            BY <1>5
        <3>4. jj = kk
            BY <1>2, <2>1, <3>1, <3>2, <3>3 DEF AtMostOneAckEach
        <3>5. QED BY <1>2, <3>2, <3>3, <3>4
    <2>3. AcksAlive'
        <3>1. SUFFICES ASSUME NEW j \in 1 .. n - 1, acks'[j].ptr # Null
                       PROVE  memory'[acks'[j].ptr] # Free
            BY <1>3 DEF AcksAlive
        <3>2. PICK k \in 1 .. n : k # i /\ acks'[j] = acks[k]
            BY <1>5
        <3>3. acks[k].ptr \in Addrs /\ memory[acks[k].ptr] # Free
            BY <1>2, <2>1, <3>1, <3>2, AckNodes DEF AcksAlive
        <3>4. acks[k].ptr # ptr
            BY <1>2, <2>1, <3>1, <3>2 DEF AtMostOneAckEach
        <3>5. ptr = Null \/ memory[ptr] # Free
            BY <1>2, <2>1 DEF AcksAlive
        <3>6. QED BY <1>6, <3>2, <3>3, <3>4, <3>5
    <2>4. QED BY <2>2, <2>3
<1>9. QED BY <1>4, <1>6, <1>7, <1>8

\* discard_message deletes the fragments of one message; for careful callers
\* the one request it clears per fragment is the only one there is.
LEMMA DiscardInvariant ==
    ASSUME IInv, NEW msg \in MsgIds, DiscardMessage(msg)
    PROVE  IInv'
<1> USE DEF IInv
<1> DEFINE gone == {fragments[<<msg, f>>] : f \in Stored(msg)}
<1>1. /\ acks' = Cleared(gone)
      /\ memory' = [a \in Addrs |-> IF a \in gone THEN Free ELSE memory[a]]
      /\ fragments' = [k \in Keys |-> IF k[1] = msg THEN Null ELSE fragments[k]]
      /\ tail' = tail /\ count' = count /\ careful' = careful /\ steady' = steady
    BY DEF DiscardMessage
<1>2. /\ Len(acks) \in Nat /\ DOMAIN acks = 1 .. Len(acks)
      /\ \A i \in DOMAIN acks : acks[i] \in Ack /\ acks[i].ptr \in Addrs \cup {Null}
    BY AckNodes
<1>3. \A i \in DOMAIN acks : acks'[i] = IF \E a \in gone : i \in FirstTo(a)
                                        THEN [acks[i] EXCEPT !.ptr = Null]
                                        ELSE acks[i]
    BY <1>1 DEF Cleared
<1>4. acks' \in Seq(Ack) /\ Len(acks') = Len(acks) /\ DOMAIN acks' = DOMAIN acks
    <2>1. \A i \in 1 .. Len(acks) : acks'[i] \in Ack
        BY <1>2, <1>3 DEF Ack
    <2>2. acks' = [i \in 1 .. Len(acks) |-> acks'[i]]
        BY <1>1, <1>2 DEF Cleared
    <2>3. acks' \in [1 .. Len(acks) -> Ack]
        BY <2>1, <2>2
    <2>4. acks' \in Seq(Ack)
        BY <1>2, <2>3, SeqDef
    <2>5. QED BY <1>2, <2>2, <2>4, LenProperties
<1>5. RetransmitListSound'
    BY <1>1, <1>4 DEF RetransmitListSound
<1>6. TypeOK'
    <2>1. fragments' \in [Keys -> Addrs \cup {Null}]
        BY <1>1 DEF TypeOK
    <2>2. memory' \in [Addrs -> Limited \cup {Free}]
        BY <1>1 DEF TypeOK
    <2>3. QED BY <1>1, <1>4, <2>1, <2>2 DEF TypeOK
\* The cells that go are those whose fragment has the message's id.
<1>7. \A k \in Keys : k[1] = msg /\ fragments[k] # Null => fragments[k] \in gone
    <2>1. SUFFICES ASSUME NEW k \in Keys, k[1] = msg, fragments[k] # Null
                   PROVE  fragments[k] \in gone
        OBVIOUS
    <2>2. k = <<msg, k[2]>> /\ k[2] \in FragIds
        BY <2>1 DEF Keys
    <2>3. QED BY <2>1, <2>2 DEF Stored
<1>8. \A k \in Keys : k[1] # msg /\ fragments[k] # Null => fragments[k] \notin gone
    <2>1. SUFFICES ASSUME NEW k \in Keys, k[1] # msg, fragments[k] # Null,
                          NEW f \in Stored(msg), fragments[k] = fragments[<<msg, f>>]
                   PROVE  FALSE
        OBVIOUS
    <2>2. <<msg, f>> \in Keys /\ fragments[<<msg, f>>] # Null
        BY DEF Stored, Keys
    <2>3. k = <<msg, f>>
        BY <2>1, <2>2 DEF OwnedByMap
    <2>4. QED BY <2>1, <2>3
<1>9. OwnedByMap'
    <2>1. ASSUME NEW k \in Keys, fragments'[k] # Null
          PROVE  memory'[fragments'[k]] # Free /\ memory'[fragments'[k]].key = k
        <3>1. k[1] # msg /\ fragments'[k] = fragments[k] /\ fragments[k] # Null
            BY <1>1, <2>1
        <3>2. fragments[k] \in Addrs /\ fragments[k] \notin gone
            BY <1>8, <3>1 DEF TypeOK
        <3>3. QED BY <1>1, <3>1, <3>2 DEF OwnedByMap
    <2>2. ASSUME NEW a \in Addrs, memory'[a] # Free
          PROVE  fragments'[memory'[a].key] = a
        <3>1. a \notin gone /\ memory'[a] = memory[a] /\ memory[a] # Free
            BY <1>1, <2>2
        <3>2. memory[a].key \in Keys /\ fragments[memory[a].key] = a
            BY <3>1, LimitedIsFragment DEF TypeOK, OwnedByMap, Fragment
        <3>3. a # Null
            BY FragmentConstants
        <3>4. memory[a].key[1] # msg
            BY <1>7, <3>1, <3>2, <3>3
        <3>5. QED BY <1>1, <3>1, <3>2, <3>4
    <2>3. QED BY <2>1, <2>2 DEF OwnedByMap
<1>10. ASSUME careful' PROVE (AtMostOneAckEach /\ AcksAlive)'
    <2>1. AtMostOneAckEach /\ AcksAlive
        BY <1>1, <1>10
    <2>2. \A i \in DOMAIN acks : acks'[i].ptr # Null =>
              /\ acks'[i].ptr = acks[i].ptr
              /\ acks[i].ptr \in Addrs
        BY <1>2, <1>3 DEF Ack
    <2>3. AtMostOneAckEach'
        BY <1>4, <2>1, <2>2 DEF AtMostOneAckEach
    <2>4. ASSUME NEW i \in DOMAIN acks, acks'[i].ptr # Null
          PROVE  memory'[acks'[i].ptr] # Free
        <3>1. acks'[i].ptr = acks[i].ptr /\ acks[i].ptr \in Addrs
            BY <2>2, <2>4
        <3>2. acks[i].ptr \notin gone
            <4>1. SUFFICES ASSUME acks[i].ptr \in gone PROVE FALSE
                OBVIOUS
            <4>2. \A j \in DOMAIN acks : acks[j].ptr = acks[i].ptr => i = j
                BY <2>1, <2>4, <3>1 DEF AtMostOneAckEach
            <4>3. i <= i
                BY <1>2
            <4>4. i \in FirstTo(acks[i].ptr)
                BY <4>2, <4>3 DEF FirstTo
            <4>5. acks'[i].ptr = Null
                BY <1>2, <1>3, <4>1, <4>4 DEF Ack
            <4>6. QED BY <2>4, <4>5
        <3>3. memory[acks[i].ptr] # Free
            BY <2>1, <2>4, <3>1 DEF AcksAlive
        <3>4. QED BY <1>1, <3>1, <3>2, <3>3
    <2>5. QED BY <1>4, <2>3, <2>4 DEF AcksAlive
<1>11. QED BY <1>5, <1>6, <1>9, <1>10

\* The invariant is inductive.
LEMMA NextInvariant == IInv /\ [Next]_vars => IInv'
<1> SUFFICES ASSUME IInv, [Next]_vars PROVE IInv'
    OBVIOUS
<1>1. ASSUME NEW key \in Keys, NEW total \in Totals, NEW payload \in Payloads,
             PushFragment(key, total, payload)
      PROVE  IInv'
    BY <1>1, PushInvariant
<1>2. ASSUME NEW key \in Keys, RequestRetransmit(key) PROVE IInv'
    BY <1>2, RequestInvariant
<1>3. ASSUME NEW key \in Keys, ProcessRetransmit(key) PROVE IInv'
    BY <1>3, ProcessInvariant
<1>4. ASSUME NEW msg \in MsgIds, DiscardMessage(msg) PROVE IInv'
    BY <1>4, DiscardInvariant
<1>5. ASSUME UNCHANGED vars PROVE IInv'
    BY <1>5 DEF vars, IInv, TypeOK, OwnedByMap, RetransmitListSound,
                AtMostOneAckEach, AcksAlive
<1>6. QED BY <1>1, <1>2, <1>3, <1>4, <1>5 DEF Next

\* The invariant holds throughout.
LEMMA Invariance == Spec => []IInv
<1>1. QED BY InitInvariant, NextInvariant, PTL DEF Spec

-----------------------------------------------------------------------------
(* The theorems. *)

\* The class keeps its types and the limits of push_fragment.
THEOREM TypeCorrect == Spec => []TypeOK
<1>1. IInv => TypeOK
    BY DEF IInv
<1>2. QED BY <1>1, Invariance, PTL

\* The map owns the heap: no leak, no shared fragment, no double delete, even
\* after a retransmission through a dangling pointer.
THEOREM MapOwnsHeap == Spec => []OwnedByMap
<1>1. IInv => OwnedByMap
    BY DEF IInv
<1>2. QED BY <1>1, Invariance, PTL

\* The retransmit list never loses its tail or its count.
THEOREM ListStaysSound == Spec => []RetransmitListSound
<1>1. IInv => RetransmitListSound
    BY DEF IInv
<1>2. QED BY <1>1, Invariance, PTL

\* As long as callers neither push over a fragment nor request one that a
\* pending request points to, no retransmit request ever dangles.
THEOREM CarefulIsSafe == Spec => []CarefulCallersAreSafe
<1>1. IInv => CarefulCallersAreSafe
    <2>1. SUFFICES ASSUME IInv, careful, NEW a \in PointedTo, a # Null
                   PROVE  memory[a] # Free
        BY DEF CarefulCallersAreSafe, NoDanglingAck
    <2>2. QED BY <2>1 DEF IInv, PointedTo, AcksAlive
<1>2. QED BY <1>1, Invariance, PTL

-----------------------------------------------------------------------------
(* Completion. *)

\* A fragment of a message that has one says how many there are.
AnnouncesNumbers ==
    \A msg \in MsgIds : Stored(msg) # {} => Announced(msg) \in Nat

\* What is stored of a message has numbers for its announced sizes.
LEMMA AnnouncedIs == IInv => AnnouncesNumbers
<1> SUFFICES ASSUME IInv, NEW msg \in MsgIds, Stored(msg) # {}
             PROVE  Announced(msg) \in Nat
    BY DEF AnnouncesNumbers
<1>1. Stored(msg) \subseteq Nat
    BY FragmentConstants DEF Stored
<1>2. \E f \in Stored(msg) : \A g \in Stored(msg) : f <= g
    BY <1>1, LeastNatural
<1>3. Lowest(msg) \in Stored(msg)
    BY <1>2 DEF Lowest
<1> DEFINE k == <<msg, Lowest(msg)>>
<1>4. k \in Keys /\ fragments[k] # Null
    BY <1>3 DEF Stored, Keys
<1>5. fragments[k] \in Addrs /\ memory[fragments[k]] # Free
    BY <1>4 DEF IInv, TypeOK, OwnedByMap
<1>6. memory[fragments[k]] \in Limited
    BY <1>5 DEF IInv, TypeOK
<1>7. Announced(msg) \in Totals
    BY <1>6 DEF Limited, Announced
<1>8. QED BY <1>7, FragmentConstants

\* The same of the next state.
LEMMA AnnouncedNext == IInv' => AnnouncesNumbers'
BY AnnouncedIs, PTL

\* While callers are careful and announce one total per message, a step that
\* stores a fragment stores one with the total its message has.
LEMMA StoreAgrees ==
    ASSUME IInv, NEW key \in Keys, NEW total, NEW payload, Store(key, total, payload),
           NEW msg \in MsgIds, NEW t, Agreed(msg, t), key[1] = msg => total = t
    PROVE  Agreed(msg, t)'
<1> DEFINE frag == [key |-> key, total |-> total, payload |-> payload]
<1>1. PICK a \in Addrs : /\ Released(key)[a] = Free
                         /\ memory' = [Released(key) EXCEPT ![a] = frag]
                         /\ fragments' = [fragments EXCEPT ![key] = a]
    BY DEF Store
<1>2. \A b \in Addrs : memory'[b] = IF b = a THEN frag
                                    ELSE IF b = fragments[key] THEN Free ELSE memory[b]
    BY <1>1, ReleasedCells DEF IInv
<1>3. \A k \in Keys : fragments'[k] = IF k = key THEN a ELSE fragments[k]
    BY <1>1 DEF IInv, TypeOK
<1>4. a = fragments[key] \/ memory[a] = Free
    BY <1>1, ReleasedCells DEF IInv
<1>5. ASSUME NEW k \in Keys, k[1] = msg, fragments'[k] # Null
      PROVE  memory'[fragments'[k]].total = t
    <2>1. CASE k = key
        BY <1>2, <1>3, <1>5, <2>1
    <2>2. CASE k # key
        <3>1. fragments'[k] = fragments[k] /\ fragments[k] \in Addrs /\ fragments[k] # Null
            BY <1>3, <1>5, <2>2 DEF IInv, TypeOK
        <3>2. memory[fragments[k]] # Free /\ memory[fragments[k]].key = k
            BY <3>1 DEF IInv, OwnedByMap
        <3>3. fragments[k] # fragments[key]
            BY <2>2, <3>1, <3>2 DEF IInv, OwnedByMap
        <3>4. memory'[fragments'[k]] = memory[fragments[k]]
            BY <1>2, <1>4, <3>1, <3>2, <3>3
        <3> QED BY <1>5, <3>1, <3>4 DEF Agreed
    <2> QED BY <2>1, <2>2
<1> QED BY <1>5 DEF Agreed

\* A step of careful callers who announce one total per message leaves the total
\* of every message as it is, or gives one to a message that had no fragment.
LEMMA StepAgrees ==
    ASSUME IInv, Next, careful', steady', NEW msg \in MsgIds, NEW t \in Nat, Agreed(msg, t)
    PROVE  Agreed(msg, t)' \/ (Stored(msg) = {} /\ \E u \in Nat : Agreed(msg, u)')
<1>1. ASSUME NEW key \in Keys, NEW total \in Totals, NEW payload \in Payloads,
             PushFragment(key, total, payload)
      PROVE  Agreed(msg, t)' \/ (Stored(msg) = {} /\ \E u \in Nat : Agreed(msg, u)')
    <2>1. Store(key, total, payload) /\ total \in Nat
        BY <1>1, FragmentConstants DEF PushFragment
    <2>2. CASE key[1] # msg \/ total = t
        BY <2>1, <2>2, StoreAgrees
    <2>3. CASE key[1] = msg /\ total # t
        <3>1. \A f \in Stored(msg) : memory[fragments[<<msg, f>>]].total = total
            BY <1>1, <2>3 DEF PushFragment
        <3>2. \A f \in Stored(msg) : /\ <<msg, f>> \in Keys /\ <<msg, f>>[1] = msg
                                      /\ fragments[<<msg, f>>] # Null
            BY DEF Stored, Keys
        <3>3. Stored(msg) = {}
            BY <2>3, <3>1, <3>2 DEF Agreed
        <3>4. Agreed(msg, total)
            <4>1. \A k \in Keys : k[1] = msg => k = <<msg, k[2]>> /\ k[2] \in FragIds
                BY DEF Keys
            <4> QED BY <3>3, <4>1 DEF Agreed, Stored
        <3>5. Agreed(msg, total)'
            BY <2>1, <3>4, StoreAgrees
        <3> QED BY <2>1, <3>3, <3>5
    <2> QED BY <2>2, <2>3
<1>2. ASSUME NEW key \in Keys, RequestRetransmit(key) PROVE Agreed(msg, t)'
    BY <1>2 DEF RequestRetransmit, Agreed
<1>3. ASSUME NEW key \in Keys, ProcessRetransmit(key) PROVE Agreed(msg, t)'
    <2>1. PICK i \in AckIndices(key) :
              /\ \/ ResendNothing(acks[i].ptr) \/ ResendLive(acks[i].ptr)
                 \/ ResendDead(acks[i].ptr)
              /\ careful' = careful
        BY <1>3 DEF ProcessRetransmit
    <2>2. i \in DOMAIN acks /\ acks[i].ptr \in Addrs \cup {Null}
        BY AckNodes DEF AckIndices, IInv
    <2>3. CASE ResendNothing(acks[i].ptr)
        BY <2>3 DEF ResendNothing, Agreed
    <2>4. CASE ResendLive(acks[i].ptr)
        <3> DEFINE frag == memory[acks[i].ptr]
        <3>1. acks[i].ptr \in Addrs /\ acks[i].ptr # Null /\ frag # Free
            BY <2>2, <2>4 DEF ResendLive, Alive
        <3>2. frag.key \in Keys
            BY <3>1, LimitedIsFragment DEF IInv, TypeOK, Fragment
        <3>3. fragments[frag.key] = acks[i].ptr
            BY <3>1 DEF IInv, OwnedByMap
        <3>4. frag.key[1] = msg => frag.total = t
            BY <3>1, <3>2, <3>3 DEF Agreed
        <3>5. PICK p \in Payloads : Store(frag.key, frag.total, p)
            BY <2>4 DEF ResendLive
        <3> HIDE DEF frag
        <3> QED BY <3>2, <3>4, <3>5, StoreAgrees
    <2>5. ~ResendDead(acks[i].ptr)
        BY <2>1, <2>2 DEF ResendDead, Alive, IInv, AcksAlive
    <2> QED BY <2>1, <2>3, <2>4, <2>5
<1>4. ASSUME NEW other \in MsgIds, DiscardMessage(other) PROVE Agreed(msg, t)'
    <2> DEFINE gone == {fragments[<<other, f>>] : f \in Stored(other)}
    <2>1. /\ memory' = [a \in Addrs |-> IF a \in gone THEN Free ELSE memory[a]]
          /\ fragments' = [k \in Keys |-> IF k[1] = other THEN Null ELSE fragments[k]]
        BY <1>4 DEF DiscardMessage
    <2>2. SUFFICES ASSUME NEW k \in Keys, k[1] = msg, fragments'[k] # Null
                   PROVE  memory'[fragments'[k]].total = t
        BY DEF Agreed
    <2>3. k[1] # other /\ fragments'[k] = fragments[k] /\ fragments[k] # Null
        BY <2>1, <2>2
    <2>4. fragments[k] \in Addrs /\ memory[fragments[k]].key = k
        BY <2>3 DEF IInv, TypeOK, OwnedByMap
    <2>5. fragments[k] \notin gone
        <3>1. \A f \in Stored(other) : /\ <<other, f>> \in Keys /\ <<other, f>>[1] = other
                                        /\ fragments[<<other, f>>] # Null
            BY DEF Stored, Keys
        <3>2. \A f \in Stored(other) : memory[fragments[<<other, f>>]].key = <<other, f>>
            BY <3>1 DEF IInv, OwnedByMap
        <3> QED BY <2>3, <2>4, <3>1, <3>2
    <2>6. memory'[fragments'[k]] = memory[fragments[k]]
        BY <2>1, <2>3, <2>4, <2>5
    <2> QED BY <2>2, <2>3, <2>6 DEF Agreed
<1> QED BY <1>1, <1>2, <1>3, <1>4 DEF Next

\* The totals agree throughout, for careful callers who announce one per message.
LEMMA TotalsAgree == Spec => [](careful /\ steady => OneTotal)
<1>1. Init => OneTotal
    BY DEF Init, OneTotal, Agreed
<1>2. /\ IInv /\ [Next]_vars /\ (careful /\ steady => OneTotal)
      => (careful /\ steady => OneTotal)'
    <2> SUFFICES ASSUME IInv, [Next]_vars, careful /\ steady => OneTotal, careful', steady'
                 PROVE  OneTotal'
        OBVIOUS
    <2>1. careful /\ steady
        BY DEF Next, vars, PushFragment, RequestRetransmit, ProcessRetransmit, DiscardMessage
    <2>2. CASE UNCHANGED vars
        BY <2>1, <2>2 DEF vars, OneTotal, Agreed
    <2>3. CASE Next
        <3> SUFFICES ASSUME NEW msg \in MsgIds PROVE \E u \in Nat : Agreed(msg, u)'
            BY DEF OneTotal
        <3>1. PICK t \in Nat : Agreed(msg, t)
            BY <2>1 DEF OneTotal
        <3> QED BY <2>3, <3>1, StepAgrees
    <2> QED BY <2>2, <2>3
<1> QED BY <1>1, <1>2, Invariance, PTL DEF Spec

\* What a message announces, if its fragments agree.
AnnouncesAgreed ==
    \A msg \in MsgIds, t \in Nat :
        Stored(msg) # {} /\ Agreed(msg, t) => Announced(msg) = t

\* The announced total is that of a stored fragment.
LEMMA AgreedIsAnnounced == IInv => AnnouncesAgreed
<1> SUFFICES ASSUME IInv, NEW msg \in MsgIds, NEW t \in Nat, Stored(msg) # {}, Agreed(msg, t)
             PROVE  Announced(msg) = t
    BY DEF AnnouncesAgreed
<1>1. Stored(msg) \subseteq Nat
    BY FragmentConstants DEF Stored
<1>2. \E f \in Stored(msg) : \A g \in Stored(msg) : f <= g
    BY <1>1, LeastNatural
<1>3. Lowest(msg) \in Stored(msg)
    BY <1>2 DEF Lowest
<1> DEFINE k == <<msg, Lowest(msg)>>
<1>4. k \in Keys /\ k[1] = msg /\ fragments[k] # Null
    BY <1>3 DEF Stored, Keys
<1> QED BY <1>4 DEF Agreed, Announced

\* The same of the next state.
LEMMA AgreedNext == IInv' => AnnouncesAgreed'
BY AgreedIsAnnounced, PTL

\* No step but discard_message takes a fragment of a message out of the map.
LEMMA FragmentsStay ==
    ASSUME IInv, Next, NEW msg \in MsgIds
    PROVE  Stored(msg)' = {} \/ Stored(msg) \subseteq Stored(msg)'
<1>1. ASSUME NEW key \in Keys, NEW total, NEW payload, Store(key, total, payload)
      PROVE  Stored(msg) \subseteq Stored(msg)'
    <2>1. PICK a \in Addrs : fragments' = [fragments EXCEPT ![key] = a]
        BY <1>1 DEF Store
    <2>2. \A k \in Keys : fragments[k] # Null => fragments'[k] # Null
        BY <2>1, FragmentConstants DEF IInv, TypeOK
    <2>3. QED BY <2>2 DEF Stored, Keys
<1>2. ASSUME UNCHANGED fragments PROVE Stored(msg) \subseteq Stored(msg)'
    BY <1>2 DEF Stored
<1>3. CASE \E key \in Keys, total \in Totals, payload \in Payloads :
              PushFragment(key, total, payload)
    BY <1>1, <1>3 DEF PushFragment
<1>4. CASE \E key \in Keys : RequestRetransmit(key)
    BY <1>2, <1>4 DEF RequestRetransmit
<1>5. ASSUME NEW key \in Keys, ProcessRetransmit(key)
      PROVE  Stored(msg) \subseteq Stored(msg)'
    <2>1. PICK i \in AckIndices(key) :
              ResendNothing(acks[i].ptr) \/ ResendLive(acks[i].ptr) \/ ResendDead(acks[i].ptr)
        BY <1>5 DEF ProcessRetransmit
    <2>2. CASE ResendNothing(acks[i].ptr)
        BY <1>2, <2>2 DEF ResendNothing
    <2>3. CASE ResendLive(acks[i].ptr)
        <3>1. /\ Alive(acks[i].ptr)
              /\ \E p \in Payloads : Store(memory[acks[i].ptr].key, memory[acks[i].ptr].total, p)
            BY <2>3 DEF ResendLive
        <3>2. acks[i].ptr \in Addrs
            <4>1. acks \in Seq(Ack) /\ i \in DOMAIN acks
                BY DEF AckIndices, IInv, TypeOK
            <4>2. acks[i] \in Ack
                BY <4>1
            <4>3. acks[i].ptr \in Addrs \cup {Null}
                BY <4>2 DEF Ack
            <4>4. QED BY <3>1, <4>3 DEF Alive
        <3>3. memory[acks[i].ptr] \in Fragment
            BY <3>1, <3>2, LimitedIsFragment DEF Alive, IInv, TypeOK
        <3>4. memory[acks[i].ptr].key \in Keys
            BY <3>3 DEF Fragment
        <3>5. QED BY <1>1, <3>1, <3>4
    <2>4. CASE ResendDead(acks[i].ptr)
        <3>1. PICK frag \in Fragment : Store(frag.key, frag.total, frag.payload)
            BY <2>4 DEF ResendDead
        <3>2. frag.key \in Keys
            BY <3>1 DEF Fragment
        <3>3. QED BY <1>1, <3>1, <3>2
    <2>5. QED BY <2>1, <2>2, <2>3, <2>4
<1>6. ASSUME NEW gone \in MsgIds, DiscardMessage(gone)
      PROVE  Stored(msg)' = {} \/ Stored(msg) \subseteq Stored(msg)'
    <2>1. fragments' = [k \in Keys |-> IF k[1] = gone THEN Null ELSE fragments[k]]
        BY <1>6 DEF DiscardMessage
    <2>2. \A f \in FragIds : <<msg, f>> \in Keys /\ <<msg, f>>[1] = msg
        BY DEF Keys
    <2>3. CASE msg = gone
        BY <2>1, <2>2, <2>3 DEF Stored
    <2>4. CASE msg # gone
        BY <2>1, <2>2, <2>4 DEF Stored
    <2>5. QED BY <2>3, <2>4
<1>7. QED BY <1>3, <1>4, <1>5, <1>6 DEF Next

\* A complete message stays complete until it is discarded, as long as callers
\* are careful and announce one total per message; for all others it loses its
\* completion only to a larger total that its lowest fragment announces.
THEOREM CompletionStays == Spec => CompletionLasts
<1>1. IInv /\ IInv' /\ (careful /\ steady => OneTotal) /\ [Next]_vars =>
        [\A msg \in MsgIds : IsMessageComplete(msg) /\ ~IsMessageComplete(msg)' =>
            \/ Stored(msg)' = {}
            \/ ~(careful' /\ steady') /\ Announced(msg)' > Announced(msg)]_vars
    <2> SUFFICES ASSUME IInv, IInv', careful /\ steady => OneTotal, Next, NEW msg \in MsgIds,
                        IsMessageComplete(msg), ~IsMessageComplete(msg)', Stored(msg)' # {}
                 PROVE  ~(careful' /\ steady') /\ Announced(msg)' > Announced(msg)
        OBVIOUS
    <2>1. Stored(msg) \subseteq Stored(msg)'
        BY FragmentsStay
    <2>2. /\ Stored(msg) # {} /\ 0 .. Announced(msg) - 1 \subseteq Stored(msg)
          /\ ~(0 .. Announced(msg)' - 1 \subseteq Stored(msg)')
        BY DEF IsMessageComplete
    <2>3. Announced(msg) \in Nat /\ Announced(msg)' \in Nat
        BY <2>2, AnnouncedIs, AnnouncedNext DEF AnnouncesNumbers
    <2>4. ~(0 .. Announced(msg)' - 1 \subseteq 0 .. Announced(msg) - 1)
        BY <2>1, <2>2
    <2>5. Announced(msg)' > Announced(msg)
        BY <2>3, <2>4
    <2>6. ASSUME careful', steady' PROVE FALSE
        <3>1. careful /\ steady
            BY <2>6 DEF Next, PushFragment, RequestRetransmit, ProcessRetransmit, DiscardMessage
        <3>2. PICK t \in Nat : Agreed(msg, t)
            BY <3>1 DEF OneTotal
        <3>3. Agreed(msg, t)'
            BY <2>2, <2>6, <3>2, StepAgrees
        <3>4. Announced(msg) = t
            BY <2>2, <3>2, AgreedIsAnnounced DEF AnnouncesAgreed
        <3>5. Announced(msg)' = t
            BY <3>3, AgreedNext DEF AnnouncesAgreed
        <3> QED BY <2>3, <2>5, <3>4, <3>5
    <2> QED BY <2>5, <2>6
<1>2. QED BY <1>1, Invariance, TotalsAgree, PTL DEF Spec, CompletionLasts

=============================================================================
