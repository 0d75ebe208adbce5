------------------------ MODULE PriorityQueue_proofs ------------------------
(***************************************************************************)
(* The priority queue for every number of ids, priorities, messages and    *)
(* clock turns: types, ownership of the payload copies, the count, the     *)
(* promotion counts, the order of delivery, the expiry and the pool.       *)
(*                                                                         *)
(* What the operations do to the four vectors comes down to three things   *)
(* that keep a vector sound: leaving messages out (a loop with erase,      *)
(* remove_if, the pop of dequeue), adding messages that are nowhere else,  *)
(* and marking more messages as moved.                                     *)
(***************************************************************************)
EXTENDS PriorityQueue, RecordStream_proofs

-----------------------------------------------------------------------------
(* The inductive invariant. *)

\* What a message of level l says of the call that brought it.
Fits(m, l, bs) ==
    /\ m \in Message
    /\ Urgency(m) = l
    /\ m.buf \in DOMAIN bs
    /\ m.enqueue_time = bs[m.buf].born % TIME_WRAP
    /\ m.promotion_count <= bs[m.buf].base + l

\* Two messages that hold different copies, and different ids where callers
\* never reuse one that is queued.
Differ(m, n) == m.buf # n.buf /\ (UniqueIds => m.id # n.id)

\* A sound vector of level l: every message fits, none is there twice, and
\* those that were never moved stand in the order of their enqueue calls.
SoundLevel(q, l, bs) ==
    /\ q \in Seq(Message)
    /\ \A i \in 1 .. Len(q) : Fits(q[i], l, bs)
    /\ \A i, j \in 1 .. Len(q) : i # j => Differ(q[i], q[j])
    /\ \A i, j \in 1 .. Len(q) :
          i < j /\ ~bs[q[i].buf].moved /\ ~bs[q[j].buf].moved => q[i].buf < q[j].buf

Apart(p, q) == \A i \in 1 .. Len(p), j \in 1 .. Len(q) : Differ(p[i], q[j])

Sound(qs, bs) ==
    /\ qs = [l \in Levels |-> qs[l]]
    /\ \A l \in Levels : SoundLevel(qs[l], l, bs)
    /\ \A l, k \in Levels : l # k => Apart(qs[l], qs[k])

Birth == [born : Nat, base : InitCounts, moved : BOOLEAN]

Records == /\ births \in Seq(Birth)
           /\ Len(births) <= MaxEnqueues
           /\ \A b \in 1 .. Len(births) : births[b].born <= clock
           /\ clock \in 0 .. MaxClock

\* The copies of the queued messages are among the live ones, and are all of
\* them if no message is dropped by promote or demote.
Owned == /\ live \subseteq 1 .. Len(births)
         /\ HeldBufs \subseteq live
         /\ UniqueIds => live \subseteq HeldBufs
         /\ total_messages = Cardinality(live)
         /\ total_messages <= QUEUE_MAX_MESSAGES

\* What has left the queue came by an enqueue call.
Gone == delivered \subseteq 1 .. Len(births) /\ expired \subseteq 1 .. Len(births)

QueueInv == /\ Sound(queues, births)
            /\ Records
            /\ Owned
            /\ Gone
            /\ out = Nothing \/ out \in Message

-----------------------------------------------------------------------------
(* Vectors. *)

\* p is q with some of its messages left out.
Thinned(p, q) ==
    /\ p \in Seq(Message)
    /\ \E f \in [1 .. Len(p) -> 1 .. Len(q)] :
          /\ \A i, j \in 1 .. Len(p) : i < j => f[i] < f[j]
          /\ \A i \in 1 .. Len(p) : p[i] = q[f[i]]

\* Leaving messages out of a sound vector leaves a sound vector.
LEMMA ThinnedIsSound ==
    ASSUME NEW l \in Levels, NEW bs, NEW q, SoundLevel(q, l, bs),
           NEW p, Thinned(p, q)
    PROVE  SoundLevel(p, l, bs)
<1>1. PICK f \in [1 .. Len(p) -> 1 .. Len(q)] :
          /\ \A i, j \in 1 .. Len(p) : i < j => f[i] < f[j]
          /\ \A i \in 1 .. Len(p) : p[i] = q[f[i]]
    BY DEF Thinned
<1>2. Len(p) \in Nat /\ Len(q) \in Nat /\ p \in Seq(Message)
    BY DEF Thinned, SoundLevel
<1>3. \A i \in 1 .. Len(p) : f[i] \in 1 .. Len(q)
    BY <1>1
<1>4. \A i \in 1 .. Len(p) : Fits(p[i], l, bs)
    BY <1>1, <1>3 DEF SoundLevel
<1>5. ASSUME NEW i \in 1 .. Len(p), NEW j \in 1 .. Len(p), i # j
      PROVE  Differ(p[i], p[j])
    <2>1. f[i] # f[j]
        <3>1. i < j \/ j < i
            BY <1>2, <1>5
        <3> QED BY <1>1, <1>3, <3>1
    <2> QED BY <1>1, <1>3, <2>1 DEF SoundLevel
<1>6. ASSUME NEW i \in 1 .. Len(p), NEW j \in 1 .. Len(p), i < j,
             ~bs[p[i].buf].moved, ~bs[p[j].buf].moved
      PROVE  p[i].buf < p[j].buf
    BY <1>1, <1>3, <1>6 DEF SoundLevel
<1> QED BY <1>2, <1>4, <1>5, <1>6 DEF SoundLevel

\* What is apart from a vector is apart from what is left of it.
LEMMA ThinnedIsApart ==
    ASSUME NEW q, NEW r, Apart(q, r), NEW p, Thinned(p, q), NEW s, Thinned(s, r)
    PROVE  Apart(p, s)
<1>1. PICK f \in [1 .. Len(p) -> 1 .. Len(q)] : \A i \in 1 .. Len(p) : p[i] = q[f[i]]
    BY DEF Thinned
<1>2. PICK g \in [1 .. Len(s) -> 1 .. Len(r)] : \A i \in 1 .. Len(s) : s[i] = r[g[i]]
    BY DEF Thinned
<1> QED BY <1>1, <1>2 DEF Apart

\* A vector is a thinned copy of itself.
LEMMA ThinnedSelf ==
    ASSUME NEW q \in Seq(Message)
    PROVE  Thinned(q, q)
<1> DEFINE f == [i \in 1 .. Len(q) |-> i]
<1>1. /\ f \in [1 .. Len(q) -> 1 .. Len(q)]
      /\ \A i, j \in 1 .. Len(q) : i < j => f[i] < f[j]
      /\ \A i \in 1 .. Len(q) : q[i] = q[f[i]]
    OBVIOUS
<1> QED BY <1>1 DEF Thinned

\* remove_if and the loops that erase leave messages out.
LEMMA KeptIsThinned ==
    ASSUME NEW q \in Seq(Message), NEW S
    PROVE  Thinned(Kept(q, S), q)
<1>1. Kept(q, S) \in Seq(Message) /\ \E f : Places(Kept(q, S), q, Len(q), S, f)
    BY KeptPlaces
<1>2. PICK f : Places(Kept(q, S), q, Len(q), S, f)
    BY <1>1
<1> QED BY <1>1, <1>2 DEF Thinned, Places

\* So does the pop of dequeue.
LEMMA TailIsThinned ==
    ASSUME NEW q \in Seq(Message), q # <<>>
    PROVE  Thinned(Tail(q), q)
<1> DEFINE f == [i \in 1 .. Len(q) - 1 |-> i + 1]
<1>1. /\ Tail(q) \in Seq(Message) /\ Len(Tail(q)) = Len(q) - 1 /\ Len(q) \in Nat \ {0}
      /\ \A i \in 1 .. Len(q) - 1 : Tail(q)[i] = q[i + 1]
    OBVIOUS
<1>2. /\ f \in [1 .. Len(q) - 1 -> 1 .. Len(q)]
      /\ \A i, j \in 1 .. Len(q) - 1 : i < j => f[i] < f[j]
      /\ \A i \in 1 .. Len(q) - 1 : f[i] = i + 1
    BY <1>1
<1> HIDE DEF f
<1> QED BY <1>1, <1>2 DEF Thinned

\* What is kept is just what is in the set.
Keeps(w, q, S) ==
    /\ \A i \in 1 .. Len(q) : q[i] \in S => \E j \in 1 .. Len(w) : w[j] = q[i]
    /\ \A j \in 1 .. Len(w) : w[j] \in S /\ \E i \in 1 .. Len(q) : w[j] = q[i]

\* A level of which some messages are kept has those, in their order.
LEMMA KeptHas ==
    ASSUME NEW q \in Seq(Message), NEW S
    PROVE  Keeps(Kept(q, S), q, S)
<1> DEFINE w == Kept(q, S)
<1>1. w \in Seq(Message) /\ \E f : Places(w, q, Len(q), S, f)
    BY KeptPlaces
<1> HIDE DEF w
<1>2. PICK f : Places(w, q, Len(q), S, f)
    BY <1>1
<1>3. \A j \in 1 .. Len(w) : f[j] \in 1 .. Len(q) /\ w[j] = q[f[j]] /\ w[j] \in S
    BY <1>2 DEF Places
<1>4. \A i \in 1 .. Len(q) : q[i] \in S => \E j \in 1 .. Len(w) : w[j] = q[i]
    BY <1>2 DEF Places
<1> QED BY <1>3, <1>4 DEF w, Keeps

\* Adding to a sound vector one that is sound and apart from it leaves a sound
\* vector, if the messages added have been moved or are the youngest.
LEMMA JoinIsSound ==
    ASSUME NEW l \in Levels, NEW bs,
           NEW q, SoundLevel(q, l, bs), NEW r, SoundLevel(r, l, bs), Apart(q, r),
           \A i \in 1 .. Len(r) :
              bs[r[i].buf].moved \/ \A j \in 1 .. Len(q) : q[j].buf < r[i].buf
    PROVE  SoundLevel(q \o r, l, bs)
<1> DEFINE p == q \o r
<1>1. /\ q \in Seq(Message) /\ r \in Seq(Message)
      /\ Len(q) \in Nat /\ Len(r) \in Nat
    BY DEF SoundLevel
<1>2. /\ p \in Seq(Message) /\ Len(p) = Len(q) + Len(r)
      /\ \A i \in 1 .. Len(q) + Len(r) :
            p[i] = IF i <= Len(q) THEN q[i] ELSE r[i - Len(q)]
    BY <1>1, ConcatProperties
<1> HIDE DEF p
<1>3. ASSUME NEW i \in 1 .. Len(p)
      PROVE  \/ i \in 1 .. Len(q) /\ p[i] = q[i]
             \/ i > Len(q) /\ i - Len(q) \in 1 .. Len(r) /\ p[i] = r[i - Len(q)]
    BY <1>1, <1>2
<1>4. ASSUME NEW i \in 1 .. Len(p) PROVE Fits(p[i], l, bs)
    BY <1>3 DEF SoundLevel
<1>5. ASSUME NEW i \in 1 .. Len(p), NEW j \in 1 .. Len(p), i < j
      PROVE  /\ Differ(p[i], p[j]) /\ Differ(p[j], p[i])
             /\ ~bs[p[i].buf].moved /\ ~bs[p[j].buf].moved => p[i].buf < p[j].buf
    <2>1. CASE i \in 1 .. Len(q) /\ p[i] = q[i] /\ j \in 1 .. Len(q) /\ p[j] = q[j]
        BY <1>5, <2>1 DEF SoundLevel
    <2>2. CASE /\ i \in 1 .. Len(q) /\ p[i] = q[i]
               /\ j - Len(q) \in 1 .. Len(r) /\ p[j] = r[j - Len(q)]
        BY <2>2 DEF Apart, Differ
    <2>3. CASE /\ i - Len(q) \in 1 .. Len(r) /\ p[i] = r[i - Len(q)]
               /\ j - Len(q) \in 1 .. Len(r) /\ p[j] = r[j - Len(q)]
        <3>1. i - Len(q) < j - Len(q)
            BY <1>1, <1>2, <1>5
        <3> QED BY <2>3, <3>1 DEF SoundLevel
    <2>4. ~(i > Len(q) /\ j \in 1 .. Len(q))
        BY <1>1, <1>2, <1>5
    <2> QED BY <1>3, <2>1, <2>2, <2>3, <2>4
<1>6. ASSUME NEW i \in 1 .. Len(p), NEW j \in 1 .. Len(p), i # j
      PROVE  Differ(p[i], p[j])
    <2>1. i < j \/ j < i
        BY <1>1, <1>2, <1>6
    <2> QED BY <1>5, <2>1
<1>7. SoundLevel(p, l, bs)
    BY <1>2, <1>4, <1>5, <1>6 DEF SoundLevel
<1> QED BY <1>7 DEF p

\* A vector stays sound while messages are enqueued elsewhere, and when more of
\* its messages are marked as moved.
LEMMA MarkedIsSound ==
    ASSUME NEW l \in Levels, NEW bs, NEW q, SoundLevel(q, l, bs), NEW cs,
           \A b \in DOMAIN bs : /\ b \in DOMAIN cs
                                /\ cs[b].born = bs[b].born
                                /\ cs[b].base = bs[b].base
                                /\ bs[b].moved => cs[b].moved
    PROVE  SoundLevel(q, l, cs)
<1>1. \A i \in 1 .. Len(q) : Fits(q[i], l, cs)
    BY DEF SoundLevel, Fits
<1>2. \A i \in 1 .. Len(q) : bs[q[i].buf].moved => cs[q[i].buf].moved
    BY DEF SoundLevel, Fits
<1> QED BY <1>1, <1>2 DEF SoundLevel

\* A vector of one message that fits is sound.
LEMMA OneIsSound ==
    ASSUME NEW l \in Levels, NEW bs, NEW m, Fits(m, l, bs)
    PROVE  SoundLevel(<<m>>, l, bs)
BY DEF SoundLevel, Fits

-----------------------------------------------------------------------------
(* The copies that are queued. *)

\* Copy b stands on level l.
Stands(qs, b, l) == \E i \in 1 .. Len(qs[l]) : qs[l][i].buf = b

\* The queued messages and their copies in terms of positions.
LEMMA HeldAre ==
    ASSUME NEW qs, NEW bs, Sound(qs, bs),
           NEW H, H = UNION {ToSet(qs[l]) : l \in Levels}
    PROVE  /\ \A m : m \in H <=>
                 \E l \in Levels : \E i \in 1 .. Len(qs[l]) : m = qs[l][i]
           /\ \A b : b \in {m.buf : m \in H} <=> \E l \in Levels : Stands(qs, b, l)
<1>1. \A l \in Levels : \A m : m \in ToSet(qs[l]) <=>
          \E i \in 1 .. Len(qs[l]) : m = qs[l][i]
    BY DEF Sound, SoundLevel, ToSet
<1>2. \A m : m \in H <=> \E l \in Levels : m \in ToSet(qs[l])
    OBVIOUS
<1>3. ASSUME NEW m, m \in H
      PROVE  \E l \in Levels : \E i \in 1 .. Len(qs[l]) : m = qs[l][i]
    <2>1. PICK l \in Levels : m \in ToSet(qs[l])
        BY <1>2, <1>3
    <2> QED BY <1>1, <2>1
<1>4. ASSUME NEW l \in Levels, NEW i \in 1 .. Len(qs[l]) PROVE qs[l][i] \in H
    <2>1. qs[l][i] \in ToSet(qs[l])
        BY <1>1
    <2> QED BY <1>2, <2>1
<1>5. \A b : b \in {m.buf : m \in H} <=> \E m : m \in H /\ m.buf = b
    OBVIOUS
<1>6. ASSUME NEW b PROVE b \in {m.buf : m \in H} <=> \E l \in Levels : Stands(qs, b, l)
    BY <1>3, <1>4, <1>5 DEF Stands
<1>7. ASSUME NEW m
      PROVE  m \in H <=> \E l \in Levels : \E i \in 1 .. Len(qs[l]) : m = qs[l][i]
    BY <1>3, <1>4, Zenon
<1> QED BY <1>6, <1>7, Zenon

\* The same of the state and of the next one.
LEMMA HeldNow ==
    ASSUME NEW bs, Sound(queues, bs)
    PROVE  /\ \A m : m \in Held <=>
                 \E l \in Levels : \E i \in 1 .. Len(queues[l]) : m = queues[l][i]
           /\ \A b : b \in HeldBufs <=> \E l \in Levels : Stands(queues, b, l)
BY HeldAre DEF Held, HeldBufs

\* The copies held in the next state are those that stand in one of its levels.
LEMMA HeldNext ==
    ASSUME NEW bs, Sound(queues', bs)
    PROVE  \A b : b \in HeldBufs' <=> \E l \in Levels : Stands(queues', b, l)
BY HeldAre DEF Held, HeldBufs

\* Two positions that hold the same copy are the same, on one level or on two.
LEMMA OnePlace ==
    ASSUME NEW qs, NEW bs, Sound(qs, bs), NEW l \in Levels, NEW k \in Levels,
           NEW i \in 1 .. Len(qs[l]), NEW j \in 1 .. Len(qs[k]),
           qs[l][i].buf = qs[k][j].buf
    PROVE  l = k /\ i = j
<1>1. l = k
    BY DEF Sound, Apart, Differ
<1> QED BY <1>1 DEF Sound, SoundLevel, Differ

\* The level of a queued copy, as the pool sees it, now and next.
LEMMA HeldLevelIs ==
    ASSUME NEW qs, NEW bs, Sound(qs, bs), NEW l \in Levels, NEW b, Stands(qs, b, l)
    PROVE  (CHOOSE k \in Levels : \E m \in ToSet(qs[k]) : m.buf = b) = l
<1>1. \A k \in Levels : (\E m \in ToSet(qs[k]) : m.buf = b) <=> Stands(qs, b, k)
    BY DEF Sound, SoundLevel, Stands, ToSet
<1>2. \A k \in Levels : Stands(qs, b, k) => k = l
    BY OnePlace DEF Stands
<1>3. \A k \in Levels : (\E m \in ToSet(qs[k]) : m.buf = b) <=> k = l
    BY <1>1, <1>2
<1> HIDE DEF Levels
<1> QED BY <1>3

\* A copy is held on the level it stands in.
LEMMA HeldLevelNow ==
    ASSUME NEW bs, Sound(queues, bs), NEW l \in Levels, NEW b, Stands(queues, b, l)
    PROVE  HeldLevel(b) = l
BY HeldLevelIs DEF HeldLevel

\* The same of the next state.
LEMMA HeldLevelNext ==
    ASSUME NEW bs, Sound(queues', bs), NEW l \in Levels, NEW b, Stands(queues', b, l)
    PROVE  HeldLevel(b)' = l
BY HeldLevelIs DEF HeldLevel

\* The number of queued messages is the number of queued copies.
LEMMA PopulationCounts ==
    ASSUME NEW bs, Sound(queues, bs)
    PROVE  IsFiniteSet(HeldBufs) /\ Population = Cardinality(HeldBufs)
<1> DEFINE B(l) == {queues[l][i].buf : i \in 1 .. Len(queues[l])}
<1>1. ASSUME NEW l \in Levels
      PROVE  IsFiniteSet(B(l)) /\ Cardinality(B(l)) = Len(queues[l]) /\ Len(queues[l]) \in Nat
    <2> DEFINE f == [i \in 1 .. Len(queues[l]) |-> queues[l][i].buf]
    <2>1. Len(queues[l]) \in Nat
        BY DEF Sound, SoundLevel
    <2>2. IsFiniteSet(1 .. Len(queues[l])) /\ Cardinality(1 .. Len(queues[l])) = Len(queues[l])
        BY <2>1, FS_Interval
    <2>3. \A i, j \in 1 .. Len(queues[l]) : f[i] = f[j] => i = j
        BY OnePlace
    <2>4. B(l) = {f[i] : i \in 1 .. Len(queues[l])}
        OBVIOUS
    <2> HIDE DEF f
    <2>5. /\ IsFiniteSet({f[i] : i \in 1 .. Len(queues[l])})
          /\ Cardinality({f[i] : i \in 1 .. Len(queues[l])}) = Cardinality(1 .. Len(queues[l]))
        BY <2>2, <2>3, CountOfImage
    <2> QED BY <2>1, <2>2, <2>4, <2>5
<1>2. \A l, k \in Levels : l # k => B(l) \cap B(k) = {}
    BY OnePlace
<1>3. HeldBufs = B(0) \cup B(1) \cup B(2) \cup B(3)
    <2>1. \A b : b \in HeldBufs <=> \E l \in Levels : b \in B(l)
        BY HeldNow DEF Stands
    <2>2. Levels = {0, 1, 2, 3}
        BY DEF Levels, Top
    <2> HIDE DEF B
    <2> QED BY <2>1, <2>2
<1>4. 0 \in Levels /\ 1 \in Levels /\ 2 \in Levels /\ 3 \in Levels
    BY DEF Levels, Top
<1> HIDE DEF B
<1>5. /\ B(0) \cap B(1) = {}
      /\ (B(0) \cup B(1)) \cap B(2) = {}
      /\ (B(0) \cup B(1) \cup B(2)) \cap B(3) = {}
    BY <1>2, <1>4
<1>6. ASSUME NEW S, IsFiniteSet(S), NEW l \in Levels, S \cap B(l) = {}
      PROVE  /\ IsFiniteSet(S \cup B(l))
             /\ Cardinality(S \cup B(l)) = Cardinality(S) + Len(queues[l])
    <2>1. IsFiniteSet(B(l)) /\ Cardinality(B(l)) = Len(queues[l])
        BY <1>1
    <2>2. /\ IsFiniteSet(S \cup B(l))
          /\ Cardinality(S \cup B(l)) = Cardinality(S) + Cardinality(B(l))
        BY <1>6, <2>1, CountOfUnion
    <2> QED BY <2>1, <2>2
<1> DEFINE C1 == B(0) \cup B(1)
           C2 == C1 \cup B(2)
           C3 == C2 \cup B(3)
<1>7. C1 \cap B(2) = {} /\ C2 \cap B(3) = {}
    BY <1>5
<1>8. IsFiniteSet(C1) /\ Cardinality(C1) = Len(queues[0]) + Len(queues[1])
    <2>1. IsFiniteSet(B(0)) /\ Cardinality(B(0)) = Len(queues[0])
        BY <1>1, <1>4
    <2>2. IsFiniteSet(C1) /\ Cardinality(C1) = Cardinality(B(0)) + Len(queues[1])
        BY <1>4, <1>5, <1>6, <2>1, Zenon
    <2> QED BY <2>1, <2>2
<1> HIDE DEF C1
<1>9. IsFiniteSet(C2) /\ Cardinality(C2) = Cardinality(C1) + Len(queues[2])
    BY <1>4, <1>6, <1>7, <1>8, Zenon
<1> HIDE DEF C2
<1>10. IsFiniteSet(C3) /\ Cardinality(C3) = Cardinality(C2) + Len(queues[3])
    BY <1>4, <1>6, <1>7, <1>9, Zenon
<1>11. HeldBufs = C3
    BY <1>3 DEF C1, C2
<1> HIDE DEF C3
<1> QED BY <1>1, <1>4, <1>8, <1>9, <1>10, <1>11 DEF Population

\* The live copies are finite in number.
LEMMA LiveIsFinite ==
    ASSUME Owned, Records
    PROVE  IsFiniteSet(live)
<1>1. Len(births) \in Nat
    BY DEF Records
<1>2. IsFiniteSet(1 .. Len(births))
    BY <1>1, FS_Interval
<1> QED BY <1>2, FS_Subset DEF Owned

-----------------------------------------------------------------------------
(* The four vectors together. *)

\* cs knows the births of bs and maybe more, and marks no fewer as moved.
Knows(cs, bs) ==
    \A b \in DOMAIN bs : /\ b \in DOMAIN cs
                         /\ cs[b].born = bs[b].born
                         /\ cs[b].base = bs[b].base
                         /\ bs[b].moved => cs[b].moved

\* Leaving messages out of sound vectors leaves sound vectors.
LEMMA ThinnedAreSound ==
    ASSUME NEW qs, NEW bs, Sound(qs, bs),
           NEW ps, ps = [l \in Levels |-> ps[l]], \A l \in Levels : Thinned(ps[l], qs[l])
    PROVE  Sound(ps, bs)
<1>1. \A l \in Levels : SoundLevel(ps[l], l, bs)
    BY ThinnedIsSound DEF Sound
<1>2. \A l, k \in Levels : l # k => Apart(ps[l], ps[k])
    BY ThinnedIsApart DEF Sound
<1> QED BY <1>1, <1>2 DEF Sound

\* The vectors ps are qs with messages added to level l that are nowhere else.
Joins(ps, cs, qs, bs, l, r) ==
    /\ Sound(qs, bs)
    /\ Knows(cs, bs)
    /\ SoundLevel(r, l, cs)
    /\ \A k \in Levels : Apart(qs[k], r)
    /\ \A i \in 1 .. Len(r) :
          cs[r[i].buf].moved \/ \A j \in 1 .. Len(qs[l]) : qs[l][j].buf < r[i].buf
    /\ ps = [k \in Levels |-> ps[k]]
    /\ ps[l] = qs[l] \o r
    /\ \A k \in Levels \ {l} : ps[k] = qs[k]

\* Adding messages that are nowhere else to one level leaves sound vectors, and
\* no copy stands elsewhere than before but those of the messages added.
LEMMA JoinedAreSound ==
    ASSUME NEW qs, NEW bs, NEW cs, NEW l \in Levels, NEW r, NEW ps,
           Joins(ps, cs, qs, bs, l, r)
    PROVE  /\ Sound(ps, cs)
           /\ \A b, k : k \in Levels =>
                 (Stands(ps, b, k) <=>
                     Stands(qs, b, k) \/ (k = l /\ \E i \in 1 .. Len(r) : r[i].buf = b))
<1> USE DEF Joins
<1>1. /\ ps = [k \in Levels |-> ps[k]]
      /\ ps[l] = qs[l] \o r
      /\ \A k \in Levels \ {l} : ps[k] = qs[k]
    OBVIOUS
<1>2. \A k \in Levels : SoundLevel(qs[k], k, cs)
    BY MarkedIsSound DEF Sound, Knows
<1>3. SoundLevel(ps[l], l, cs)
    BY <1>1, <1>2, JoinIsSound
<1>4. /\ qs[l] \in Seq(Message) /\ r \in Seq(Message)
      /\ Len(qs[l]) \in Nat /\ Len(r) \in Nat
    BY <1>2 DEF SoundLevel
<1>5. /\ Len(ps[l]) = Len(qs[l]) + Len(r)
      /\ \A i \in 1 .. Len(qs[l]) + Len(r) :
            ps[l][i] = IF i <= Len(qs[l]) THEN qs[l][i] ELSE r[i - Len(qs[l])]
    BY <1>1, <1>4, ConcatProperties
<1>6. ASSUME NEW i \in 1 .. Len(ps[l])
      PROVE  \/ i \in 1 .. Len(qs[l]) /\ ps[l][i] = qs[l][i]
             \/ i - Len(qs[l]) \in 1 .. Len(r) /\ ps[l][i] = r[i - Len(qs[l])]
    BY <1>4, <1>5
<1>7. ASSUME NEW k \in Levels, k # l PROVE Apart(ps[k], ps[l]) /\ Apart(ps[l], ps[k])
    <2>1. Apart(qs[k], qs[l]) /\ Apart(qs[k], r) /\ ps[k] = qs[k]
        BY <1>1, <1>7 DEF Sound
    <2>2. ASSUME NEW j \in 1 .. Len(ps[k]), NEW i \in 1 .. Len(ps[l])
          PROVE  Differ(ps[k][j], ps[l][i]) /\ Differ(ps[l][i], ps[k][j])
        <3>1. j \in 1 .. Len(qs[k]) /\ ps[k][j] = qs[k][j]
            BY <2>1
        <3>2. Differ(qs[k][j], ps[l][i])
            <4>1. CASE i \in 1 .. Len(qs[l]) /\ ps[l][i] = qs[l][i]
                BY <2>1, <3>1, <4>1 DEF Apart
            <4>2. CASE i - Len(qs[l]) \in 1 .. Len(r) /\ ps[l][i] = r[i - Len(qs[l])]
                BY <2>1, <3>1, <4>2 DEF Apart
            <4> QED BY <1>6, <4>1, <4>2
        <3> QED BY <3>1, <3>2 DEF Differ
    <2> QED BY <2>2 DEF Apart
<1>8. \A j, k \in Levels : j # k => Apart(ps[j], ps[k])
    BY <1>1, <1>7 DEF Sound
<1>9. Sound(ps, cs)
    BY <1>1, <1>2, <1>3, <1>8 DEF Sound
<1>10. ASSUME NEW b
       PROVE  Stands(ps, b, l) <=> Stands(qs, b, l) \/ \E i \in 1 .. Len(r) : r[i].buf = b
    <2>1. ASSUME Stands(ps, b, l)
          PROVE  Stands(qs, b, l) \/ \E i \in 1 .. Len(r) : r[i].buf = b
        BY <1>6, <2>1 DEF Stands
    <2>2. ASSUME NEW i \in 1 .. Len(qs[l]), qs[l][i].buf = b PROVE Stands(ps, b, l)
        <3>1. i \in 1 .. Len(ps[l]) /\ ps[l][i] = qs[l][i]
            BY <1>4, <1>5
        <3> QED BY <2>2, <3>1 DEF Stands
    <2>3. ASSUME NEW i \in 1 .. Len(r), r[i].buf = b PROVE Stands(ps, b, l)
        <3> DEFINE j == i + Len(qs[l])
        <3>1. j \in 1 .. Len(ps[l]) /\ ps[l][j] = r[i]
            BY <1>4, <1>5
        <3> QED BY <2>3, <3>1 DEF Stands
    <2> QED BY <2>1, <2>2, <2>3 DEF Stands
<1>11. \A b, k : k \in Levels /\ k # l => (Stands(ps, b, k) <=> Stands(qs, b, k))
    BY <1>1 DEF Stands
<1> QED BY <1>9, <1>10, <1>11

-----------------------------------------------------------------------------
(* The operations. *)

\* A vector without messages is sound and apart from any other.
LEMMA EmptyIsSound ==
    /\ \A l, bs : SoundLevel(<<>>, l, bs)
    /\ \A q : Apart(<<>>, q)
<1>1. <<>> \in Seq(Message) /\ Len(<<>>) = 0
    OBVIOUS
<1>2. \A i : i \notin 1 .. 0
    OBVIOUS
<1> QED BY <1>1, <1>2 DEF SoundLevel, Apart

\* At first there is nothing.
LEMMA InitKeeps == Init => QueueInv
<1> SUFFICES ASSUME Init PROVE QueueInv
    OBVIOUS
<1>1. \A l \in Levels : queues[l] = <<>>
    BY DEF Init
<1>2. Sound(queues, births)
    <2>1. queues = [l \in Levels |-> queues[l]]
        BY DEF Init
    <2>2. \A l \in Levels : SoundLevel(queues[l], l, births)
        BY <1>1, EmptyIsSound
    <2>3. \A l, k \in Levels : Apart(queues[l], queues[k])
        BY <1>1, EmptyIsSound
    <2> QED BY <2>1, <2>2, <2>3 DEF Sound
<1>3. Records
    BY QueueConstants DEF Init, Records
<1>4. HeldBufs = {}
    <2>1. \A b, l : l \in Levels => ~Stands(queues, b, l)
        BY <1>1 DEF Stands
    <2> QED BY <1>2, <2>1, HeldNow
<1>5. Owned
    <2>1. Cardinality({}) = 0
        BY FS_EmptySet
    <2> QED BY <1>4, <2>1, QueueConstants DEF Init, Owned
<1>6. Gone
    BY DEF Init, Gone
<1> QED BY <1>2, <1>3, <1>5, <1>6 DEF Init, QueueInv

\* What enqueue adds is youngest, nowhere else, and on its level.
LEMMA EnqueueSound ==
    ASSUME QueueInv, NEW id \in Ids, NEW p \in Priorities, NEW count \in InitCounts,
           Enqueue(id, p, count), NEW l, l = IF p > Top THEN Top ELSE p
    PROVE  /\ Sound(queues', births') /\ Records'
           /\ l \in Levels
           /\ \A b, k : k \in Levels =>
                 (Stands(queues', b, k) <=>
                     Stands(queues, b, k) \/ (k = l /\ b = Len(births) + 1))
<1> DEFINE buf == Len(births) + 1
           msg == [id |-> id, buf |-> buf, priority |-> p,
                   enqueue_time |-> clock % TIME_WRAP, promotion_count |-> count]
           new == [born |-> clock, base |-> count, moved |-> FALSE]
<1>1. /\ births \in Seq(Birth) /\ Len(births) \in Nat /\ buf \in 1 .. MaxEnqueues
      /\ births' = Append(births, new) /\ new \in Birth
      /\ clock' = clock /\ clock \in Nat
    BY QueueConstants DEF QueueInv, Records, Enqueue, Birth
<1>2. /\ births' \in Seq(Birth) /\ Len(births') = buf
      /\ births'[buf] = new
      /\ \A b \in 1 .. Len(births) : births'[b] = births[b]
    BY <1>1
<1>3. Records'
    <2>1. \A b \in 1 .. buf : births'[b].born <= clock
        <3>1. \A b \in 1 .. buf : b = buf \/ b \in 1 .. Len(births)
            BY <1>1
        <3> QED BY <1>1, <1>2, <3>1 DEF QueueInv, Records
    <2> QED BY <1>1, <1>2, <2>1 DEF QueueInv, Records
<1>4. l \in Levels /\ p \in Nat
    BY QueueConstants DEF Levels, Top
<1>5. Fits(msg, l, births')
    <2>1. clock % TIME_WRAP \in 0 .. TIME_WRAP - 1
        BY <1>1, QueueConstants
    <2>2. count \in Nat /\ count \in 0 .. COUNT_WRAP - 1
        BY QueueConstants
    <2>3. msg \in Message
        BY <1>1, <2>1, <2>2 DEF Message
    <2>4. Urgency(msg) = l
        BY DEF Urgency
    <2>5. msg.buf \in DOMAIN births' /\ births'[msg.buf] = new
        BY <1>1, <1>2
    <2>6. count <= count + l
        BY <1>4, <2>2 DEF Levels, Top
    <2> QED BY <2>3, <2>4, <2>5, <2>6 DEF Fits
<1>6. \A k \in Levels : \A i \in 1 .. Len(queues[k]) : queues[k][i].buf < buf
    BY <1>1 DEF QueueInv, Sound, SoundLevel, Fits
<1>7. UniqueIds => \A k \in Levels : \A i \in 1 .. Len(queues[k]) : queues[k][i].id # id
    <2>1. \A k \in Levels : \A i \in 1 .. Len(queues[k]) : queues[k][i] \in ToSet(queues[k])
        BY DEF QueueInv, Sound, SoundLevel, ToSet
    <2> QED BY <2>1 DEF Enqueue, LevelsWith
<1> DEFINE r == <<msg>>
<1>8. /\ msg.buf = buf /\ msg.id = id
      /\ Len(r) = 1 /\ r[1] = msg
      /\ SoundLevel(r, l, births')
    BY <1>4, <1>5, OneIsSound
<1>9. queues' = [queues EXCEPT ![l] = @ \o r]
    <2>1. queues[l] \in Seq(Message) /\ msg \in Message
        BY <1>4, <1>5 DEF QueueInv, Sound, SoundLevel, Fits
    <2>2. Append(queues[l], msg) = queues[l] \o r
        BY <2>1, AppendIsConcat
    <2>3. queues' = [queues EXCEPT ![l] = Append(queues[l], msg)]
        BY DEF Enqueue
    <2> QED BY <2>2, <2>3
<1> HIDE DEF msg, new, r, buf
<1>10. \A k \in Levels : Apart(queues[k], r)
    <2> SUFFICES ASSUME NEW k \in Levels, NEW i \in 1 .. Len(queues[k]), NEW j \in 1 .. Len(r)
                 PROVE  Differ(queues[k][i], r[j])
        BY DEF Apart
    <2>1. j = 1 /\ r[j] = msg
        BY <1>8
    <2>2. queues[k][i].buf # buf
        <3>1. queues[k][i].buf < buf /\ queues[k][i].buf \in Nat
            BY <1>1, <1>6 DEF QueueInv, Sound, SoundLevel, Fits
        <3> QED BY <1>1, <3>1
    <2> QED BY <1>7, <1>8, <2>1, <2>2 DEF Differ
<1>11. \A i \in 1 .. Len(r) :
          births'[r[i].buf].moved \/ \A j \in 1 .. Len(queues[l]) : queues[l][j].buf < r[i].buf
    BY <1>4, <1>6, <1>8
<1>12. Knows(births', births)
    BY <1>1, <1>2 DEF Knows
<1>13. /\ Sound(queues', births')
       /\ \A b, k : k \in Levels =>
             (Stands(queues', b, k) <=>
                 Stands(queues, b, k) \/ (k = l /\ \E i \in 1 .. Len(r) : r[i].buf = b))
    <2>1. Sound(queues, births)
        BY DEF QueueInv
    <2>2. SoundLevel(r, l, births')
        BY <1>8
    <2>3. /\ queues' = [k \in Levels |-> queues'[k]]
          /\ queues'[l] = queues[l] \o r
          /\ \A k \in Levels \ {l} : queues'[k] = queues[k]
        BY <1>4, <1>9, <2>1 DEF Sound
    <2> HIDE DEF QueueInv
    <2>4. Joins(queues', births', queues, births, l, r)
        BY <1>10, <1>11, <1>12, <2>1, <2>2, <2>3 DEF Joins
    <2>5. Sound(queues', births')
        BY <1>4, <2>4, JoinedAreSound
    <2>6. ASSUME NEW b, NEW k \in Levels
          PROVE  Stands(queues', b, k) <=>
                     Stands(queues, b, k) \/ (k = l /\ \E i \in 1 .. Len(r) : r[i].buf = b)
        BY <1>4, <2>4, JoinedAreSound
    <2> QED BY <2>5, <2>6
<1>14. \A b : (\E i \in 1 .. Len(r) : r[i].buf = b) <=> b = buf
    BY <1>8
<1> QED BY <1>3, <1>4, <1>13, <1>14 DEF buf

\* A new payload copy is live, queued and counted.
LEMMA EnqueueKeeps ==
    ASSUME QueueInv, NEW id \in Ids, NEW p \in Priorities, NEW count \in InitCounts,
           Enqueue(id, p, count)
    PROVE  QueueInv'
<1> DEFINE l == IF p > Top THEN Top ELSE p
           buf == Len(births) + 1
<1>1. /\ Sound(queues', births') /\ Records' /\ l \in Levels
      /\ \A b, k : k \in Levels =>
            (Stands(queues', b, k) <=> Stands(queues, b, k) \/ (k = l /\ b = buf))
    BY EnqueueSound
<1>2. /\ Sound(queues, births) /\ Records /\ Owned /\ Gone
    BY DEF QueueInv
<1> HIDE DEF l, QueueInv
<1>3. HeldBufs' = HeldBufs \cup {buf}
    <2>1. \A b : b \in HeldBufs' <=> b \in HeldBufs \/ b = buf
        BY <1>1, <1>2, HeldNow, HeldNext
    <2> QED BY <2>1
<1>4. /\ Len(births) \in Nat /\ Len(births') = buf
      /\ live' = live \cup {buf} /\ total_messages' = total_messages + 1
      /\ total_messages < QUEUE_MAX_MESSAGES /\ out' = Nothing
    BY <1>2 DEF Enqueue, Records, HasRoom
<1>5. live \subseteq 1 .. Len(births) /\ total_messages = Cardinality(live)
    BY <1>2 DEF Owned
<1>6. buf \notin live
    BY <1>4, <1>5
<1>7. IsFiniteSet(live)
    BY <1>2, LiveIsFinite
<1> HIDE DEF buf
<1>8. Cardinality(live') = Cardinality(live) + 1 /\ Cardinality(live) \in Nat
    BY <1>4, <1>6, <1>7, FS_AddElement, FS_CardinalityType
<1>9. Owned'
    <2>1. live' \subseteq 1 .. Len(births')
        <3>1. ASSUME NEW b \in live' PROVE b \in 1 .. buf
            <4>1. b = buf \/ b \in 1 .. Len(births)
                BY <1>4, <1>5
            <4>2. buf = Len(births) + 1
                BY DEF buf
            <4> QED BY <1>4, <4>1, <4>2
        <3> QED BY <1>4, <3>1
    <2>2. HeldBufs' \subseteq live' /\ (UniqueIds => live' \subseteq HeldBufs')
        BY <1>2, <1>3, <1>4 DEF Owned
    <2>3. total_messages' = Cardinality(live') /\ total_messages' <= QUEUE_MAX_MESSAGES
        BY <1>4, <1>5, <1>8, QueueConstants
    <2> QED BY <2>1, <2>2, <2>3 DEF Owned
<1>10. Gone'
    <2>1. 1 .. Len(births) \subseteq 1 .. Len(births')
        BY <1>4 DEF buf
    <2>2. delivered' = delivered /\ expired' = expired
        BY DEF Enqueue
    <2> QED BY <1>2, <2>1, <2>2 DEF Gone
<1> QED BY <1>1, <1>4, <1>9, <1>10 DEF QueueInv

\* dequeue takes the front message of a level, and only that.
LEMMA DequeueSound ==
    ASSUME QueueInv, NEW l \in ServedLevel,
           queues' = [queues EXCEPT ![l] = Tail(@)], births' = births
    PROVE  /\ l \in Levels /\ queues[l] # <<>> /\ Stands(queues, Head(queues[l]).buf, l)
           /\ Head(queues[l]) = queues[l][1] /\ 1 \in 1 .. Len(queues[l])
           /\ Sound(queues', births')
           /\ \A b, k : k \in Levels =>
                 (Stands(queues', b, k) <=> Stands(queues, b, k) /\ b # Head(queues[l]).buf)
<1>1. /\ l \in Levels /\ queues[l] # <<>>
    BY DEF ServedLevel
<1>2. /\ Sound(queues, births) /\ \A k \in Levels : queues[k] \in Seq(Message)
      /\ queues = [k \in Levels |-> queues[k]]
    BY DEF QueueInv, Sound, SoundLevel
<1> HIDE DEF QueueInv
<1>3. /\ Head(queues[l]) = queues[l][1] /\ 1 \in 1 .. Len(queues[l])
      /\ Len(queues[l]) \in Nat
      /\ Len(Tail(queues[l])) = Len(queues[l]) - 1
      /\ \A i \in 1 .. Len(queues[l]) - 1 : Tail(queues[l])[i] = queues[l][i + 1]
    <2>1. queues[l] \in Seq(Message) /\ queues[l] # <<>>
        BY <1>1, <1>2
    <2> QED BY <2>1
<1>4. /\ queues' = [k \in Levels |-> queues'[k]]
      /\ queues'[l] = Tail(queues[l])
      /\ \A k \in Levels \ {l} : queues'[k] = queues[k]
    BY <1>1, <1>2
<1>5. \A k \in Levels : Thinned(queues'[k], queues[k])
    BY <1>1, <1>2, <1>4, TailIsThinned, ThinnedSelf
<1>6. Sound(queues', births')
    BY <1>2, <1>4, <1>5, ThinnedAreSound
<1> DEFINE first == Head(queues[l]).buf
<1>7. ASSUME NEW b, NEW k \in Levels
      PROVE  Stands(queues', b, k) <=> Stands(queues, b, k) /\ b # first
    <2>1. CASE k # l
        <3>1. ASSUME NEW i \in 1 .. Len(queues[k]), queues[k][i].buf = first PROVE FALSE
            <4>1. queues[k][i].buf = queues[l][1].buf
                BY <1>3, <3>1
            <4> QED BY <1>1, <1>2, <1>3, <2>1, <4>1, OnePlace
        <3>2. Stands(queues', b, k) <=> Stands(queues, b, k)
            BY <1>4, <2>1 DEF Stands
        <3> QED BY <3>1, <3>2 DEF Stands
    <2>2. CASE k = l
        <3>1. ASSUME NEW i \in 1 .. Len(queues'[l]), queues'[l][i].buf = b
              PROVE  Stands(queues, b, l) /\ b # first
            <4>0. i \in 1 .. Len(queues[l]) - 1
                BY <1>3, <1>4
            <4> DEFINE j == i + 1
            <4>1. j \in 1 .. Len(queues[l]) /\ j # 1
                BY <1>3, <4>0
            <4>2. queues'[l][i] = queues[l][j]
                BY <1>3, <1>4, <4>0
            <4> HIDE DEF j
            <4>3. queues[l][j].buf # queues[l][1].buf
                <5>1. SoundLevel(queues[l], l, births)
                    BY <1>1, <1>2 DEF Sound
                <5>2. Differ(queues[l][j], queues[l][1])
                    BY <1>3, <4>1, <5>1 DEF SoundLevel
                <5> QED BY <5>2 DEF Differ
            <4> QED BY <1>3, <3>1, <4>1, <4>2, <4>3 DEF Stands
        <3>2. ASSUME NEW i \in 1 .. Len(queues[l]), queues[l][i].buf = b, b # first
              PROVE  Stands(queues', b, l)
            <4>1. i # 1
                BY <1>3, <3>2
            <4>2. i - 1 \in 1 .. Len(queues[l]) - 1 /\ (i - 1) + 1 = i
                BY <1>3, <4>1
            <4>3. i - 1 \in 1 .. Len(queues'[l]) /\ queues'[l][i - 1] = queues[l][i]
                BY <1>3, <1>4, <4>2
            <4> QED BY <3>2, <4>3 DEF Stands
        <3> QED BY <2>2, <3>1, <3>2 DEF Stands
    <2> QED BY <2>1, <2>2
<1>8. Stands(queues, first, l)
    BY <1>3 DEF Stands
<1> QED BY <1>1, <1>3, <1>6, <1>7, <1>8

\* Its payload copy is the caller's, and no longer counted.
LEMMA DequeueKeeps ==
    ASSUME QueueInv, Dequeue
    PROVE  QueueInv'
<1>1. PICK l \in ServedLevel :
          /\ out' = Head(queues[l])
          /\ queues' = [queues EXCEPT ![l] = Tail(@)]
          /\ total_messages' = total_messages - 1
          /\ live' = live \ {Head(queues[l]).buf}
          /\ births' = births /\ clock' = clock
          /\ delivered' = delivered \cup {Head(queues[l]).buf} /\ expired' = expired
    BY DEF Dequeue
<1> DEFINE first == Head(queues[l]).buf
<1>2. /\ l \in Levels /\ queues[l] # <<>> /\ Stands(queues, first, l)
      /\ Head(queues[l]) = queues[l][1] /\ 1 \in 1 .. Len(queues[l])
      /\ Sound(queues', births')
      /\ \A b, k : k \in Levels =>
            (Stands(queues', b, k) <=> Stands(queues, b, k) /\ b # first)
    BY <1>1, DequeueSound
<1>3. /\ Sound(queues, births) /\ Records /\ Owned /\ Gone
    BY DEF QueueInv
<1>4. out' \in Message
    <2>1. SoundLevel(queues[l], l, births) /\ 1 \in 1 .. Len(queues[l])
        BY <1>2, <1>3 DEF Sound
    <2>2. queues[l][1] \in Message
        BY <2>1 DEF SoundLevel, Fits
    <2> QED BY <1>1, <1>2, <2>2
<1> HIDE DEF first, QueueInv
<1>5. HeldBufs' = HeldBufs \ {first} /\ first \in HeldBufs
    <2>1. \A b : b \in HeldBufs' <=> b \in HeldBufs /\ b # first
        BY <1>2, <1>3, HeldNow, HeldNext
    <2>2. first \in HeldBufs
        BY <1>2, <1>3, HeldNow
    <2> QED BY <2>1, <2>2
<1>6. live' = live \ {first} /\ delivered' = delivered \cup {first}
    BY <1>1 DEF first
<1>7. Records'
    BY <1>1, <1>3 DEF Records
<1>8. Owned'
    <2>1. first \in live /\ IsFiniteSet(live)
        BY <1>3, <1>5, LiveIsFinite DEF Owned
    <2>2. Cardinality(live') = Cardinality(live) - 1 /\ Cardinality(live) \in Nat
        BY <1>6, <2>1, FS_RemoveElement, FS_CardinalityType
    <2>3. total_messages' = Cardinality(live') /\ total_messages' <= QUEUE_MAX_MESSAGES
        BY <1>1, <1>3, <2>2, QueueConstants DEF Owned
    <2>4. /\ live' \subseteq 1 .. Len(births')
          /\ HeldBufs' \subseteq live' /\ (UniqueIds => live' \subseteq HeldBufs')
        BY <1>1, <1>3, <1>5, <1>6 DEF Owned
    <2> QED BY <2>3, <2>4 DEF Owned
<1>9. Gone'
    BY <1>1, <1>3, <1>5, <1>6 DEF Gone, Owned
<1> QED BY <1>2, <1>4, <1>7, <1>8, <1>9 DEF QueueInv


-----------------------------------------------------------------------------
(* promote and demote. *)

\* find_message ends at a message of the id, if the level holds one.
LEMMA FirstIs ==
    ASSUME NEW q \in Seq(Message), NEW id, \E m \in ToSet(q) : m.id = id
    PROVE  \E n \in 1 .. Len(q) : FirstWith(q, id) = q[n] /\ q[n].id = id
<1> DEFINE I == {i \in 1 .. Len(q) : q[i].id = id}
<1>1. I \subseteq Nat /\ I # {}
    BY DEF ToSet
<1>2. PICK x \in I : \A y \in I : x <= y
    BY <1>1, LeastNatural
<1>3. Min(I) \in I
    BY <1>2 DEF Min
<1>4. SelectInSeq(q, LAMBDA m : m.id = id) = Min(I)
    BY <1>1 DEF SelectInSeq
<1> QED BY <1>3, <1>4 DEF FirstWith

\* Marking a copy as moved changes nothing else in the records.
LEMMA MarkOne ==
    ASSUME Records, NEW b \in DOMAIN births, births' = [births EXCEPT ![b].moved = TRUE]
    PROVE  /\ births' \in Seq(Birth) /\ Len(births') = Len(births)
           /\ Knows(births', births) /\ births'[b].moved
           /\ \A a \in 1 .. Len(births) : births'[a].born = births[a].born
<1>1. births \in Seq(Birth) /\ Len(births) \in Nat
    BY DEF Records
<1>2. DOMAIN births = 1 .. Len(births) /\ DOMAIN births' = 1 .. Len(births)
    BY <1>1
<1>3. ASSUME NEW a \in 1 .. Len(births)
      PROVE  /\ births'[a] \in Birth
             /\ births'[a].born = births[a].born /\ births'[a].base = births[a].base
             /\ births[a].moved => births'[a].moved
    <2>1. births[a] \in Birth
        BY <1>1
    <2> QED BY <1>2, <2>1 DEF Birth
<1>4. births'[b].moved
    <2>1. births[b] \in Birth
        BY <1>1, <1>2
    <2> QED BY <1>2, <2>1 DEF Birth
<1>5. births' \in Seq(Birth) /\ Len(births') = Len(births)
    <2>1. births' = [a \in 1 .. Len(births) |-> births'[a]]
        BY <1>2
    <2>2. births' \in [1 .. Len(births) -> Birth]
        BY <1>3, <2>1
    <2> QED BY <1>1, <2>2
<1> QED BY <1>2, <1>3, <1>4, <1>5 DEF Knows

\* What promote and demote do: position n of level l holds the message found,
\* which goes to level k with a new count.
Moves(id, l, k, n, count) ==
    /\ Sound(queues, births) /\ Records
    /\ l \in Levels /\ k \in Levels /\ l # k
    /\ n \in 1 .. Len(queues[l])
    /\ FirstWith(queues[l], id) = queues[l][n] /\ queues[l][n].id = id
    /\ count \in 0 .. COUNT_WRAP - 1
    /\ count <= births[queues[l][n].buf].base + k
    /\ Relocate(id, l, k, count)

\* The vectors stay sound, the message stands on its new level, and no other
\* copy leaves its place where ids are unique.
LEMMA MoveSound ==
    ASSUME NEW id, NEW l, NEW k, NEW n, NEW count, Moves(id, l, k, n, count),
           NEW buf, buf = queues[l][n].buf
    PROVE  /\ Sound(queues', births')
           /\ births' \in Seq(Birth) /\ Len(births') = Len(births)
           /\ \A a \in 1 .. Len(births) : births'[a].born = births[a].born
           /\ \A b, j : j \in Levels /\ Stands(queues', b, j) =>
                 Stands(queues, b, j) \/ (j = k /\ b = buf)
           /\ UniqueIds =>
                 \A b, j : j \in Levels =>
                    (Stands(queues', b, j) <=> IF b = buf THEN j = k ELSE Stands(queues, b, j))
<1> DEFINE msg == queues[l][n]
           new == [msg EXCEPT !.priority = k, !.promotion_count = count]
           mid == [queues EXCEPT ![l] = WithoutId(@, id)]
           r   == <<new>>
<1>1. /\ Sound(queues, births) /\ Records
      /\ l \in Levels /\ k \in Levels /\ l # k /\ n \in 1 .. Len(queues[l])
      /\ FirstWith(queues[l], id) = msg /\ msg.id = id
      /\ count \in 0 .. COUNT_WRAP - 1 /\ count <= births[buf].base + k
    BY DEF Moves
<1>2. /\ queues' = [queues EXCEPT ![l] = WithoutId(@, id), ![k] = Append(@, new)]
      /\ births' = [births EXCEPT ![buf].moved = TRUE]
    BY <1>1 DEF Moves, Relocate
<1>3. /\ queues = [j \in Levels |-> queues[j]]
      /\ \A j \in Levels : queues[j] \in Seq(Message) /\ Len(queues[j]) \in Nat
      /\ Fits(msg, l, births)
    BY <1>1 DEF Sound, SoundLevel
<1>4. /\ new.buf = buf /\ new.id = id /\ new.priority = k
      /\ new.promotion_count = count /\ new.enqueue_time = msg.enqueue_time
      /\ new \in Message /\ buf \in DOMAIN births
    BY <1>1, <1>3 DEF Fits, Message
<1>5. /\ births' \in Seq(Birth) /\ Len(births') = Len(births)
      /\ Knows(births', births) /\ births'[buf].moved
      /\ \A a \in 1 .. Len(births) : births'[a].born = births[a].born
    BY <1>1, <1>2, <1>4, MarkOne
<1>6. SoundLevel(r, k, births')
    <2>1. Urgency(new) = k
        BY <1>1, <1>4 DEF Urgency, Levels, Top
    <2>2. Fits(new, k, births')
        BY <1>1, <1>3, <1>4, <1>5, <2>1 DEF Fits, Knows
    <2> QED BY <1>1, <2>2, OneIsSound
<1>7. /\ mid = [j \in Levels |-> mid[j]]
      /\ mid[l] = WithoutId(queues[l], id)
      /\ \A j \in Levels \ {l} : mid[j] = queues[j]
    BY <1>1, <1>3
<1>8. /\ queues' = [j \in Levels |-> queues'[j]]
      /\ queues'[k] = Append(mid[k], new)
      /\ \A j \in Levels \ {k} : queues'[j] = mid[j]
    BY <1>1, <1>2, <1>3
<1> HIDE DEF mid
<1>9. Sound(mid, births)
    <2>1. Thinned(mid[l], queues[l])
        BY <1>1, <1>3, <1>7, KeptIsThinned DEF WithoutId
    <2>2. \A j \in Levels : Thinned(mid[j], queues[j])
        BY <1>3, <1>7, <2>1, ThinnedSelf
    <2> QED BY <1>1, <1>7, <2>2, ThinnedAreSound
<1>10. /\ \A i \in 1 .. Len(queues[l]) : queues[l][i].id # id =>
             \E j \in 1 .. Len(mid[l]) : mid[l][j] = queues[l][i]
       /\ \A j \in 1 .. Len(mid[l]) :
             /\ mid[l][j].id # id
             /\ \E i \in 1 .. Len(queues[l]) : mid[l][j] = queues[l][i]
    <2> DEFINE S == {m \in ToSet(queues[l]) : m.id # id}
    <2>1. \A i \in 1 .. Len(queues[l]) : queues[l][i].id # id <=> queues[l][i] \in S
        BY <1>1, <1>3 DEF ToSet
    <2>2. \A m \in S : m.id # id
        OBVIOUS
    <2>3. mid[l] = Kept(queues[l], S)
        BY <1>7 DEF WithoutId
    <2> HIDE DEF S
    <2>4. Keeps(Kept(queues[l], S), queues[l], S)
        BY <1>1, <1>3, KeptHas
    <2> QED BY <2>1, <2>2, <2>3, <2>4 DEF Keeps
<1>11. ASSUME NEW i \in 1 .. Len(queues[l]), queues[l][i].id # id
       PROVE  queues[l][i].buf # buf
    BY <1>1, <1>11 DEF Sound, SoundLevel, Differ
<1> HIDE DEF new, r
<1>12. ASSUME NEW j \in Levels PROVE Apart(mid[j], r)
    <2>0. Len(r) = 1 /\ r[1] = new
        BY DEF r
    <2> SUFFICES ASSUME NEW i \in 1 .. Len(mid[j]) PROVE Differ(mid[j][i], new)
        BY <2>0 DEF Apart
    <2>1. CASE j = l
        <3>1. PICK a \in 1 .. Len(queues[l]) : mid[l][i] = queues[l][a]
            BY <1>10, <2>1
        <3>2. mid[l][i].id # id
            BY <1>10, <2>1
        <3>3. queues[l][a].buf # buf
            BY <1>11, <3>1, <3>2
        <3> QED BY <1>4, <2>1, <3>1, <3>2, <3>3 DEF Differ
    <2>2. CASE j # l
        <3>1. Differ(queues[j][i], msg) /\ mid[j] = queues[j]
            BY <1>1, <1>7, <2>2 DEF Sound, Apart
        <3> QED BY <1>1, <1>4, <3>1 DEF Differ
    <2> QED BY <2>1, <2>2
<1>13. Joins(queues', births', mid, births, k, r)
    <2>1. mid[k] \in Seq(Message) /\ Append(mid[k], new) = mid[k] \o r
        BY <1>1, <1>4, <1>9, AppendIsConcat DEF Sound, SoundLevel, r
    <2>2. \A i \in 1 .. Len(r) : births'[r[i].buf].moved
        BY <1>4, <1>5 DEF r
    <2> QED BY <1>5, <1>6, <1>8, <1>9, <1>12, <2>1, <2>2 DEF Joins
<1>14. Sound(queues', births')
    BY <1>1, <1>13, JoinedAreSound
<1>15. ASSUME NEW b, NEW j \in Levels
       PROVE  Stands(queues', b, j) <=> Stands(mid, b, j) \/ (j = k /\ b = buf)
    <2>0. k \in Levels
        BY <1>1
    <2>1. Stands(queues', b, j) <=>
              Stands(mid, b, j) \/ (j = k /\ \E i \in 1 .. Len(r) : r[i].buf = b)
        BY <1>13, <2>0, JoinedAreSound
    <2>2. (\E i \in 1 .. Len(r) : r[i].buf = b) <=> b = buf
        BY <1>4 DEF r
    <2> QED BY <2>1, <2>2
<1>16. ASSUME NEW b, NEW j \in Levels, Stands(mid, b, j)
       PROVE  Stands(queues, b, j) /\ b # buf
    <2>1. CASE j = l
        <3>1. PICK i \in 1 .. Len(mid[l]) : mid[l][i].buf = b
            BY <1>16, <2>1 DEF Stands
        <3>2. PICK a \in 1 .. Len(queues[l]) : mid[l][i] = queues[l][a]
            BY <1>10, <3>1
        <3>3. mid[l][i].id # id
            BY <1>10, <3>1
        <3>4. queues[l][a].buf # buf
            BY <1>11, <3>2, <3>3
        <3> QED BY <2>1, <3>1, <3>2, <3>4 DEF Stands
    <2>2. CASE j # l
        <3>1. PICK i \in 1 .. Len(queues[j]) : queues[j][i].buf = b
            BY <1>7, <1>16, <2>2 DEF Stands
        <3>2. Differ(queues[j][i], msg)
            BY <1>1, <2>2 DEF Sound, Apart
        <3> QED BY <3>1, <3>2 DEF Stands, Differ
    <2> QED BY <2>1, <2>2
<1>17. ASSUME UniqueIds, NEW b, NEW j \in Levels, Stands(queues, b, j), b # buf
       PROVE  Stands(mid, b, j)
    <2>1. CASE j = l
        <3>1. PICK i \in 1 .. Len(queues[l]) : queues[l][i].buf = b
            BY <1>17, <2>1 DEF Stands
        <3>2. i # n
            BY <1>17, <3>1
        <3>3. queues[l][i].id # id
            BY <1>1, <1>17, <3>2 DEF Sound, SoundLevel, Differ
        <3> QED BY <1>10, <2>1, <3>1, <3>3 DEF Stands
    <2>2. CASE j # l
        BY <1>7, <1>17, <2>2 DEF Stands
    <2> QED BY <2>1, <2>2
<1>18. ASSUME UniqueIds, NEW b, NEW j \in Levels
       PROVE  Stands(queues', b, j) <=> IF b = buf THEN j = k ELSE Stands(queues, b, j)
    BY <1>15, <1>16, <1>17, <1>18
<1> QED BY <1>5, <1>14, <1>15, <1>16, <1>18


\* promote and demote find the message they move; its count stays within
\* bounds whether it is raised by one, modulo 2^16, or reset.
LEMMA FoundMoves ==
    ASSUME QueueInv, NEW id, NEW l \in FoundAt(id), NEW k \in Levels,
           \/ k = l + 1 /\ Relocate(id, l, k, PromotedCount(FirstWith(queues[l], id)))
           \/ k = l - 1 /\ Relocate(id, l, k, DemotedCount(FirstWith(queues[l], id)))
    PROVE  \E n \in 1 .. Len(queues[l]), count \in 0 .. COUNT_WRAP - 1 :
               Moves(id, l, k, n, count)
<1>1. /\ Sound(queues, births) /\ Records
    BY DEF QueueInv
<1>2. l \in Levels /\ \E m \in ToSet(queues[l]) : m.id = id
    BY DEF FoundAt, LevelsWith
<1>3. queues[l] \in Seq(Message)
    BY <1>1, <1>2 DEF Sound, SoundLevel
<1>4. PICK n \in 1 .. Len(queues[l]) :
          FirstWith(queues[l], id) = queues[l][n] /\ queues[l][n].id = id
    BY <1>2, <1>3, FirstIs
<1> DEFINE m == queues[l][n]
           base == births[m.buf].base
<1>5. Fits(m, l, births)
    BY <1>1, <1>2, <1>4 DEF Sound, SoundLevel
<1>6. /\ m.promotion_count \in Nat /\ base \in Nat /\ m.promotion_count <= base + l
      /\ l \in Nat /\ k \in Nat /\ l # k
    <2>1. m \in Message /\ m.buf \in DOMAIN births /\ m.promotion_count <= base + l
        BY <1>5 DEF Fits
    <2>2. births[m.buf] \in Birth
        BY <1>1, <2>1 DEF Records
    <2>3. l \in Nat /\ k \in Nat /\ l # k
        BY <1>2 DEF Levels, Top
    <2>4. m.promotion_count \in 0 .. COUNT_WRAP - 1 /\ base \in 0 .. COUNT_WRAP - 1
        <3>1. base \in InitCounts
            BY <2>2 DEF Birth
        <3> QED BY <2>1, <3>1, QueueConstants DEF Message
    <2> QED BY <2>1, <2>3, <2>4
<1> HIDE DEF m, base
<1>7. CASE k = l + 1 /\ Relocate(id, l, k, PromotedCount(FirstWith(queues[l], id)))
    <2> DEFINE count == (m.promotion_count + 1) % COUNT_WRAP
    <2>1. count \in 0 .. COUNT_WRAP - 1 /\ count <= m.promotion_count + 1
        <3> DEFINE c == m.promotion_count
        <3>1. c \in Nat /\ COUNT_WRAP \in Nat \ {0}
            BY <1>6, QueueConstants
        <3> HIDE DEF c
        <3>2. /\ ((c + 1) % COUNT_WRAP) \in 0 .. COUNT_WRAP - 1
              /\ ((c + 1) % COUNT_WRAP) <= c + 1
            BY <3>1
        <3> QED BY <3>2 DEF c
    <2>2. count <= base + k
        BY <1>6, <1>7, <2>1
    <2>3. Relocate(id, l, k, count)
        BY <1>4, <1>7 DEF PromotedCount, m
    <2> HIDE DEF count
    <2> QED BY <1>1, <1>2, <1>4, <1>6, <2>1, <2>2, <2>3 DEF Moves, m, base
<1>8. CASE k = l - 1 /\ Relocate(id, l, k, DemotedCount(FirstWith(queues[l], id)))
    <2>1. Relocate(id, l, k, 0) /\ 0 \in 0 .. COUNT_WRAP - 1 /\ 0 <= base + k
        BY <1>6, <1>8, QueueConstants DEF DemotedCount
    <2> QED BY <1>1, <1>2, <1>4, <1>6, <2>1 DEF Moves, m, base
<1> QED BY <1>7, <1>8

\* A message that moves keeps its copy, its id and its caller's count.
LEMMA MoveKeeps ==
    ASSUME QueueInv, NEW id, NEW l, NEW k, NEW n, NEW count, Moves(id, l, k, n, count),
           out' = Nothing, UNCHANGED <<total_messages, live, clock, delivered, expired>>
    PROVE  QueueInv'
<1> DEFINE buf == queues[l][n].buf
<1>1. /\ Sound(queues', births')
      /\ births' \in Seq(Birth) /\ Len(births') = Len(births)
      /\ \A a \in 1 .. Len(births) : births'[a].born = births[a].born
      /\ \A b, j : j \in Levels /\ Stands(queues', b, j) =>
            Stands(queues, b, j) \/ (j = k /\ b = buf)
      /\ UniqueIds =>
            \A b, j : j \in Levels =>
               (Stands(queues', b, j) <=> IF b = buf THEN j = k ELSE Stands(queues, b, j))
    BY MoveSound
<1>2. /\ Sound(queues, births) /\ Records /\ Owned /\ Gone
    BY DEF QueueInv
<1>3. l \in Levels /\ k \in Levels /\ n \in 1 .. Len(queues[l])
    BY DEF Moves
<1>4. Stands(queues, buf, l)
    BY <1>3 DEF Stands
<1> HIDE DEF buf, QueueInv, Moves
<1>5. \A b : b \in HeldBufs <=> \E j \in Levels : Stands(queues, b, j)
    BY <1>2, HeldNow
<1>6. \A b : b \in HeldBufs' <=> \E j \in Levels : Stands(queues', b, j)
    BY <1>1, HeldNext
<1>7. ASSUME NEW b \in HeldBufs' PROVE b \in HeldBufs
    BY <1>1, <1>3, <1>4, <1>5, <1>6
<1>8. ASSUME UniqueIds, NEW b \in HeldBufs PROVE b \in HeldBufs'
    <2>1. PICK j \in Levels : Stands(queues, b, j)
        BY <1>5, <1>8
    <2>2. CASE b = buf
        BY <1>1, <1>3, <1>6, <1>8, <2>2
    <2>3. CASE b # buf
        BY <1>1, <1>6, <1>8, <2>1, <2>3
    <2> QED BY <2>2, <2>3
<1>9. Owned'
    <2>1. /\ HeldBufs' \subseteq live' /\ (UniqueIds => live' \subseteq HeldBufs')
        BY <1>2, <1>7, <1>8 DEF Owned
    <2> QED BY <1>1, <1>2, <2>1 DEF Owned
<1>10. Records'
    BY <1>1, <1>2 DEF Records
<1>11. Gone'
    BY <1>1, <1>2 DEF Gone
<1> QED BY <1>1, <1>9, <1>10, <1>11 DEF QueueInv

\* Promoting a message keeps the queue sound (queue.cpp).
LEMMA PromoteKeeps ==
    ASSUME QueueInv, NEW id \in Ids, Promote(id)
    PROVE  QueueInv'
<1>1. PICK l \in FoundAt(id) :
          /\ l < Top
          /\ Relocate(id, l, l + 1, PromotedCount(FirstWith(queues[l], id)))
          /\ out' = Nothing
          /\ UNCHANGED <<total_messages, live, clock, delivered, expired>>
    BY DEF Promote
<1>2. l + 1 \in Levels
    BY <1>1 DEF FoundAt, LevelsWith, Levels, Top
<1>3. \E n \in 1 .. Len(queues[l]), count \in 0 .. COUNT_WRAP - 1 :
          Moves(id, l, l + 1, n, count)
    BY <1>1, <1>2, FoundMoves
<1> QED BY <1>1, <1>3, MoveKeeps

\* Demoting a message keeps the queue sound (queue.cpp).
LEMMA DemoteKeeps ==
    ASSUME QueueInv, NEW id \in Ids, Demote(id)
    PROVE  QueueInv'
<1>1. PICK l \in FoundAt(id) :
          /\ l > 0
          /\ Relocate(id, l, l - 1, DemotedCount(FirstWith(queues[l], id)))
          /\ out' = Nothing
          /\ UNCHANGED <<total_messages, live, clock, delivered, expired>>
    BY DEF Demote
<1>2. l - 1 \in Levels
    BY <1>1 DEF FoundAt, LevelsWith, Levels, Top
<1>3. \E n \in 1 .. Len(queues[l]), count \in 0 .. COUNT_WRAP - 1 :
          Moves(id, l, l - 1, n, count)
    BY <1>1, <1>2, FoundMoves
<1> QED BY <1>1, <1>3, MoveKeeps

-----------------------------------------------------------------------------
(* expire_old. *)

\* The dead messages leave the vectors, and nothing else does.
LEMMA ExpireSound ==
    ASSUME QueueInv, NEW dead, dead \subseteq Held,
           queues' = [l \in Levels |-> Kept(queues[l], Held \ dead)], births' = births
    PROVE  /\ Sound(queues', births')
           /\ \A b, l : l \in Levels =>
                 (Stands(queues', b, l) <=> Stands(queues, b, l) /\ b \notin {m.buf : m \in dead})
<1>1. Sound(queues, births)
    BY DEF QueueInv
<1>2. \A l \in Levels : queues[l] \in Seq(Message)
    BY <1>1 DEF Sound, SoundLevel
<1>3. /\ queues' = [l \in Levels |-> queues'[l]]
      /\ \A l \in Levels : queues'[l] = Kept(queues[l], Held \ dead)
    OBVIOUS
<1>4. Sound(queues', births')
    <2>1. \A l \in Levels : Thinned(queues'[l], queues[l])
        BY <1>2, <1>3, KeptIsThinned
    <2> QED BY <1>1, <1>3, <2>1, ThinnedAreSound
<1>5. \A m : m \in Held <=> \E l \in Levels : \E i \in 1 .. Len(queues[l]) : m = queues[l][i]
    BY <1>1, HeldNow
<1>6. ASSUME NEW m \in Held, NEW n \in Held, m.buf = n.buf PROVE m = n
    BY <1>1, <1>5, <1>6, OnePlace
<1> DEFINE deadBufs == {m.buf : m \in dead}
<1>7. ASSUME NEW l \in Levels, NEW i \in 1 .. Len(queues[l])
      PROVE  queues[l][i] \in Held \ dead <=> queues[l][i].buf \notin deadBufs
    BY <1>5, <1>6
<1> HIDE DEF deadBufs
<1>8. ASSUME NEW b, NEW l \in Levels
      PROVE  Stands(queues', b, l) <=> Stands(queues, b, l) /\ b \notin deadBufs
    <2> DEFINE q == queues[l]
               p == queues'[l]
               rest == Held \ dead
    <2>0. q \in Seq(Message) /\ p = Kept(q, rest)
        BY <1>2, <1>3
    <2>1. \A i \in 1 .. Len(q) : q[i] \in rest <=> q[i].buf \notin deadBufs
        BY <1>7
    <2> HIDE DEF q, p, rest
    <2>2. /\ \A i \in 1 .. Len(q) : q[i] \in rest => \E j \in 1 .. Len(p) : p[j] = q[i]
          /\ \A j \in 1 .. Len(p) : p[j] \in rest /\ \E i \in 1 .. Len(q) : p[j] = q[i]
        <3>1. Keeps(Kept(q, rest), q, rest)
            BY <2>0, KeptHas
        <3> QED BY <2>0, <3>1 DEF Keeps
    <2>3. (\E j \in 1 .. Len(p) : p[j].buf = b) <=>
              (\E i \in 1 .. Len(q) : q[i].buf = b) /\ b \notin deadBufs
        BY <2>1, <2>2
    <2> QED BY <2>3 DEF Stands, q, p
<1> QED BY <1>4, <1>8 DEF deadBufs

\* Each dead message takes one copy with it, and is counted once.
LEMMA ExpireKeeps ==
    ASSUME QueueInv, NEW max_age, ExpireOld(max_age)
    PROVE  QueueInv'
<1> DEFINE dead == {m \in Held : TooOld(m, clock % TIME_WRAP, max_age)}
           deadBufs == {m.buf : m \in dead}
<1>1. /\ queues' = [l \in Levels |-> Kept(queues[l], Held \ dead)]
      /\ total_messages' = total_messages - Cardinality(dead)
      /\ live' = live \ deadBufs
      /\ out' = Nothing /\ births' = births /\ clock' = clock
      /\ delivered' = delivered /\ expired' = expired \cup deadBufs
      /\ dead \subseteq Held
    BY DEF ExpireOld
<1>2. /\ Sound(queues, births) /\ Records /\ Owned /\ Gone
    BY DEF QueueInv
<1>3. deadBufs \subseteq HeldBufs
    BY DEF HeldBufs
<1>4. \A m : m \in Held <=> \E l \in Levels : \E i \in 1 .. Len(queues[l]) : m = queues[l][i]
    BY <1>2, HeldNow
<1>5. ASSUME NEW m \in Held, NEW n \in Held, m.buf = n.buf PROVE m = n
    BY <1>2, <1>4, <1>5, OnePlace
<1> HIDE DEF dead
<1>6. /\ Sound(queues', births')
      /\ \A b, l : l \in Levels =>
            (Stands(queues', b, l) <=> Stands(queues, b, l) /\ b \notin deadBufs)
    BY <1>1, ExpireSound
<1> HIDE DEF QueueInv
<1>7. IsFiniteSet(live) /\ IsFiniteSet(deadBufs) /\ deadBufs \subseteq live
    BY <1>2, <1>3, LiveIsFinite, FS_Subset DEF Owned
<1>8. Cardinality(dead) = Cardinality(deadBufs)
    <2> DEFINE holder == [b \in deadBufs |-> CHOOSE m \in dead : m.buf = b]
    <2>1. \A b \in deadBufs : holder[b] \in dead /\ holder[b].buf = b
        OBVIOUS
    <2> HIDE DEF holder
    <2>2. \A a, b \in deadBufs : holder[a] = holder[b] => a = b
        BY <2>1
    <2>3. {holder[b] : b \in deadBufs} = dead
        <3>1. ASSUME NEW m \in dead PROVE m.buf \in deadBufs /\ holder[m.buf] = m
            <4>1. m.buf \in deadBufs
                OBVIOUS
            <4>2. holder[m.buf] \in dead /\ holder[m.buf].buf = m.buf
                BY <2>1, <4>1
            <4> QED BY <1>1, <1>5, <4>1, <4>2
        <3> HIDE DEF deadBufs
        <3> QED BY <2>1, <3>1
    <2> HIDE DEF deadBufs
    <2> QED BY <1>7, <2>2, <2>3, CountOfImage
<1> HIDE DEF deadBufs
<1>9. HeldBufs' = HeldBufs \ deadBufs
    <2>1. \A b : b \in HeldBufs' <=> b \in HeldBufs /\ b \notin deadBufs
        BY <1>2, <1>6, HeldNow, HeldNext
    <2> QED BY <2>1
<1>10. /\ Cardinality(live') = Cardinality(live) - Cardinality(deadBufs)
       /\ Cardinality(live) \in Nat /\ Cardinality(deadBufs) \in Nat
    <2>1. live \cap deadBufs = deadBufs /\ live' = live \ deadBufs
        BY <1>1, <1>7
    <2>2. Cardinality(live \ deadBufs) = Cardinality(live) - Cardinality(live \cap deadBufs)
        BY <1>7, FS_Difference, Zenon
    <2>3. Cardinality(live) \in Nat /\ Cardinality(deadBufs) \in Nat
        BY <1>7, FS_CardinalityType
    <2> QED BY <2>1, <2>2, <2>3
<1>11. Owned'
    <2>1. total_messages' = Cardinality(live') /\ total_messages' <= QUEUE_MAX_MESSAGES
        BY <1>1, <1>2, <1>8, <1>10, QueueConstants DEF Owned
    <2>2. /\ live' \subseteq 1 .. Len(births')
          /\ HeldBufs' \subseteq live' /\ (UniqueIds => live' \subseteq HeldBufs')
        BY <1>1, <1>2, <1>9 DEF Owned
    <2> QED BY <2>1, <2>2 DEF Owned
<1>12. Records'
    BY <1>1, <1>2 DEF Records
<1>13. Gone'
    BY <1>1, <1>2, <1>7 DEF Gone, Owned
<1> QED BY <1>1, <1>6, <1>11, <1>12, <1>13 DEF QueueInv


-----------------------------------------------------------------------------
(* reprioritize. *)

\* Copy b is held by a ripe message of level l.
RipeAt(qs, b, l) == \E i \in 1 .. Len(qs[l]) : qs[l][i].buf = b /\ Ripe(qs[l][i])

\* Every ripe message below the top is marked as moved.
AllMarked(qs, bs) ==
    \A l \in 0 .. Top - 1 : \A i \in 1 .. Len(qs[l]) : Ripe(qs[l][i]) => bs[qs[l][i].buf].moved

\* A lifted message keeps its copy and its id, fits its new level and is not ripe.
LEMMA LiftedFits ==
    ASSUME NEW bs \in Seq(Birth), NEW l \in 0 .. Top - 1, NEW m, Fits(m, l, bs)
    PROVE  /\ Lifted(m, l + 1).buf = m.buf /\ Lifted(m, l + 1).id = m.id
           /\ Fits(Lifted(m, l + 1), l + 1, bs)
           /\ ~Ripe(Lifted(m, l + 1))
<1> DEFINE new == Lifted(m, l + 1)
<1>1. /\ m \in Message /\ m.buf \in DOMAIN bs /\ l + 1 \in Levels /\ l + 1 \in Nat
      /\ m.enqueue_time = bs[m.buf].born % TIME_WRAP
    BY DEF Fits, Levels, Top
<1>2. /\ new.buf = m.buf /\ new.id = m.id /\ new.enqueue_time = m.enqueue_time
      /\ new.priority = l + 1 /\ new.promotion_count = 0
    BY <1>1 DEF Lifted, Message
<1>3. 0 \in 0 .. COUNT_WRAP - 1
    BY QueueConstants
<1>4. new \in Message
    BY <1>1, <1>3 DEF Lifted, Message
<1>5. Urgency(new) = l + 1
    BY <1>1, <1>2 DEF Urgency, Levels, Top
<1>6. bs[m.buf].base \in Nat
    <2>1. bs[m.buf] \in Birth
        BY <1>1
    <2> HIDE DEF new
    <2>2. bs[m.buf].base \in InitCounts
        BY <2>1 DEF Birth
    <2>3. bs[m.buf].base \in 0 .. COUNT_WRAP - 1
        BY <2>2, QueueConstants
    <2> QED BY <2>3, QueueConstants
<1>7. 0 <= bs[m.buf].base + (l + 1)
    BY <1>1, <1>6
<1> HIDE DEF new
<1>8. Fits(new, l + 1, bs)
    BY <1>1, <1>2, <1>4, <1>5, <1>7 DEF Fits
<1>9. ~Ripe(new)
    BY <1>2, QueueConstants DEF Ripe
<1> QED BY <1>2, <1>8, <1>9 DEF new

\* One pass: the ripe messages of a level stand on the next one, unripe, and
\* everything else stays.
LEMMA LiftSound ==
    ASSUME NEW qs, NEW bs \in Seq(Birth), Sound(qs, bs), AllMarked(qs, bs),
           NEW l \in 0 .. Top - 1, NEW ps, ps = LiftLevel(qs, l)
    PROVE  /\ Sound(ps, bs) /\ AllMarked(ps, bs)
           /\ \A b, k : k \in Levels =>
                 /\ Stands(ps, b, k) <=>
                       \/ Stands(qs, b, k) /\ (k = l => ~RipeAt(qs, b, l))
                       \/ k = l + 1 /\ RipeAt(qs, b, l)
                 /\ RipeAt(ps, b, k) <=> k # l /\ RipeAt(qs, b, k)
<1> DEFINE ripe == Kept(qs[l], {m \in ToSet(qs[l]) : Ripe(m)})
           rest == Kept(qs[l], {m \in ToSet(qs[l]) : ~Ripe(m)})
           r    == [i \in DOMAIN ripe |-> Lifted(ripe[i], l + 1)]
           mid  == [qs EXCEPT ![l] = rest]
<1>1. l \in Levels /\ l + 1 \in Levels /\ l + 1 # l
    BY DEF Levels, Top
<1>2. /\ qs = [k \in Levels |-> qs[k]]
      /\ \A k \in Levels : SoundLevel(qs[k], k, bs) /\ qs[k] \in Seq(Message)
    BY DEF Sound, SoundLevel
<1>3. \A i \in 1 .. Len(qs[l]) :
          /\ qs[l][i] \in {m \in ToSet(qs[l]) : Ripe(m)} <=> Ripe(qs[l][i])
          /\ qs[l][i] \in {m \in ToSet(qs[l]) : ~Ripe(m)} <=> ~Ripe(qs[l][i])
    BY <1>1, <1>2 DEF ToSet
<1>4. /\ Thinned(ripe, qs[l]) /\ Thinned(rest, qs[l])
    BY <1>1, <1>2, KeptIsThinned
<1>5. /\ \A i \in 1 .. Len(qs[l]) : Ripe(qs[l][i]) => \E j \in 1 .. Len(ripe) : ripe[j] = qs[l][i]
      /\ \A j \in 1 .. Len(ripe) :
            Ripe(ripe[j]) /\ \E i \in 1 .. Len(qs[l]) : ripe[j] = qs[l][i]
    <2> DEFINE S == {m \in ToSet(qs[l]) : Ripe(m)}
    <2>1. \A m \in S : Ripe(m)
        OBVIOUS
    <2>2. \A i \in 1 .. Len(qs[l]) : Ripe(qs[l][i]) => qs[l][i] \in S
        BY <1>3
    <2>3. qs[l] \in Seq(Message) /\ ripe = Kept(qs[l], S)
        BY <1>1, <1>2
    <2> HIDE DEF S, ripe
    <2>4. Keeps(Kept(qs[l], S), qs[l], S)
        BY <2>3, KeptHas
    <2> QED BY <2>1, <2>2, <2>3, <2>4 DEF Keeps
<1>6. /\ \A i \in 1 .. Len(qs[l]) : ~Ripe(qs[l][i]) => \E j \in 1 .. Len(rest) : rest[j] = qs[l][i]
      /\ \A j \in 1 .. Len(rest) :
            ~Ripe(rest[j]) /\ \E i \in 1 .. Len(qs[l]) : rest[j] = qs[l][i]
    <2> DEFINE S == {m \in ToSet(qs[l]) : ~Ripe(m)}
    <2>1. \A m \in S : ~Ripe(m)
        OBVIOUS
    <2>2. \A i \in 1 .. Len(qs[l]) : ~Ripe(qs[l][i]) => qs[l][i] \in S
        BY <1>3
    <2>3. qs[l] \in Seq(Message) /\ rest = Kept(qs[l], S)
        BY <1>1, <1>2
    <2> HIDE DEF S, rest
    <2>4. Keeps(Kept(qs[l], S), qs[l], S)
        BY <2>3, KeptHas
    <2> QED BY <2>1, <2>2, <2>3, <2>4 DEF Keeps
<1>7. SoundLevel(ripe, l, bs)
    BY <1>1, <1>2, <1>4, ThinnedIsSound
<1>8. /\ ps = [k \in Levels |-> ps[k]]
      /\ ps[l + 1] = qs[l + 1] \o r /\ ps[l] = rest
      /\ \A k \in Levels \ {l, l + 1} : ps[k] = qs[k]
    BY <1>1, <1>2 DEF LiftLevel
<1>9. /\ mid = [k \in Levels |-> mid[k]]
      /\ mid[l] = rest /\ \A k \in Levels \ {l} : mid[k] = qs[k]
    BY <1>1, <1>2
<1> HIDE DEF ripe, rest, mid
<1>10. /\ ripe \in Seq(Message) /\ Len(ripe) \in Nat /\ DOMAIN ripe = 1 .. Len(ripe)
       /\ \A i \in 1 .. Len(ripe) : Fits(ripe[i], l, bs)
    BY <1>7 DEF SoundLevel
<1>11. \A i \in 1 .. Len(ripe) :
          /\ r[i] = Lifted(ripe[i], l + 1)
          /\ r[i].buf = ripe[i].buf /\ r[i].id = ripe[i].id
          /\ Fits(r[i], l + 1, bs) /\ ~Ripe(r[i])
    BY <1>10, LiftedFits
<1>12. r \in Seq(Message) /\ Len(r) = Len(ripe)
    <2>1. \A i \in 1 .. Len(ripe) : r[i] \in Message
        BY <1>11 DEF Fits
    <2>2. r = [i \in 1 .. Len(ripe) |-> r[i]]
        BY <1>10
    <2> HIDE DEF r
    <2>3. r \in [1 .. Len(ripe) -> Message]
        BY <2>1, <2>2
    <2> QED BY <1>10, <2>3
<1> HIDE DEF r
<1>13. \A i \in 1 .. Len(r) : bs[r[i].buf].moved
    <2>1. ASSUME NEW j \in 1 .. Len(ripe) PROVE bs[ripe[j].buf].moved
        <3>1. PICK i \in 1 .. Len(qs[l]) : ripe[j] = qs[l][i]
            BY <1>5
        <3>2. Ripe(qs[l][i])
            BY <1>5, <3>1
        <3> QED BY <3>1, <3>2 DEF AllMarked
    <2> QED BY <1>11, <1>12, <2>1
<1>14. SoundLevel(r, l + 1, bs)
    <2>1. \A i, j \in 1 .. Len(r) : i # j => Differ(r[i], r[j])
        BY <1>7, <1>11, <1>12 DEF SoundLevel, Differ
    <2> QED BY <1>11, <1>12, <1>13, <2>1 DEF SoundLevel
<1>15. Sound(mid, bs)
    <2>1. \A k \in Levels : Thinned(mid[k], qs[k])
        BY <1>2, <1>4, <1>9, ThinnedSelf
    <2> QED BY <1>9, <2>1, ThinnedAreSound
<1>16. ASSUME NEW k \in Levels PROVE Apart(mid[k], r)
    <2> SUFFICES ASSUME NEW i \in 1 .. Len(mid[k]), NEW j \in 1 .. Len(ripe)
                 PROVE  Differ(mid[k][i], ripe[j])
        BY <1>11, <1>12 DEF Apart, Differ
    <2>1. PICK n \in 1 .. Len(qs[l]) : ripe[j] = qs[l][n] /\ Ripe(qs[l][n])
        BY <1>5
    <2>2. CASE k = l
        <3>1. PICK a \in 1 .. Len(qs[l]) : mid[k][i] = qs[l][a] /\ ~Ripe(qs[l][a])
            BY <1>6, <1>9, <2>2
        <3>2. a # n
            BY <2>1, <3>1
        <3>3. Differ(qs[l][a], qs[l][n])
            BY <1>1, <1>2, <3>2 DEF SoundLevel
        <3> QED BY <2>1, <3>1, <3>3
    <2>3. CASE k # l
        <3>1. Differ(qs[k][i], qs[l][n]) /\ mid[k] = qs[k]
            BY <1>1, <1>9, <2>3 DEF Sound, Apart
        <3> QED BY <2>1, <3>1
    <2> QED BY <2>2, <2>3
<1>17. Joins(ps, bs, mid, bs, l + 1, r)
    <2>1. Knows(bs, bs)
        BY DEF Knows
    <2>2. ps[l + 1] = mid[l + 1] \o r /\ \A k \in Levels \ {l + 1} : ps[k] = mid[k]
        BY <1>1, <1>8, <1>9
    <2> QED BY <1>8, <1>13, <1>14, <1>15, <1>16, <2>1, <2>2 DEF Joins
<1>18. Sound(ps, bs)
    BY <1>1, <1>17, JoinedAreSound
<1>19. ASSUME NEW b PROVE (\E i \in 1 .. Len(r) : r[i].buf = b) <=> RipeAt(qs, b, l)
    <2>1. ASSUME NEW i \in 1 .. Len(r), r[i].buf = b PROVE RipeAt(qs, b, l)
        <3>1. ripe[i].buf = b /\ i \in 1 .. Len(ripe)
            BY <1>11, <1>12, <2>1
        <3> QED BY <1>5, <3>1 DEF RipeAt
    <2>2. ASSUME NEW n \in 1 .. Len(qs[l]), qs[l][n].buf = b, Ripe(qs[l][n])
          PROVE  \E i \in 1 .. Len(r) : r[i].buf = b
        <3>1. PICK j \in 1 .. Len(ripe) : ripe[j] = qs[l][n]
            BY <1>5, <2>2
        <3> QED BY <1>11, <1>12, <2>2, <3>1
    <2> QED BY <2>1, <2>2 DEF RipeAt
<1>20. ASSUME NEW b PROVE Stands(mid, b, l) <=> Stands(qs, b, l) /\ ~RipeAt(qs, b, l)
    <2>1. ASSUME NEW i \in 1 .. Len(rest), rest[i].buf = b
          PROVE  Stands(qs, b, l) /\ ~RipeAt(qs, b, l)
        <3>1. PICK n \in 1 .. Len(qs[l]) : rest[i] = qs[l][n] /\ ~Ripe(qs[l][n])
            BY <1>6
        <3>2. ASSUME NEW a \in 1 .. Len(qs[l]), qs[l][a].buf = b PROVE a = n
            BY <1>1, <1>2, <2>1, <3>1, <3>2 DEF SoundLevel, Differ
        <3> QED BY <2>1, <3>1, <3>2 DEF Stands, RipeAt
    <2>2. ASSUME NEW n \in 1 .. Len(qs[l]), qs[l][n].buf = b, ~RipeAt(qs, b, l)
          PROVE  Stands(mid, b, l)
        <3>1. ~Ripe(qs[l][n])
            BY <2>2 DEF RipeAt
        <3> QED BY <1>6, <1>9, <2>2, <3>1 DEF Stands
    <2> QED BY <1>9, <2>1, <2>2 DEF Stands
<1>21. ASSUME NEW b, NEW k \in Levels
       PROVE  Stands(ps, b, k) <=> \/ Stands(qs, b, k) /\ (k = l => ~RipeAt(qs, b, l))
                                   \/ k = l + 1 /\ RipeAt(qs, b, l)
    <2>1. Stands(ps, b, k) <=>
              Stands(mid, b, k) \/ (k = l + 1 /\ \E i \in 1 .. Len(r) : r[i].buf = b)
        BY <1>1, <1>17, JoinedAreSound
    <2>2. k # l => (Stands(mid, b, k) <=> Stands(qs, b, k))
        BY <1>9 DEF Stands
    <2> QED BY <1>19, <1>20, <2>1, <2>2
<1> DEFINE p == ps[l + 1]
           q == qs[l + 1]
<1>22a. /\ p = q \o r /\ q \in Seq(Message) /\ Len(q) \in Nat
        /\ r \in Seq(Message) /\ Len(r) \in Nat
    BY <1>1, <1>2, <1>8, <1>12
<1> HIDE DEF p, q
<1>22b. /\ Len(p) = Len(q) + Len(r)
        /\ \A j \in 1 .. Len(q) + Len(r) : p[j] = IF j <= Len(q) THEN q[j] ELSE r[j - Len(q)]
    BY <1>22a, ConcatProperties
<1>22. ASSUME NEW i \in 1 .. Len(p)
       PROVE  \/ i \in 1 .. Len(q) /\ p[i] = q[i]
              \/ ~Ripe(p[i])
    <2>1. CASE i <= Len(q)
        BY <1>22a, <1>22b, <2>1
    <2>2. CASE ~(i <= Len(q))
        <3>1. i - Len(q) \in 1 .. Len(r) /\ p[i] = r[i - Len(q)]
            BY <1>22a, <1>22b, <2>2
        <3> QED BY <1>11, <1>12, <3>1
    <2> QED BY <2>1, <2>2
<1>23. \A i \in 1 .. Len(q) : i \in 1 .. Len(p) /\ p[i] = q[i]
    BY <1>22a, <1>22b
<1>24. ASSUME NEW b, NEW k \in Levels
       PROVE  RipeAt(ps, b, k) <=> k # l /\ RipeAt(qs, b, k)
    <2>1. CASE k = l
        BY <1>6, <1>8, <2>1 DEF RipeAt
    <2>2. CASE k = l + 1
        BY <1>1, <1>22, <1>23, <2>2 DEF RipeAt, p, q
    <2>3. CASE k # l /\ k # l + 1
        BY <1>8, <2>3 DEF RipeAt
    <2> QED BY <2>1, <2>2, <2>3
<1>25. AllMarked(ps, bs)
    <2> SUFFICES ASSUME NEW k \in 0 .. Top - 1, NEW i \in 1 .. Len(ps[k]), Ripe(ps[k][i])
                 PROVE  bs[ps[k][i].buf].moved
        BY DEF AllMarked
    <2>1. k \in Levels
        BY DEF Levels, Top
    <2>2. RipeAt(ps, ps[k][i].buf, k)
        BY DEF RipeAt
    <2>3. RipeAt(qs, ps[k][i].buf, k)
        BY <1>24, <2>1, <2>2
    <2> QED BY <2>3 DEF RipeAt, AllMarked
<1> QED BY <1>18, <1>21, <1>24, <1>25


\* The three passes: a ripe message below the top moves up by one level and is
\* marked, every other message stays where it is.
LEMMA ReprioritizeSound ==
    ASSUME QueueInv, Reprioritize
    PROVE  /\ Sound(queues', births')
           /\ births' \in Seq(Birth) /\ Len(births') = Len(births)
           /\ \A a \in 1 .. Len(births) : births'[a].born = births[a].born
           /\ \A b, k : k \in Levels =>
                 (Stands(queues', b, k) <=>
                     \/ Stands(queues, b, k) /\ (k < Top => ~RipeAt(queues, b, k))
                     \/ k > 0 /\ RipeAt(queues, b, k - 1))
<1> DEFINE ripe == {m.buf : m \in {n \in Held : Ripe(n) /\ n \notin ToSet(queues[Top])}}
           q1 == LiftLevel(queues, 0)
           q2 == LiftLevel(q1, 1)
           q3 == LiftLevel(q2, 2)
<1>1. /\ Sound(queues, births) /\ Records
    BY DEF QueueInv
<1>2. /\ births' = [b \in DOMAIN births |-> [births[b] EXCEPT !.moved = @ \/ b \in ripe]]
      /\ queues' = q3
    BY DEF Reprioritize
<1>3. Levels = {0, 1, 2, 3} /\ 0 .. Top - 1 = {0, 1, 2} /\ Top = 3
    BY DEF Levels, Top
<1>4. births \in Seq(Birth) /\ Len(births) \in Nat /\ DOMAIN births = 1 .. Len(births)
    BY <1>1 DEF Records
<1> HIDE DEF ripe, QueueInv
<1>5. ASSUME NEW b \in 1 .. Len(births)
      PROVE  /\ births'[b] \in Birth
             /\ births'[b].born = births[b].born /\ births'[b].base = births[b].base
             /\ births'[b].moved <=> births[b].moved \/ b \in ripe
    <2>1. births[b] \in Birth
        BY <1>4
    <2>2. births'[b] = [births[b] EXCEPT !.moved = @ \/ b \in ripe]
        BY <1>2, <1>4
    <2> QED BY <2>1, <2>2 DEF Birth
<1>6. births' \in Seq(Birth) /\ Len(births') = Len(births) /\ DOMAIN births' = 1 .. Len(births)
    <2>1. births' = [a \in 1 .. Len(births) |-> births'[a]]
        BY <1>2, <1>4
    <2>2. births' \in [1 .. Len(births) -> Birth]
        BY <1>5, <2>1
    <2> QED BY <1>4, <2>2
<1>7. Knows(births', births)
    BY <1>4, <1>5, <1>6 DEF Knows
<1>8. Sound(queues, births')
    <2>1. \A l \in Levels : SoundLevel(queues[l], l, births')
        BY <1>1, <1>7, MarkedIsSound DEF Sound, Knows
    <2> QED BY <1>1, <2>1 DEF Sound
<1>9. AllMarked(queues, births')
    <2> SUFFICES ASSUME NEW l \in 0 .. Top - 1, NEW i \in 1 .. Len(queues[l]), Ripe(queues[l][i])
                 PROVE  births'[queues[l][i].buf].moved
        BY DEF AllMarked
    <2> DEFINE m == queues[l][i]
    <2>1. l \in Levels /\ Top \in Levels /\ l # Top
        BY <1>3
    <2>2. m \in Held
        BY <1>1, <2>1, HeldNow
    <2>3. m \notin ToSet(queues[Top])
        <3>1. ASSUME NEW j \in 1 .. Len(queues[Top]), queues[Top][j] = m PROVE FALSE
            BY <1>1, <2>1, <3>1, OnePlace
        <3> HIDE DEF m
        <3>2. queues[Top] \in Seq(Message)
            BY <1>1, <2>1 DEF Sound, SoundLevel
        <3> QED BY <3>1, <3>2 DEF ToSet
    <2>4. m.buf \in ripe
        BY <2>2, <2>3 DEF ripe
    <2>5. m.buf \in 1 .. Len(births)
        BY <1>1, <1>4, <2>1 DEF Sound, SoundLevel, Fits
    <2> QED BY <1>5, <2>4, <2>5
<1> HIDE DEF q1, q2, q3
<1>10. /\ Sound(q1, births') /\ AllMarked(q1, births')
       /\ \A b, k : k \in Levels =>
             /\ Stands(q1, b, k) <=>
                   \/ Stands(queues, b, k) /\ (k = 0 => ~RipeAt(queues, b, 0))
                   \/ k = 0 + 1 /\ RipeAt(queues, b, 0)
             /\ RipeAt(q1, b, k) <=> k # 0 /\ RipeAt(queues, b, k)
    <2>1. 0 \in 0 .. Top - 1
        BY <1>3
    <2>2. q1 = LiftLevel(queues, 0)
        BY DEF q1
    <2> QED BY <1>6, <1>8, <1>9, <2>1, <2>2, LiftSound
<1>11. /\ Sound(q2, births') /\ AllMarked(q2, births')
       /\ \A b, k : k \in Levels =>
             /\ Stands(q2, b, k) <=>
                   \/ Stands(q1, b, k) /\ (k = 1 => ~RipeAt(q1, b, 1))
                   \/ k = 1 + 1 /\ RipeAt(q1, b, 1)
             /\ RipeAt(q2, b, k) <=> k # 1 /\ RipeAt(q1, b, k)
    <2>1. 1 \in 0 .. Top - 1
        BY <1>3
    <2>2. q2 = LiftLevel(q1, 1)
        BY DEF q2
    <2> QED BY <1>6, <1>10, <2>1, <2>2, LiftSound
<1>12. /\ Sound(q3, births')
       /\ \A b, k : k \in Levels =>
             (Stands(q3, b, k) <=>
                   \/ Stands(q2, b, k) /\ (k = 2 => ~RipeAt(q2, b, 2))
                   \/ k = 2 + 1 /\ RipeAt(q2, b, 2))
    <2>1. 2 \in 0 .. Top - 1
        BY <1>3
    <2>2. q3 = LiftLevel(q2, 2)
        BY DEF q3
    <2> QED BY <1>6, <1>11, <2>1, <2>2, LiftSound
<1>13. ASSUME NEW b, RipeAt(queues, b, 0) PROVE ~RipeAt(queues, b, 1)
    BY <1>1, <1>3, <1>13, OnePlace DEF RipeAt
<1>14. ASSUME NEW b, RipeAt(queues, b, 1) PROVE ~RipeAt(queues, b, 2)
    BY <1>1, <1>3, <1>14, OnePlace DEF RipeAt
<1>15. ASSUME NEW b, NEW k \in Levels
       PROVE  Stands(q3, b, k) <=>
                  \/ Stands(queues, b, k) /\ (k < Top => ~RipeAt(queues, b, k))
                  \/ k > 0 /\ RipeAt(queues, b, k - 1)
    <2>0. 0 \in Levels /\ 1 \in Levels /\ 2 \in Levels /\ 3 \in Levels
        BY <1>3
    <2>1. /\ RipeAt(q1, b, 1) <=> RipeAt(queues, b, 1)
          /\ RipeAt(q1, b, 2) <=> RipeAt(queues, b, 2)
          /\ RipeAt(q2, b, 2) <=> RipeAt(queues, b, 2)
        BY <1>10, <1>11, <2>0
    <2>2. CASE k = 0
        BY <1>3, <1>10, <1>11, <1>12, <2>0, <2>2
    <2>3. CASE k = 1
        <3>1. Stands(q3, b, 1) <=> Stands(q2, b, 1)
            BY <1>12, <2>0
        <3>2. Stands(q2, b, 1) <=> Stands(q1, b, 1) /\ ~RipeAt(queues, b, 1)
            BY <1>11, <2>0, <2>1
        <3>3. Stands(q1, b, 1) <=> Stands(queues, b, 1) \/ RipeAt(queues, b, 0)
            BY <1>10, <2>0
        <3> QED BY <1>3, <1>13, <2>3, <3>1, <3>2, <3>3
    <2>4. CASE k = 2
        <3>1. Stands(q3, b, 2) <=> Stands(q2, b, 2) /\ ~RipeAt(queues, b, 2)
            BY <1>12, <2>0, <2>1
        <3>2. Stands(q2, b, 2) <=> Stands(q1, b, 2) \/ RipeAt(queues, b, 1)
            BY <1>11, <2>0, <2>1
        <3>3. Stands(q1, b, 2) <=> Stands(queues, b, 2)
            BY <1>10, <2>0
        <3> QED BY <1>3, <1>14, <2>4, <3>1, <3>2, <3>3
    <2>5. CASE k = 3
        <3>1. Stands(q3, b, 3) <=> Stands(q2, b, 3) \/ RipeAt(queues, b, 2)
            BY <1>12, <2>0, <2>1
        <3>2. Stands(q2, b, 3) <=> Stands(q1, b, 3)
            BY <1>11, <2>0
        <3>3. Stands(q1, b, 3) <=> Stands(queues, b, 3)
            BY <1>10, <2>0
        <3> QED BY <1>3, <2>5, <3>1, <3>2, <3>3
    <2> QED BY <1>3, <2>2, <2>3, <2>4, <2>5
<1> QED BY <1>2, <1>5, <1>6, <1>12, <1>15

\* Moving messages by their priorities keeps the queue sound (queue.cpp).
LEMMA ReprioritizeKeeps ==
    ASSUME QueueInv, Reprioritize
    PROVE  QueueInv'
<1>1. /\ Sound(queues', births')
      /\ births' \in Seq(Birth) /\ Len(births') = Len(births)
      /\ \A a \in 1 .. Len(births) : births'[a].born = births[a].born
      /\ \A b, k : k \in Levels =>
            (Stands(queues', b, k) <=>
                \/ Stands(queues, b, k) /\ (k < Top => ~RipeAt(queues, b, k))
                \/ k > 0 /\ RipeAt(queues, b, k - 1))
    BY ReprioritizeSound
<1>2. /\ Sound(queues, births) /\ Records /\ Owned /\ Gone
    BY DEF QueueInv
<1>3. /\ out' = Nothing /\ total_messages' = total_messages
      /\ live' = live /\ clock' = clock /\ delivered' = delivered /\ expired' = expired
    BY DEF Reprioritize
<1>4. HeldBufs' = HeldBufs
    <2>1. ASSUME NEW b, NEW k \in Levels, Stands(queues', b, k) PROVE b \in HeldBufs
        <3>1. CASE Stands(queues, b, k)
            BY <1>2, <3>1, HeldNow
        <3>2. CASE k > 0 /\ RipeAt(queues, b, k - 1)
            <4>1. k - 1 \in Levels /\ Stands(queues, b, k - 1)
                BY <3>2 DEF Levels, Top, RipeAt, Stands
            <4> QED BY <1>2, <4>1, HeldNow
        <3> QED BY <1>1, <2>1, <3>1, <3>2
    <2>2. ASSUME NEW b, NEW k \in Levels, Stands(queues, b, k) PROVE b \in HeldBufs'
        <3>1. CASE k < Top /\ RipeAt(queues, b, k)
            <4> DEFINE j == k + 1
            <4>1. j \in Levels /\ j > 0 /\ j - 1 = k
                BY <3>1 DEF Levels, Top
            <4> HIDE DEF j
            <4>2. Stands(queues', b, j)
                BY <1>1, <3>1, <4>1
            <4> QED BY <1>1, <4>1, <4>2, HeldNext
        <3>2. CASE ~(k < Top /\ RipeAt(queues, b, k))
            BY <1>1, <2>2, <3>2, HeldNext
        <3> QED BY <3>1, <3>2
    <2>3. \A b : b \in HeldBufs' => b \in HeldBufs
        BY <1>1, <2>1, HeldNext
    <2>4. \A b : b \in HeldBufs => b \in HeldBufs'
        BY <1>2, <2>2, HeldNow
    <2> QED BY <2>3, <2>4
<1>5. Owned'
    BY <1>1, <1>2, <1>3, <1>4 DEF Owned
<1>6. Records'
    BY <1>1, <1>2, <1>3 DEF Records
<1>7. Gone'
    BY <1>1, <1>2, <1>3 DEF Gone
<1> QED BY <1>1, <1>3, <1>5, <1>6, <1>7 DEF QueueInv

-----------------------------------------------------------------------------
(* The invariant. *)

\* While time passes and while nothing happens, nothing changes but the clock.
LEMMA RestKeeps ==
    ASSUME QueueInv, Tick \/ UNCHANGED vars
    PROVE  QueueInv'
<1>1. /\ queues' = queues /\ total_messages' = total_messages /\ live' = live
      /\ births' = births /\ (out' = Nothing \/ out' = out)
      /\ delivered' = delivered /\ expired' = expired
    BY DEF Tick, vars
<1>2. clock \in Nat /\ clock' \in 0 .. MaxClock /\ clock <= clock'
    BY QueueConstants DEF Tick, vars, QueueInv, Records
<1>3. Records'
    <2>1. \A b \in 1 .. Len(births) : births[b].born \in Nat /\ births[b].born <= clock
        <3>1. \A b \in 1 .. Len(births) : births[b] \in Birth /\ births[b].born <= clock
            BY DEF QueueInv, Records
        <3> QED BY <3>1 DEF Birth
    <2> QED BY <1>1, <1>2, <2>1 DEF QueueInv, Records
<1>4. HeldBufs' = HeldBufs
    BY <1>1 DEF HeldBufs, Held
<1>5. Owned'
    BY <1>1, <1>4 DEF QueueInv, Owned
<1>6. Gone'
    BY <1>1 DEF QueueInv, Gone
<1> QED BY <1>1, <1>3, <1>5, <1>6 DEF QueueInv

\* Every operation keeps the queue sound.
LEMMA NextKeeps ==
    ASSUME QueueInv, [Next]_vars
    PROVE  QueueInv'
BY EnqueueKeeps, DequeueKeeps, PromoteKeeps, DemoteKeeps, ExpireKeeps,
   ReprioritizeKeeps, RestKeeps DEF Next

\* Whatever the calls and their order, the four vectors are sound, the records
\* are those of the enqueue calls and the counter counts the live copies.
THEOREM QueueInvariant == Spec => []QueueInv
<1>1. Init => QueueInv
    BY InitKeeps
<1>2. QueueInv /\ [Next]_vars => QueueInv'
    BY NextKeeps
<1> QED BY <1>1, <1>2, PTL DEF Spec

\* The invariant has the types in it, and the ownership of the copies.
LEMMA QueueOwns == QueueInv => PayloadsOwnedOnce /\ CountIsOwnedCopies
BY PopulationCounts DEF QueueInv, Owned, PayloadsOwnedOnce, CountIsOwnedCopies

\* A sound queue has its types.
LEMMA QueueTypes == QueueInv => TypeOK
<1> SUFFICES ASSUME QueueInv PROVE TypeOK
    OBVIOUS
<1>1. /\ Sound(queues, births) /\ Records /\ Owned /\ Gone
    BY DEF QueueInv
<1>2. DOMAIN queues = Levels
    BY <1>1 DEF Sound
<1>3. Held \subseteq Message
    <2>1. \A l \in Levels : \A i \in 1 .. Len(queues[l]) : queues[l][i] \in Message
        BY <1>1 DEF Sound, SoundLevel, Fits
    <2> QED BY <1>1, <2>1, HeldNow
<1>4. total_messages \in 0 .. QUEUE_MAX_MESSAGES
    <2>1. Cardinality(live) \in Nat
        BY <1>1, LiveIsFinite, FS_CardinalityType
    <2> QED BY <1>1, <2>1, QueueConstants DEF Owned
<1>5. live \subseteq DOMAIN births
    BY <1>1 DEF Owned, Records
<1>6. \A l \in Levels : \A m \in ToSet(queues[l]) : Urgency(m) = l
    BY <1>1 DEF Sound, SoundLevel, Fits, ToSet
<1>7. delivered \cup expired \subseteq DOMAIN births
    BY <1>1 DEF Gone, Records
<1> QED BY <1>1, <1>2, <1>3, <1>4, <1>5, <1>6, <1>7 DEF TypeOK, QueueInv, Records

\* Every variable has its type; a message stands on the level its priority says,
\* and the guard of enqueue bounds the counter.
THEOREM TypeCorrect == Spec => []TypeOK
<1>1. QueueInv => TypeOK
    BY QueueTypes
<1> QED BY <1>1, QueueInvariant, PTL

\* The copy a queued message points to is allocated, and no other message
\* points to it: delete[] runs once per copy, with or without unique ids.
THEOREM PayloadOwnership == Spec => []PayloadsOwnedOnce
<1>1. QueueInv => PayloadsOwnedOnce
    BY QueueOwns
<1> QED BY <1>1, QueueInvariant, PTL

\* count() is the number of copies allocated and not given away, with or
\* without unique ids.
THEOREM CopiesCounted == Spec => []CountIsOwnedCopies
<1>1. QueueInv => CountIsOwnedCopies
    BY QueueOwns
<1> QED BY <1>1, QueueInvariant, PTL

\* count() is the number of messages in the four vectors if no caller reuses an
\* id that is queued.
THEOREM MessagesCounted ==
    ASSUME UniqueIds
    PROVE  Spec => []CountMatchesLevels
<1>1. QueueInv => CountMatchesLevels
    <2> SUFFICES ASSUME QueueInv PROVE CountMatchesLevels
        OBVIOUS
    <2>1. live = HeldBufs
        BY DEF QueueInv, Owned
    <2>2. Population = Cardinality(HeldBufs)
        BY PopulationCounts DEF QueueInv
    <2> QED BY <2>1, <2>2 DEF QueueInv, Owned, CountMatchesLevels
<1> QED BY <1>1, QueueInvariant, PTL

\* A promotion_count stays within its caller's value plus the level.
THEOREM PromotionsBounded == Spec => []PromotionsBoundedByLevel
<1>1. QueueInv => PromotionsBoundedByLevel
    BY DEF QueueInv, Sound, SoundLevel, Fits, PromotionsBoundedByLevel, ToSet
<1> QED BY <1>1, QueueInvariant, PTL


-----------------------------------------------------------------------------
(* What a step hands out, and what it deletes. *)

\* Only dequeue hands a message out.
LEMMA OnlyDequeueHandsOut ==
    ASSUME [Next]_vars, out' # Nothing
    PROVE  Dequeue \/ (UNCHANGED vars /\ out # Nothing)
BY DEF Next, vars, Enqueue, Promote, Demote, ExpireOld, Reprioritize, Tick

\* The front message of the highest level present is the most urgent one, and
\* the oldest of its level's messages that were never moved.
LEMMA FrontIsFirst ==
    ASSUME QueueInv, NEW l \in ServedLevel, NEW m \in Held, NEW front, front = Head(queues[l])
    PROVE  /\ Urgency(m) <= Urgency(front)
           /\ (Urgency(m) = Urgency(front) /\ ~births[m.buf].moved /\ ~births[front.buf].moved)
                 => front.buf <= m.buf
<1>1. Sound(queues, births)
    BY DEF QueueInv
<1>2. PICK k \in Levels : \E i \in 1 .. Len(queues[k]) : m = queues[k][i]
    BY <1>1, HeldNow
<1>3. PICK i \in 1 .. Len(queues[k]) : m = queues[k][i]
    BY <1>2
<1>4. /\ l \in Levels /\ queues[l] # <<>>
      /\ \A j \in Levels : j > l => queues[j] = <<>>
    BY DEF ServedLevel
<1>5. SoundLevel(queues[l], l, births) /\ SoundLevel(queues[k], k, births)
    BY <1>1, <1>4 DEF Sound
<1>6. front = queues[l][1] /\ 1 \in 1 .. Len(queues[l])
    <2>1. queues[l] \in Seq(Message)
        BY <1>5 DEF SoundLevel
    <2> QED BY <1>4, <2>1
<1>7. Fits(front, l, births) /\ Fits(m, k, births)
    BY <1>3, <1>5, <1>6 DEF SoundLevel
<1>8. Urgency(front) = l /\ Urgency(m) = k /\ m.buf \in Nat /\ l \in Nat /\ k \in Nat
    BY <1>4, <1>7 DEF Fits, Message, Levels, Top
<1>9. k <= l
    <2>1. Len(queues[k]) # 0
        BY <1>3
    <2>2. queues[k] # <<>>
        BY <2>1
    <2> QED BY <1>4, <1>8, <2>2
<1>10. ASSUME k = l, ~births[m.buf].moved, ~births[front.buf].moved
       PROVE  front.buf <= m.buf
    <2>1. CASE i = 1
        BY <1>3, <1>6, <1>8, <1>10, <2>1
    <2>2. CASE i # 1
        <3>1. 1 < i /\ Len(queues[l]) \in Nat
            BY <1>5, <2>2 DEF SoundLevel
        <3>2. front.buf < m.buf
            BY <1>3, <1>5, <1>6, <1>10, <3>1 DEF SoundLevel
        <3> QED BY <1>7, <1>8, <3>2 DEF Fits, Message
    <2> QED BY <2>1, <2>2
<1> QED BY <1>8, <1>9, <1>10

\* dequeue hands out a message of the highest priority present, the oldest of
\* those never moved.
THEOREM MostUrgentOldest == Spec => DequeueMostUrgentOldest
<1>1. ASSUME QueueInv, [Next]_vars, ~UNCHANGED vars, out' # Nothing, NEW m \in Held
      PROVE  /\ Urgency(m) <= Urgency(out')
             /\ (Urgency(m) = Urgency(out') /\ ~births[m.buf].moved /\ ~births[out'.buf].moved)
                   => out'.buf <= m.buf
    <2>1. Dequeue
        BY <1>1, OnlyDequeueHandsOut
    <2>2. PICK l \in ServedLevel : out' = Head(queues[l])
        BY <2>1 DEF Dequeue
    <2> QED BY <1>1, <2>2, FrontIsFirst
<1>2. QueueInv /\ [Next]_vars =>
         [out' # Nothing =>
          \A m \in Held :
             /\ Urgency(m) <= Urgency(out')
             /\ (/\ Urgency(m) = Urgency(out')
                 /\ ~births[m.buf].moved /\ ~births[out'.buf].moved)
                => out'.buf <= m.buf]_vars
    BY <1>1
<1> QED BY <1>2, QueueInvariant, PTL DEF Spec, DequeueMostUrgentOldest

\* The age that expire_old computes in 32 bits is the true age modulo 2^32.
LEMMA WrappedAge ==
    ASSUME NEW W \in Nat \ {0}, NEW c \in Nat, NEW b \in Nat, b <= c
    PROVE  ((c % W) + W - (b % W)) % W = (c - b) % W
<1>1. PICK p \in Nat, x \in 0 .. W - 1 : c = p * W + x /\ x = c % W
    <2>1. c = (c \div W) * W + (c % W) /\ c \div W \in Nat /\ (c % W) \in 0 .. W - 1
        OBVIOUS
    <2> QED BY <2>1
<1>2. PICK q \in Nat, y \in 0 .. W - 1 : b = q * W + y /\ y = b % W
    <2>1. b = (b \div W) * W + (b % W) /\ b \div W \in Nat /\ (b % W) \in 0 .. W - 1
        OBVIOUS
    <2> QED BY <2>1
<1>3. p * W \in Nat /\ q * W \in Nat
    OBVIOUS
<1>4. CASE y <= x
    <2>1. p >= q
        <3> SUFFICES ASSUME q >= p + 1 PROVE FALSE
            OBVIOUS
        <3>1. q * W >= (p + 1) * W /\ (p + 1) * W = p * W + W
            OBVIOUS
        <3> QED BY <1>1, <1>2, <1>3, <3>1
    <2> DEFINE k == p - q
               r == x - y
    <2>2. k \in Nat /\ r \in 0 .. W - 1 /\ k * W = p * W - q * W
        BY <1>4, <2>1
    <2>3. c - b = k * W + r
        BY <1>1, <1>2, <1>3, <2>2
    <2>4. x + W - y = 1 * W + r
        OBVIOUS
    <2> HIDE DEF k, r
    <2>5. (k * W + r) % W = r /\ (1 * W + r) % W = r
        BY <2>2, ModOfMultiple
    <2> QED BY <1>1, <1>2, <2>3, <2>4, <2>5
<1>5. CASE x < y
    <2>1. p >= q + 1
        <3> SUFFICES ASSUME q >= p PROVE FALSE
            OBVIOUS
        <3>1. q * W >= p * W
            OBVIOUS
        <3> QED BY <1>1, <1>2, <1>3, <1>5, <3>1
    <2> DEFINE k == p - q - 1
               r == x + W - y
    <2>2. k \in Nat /\ r \in 0 .. W - 1 /\ k * W = p * W - q * W - W
        BY <1>5, <2>1
    <2>3. c - b = k * W + r
        BY <1>1, <1>2, <1>3, <2>2
    <2>4. x + W - y = 0 * W + r
        OBVIOUS
    <2> HIDE DEF k, r
    <2>5. (k * W + r) % W = r /\ (0 * W + r) % W = r
        BY <2>2, ModOfMultiple
    <2> QED BY <1>1, <1>2, <2>3, <2>4, <2>5
<1> QED BY <1>4, <1>5

\* A queued message stays just if the 32-bit age is within the limit, and that
\* age is the true one up to whole turns of the clock.
LEMMA ExpiryJudges ==
    ASSUME QueueInv, NEW a \in MaxAges, ExpireOld(a), NEW m \in Held,
           NEW age, age = clock - births[m.buf].born
    PROVE  IF m.buf \in HeldBufs' THEN age <= a \/ age >= TIME_WRAP ELSE age > a
<1> DEFINE dead == {n \in Held : TooOld(n, clock % TIME_WRAP, a)}
           deadBufs == {n.buf : n \in dead}
<1>1. /\ queues' = [l \in Levels |-> Kept(queues[l], Held \ dead)]
      /\ births' = births /\ dead \subseteq Held
    BY DEF ExpireOld
<1>2. Sound(queues, births) /\ Records
    BY DEF QueueInv
<1>3. \A n : n \in Held <=> \E l \in Levels : \E i \in 1 .. Len(queues[l]) : n = queues[l][i]
    BY <1>2, HeldNow
<1>3a. PICK l \in Levels : \E i \in 1 .. Len(queues[l]) : m = queues[l][i]
    BY <1>3
<1>4. PICK i \in 1 .. Len(queues[l]) : m = queues[l][i]
    BY <1>3a
<1>5. Fits(m, l, births)
    BY <1>2, <1>4 DEF Sound, SoundLevel
<1>6. \A n \in Held : n.buf = m.buf => n = m
    BY <1>2, <1>3, OnePlace
<1>7. m.buf \in deadBufs <=> TooOld(m, clock % TIME_WRAP, a)
    BY <1>6
<1> HIDE DEF dead
<1>8. /\ Sound(queues', births')
      /\ \A b, k : k \in Levels =>
            (Stands(queues', b, k) <=> Stands(queues, b, k) /\ b \notin deadBufs)
    BY <1>1, ExpireSound
<1> HIDE DEF deadBufs
<1>9. m.buf \in HeldBufs' <=> ~TooOld(m, clock % TIME_WRAP, a)
    <2>1. Stands(queues, m.buf, l)
        BY <1>4 DEF Stands
    <2>2. m.buf \in HeldBufs' <=> m.buf \notin deadBufs
        BY <1>8, <2>1, HeldNext
    <2> QED BY <1>7, <2>2
<1> DEFINE born == births[m.buf].born
<1>10. born \in Nat /\ clock \in Nat /\ born <= clock /\ m.enqueue_time = born % TIME_WRAP
    <2>1. m.buf \in 1 .. Len(births) /\ births[m.buf] \in Birth
        BY <1>2, <1>5 DEF Fits, Records
    <2> QED BY <1>2, <1>5, <2>1 DEF Fits, Records, Birth
<1> HIDE DEF born
<1>11. TooOld(m, clock % TIME_WRAP, a) <=> age % TIME_WRAP > a
    <2>1. ((clock % TIME_WRAP) + TIME_WRAP - (born % TIME_WRAP)) % TIME_WRAP
              = (clock - born) % TIME_WRAP
        BY <1>10, QueueConstants, WrappedAge
    <2>2. age = clock - born
        BY DEF born
    <2> QED BY <1>10, <2>1, <2>2 DEF TooOld
<1>12. age \in Nat /\ a \in Nat /\ TIME_WRAP \in Nat \ {0}
    BY <1>10, QueueConstants DEF born
<1>13. age % TIME_WRAP <= age /\ (age < TIME_WRAP => age % TIME_WRAP = age)
    BY <1>12, RemainderIsSmall
<1>14. age % TIME_WRAP \in Nat
    BY <1>12
<1>15. CASE m.buf \in HeldBufs'
    <2>1. ~(age % TIME_WRAP > a)
        BY <1>9, <1>11, <1>15
    <2> QED BY <1>12, <1>13, <1>14, <1>15, <2>1
<1>16. CASE m.buf \notin HeldBufs'
    <2>1. age % TIME_WRAP > a
        BY <1>9, <1>11, <1>16
    <2> QED BY <1>12, <1>13, <1>14, <1>16, <2>1
<1> QED BY <1>15, <1>16

\* expire_old deletes no message within the limit, and leaves none beyond it
\* but those that have outlived a turn of the clock.
THEOREM ExpiryIsByTrueAge == Spec => ExpiryByTrueAge
<1>1. QueueInv /\ [Next]_vars =>
         [\A a \in MaxAges : ExpireOld(a) =>
            \A m \in Held :
               LET age == clock - births[m.buf].born
               IN  IF m.buf \in HeldBufs' THEN age <= a \/ age >= TIME_WRAP
                                          ELSE age > a]_vars
    BY ExpiryJudges
<1> QED BY <1>1, QueueInvariant, PTL DEF Spec, ExpiryByTrueAge


-----------------------------------------------------------------------------
(* The pool. *)

\* The pool as the vectors show it, now and next.
LEMMA PoolNow ==
    ASSUME NEW bs, Sound(queues, bs)
    PROVE  /\ InPool = [b \in HeldBufs |-> InPool[b]] /\ DOMAIN InPool = HeldBufs
           /\ \A b, l : l \in Levels /\ Stands(queues, b, l) =>
                 b \in HeldBufs /\ InPool[b] = l
           /\ \A b \in HeldBufs : InPool[b] \in Levels /\ Stands(queues, b, InPool[b])
<1>1. InPool = [b \in HeldBufs |-> HeldLevel(b)]
    BY DEF InPool
<1>2. \A b : b \in HeldBufs <=> \E l \in Levels : Stands(queues, b, l)
    BY HeldNow
<1>3. ASSUME NEW b, NEW l \in Levels, Stands(queues, b, l)
      PROVE  b \in HeldBufs /\ InPool[b] = l
    <2>1. HeldLevel(b) = l
        BY <1>3, HeldLevelNow
    <2> QED BY <1>1, <1>2, <1>3, <2>1
<1>4. ASSUME NEW b \in HeldBufs PROVE InPool[b] \in Levels /\ Stands(queues, b, InPool[b])
    BY <1>2, <1>3
<1> QED BY <1>1, <1>3, <1>4

\* The pool of the next state has the copies that stand in its levels, each on its level.
LEMMA PoolNext ==
    ASSUME NEW bs, Sound(queues', bs)
    PROVE  /\ InPool' = [b \in HeldBufs' |-> InPool'[b]] /\ DOMAIN InPool' = HeldBufs'
           /\ \A b, l : l \in Levels /\ Stands(queues', b, l) =>
                 b \in HeldBufs' /\ InPool'[b] = l
           /\ \A b \in HeldBufs' : InPool'[b] \in Levels /\ Stands(queues', b, InPool'[b])
<1>1. InPool' = [b \in HeldBufs' |-> HeldLevel(b)']
    BY DEF InPool
<1>2. \A b : b \in HeldBufs' <=> \E l \in Levels : Stands(queues', b, l)
    BY HeldNext
<1>3. ASSUME NEW b, NEW l \in Levels, Stands(queues', b, l)
      PROVE  b \in HeldBufs' /\ InPool'[b] = l
    <2>1. HeldLevel(b)' = l
        BY <1>3, HeldLevelNext
    <2> QED BY <1>1, <1>2, <1>3, <2>1
<1>4. ASSUME NEW b \in HeldBufs' PROVE InPool'[b] \in Levels /\ Stands(queues', b, InPool'[b])
    BY <1>2, <1>3
<1> QED BY <1>1, <1>3, <1>4

\* At first the pool is empty.
LEMMA InitRefines == Init => Pool!PoolInit
<1> SUFFICES ASSUME Init PROVE Pool!PoolInit
    OBVIOUS
<1>1. Sound(queues, births)
    BY InitKeeps DEF QueueInv
<1>2. HeldBufs = {}
    <2>1. \A b, l : l \in Levels => ~Stands(queues, b, l)
        BY DEF Init, Stands
    <2> QED BY <1>1, <2>1, HeldNow
<1>3. births = <<>>
    BY DEF Init
<1>4. Accepted = [b \in {} |-> 0]
    BY <1>3 DEF Accepted
<1> QED BY <1>2, <1>4 DEF Init, Pool!PoolInit, InPool

\* enqueue accepts an item that was never seen.
LEMMA EnqueueRefines ==
    ASSUME QueueInv, NEW id \in Ids, NEW p \in Priorities, NEW count \in InitCounts,
           Enqueue(id, p, count)
    PROVE  Pool!PoolNext
<1> DEFINE l == IF p > Top THEN Top ELSE p
           buf == Len(births) + 1
<1>1. /\ Sound(queues', births') /\ Records' /\ l \in Levels
      /\ \A b, k : k \in Levels =>
            (Stands(queues', b, k) <=> Stands(queues, b, k) \/ (k = l /\ b = buf))
    BY EnqueueSound
<1>2. /\ Sound(queues, births) /\ Records /\ Owned
    BY DEF QueueInv
<1>3. /\ Len(births) \in Nat /\ DOMAIN births = 1 .. Len(births)
      /\ DOMAIN births' = 1 .. buf /\ buf \in 1 .. MaxEnqueues
    BY <1>2, QueueConstants DEF Records, Enqueue
<1>4. HeldBufs \subseteq 1 .. Len(births)
    BY <1>2 DEF Owned
<1>5. buf \notin 1 .. Len(births) /\ 1 .. buf = (1 .. Len(births)) \cup {buf}
    BY <1>3
<1> HIDE DEF l, buf, QueueInv
<1>6. HeldBufs' = HeldBufs \cup {buf}
    <2>1. \A b : b \in HeldBufs' <=> b \in HeldBufs \/ b = buf
        BY <1>1, <1>2, HeldNow, HeldNext
    <2> QED BY <2>1
<1>7. ASSUME NEW b \in HeldBufs PROVE InPool'[b] = InPool[b]
    BY <1>1, <1>2, PoolNow, PoolNext
<1>8. InPool'[buf] = l
    BY <1>1, PoolNext
<1>9. InPool' = [b \in HeldBufs \cup {buf} |-> IF b = buf THEN l ELSE InPool[b]]
    <2>1. InPool' = [b \in HeldBufs' |-> InPool'[b]]
        BY <1>1, PoolNext
    <2>2. \A b \in HeldBufs' : InPool'[b] = IF b = buf THEN l ELSE InPool[b]
        BY <1>6, <1>7, <1>8
    <2> QED BY <1>6, <2>1, <2>2
<1>10. Accepted' = [b \in DOMAIN Accepted \cup {buf} |-> IF b = buf THEN clock ELSE Accepted[b]]
    <2>1. births' = Append(births, [born |-> clock, base |-> count, moved |-> FALSE])
        BY DEF Enqueue
    <2>2. births'[buf].born = clock /\ \A b \in 1 .. Len(births) : births'[b] = births[b]
        BY <1>2, <2>1 DEF buf, Records
    <2> QED BY <1>3, <1>5, <2>2 DEF Accepted
<1>11. DOMAIN InPool = HeldBufs
    BY <1>2, PoolNow
<1>12. buf \notin DOMAIN Accepted
    BY <1>3, <1>5 DEF Accepted
<1>13. Pool!Accept(buf, l)
    <2>1. UNCHANGED <<clock, delivered, expired>>
        BY DEF Enqueue
    <2> QED BY <1>9, <1>10, <1>11, <1>12, <2>1 DEF Pool!Accept, Pool!Inside
<1> QED BY <1>1, <1>3, <1>13 DEF Pool!PoolNext

\* dequeue delivers an item of the highest level present.
LEMMA DequeueRefines ==
    ASSUME QueueInv, Dequeue
    PROVE  Pool!PoolNext
<1>1. PICK l \in ServedLevel :
          /\ queues' = [queues EXCEPT ![l] = Tail(@)]
          /\ births' = births /\ clock' = clock
          /\ delivered' = delivered \cup {Head(queues[l]).buf} /\ expired' = expired
    BY DEF Dequeue
<1> DEFINE first == Head(queues[l]).buf
<1>2. /\ l \in Levels /\ Stands(queues, first, l)
      /\ Sound(queues', births')
      /\ \A b, k : k \in Levels =>
            (Stands(queues', b, k) <=> Stands(queues, b, k) /\ b # first)
    BY <1>1, DequeueSound
<1>3. /\ Sound(queues, births) /\ Records /\ Owned
    BY DEF QueueInv
<1>4. \A k \in Levels : k > l => queues[k] = <<>>
    BY DEF ServedLevel
<1> HIDE DEF first, QueueInv
<1>5. /\ InPool[first] = l /\ first \in HeldBufs /\ DOMAIN InPool = HeldBufs
    BY <1>2, <1>3, PoolNow
<1>6. HeldBufs' = HeldBufs \ {first}
    <2>1. \A b : b \in HeldBufs' <=> b \in HeldBufs /\ b # first
        BY <1>2, <1>3, HeldNow, HeldNext
    <2> QED BY <2>1
<1>7. ASSUME NEW b \in HeldBufs' PROVE InPool'[b] = InPool[b]
    BY <1>2, <1>3, PoolNow, PoolNext
<1>8. ASSUME NEW b \in HeldBufs PROVE InPool[b] <= l
    <2>1. InPool[b] \in Levels /\ Stands(queues, b, InPool[b])
        BY <1>3, PoolNow
    <2>2. queues[InPool[b]] # <<>>
        BY <2>1 DEF Stands
    <2> QED BY <1>2, <1>4, <2>1, <2>2 DEF Levels, Top
<1>9. InPool' = [b \in HeldBufs \ {first} |-> InPool[b]]
    <2>1. InPool' = [b \in HeldBufs' |-> InPool'[b]]
        BY <1>2, PoolNext
    <2> QED BY <1>6, <1>7, <2>1
<1>10. Accepted' = Accepted /\ delivered' = delivered \cup {first}
    BY <1>1 DEF Accepted, first
<1>11. Pool!Deliver(first)
    BY <1>1, <1>5, <1>8, <1>9, <1>10 DEF Pool!Deliver, Pool!Inside, Pool!KeepOnly
<1> QED BY <1>5, <1>11 DEF Pool!PoolNext, Pool!Inside

\* expire_old takes the items beyond the limit out.
LEMMA ExpireRefines ==
    ASSUME QueueInv, NEW max_age \in MaxAges, ExpireOld(max_age)
    PROVE  Pool!PoolNext
<1> DEFINE dead == {m \in Held : TooOld(m, clock % TIME_WRAP, max_age)}
           deadBufs == {m.buf : m \in dead}
<1>1. /\ queues' = [l \in Levels |-> Kept(queues[l], Held \ dead)]
      /\ births' = births /\ clock' = clock /\ dead \subseteq Held
      /\ delivered' = delivered /\ expired' = expired \cup deadBufs
    BY DEF ExpireOld
<1>2. /\ Sound(queues, births) /\ Records /\ Owned
    BY DEF QueueInv
<1>3. deadBufs \subseteq HeldBufs
    BY DEF HeldBufs
<1> HIDE DEF dead
<1>4. /\ Sound(queues', births')
      /\ \A b, k : k \in Levels =>
            (Stands(queues', b, k) <=> Stands(queues, b, k) /\ b \notin deadBufs)
    BY <1>1, ExpireSound
<1> HIDE DEF deadBufs, QueueInv
<1>5. HeldBufs' = HeldBufs \ deadBufs
    <2>1. \A b : b \in HeldBufs' <=> b \in HeldBufs /\ b \notin deadBufs
        BY <1>2, <1>4, HeldNow, HeldNext
    <2> QED BY <2>1
<1>6. ASSUME NEW b \in HeldBufs' PROVE InPool'[b] = InPool[b]
    BY <1>2, <1>4, PoolNow, PoolNext
<1>7. InPool' = [b \in HeldBufs \ deadBufs |-> InPool[b]]
    <2>1. InPool' = [b \in HeldBufs' |-> InPool'[b]]
        BY <1>4, PoolNext
    <2> QED BY <1>5, <1>6, <2>1
<1>8. Accepted' = Accepted
    BY <1>1 DEF Accepted
<1>9. DOMAIN InPool = HeldBufs
    BY <1>2, PoolNow
<1>10. Pool!Expire(deadBufs, max_age)
    <2>1. ASSUME NEW b \in HeldBufs
          PROVE  IF b \in deadBufs THEN Pool!Age(b) > max_age
                 ELSE Pool!Age(b) <= max_age \/ Pool!Age(b) >= TIME_WRAP
        <3>1. PICK m \in Held : m.buf = b
            BY DEF HeldBufs
        <3>2. b \in HeldBufs' <=> b \notin deadBufs
            BY <1>5
        <3>3. Pool!Age(b) = clock - births[m.buf].born
            BY <1>2, <3>1 DEF Pool!Age, Accepted, Owned, Records
        <3>4. IF m.buf \in HeldBufs'
              THEN clock - births[m.buf].born <= max_age \/ clock - births[m.buf].born >= TIME_WRAP
              ELSE clock - births[m.buf].born > max_age
            BY ExpiryJudges
        <3> QED BY <3>1, <3>2, <3>3, <3>4
    <2> QED BY <1>1, <1>3, <1>7, <1>8, <1>9, <2>1
            DEF Pool!Expire, Pool!Inside, Pool!KeepOnly
<1> QED BY <1>3, <1>9, <1>10 DEF Pool!PoolNext, Pool!Inside

\* Items that change their level by one, and none that comes or goes.
LEMMA MoveRefines ==
    ASSUME UniqueIds, QueueInv,
           NEW id, NEW l, NEW k, NEW n, NEW count, Moves(id, l, k, n, count),
           k = l + 1 \/ k = l - 1, UNCHANGED <<clock, delivered, expired>>
    PROVE  Pool!PoolNext
<1> DEFINE buf == queues[l][n].buf
<1>1. /\ Sound(queues', births')
      /\ births' \in Seq(Birth) /\ Len(births') = Len(births)
      /\ \A a \in 1 .. Len(births) : births'[a].born = births[a].born
      /\ \A b, j : j \in Levels =>
            (Stands(queues', b, j) <=> IF b = buf THEN j = k ELSE Stands(queues, b, j))
    BY MoveSound
<1>2. /\ Sound(queues, births) /\ Records
    BY DEF QueueInv
<1>3. l \in Levels /\ k \in Levels /\ n \in 1 .. Len(queues[l])
    BY DEF Moves
<1>4. Stands(queues, buf, l)
    BY <1>3 DEF Stands
<1> HIDE DEF buf, QueueInv, Moves
<1>5. /\ buf \in HeldBufs /\ InPool[buf] = l
      /\ buf \in HeldBufs' /\ InPool'[buf] = k
    BY <1>1, <1>2, <1>3, <1>4, PoolNow, PoolNext
<1>6. ASSUME NEW b, b # buf
      PROVE  /\ b \in HeldBufs' <=> b \in HeldBufs
             /\ b \in HeldBufs => InPool'[b] = InPool[b]
    <2>1. b \in HeldBufs' <=> b \in HeldBufs
        BY <1>1, <1>2, <1>6, HeldNow, HeldNext
    <2>2. ASSUME b \in HeldBufs PROVE InPool'[b] = InPool[b]
        BY <1>1, <1>2, <1>6, <2>2, PoolNow, PoolNext
    <2> QED BY <2>1, <2>2
<1>7. HeldBufs' = HeldBufs
    <2>1. \A b : b \in HeldBufs' <=> b \in HeldBufs
        BY <1>5, <1>6
    <2> QED BY <2>1
<1>8. InPool' = [b \in HeldBufs |-> IF b = buf THEN k ELSE InPool[b]]
    <2>1. InPool' = [b \in HeldBufs' |-> InPool'[b]]
        BY <1>1, PoolNext
    <2>2. \A b \in HeldBufs : InPool'[b] = IF b = buf THEN k ELSE InPool[b]
        BY <1>5, <1>6
    <2> QED BY <1>7, <2>1, <2>2
<1>9. Accepted' = Accepted
    BY <1>1, <1>2 DEF Accepted, Records
<1>10. DOMAIN InPool = HeldBufs
    BY <1>2, PoolNow
<1>11. CASE k = l + 1
    <2>1. InPool' = [b \in HeldBufs |-> IF b \notin {buf} THEN InPool[b]
                                        ELSE IF TRUE THEN InPool[b] + 1 ELSE InPool[b] - 1]
        BY <1>5, <1>8, <1>11
    <2>2. Pool!Shift({buf}, TRUE)
        BY <1>3, <1>5, <1>9, <1>10, <2>1 DEF Pool!Shift, Pool!Inside
    <2> QED BY <1>5, <1>10, <2>2 DEF Pool!PoolNext, Pool!Inside
<1>12. CASE k = l - 1
    <2>1. InPool' = [b \in HeldBufs |-> IF b \notin {buf} THEN InPool[b]
                                        ELSE IF FALSE THEN InPool[b] + 1 ELSE InPool[b] - 1]
        BY <1>5, <1>8, <1>12
    <2>2. Pool!Shift({buf}, FALSE)
        BY <1>3, <1>5, <1>9, <1>10, <2>1 DEF Pool!Shift, Pool!Inside
    <2> QED BY <1>5, <1>10, <2>2 DEF Pool!PoolNext, Pool!Inside
<1> QED BY <1>11, <1>12

\* reprioritize lifts the ripe items by one, each of them once.
LEMMA ReprioritizeRefines ==
    ASSUME QueueInv, Reprioritize
    PROVE  Pool!PoolNext
<1>0. UNCHANGED <<clock, delivered, expired>>
    BY DEF Reprioritize
<1>1. /\ Sound(queues', births')
      /\ births' \in Seq(Birth) /\ Len(births') = Len(births)
      /\ \A a \in 1 .. Len(births) : births'[a].born = births[a].born
      /\ \A b, k : k \in Levels =>
            (Stands(queues', b, k) <=>
                \/ Stands(queues, b, k) /\ (k < Top => ~RipeAt(queues, b, k))
                \/ k > 0 /\ RipeAt(queues, b, k - 1))
    BY ReprioritizeSound
<1>2. /\ Sound(queues, births) /\ Records
    BY DEF QueueInv
<1> DEFINE lifted == {b \in HeldBufs : InPool[b] < Top /\ RipeAt(queues, b, InPool[b])}
<1>3. /\ DOMAIN InPool = HeldBufs
      /\ \A b \in HeldBufs : InPool[b] \in Levels /\ Stands(queues, b, InPool[b])
      /\ \A b, l : l \in Levels /\ Stands(queues, b, l) => b \in HeldBufs /\ InPool[b] = l
    BY <1>2, PoolNow
<1> HIDE DEF QueueInv
<1>4. ASSUME NEW b \in HeldBufs, b \in lifted
      PROVE  b \in HeldBufs' /\ InPool'[b] = InPool[b] + 1 /\ InPool'[b] \in Levels
    <2> DEFINE j == InPool[b] + 1
    <2>1. j \in Levels /\ j > 0 /\ j - 1 = InPool[b]
        BY <1>3, <1>4 DEF Levels, Top
    <2> HIDE DEF j
    <2>2. Stands(queues', b, j)
        BY <1>1, <1>4, <2>1
    <2>3. b \in HeldBufs' /\ InPool'[b] = j
        BY <1>1, <2>1, <2>2, PoolNext
    <2> QED BY <2>1, <2>3 DEF j
<1>5. ASSUME NEW b \in HeldBufs, b \notin lifted
      PROVE  b \in HeldBufs' /\ InPool'[b] = InPool[b]
    <2>1. Stands(queues', b, InPool[b])
        BY <1>1, <1>3, <1>5
    <2> QED BY <1>1, <1>3, <2>1, PoolNext
<1>6. ASSUME NEW b \in HeldBufs' PROVE b \in HeldBufs
    <2>1. PICK k \in Levels : Stands(queues', b, k)
        BY <1>1, HeldNext
    <2>2. CASE Stands(queues, b, k)
        BY <1>3, <2>2
    <2>3. CASE k > 0 /\ RipeAt(queues, b, k - 1)
        <3>1. k - 1 \in Levels /\ Stands(queues, b, k - 1)
            BY <2>3 DEF Levels, Top, RipeAt, Stands
        <3> QED BY <1>3, <3>1
    <2> QED BY <1>1, <2>1, <2>2, <2>3
<1> HIDE DEF lifted
<1>7. HeldBufs' = HeldBufs
    <2>1. \A b : b \in HeldBufs' <=> b \in HeldBufs
        BY <1>4, <1>5, <1>6
    <2> QED BY <2>1
<1>8. InPool' = [b \in HeldBufs |-> IF b \notin lifted THEN InPool[b]
                                    ELSE IF TRUE THEN InPool[b] + 1 ELSE InPool[b] - 1]
    <2>1. InPool' = [b \in HeldBufs' |-> InPool'[b]]
        BY <1>1, PoolNext
    <2>2. \A b \in HeldBufs : InPool'[b] = IF b \in lifted THEN InPool[b] + 1 ELSE InPool[b]
        BY <1>4, <1>5
    <2> QED BY <1>7, <2>1, <2>2
<1>9. Accepted' = Accepted
    BY <1>1, <1>2 DEF Accepted, Records
<1>10. lifted \subseteq HeldBufs
    BY DEF lifted
<1>11. Pool!Shift(lifted, TRUE)
    BY <1>0, <1>3, <1>4, <1>8, <1>9, <1>10 DEF Pool!Shift, Pool!Inside
<1> QED BY <1>3, <1>10, <1>11 DEF Pool!PoolNext, Pool!Inside

\* Every step maps to a step of the pool or leaves it as it is.
LEMMA NextRefines ==
    ASSUME UniqueIds, QueueInv, [Next]_vars
    PROVE  [Pool!PoolNext]_Pool!poolVars
<1>1. CASE Tick \/ UNCHANGED vars
    <2>1. /\ queues' = queues /\ births' = births
          /\ delivered' = delivered /\ expired' = expired
        BY <1>1 DEF Tick, vars
    <2>2. InPool' = InPool /\ Accepted' = Accepted
        BY <2>1 DEF InPool, Accepted, HeldLevel, HeldBufs, Held
    <2>3. clock' = clock \/ clock' = clock + 1
        BY <1>1 DEF Tick, vars
    <2> QED BY <2>1, <2>2, <2>3 DEF Pool!poolVars, Pool!PoolNext, Pool!Pass
<1>2. ASSUME NEW id \in Ids, Promote(id) PROVE Pool!PoolNext
    <2>1. PICK l \in FoundAt(id) :
              /\ l < Top
              /\ Relocate(id, l, l + 1, PromotedCount(FirstWith(queues[l], id)))
              /\ UNCHANGED <<clock, delivered, expired>>
        BY <1>2 DEF Promote
    <2>2. l + 1 \in Levels
        BY <2>1 DEF FoundAt, LevelsWith, Levels, Top
    <2>3. \E n \in 1 .. Len(queues[l]), count \in 0 .. COUNT_WRAP - 1 :
              Moves(id, l, l + 1, n, count)
        BY <2>1, <2>2, FoundMoves
    <2> QED BY <2>1, <2>3, MoveRefines
<1>3. ASSUME NEW id \in Ids, Demote(id) PROVE Pool!PoolNext
    <2>1. PICK l \in FoundAt(id) :
              /\ l > 0
              /\ Relocate(id, l, l - 1, DemotedCount(FirstWith(queues[l], id)))
              /\ UNCHANGED <<clock, delivered, expired>>
        BY <1>3 DEF Demote
    <2>2. l - 1 \in Levels
        BY <2>1 DEF FoundAt, LevelsWith, Levels, Top
    <2>3. \E n \in 1 .. Len(queues[l]), count \in 0 .. COUNT_WRAP - 1 :
              Moves(id, l, l - 1, n, count)
        BY <2>1, <2>2, FoundMoves
    <2> QED BY <2>1, <2>3, MoveRefines
<1> QED BY <1>1, <1>2, <1>3, EnqueueRefines, DequeueRefines, ExpireRefines,
           ReprioritizeRefines DEF Next

\* With callers that never reuse an id that is queued, the class implements the
\* pool: a message leaves it by one dequeue, from the highest level present, or
\* by an expire_old for its age, in no other way, and levels change by one.
THEOREM RefinesPool ==
    ASSUME UniqueIds
    PROVE  Spec => ImplementsPool
<1>1. QueueInv /\ [Next]_vars => [Pool!PoolNext]_Pool!poolVars
    BY NextRefines
<1> QED BY <1>1, InitRefines, QueueInvariant, PTL
           DEF Spec, ImplementsPool, Pool!PoolSpec

=============================================================================
