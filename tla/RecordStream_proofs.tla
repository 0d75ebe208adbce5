------------------------- MODULE RecordStream_proofs -------------------------
(* Facts about streams and collections that the proofs of the components      *)
(* share. Nothing here takes an operator as a parameter: an induction runs    *)
(* over the least member of a set of natural numbers.                         *)
EXTENDS RecordStream, SequenceTheorems, FiniteSetTheorems, FunctionTheorems,
        WellFoundedInduction, TLAPS

-----------------------------------------------------------------------------
(* Induction *)

Below == {p \in Nat \X Nat : p[1] < p[2]}

\* A set of natural numbers that is not empty has a least member.
LEMMA LeastNatural ==
  ASSUME NEW T, T \subseteq Nat, T # {}
  PROVE  \E x \in T : \A y \in T : x <= y
<1>1. OpToRel(<, Nat) = Below
  BY DEF OpToRel, Below
<1>2. IsWellFoundedOn(Below, Nat)
  BY <1>1, NatLessThanWellFounded
<1>3. PICK x \in T : \A y \in T : ~(<<y, x>> \in Below)
  BY <1>2, WFMin
<1>4. ASSUME NEW y \in T PROVE x <= y
  <2>1. x \in Nat /\ y \in Nat
    OBVIOUS
  <2>2. y < x => <<y, x>> \in Below
    BY <2>1 DEF Below
  <2> QED
    BY <1>3, <2>1, <2>2
<1> QED
  BY <1>4

\* A set that holds 0 and the successor of each of its members holds all natural numbers.
LEMMA SetInduction ==
  ASSUME NEW T, 0 \in T, \A n \in Nat : n \in T => n + 1 \in T
  PROVE  Nat \subseteq T
<1> SUFFICES ASSUME Nat \ T # {} PROVE FALSE
  OBVIOUS
<1>1. PICK x \in Nat \ T : \A y \in Nat \ T : x <= y
  BY LeastNatural
<1>2. x # 0 /\ x - 1 \in Nat /\ ~(x <= x - 1)
  OBVIOUS
<1> QED
  BY <1>1, <1>2

-----------------------------------------------------------------------------
(* Counting *)

\* A function that gives no value twice has as many values as arguments.
LEMMA CountOfImage ==
  ASSUME NEW S, IsFiniteSet(S), NEW f,
         \A x, y \in S : f[x] = f[y] => x = y
  PROVE  /\ IsFiniteSet({f[x] : x \in S})
         /\ Cardinality({f[x] : x \in S}) = Cardinality(S)
<1> DEFINE T == {f[x] : x \in S}
<1> DEFINE g == [x \in S |-> f[x]]
<1>1. g \in [S -> T] /\ \A x \in S : g[x] = f[x]
  OBVIOUS
<1>2. \A t \in T : \E x \in S : f[x] = t
  OBVIOUS
<1> HIDE DEF g, T
<1>3. g \in Surjection(S, T)
  BY <1>1, <1>2 DEF Surjection
<1>4. g \in Injection(S, T)
  BY <1>1 DEF Injection, IsInjective
<1>5. g \in Bijection(S, T)
  BY <1>3, <1>4 DEF Bijection
<1>6. ExistsBijection(S, T)
  BY <1>5 DEF ExistsBijection
<1>7. IsFiniteSet(T) /\ Cardinality(T) = Cardinality(S)
  BY <1>6, FS_Bijection
<1> QED
  BY <1>7 DEF T

\* Sets without a common member count as the two together.
LEMMA CountOfUnion ==
  ASSUME NEW S, IsFiniteSet(S), NEW T, IsFiniteSet(T), S \cap T = {}
  PROVE  IsFiniteSet(S \cup T) /\ Cardinality(S \cup T) = Cardinality(S) + Cardinality(T)
<1>1. Cardinality(S) \in Nat /\ Cardinality(T) \in Nat /\ Cardinality({}) = 0
  BY FS_CardinalityType, FS_EmptySet
<1>2. /\ IsFiniteSet(S \cup T)
      /\ Cardinality(S \cup T) = Cardinality(S) + Cardinality(T) - Cardinality(S \cap T)
  BY FS_Union
<1>3. Cardinality(S \cap T) = 0
  BY <1>1
<1> QED
  BY <1>1, <1>2, <1>3

-----------------------------------------------------------------------------
(* Streams and maps *)

\* LastOf finds a record with the id.
LEMMA LastOfFound ==
  ASSUME NEW S, NEW recs \in Seq(S), NEW i \in IdsOf(recs)
  PROVE  LastOf(recs, i) \in S /\ LastOf(recs, i).id = i
<1> DEFINE P(k) == recs[k].id = i /\ \A j \in DOMAIN recs : recs[j].id = i => j <= k
<1> DEFINE from == {Len(recs) - k : k \in {j \in DOMAIN recs : recs[j].id = i}}
<1>1. DOMAIN recs = 1..Len(recs) /\ Len(recs) \in Nat
  OBVIOUS
<1>2. from \subseteq Nat /\ from # {}
  BY <1>1 DEF IdsOf
<1>3. PICK x \in from : \A y \in from : x <= y
  BY <1>2, LeastNatural
<1>4. PICK k \in DOMAIN recs : recs[k].id = i /\ x = Len(recs) - k
  OBVIOUS
<1>5. \A j \in DOMAIN recs : recs[j].id = i => j <= k
  <2> SUFFICES ASSUME NEW j \in DOMAIN recs, recs[j].id = i PROVE j <= k
    OBVIOUS
  <2>1. Len(recs) - j \in from
    OBVIOUS
  <2>2. x <= Len(recs) - j
    BY <1>3, <2>1
  <2> QED
    BY <1>1, <1>4, <2>2
<1>6. \E n \in DOMAIN recs : P(n)
  BY <1>4, <1>5
<1> HIDE DEF P
<1>7. (CHOOSE n \in DOMAIN recs : P(n)) \in DOMAIN recs /\ P(CHOOSE n \in DOMAIN recs : P(n))
  BY <1>6
<1>8. LastOf(recs, i) = recs[CHOOSE n \in DOMAIN recs : P(n)]
  BY DEF LastOf, P
<1> QED
  BY <1>1, <1>7, <1>8 DEF P

\* What a loader takes from a stream of records is a sequence of those records.
LEMMA TakenRecords ==
  ASSUME NEW S, NEW s \in StreamsOf(S, 2)
  PROVE  Taken(s, FALSE) \in Seq(S)
<1>1. CASE s = BadHeader
  <2>1. Taken(s, FALSE) = <<>>
    BY <1>1 DEF Taken, BadHeader
  <2> QED
    BY <2>1, EmptySeq
<1>2. CASE s # BadHeader
  <2>1. s.count \in 0..2 /\ s.records \in UNION {[1..k -> S] : k \in 0..2}
    BY <1>2 DEF StreamsOf
  <2>2. PICK k \in 0..2 : s.records \in [1..k -> S]
    BY <2>1
  <2>3. s.records \in Seq(S) /\ Len(s.records) = k
    BY <2>2
  <2>4. Min({s.count, Len(s.records)}) \in 0..Len(s.records)
    <3> DEFINE m == IF s.count <= k THEN s.count ELSE k
    <3>1. m \in {s.count, Len(s.records)} /\ \A y \in {s.count, Len(s.records)} : m <= y
      BY <2>1, <2>3
    <3> HIDE DEF m
    <3>2. \E x \in {s.count, Len(s.records)} : \A y \in {s.count, Len(s.records)} : x <= y
      BY <3>1
    <3>3. /\ Min({s.count, Len(s.records)}) \in {s.count, Len(s.records)}
          /\ \A y \in {s.count, Len(s.records)} : Min({s.count, Len(s.records)}) <= y
      BY <3>2 DEF Min
    <3> QED
      BY <2>1, <2>3, <3>3
  <2>5. SubSeq(s.records, 1, Min({s.count, Len(s.records)})) \in Seq(S)
    <3> DEFINE m == Min({s.count, Len(s.records)})
    <3> HIDE DEF m
    <3>1. m \in 0..Len(s.records)
      BY <2>4 DEF m
    <3>2. m \in Int /\ \A i \in 1..m : s.records[i] \in S
      BY <2>3, <3>1
    <3>3. SubSeq(s.records, 1, m) \in Seq(S)
      BY <3>2, SubSeqProperties
    <3> QED
      BY <3>3 DEF m
  <2>6. CASE s.header
    BY <2>5, <2>6 DEF Taken, Readable
  <2>7. CASE ~s.header
    BY <2>7 DEF Taken
  <2> QED
    BY <2>6, <2>7
<1> QED
  BY <1>1, <1>2

-----------------------------------------------------------------------------
(* Kept *)

\* The recursion of Kept has a solution: the sequences kept of ever longer beginnings.
LEMMA KeptRecursion ==
  ASSUME NEW A, NEW q \in Seq(A), NEW S
  PROVE  \E kept : /\ \A i \in 0..Len(q) :
                        kept[i] = IF i = 0 THEN <<>>
                                  ELSE IF q[i] \in S THEN Append(kept[i - 1], q[i])
                                                     ELSE kept[i - 1]
                   /\ Kept(q, S) = kept[Len(q)]
<1> DEFINE step(g, i) == IF i = 0 THEN <<>>
                         ELSE IF q[i] \in S THEN Append(g[i - 1], q[i]) ELSE g[i - 1]
<1> DEFINE T == {n \in Nat : \E g : g = [i \in 0..n |-> step(g, i)]}
<1> DEFINE kept == CHOOSE g : g = [i \in 0..Len(q) |-> step(g, i)]
<1>1. 0 \in T
  <2> DEFINE g == [i \in 0..0 |-> <<>>]
  <2>1. g = [i \in 0..0 |-> step(g, i)]
    OBVIOUS
  <2> QED
    BY <2>1
<1>2. ASSUME NEW n \in Nat, n \in T PROVE n + 1 \in T
  <2>1. PICK g : g = [i \in 0..n |-> step(g, i)]
    BY <1>2
  <2> DEFINE h == [i \in 0..n + 1 |-> IF i <= n THEN g[i] ELSE step(g, n + 1)]
  <2>2. \A i \in 0..n + 1 : h[i] = step(h, i)
    <3>1. ASSUME NEW i \in 0..n PROVE h[i] = step(h, i)
      <4>1. h[i] = g[i]
        OBVIOUS
      <4>2. i # 0 => h[i - 1] = g[i - 1]
        OBVIOUS
      <4> HIDE DEF h
      <4>3. g[i] = step(g, i)
        BY <2>1
      <4> QED
        BY <4>1, <4>2, <4>3
    <3>2. h[n + 1] = step(h, n + 1)
      <4>1. h[n + 1] = step(g, n + 1) /\ h[n] = g[n] /\ n + 1 # 0 /\ (n + 1) - 1 = n
        OBVIOUS
      <4> HIDE DEF h
      <4> QED
        BY <4>1
    <3>3. \A i \in 0..n + 1 : i \in 0..n \/ i = n + 1
      OBVIOUS
    <3> HIDE DEF h, step
    <3> QED
      BY <3>1, <3>2, <3>3
  <2>3. h = [i \in 0..n + 1 |-> step(h, i)]
    <3>1. h = [i \in 0..n + 1 |-> h[i]]
      OBVIOUS
    <3> HIDE DEF h
    <3> QED
      BY <2>2, <3>1
  <2> HIDE DEF h, step
  <2>4. \E f : f = [i \in 0..n + 1 |-> step(f, i)]
    BY <2>3
  <2>5. n + 1 \in Nat
    OBVIOUS
  <2> QED
    BY <2>4, <2>5, Zenon
<1>3. Len(q) \in T
  <2> HIDE DEF T
  <2>1. Nat \subseteq T
    BY <1>1, <1>2, SetInduction
  <2> QED
    BY <2>1
<1>4. kept = [i \in 0..Len(q) |-> step(kept, i)]
  BY <1>3
<1>5. Kept(q, S) = kept[Len(q)]
  BY DEF Kept
<1> HIDE DEF kept
<1>6. \A i \in 0..Len(q) : kept[i] = step(kept, i)
  BY <1>4
<1> QED
  BY <1>5, <1>6

\* f finds the places of the elements of w among the first n of q: they are those in S, in order.
Places(w, q, n, S, f) ==
  /\ f \in [1..Len(w) -> 1..n]
  /\ \A j, k \in 1..Len(w) : j < k => f[j] < f[k]
  /\ \A j \in 1..Len(w) : w[j] = q[f[j]] /\ q[f[j]] \in S
  /\ \A i \in 1..n : q[i] \in S => \E j \in 1..Len(w) : f[j] = i

\* Kept(q, S) has exactly the elements of q that are in S, each at its own place and in their order.
LEMMA KeptPlaces ==
  ASSUME NEW A, NEW q \in Seq(A), NEW S
  PROVE  Kept(q, S) \in Seq(A) /\ \E f : Places(Kept(q, S), q, Len(q), S, f)
<1>1. PICK kept : /\ \A i \in 0..Len(q) :
                        kept[i] = IF i = 0 THEN <<>>
                                  ELSE IF q[i] \in S THEN Append(kept[i - 1], q[i])
                                                     ELSE kept[i - 1]
                  /\ Kept(q, S) = kept[Len(q)]
  BY KeptRecursion
<1> DEFINE Good(n) == kept[n] \in Seq(A) /\ \E f : Places(kept[n], q, n, S, f)
<1> DEFINE T == {n \in Nat : n <= Len(q) => Good(n)}
<1>2. 0 \in T
  <2>1. kept[0] = <<>>
    BY <1>1
  <2>2. Places(<<>>, q, 0, S, [j \in 1..0 |-> 0])
    BY DEF Places
  <2>3. Good(0)
    BY <2>1, <2>2, EmptySeq
  <2> HIDE DEF Good
  <2> QED
    BY <2>3
<1>3. ASSUME NEW n \in Nat, n \in T PROVE n + 1 \in T
  <2> SUFFICES ASSUME n + 1 <= Len(q) PROVE Good(n + 1)
    OBVIOUS
  <2>1. Good(n) /\ n + 1 \in 1..Len(q) /\ q[n + 1] \in A
    BY <1>3
  <2>2. PICK f : Places(kept[n], q, n, S, f)
    BY <2>1
  <2>3. kept[n + 1] = IF q[n + 1] \in S THEN Append(kept[n], q[n + 1]) ELSE kept[n]
    <3>1. n + 1 \in 0..Len(q) /\ n + 1 # 0 /\ (n + 1) - 1 = n
      OBVIOUS
    <3> QED
      BY <1>1, <3>1
  <2> DEFINE w == kept[n]
  <2>4. w \in Seq(A) /\ Len(w) \in Nat /\ Places(w, q, n, S, f) /\ kept[n] = w
    BY <2>1, <2>2
  <2> HIDE DEF w
  <2>5. CASE q[n + 1] \notin S
    <3>1. kept[n + 1] = w
      BY <2>3, <2>4, <2>5
    <3>2. Places(w, q, n + 1, S, f)
      BY <2>4, <2>5 DEF Places
    <3> QED
      BY <2>4, <3>1, <3>2
  <2>6. CASE q[n + 1] \in S
    <3> DEFINE v == Append(w, q[n + 1])
    <3> DEFINE g == [j \in 1..Len(w) + 1 |-> IF j <= Len(w) THEN f[j] ELSE n + 1]
    <3>1. kept[n + 1] = v
      BY <2>3, <2>4, <2>6
    <3>2. /\ v \in Seq(A) /\ Len(v) = Len(w) + 1
          /\ \A j \in 1..Len(w) : v[j] = w[j]
          /\ v[Len(w) + 1] = q[n + 1]
      BY <2>1, <2>4
    <3>3. \A j \in 1..Len(w) : f[j] \in 1..n
      BY <2>4 DEF Places
    <3>4. /\ \A j \in 1..Len(w) : g[j] = f[j]
          /\ g[Len(w) + 1] = n + 1
          /\ g = [j \in 1..Len(w) + 1 |-> g[j]]
      BY <2>4
    <3> HIDE DEF v, g
    <3>5. ASSUME NEW j \in 1..Len(v)
          PROVE  \/ j \in 1..Len(w) /\ g[j] = f[j] /\ f[j] \in 1..n
                 \/ j = Len(w) + 1 /\ g[j] = n + 1
      <4>1. Len(w) \in Nat /\ Len(v) = Len(w) + 1
        BY <2>4, <3>2
      <4>2. j \in 1..Len(w) \/ j = Len(w) + 1
        BY <4>1
      <4> QED
        BY <3>3, <3>4, <4>2
    <3>6. g \in [1..Len(v) -> 1..n + 1]
      <4>1. \A j \in 1..Len(v) : g[j] \in 1..n + 1
        BY <3>5
      <4>2. g = [j \in 1..Len(v) |-> g[j]]
        BY <3>2, <3>4
      <4> QED
        BY <4>1, <4>2
    <3>7. ASSUME NEW j \in 1..Len(v), NEW k \in 1..Len(v), j < k PROVE g[j] < g[k]
      <4>1. j \in 1..Len(w) /\ g[j] = f[j] /\ f[j] \in 1..n
        BY <2>4, <3>2, <3>5, <3>7
      <4>2. CASE k \in 1..Len(w) /\ g[k] = f[k]
        BY <2>4, <3>7, <4>1, <4>2 DEF Places
      <4>3. CASE g[k] = n + 1
        BY <4>1, <4>3
      <4> QED
        BY <3>5, <4>2, <4>3
    <3>8. ASSUME NEW j \in 1..Len(v) PROVE v[j] = q[g[j]] /\ q[g[j]] \in S
      <4>1. CASE j \in 1..Len(w) /\ g[j] = f[j]
        BY <2>4, <3>2, <4>1 DEF Places
      <4>2. CASE j = Len(w) + 1 /\ g[j] = n + 1
        BY <2>6, <3>2, <4>2
      <4> QED
        BY <3>5, <4>1, <4>2
    <3>9. ASSUME NEW i \in 1..n + 1, q[i] \in S PROVE \E j \in 1..Len(v) : g[j] = i
      <4>1. CASE i = n + 1
        BY <2>4, <3>2, <3>4, <4>1
      <4>2. CASE i # n + 1
        <5>1. i \in 1..n
          BY <4>2
        <5>2. PICK j \in 1..Len(w) : f[j] = i
          BY <2>4, <3>9, <5>1 DEF Places
        <5>3. Len(w) \in Nat /\ Len(v) = Len(w) + 1
          BY <2>4, <3>2
        <5>4. j \in 1..Len(v)
          BY <5>3
        <5>5. g[j] = i
          BY <3>4, <5>2
        <5> QED
          BY <5>4, <5>5
      <4> QED
        BY <4>1, <4>2
    <3>10. Places(v, q, n + 1, S, g)
      BY <3>6, <3>7, <3>8, <3>9 DEF Places
    <3> QED
      BY <3>1, <3>2, <3>10
  <2> QED
    BY <2>5, <2>6
<1>4. Good(Len(q))
  <2> HIDE DEF T
  <2>1. Nat \subseteq T
    BY <1>2, <1>3, SetInduction
  <2> QED
    BY <2>1 DEF T
<1> QED
  BY <1>1, <1>4

\* Among a number and finitely many others there is a greatest one.
Gathers(S, a, n, f) ==
  a \in Nat /\ n \in Nat /\ (\A i \in 1..n : f[i] \in Nat) /\ S = {a} \cup {f[i] : i \in 1..n}

\* The greatest of the numbers gathered is one of them that none exceeds.
LEMMA GreatestOf ==
  ASSUME NEW S, NEW a, NEW n, NEW f, Gathers(S, a, n, f)
  PROVE  Max(S) \in S /\ \A y \in S : Max(S) >= y
<1> USE DEF Gathers
<1> DEFINE V(m) == {a} \cup {f[i] : i \in 1..m}
<1> DEFINE T == {m \in Nat : m <= n => \E x \in V(m) : x \in Nat /\ \A y \in V(m) : x >= y}
<1>1. 0 \in T
  <2>1. V(0) = {a}
    OBVIOUS
  <2> HIDE DEF V
  <2> QED
    BY <2>1
<1>2. ASSUME NEW m \in Nat, m \in T PROVE m + 1 \in T
  <2> SUFFICES ASSUME m + 1 <= n
               PROVE  \E x \in V(m + 1) : x \in Nat /\ \A y \in V(m + 1) : x >= y
    OBVIOUS
  <2>1. PICK x \in V(m) : x \in Nat /\ \A y \in V(m) : x >= y
    BY <1>2
  <2>2. V(m + 1) = V(m) \cup {f[m + 1]}
    <3>1. \A i : i \in 1..m + 1 <=> i \in 1..m \/ i = m + 1
      OBVIOUS
    <3> QED
      BY <3>1
  <2>3. f[m + 1] \in Nat
    OBVIOUS
  <2> HIDE DEF V
  <2>4. CASE x >= f[m + 1]
    BY <2>1, <2>2, <2>3, <2>4
  <2>5. CASE f[m + 1] >= x
    <3>1. \A y \in V(m) : y \in Nat
      <4>1. \A i \in 1..m : i \in 1..n
        OBVIOUS
      <4> QED
        BY <4>1 DEF V
    <3>2. \A y \in V(m) : f[m + 1] >= y
      BY <2>1, <2>3, <2>5, <3>1
    <3> QED
      BY <2>2, <2>3, <3>2
  <2> QED
    BY <2>1, <2>3, <2>4, <2>5
<1> HIDE DEF T
<1>3. n \in T
  BY <1>1, <1>2, SetInduction
<1>4. \E x \in V(n) : \A y \in V(n) : x >= y
  BY <1>3 DEF T
<1> QED
  BY <1>4 DEF Max


-----------------------------------------------------------------------------
(* Remainders *)

\* A multiple of W leaves the remainder alone.
LEMMA ModOfMultiple ==
  ASSUME NEW W \in Nat \ {0}, NEW k \in Int, NEW r \in 0 .. W - 1
  PROVE  (k * W + r) % W = r
<1> DEFINE n == k * W + r
     d == n \div W
     s == n % W
<1>1. k * W \in Int
  OBVIOUS
<1>2. n \in Int
  BY <1>1
<1>3. d \in Int /\ s \in 0 .. W - 1 /\ n = W * d + s
  BY <1>2
<1> HIDE DEF d, s
<1>4. k * W + r = W * d + s
  BY <1>3
<1>5. ~(k >= d + 1)
  <2> SUFFICES ASSUME k >= d + 1 PROVE FALSE
    OBVIOUS
  <2>1. k * W >= (d + 1) * W
    BY <1>3
  <2>2. (d + 1) * W = W * d + W
    BY <1>3
  <2> QED BY <1>1, <1>3, <1>4, <2>1, <2>2
<1>6. ~(d >= k + 1)
  <2> SUFFICES ASSUME d >= k + 1 PROVE FALSE
    OBVIOUS
  <2>1. W * d >= (k + 1) * W
    BY <1>3
  <2>2. (k + 1) * W = k * W + W
    OBVIOUS
  <2> QED BY <1>1, <1>3, <1>4, <2>1, <2>2
<1>7. k = d
  BY <1>3, <1>5, <1>6
<1>8. k * W = W * d
  BY <1>3, <1>7
<1>9. r = s
  BY <1>1, <1>3, <1>4, <1>8
<1> QED BY <1>9 DEF s

\* A remainder is no more than its number, and is the number itself below W.
LEMMA RemainderIsSmall ==
  ASSUME NEW W \in Nat \ {0}, NEW n \in Nat
  PROVE  n % W <= n /\ (n < W => n % W = n)
<1>1. n = (n \div W) * W + (n % W) /\ n \div W \in Nat /\ (n % W) \in 0 .. W - 1
  OBVIOUS
<1>2. (n \div W) * W \in Nat
  BY <1>1
<1>3. n % W <= n
  BY <1>1, <1>2
<1>4. ASSUME n < W PROVE n % W = n
  <2>1. n \in 0 .. W - 1 /\ 0 * W + n = n
    BY <1>4
  <2> QED BY <2>1, ModOfMultiple
<1> QED BY <1>3, <1>4

\* A number that grows modulo W along with another keeps its distance modulo W.
LEMMA SameSurplus ==
  ASSUME NEW W \in Nat \ {0}, NEW x \in Nat, NEW m \in Nat, NEW s \in Nat
  PROVE  (((x + s) % W) - (m + s)) % W = (x - m) % W
<1> DEFINE k == (x + s) \div W
<1> DEFINE y == (x + s) % W
<1> DEFINE j == (x - m) \div W
<1> DEFINE r == (x - m) % W
<1>1. k \in Int /\ y \in 0..W - 1 /\ x + s = k * W + y
  OBVIOUS
<1>2. j \in Int /\ r \in 0..W - 1 /\ x - m = j * W + r
  <2>1. x - m \in Int
    OBVIOUS
  <2> QED
    BY <2>1
<1> HIDE DEF k, y, j, r
<1>3. (j - k) * W = j * W - k * W /\ j * W \in Int /\ k * W \in Int /\ j - k \in Int
  BY <1>1, <1>2
<1>4. y - (m + s) = (j - k) * W + r
  BY <1>1, <1>2, <1>3
<1>5. ((j - k) * W + r) % W = r
  BY <1>2, <1>3, ModOfMultiple
<1> QED
  BY <1>4, <1>5 DEF y, r


-----------------------------------------------------------------------------
(* Loops over a sequence.                                                     *)

\* f lists the states of a loop that starts with `base` and takes the elements of q one by one.
IsLoop(f, F, base, q) ==
  f[0] = base /\ \A i \in 1..Len(q) : f[i] = F[<<f[i - 1], q[i]>>]

\* Such a loop has a state after every element.
LEMMA Iterates ==
  ASSUME NEW A, NEW B, NEW F, F \in [A \X B -> A], NEW base, base \in A, NEW q, q \in Seq(B)
  PROVE  \E f \in [0..Len(q) -> A] : IsLoop(f, F, base, q)
<1> DEFINE Runs(f, n) == f[0] = base /\ \A i \in 1..n : f[i] = F[<<f[i - 1], q[i]>>]
<1> DEFINE T == {n \in Nat : n <= Len(q) => \E f \in [0..n -> A] : Runs(f, n)}
<1>1. 0 \in T
  <2> DEFINE f == [i \in 0..0 |-> base]
  <2>1. f \in [0..0 -> A] /\ Runs(f, 0)
    OBVIOUS
  <2> QED
    BY <2>1
<1>2. ASSUME NEW n \in Nat, n \in T PROVE n + 1 \in T
  <2> SUFFICES ASSUME n + 1 <= Len(q) PROVE \E f \in [0..n + 1 -> A] : Runs(f, n + 1)
    OBVIOUS
  <2>1. PICK f \in [0..n -> A] : Runs(f, n)
    BY <1>2
  <2> DEFINE x == F[<<f[n], q[n + 1]>>]
  <2> DEFINE g == [i \in 0..n + 1 |-> IF i <= n THEN f[i] ELSE x]
  <2>2. x \in A
    <3>1. f[n] \in A /\ q[n + 1] \in B
      OBVIOUS
    <3> QED
      BY <3>1
  <2> HIDE DEF x
  <2>3. g \in [0..n + 1 -> A]
    BY <2>2
  <2>4. \A i \in 0..n : g[i] = f[i]
    OBVIOUS
  <2>5. g[n + 1] = x
    OBVIOUS
  <2> HIDE DEF g
  <2>6. ASSUME NEW i \in 1..n PROVE g[i] = F[<<g[i - 1], q[i]>>]
    <3>1. g[i] = f[i] /\ g[i - 1] = f[i - 1] /\ f[i] = F[<<f[i - 1], q[i]>>]
      BY <2>1, <2>4
    <3> QED
      BY <3>1
  <2>7. g[n + 1] = F[<<g[(n + 1) - 1], q[n + 1]>>]
    <3>1. (n + 1) - 1 = n /\ g[n] = f[n]
      BY <2>4
    <3> QED
      BY <2>5, <3>1 DEF x
  <2>8. \A i \in 1..n + 1 : i \in 1..n \/ i = n + 1
    OBVIOUS
  <2>9. g[0] = base
    BY <2>1, <2>4
  <2> QED
    BY <2>3, <2>6, <2>7, <2>8, <2>9
<1>3. Len(q) \in T
  <2> HIDE DEF T
  <2>1. Nat \subseteq T
    BY <1>1, <1>2, SetInduction
  <2> QED
    BY <2>1
<1>4. PICK f \in [0..Len(q) -> A] : Runs(f, Len(q))
  BY <1>3
<1> QED
  BY <1>4 DEF IsLoop

-----------------------------------------------------------------------------
(* More of what is kept, of the newest and of flattened sequences *)

\* Putting one more element on a sequence that follows another.
LEMMA LongerTail ==
  ASSUME NEW S, NEW h \in Seq(S), NEW recs \in Seq(S), NEW n \in 0..Len(recs) - 1
  PROVE  h \o SubSeq(recs, 1, n + 1) = Append(h \o SubSeq(recs, 1, n), recs[n + 1])
<1>1. /\ SubSeq(recs, 1, n) \in Seq(S) /\ Len(SubSeq(recs, 1, n)) = n
      /\ \A k \in 1..n : SubSeq(recs, 1, n)[k] = recs[k]
      /\ SubSeq(recs, 1, n + 1) \in Seq(S) /\ Len(SubSeq(recs, 1, n + 1)) = n + 1
      /\ \A k \in 1..n + 1 : SubSeq(recs, 1, n + 1)[k] = recs[k]
      /\ recs[n + 1] \in S /\ n \in Nat
  OBVIOUS
<1> DEFINE a == SubSeq(recs, 1, n)
<1> DEFINE b == SubSeq(recs, 1, n + 1)
<1> HIDE DEF a, b
<1>2. /\ a \in Seq(S) /\ Len(a) = n /\ \A k \in 1..n : a[k] = recs[k]
      /\ b \in Seq(S) /\ Len(b) = n + 1 /\ \A k \in 1..n + 1 : b[k] = recs[k]
  BY <1>1 DEF a, b
<1>3. b = Append(a, recs[n + 1])
  BY <1>1, <1>2
<1>4. h \o Append(a, recs[n + 1]) = Append(h \o a, recs[n + 1])
  BY <1>1, <1>2
<1> QED
  BY <1>3, <1>4 DEF a, b

\* One more element at the end: it stays when it is in the set.
LEMMA KeptLonger ==
  ASSUME NEW A, NEW p \in Seq(A), NEW q \in Seq(A), NEW S, NEW T,
         Len(p) = Len(q) + 1,
         \A i \in 1..Len(q) : p[i] = q[i] /\ (q[i] \in S <=> q[i] \in T)
  PROVE  Kept(p, S) = IF p[Len(p)] \in S THEN Append(Kept(q, T), p[Len(p)]) ELSE Kept(q, T)
<1>1. PICK f : /\ \A i \in 0..Len(p) : f[i] = IF i = 0 THEN <<>>
                                              ELSE IF p[i] \in S THEN Append(f[i - 1], p[i])
                                                                 ELSE f[i - 1]
               /\ Kept(p, S) = f[Len(p)]
  BY KeptRecursion
<1>2. PICK g : /\ \A i \in 0..Len(q) : g[i] = IF i = 0 THEN <<>>
                                              ELSE IF q[i] \in T THEN Append(g[i - 1], q[i])
                                                                 ELSE g[i - 1]
               /\ Kept(q, T) = g[Len(q)]
  BY KeptRecursion
<1> DEFINE U == {n \in Nat : n <= Len(q) => f[n] = g[n]}
<1>3. 0 \in U
  BY <1>1, <1>2
<1>4. ASSUME NEW n \in Nat, n \in U PROVE n + 1 \in U
  <2> SUFFICES ASSUME n + 1 <= Len(q) PROVE f[n + 1] = g[n + 1]
    OBVIOUS
  <2>1. n + 1 \in 1..Len(q) /\ n + 1 \in 0..Len(q) /\ n + 1 \in 0..Len(p) /\ (n + 1) - 1 = n
        /\ n + 1 # 0 /\ f[n] = g[n]
    BY <1>4
  <2>2. f[n + 1] = IF p[n + 1] \in S THEN Append(f[n], p[n + 1]) ELSE f[n]
    BY <1>1, <2>1
  <2>3. g[n + 1] = IF q[n + 1] \in T THEN Append(g[n], q[n + 1]) ELSE g[n]
    BY <1>2, <2>1
  <2> QED
    BY <2>1, <2>2, <2>3
<1>5. Len(q) \in U
  <2> HIDE DEF U
  <2>1. Nat \subseteq U
    BY <1>3, <1>4, SetInduction
  <2> QED
    BY <2>1
<1>6. f[Len(q)] = g[Len(q)]
  BY <1>5
<1>7. Len(p) \in 0..Len(p) /\ Len(p) # 0 /\ Len(p) - 1 = Len(q)
  OBVIOUS
<1>8. f[Len(p)] = IF p[Len(p)] \in S THEN Append(f[Len(q)], p[Len(p)]) ELSE f[Len(q)]
  BY <1>1, <1>7
<1> QED
  BY <1>1, <1>2, <1>6, <1>8

\* Sets that agree on the elements keep the same.
LEMMA KeptSame ==
  ASSUME NEW A, NEW q \in Seq(A), NEW S, NEW T, \A i \in 1..Len(q) : q[i] \in S <=> q[i] \in T
  PROVE  Kept(q, S) = Kept(q, T)
<1>1. CASE q = <<>>
  <2>1. Len(q) = 0
    BY <1>1
  <2>2. Kept(q, S) = <<>>
    <3>1. PICK f : /\ \A i \in 0..Len(q) : f[i] = IF i = 0 THEN <<>>
                                              ELSE IF q[i] \in S THEN Append(f[i - 1], q[i])
                                                                 ELSE f[i - 1]
                   /\ Kept(q, S) = f[Len(q)]
      BY KeptRecursion
    <3> QED
      BY <2>1, <3>1
  <2>3. Kept(q, T) = <<>>
    <3>1. PICK f : /\ \A i \in 0..Len(q) : f[i] = IF i = 0 THEN <<>>
                                              ELSE IF q[i] \in T THEN Append(f[i - 1], q[i])
                                                                 ELSE f[i - 1]
                   /\ Kept(q, T) = f[Len(q)]
      BY KeptRecursion
    <3> QED
      BY <2>1, <3>1
  <2> QED
    BY <2>2, <2>3
<1>2. CASE q # <<>>
  <2> DEFINE p == SubSeq(q, 1, Len(q) - 1)
  <2>0. Len(q) \in Nat \ {0} /\ Len(q) - 1 \in 0..Len(q)
    BY <1>2
  <2>8. ASSUME NEW m \in 0..Len(q)
        PROVE  /\ SubSeq(q, 1, m) \in Seq(A) /\ Len(SubSeq(q, 1, m)) = m
               /\ \A i \in 1..m : SubSeq(q, 1, m)[i] = q[i]
    OBVIOUS
  <2>1. p \in Seq(A) /\ Len(p) = Len(q) - 1 /\ \A i \in 1..Len(q) - 1 : p[i] = q[i]
    BY <2>0, <2>8
  <2> HIDE DEF p
  <2>2. Len(q) = Len(p) + 1 /\ \A i \in 1..Len(p) : i \in 1..Len(q) /\ q[i] = p[i]
    BY <2>0, <2>1
  <2>6. \A i \in 1..Len(p) : q[i] = p[i] /\ (p[i] \in S <=> p[i] \in T)
    BY <2>2
  <2>7. \A i \in 1..Len(p) : q[i] = p[i] /\ (p[i] \in T <=> p[i] \in T)
    BY <2>2
  <2>3. Kept(q, S) = IF q[Len(q)] \in S THEN Append(Kept(p, T), q[Len(q)]) ELSE Kept(p, T)
    BY <2>1, <2>2, <2>6, KeptLonger
  <2>4. Kept(q, T) = IF q[Len(q)] \in T THEN Append(Kept(p, T), q[Len(q)]) ELSE Kept(p, T)
    BY <2>1, <2>2, <2>7, KeptLonger
  <2>5. Len(q) \in 1..Len(q)
    BY <1>2
  <2> QED
    BY <2>3, <2>4, <2>5
<1> QED
  BY <1>1, <1>2

\* Nothing is kept of nothing.
LEMMA KeptOfEmpty == ASSUME NEW S PROVE Kept(<<>>, S) = <<>>
<1>1. <<>> \in Seq({})
  OBVIOUS
<1>2. Kept(<<>>, S) \in Seq({})
  BY <1>1, KeptPlaces
<1> QED
  BY <1>2

\* One element more is kept exactly if it belongs to what is kept.
LEMMA KeptAppend ==
  ASSUME NEW A, NEW q \in Seq(A), NEW x \in A, NEW S
  PROVE  Kept(Append(q, x), S) = IF x \in S THEN Append(Kept(q, S), x) ELSE Kept(q, S)
<1> DEFINE p == Append(q, x)
<1>1. p \in Seq(A) /\ Len(p) = Len(q) + 1 /\ p[Len(p)] = x /\ \A i \in 1..Len(q) : p[i] = q[i]
  OBVIOUS
<1> HIDE DEF p
<1>2. \A i \in 1..Len(q) : p[i] = q[i] /\ (q[i] \in S <=> q[i] \in S)
  BY <1>1
<1>3. Kept(p, S) = IF p[Len(p)] \in S THEN Append(Kept(q, S), p[Len(p)]) ELSE Kept(q, S)
  BY <1>1, <1>2, KeptLonger
<1> QED
  BY <1>1, <1>3 DEF p

\* What is kept of two sequences, one after the other.
LEMMA KeptOfBoth ==
  ASSUME NEW A, NEW a \in Seq(A), NEW b \in Seq(A), NEW S
  PROVE  Kept(a \o b, S) = Kept(a, S) \o Kept(b, S)
<1> DEFINE pre(n) == SubSeq(b, 1, n)
<1> DEFINE U == {n \in Nat : n <= Len(b) => Kept(a \o pre(n), S) = Kept(a, S) \o Kept(pre(n), S)}
<1>1. 0 \in U
  <2>1. pre(0) = <<>> /\ a \o <<>> = a
    OBVIOUS
  <2>2. Kept(a, S) \in Seq(A)
    BY KeptPlaces
  <2>3. Kept(a, S) \o <<>> = Kept(a, S)
    BY <2>2
  <2> QED
    BY <2>1, <2>3, KeptOfEmpty
<1>2. ASSUME NEW n \in Nat, n \in U PROVE n + 1 \in U
  <2> SUFFICES ASSUME n + 1 <= Len(b)
               PROVE  Kept(a \o pre(n + 1), S) = Kept(a, S) \o Kept(pre(n + 1), S)
    OBVIOUS
  <2> DEFINE x == b[n + 1]
  <2>1. n \in 0..Len(b) - 1 /\ x \in A /\ pre(n) \in Seq(A)
    OBVIOUS
  <2>2. a \o pre(n + 1) = Append(a \o pre(n), x)
    BY <2>1, LongerTail
  <2>3. pre(n + 1) = Append(pre(n), x)
    <3>1. <<>> \o SubSeq(b, 1, n + 1) = Append(<<>> \o SubSeq(b, 1, n), b[n + 1])
      <4>1. <<>> \in Seq(A)
        OBVIOUS
      <4> QED
        BY <2>1, <4>1, LongerTail
    <3> QED
      BY <3>1
  <2>4. Kept(a \o pre(n), S) = Kept(a, S) \o Kept(pre(n), S)
    BY <1>2
  <2>5. a \o pre(n) \in Seq(A)
    BY <2>1
  <2> HIDE DEF pre, x
  <2>6. ASSUME NEW q \in Seq(A)
        PROVE  Kept(Append(q, x), S) = IF x \in S THEN Append(Kept(q, S), x) ELSE Kept(q, S)
    BY <2>1, KeptAppend
  <2>7. Kept(a, S) \in Seq(A) /\ Kept(pre(n), S) \in Seq(A)
    BY <2>1, KeptPlaces
  <2>8. Kept(a, S) \o Append(Kept(pre(n), S), x) = Append(Kept(a, S) \o Kept(pre(n), S), x)
    <3>1. ASSUME NEW v \in Seq(A), NEW w \in Seq(A), NEW y \in A
          PROVE  v \o Append(w, y) = Append(v \o w, y)
      OBVIOUS
    <3> QED
      BY <2>1, <2>7, <3>1
  <2> QED
    BY <2>1, <2>2, <2>3, <2>4, <2>5, <2>6, <2>8
<1>3. Len(b) \in U
  <2> HIDE DEF U
  <2>1. Nat \subseteq U
    BY <1>1, <1>2, SetInduction
  <2> QED
    BY <2>1
<1>4. SubSeq(b, 1, Len(b)) = b /\ Len(b) <= Len(b)
  OBVIOUS
<1>5. Kept(a \o pre(Len(b)), S) = Kept(a, S) \o Kept(pre(Len(b)), S)
  <2> HIDE DEF pre
  <2> QED
    BY <1>3, <1>4
<1> QED
  BY <1>4, <1>5

\* What is kept of a sequence are elements of both.
LEMMA KeptElements ==
  ASSUME NEW A, NEW q \in Seq(A), NEW S
  PROVE  Kept(q, S) \in Seq(A) /\ \A i \in 1..Len(Kept(q, S)) : Kept(q, S)[i] \in S
<1>1. Kept(q, S) \in Seq(A) /\ \E f : Places(Kept(q, S), q, Len(q), S, f)
  BY KeptPlaces
<1>2. PICK f : Places(Kept(q, S), q, Len(q), S, f)
  BY <1>1
<1>3. \A i \in 1..Len(Kept(q, S)) : Kept(q, S)[i] \in S
  BY <1>2 DEF Places
<1> QED
  BY <1>1, <1>3

\* When the last element of a sequence is to be kept, something is.
LEMMA LastIsKept ==
  ASSUME NEW A, NEW q \in Seq(A), q # <<>>, NEW S, q[Len(q)] \in S
  PROVE  Kept(q, S) # <<>>
<1> DEFINE n == Len(q)
           p == SubSeq(q, 1, n - 1)
<1>1. n \in Nat \ {0}
  OBVIOUS
<1>2. p \in Seq(A) /\ Len(p) = n - 1 /\ \A i \in 1..n - 1 : p[i] = q[i]
  <2>1. ASSUME NEW m \in 0..Len(q)
        PROVE  SubSeq(q, 1, m) \in Seq(A) /\ Len(SubSeq(q, 1, m)) = m
               /\ \A i \in 1..m : SubSeq(q, 1, m)[i] = q[i]
    OBVIOUS
  <2>2. n - 1 \in 0..Len(q)
    BY <1>1
  <2> HIDE DEF n
  <2> QED
    BY <2>1, <2>2
<1> HIDE DEF p
<1>3. Len(q) = Len(p) + 1 /\ \A i \in 1..Len(p) : q[i] = p[i] /\ (p[i] \in S <=> p[i] \in S)
  BY <1>1, <1>2
<1>4. Kept(q, S) = Append(Kept(p, S), q[n])
  BY <1>2, <1>3, KeptLonger
<1>5. Kept(p, S) \in Seq(A)
  BY <1>2, KeptElements
<1> HIDE DEF n
<1>6. Len(Append(Kept(p, S), q[n])) = Len(Kept(p, S)) + 1 /\ Len(Kept(p, S)) \in Nat
  BY <1>5
<1>7. Len(Kept(q, S)) # 0
  BY <1>4, <1>6
<1> QED
  BY <1>7

\* Newest(q, n) is q from its end.
LEMMA NewestIs ==
  ASSUME NEW S, NEW q \in Seq(S), NEW n \in Nat, NEW w, w = Newest(q, n)
  PROVE  /\ w \in Seq(S) /\ Len(w) = IF Len(q) <= n THEN Len(q) ELSE n
         /\ \A k \in 1..Len(w) : w[k] = q[Len(q) - Len(w) + k]
<1>1. CASE Len(q) <= n
  <2>1. w = q
    BY <1>1 DEF Newest
  <2> QED
    BY <1>1, <2>1
<1>2. CASE Len(q) > n
  <2>1. w = SubSeq(q, Len(q) - n + 1, Len(q))
    BY <1>2 DEF Newest
  <2>2. Len(q) - n + 1 \in 1..Len(q) + 1 /\ Len(q) \in Nat
    BY <1>2
  <2>3. ASSUME NEW i \in 1..Len(q) + 1
        PROVE  /\ SubSeq(q, i, Len(q)) \in Seq(S) /\ Len(SubSeq(q, i, Len(q))) = Len(q) - i + 1
               /\ \A k \in 1..Len(q) - i + 1 : SubSeq(q, i, Len(q))[k] = q[i + k - 1]
    OBVIOUS
  <2>4. /\ w \in Seq(S) /\ Len(w) = Len(q) - (Len(q) - n + 1) + 1
        /\ \A k \in 1..Len(q) - (Len(q) - n + 1) + 1 : w[k] = q[(Len(q) - n + 1) + k - 1]
    BY <2>1, <2>2, <2>3
  <2>5. Len(w) = n
    BY <2>2, <2>4
  <2>6. \A k \in 1..n : w[k] = q[Len(q) - n + k]
    <3>1. ASSUME NEW k \in 1..n PROVE w[k] = q[Len(q) - n + k]
      <4>1. k \in 1..Len(q) - (Len(q) - n + 1) + 1 /\ (Len(q) - n + 1) + k - 1 = Len(q) - n + k
        BY <2>2
      <4> QED
        BY <2>4, <4>1
    <3> QED
      BY <3>1
  <2> QED
    BY <1>2, <2>4, <2>5, <2>6
<1> QED
  BY <1>1, <1>2

\* One element more, and the oldest makes room.
LEMMA NewestAndOne ==
  ASSUME NEW S, NEW q \in Seq(S), NEW x \in S, NEW n \in Nat \ {0}
  PROVE  Newest(Append(q, x), n) = Capped(Newest(q, n), x, n)
<1> DEFINE p == Append(q, x)
           v == Newest(q, n)
           w == Newest(p, n)
           c == Capped(v, x, n)
<1>1. /\ p \in Seq(S) /\ Len(p) = Len(q) + 1 /\ p[Len(q) + 1] = x
      /\ \A i \in 1..Len(q) : p[i] = q[i]
  OBVIOUS
<1>2. /\ v \in Seq(S) /\ Len(v) = (IF Len(q) <= n THEN Len(q) ELSE n)
      /\ \A k \in 1..Len(v) : v[k] = q[Len(q) - Len(v) + k]
  <2> HIDE DEF v
  <2>1. v = Newest(q, n) /\ n \in Nat
    BY DEF v
  <2> QED
    BY <2>1, NewestIs
<1>3. /\ w \in Seq(S) /\ Len(w) = (IF Len(p) <= n THEN Len(p) ELSE n)
      /\ \A k \in 1..Len(w) : w[k] = p[Len(p) - Len(w) + k]
  <2> HIDE DEF w, p
  <2>1. w = Newest(p, n) /\ n \in Nat /\ p \in Seq(S)
    BY <1>1 DEF w
  <2> QED
    BY <2>1, NewestIs
<1>4. Len(v) <= n /\ Len(v) \in Nat /\ Len(q) \in Nat
  BY <1>2
<1>5. ASSUME Len(v) >= n
      PROVE  /\ c \in Seq(S) /\ Len(c) = Len(v) /\ c[Len(v)] = x
             /\ \A k \in 1..Len(v) - 1 : c[k] = v[k + 1]
  <2> HIDE DEF v
  <2>1. v # <<>> /\ c = Append(Tail(v), x)
    BY <1>2, <1>4, <1>5 DEF Capped
  <2>2. /\ Tail(v) \in Seq(S) /\ Len(Tail(v)) = Len(v) - 1
        /\ \A k \in 1..Len(v) - 1 : Tail(v)[k] = v[k + 1]
    BY <1>2, <2>1
  <2> QED
    BY <1>2, <2>1, <2>2
<1>6. ASSUME ~(Len(v) >= n)
      PROVE  /\ c \in Seq(S) /\ Len(c) = Len(v) + 1 /\ c[Len(v) + 1] = x
             /\ \A k \in 1..Len(v) : c[k] = v[k]
  <2> HIDE DEF v
  <2>1. c = Append(v, x)
    BY <1>6 DEF Capped
  <2> QED
    BY <1>2, <2>1
<1> HIDE DEF p, v, w, c
<1>7. CASE Len(v) >= n
  <2>1. Len(v) = n /\ Len(w) = n /\ Len(q) >= n /\ n \in Nat
    BY <1>1, <1>2, <1>3, <1>4, <1>7
  <2>2. ASSUME NEW k \in 1..n PROVE w[k] = c[k]
    <3>1. w[k] = p[Len(q) + 1 - n + k]
      <4>1. Len(p) - Len(w) + k = Len(q) + 1 - n + k /\ k \in 1..Len(w)
        BY <1>1, <1>4, <2>1
      <4> QED
        BY <1>3, <4>1
    <3>2. CASE k = n
      <4>1. Len(q) + 1 - n + k = Len(q) + 1
        BY <1>4, <2>1, <3>2
      <4> QED
        BY <1>1, <1>5, <1>7, <2>1, <3>1, <3>2, <4>1
    <3>3. CASE k # n
      <4>1. /\ k \in 1..n - 1 /\ k + 1 \in 1..n /\ Len(q) - n + (k + 1) = Len(q) + 1 - n + k
            /\ Len(q) + 1 - n + k \in 1..Len(q)
        BY <1>4, <2>1, <3>3
      <4>2. c[k] = v[k + 1] /\ v[k + 1] = q[Len(q) - n + (k + 1)]
        BY <1>2, <1>5, <1>7, <2>1, <4>1
      <4> QED
        BY <1>1, <3>1, <4>1, <4>2
    <3> QED
      BY <3>2, <3>3
  <2>3. c \in Seq(S) /\ Len(c) = n
    BY <1>5, <1>7, <2>1
  <2>4. w = c
    BY <1>3, <2>1, <2>2, <2>3
  <2> QED
    BY <2>4 DEF w, c, p, v
<1>8. CASE ~(Len(v) >= n)
  <2>1. v \in Seq(S) /\ Len(v) = Len(q) /\ Len(q) < n /\ Len(w) = Len(q) + 1 /\ n \in Nat
    BY <1>1, <1>2, <1>3, <1>4, <1>8
  <2>2. ASSUME NEW k \in 1..Len(q) + 1 PROVE w[k] = c[k]
    <3>1. w[k] = p[k]
      <4>1. Len(p) - Len(w) + k = k
        BY <1>1, <1>4, <2>1
      <4> QED
        BY <1>3, <2>1, <4>1
    <3>2. CASE k = Len(q) + 1
      BY <1>1, <1>6, <1>8, <2>1, <3>1, <3>2
    <3>3. CASE k # Len(q) + 1
      <4>1. k \in 1..Len(q) /\ Len(q) - Len(v) + k = k
        BY <1>4, <2>1, <3>3
      <4> QED
        BY <1>1, <1>2, <1>6, <1>8, <2>1, <3>1, <4>1
    <3> QED
      BY <3>2, <3>3
  <2>3. c \in Seq(S) /\ Len(c) = Len(q) + 1
    BY <1>6, <1>8, <2>1
  <2>4. w = c
    BY <1>3, <2>1, <2>2, <2>3
  <2> QED
    BY <2>4 DEF w, c, p, v
<1> QED
  BY <1>7, <1>8

\* FlattenSeq puts its sequences one after the other, from the first to the last.
LEMMA FlattenIs ==
  ASSUME NEW S, NEW qs \in Seq(Seq(S))
  PROVE  \E f \in [0..Len(qs) -> Seq(S)] :
           /\ f[0] = <<>> /\ \A i \in 1..Len(qs) : f[i] = f[i - 1] \o qs[i]
           /\ FlattenSeq(qs) = f[Len(qs)]
<1> DEFINE A == Seq(S)
<1> DEFINE F == [p \in A \X A |-> p[1] \o p[2]]
<1> DEFINE step(g, i) == IF i = 1 THEN qs[i] ELSE g[i - 1] \o qs[i]
<1> DEFINE flat == CHOOSE g : g = [i \in 1..Len(qs) |-> step(g, i)]
<1>1. F \in [A \X A -> A] /\ <<>> \in A
  OBVIOUS
<1>2. PICK f \in [0..Len(qs) -> A] : IsLoop(f, F, <<>>, qs)
  <2> HIDE DEF F
  <2>1. qs \in Seq(A)
    OBVIOUS
  <2> HIDE DEF A
  <2> QED
    BY <1>1, <2>1, Iterates
<1>3. f[0] = <<>> /\ \A i \in 1..Len(qs) : f[i] = f[i - 1] \o qs[i]
  <2>1. f[0] = <<>> /\ \A i \in 1..Len(qs) : f[i] = F[<<f[i - 1], qs[i]>>]
    BY <1>2 DEF IsLoop
  <2>2. ASSUME NEW i \in 1..Len(qs) PROVE F[<<f[i - 1], qs[i]>>] = f[i - 1] \o qs[i]
    <3>1. i - 1 \in 0..Len(qs) /\ qs[i] \in A
      OBVIOUS
    <3>2. f[i - 1] \in A
      BY <1>2, <3>1
    <3> HIDE DEF A
    <3> QED
      BY <3>1, <3>2
  <2> QED
    BY <2>1, <2>2
<1>4. CASE qs = <<>>
  <2>1. Len(qs) = 0 /\ FlattenSeq(qs) = qs
    BY <1>4 DEF FlattenSeq
  <2> QED
    BY <1>2, <1>3, <1>4, <2>1
<1>5. CASE qs # <<>>
  <2>1. Len(qs) \in Nat \ {0}
    BY <1>5
  <2>2. FlattenSeq(qs) = flat[Len(qs)]
    BY <2>1 DEF FlattenSeq
  <2> DEFINE h == [i \in 1..Len(qs) |-> f[i]]
  <2>3. ASSUME NEW i \in 1..Len(qs) PROVE h[i] = step(h, i)
    <3>1. CASE i = 1
      <4>1. 1 \in 1..Len(qs) /\ 1 - 1 = 0
        BY <2>1
      <4>5. qs[1] \in Seq(S)
        BY <4>1
      <4>4. f[1] = f[1 - 1] \o qs[1]
        BY <1>3, <4>1
      <4>2. f[1] = f[0] \o qs[1] /\ qs[1] \in Seq(S)
        BY <4>1, <4>4, <4>5
      <4>3. <<>> \o qs[1] = qs[1]
        BY <4>2
      <4> QED
        BY <1>3, <3>1, <4>1, <4>2, <4>3
    <3>2. CASE i # 1
      <4>1. i - 1 \in 1..Len(qs)
        BY <3>2
      <4>2. h[i - 1] = f[i - 1] /\ h[i] = f[i]
        BY <4>1
      <4> QED
        BY <1>3, <3>2, <4>2
    <3> QED
      BY <3>1, <3>2
  <2>4. h = [i \in 1..Len(qs) |-> h[i]]
    OBVIOUS
  <2>5. \A i \in 1..Len(qs) : h[i] = f[i]
    OBVIOUS
  <2> HIDE DEF h
  <2>6. h = [i \in 1..Len(qs) |-> step(h, i)]
    <3> HIDE DEF step
    <3> QED
      BY <2>3, <2>4
  <2>7. flat = [i \in 1..Len(qs) |-> step(flat, i)]
    BY <2>6
  <2> HIDE DEF flat
  <2>8. \A i \in 1..Len(qs) : flat[i] = step(flat, i)
    BY <2>7
  <2> DEFINE T == {n \in Nat : n + 1 <= Len(qs) => flat[n + 1] = h[n + 1]}
  <2>9. 0 \in T
    BY <2>1, <2>3, <2>8
  <2>10. ASSUME NEW n \in Nat, n \in T PROVE n + 1 \in T
    <3> SUFFICES ASSUME (n + 1) + 1 <= Len(qs) PROVE flat[(n + 1) + 1] = h[(n + 1) + 1]
      OBVIOUS
    <3>1. (n + 1) + 1 \in 1..Len(qs) /\ (n + 1) + 1 # 1 /\ (n + 1) + 1 - 1 = n + 1 /\ flat[n + 1] = h[n + 1]
      BY <2>1, <2>10
    <3> QED
      BY <2>3, <2>8, <3>1
  <2>11. Len(qs) - 1 \in T
    <3> HIDE DEF T
    <3>1. Nat \subseteq T
      BY <2>9, <2>10, SetInduction
    <3> QED
      BY <2>1, <3>1
  <2>12. (Len(qs) - 1) + 1 = Len(qs) /\ Len(qs) \in 1..Len(qs)
    BY <2>1
  <2>13. flat[Len(qs)] = h[Len(qs)]
    BY <2>11, <2>12
  <2> QED
    BY <1>2, <1>3, <2>2, <2>5, <2>12, <2>13
<1> QED
  BY <1>4, <1>5

\* A sequence more stands behind those that were joined.
LEMMA FlattenLonger ==
  ASSUME NEW S, NEW qs \in Seq(Seq(S)), NEW x \in Seq(S)
  PROVE  /\ FlattenSeq(qs) \in Seq(S)
         /\ FlattenSeq(Append(qs, x)) = FlattenSeq(qs) \o x
<1> DEFINE ps == Append(qs, x)
<1>1. /\ ps \in Seq(Seq(S)) /\ Len(ps) = Len(qs) + 1 /\ ps[Len(qs) + 1] = x
      /\ \A i \in 1..Len(qs) : ps[i] = qs[i]
  OBVIOUS
<1> HIDE DEF ps
<1>2. PICK f \in [0..Len(qs) -> Seq(S)] :
           /\ f[0] = <<>> /\ \A i \in 1..Len(qs) : f[i] = f[i - 1] \o qs[i]
           /\ FlattenSeq(qs) = f[Len(qs)]
  BY FlattenIs
<1>3. PICK g \in [0..Len(ps) -> Seq(S)] :
           /\ g[0] = <<>> /\ \A i \in 1..Len(ps) : g[i] = g[i - 1] \o ps[i]
           /\ FlattenSeq(ps) = g[Len(ps)]
  BY <1>1, FlattenIs
<1> DEFINE T == {n \in Nat : n <= Len(qs) => f[n] = g[n]}
<1>4. 0 \in T
  BY <1>2, <1>3
<1>5. ASSUME NEW n \in Nat, n \in T PROVE n + 1 \in T
  <2> SUFFICES ASSUME n + 1 <= Len(qs) PROVE f[n + 1] = g[n + 1]
    OBVIOUS
  <2>1. n + 1 \in 1..Len(qs) /\ n + 1 \in 1..Len(ps) /\ (n + 1) - 1 = n /\ f[n] = g[n]
    BY <1>1, <1>5
  <2> QED
    BY <1>1, <1>2, <1>3, <2>1
<1>6. Len(qs) \in T /\ Len(qs) \in Nat
  <2> HIDE DEF T
  <2>1. Nat \subseteq T
    BY <1>4, <1>5, SetInduction
  <2> QED
    BY <2>1
<1>7. f[Len(qs)] = g[Len(qs)]
  BY <1>6
<1>8. Len(qs) + 1 \in 1..Len(ps) /\ (Len(qs) + 1) - 1 = Len(qs)
  BY <1>1
<1>9. FlattenSeq(ps) = g[Len(qs)] \o x
  BY <1>1, <1>3, <1>8
<1>10. FlattenSeq(qs) \in Seq(S)
  BY <1>2, <1>6
<1> QED
  BY <1>2, <1>7, <1>9, <1>10 DEF ps

\* No sequences are joined to the empty one.
LEMMA FlattenNone == FlattenSeq(<<>>) = <<>>
  BY DEF FlattenSeq

\* f lists the states of a loop whose steps are functions of the state and then of the element.
Lists(f, F, base, q) ==
  f[0] = base /\ \A i \in 1..Len(q) : f[i] = F[f[i - 1]][q[i]]

\* The functions of a state and then of an element that give a state.
Steps(A, B) == [A -> [B -> A]]

\* A loop that takes states to states has a list of them, of which it yields the last.
LEMMA LoopIs ==
  ASSUME NEW A, NEW B, NEW F, F \in Steps(A, B), NEW base, base \in A, NEW q, q \in Seq(B)
  PROVE  \E f \in [0..Len(q) -> A] : Lists(f, F, base, q) /\ Loop(F, base, q) = f[Len(q)]
<1> DEFINE G == [p \in A \X B |-> F[p[1]][p[2]]]
           step(f, n) == IF n = 0 THEN base ELSE F[f[n - 1]][q[n]]
           after == CHOOSE f : f = [n \in 0..Len(q) |-> step(f, n)]
<1>1. G \in [A \X B -> A]
  BY DEF Steps
<1>2. \A a \in A, b \in B : G[<<a, b>>] = F[a][b]
  BY DEF Steps
<1> HIDE DEF G
<1>3. PICK g \in [0..Len(q) -> A] : IsLoop(g, G, base, q)
  BY <1>1, Iterates
<1>4. Len(q) \in Nat /\ \A i \in 1..Len(q) : q[i] \in B
  OBVIOUS
<1>5. g[0] = base /\ \A i \in 1..Len(q) : g[i] = F[g[i - 1]][q[i]]
  <2>1. ASSUME NEW i \in 1..Len(q) PROVE g[i] = F[g[i - 1]][q[i]]
    <3>1. i - 1 \in 0..Len(q)
      BY <1>4
    <3>2. g[i - 1] \in A /\ q[i] \in B
      BY <1>3, <1>4, <3>1
    <3>3. g[i] = G[<<g[i - 1], q[i]>>]
      BY <1>3 DEF IsLoop
    <3> QED
      BY <1>2, <3>2, <3>3
  <2> QED
    BY <1>3, <2>1 DEF IsLoop
<1>6. \A n \in 0..Len(q) : g[n] = step(g, n)
  <2> SUFFICES ASSUME NEW n \in 0..Len(q) PROVE g[n] = step(g, n)
    OBVIOUS
  <2>1. CASE n = 0
    BY <1>5, <2>1
  <2>2. CASE n # 0
    <3>1. n \in 1..Len(q)
      BY <2>2
    <3> QED
      BY <1>5, <2>2, <3>1
  <2> QED
    BY <2>1, <2>2
<1>7. g = [n \in 0..Len(q) |-> step(g, n)]
  <2>1. g = [n \in 0..Len(q) |-> g[n]]
    BY <1>3
  <2> HIDE DEF step
  <2> QED
    BY <1>6, <2>1
<1>8. after = [n \in 0..Len(q) |-> step(after, n)]
  BY <1>7
<1>9. Loop(F, base, q) = after[Len(q)]
  BY DEF Loop
<1> HIDE DEF after
<1>10. \A n \in 0..Len(q) : after[n] = step(after, n)
  BY <1>8
<1> DEFINE T == {n \in Nat : n <= Len(q) => after[n] = g[n]}
<1>11. 0 \in T
  <2>1. 0 \in 0..Len(q)
    BY <1>4
  <2>2. after[0] = step(after, 0) /\ g[0] = step(g, 0)
    BY <1>6, <1>10, <2>1
  <2> QED
    BY <2>2
<1>12. ASSUME NEW n \in Nat, n \in T PROVE n + 1 \in T
  <2> SUFFICES ASSUME n + 1 <= Len(q) PROVE after[n + 1] = g[n + 1]
    OBVIOUS
  <2>1. n + 1 \in 0..Len(q) /\ n + 1 # 0 /\ (n + 1) - 1 = n /\ after[n] = g[n]
    BY <1>12
  <2>2. after[n + 1] = step(after, n + 1) /\ g[n + 1] = step(g, n + 1)
    <3> HIDE DEF step
    <3> QED
      BY <1>6, <1>10, <2>1
  <2> QED
    BY <2>1, <2>2
<1>13. Len(q) \in T
  <2> HIDE DEF T
  <2>1. Nat \subseteq T
    BY <1>11, <1>12, SetInduction
  <2> QED
    BY <1>4, <2>1
<1>14. after[Len(q)] = g[Len(q)]
  BY <1>4, <1>13
<1> QED
  BY <1>5, <1>9, <1>14 DEF Lists

\* The elements of two sequences, one behind the other.
LEMMA JoinedIs ==
  ASSUME NEW S, NEW a \in Seq(S), NEW b \in Seq(S)
  PROVE  /\ a \o b \in Seq(S) /\ Len(a \o b) = Len(a) + Len(b)
         /\ \A k \in 1..Len(a) + Len(b) : (a \o b)[k] = IF k <= Len(a) THEN a[k] ELSE b[k - Len(a)]
  OBVIOUS

\* A loop ends in one of its states, and without elements where it starts.
LEMMA LoopEnds ==
  ASSUME NEW A, NEW B, NEW F, F \in Steps(A, B), NEW base, base \in A
  PROVE  /\ \A q \in Seq(B) : Loop(F, base, q) \in A
         /\ Loop(F, base, <<>>) = base
<1>1. ASSUME NEW q \in Seq(B) PROVE Loop(F, base, q) \in A /\ (q = <<>> => Loop(F, base, q) = base)
  <2>1. PICK f \in [0..Len(q) -> A] : Lists(f, F, base, q) /\ Loop(F, base, q) = f[Len(q)]
    BY LoopIs
  <2>2. Len(q) \in 0..Len(q) /\ (q = <<>> => Len(q) = 0)
    OBVIOUS
  <2> QED
    BY <2>1, <2>2 DEF Lists
<1>2. <<>> \in Seq(B)
  OBVIOUS
<1> QED
  BY <1>1, <1>2

\* A loop over two sequences, one behind the other, goes on where it ended for the first.
LEMMA LoopGoesOn ==
  ASSUME NEW A, NEW B, NEW F, F \in Steps(A, B), NEW base, base \in A, NEW p \in Seq(B), NEW q \in Seq(B)
  PROVE  Loop(F, base, p \o q) = Loop(F, Loop(F, base, p), q)
<1> DEFINE m == Len(p)
           n == Len(q)
           r == p \o q
           middle == Loop(F, base, p)
<1>1. m \in Nat /\ n \in Nat
  OBVIOUS
<1>2. /\ r \in Seq(B) /\ Len(r) = m + n
      /\ \A k \in 1..m + n : r[k] = IF k <= m THEN p[k] ELSE q[k - m]
  BY JoinedIs
<1>3. middle \in A
  BY LoopEnds
<1>4. PICK f \in [0..m + n -> A] : Lists(f, F, base, r) /\ Loop(F, base, r) = f[m + n]
  <2> HIDE DEF r, m, n
  <2> QED
    BY <1>2, LoopIs
<1>5. PICK g \in [0..m -> A] : Lists(g, F, base, p) /\ middle = g[m]
  BY LoopIs
<1> HIDE DEF middle
<1>6. PICK h \in [0..n -> A] : Lists(h, F, middle, q) /\ Loop(F, middle, q) = h[n]
  BY <1>3, LoopIs
<1>7. \A i \in 1..m : p[i] = r[i] /\ g[i] = F[g[i - 1]][p[i]]
  <2>1. \A i \in 1..m : i \in 1..m + n /\ i <= m
    BY <1>1
  <2> QED
    BY <1>2, <1>5, <2>1 DEF Lists
<1>8. \A i \in 1..m + n : f[i] = F[f[i - 1]][r[i]]
  BY <1>2, <1>4 DEF Lists
<1>9. \A i \in 1..n : q[i] = r[m + i] /\ h[i] = F[h[i - 1]][q[i]]
  <2>1. ASSUME NEW i \in 1..n PROVE q[i] = r[m + i]
    <3>1. m + i \in 1..m + n /\ ~(m + i <= m) /\ m + i - m = i
      BY <1>1
    <3> QED
      BY <1>2, <3>1
  <2> QED
    BY <1>6, <2>1 DEF Lists
<1>10. f[0] = g[0] /\ h[0] = g[m]
  BY <1>4, <1>5, <1>6 DEF Lists
<1> HIDE DEF m, n, r
<1> DEFINE T == {i \in Nat : i <= m => f[i] = g[i]}
<1>11. 0 \in T
  BY <1>10
<1>12. ASSUME NEW i \in Nat, i \in T PROVE i + 1 \in T
  <2> SUFFICES ASSUME i + 1 <= m PROVE f[i + 1] = g[i + 1]
    OBVIOUS
  <2>1. i + 1 \in 1..m /\ i + 1 \in 1..m + n /\ (i + 1) - 1 = i /\ f[i] = g[i]
    BY <1>1, <1>12
  <2> QED
    BY <1>7, <1>8, <2>1
<1>13. f[m] = h[0]
  <2> HIDE DEF T
  <2>1. m \in T
    BY <1>1, <1>11, <1>12, SetInduction
  <2> QED
    BY <1>1, <1>10, <2>1 DEF T
<1> DEFINE U == {i \in Nat : i <= n => f[m + i] = h[i]}
<1>14. 0 \in U
  BY <1>1, <1>13
<1>15. ASSUME NEW i \in Nat, i \in U PROVE i + 1 \in U
  <2> SUFFICES ASSUME i + 1 <= n PROVE f[m + (i + 1)] = h[i + 1]
    OBVIOUS
  <2> DEFINE k == m + (i + 1)
             j == i + 1
  <2>1. j \in 1..n /\ k \in 1..m + n /\ j - 1 = i /\ k - 1 = m + i /\ k = m + j /\ f[m + i] = h[i]
    BY <1>1, <1>15
  <2> HIDE DEF k, j
  <2>2. f[k] = F[f[m + i]][r[k]]
    BY <1>8, <2>1
  <2>3. q[j] = r[k] /\ h[j] = F[h[i]][q[j]]
    BY <1>9, <2>1
  <2>4. f[k] = h[j]
    BY <2>1, <2>2, <2>3
  <2> QED
    BY <2>4 DEF k, j
<1>16. f[m + n] = h[n]
  <2> HIDE DEF U
  <2>1. n \in U
    BY <1>1, <1>14, <1>15, SetInduction
  <2> QED
    BY <1>1, <2>1 DEF U
<1> QED
  BY <1>4, <1>6, <1>16 DEF r, middle

\* One element more is one step more.
LEMMA LoopStep ==
  ASSUME NEW A, NEW B, NEW F, F \in Steps(A, B), NEW base, base \in A, NEW x \in B
  PROVE  /\ Loop(F, base, <<x>>) = F[base][x]
         /\ \A q \in Seq(B) : Loop(F, base, q \o <<x>>) = F[Loop(F, base, q)][x]
         /\ \A q \in Seq(B) : Loop(F, base, <<x>> \o q) = Loop(F, F[base][x], q)
<1> DEFINE one == <<x>>
<1>1. one \in Seq(B) /\ Len(one) = 1 /\ one[1] = x
  OBVIOUS
<1> HIDE DEF one
<1>2. ASSUME NEW a, a \in A PROVE Loop(F, a, one) = F[a][x] /\ F[a][x] \in A
  <2>1. PICK f \in [0..Len(one) -> A] : Lists(f, F, a, one) /\ Loop(F, a, one) = f[Len(one)]
    BY <1>1, <1>2, LoopIs
  <2>2. 1 \in 1..Len(one) /\ 1 - 1 = 0
    BY <1>1
  <2>3. f[1] = F[f[0]][one[1]] /\ f[0] = a
    BY <2>1, <2>2 DEF Lists
  <2>4. F[a][x] \in A
    BY <1>2 DEF Steps
  <2> QED
    BY <1>1, <2>1, <2>3, <2>4
<1>3. ASSUME NEW q \in Seq(B) PROVE Loop(F, base, q \o one) = F[Loop(F, base, q)][x]
  <2>1. Loop(F, base, q) \in A
    BY LoopEnds
  <2> QED
    BY <1>1, <1>2, <2>1, LoopGoesOn
<1>4. ASSUME NEW q \in Seq(B) PROVE Loop(F, base, one \o q) = Loop(F, F[base][x], q)
  BY <1>1, <1>2, LoopGoesOn
<1> QED
  BY <1>2, <1>3, <1>4 DEF one
=============================================================================
