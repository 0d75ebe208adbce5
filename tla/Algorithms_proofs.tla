------------------------- MODULE Algorithms_proofs -------------------------
(* What the library computes, for sequences of every length and words of every *)
(* value: sizes and fields of records, corrected times, filter conditions,     *)
(* transform stages and mappings; the codecs, the checksums and the cipher,    *)
(* each with what undoes or checks it. Nothing here speaks of a behaviour.     *)
EXTENDS TimeSync, Registries, FilterEngine, TransformPipeline, LookupTables,
        CodecDispatch, PacketBuilder, XorCipher,
        RecordStream_proofs

\* The smaller and the larger of two numbers.
LEMMA MinMaxOfTwo ==
  ASSUME NEW a \in Int, NEW b \in Int
  PROVE  /\ Min({a, b}) \in {a, b} /\ Min({a, b}) <= a /\ Min({a, b}) <= b
         /\ Max({a, b}) \in {a, b} /\ a <= Max({a, b}) /\ b <= Max({a, b})
<1>1. \E x \in {a, b} : \A y \in {a, b} : x <= y
  <2>1. CASE a <= b
    BY <2>1
  <2>2. CASE b <= a
    BY <2>2
  <2> QED
    BY <2>1, <2>2
<1>2. \E x \in {a, b} : \A y \in {a, b} : x >= y
  <2>1. CASE a >= b
    BY <2>1
  <2>2. CASE b >= a
    BY <2>2
  <2> QED
    BY <2>1, <2>2
<1>3. Min({a, b}) \in {a, b} /\ \A y \in {a, b} : Min({a, b}) <= y
  BY <1>1 DEF Min
<1>4. Max({a, b}) \in {a, b} /\ \A y \in {a, b} : Max({a, b}) >= y
  BY <1>2 DEF Max
<1> HIDE DEF Min, Max
<1>5. a <= Max({a, b}) /\ b <= Max({a, b})
  BY <1>4
<1> QED
  BY <1>3, <1>4, <1>5

\* An offset that ends behind the field, cut to its width, stays below the wrap.
LEMMA RecordSizeBounded ==
  ASSUME NEW fields \in Seq(Fields)
  PROVE  /\ RecordSize(fields) \in Nat /\ RecordSize(fields) < OFFSET_WRAP
         /\ \A k \in 1..Len(fields) : FieldEnd(fields[k]) % OFFSET_WRAP <= RecordSize(fields)
<1> DEFINE f == [k \in 1..Len(fields) |-> FieldEnd(fields[k]) % OFFSET_WRAP]
<1> DEFINE S == {0} \cup {FieldEnd(fields[k]) % OFFSET_WRAP : k \in DOMAIN fields}
<1>1. OFFSET_WRAP \in Nat \ {0}
  BY SchemaAssumption
<1>2. ASSUME NEW k \in 1..Len(fields)
      PROVE  FieldEnd(fields[k]) % OFFSET_WRAP \in 0..OFFSET_WRAP - 1
  <2>1. fields[k] \in Fields
    OBVIOUS
  <2>2. fields[k].offset \in Nat /\ fields[k].size \in Nat
    BY <2>1, SchemaAssumption
  <2>3. FieldEnd(fields[k]) \in Nat
    BY <2>2 DEF FieldEnd
  <2> QED
    BY <1>1, <2>3
<1>3. DOMAIN fields = 1..Len(fields) /\ Len(fields) \in Nat
  OBVIOUS
<1>4. S = {0} \cup {f[k] : k \in 1..Len(fields)}
  BY <1>3
<1>5. f \in [1..Len(fields) -> 0..OFFSET_WRAP - 1]
  BY <1>2
<1> HIDE DEF f, S
<1>6. Gathers(S, 0, Len(fields), f)
  BY <1>1, <1>3, <1>4, <1>5 DEF Gathers
<1>7. Max(S) \in S /\ \A x \in S : Max(S) >= x
  BY <1>6, GreatestOf
<1>8. \A x \in S : x \in Nat /\ x < OFFSET_WRAP
  BY <1>1, <1>4, <1>5
<1>9. \A k \in 1..Len(fields) : FieldEnd(fields[k]) % OFFSET_WRAP \in S
  BY <1>3 DEF S
<1>10. RecordSize(fields) = Max(S)
  BY DEF RecordSize, S
<1> QED
  BY <1>7, <1>8, <1>9, <1>10

-----------------------------------------------------------------------------
(* Arithmetic at its ends: words and their numbers, quotients that go through  *)
(* doubles, transform stages, mappings.                                        *)

\* Corrected times keep their order and come back where they are not clamped; past the end of the
\* clock they are less than they were (time_sync.cpp:43-49).
LEMMA CorrectionsKeepOrder ==
  ASSUME NEW offset \in 1 - CLOCK_WRAP..CLOCK_WRAP - 1
  PROVE  CorrectionKeepsOrder(offset)
<1>1. CLOCK_WRAP \in Nat \ {0}
  BY SyncAssumption
<1>2. ASSUME NEW t \in Nat, NEW d \in Int, t + d < CLOCK_WRAP
      PROVE  Corrected(t, d) = IF t + d < 0 THEN 0 ELSE t + d
  <2> DEFINE m == Max({0, t + d})
  <2>1. m \in {0, t + d} /\ 0 <= m /\ t + d <= m
    <3>1. 0 \in Int /\ t + d \in Int
      OBVIOUS
    <3> QED
      BY <3>1, MinMaxOfTwo, Zenon
  <2>2. m = IF t + d < 0 THEN 0 ELSE t + d
    BY <2>1
  <2>3. Corrected(t, d) = m % CLOCK_WRAP
    BY DEF Corrected
  <2> HIDE DEF m
  <2>4. m \in Nat /\ m < CLOCK_WRAP
    BY <1>1, <1>2, <2>2
  <2> QED
    BY <1>1, <2>2, <2>3, <2>4, RemainderIsSmall
<1>3. ASSUME NEW t \in 0..CLOCK_WRAP - 1, NEW u \in 0..CLOCK_WRAP - 1,
             t + offset < CLOCK_WRAP, u + offset < CLOCK_WRAP, t <= u
      PROVE  Corrected(t, offset) <= Corrected(u, offset)
  BY <1>1, <1>2, <1>3
<1>4. ASSUME NEW t \in 0..CLOCK_WRAP - 1, t + offset < CLOCK_WRAP, t + offset >= 0
      PROVE  Corrected(Corrected(t, offset), -offset) = t
  <2>1. Corrected(t, offset) = t + offset
    BY <1>1, <1>2, <1>4
  <2>2. t + offset \in Nat /\ -offset \in Int /\ (t + offset) + (-offset) = t
    BY <1>1, <1>4
  <2> QED
    BY <1>1, <1>2, <2>1, <2>2
<1>5. ASSUME NEW t \in 0..CLOCK_WRAP - 1, ~(t + offset < CLOCK_WRAP)
      PROVE  Corrected(t, offset) < t
  <2> DEFINE m == Max({0, t + offset})
  <2>1. m \in {0, t + offset} /\ 0 <= m /\ t + offset <= m
    BY <1>1, MinMaxOfTwo
  <2>2. m = t + offset
    BY <1>1, <1>5, <2>1
  <2>3. Corrected(t, offset) = (t + offset) % CLOCK_WRAP
    BY <2>2 DEF Corrected
  <2> HIDE DEF m
  <2> DEFINE r == t + offset - CLOCK_WRAP
  <2>4. r \in 0..CLOCK_WRAP - 1 /\ r < t /\ 1 * CLOCK_WRAP + r = t + offset
    BY <1>1, <1>5
  <2> HIDE DEF r
  <2>5. (1 * CLOCK_WRAP + r) % CLOCK_WRAP = r
    BY <1>1, <2>4, ModOfMultiple
  <2> QED
    BY <2>3, <2>4, <2>5
<1> QED
  BY <1>3, <1>4, <1>5 DEF CorrectionKeepsOrder

\* A filtered offset lies between the offset and the one before, but for rounding (time_sync.cpp).
LEMMA FiltersStayBetween ==
  ASSUME NEW offset \in Int, NEW prev \in Int
  PROVE  FilterStaysBetween(offset, prev)
<1> DEFINE lo == Min({offset, prev})
           hi == Max({offset, prev})
<1>1. lo \in Int /\ hi \in Int /\ lo <= offset /\ lo <= prev /\ offset <= hi /\ prev <= hi
  BY MinMaxOfTwo
<1> HIDE DEF lo, hi
<1>2. ASSUME NEW n \in 0..6
      PROVE  lo - 1 <= time_sync_filter(n, offset, prev) /\ time_sync_filter(n, offset, prev) <= hi + 2
  <2> DEFINE s == 3 * offset + prev + n
  <2>1. n % 7 = n
    OBVIOUS
  <2>2. time_sync_filter(n, offset, prev) = IF s < 0 THEN -((-s) \div 4) ELSE s \div 4
    BY <2>1 DEF time_sync_filter, Quotient, Magnitude
  <2>3. s \in Int /\ 4 * lo <= s /\ s <= 4 * hi + 6
    BY <1>1
  <2> HIDE DEF s
  <2> QED
    BY <1>1, <2>2, <2>3
<1> QED
  BY <1>2 DEF FilterStaysBetween, lo, hi

\* A record whose field ends fit in 16 bits has the size of the last of them.
LEMMA UncutIsCovered ==
  ASSUME NEW fields \in Seq(Fields), \A k \in DOMAIN fields : FieldEnd(fields[k]) < OFFSET_WRAP,
         NEW k \in DOMAIN fields
  PROVE  FieldEnd(fields[k]) <= RecordSize(fields)
<1>1. fields[k] \in Fields
  OBVIOUS
<1>2. FieldEnd(fields[k]) \in Nat /\ OFFSET_WRAP \in Nat \ {0}
  BY <1>1, SchemaAssumption DEF FieldEnd
<1>3. FieldEnd(fields[k]) % OFFSET_WRAP = FieldEnd(fields[k])
  BY <1>2, RemainderIsSmall
<1> QED
  BY <1>3, RecordSizeBounded

\* A sequence of one element that is kept stays as it is.
LEMMA KeptOfOne == ASSUME NEW x, NEW S, x \in S PROVE Kept(<<x>>, S) = <<x>>
<1> DEFINE none == <<>>
<1>1. none \in Seq({x}) /\ x \in {x}
  OBVIOUS
<1>2. Append(none, x) = <<x>> /\ Kept(none, S) = none
  BY KeptOfEmpty
<1> HIDE DEF none
<1>3. Kept(Append(none, x), S) = IF x \in S THEN Append(Kept(none, S), x) ELSE Kept(none, S)
  BY <1>1, KeptAppend
<1> QED
  BY <1>2, <1>3

\* What is read of a record for a field lies inside the record (schema_registry.cpp:52-112).
LEMMA FieldsInside ==
  ASSUME NEW fields \in Seq(Fields), NEW len \in Nat
  PROVE  FieldsStayInside(fields, len)
<1> DEFINE schema == [fields |-> fields, record_size |-> RecordSize(fields)]
           one(k) == [schema EXCEPT !.fields = <<fields[k]>>]
           uncut == \A k \in DOMAIN fields : FieldEnd(fields[k]) < OFFSET_WRAP
<1>1. \A f \in Fields : f.offset \in Nat /\ f.size \in Nat /\ FieldEnd(f) = f.offset + f.size
  BY SchemaAssumption DEF FieldEnd
<1>2. ASSUME NEW i, NEW span \in ExtractField(schema, i, len)
      PROVE  span \subseteq 0..len - 1
  <2> DEFINE S == {f \in ToSet(fields) : f.id = i}
             named == Kept(fields, S)
  <2>1. named \in Seq(Fields)
    BY KeptElements
  <2>2. ExtractField(schema, i, len) =
          IF named = <<>> \/ FieldEnd(named[1]) > len THEN {}
          ELSE {named[1].offset..FieldEnd(named[1]) - 1}
    BY DEF ExtractField
  <2> HIDE DEF named, schema
  <2>3. named # <<>> /\ ~(FieldEnd(named[1]) > len) /\ span = named[1].offset..FieldEnd(named[1]) - 1
    BY <1>2, <2>2
  <2>4. named[1] \in Fields
    BY <2>1, <2>3
  <2> DEFINE a == named[1].offset
             b == FieldEnd(named[1])
  <2>5. a \in Nat /\ b \in Nat /\ b <= len /\ span = a..b - 1
    BY <1>1, <2>3, <2>4
  <2> HIDE DEF a, b
  <2> QED
    BY <2>5
<1>3. ASSUME NEW k \in DOMAIN fields, FieldEnd(fields[k]) <= len
      PROVE  ExtractField(one(k), fields[k].id, len) # {}
  <2> DEFINE S == {f \in ToSet(<<fields[k]>>) : f.id = fields[k].id}
  <2>1. fields[k] \in S
    BY DEF ToSet
  <2>2. one(k).fields = <<fields[k]>>
    OBVIOUS
  <2>3. Kept(one(k).fields, {f \in ToSet(one(k).fields) : f.id = fields[k].id}) = <<fields[k]>>
    BY <2>1, <2>2, KeptOfOne
  <2> HIDE DEF one
  <2>4. fields[k] \in Fields
    OBVIOUS
  <2>5. FieldEnd(fields[k]) \in Nat
    BY <1>1, <2>4
  <2> DEFINE x == fields[k]
  <2>6. ExtractField(one(k), x.id, len) = {x.offset..FieldEnd(x) - 1}
    <3>1. <<x>> # <<>> /\ <<x>>[1] = x /\ ~(FieldEnd(x) > len)
      BY <1>3, <2>5
    <3> QED
      BY <2>3, <3>1 DEF ExtractField
  <2> QED
    BY <2>6
<1>4. ASSUME ValidateRecord(schema, len), NEW k \in DOMAIN fields, uncut \/ fields[k].required
      PROVE  FieldEnd(fields[k]) <= len
  <2>1. len >= RecordSize(fields) /\ (fields[k].required => FieldEnd(fields[k]) <= len)
    BY <1>4 DEF ValidateRecord
  <2>2. CASE uncut
    <3>1. FieldEnd(fields[k]) <= RecordSize(fields)
      BY <2>2, UncutIsCovered
    <3>2. FieldEnd(fields[k]) \in Nat /\ RecordSize(fields) \in Nat
      <4>1. fields[k] \in Fields
        OBVIOUS
      <4> QED
        BY <1>1, <4>1, RecordSizeBounded
    <3> QED
      BY <2>1, <3>1, <3>2
  <2> QED
    BY <1>4, <2>1, <2>2
<1> QED
  BY <1>2, <1>3, <1>4 DEF FieldsStayInside

\* The powers of two that the bits of a word need.
LEMMA Powers == \A i \in 0..31 : 2^i \in Nat \ {0} /\ 2^(i + 1) = 2 * 2^i
<1> DEFINE P == [i \in 0..32 |-> 2^i]
<1>1. /\ P[0] = 1 /\ P[1] = 2 /\ P[2] = 4 /\ P[3] = 8 /\ P[4] = 16 /\ P[5] = 32 /\ P[6] = 64
      /\ P[7] = 128 /\ P[8] = 256 /\ P[9] = 512 /\ P[10] = 1024
  BY SMT
<1>2. /\ P[10] = 1024 /\ P[11] = 2048 /\ P[12] = 4096 /\ P[13] = 8192 /\ P[14] = 16384
      /\ P[15] = 32768 /\ P[16] = 65536 /\ P[17] = 131072 /\ P[18] = 262144 /\ P[19] = 524288
      /\ P[20] = 1048576
  BY SMT
<1>3. /\ P[20] = 1048576 /\ P[21] = 2097152 /\ P[22] = 4194304 /\ P[23] = 8388608
      /\ P[24] = 16777216 /\ P[25] = 33554432 /\ P[26] = 67108864 /\ P[27] = 134217728
      /\ P[28] = 268435456 /\ P[29] = 536870912 /\ P[30] = 1073741824 /\ P[31] = 2147483648
      /\ P[32] = 4294967296
  BY SMT
<1>4. \A i \in 0..32 : P[i] = 2^i
  OBVIOUS
<1> HIDE DEF P
<1>5. \A i \in 0..9 : P[i] \in Nat \ {0} /\ P[i + 1] = 2 * P[i]
  BY <1>1, SMT
<1>6. \A i \in 10..19 : P[i] \in Nat \ {0} /\ P[i + 1] = 2 * P[i]
  BY <1>2, SMT
<1>7. \A i \in 20..31 : P[i] \in Nat \ {0} /\ P[i + 1] = 2 * P[i]
  BY <1>3, SMT
<1>8. \A i \in 0..31 : P[i] \in Nat \ {0} /\ P[i + 1] = 2 * P[i]
  BY <1>5, <1>6, <1>7
<1>9. ASSUME NEW i \in 0..31 PROVE 2^i \in Nat \ {0} /\ 2^(i + 1) = 2 * 2^i
  <2>1. i \in 0..32 /\ i + 1 \in 0..32
    OBVIOUS
  <2>2. P[i] = 2^i
    BY <1>4, <2>1
  <2>3. P[i + 1] = 2^(i + 1)
    BY <1>4, <2>1, Zenon
  <2> QED
    BY <1>8, <2>2, <2>3, Zenon
<1> QED
  BY <1>9

\* Powers of two that literals stand for.
LEMMA PowersAre ==
  /\ 2^0 = 1 /\ 2^7 = 128 /\ 2^8 = 256 /\ 2^30 = 1073741824 /\ 2^31 = 2147483648
  BY SMT

\* A number is divided by its quotient and remainder.
LEMMA QuotientIs ==
  ASSUME NEW W \in Nat \ {0}, NEW k \in Int, NEW r \in 0..W - 1
  PROVE  (k * W + r) \div W = k
<1> DEFINE n == k * W + r
           d == n \div W
           s == n % W
<1>1. k * W \in Int /\ n \in Int
  OBVIOUS
<1>2. n = d * W + s /\ d \in Int /\ s \in 0..W - 1
  BY <1>1
<1> HIDE DEF d, s
<1>3. k * W + r = d * W + s /\ d * W \in Int
  BY <1>1, <1>2
<1> QED
  BY <1>1, <1>2, <1>3

\* Half of what a power of two leaves is what the next one leaves.
LEMMA HalfAgain ==
  ASSUME NEW n \in Nat, NEW p \in Nat \ {0}
  PROVE  /\ n \div p \in Nat /\ n \div (2 * p) = (n \div p) \div 2
         /\ n \div p = 2 * (n \div (2 * p)) + ((n \div p) % 2)
<1> DEFINE q == n \div p
           r == n % p
           h == q \div 2
           b == q % 2
<1>1. n = q * p + r /\ q \in Nat /\ r \in 0..p - 1
  OBVIOUS
<1> HIDE DEF q, r
<1>2. q = 2 * h + b /\ h \in Nat /\ b \in {0, 1}
  BY <1>1
<1> HIDE DEF h, b
<1> DEFINE hp == h * p
           t == b * p + r
<1>3. hp \in Nat /\ t \in 0..2 * p - 1 /\ q * p = 2 * hp + b * p
  <2>1. CASE b = 0
    BY <1>1, <1>2, <2>1
  <2>2. CASE b = 1
    BY <1>1, <1>2, <2>2
  <2> QED
    BY <1>2, <2>1, <2>2
<1>4. n = h * (2 * p) + t
  BY <1>1, <1>2, <1>3
<1> HIDE DEF t, hp
<1>5. (h * (2 * p) + t) \div (2 * p) = h
  BY <1>2, <1>3, QuotientIs
<1>6. n \div (2 * p) = h
  BY <1>4, <1>5
<1> QED
  BY <1>1, <1>2, <1>6 DEF q, h, b

\* A smaller number is divided to 0.
LEMMA NoQuotient == ASSUME NEW p \in Nat \ {0}, NEW n \in 0..p - 1 PROVE n \div p = 0
<1>1. (0 * p + n) \div p = 0
  BY QuotientIs
<1> QED
  BY <1>1

\* Numbers with the same bits are the same.
LEMMA BitsTellApart ==
  ASSUME NEW width \in 0..32, NEW n \in 0..2^width - 1, NEW m \in 0..2^width - 1,
         Bits(n, width) = Bits(m, width)
  PROVE  n = m
<1> DEFINE T == {k \in Nat : k <= width => n \div 2^(width - k) = m \div 2^(width - k)}
<1>1. n \in Nat /\ m \in Nat /\ 2^width \in Nat \ {0}
  BY Powers
<1>2. 0 \in T
  BY <1>1, NoQuotient
<1>3. ASSUME NEW k \in Nat, k \in T PROVE k + 1 \in T
  <2> SUFFICES ASSUME k + 1 <= width
               PROVE  n \div 2^(width - (k + 1)) = m \div 2^(width - (k + 1))
    OBVIOUS
  <2> DEFINE i == width - (k + 1)
             p == 2^i
  <2>1. i \in 0..31 /\ i \in 0..width - 1 /\ i + 1 = width - k
    OBVIOUS
  <2>2. p \in Nat \ {0} /\ 2^(width - k) = 2 * p
    BY <2>1, Powers
  <2>3. n \div (2 * p) = m \div (2 * p)
    BY <1>3, <2>2
  <2>4. (n \div p) % 2 = 1 <=> (m \div p) % 2 = 1
    <3>1. i \in Bits(n, width) <=> i \in Bits(m, width)
      OBVIOUS
    <3> QED
      BY <2>1, <3>1 DEF Bits
  <2> HIDE DEF p
  <2>5. /\ n \div p \in Nat /\ m \div p \in Nat
        /\ n \div p = 2 * (n \div (2 * p)) + ((n \div p) % 2)
        /\ m \div p = 2 * (m \div (2 * p)) + ((m \div p) % 2)
    BY <1>1, <2>2, HalfAgain
  <2>6. n \div p = m \div p
    BY <2>3, <2>4, <2>5
  <2> QED
    BY <2>6 DEF p
<1>4. width \in T
  <2> HIDE DEF T
  <2>1. Nat \subseteq T
    BY <1>2, <1>3, SetInduction
  <2> QED
    BY <2>1
<1>5. n \div 2^0 = m \div 2^0
  BY <1>4
<1> QED
  BY <1>5, PowersAre

\* A sum of words tells what was added to the same word.
LEMMA SumsTellApart ==
  ASSUME NEW x, NEW y, NEW z, x \subseteq 0..31, y \subseteq 0..31, z \subseteq 0..31, x # y
  PROVE  Plus(x, z) # Plus(y, z)
<1> DEFINE D == Xor(x, y)
<1>1. D \subseteq Nat /\ D # {} /\ D \subseteq 0..31
  BY DEF Xor
<1>2. PICK i \in D : \A j \in D : i <= j
  <2> HIDE DEF D
  <2> QED
    BY <1>1, LeastNatural
<1>3. i \in x <=> i \notin y
  BY DEF Xor
<1>4. ASSUME NEW j \in 0..31, j < i PROVE j \in x <=> j \in y
  <2>1. j \notin D
    BY <1>1, <1>2, <1>4
  <2> QED
    BY <2>1 DEF Xor
<1>5. i \in 0..31
  BY <1>1
<1> HIDE DEF D
<1>6. ASSUME NEW v, NEW w, v \subseteq 0..31, w \subseteq 0..31, i \in Carries(v, z),
             \A j \in 0..31 : j < i => (j \in v <=> j \in w)
      PROVE  i \in Carries(w, z)
  <2>1. i \in 1..WORD - 1
    BY <1>6 DEF Carries
  <2>2. PICK j \in v \cap z : j < i /\ j + 1..i - 1 \subseteq v \cup z
    BY <1>6 DEF Carries
  <2>3. j \in 0..31
    BY <1>6
  <2>4. j \in w \cap z
    BY <1>6, <2>2, <2>3
  <2>5. ASSUME NEW k \in j + 1..i - 1 PROVE k \in w \cup z
    <3>1. k \in 0..31 /\ k < i
      BY <1>5, <2>3
    <3>2. k \in v \cup z
      BY <2>2
    <3> QED
      BY <1>6, <3>1, <3>2
  <2> QED
    BY <2>1, <2>2, <2>4, <2>5 DEF Carries
<1>7. i \in Carries(x, z) <=> i \in Carries(y, z)
  BY <1>4, <1>6
<1> QED
  BY <1>3, <1>7 DEF Plus, Xor

\* Different numbers of 31 bits have different words.
LEMMA WordsOfNumbers ==
  ASSUME NEW n \in 0..2^30, NEW m \in 0..2^30, n # m
  PROVE  WordOf(n) # WordOf(m)
<1> DEFINE width == 31
<1>1. n \in 0..2^width - 1 /\ m \in 0..2^width - 1 /\ width \in 0..32
  BY PowersAre, SMT
<1> HIDE DEF width
<1>2. Bits(n, width) # Bits(m, width)
  BY <1>1, BitsTellApart
<1> QED
  BY <1>2 DEF WordOf, width

\* Words of numbers stay below the sign.
LEMMA WordsAreBits == ASSUME NEW n \in Int PROVE WordOf(n) \subseteq 0..30
  BY DEF WordOf, Bits

\* 0 has no bits.
LEMMA WordOfNone == WordOf(0) = {}
<1>1. ASSUME NEW i \in 0..30 PROVE ~((0 \div 2^i) % 2 = 1)
  <2> DEFINE p == 2^i
  <2>1. p \in Nat \ {0}
    <3>1. i \in 0..31
      OBVIOUS
    <3> QED
      BY <3>1, Powers
  <2> HIDE DEF p
  <2>2. 0 \in 0..p - 1
    BY <2>1
  <2>3. 0 \div p = 0
    BY <2>1, <2>2, NoQuotient
  <2>4. ~((0 \div p) % 2 = 1)
    BY <2>3
  <2> QED
    BY <2>4 DEF p
<1>2. 31 - 1 = 30
  OBVIOUS
<1> QED
  BY <1>1, <1>2, Zenon DEF WordOf, Bits

\* Different words combined with the same word stay different (filter_engine.cpp).
LEMMA CombinedTellApart ==
  ASSUME NEW n \in 0..9, NEW v, NEW w, v \subseteq 0..30, w \subseteq 0..30, v # w
  PROVE  filter_combine(n, v, w) # filter_combine(n, w, w)
<1> DEFINE k == WordOf(n)
           x == Xor(v, k)
           y == Xor(w, k)
           z == Shr(w, n % 8)
<1>1. k \subseteq 0..30
  BY WordsAreBits
<1> HIDE DEF k
<1>2. x # y /\ x \subseteq 0..31 /\ y \subseteq 0..31
  BY <1>1 DEF Xor
<1>3. z \subseteq 0..31
  <2> DEFINE s == n % 8
  <2>1. s \in 0..7
    OBVIOUS
  <2> HIDE DEF s
  <2>2. \A i \in w : i \in 0..30
    OBVIOUS
  <2> QED
    BY <2>1, <2>2 DEF Shr
<1> HIDE DEF x, y, z
<1>4. Plus(x, z) # Plus(y, z)
  BY <1>2, <1>3, SumsTellApart
<1> QED
  BY <1>4 DEF filter_combine, x, y, z, k

\* A set of one element has one element.
LEMMA OneOfThem == ASSUME NEW S, NEW x, S = {x} PROVE Cardinality(S) = 1
  BY FS_Singleton

\* The operators of a filter agree with each other, on any record of numbers.
LEMMA OperatorsAgree ==
  ASSUME NEW record \in Seq(Int), NEW field \in Nat, NEW a \in 0..2^30, NEW b \in 0..2^30
  PROVE  OperatorsConsistent(record, field, a, b)
<1> DEFINE val == FieldValue(record, field)
           c(op) == [field |-> field, op |-> op, a |-> a, b |-> b, mask |-> b]
           holds(op) == ConditionHolds(c(op), record)
           masked == WordOf(val) \cap WordOf(b)
<1>1. val \in Int
  BY DEF FieldValue
<1>2. a \in Int /\ b \in Int
  BY PowersAre, SMT
<1>3. /\ holds("Equal") <=> val = a
      /\ holds("NotEqual") <=> val # a
      /\ holds("GreaterThan") <=> val > a
      /\ holds("LessThan") <=> val < a
      /\ holds("GreaterOrEqual") <=> val >= a
      /\ holds("LessOrEqual") <=> val <= a
      /\ holds("BitMask") <=> masked = WordOf(a)
      /\ holds("BitSet") <=> masked # {}
      /\ holds("InRange") <=> val >= a /\ val <= b
  BY DEF ConditionHolds
<1>4. filter_normalize(val, a, b) <=> ~(val < a) /\ ~(val > b)
  BY DEF filter_normalize
<1> HIDE DEF val, holds, masked
<1>5. Cardinality({op \in {"Equal", "LessThan", "GreaterThan"} : holds(op)}) = 1
  <2>1. \/ holds("Equal") /\ ~holds("LessThan") /\ ~holds("GreaterThan")
        \/ ~holds("Equal") /\ holds("LessThan") /\ ~holds("GreaterThan")
        \/ ~holds("Equal") /\ ~holds("LessThan") /\ holds("GreaterThan")
    <3>1. \/ val = a /\ ~(val < a) /\ ~(val > a)
          \/ val # a /\ val < a /\ ~(val > a)
          \/ val # a /\ ~(val < a) /\ val > a
      BY <1>1, <1>2
    <3> QED
      BY <1>3, <3>1
  <2> HIDE DEF c
  <2>2. \E x : {op \in {"Equal", "LessThan", "GreaterThan"} : holds(op)} = {x}
    BY <2>1
  <2> QED
    BY <2>2, OneOfThem
<1>6. Cardinality({op \in {"Equal", "NotEqual"} : holds(op)}) = 1
  <2>1. {op \in {"Equal", "NotEqual"} : holds(op)} = {IF val = a THEN "Equal" ELSE "NotEqual"}
    BY <1>3
  <2> QED
    BY <2>1, OneOfThem
<1>7. ASSUME holds("BitMask"), a # 0 PROVE holds("BitSet")
  <2>1. 0 \in 0..2^30
    BY PowersAre, SMT
  <2>2. WordOf(a) # {}
    BY <1>7, <2>1, WordsOfNumbers, WordOfNone
  <2> QED
    BY <1>3, <1>7, <2>2
<1>8. ASSUME NEW n \in 0..9, a # b
      PROVE  filter_combine(n, WordOf(a), WordOf(b)) # filter_combine(n, WordOf(b), WordOf(b))
  <2>1. WordOf(a) # WordOf(b)
    BY <1>8, WordsOfNumbers
  <2>2. WordOf(a) \subseteq 0..30 /\ WordOf(b) \subseteq 0..30
    BY <1>2, WordsAreBits
  <2> QED
    BY <2>1, <2>2, CombinedTellApart
<1>9. /\ holds("GreaterOrEqual") <=> ~holds("LessThan")
      /\ holds("LessOrEqual") <=> ~holds("GreaterThan")
      /\ holds("InRange") <=> filter_normalize(val, a, b)
  <2>1. /\ val >= a <=> ~(val < a)
        /\ val <= a <=> ~(val > a)
        /\ val <= b <=> ~(val > b)
    BY <1>1, <1>2
  <2> QED
    BY <1>3, <1>4, <2>1
<1> QED
  BY <1>5, <1>6, <1>7, <1>8, <1>9 DEF OperatorsConsistent, val, holds

\* Quotients that are cut towards 0 are integers; by 1 they are the number itself.
LEMMA QuotientsAre ==
  ASSUME NEW a \in Int, NEW b \in Int \ {0}
  PROVE  /\ Quotient(a, b) \in Int
         /\ a >= 0 /\ b > 0 => Quotient(a, b) = a \div b /\ Quotient(a, b) \in Nat
         /\ b = 1 => Quotient(a, b) = a
<1> DEFINE q == Magnitude(a) \div Magnitude(b)
<1>1. Magnitude(a) \in Nat /\ Magnitude(b) \in Nat \ {0}
  BY DEF Magnitude
<1>2. q \in Nat
  BY <1>1
<1>3. Quotient(a, b) = IF (a < 0) = (b < 0) THEN q ELSE -q
  BY DEF Quotient
<1>4. a >= 0 /\ b > 0 => q = a \div b
  BY DEF Magnitude
<1>5. b = 1 => q = Magnitude(a)
  <2> SUFFICES ASSUME b = 1 PROVE q = Magnitude(a)
    OBVIOUS
  <2>1. Magnitude(b) = 1
    BY DEF Magnitude
  <2> QED
    BY <1>1, <2>1
<1> HIDE DEF q
<1>6. b = 1 => Quotient(a, b) = a
  BY <1>3, <1>5 DEF Magnitude
<1> QED
  BY <1>2, <1>3, <1>4, <1>6

\* What is stored of a quotient is an integer, and of a whole number within one of it.
LEMMA StoredIs ==
  ASSUME NEW num \in Int, NEW den \in Int \ {0}
  PROVE  /\ Stored(num, den) \subseteq Int
         /\ den = 1 => Stored(num, den) \subseteq num - 1..num + 1
<1> DEFINE q == Quotient(num, den)
<1>1. q \in Int /\ (den = 1 => q = num)
  BY QuotientsAre
<1>2. Stored(num, den) \subseteq {q - 1, q, q + 1}
  BY DEF Stored
<1> HIDE DEF q
<1> QED
  BY <1>1, <1>2

\* The digits of a number, from the highest one down.
LEMMA NumberIs ==
  ASSUME NEW w
  PROVE  \E above \in [0..32 -> Nat] :
           /\ above[32] = 0
           /\ \A i \in 0..31 : above[i] = 2 * above[i + 1] + (IF i \in w THEN 1 ELSE 0)
           /\ Number(w) = above[0]
<1> DEFINE bit(i) == IF i \in w THEN 1 ELSE 0
           step(f, i) == IF i = 32 THEN 0 ELSE 2 * f[i + 1] + bit(i)
           F == [p \in Nat \X (0..31) |-> 2 * p[1] + bit(p[2])]
           q == [k \in 1..32 |-> 32 - k]
           above == CHOOSE f : f = [i \in 0..32 |-> step(f, i)]
<1>1. \A i \in 0..31 : bit(i) \in Nat
  OBVIOUS
<1> HIDE DEF bit
<1>2. F \in [Nat \X (0..31) -> Nat]
  BY <1>1
<1>3. \A n \in Nat, i \in 0..31 : F[<<n, i>>] = 2 * n + bit(i)
  OBVIOUS
<1>4. q \in Seq(0..31) /\ Len(q) = 32 /\ \A k \in 1..32 : q[k] = 32 - k
  <2>1. q \in [1..32 -> 0..31]
    OBVIOUS
  <2> QED
    BY <2>1
<1> HIDE DEF F, q
<1>5. PICK g \in [0..32 -> Nat] : IsLoop(g, F, 0, q)
  BY <1>2, <1>4, Iterates
<1> DEFINE h == [i \in 0..32 |-> g[32 - i]]
<1>6. ASSUME NEW i \in 0..32 PROVE h[i] = step(h, i)
  <2>1. CASE i = 32
    BY <1>5, <2>1 DEF IsLoop
  <2>2. CASE i # 32
    <3> DEFINE k == 32 - i
    <3>1. k \in 1..32 /\ k - 1 \in 0..32 /\ 32 - (i + 1) = k - 1 /\ i + 1 \in 0..32 /\ 32 - k = i /\ i \in 0..31
      BY <2>2
    <3>2. h[i] = g[k] /\ h[i + 1] = g[k - 1]
      BY <3>1
    <3> HIDE DEF h, k
    <3>3. g[k] = F[<<g[k - 1], q[k]>>] /\ q[k] = i /\ g[k - 1] \in Nat
      BY <1>4, <1>5, <3>1 DEF IsLoop
    <3> QED
      BY <1>3, <2>2, <3>1, <3>2, <3>3
  <2> QED
    BY <2>1, <2>2
<1>7. h = [i \in 0..32 |-> step(h, i)]
  <2>1. h = [i \in 0..32 |-> h[i]]
    BY SMTT(30)
  <2> HIDE DEF h, step
  <2> QED
    BY <1>6, <2>1
<1> HIDE DEF h
<1>8. above = [i \in 0..32 |-> step(above, i)]
  BY <1>7, ZenonT(60)
<1>9. Number(w) = above[0]
  BY DEF Number, WORD, bit
<1> HIDE DEF above
<1>10. \A i \in 0..32 : above[i] = step(above, i)
  BY <1>8
<1>11. above[32] = 0 /\ \A i \in 0..31 : above[i] = 2 * above[i + 1] + bit(i)
  BY <1>10
<1> DEFINE T == {n \in Nat : n <= 32 => above[32 - n] \in Nat}
<1>12. 0 \in T
  BY <1>11
<1>13. ASSUME NEW n \in Nat, n \in T PROVE n + 1 \in T
  <2> SUFFICES ASSUME n + 1 <= 32 PROVE above[32 - (n + 1)] \in Nat
    OBVIOUS
  <2> DEFINE i == 32 - (n + 1)
  <2>1. i \in 0..31 /\ i + 1 = 32 - n
    OBVIOUS
  <2>2. above[i + 1] \in Nat
    BY <1>13, <2>1
  <2> HIDE DEF i
  <2>3. above[i] \in Nat
    BY <1>1, <1>11, <2>1, <2>2
  <2> QED
    BY <2>3 DEF i
<1>14. Nat \subseteq T
  <2> HIDE DEF T
  <2> QED
    BY <1>12, <1>13, SetInduction
<1>15. \A i \in 0..32 : above[i] \in Nat
  <2> SUFFICES ASSUME NEW i \in 0..32 PROVE above[i] \in Nat
    OBVIOUS
  <2>1. 32 - i \in Nat /\ 32 - i <= 32 /\ 32 - (32 - i) = i
    OBVIOUS
  <2>2. 32 - i \in T
    BY <1>14, <2>1
  <2> QED
    BY <2>1, <2>2
<1>16. above \in [0..32 -> Nat]
  BY <1>8, <1>15
<1> QED
  BY <1>9, <1>11, <1>16 DEF bit

\* Fields of records of integers are integers.
LEMMA FieldsAreInts == ASSUME NEW record \in Seq(Int), NEW f \in Nat PROVE Field(record, f) \in Int
  BY DEF Field

\* Writing a field leaves the others, and zeros in between.
LEMMA WrittenIs ==
  ASSUME NEW record \in Seq(Int), NEW f \in Nat, NEW v \in Int
  PROVE  /\ Written(record, f, v) \in Seq(Int)
         /\ Len(Written(record, f, v)) = IF f < Len(record) THEN Len(record) ELSE f + 1
         /\ Written(record, f, v)[f + 1] = v
         /\ \A g \in 0..Len(Written(record, f, v)) - 1 :
              g # f => Written(record, f, v)[g + 1] = Field(record, g)
<1> DEFINE n == Max({Len(record), f + 1})
           w == [i \in 1..n |-> IF i = f + 1 THEN v ELSE Field(record, i - 1)]
<1>1. Len(record) \in Nat
  OBVIOUS
<1>2. n = IF f < Len(record) THEN Len(record) ELSE f + 1
  <2>1. Len(record) \in Int /\ f + 1 \in Int
    OBVIOUS
  <2>2. n \in {Len(record), f + 1} /\ Len(record) <= n /\ f + 1 <= n
    BY <2>1, MinMaxOfTwo, Zenon
  <2> HIDE DEF n
  <2> QED
    BY <2>1, <2>2
<1> HIDE DEF n
<1>3. n \in Nat /\ f + 1 \in 1..n
  BY <1>1, <1>2
<1>4. \A i \in 1..n : (IF i = f + 1 THEN v ELSE Field(record, i - 1)) \in Int
  BY <1>3, FieldsAreInts
<1>5. w \in [1..n -> Int]
  BY <1>4
<1>6. w \in Seq(Int) /\ Len(w) = n
  BY <1>3, <1>5
<1>7. w[f + 1] = v /\ \A g \in 0..n - 1 : g # f => w[g + 1] = Field(record, g)
  BY <1>3
<1>8. Written(record, f, v) = w
  BY DEF Written, n
<1> HIDE DEF w
<1> QED
  BY <1>2, <1>6, <1>7, <1>8

\* The greatest number of a set is the one that no other exceeds.
LEMMA MaxIs ==
  ASSUME NEW S, S \subseteq Int, NEW x \in S, \A y \in S : y <= x
  PROVE  Max(S) = x
<1>1. \A y \in S : x >= y
  OBVIOUS
<1>2. ASSUME NEW z \in S, \A y \in S : z >= y PROVE z = x
  BY <1>2
<1> QED
  BY <1>1, <1>2, Zenon DEF Max

\* The parameters of a stage are numbers (transform_pipeline.cpp).
LEMMA StageParameters ==
  ASSUME NEW s \in TransformStages
  PROVE  s.in \in Nat /\ s.out \in Nat /\ s.a \in Int /\ s.b \in Int /\ s.c \in Int
  BY TransformAssumption

\* What is clamped lies within its bounds but for one thousandth (transform_pipeline.cpp).
LEMMA ClampedIs ==
  ASSUME NEW s \in TransformStages, NEW v \in Int, s.type = "Clamp"
  PROVE  /\ StageResults(s, v) \subseteq Int
         /\ s.a <= s.b => StageResults(s, v) \subseteq s.a - 1..s.b + 1
<1> DEFINE lo == Min({s.b, v})
           x == Max({s.a, lo})
<1>1. s.a \in Int /\ s.b \in Int
  BY StageParameters
<1>2. lo \in {s.b, v} /\ lo <= s.b
  BY <1>1, MinMaxOfTwo, Zenon
<1> HIDE DEF lo
<1>3. lo \in Int
  BY <1>1, <1>2
<1>4. x \in {s.a, lo} /\ s.a <= x
  BY <1>1, <1>3, MinMaxOfTwo, Zenon
<1>5. StageResults(s, v) = Stored(x, 1)
  BY DEF StageResults, lo
<1> HIDE DEF x
<1>6. x \in Int /\ (s.a <= s.b => x <= s.b)
  BY <1>1, <1>2, <1>3, <1>4
<1>7. Stored(x, 1) \subseteq Int /\ Stored(x, 1) \subseteq x - 1..x + 1
  BY <1>6, StoredIs
<1> QED
  BY <1>1, <1>4, <1>5, <1>6, <1>7

\* Bytes that are swapped give a number.
LEMMA SwappedIsNumber == ASSUME NEW v PROVE SwapBytes(v) \in Int
<1>1. \A w : Number(w) \in Nat
  BY NumberIs
<1> QED
  BY <1>1 DEF SwapBytes, AsNumber

\* Whatever a stage makes of a number is a number.
LEMMA ResultsAreNumbers ==
  ASSUME NEW s \in TransformStages, NEW v \in Int
  PROVE  StageResults(s, v) \subseteq Int
<1>1. s.a \in Int /\ s.b \in Int /\ s.c \in Int
  BY StageParameters
<1>2. CASE s.type = "Scale"
  <2>1. v * s.a \in Int
    BY <1>1
  <2>2. StageResults(s, v) = Stored(v * s.a, 1000)
    BY <1>2 DEF StageResults
  <2> QED
    BY <2>1, <2>2, StoredIs
<1>3. CASE s.type = "Offset"
  <2>1. StageResults(s, v) = Stored(v + s.a, 1)
    BY <1>3 DEF StageResults
  <2> QED
    BY <1>1, <2>1, StoredIs
<1>4. CASE s.type = "Clamp"
  BY <1>4, ClampedIs
<1>5. CASE s.type = "MapRange"
  <2> DEFINE num == s.c * (s.b - s.a) + (v - s.a) * (s.b - s.c)
  <2>1. StageResults(s, v) = IF s.a = s.b THEN {0} ELSE Stored(num, s.b - s.a)
    BY <1>5 DEF StageResults
  <2>2. num \in Int
    BY <1>1
  <2> HIDE DEF num
  <2>3. s.a # s.b => s.b - s.a \in Int \ {0}
    BY <1>1
  <2> QED
    BY <2>1, <2>2, <2>3, StoredIs
<1>6. CASE s.type = "Interpolate"
  <2>1. v * s.a + s.b * (1000 - s.a) \in Int
    BY <1>1
  <2>2. StageResults(s, v) = Stored(v * s.a + s.b * (1000 - s.a), 1000)
    BY <1>6 DEF StageResults
  <2> QED
    BY <2>1, <2>2, StoredIs
<1>7. CASE s.type = "BitShift"
  <2> DEFINE n == Quotient(s.a, 1000)
             p == 2^n
  <2>1. CASE s.a <= -1000
    <3>1. StageResults(s, v) = {0}
      BY <1>7, <2>1 DEF StageResults
    <3> QED
      BY <3>1
  <2>2. CASE ~(s.a <= -1000)
    <3>1. StageResults(s, v) = UNION {Stored(i * p, 1) : i \in Stored(v, 1)}
      BY <1>7, <2>2 DEF StageResults
    <3>2. n \in Nat
      <4>1. CASE s.a >= 0
        BY <1>1, <4>1, QuotientsAre
      <4>2. CASE s.a < 0
        <5>1. (-s.a) \div 1000 = 0
          BY <1>1, <2>2, <4>2
        <5>2. n = 0
          BY <4>2, <5>1 DEF Quotient, Magnitude
        <5> QED
          BY <5>2
      <4> QED
        BY <1>1, <4>1, <4>2
    <3> HIDE DEF n
    <3>3. p \in Int
      BY <3>2
    <3> HIDE DEF p
    <3>4. ASSUME NEW i \in Stored(v, 1) PROVE Stored(i * p, 1) \subseteq Int
      <4>1. i \in Int
        BY StoredIs
      <4>2. i * p \in Int
        BY <3>3, <4>1
      <4> QED
        BY <4>2, StoredIs
    <3> QED
      BY <3>1, <3>4
  <2> QED
    BY <2>1, <2>2
<1>8. CASE s.type = "SwapEndian"
  <2>1. StageResults(s, v) = Stored(SwapBytes(v), 1)
    BY <1>8 DEF StageResults
  <2> QED
    BY <2>1, StoredIs, SwappedIsNumber
<1>9. CASE s.type \notin {"Scale", "Offset", "Clamp", "MapRange", "Interpolate", "BitShift", "SwapEndian"}
  <2>1. StageResults(s, v) = Stored(v, 1)
    BY <1>9 DEF StageResults
  <2> QED
    BY <2>1, StoredIs
<1> QED
  BY <1>2, <1>3, <1>4, <1>5, <1>6, <1>7, <1>8, <1>9

\* The records that one stage may leave.
AfterStage(outs, s) ==
  UNION {{Written(o, s.out, v) : v \in StageResults(s, Field(o, s.in))} : o \in outs}

\* Stages are applied one after the other.
LEMMA AppliedIs ==
  ASSUME NEW q \in Seq(TransformStages), NEW record \in Seq(Int)
  PROVE  \E f \in [0..Len(q) -> SUBSET Seq(Int)] :
           /\ f[0] = {record}
           /\ \A i \in 1..Len(q) : f[i] = AfterStage(f[i - 1], q[i])
           /\ Applied(q, record) = f[Len(q)]
<1> DEFINE A == SUBSET Seq(Int)
           F == [outs \in A |-> [s \in TransformStages |-> AfterStage(outs, s)]]
<1>1. Applied(q, record) = Loop(F, {record}, q)
  BY DEF Applied, AfterStage
<1>2. ASSUME NEW outs \in A, NEW s \in TransformStages PROVE AfterStage(outs, s) \in A
  <2> SUFFICES ASSUME NEW o \in outs, NEW v \in StageResults(s, Field(o, s.in))
               PROVE  Written(o, s.out, v) \in Seq(Int)
    BY DEF AfterStage
  <2>1. o \in Seq(Int) /\ s.in \in Nat /\ s.out \in Nat
    BY StageParameters
  <2>2. v \in Int
    BY <2>1, FieldsAreInts, ResultsAreNumbers
  <2> QED
    BY <2>1, <2>2, WrittenIs
<1>3. {record} \in A
  OBVIOUS
<1> HIDE DEF A
<1>4. F \in Steps(A, TransformStages)
  BY <1>2 DEF Steps
<1>5. \A outs \in A, s \in TransformStages : F[outs][s] = AfterStage(outs, s)
  OBVIOUS
<1> HIDE DEF F
<1>6. PICK f \in [0..Len(q) -> A] : Lists(f, F, {record}, q) /\ Loop(F, {record}, q) = f[Len(q)]
  BY <1>3, <1>4, LoopIs
<1>7. ASSUME NEW i \in 1..Len(q) PROVE f[i] = AfterStage(f[i - 1], q[i])
  <2>1. f[i - 1] \in A /\ q[i] \in TransformStages
    OBVIOUS
  <2>2. f[i] = F[f[i - 1]][q[i]]
    BY <1>6 DEF Lists
  <2> QED
    BY <1>5, <2>1, <2>2
<1> QED
  BY <1>1, <1>6, <1>7 DEF A, Lists

\* What n stages have made of a record: as long as it has to be, and the fields that none of them
\* writes as they were.
Touched(o, record, q, n) ==
  /\ o \in Seq(Int) /\ Len(record) <= Len(o)
  /\ \A k \in 1..n : q[k].out + 1 <= Len(o)
  /\ Len(o) = Len(record) \/ \E k \in 1..n : Len(o) = q[k].out + 1
  /\ \A g \in 0..Len(o) - 1 : (\A k \in 1..n : q[k].out # g) => o[g + 1] = Field(record, g)

\* One stage more touches its output alone, and widens the record to it.
LEMMA StageTouches ==
  ASSUME NEW q \in Seq(TransformStages), NEW record \in Seq(Int), NEW n \in 1..Len(q),
         NEW o, Touched(o, record, q, n - 1), NEW v \in Int
  PROVE  Touched(Written(o, q[n].out, v), record, q, n)
<1> DEFINE f == q[n].out
           w == Written(o, f, v)
<1>1. f \in Nat
  <2>1. q[n] \in TransformStages
    OBVIOUS
  <2> QED
    BY <2>1, StageParameters
<1>2. /\ o \in Seq(Int) /\ Len(record) <= Len(o)
      /\ \A k \in 1..n - 1 : q[k].out + 1 <= Len(o)
      /\ Len(o) = Len(record) \/ \E k \in 1..n - 1 : Len(o) = q[k].out + 1
      /\ \A g \in 0..Len(o) - 1 : (\A k \in 1..n - 1 : q[k].out # g) => o[g + 1] = Field(record, g)
  BY DEF Touched
<1>3. /\ w \in Seq(Int)
      /\ Len(w) = IF f < Len(o) THEN Len(o) ELSE f + 1
      /\ \A g \in 0..Len(w) - 1 : g # f => w[g + 1] = Field(o, g)
  <2> HIDE DEF f
  <2>1. o \in Seq(Int)
    BY <1>2
  <2> QED
    BY <1>1, <2>1, WrittenIs, Zenon
<1> HIDE DEF w
<1>4. Len(o) \in Nat /\ Len(record) \in Nat /\ Len(w) \in Nat
  BY <1>2, <1>3
<1>5. \A k \in 1..n : k \in 1..n - 1 \/ k = n
  OBVIOUS
<1>6. ASSUME NEW k \in 1..n - 1 PROVE q[k].out \in Nat
  <2>1. q[k] \in TransformStages
    OBVIOUS
  <2> QED
    BY <2>1, StageParameters
<1>7. Len(record) <= Len(w) /\ f + 1 <= Len(w) /\ Len(o) <= Len(w)
  BY <1>1, <1>2, <1>3, <1>4
<1>8. ASSUME NEW k \in 1..n PROVE q[k].out + 1 <= Len(w)
  <2>1. CASE k = n
    BY <1>7, <2>1
  <2>2. CASE k \in 1..n - 1
    BY <1>2, <1>4, <1>6, <1>7, <2>2
  <2> QED
    BY <1>5, <2>1, <2>2
<1>9. Len(w) = Len(record) \/ \E k \in 1..n : Len(w) = q[k].out + 1
  <2>1. CASE f < Len(o)
    <3>1. Len(w) = Len(o) /\ \A k \in 1..n - 1 : k \in 1..n
      BY <1>3, <2>1
    <3> QED
      BY <1>2, <3>1
  <2>2. CASE ~(f < Len(o))
    BY <1>3, <2>2
  <2> QED
    BY <2>1, <2>2
<1>10. ASSUME NEW g \in 0..Len(w) - 1, \A k \in 1..n : q[k].out # g
       PROVE  w[g + 1] = Field(record, g)
  <2>1. g # f /\ \A k \in 1..n - 1 : q[k].out # g
    BY <1>10
  <2>2. w[g + 1] = Field(o, g)
    BY <1>3, <2>1
  <2>3. CASE g < Len(o)
    <3>1. g \in 0..Len(o) - 1
      BY <1>4, <2>3
    <3>2. Field(o, g) = o[g + 1]
      BY <2>3 DEF Field
    <3> QED
      BY <1>2, <2>1, <2>2, <3>1, <3>2
  <2>4. CASE ~(g < Len(o))
    <3>1. ~(g < Len(record))
      BY <1>2, <1>4, <2>4
    <3> QED
      BY <2>2, <2>4, <3>1 DEF Field
  <2> QED
    BY <2>3, <2>4
<1>11. Touched(w, record, q, n)
  BY <1>3, <1>7, <1>8, <1>9, <1>10 DEF Touched
<1> QED
  BY <1>11 DEF w

\* Stages touch the fields they name and no others.
LEMMA StagesTouch ==
  ASSUME NEW q \in Seq(TransformStages), NEW record \in Seq(Int)
  PROVE  StagesTouchOutputs(q, record)
<1>1. PICK f \in [0..Len(q) -> SUBSET Seq(Int)] :
             /\ f[0] = {record}
             /\ \A i \in 1..Len(q) : f[i] = AfterStage(f[i - 1], q[i])
             /\ Applied(q, record) = f[Len(q)]
  BY AppliedIs
<1>2. ASSUME NEW n \in 1..Len(q), NEW w \in f[n]
      PROVE  \E o \in f[n - 1] :
               \E v \in StageResults(q[n], Field(o, q[n].in)) : v \in Int /\ w = Written(o, q[n].out, v)
  <2> DEFINE made(x) == StageResults(q[n], Field(x, q[n].in))
  <2>1. PICK o \in f[n - 1] : \E v \in made(o) : w = Written(o, q[n].out, v)
    BY <1>1, <1>2 DEF AfterStage
  <2>2. o \in Seq(Int)
    <3>1. n - 1 \in 0..Len(q)
      OBVIOUS
    <3> QED
      BY <3>1
  <2>3. q[n] \in TransformStages
    OBVIOUS
  <2>4. made(o) \subseteq Int
    BY <2>2, <2>3, StageParameters, FieldsAreInts, ResultsAreNumbers
  <2> QED
    BY <2>1, <2>4
<1> DEFINE T == {n \in Nat : n <= Len(q) => \A o \in f[n] : Touched(o, record, q, n)}
<1>3. 0 \in T
  <2>1. Touched(record, record, q, 0)
    BY DEF Touched, Field
  <2> QED
    BY <1>1, <2>1
<1>4. ASSUME NEW n \in Nat, n \in T PROVE n + 1 \in T
  <2> SUFFICES ASSUME n + 1 <= Len(q), NEW w \in f[n + 1] PROVE Touched(w, record, q, n + 1)
    OBVIOUS
  <2>1. n + 1 \in 1..Len(q) /\ (n + 1) - 1 = n
    OBVIOUS
  <2>2. PICK o \in f[n] : \E v \in Int : w = Written(o, q[n + 1].out, v)
    BY <1>2, <2>1
  <2>3. Touched(o, record, q, n)
    BY <1>4, <2>1
  <2> QED
    BY <2>1, <2>2, <2>3, StageTouches
<1>5. Len(q) \in T
  <2> HIDE DEF T
  <2>1. Nat \subseteq T
    BY <1>3, <1>4, SetInduction
  <2> QED
    BY <2>1
<1>6. \A o \in f[Len(q)] : Touched(o, record, q, Len(q))
  BY <1>5
<1> HIDE DEF T
<1> SUFFICES ASSUME NEW out \in Applied(q, record)
             PROVE  /\ Len(out) = Max({Len(record)} \cup {q[k].out + 1 : k \in DOMAIN q})
                    /\ \A g \in 0..Len(out) - 1 :
                         (\A k \in DOMAIN q : q[k].out # g) => out[g + 1] = Field(record, g)
                    /\ q # <<>> /\ Last(q).type = "Clamp" /\ Last(q).a <= Last(q).b =>
                         out[Last(q).out + 1] \in Last(q).a - 1..Last(q).b + 1
  BY DEF StagesTouchOutputs
<1>7. out \in f[Len(q)] /\ Touched(out, record, q, Len(q)) /\ DOMAIN q = 1..Len(q) /\ Len(q) \in Nat
  BY <1>1, <1>6
<1>8. Len(out) = Max({Len(record)} \cup {q[k].out + 1 : k \in DOMAIN q})
  <2> DEFINE S == {Len(record)} \cup {q[k].out + 1 : k \in DOMAIN q}
  <2>1. ASSUME NEW k \in DOMAIN q PROVE q[k].out + 1 \in Int
    <3>1. q[k] \in TransformStages
      OBVIOUS
    <3> QED
      BY <3>1, StageParameters
  <2>2. S \subseteq Int
    BY <2>1
  <2>3. Len(out) \in S /\ \A y \in S : y <= Len(out)
    BY <1>7 DEF Touched
  <2> HIDE DEF S
  <2>4. Max(S) = Len(out)
    BY <2>2, <2>3, MaxIs
  <2> QED
    BY <2>4 DEF S
<1>9. ASSUME q # <<>>, Last(q).type = "Clamp", Last(q).a <= Last(q).b
      PROVE  out[Last(q).out + 1] \in Last(q).a - 1..Last(q).b + 1
  <2> DEFINE n == Len(q)
             s == q[n]
  <2>1. n \in 1..Len(q) /\ Last(q) = s /\ s \in TransformStages
    BY <1>9 DEF Last
  <2>2. PICK o \in f[n - 1] :
               \E v \in StageResults(s, Field(o, s.in)) : v \in Int /\ out = Written(o, s.out, v)
    BY <1>2, <1>7, <2>1
  <2>3. PICK v \in StageResults(s, Field(o, s.in)) : v \in Int /\ out = Written(o, s.out, v)
    BY <2>2
  <2>4. o \in Seq(Int)
    <3>1. n - 1 \in 0..Len(q)
      BY <2>1
    <3> QED
      BY <3>1
  <2> HIDE DEF n, s
  <2>5. Field(o, s.in) \in Int /\ s.out \in Nat
    BY <2>1, <2>4, StageParameters, FieldsAreInts
  <2>6. v \in s.a - 1..s.b + 1
    BY <1>9, <2>1, <2>3, <2>5, ClampedIs
  <2>7. out[s.out + 1] = v
    BY <2>3, <2>4, <2>5, WrittenIs
  <2> QED
    BY <2>1, <2>6, <2>7
<1> QED
  BY <1>7, <1>8, <1>9 DEF Touched

\* The parameters of a mapping are numbers (field_mapper.cpp).
LEMMA MappingParameters ==
  ASSUME NEW m \in FieldMappings
  PROVE  m.src \in Nat /\ m.dst \in Nat /\ m.scale \in Int /\ m.offset \in Int
  BY MappingAssumption

\* The root that is cut to a whole number is there when the bound leaves room for it.
LEMMA WholeRootIs ==
  ASSUME NEW n \in Nat, NEW bound \in Nat, n < (bound + 1) * (bound + 1)
  PROVE  /\ WholeRoot(n, bound) \in 0..bound
         /\ WholeRoot(n, bound) * WholeRoot(n, bound) <= n
         /\ (WholeRoot(n, bound) + 1) * (WholeRoot(n, bound) + 1) > n
<1> DEFINE T == {k \in Nat : k * k > n}
<1>1. bound + 1 \in T
  <2>1. (bound + 1) * (bound + 1) \in Nat
    OBVIOUS
  <2> QED
    BY <2>1
<1>2. PICK k \in T : \A y \in T : k <= y
  <2>1. T \subseteq Nat /\ T # {}
    BY <1>1
  <2> HIDE DEF T
  <2> QED
    BY <2>1, LeastNatural
<1>3. k \in Nat /\ k # 0 /\ k * k > n /\ k <= bound + 1
  <2>1. 0 * 0 = 0
    OBVIOUS
  <2>2. 0 \notin T
    BY <2>1
  <2> QED
    BY <1>1, <1>2, <2>2
<1> DEFINE r == k - 1
<1>4. r \in 0..bound /\ r + 1 = k
  BY <1>3
<1>5. r \notin T
  BY <1>2, <1>3
<1>6. r * r \in Nat
  BY <1>4
<1>7. r * r <= n /\ (r + 1) * (r + 1) > n
  BY <1>3, <1>4, <1>5, <1>6
<1> HIDE DEF r
<1> QED
  BY <1>4, <1>7, Zenon DEF WholeRoot

\* The bound up to which a root is looked for lies above it.
LEMMA RootsFit ==
  ASSUME NEW v \in Nat
  PROVE  1000 * v < ((v + 1000) \div 2 + 1) * ((v + 1000) \div 2 + 1)
<1> DEFINE c == (v + 1000) \div 2 + 1
<1>1. c \in Nat /\ 2 * c >= v + 1001
  OBVIOUS
<1> HIDE DEF c
<1>2. (2 * c) * (2 * c) >= (v + 1001) * (v + 1001)
  BY <1>1
<1>3. (v + 1001) * (v + 1001) = (v - 1000) * (v - 1000) + 4002 * v + 2001
  OBVIOUS
<1>4. (v - 1000) * (v - 1000) >= 0
  OBVIOUS
<1>5. (2 * c) * (2 * c) = 4 * (c * c) /\ c * c \in Nat
  BY <1>1
<1>6. 4000 * v < 4 * (c * c)
  BY <1>2, <1>3, <1>4, <1>5
<1> QED
  BY <1>5, <1>6 DEF c

\* Whatever a mapping makes of a number is a number.
LEMMA MappingsGiveNumbers ==
  ASSUME NEW m \in FieldMappings, NEW v \in Int
  PROVE  MappingResults(m, v) \subseteq Int
<1>1. m.scale \in Int /\ m.offset \in Int
  BY MappingParameters
<1>2. CASE m.transform = 1
  <2>1. MappingResults(m, v) = Stored(v * m.scale, 1000)
    BY <1>2 DEF MappingResults
  <2>2. v * m.scale \in Int
    BY <1>1
  <2> QED
    BY <2>1, <2>2, StoredIs
<1>3. CASE m.transform = 2
  <2>1. MappingResults(m, v) = Stored(v + m.offset, 1)
    BY <1>3 DEF MappingResults
  <2> QED
    BY <1>1, <2>1, StoredIs
<1>4. CASE m.transform = 3
  <2>1. MappingResults(m, v) = Stored(v * m.scale + 1000 * m.offset, 1000)
    BY <1>4 DEF MappingResults
  <2>2. v * m.scale + 1000 * m.offset \in Int
    BY <1>1
  <2> QED
    BY <2>1, <2>2, StoredIs
<1>5. CASE m.transform = 4
  <2>1. MappingResults(m, v) = IF v <= -1000 THEN {0} ELSE Quotient(1000 * v, 1000 + v)..v
    BY <1>5 DEF MappingResults
  <2>2. v > -1000 => Quotient(1000 * v, 1000 + v) \in Int
    <3>1. v > -1000 => 1000 + v \in Int \ {0}
      OBVIOUS
    <3> QED
      BY <3>1, QuotientsAre
  <2> QED
    BY <2>1, <2>2
<1>6. CASE m.transform = 5
  <2> DEFINE r == WholeRoot(1000 * v, (v + 1000) \div 2)
  <2>1. MappingResults(m, v) \subseteq IF v <= 0 THEN {0} ELSE {r, r - 1}
    BY <1>6 DEF MappingResults
  <2>2. v > 0 => r \in Int
    <3> SUFFICES ASSUME v > 0 PROVE r \in Int
      OBVIOUS
    <3>1. v \in Nat /\ 1000 * v \in Nat /\ (v + 1000) \div 2 \in Nat
      OBVIOUS
    <3> DEFINE n == 1000 * v
               bound == (v + 1000) \div 2
    <3>2. n < (bound + 1) * (bound + 1)
      BY <3>1, RootsFit
    <3> HIDE DEF n, bound
    <3>3. WholeRoot(n, bound) \in 0..bound
      BY <3>1, <3>2, WholeRootIs DEF n, bound
    <3> QED
      BY <3>1, <3>3 DEF n, bound
  <2> QED
    BY <2>1, <2>2
<1>7. CASE m.transform \notin 1..5
  <2>1. MappingResults(m, v) = Stored(v, 1)
    BY <1>7 DEF MappingResults
  <2> QED
    BY <2>1, StoredIs
<1>8. \A x : x \in 1..5 <=> x \in {1, 2, 3, 4, 5}
  OBVIOUS
<1> QED
  BY <1>2, <1>3, <1>4, <1>5, <1>6, <1>7, <1>8

\* The records that one mapping may leave.
AfterMapping(outs, m, record) ==
  IF m.src >= Len(record) THEN outs
  ELSE UNION {{Written(o, m.dst, v) : v \in MappingResults(m, record[m.src + 1])} : o \in outs}

WidestOf(q) == Max({0} \cup {q[k].dst : k \in DOMAIN q})
Zeros(n) == [i \in 1..n |-> 0]

\* Mappings are applied one after the other.
LEMMA MappedIs ==
  ASSUME NEW q \in Seq(FieldMappings), NEW record \in Seq(Int), WidestOf(q) \in Nat
  PROVE  \E f \in [0..Len(q) -> SUBSET Seq(Int)] :
           /\ f[0] = {Zeros(WidestOf(q) + 1)}
           /\ \A i \in 1..Len(q) : f[i] = AfterMapping(f[i - 1], q[i], record)
           /\ Mapped(q, record) = f[Len(q)]
<1> DEFINE A == SUBSET Seq(Int)
           base == {Zeros(WidestOf(q) + 1)}
           F == [outs \in A |-> [m \in FieldMappings |-> AfterMapping(outs, m, record)]]
<1>1. Mapped(q, record) = Loop(F, base, q)
  BY DEF Mapped, AfterMapping, Zeros, WidestOf
<1>2. ASSUME NEW outs \in A, NEW m \in FieldMappings PROVE AfterMapping(outs, m, record) \in A
  <2>1. m.src \in Nat /\ m.dst \in Nat
    BY MappingParameters
  <2>2. CASE m.src >= Len(record)
    BY <2>2 DEF AfterMapping
  <2>3. CASE ~(m.src >= Len(record))
    <3>1. record[m.src + 1] \in Int
      <4>1. m.src + 1 \in 1..Len(record)
        BY <2>1, <2>3
      <4> QED
        BY <4>1
    <3>2. MappingResults(m, record[m.src + 1]) \subseteq Int
      BY <3>1, MappingsGiveNumbers
    <3>3. ASSUME NEW o \in outs, NEW v \in MappingResults(m, record[m.src + 1])
          PROVE  Written(o, m.dst, v) \in Seq(Int)
      BY <2>1, <3>2, WrittenIs
    <3> QED
      BY <2>3, <3>3 DEF AfterMapping
  <2> QED
    BY <2>2, <2>3
<1>3. base \in A
  <2>1. Zeros(WidestOf(q) + 1) \in Seq(Int)
    BY DEF Zeros
  <2> QED
    BY <2>1
<1> HIDE DEF A, base
<1>4. F \in Steps(A, FieldMappings)
  BY <1>2 DEF Steps
<1>5. \A outs \in A, m \in FieldMappings : F[outs][m] = AfterMapping(outs, m, record)
  OBVIOUS
<1> HIDE DEF F
<1>6. PICK f \in [0..Len(q) -> A] : Lists(f, F, base, q) /\ Loop(F, base, q) = f[Len(q)]
  BY <1>3, <1>4, LoopIs
<1>7. ASSUME NEW i \in 1..Len(q) PROVE f[i] = AfterMapping(f[i - 1], q[i], record)
  <2>1. f[i - 1] \in A /\ q[i] \in FieldMappings
    <3>1. i - 1 \in 0..Len(q) /\ i \in 1..Len(q)
      OBVIOUS
    <3>2. f[i - 1] \in A
      BY <3>1
    <3> QED
      BY <3>2
  <2>2. f[i] = F[f[i - 1]][q[i]]
    BY <1>6 DEF Lists
  <2> QED
    BY <1>5, <2>1, <2>2
<1> QED
  BY <1>1, <1>6, <1>7 DEF A, Lists, base

\* The widest output of mappings is one of theirs.
LEMMA WidestIs ==
  ASSUME NEW q \in Seq(FieldMappings)
  PROVE  /\ WidestOf(q) \in Nat
         /\ \A k \in 1..Len(q) : q[k].dst <= WidestOf(q)
         /\ WidestOf(q) = 0 \/ \E k \in 1..Len(q) : WidestOf(q) = q[k].dst
<1> DEFINE f == [k \in 1..Len(q) |-> q[k].dst]
           S == {0} \cup {q[k].dst : k \in DOMAIN q}
<1>1. ASSUME NEW k \in 1..Len(q) PROVE q[k].dst \in Nat
  <2>1. q[k] \in FieldMappings
    OBVIOUS
  <2> QED
    BY <2>1, MappingParameters
<1>2. DOMAIN q = 1..Len(q) /\ Len(q) \in Nat
  OBVIOUS
<1>3. S = {0} \cup {f[k] : k \in 1..Len(q)} /\ \A k \in 1..Len(q) : f[k] \in Nat /\ f[k] = q[k].dst
  BY <1>1, <1>2
<1>4. WidestOf(q) = Max(S)
  BY DEF WidestOf
<1> HIDE DEF f, S
<1>5. Gathers(S, 0, Len(q), f)
  BY <1>2, <1>3 DEF Gathers
<1>6. Max(S) \in S /\ \A x \in S : Max(S) >= x
  BY <1>5, GreatestOf
<1> DEFINE m == Max(S)
<1>7. m \in S /\ (\A x \in S : m >= x) /\ WidestOf(q) = m
  BY <1>4, <1>6
<1> HIDE DEF m
<1>8. m \in Nat /\ (m = 0 \/ \E k \in 1..Len(q) : m = q[k].dst)
  BY <1>3, <1>7
<1>9. ASSUME NEW k \in 1..Len(q) PROVE q[k].dst <= m
  <2>1. f[k] \in S /\ f[k] = q[k].dst /\ f[k] \in Nat
    BY <1>3
  <2>2. m >= f[k]
    BY <1>7, <2>1
  <2> QED
    BY <1>8, <2>1, <2>2
<1> QED
  BY <1>7, <1>8, <1>9

\* A mapped record has room for every field, and zeros where no source field was found.
LEMMA MappedAreSound ==
  ASSUME NEW q \in Seq(FieldMappings), NEW record \in Seq(Int)
  PROVE  MappedRecordSound(q, record)
<1> DEFINE W == WidestOf(q)
<1>1. W \in Nat
  BY WidestIs
<1>2. PICK f \in [0..Len(q) -> SUBSET Seq(Int)] :
             /\ f[0] = {Zeros(W + 1)}
             /\ \A i \in 1..Len(q) : f[i] = AfterMapping(f[i - 1], q[i], record)
             /\ Mapped(q, record) = f[Len(q)]
  BY <1>1, MappedIs
<1> DEFINE Filled(o, n) ==
             /\ o \in Seq(Int) /\ Len(o) = W + 1
             /\ \A g \in 0..W : (\A k \in 1..n : q[k].dst = g => q[k].src >= Len(record)) => o[g + 1] = 0
           T == {n \in Nat : n <= Len(q) => \A o \in f[n] : Filled(o, n)}
<1> HIDE DEF Filled
<1>3. 0 \in T
  <2> DEFINE z == Zeros(W + 1)
  <2>1. z \in Seq(Int) /\ Len(z) = W + 1 /\ \A g \in 0..W : z[g + 1] = 0
    BY <1>1 DEF Zeros
  <2> HIDE DEF z
  <2>2. Filled(z, 0)
    BY <2>1 DEF Filled
  <2> QED
    BY <1>2, <2>2 DEF z
<1>4. ASSUME NEW n \in Nat, n \in T PROVE n + 1 \in T
  <2> SUFFICES ASSUME n + 1 <= Len(q), NEW w \in f[n + 1] PROVE Filled(w, n + 1)
    OBVIOUS
  <2> DEFINE m == q[n + 1]
  <2>1. n + 1 \in 1..Len(q) /\ (n + 1) - 1 = n /\ n \in 0..Len(q)
    OBVIOUS
  <2>2. m \in FieldMappings
    BY <2>1
  <2>3. m.src \in Nat /\ m.dst \in Nat /\ m.dst <= W
    BY <2>1, <2>2, MappingParameters, WidestIs
  <2>4. \A o \in f[n] : Filled(o, n)
    BY <1>4, <2>1
  <2>5. f[n + 1] = AfterMapping(f[n], m, record)
    BY <1>2, <2>1
  <2> HIDE DEF W, T
  <2>6. \A k \in 1..n : k \in 1..n + 1
    OBVIOUS
  <2>7. CASE m.src >= Len(record)
    <3>1. Filled(w, n)
      BY <2>4, <2>5, <2>7 DEF AfterMapping
    <3> QED
      BY <2>6, <3>1 DEF Filled
  <2>8. CASE ~(m.src >= Len(record))
    <3>1. PICK o \in f[n] : \E v \in MappingResults(m, record[m.src + 1]) : w = Written(o, m.dst, v)
      BY <2>5, <2>8 DEF AfterMapping
    <3>2. PICK v \in MappingResults(m, record[m.src + 1]) : w = Written(o, m.dst, v)
      BY <3>1
    <3>3. v \in Int
      <4>1. m.src + 1 \in 1..Len(record)
        BY <2>3, <2>8
      <4>2. record[m.src + 1] \in Int
        BY <4>1
      <4> QED
        BY <2>2, <4>2, MappingsGiveNumbers
    <3>4. Filled(o, n)
      BY <2>4
    <3> DEFINE d == m.dst
    <3>5. /\ w \in Seq(Int) /\ Len(w) = W + 1
          /\ \A g \in 0..Len(w) - 1 : g # d => w[g + 1] = Field(o, g)
      <4>1. o \in Seq(Int) /\ Len(o) = W + 1 /\ d < Len(o) /\ d \in Nat
        BY <1>1, <2>3, <3>4 DEF Filled
      <4>2. w = Written(o, d, v)
        BY <3>2
      <4> HIDE DEF d
      <4> DEFINE made == Written(o, d, v)
      <4>3. /\ made \in Seq(Int)
            /\ Len(made) = IF d < Len(o) THEN Len(o) ELSE d + 1
            /\ \A g \in 0..Len(made) - 1 : g # d => made[g + 1] = Field(o, g)
        BY <3>3, <4>1, WrittenIs, Zenon
      <4> HIDE DEF made
      <4>4. w = made
        BY <4>2 DEF made
      <4> QED
        BY <4>1, <4>3, <4>4
    <3>6. ASSUME NEW g \in 0..W, \A k \in 1..n + 1 : q[k].dst = g => q[k].src >= Len(record)
          PROVE  w[g + 1] = 0
      <4>1. n + 1 \in 1..n + 1
        OBVIOUS
      <4>2. g # d
        BY <2>8, <3>6, <4>1
      <4>3. o[g + 1] = 0
        BY <2>6, <3>4, <3>6 DEF Filled
      <4>4. Field(o, g) = o[g + 1]
        BY <1>1, <3>4 DEF Field, Filled
      <4>5. g \in 0..Len(w) - 1
        BY <1>1, <3>5
      <4> QED
        BY <3>5, <4>2, <4>3, <4>4, <4>5
    <3> QED
      BY <3>5, <3>6 DEF Filled
  <2> QED
    BY <2>7, <2>8
<1>5. Len(q) \in T
  <2> HIDE DEF T
  <2>1. Nat \subseteq T
    BY <1>3, <1>4, SetInduction
  <2> QED
    BY <2>1
<1>6. \A o \in Mapped(q, record) : Filled(o, Len(q))
  BY <1>2, <1>5
<1> HIDE DEF T
<1> SUFFICES ASSUME NEW out \in Mapped(q, record), NEW g \in 0..3
             PROVE  /\ g < Len(out) <=> g = 0 \/ \E k \in DOMAIN q : q[k].dst >= g
                    /\ g < Len(out) /\ (\A k \in DOMAIN q : q[k].dst = g => q[k].src >= Len(record))
                         => out[g + 1] = 0
  BY DEF MappedRecordSound
<1>7. Filled(out, Len(q)) /\ DOMAIN q = 1..Len(q)
  BY <1>6
<1>8. g < Len(out) <=> g = 0 \/ \E k \in DOMAIN q : q[k].dst >= g
  <2>1. Len(out) = W + 1
    BY <1>7 DEF Filled
  <2>2. /\ \A k \in 1..Len(q) : q[k].dst <= W /\ q[k].dst \in Nat
        /\ W = 0 \/ \E k \in 1..Len(q) : W = q[k].dst
    <3>1. ASSUME NEW k \in 1..Len(q) PROVE q[k].dst \in Nat
      <4>1. q[k] \in FieldMappings
        OBVIOUS
      <4> QED
        BY <4>1, MappingParameters
    <3> QED
      BY <3>1, WidestIs
  <2> HIDE DEF W
  <2>3. g < Len(out) <=> g <= W
    BY <1>1, <2>1
  <2>4. ASSUME NEW k \in 1..Len(q), q[k].dst >= g PROVE g <= W
    BY <1>1, <2>2, <2>4
  <2>5. ASSUME g <= W, g # 0 PROVE \E k \in 1..Len(q) : q[k].dst >= g
    <3>1. W # 0
      BY <1>1, <2>5
    <3>2. PICK k \in 1..Len(q) : W = q[k].dst
      BY <2>2, <3>1
    <3> QED
      BY <1>1, <2>5, <3>2
  <2> QED
    BY <1>1, <1>7, <2>3, <2>4, <2>5, SMTT(30)
<1>9. ASSUME g < Len(out), \A k \in DOMAIN q : q[k].dst = g => q[k].src >= Len(record)
      PROVE  out[g + 1] = 0
  <2>1. g \in 0..W
    BY <1>1, <1>7, <1>9 DEF Filled
  <2> QED
    BY <1>7, <1>9, <2>1 DEF Filled
<1> QED
  BY <1>8, <1>9

-----------------------------------------------------------------------------
(* The cipher: words and their numbers, what is combined twice, keys.          *)

\* The number of a word below a power of two has the word for its bits.
LEMMA WordsAreNumbers ==
  ASSUME NEW width \in 0..32, NEW w, w \subseteq 0..width - 1
  PROVE  Number(w) \in 0..2^width - 1 /\ Bits(Number(w), width) = w
<1> DEFINE bit(i) == IF i \in w THEN 1 ELSE 0
<1>1. PICK above \in [0..32 -> Nat] :
           /\ above[32] = 0
           /\ \A i \in 0..31 : above[i] = 2 * above[i + 1] + bit(i)
           /\ Number(w) = above[0]
  BY NumberIs
<1> DEFINE n == above[0]
<1>2. n \in Nat /\ \A i \in 0..32 : above[i] \in Nat
  OBVIOUS
<1>3. \A i \in 0..31 : bit(i) \in {0, 1} /\ (bit(i) = 1 <=> i \in w)
  OBVIOUS
<1> HIDE DEF bit, n
<1>4. ASSUME NEW i \in 0..31 PROVE above[i] \div 2 = above[i + 1] /\ above[i] % 2 = bit(i)
  <2>1. i + 1 \in 0..32 /\ i \in 0..32
    OBVIOUS
  <2>2. above[i + 1] \in Nat
    BY <1>2, <2>1
  <2>3. above[i] = 2 * above[i + 1] + bit(i)
    BY <1>1
  <2>4. bit(i) \in {0, 1}
    BY <1>3
  <2> QED
    BY <2>2, <2>3, <2>4
<1> DEFINE T == {k \in Nat : k <= 32 => n \div 2^k = above[k]}
<1>5. 0 \in T
  <2>1. n \div 1 = n
    BY <1>2
  <2> QED
    BY <2>1, PowersAre DEF n
<1>6. ASSUME NEW k \in Nat, k \in T PROVE k + 1 \in T
  <2> SUFFICES ASSUME k + 1 <= 32 PROVE n \div 2^(k + 1) = above[k + 1]
    OBVIOUS
  <2> DEFINE p == 2^k
  <2>1. k \in 0..31 /\ n \div p = above[k]
    BY <1>6
  <2>2. p \in Nat \ {0} /\ 2^(k + 1) = 2 * p
    BY <2>1, Powers
  <2> HIDE DEF p
  <2>3. n \div (2 * p) = (n \div p) \div 2
    BY <1>2, <2>2, HalfAgain
  <2> QED
    BY <1>4, <2>1, <2>2, <2>3
<1>7. ASSUME NEW k \in 0..32 PROVE n \div 2^k = above[k]
  <2> HIDE DEF T
  <2>1. k \in T
    BY <1>5, <1>6, SetInduction
  <2> QED
    BY <2>1 DEF T
<1> DEFINE Z == {k \in Nat : k <= 32 - width => above[32 - k] = 0}
<1>8. 0 \in Z
  BY <1>1
<1>9. ASSUME NEW k \in Nat, k \in Z PROVE k + 1 \in Z
  <2> SUFFICES ASSUME k + 1 <= 32 - width PROVE above[32 - (k + 1)] = 0
    OBVIOUS
  <2> DEFINE i == 32 - (k + 1)
  <2>1. i \in 0..31 /\ i + 1 = 32 - k /\ i >= width
    OBVIOUS
  <2>2. above[i + 1] = 0
    BY <1>9, <2>1
  <2>3. bit(i) = 0
    BY <1>3, <2>1
  <2> HIDE DEF i
  <2>4. above[i] = 0
    BY <1>1, <2>1, <2>2, <2>3
  <2> QED
    BY <2>4 DEF i
<1>10. above[width] = 0
  <2>1. 32 - width \in Nat /\ 32 - (32 - width) = width
    OBVIOUS
  <2> HIDE DEF Z
  <2>2. 32 - width \in Z
    BY <1>8, <1>9, <2>1, SetInduction
  <2> QED
    BY <2>1, <2>2 DEF Z
<1>11. n < 2^width
  <2> DEFINE p == 2^width
  <2>1. p \in Nat \ {0}
    <3>1. width \in 0..31 \/ width = 31 + 1
      OBVIOUS
    <3>2. ASSUME NEW k \in 0..31 PROVE 2^k \in Nat \ {0} /\ 2^(k + 1) \in Nat \ {0}
      <4>1. 2^k \in Nat \ {0} /\ 2^(k + 1) = 2 * 2^k
        BY Powers
      <4> DEFINE s == 2^k
                 d == 2^(k + 1)
      <4>2. s \in Nat \ {0} /\ d = 2 * s
        BY <4>1
      <4> HIDE DEF s, d
      <4>3. s \in Nat \ {0} /\ d \in Nat \ {0}
        BY <4>2
      <4> QED
        BY <4>3 DEF s, d
    <3>3. CASE width \in 0..31
      BY <3>2, <3>3
    <3>4. CASE width = 31 + 1
      <4>1. 31 \in 0..31
        OBVIOUS
      <4>2. PICK k \in 0..31 : width = k + 1
        BY <3>4, <4>1
      <4> QED
        BY <3>2, <4>2
    <3> QED
      BY <3>1, <3>3, <3>4
  <2>2. n \div p = 0
    BY <1>7, <1>10
  <2> HIDE DEF p
  <2>3. n = p * (n \div p) + (n % p) /\ n % p \in 0..p - 1
    BY <1>2, <2>1
  <2>4. p * (n \div p) = 0
    BY <2>1, <2>2
  <2>5. n < p
    BY <1>2, <2>1, <2>3, <2>4
  <2> QED
    BY <2>5 DEF p
<1>12. ASSUME NEW i \in 0..width - 1 PROVE (n \div 2^i) % 2 = 1 <=> i \in w
  <2>1. i \in 0..31 /\ i \in 0..32
    OBVIOUS
  <2>2. n \div 2^i = above[i]
    BY <1>7, <2>1
  <2> QED
    BY <1>3, <1>4, <2>1, <2>2
<1>13. Number(w) = n
  BY <1>1 DEF n
<1>14. Bits(n, width) = w
  BY <1>12 DEF Bits
<1>15. 2^width \in Int
  OBVIOUS
<1> QED
  BY <1>2, <1>11, <1>13, <1>14, <1>15

\* A number below a power of two is that of its bits.
LEMMA NumbersAreWords ==
  ASSUME NEW width \in 0..32, NEW n \in 0..2^width - 1
  PROVE  Number(Bits(n, width)) = n
<1> DEFINE w == Bits(n, width)
<1>1. w \subseteq 0..width - 1
  BY DEF Bits
<1>2. Number(w) \in 0..2^width - 1 /\ Bits(Number(w), width) = w
  <2> HIDE DEF w
  <2> QED
    BY <1>1, WordsAreNumbers
<1> QED
  BY <1>2, BitsTellApart

\* What is exclusive-ored with a byte twice is what it was.
LEMMA XorTwice ==
  ASSUME NEW a \in 0..255, NEW b \in 0..255
  PROVE  XorByte(a, b) \in 0..255 /\ XorByte(XorByte(a, b), b) = a
<1> DEFINE width == 8
           v == ByteBits(a)
           w == ByteBits(b)
<1>1. a \in 0..2^width - 1 /\ width \in 0..32 /\ 2^width - 1 = 255
  BY PowersAre
<1> HIDE DEF width
<1>2. v = Bits(a, width) /\ v \subseteq 0..width - 1 /\ w \subseteq 0..width - 1
  BY DEF ByteBits, Bits, width
<1>3. Number(v) = a
  <2>1. Number(Bits(a, width)) = a
    <3>1. width \in 0..32 /\ a \in 0..2^width - 1
      BY <1>1
    <3> QED
      BY <3>1, NumbersAreWords, Zenon
  <2> QED
    BY <1>2, <2>1, Zenon
<1> HIDE DEF v, w
<1> DEFINE x == Xor(v, w)
<1>4. x \subseteq 0..width - 1 /\ Xor(x, w) = v
  BY <1>2 DEF Xor
<1> HIDE DEF x
<1>5. Number(x) \in 0..2^width - 1 /\ Bits(Number(x), width) = x
  BY <1>1, <1>4, WordsAreNumbers
<1>6. XorByte(a, b) = Number(x)
  BY DEF XorByte, x, v, w
<1>7. ByteBits(Number(x)) = x
  BY <1>5 DEF ByteBits, width
<1>8. XorByte(Number(x), b) = Number(Xor(x, w))
  BY <1>7 DEF XorByte, w
<1> QED
  BY <1>1, <1>3, <1>4, <1>5, <1>6, <1>8

\* Where a key matches an input, both directions take the same byte of the key at every place.
LEMMA SameKeyByte ==
  ASSUME NEW key \in Seq(0..255), key # <<>>, NEW n \in Nat, Matched(key, n), NEW i \in 1..n, NEW behind
  PROVE  LET whole == 4 * (n \div 4)
             byte == key[1 + ((i - 1) % Len(key))]
         IN /\ (IF i <= whole THEN DerivedByte(key, behind, i - 1) ELSE key[1 + ((i - 1 - whole) % Len(key))]) = byte
            /\ byte \in 0..255
<1>0. Len(key) \in Nat /\ key \in [1..Len(key) -> 0..255]
  BY LenProperties, ZenonT(60)
<1> DEFINE l == Len(key)
           whole == 4 * (n \div 4)
           p == i - 1
           byte == key[1 + (p % l)]
<1>1. l \in Nat \ {0} /\ key \in [1..l -> 0..255] /\ p \in 0..n - 1 /\ p + 1 = i
  <2>1. l \in Nat \ {0}
    BY EmptySeq
  <2>2. key \in [1..l -> 0..255]
    BY <1>0
  <2>3. p \in 0..n - 1 /\ p + 1 = i
    OBVIOUS
  <2> QED
    BY <2>1, <2>2, <2>3
<1>2. Matched(key, n) <=> n < 4 \/ (n % 4 = 0 /\ n <= l)
  BY DEF Matched
<1>3. DerivedByte(key, behind, p) = key[p + 1] \/ ~(p < l)
  BY DEF DerivedByte
<1> HIDE DEF l
<1>4. (p % l) \in 0..l - 1
  BY <1>1
<1>5. 1 + (p % l) \in 1..l
  BY <1>1, <1>4
<1>6. byte \in 0..255
  BY <1>1, <1>5
<1>7. CASE n < 4
  <2>1. whole = 0
    BY <1>7
  <2>2. ~(i <= whole) /\ i - 1 - whole = p
    BY <2>1
  <2> QED
    BY <1>6, <2>2 DEF l
<1>8. CASE n % 4 = 0 /\ n <= l
  <2>1. whole = n
    BY <1>8
  <2>2. i <= whole /\ p < l /\ p \in Nat
    BY <1>1, <1>8, <2>1
  <2>3. p % l = p
    BY <1>1, <2>2, RemainderIsSmall
  <2>4. 1 + (p % l) = p + 1
    BY <1>1, <2>3
  <2>5. DerivedByte(key, behind, p) = byte
    BY <1>3, <2>2, <2>4
  <2> QED
    BY <1>6, <2>2, <2>5 DEF l
<1> QED
  BY <1>2, <1>7, <1>8

\* What a key encrypts that matches the input, it decrypts.
LEMMA DecryptInverts ==
  ASSUME NEW key \in Seq(0..255), NEW input \in Seq(0..255), NEW behind,
         key = <<>> \/ Matched(key, Len(input))
  PROVE  Decrypt(key, Encrypt(key, input, behind)) = input
<1>1. CASE key = <<>>
  BY <1>1 DEF Encrypt, Decrypt
<1>2. CASE key # <<>>
  <2>0. Len(input) \in Nat /\ input \in [1..Len(input) -> 0..255] /\ DOMAIN input = 1..Len(input)
    BY LenProperties, ZenonT(60)
  <2> DEFINE n == Len(input)
             byte(i) == key[1 + ((i - 1) % Len(key))]
             taken(i) == LET whole == 4 * (n \div 4)
                         IN IF i <= whole THEN DerivedByte(key, behind, i - 1)
                                          ELSE key[1 + ((i - 1 - whole) % Len(key))]
  <2>1. n \in Nat /\ DOMAIN input = 1..n /\ input \in [1..n -> 0..255] /\ Matched(key, n)
    <3> HIDE DEF byte, taken
    <3>1. n \in Nat /\ DOMAIN input = 1..n /\ input \in [1..n -> 0..255]
      BY <2>0
    <3>2. Matched(key, n)
      BY <1>2, Zenon
    <3> QED
      BY <3>1, <3>2
  <2>2. ASSUME NEW i \in 1..n PROVE taken(i) = byte(i) /\ byte(i) \in 0..255
    BY <1>2, <2>1, SameKeyByte, ZenonT(60)
  <2>3. Encrypt(key, input, behind) = [i \in 1..n |-> XorByte(input[i], taken(i))]
    BY <1>2, <2>1 DEF Encrypt
  <2>4. ASSUME NEW e PROVE Decrypt(key, e) = [i \in DOMAIN e |-> XorByte(e[i], byte(i))]
    BY <1>2 DEF Decrypt
  <2> HIDE DEF byte, taken, n
  <2> DEFINE e == [i \in 1..n |-> XorByte(input[i], taken(i))]
  <2>5. ASSUME NEW i \in 1..n PROVE XorByte(e[i], byte(i)) = input[i]
    <3>1. input[i] \in 0..255 /\ byte(i) \in 0..255 /\ e[i] = XorByte(input[i], byte(i))
      BY <2>1, <2>2
    <3> QED
      BY <3>1, XorTwice, ZenonT(60)
  <2>6. Decrypt(key, e) = [i \in 1..n |-> input[i]]
    <3>1. DOMAIN e = 1..n
      OBVIOUS
    <3> HIDE DEF e
    <3> QED
      BY <2>4, <2>5, <3>1
  <2>7. input = [i \in 1..n |-> input[i]]
    BY <2>1
  <2> QED
    BY <2>3, <2>6, <2>7
<1> QED
  BY <1>1, <1>2

\* Every copy of a cipher holds the key it was set from (cipher.cpp).
CipherInv == keys \in [Ciphers -> CipherKeys \cup {<<>>}] /\ origin = keys /\ CipherTypeOK

\* What one cipher encrypts every cipher with the same key decrypts, for inputs of bytes.
LEMMA CiphersAgree ==
  ASSUME CipherInv, NEW Inputs \in SUBSET Seq(0..255)
  PROVE  MatchedInputsReturn(Inputs)
<1>1. SUFFICES ASSUME NEW c \in Ciphers, NEW d \in Ciphers, NEW input \in Inputs, NEW behind \in Garbage,
                      origin[c] = origin[d], keys[c] = <<>> \/ Matched(keys[c], Len(input))
               PROVE  Decrypt(keys[d], Encrypt(keys[c], input, behind)) = input
  BY DEF MatchedInputsReturn
<1>2. keys[c] \in Seq(0..255) /\ keys[d] = keys[c]
  <2>1. keys[c] \in CipherKeys \cup {<<>>} /\ keys[d] = keys[c]
    BY <1>1 DEF CipherInv
  <2>2. CipherKeys \cup {<<>>} \subseteq Seq(0..255)
    BY CipherAssumption, EmptySeq, ZenonT(60)
  <2> QED
    BY <2>1, <2>2
<1>3. input \in Seq(0..255)
  OBVIOUS
<1> QED
  BY <1>1, <1>2, <1>3, DecryptInverts

-----------------------------------------------------------------------------
(* The delta codec *)

LowByte(s) == s % 256
Difference(u, v) == (u - v) % 256

\* A sum with the difference to a byte added ends in that byte.
LEMMA DifferenceAdded ==
  ASSUME NEW s \in Nat, NEW u \in Bytes, NEW v \in Bytes, LowByte(s) = v
  PROVE  Difference(u, v) \in Nat /\ LowByte(s + Difference(u, v)) = u
<1> USE DEF Bytes, LowByte, Difference
<1>1. s = 256 * (s \div 256) + v /\ s \div 256 \in Nat
  OBVIOUS
<1>2. (u - v) % 256 = u - v \/ (u - v) % 256 = u - v + 256
  OBVIOUS
<1> DEFINE k == s \div 256
<1>3. k \in Nat /\ s = 256 * k + v
  BY <1>1
<1> HIDE DEF k
<1>4. (256 * k + u) % 256 = u /\ (256 * (k + 1) + u) % 256 = u
  BY <1>3
<1>5. s + (u - v) = 256 * k + u /\ s + (u - v + 256) = 256 * (k + 1) + u
  BY <1>3
<1> QED
  BY <1>2, <1>4, <1>5

\* A function that adds up elements after the first exists, and it is the one that is chosen.
LEMMA SumsChosen ==
  ASSUME NEW n \in Nat \ {0}, NEW x, \A i \in 2..n + 1 : x[i] \in Nat, NEW sum,
         sum = CHOOSE f : f = [i \in 2..n + 1 |-> IF i = 2 THEN x[2] ELSE f[i - 1] + x[i]]
  PROVE  sum[2] = x[2] /\ \A i \in 3..n + 1 : sum[i] = sum[i - 1] + x[i]
<1> DEFINE step(f, i) == IF i = 2 THEN x[2] ELSE f[i - 1] + x[i]
           q == [i \in 1..n |-> x[i + 1]]
           F == [p \in Nat \X Nat |-> p[1] + p[2]]
<1>1. F \in [Nat \X Nat -> Nat] /\ \A a, b \in Nat : F[<<a, b>>] = a + b
  <2>1. \A a, b \in Nat : <<a, b>> \in Nat \X Nat /\ <<a, b>>[1] = a /\ <<a, b>>[2] = b
    OBVIOUS
  <2>2. \A p \in Nat \X Nat : p[1] + p[2] \in Nat
    OBVIOUS
  <2> QED
    BY <2>1, <2>2
<1>2. q \in Seq(Nat) /\ Len(q) = n /\ \A i \in 1..n : q[i] = x[i + 1]
  <2>1. \A i \in 1..n : x[i + 1] \in Nat
    <3>1. \A i \in 1..n : i + 1 \in 2..n + 1
      OBVIOUS
    <3> QED
      BY <3>1
  <2> QED
    BY <2>1
<1> HIDE DEF q, F
<1>3. PICK f \in [0..n -> Nat] : IsLoop(f, F, 0, q)
  BY <1>1, <1>2, Iterates
<1>4. f[0] = 0 /\ \A i \in 1..n : f[i] = f[i - 1] + x[i + 1]
  <2>1. ASSUME NEW i \in 1..n PROVE f[i] = f[i - 1] + x[i + 1]
    <3>1. i - 1 \in 0..n /\ i + 1 \in 2..n + 1
      OBVIOUS
    <3>2. f[i - 1] \in Nat /\ x[i + 1] \in Nat /\ f[i] = F[<<f[i - 1], x[i + 1]>>]
      BY <1>2, <1>3, <3>1 DEF IsLoop
    <3> QED
      BY <1>1, <3>2
  <2> QED
    BY <1>3, <2>1 DEF IsLoop
<1> DEFINE g == [i \in 2..n + 1 |-> f[i - 1]]
<1>5. ASSUME NEW i \in 2..n + 1 PROVE g[i] = step(g, i)
  <2>1. g[i] = f[i - 1] /\ i - 1 \in 1..n /\ (i - 1) - 1 = i - 2 /\ (i - 1) + 1 = i
    OBVIOUS
  <2>2. f[i - 1] = f[i - 2] + x[i]
    BY <1>4, <2>1
  <2>3. CASE i = 2
    <3>1. f[i - 2] = 0 /\ x[i] = x[2] /\ x[2] \in Nat
      BY <1>4, <2>3
    <3> QED
      BY <2>1, <2>2, <2>3, <3>1
  <2>4. CASE i # 2
    <3>1. i - 1 \in 2..n + 1 /\ g[i - 1] = f[i - 2]
      BY <2>1, <2>4
    <3> QED
      BY <2>1, <2>2, <2>4, <3>1
  <2> QED
    BY <2>3, <2>4
<1>6. g = [i \in 2..n + 1 |-> g[i]]
  OBVIOUS
<1> HIDE DEF g, step
<1>7. g = [i \in 2..n + 1 |-> step(g, i)]
  BY <1>5, <1>6
<1>8. sum = CHOOSE h : h = [i \in 2..n + 1 |-> step(h, i)]
  BY DEF step
<1>9. sum = [i \in 2..n + 1 |-> step(sum, i)]
  BY <1>7, <1>8
<1>10. \A i \in 2..n + 1 : sum[i] = step(sum, i)
  BY <1>9
<1>11. 2 \in 2..n + 1 /\ \A i \in 3..n + 1 : i \in 2..n + 1 /\ i # 2
  OBVIOUS
<1> QED
  BY <1>10, <1>11 DEF step

\* A byte ends in itself.
LEMMA ByteItself == \A b \in Bytes : b \in Nat /\ LowByte(b) = b
  BY DEF Bytes, LowByte

\* A sequence that is not empty, place by place, and what follows its first element.
LEMMA AfterFirst ==
  ASSUME NEW A, NEW q \in Seq(A), q # <<>>
  PROVE  /\ Len(q) \in Nat \ {0} /\ q \in [1..Len(q) -> A]
         /\ Tail(q) = [i \in 1..Len(q) - 1 |-> q[i + 1]]
<1>1. Len(q) \in Nat /\ q \in [1..Len(q) -> A]
  OBVIOUS
<1>2. Len(q) # 0
  OBVIOUS
<1> DEFINE w == Tail(q)
           n == Len(q)
<1>3. w \in Seq(A) /\ Len(w) = n - 1 /\ \A i \in 1..n - 1 : w[i] = q[i + 1]
  OBVIOUS
<1> HIDE DEF w, n
<1>4. w = [i \in 1..n - 1 |-> w[i]]
  BY <1>3
<1>5. w = [i \in 1..n - 1 |-> q[i + 1]]
  BY <1>3, <1>4
<1> QED
  BY <1>1, <1>2, <1>5 DEF w, n

\* Sums of differences end in the bytes whose differences they are.
LEMMA SumsEndInBytes ==
  ASSUME NEW n \in Nat \ {0}, NEW bytes \in [1..n -> Bytes], NEW sum, sum[2] = bytes[1],
         \A i \in 3..n + 1 : sum[i] = sum[i - 1] + Difference(bytes[i - 1], bytes[i - 2])
  PROVE  \A i \in 1..n - 1 : LowByte(sum[i + 2]) = bytes[i + 1]
<1> DEFINE T == {k \in Nat : k + 2 <= n + 1 => sum[k + 2] \in Nat /\ LowByte(sum[k + 2]) = bytes[k + 1]}
<1>1. 0 \in T
  <2>1. 1 \in 1..n
    OBVIOUS
  <2>2. bytes[1] \in Bytes
    BY <2>1
  <2> QED
    BY <2>2, ByteItself
<1>2. ASSUME NEW k \in Nat, k \in T PROVE k + 1 \in T
  <2> SUFFICES ASSUME k + 3 <= n + 1 PROVE sum[k + 3] \in Nat /\ LowByte(sum[k + 3]) = bytes[k + 2]
    OBVIOUS
  <2>1. sum[k + 2] \in Nat /\ LowByte(sum[k + 2]) = bytes[k + 1]
    BY <1>2
  <2>2. /\ k + 3 \in 3..n + 1 /\ (k + 3) - 1 = k + 2 /\ (k + 3) - 2 = k + 1
        /\ k + 1 \in 1..n /\ k + 2 \in 1..n
    OBVIOUS
  <2>3. bytes[k + 1] \in Bytes /\ bytes[k + 2] \in Bytes
    BY <2>2
  <2>4. sum[k + 3] = sum[k + 2] + Difference(bytes[k + 2], bytes[k + 1])
    BY <2>2
  <2>5. Difference(bytes[k + 2], bytes[k + 1]) \in Nat
        /\ LowByte(sum[k + 2] + Difference(bytes[k + 2], bytes[k + 1])) = bytes[k + 2]
    BY <2>1, <2>3, DifferenceAdded
  <2> QED
    BY <2>1, <2>4, <2>5
<1>3. Nat \subseteq T
  <2> HIDE DEF T
  <2> QED
    BY <1>1, <1>2, SetInduction
<1>4. ASSUME NEW i \in 1..n - 1 PROVE LowByte(sum[i + 2]) = bytes[i + 1]
  <2>1. i \in Nat /\ i + 2 <= n + 1 /\ i \in T
    BY <1>3
  <2> QED
    BY <2>1
<1> QED
  BY <1>4

\* The places of two bytes with more behind them.
LEMMA BehindTwo ==
  ASSUME NEW A, NEW a \in A, NEW b \in A, NEW d \in Seq(A), NEW x, x = <<a, b>> \o d
  PROVE  /\ Len(x) = Len(d) + 2 /\ x[2] = b
         /\ \A i \in 2..Len(d) + 2 : x[i] \in A
         /\ \A i \in 3..Len(d) + 2 : x[i] = d[i - 2]
<1> DEFINE h == <<a, b>>
<1>1. h \in Seq(A) /\ Len(h) = 2 /\ h[1] = a /\ h[2] = b
  OBVIOUS
<1>2. x = h \o d
  OBVIOUS
<1> HIDE DEF h
<1>3. Len(x) = Len(d) + 2 /\ x[2] = b /\ \A i \in 3..Len(d) + 2 : x[i] = d[i - 2]
  BY <1>1, <1>2
<1>4. ASSUME NEW i \in 3..Len(d) + 2 PROVE x[i] \in A
  <2>1. i - 2 \in 1..Len(d)
    OBVIOUS
  <2> QED
    BY <1>3, <2>1
<1>5. \A i \in 2..Len(d) + 2 : i = 2 \/ i \in 3..Len(d) + 2
  OBVIOUS
<1> QED
  BY <1>3, <1>4, <1>5

\* What delta encoding makes of some bytes comes back without the first of them, for bytes of every
\* length (codec_dispatch.cpp:11-26, 63-75).
THEOREM DeltaLosesFirst ==
  ASSUME NEW bytes \in Seq(Bytes)
  PROVE  \A x \in Encode("Delta", bytes) : Decode("Delta", x) = {Tail(bytes)}
<1> SUFFICES ASSUME NEW y, y \in EncodeDelta(bytes) PROVE DecodeDelta(y) = {Tail(bytes)}
  BY DEF Encode, Decode
<1> DEFINE n == Len(bytes)
           d == [i \in 1..n - 1 |-> Difference(bytes[i + 1], bytes[i])]
           sum == CHOOSE f : f = [i \in 2..n + 1 |-> IF i = 2 THEN y[2] ELSE f[i - 1] + y[i]]
<1>1. bytes # <<>> /\ y = <<0, bytes[1]>> \o d
  BY DEF EncodeDelta, Difference
<1>2. n \in Nat \ {0} /\ bytes \in [1..n -> Bytes] /\ Tail(bytes) = [i \in 1..n - 1 |-> bytes[i + 1]]
  BY <1>1, AfterFirst
<1>3. d \in Seq(Bytes) /\ Len(d) = n - 1 /\ \A i \in 1..n - 1 : d[i] = Difference(bytes[i + 1], bytes[i])
  <2>1. \A u, v \in Bytes : Difference(u, v) \in Bytes
    BY DEF Difference, Bytes
  <2>2. ASSUME NEW i \in 1..n - 1 PROVE Difference(bytes[i + 1], bytes[i]) \in Bytes
    <3>1. i \in 1..n /\ i + 1 \in 1..n
      BY <1>2
    <3> HIDE DEF n
    <3> QED
      BY <1>2, <2>1, <3>1
  <2> QED
    BY <1>2, <2>2
<1> HIDE DEF d
<1>4. /\ Len(y) = n + 1 /\ y[2] = bytes[1] /\ \A i \in 2..n + 1 : y[i] \in Bytes
      /\ \A i \in 3..n + 1 : y[i] = d[i - 2]
  <2>1. 0 \in Bytes /\ bytes[1] \in Bytes
    BY <1>2 DEF Bytes
  <2>2. Len(d) + 2 = n + 1
    BY <1>2, <1>3
  <2> HIDE DEF n
  <2> QED
    BY <1>1, <1>3, <2>1, <2>2, BehindTwo
<1>5. DecodeDelta(y) = {[i \in 1..n - 1 |-> LowByte(sum[i + 2])]}
  <2>1. ~(Len(y) < 2) /\ Len(y) - 2 = n - 1
    BY <1>2, <1>4
  <2>2. DecodeDelta(y) = {[i \in 1..Len(y) - 2 |-> LowByte((CHOOSE f :
          f = [j \in 2..Len(y) |-> IF j = 2 THEN y[2] ELSE f[j - 1] + y[j]])[i + 2])]}
    BY <2>1 DEF DecodeDelta, LowByte
  <2> HIDE DEF n
  <2> QED
    BY <1>4, <2>1, <2>2
<1> HIDE DEF sum
<1>6. sum[2] = y[2] /\ \A i \in 3..n + 1 : sum[i] = sum[i - 1] + y[i]
  <2> HIDE DEF n
  <2>1. \A b \in Bytes : b \in Nat
    BY DEF Bytes
  <2>2. \A i \in 2..n + 1 : y[i] \in Nat
    BY <1>4, <2>1
  <2> QED
    BY <1>2, <2>2, SumsChosen DEF sum
<1>7. \A i \in 1..n - 1 : LowByte(sum[i + 2]) = bytes[i + 1]
  <2>1. ASSUME NEW i \in 3..n + 1 PROVE y[i] = Difference(bytes[i - 1], bytes[i - 2])
    <3>1. i - 2 \in 1..n - 1 /\ (i - 2) + 1 = i - 1
      BY <1>2
    <3> HIDE DEF n
    <3> QED
      BY <1>3, <1>4, <3>1
  <2> HIDE DEF n
  <2>2. sum[2] = bytes[1]
        /\ \A i \in 3..n + 1 : sum[i] = sum[i - 1] + Difference(bytes[i - 1], bytes[i - 2])
    BY <1>4, <1>6, <2>1
  <2> QED
    BY <1>2, <2>2, SumsEndInBytes
<1> HIDE DEF n
<1>8. [i \in 1..n - 1 |-> LowByte(sum[i + 2])] = [i \in 1..n - 1 |-> bytes[i + 1]]
  BY <1>7
<1> QED
  BY <1>2, <1>5, <1>8

-----------------------------------------------------------------------------
(* Decoders: every expansion is a loop over its bytes whose state stays inside *)
(* the room it is given (compress.cpp, compression.cpp).                        *)

\* What is read from the window of an expansion is a byte (compress.cpp).
LEMMA RingHoldsBytes ==
  ASSUME NEW out \in Seq(Bytes), NEW offset \in Nat
  PROVE  RingByte(out, offset) \in Bytes
<1> DEFINE back == IF offset = 0 THEN LZSS_WINDOW_SIZE ELSE offset
           n == Len(out)
<1>1. back \in Nat \ {0} /\ n \in Nat /\ 0 \in Bytes
  BY DEF LZSS_WINDOW_SIZE, Bytes
<1>2. \A i \in 1..n : out[i] \in Bytes
  OBVIOUS
<1>3. RingByte(out, offset) = IF back <= n THEN out[n + 1 - back] ELSE 0
  BY DEF RingByte
<1> HIDE DEF back, n
<1>4. back <= n => n + 1 - back \in 1..n
  BY <1>1
<1> QED
  BY <1>1, <1>2, <1>3, <1>4

\* A match adds as many bytes as it is long.
LEMMA MatchAdds ==
  ASSUME NEW out \in Seq(Bytes), NEW offset \in Nat, NEW length \in Nat
  PROVE  MatchCopied(out, offset, length) \in Seq(Bytes) /\ Len(MatchCopied(out, offset, length)) = Len(out) + length
<1> DEFINE A == Seq(Bytes)
           F == [o \in Seq(Bytes) |-> [i \in 1..length |-> Append(o, RingByte(o, offset))]]
           q == [i \in 1..length |-> i]
<1>1. q \in Seq(1..length) /\ Len(q) = length
  OBVIOUS
<1>2. MatchCopied(out, offset, length) = Loop(F, out, q)
  BY DEF MatchCopied
<1>3. ASSUME NEW o \in A PROVE Append(o, RingByte(o, offset)) \in A /\ Len(Append(o, RingByte(o, offset))) = Len(o) + 1
  BY RingHoldsBytes
<1>4. \A o \in A, i \in 1..length : F[o][i] = Append(o, RingByte(o, offset))
  OBVIOUS
<1>5. F \in Steps(A, 1..length)
  BY <1>3 DEF Steps
<1> HIDE DEF F, q
<1>6. PICK f \in [0..Len(q) -> A] : Lists(f, F, out, q) /\ Loop(F, out, q) = f[Len(q)]
  <2> HIDE DEF A
  <2>1. out \in A
    BY DEF A
  <2> QED
    BY <1>1, <1>5, <2>1, LoopIs
<1> DEFINE T == {i \in Nat : i <= length => Len(f[i]) = Len(out) + i}
<1>7. 0 \in T
  BY <1>6 DEF Lists
<1>8. ASSUME NEW i \in Nat, i \in T PROVE i + 1 \in T
  <2> SUFFICES ASSUME i + 1 <= length PROVE Len(f[i + 1]) = Len(out) + (i + 1)
    OBVIOUS
  <2>1. i \in 0..length /\ i + 1 \in 1..length /\ (i + 1) - 1 = i
    OBVIOUS
  <2>2. f[i] \in A /\ Len(f[i]) = Len(out) + i /\ q[i + 1] \in 1..length
    BY <1>1, <1>8, <2>1, SMTT(30)
  <2>3. f[i + 1] = F[f[i]][q[i + 1]]
    BY <1>1, <1>6, <2>1 DEF Lists
  <2>4. Len(f[i + 1]) = Len(f[i]) + 1
    BY <1>3, <1>4, <2>2, <2>3
  <2> QED
    BY <2>2, <2>4
<1>9. length \in T
  <2> HIDE DEF T
  <2> QED
    BY <1>7, <1>8, SetInduction
<1>10. length \in 0..length
  OBVIOUS
<1> QED
  BY <1>1, <1>2, <1>6, <1>9, <1>10

\* What one byte does to an LZSS expansion: by the mode and the next bit of the control byte.
ReadsControl(st, b, r) ==
  /\ r.mode = "op" /\ r.control = ByteBits(b) /\ r.bit = 7 /\ r.hi = st.hi /\ r.out = st.out
  /\ r.ok <=> st.ok
StartsMatch(st, b, r) ==
  /\ r.mode = "offset" /\ r.control = st.control /\ r.bit = st.bit /\ r.hi = b /\ r.out = st.out
  /\ r.ok <=> st.ok
TakesLiteral(max, st, b, r) ==
  /\ r.mode = IF st.bit = 0 THEN "control" ELSE "op"
  /\ r.control = st.control /\ r.bit = st.bit - 1 /\ r.hi = st.hi /\ r.out = Append(st.out, b)
  /\ r.ok <=> st.ok /\ Len(st.out) < max
MatchLength(st) == (st.hi % 16) + LZSS_MIN_MATCH
EndsMatch(max, st, b, r) ==
  /\ r.mode = IF st.bit = 0 THEN "control" ELSE "op"
  /\ r.control = st.control /\ r.bit = st.bit - 1 /\ r.hi = st.hi
  /\ r.out = MatchCopied(st.out, 256 * (st.hi \div 16) + b, MatchLength(st))
  /\ Len(r.out) = Len(st.out) + MatchLength(st)
  /\ r.ok <=> st.ok /\ Len(st.out) + MatchLength(st) <= max
LzssEffect(max, st, b, r) ==
  /\ r \in LzssStates
  /\ st.mode = "control" => ReadsControl(st, b, r)
  /\ st.mode = "op" /\ st.bit \in st.control => StartsMatch(st, b, r)
  /\ st.mode = "op" /\ st.bit \notin st.control => TakesLiteral(max, st, b, r)
  /\ st.mode = "offset" => EndsMatch(max, st, b, r)

\* Each byte has that effect (compress.cpp:45-96).
LEMMA LzssByteIs ==
  ASSUME NEW max \in Nat, NEW st \in LzssStates, NEW b \in Bytes
  PROVE  LzssEffect(max, st, b, LzssByte(max, st, b))
<1> DEFINE r == LzssByte(max, st, b)
           length == MatchLength(st)
           offset == 256 * (st.hi \div 16) + b
           copied == MatchCopied(st.out, offset, length)
<1>1. /\ st.mode \in {"control", "op", "offset"} /\ st.control \in SUBSET (0..7) /\ st.bit \in Int
      /\ st.hi \in Bytes /\ st.out \in Seq(Bytes) /\ st.ok \in BOOLEAN
  BY DEF LzssStates
<1>2. ByteBits(b) \in SUBSET (0..7) /\ st.bit - 1 \in Int /\ 7 \in Int
  BY <1>1 DEF ByteBits, Bits
<1>3. length \in Nat /\ offset \in Nat
  <2>1. st.hi \in Nat /\ b \in Nat
    BY <1>1, ByteItself
  <2>2. st.hi % 16 \in Nat /\ st.hi \div 16 \in Nat
    BY <2>1
  <2>3. 256 * (st.hi \div 16) \in Nat
    BY <2>2
  <2> QED
    BY <2>1, <2>2, <2>3 DEF LZSS_MIN_MATCH, MatchLength
<1>4. copied \in Seq(Bytes) /\ Len(copied) = Len(st.out) + length
  <2> HIDE DEF length, offset
  <2> QED
    BY <1>1, <1>3, MatchAdds
<1>5. Append(st.out, b) \in Seq(Bytes)
  BY <1>1
<1>6. CASE st.mode = "control"
  <2>1. r = [st EXCEPT !.mode = "op", !.control = ByteBits(b), !.bit = 7]
    BY <1>6 DEF LzssByte
  <2> HIDE DEF r
  <2>2. r \in LzssStates /\ ReadsControl(st, b, r)
    BY <1>1, <1>2, <2>1 DEF LzssStates, ReadsControl
  <2> QED
    BY <1>6, <2>2 DEF LzssEffect, r
<1>7. CASE st.mode = "op" /\ st.bit \in st.control
  <2>1. r = [st EXCEPT !.mode = "offset", !.hi = b]
    BY <1>7 DEF LzssByte
  <2> HIDE DEF r
  <2>2. r \in LzssStates /\ StartsMatch(st, b, r)
    BY <1>1, <2>1 DEF LzssStates, StartsMatch
  <2> QED
    BY <1>7, <2>2 DEF LzssEffect, r
<1> DEFINE left == IF st.bit = 0 THEN "control" ELSE "op"
<1>8. CASE st.mode = "op" /\ st.bit \notin st.control
  <2>1. r = [st EXCEPT !.bit = st.bit - 1, !.mode = left, !.out = Append(st.out, b),
                       !.ok = st.ok /\ Len(st.out) < max]
    BY <1>8, <1>1 DEF LzssByte, LzssStates
  <2> HIDE DEF r
  <2>2. r \in LzssStates /\ TakesLiteral(max, st, b, r)
    BY <1>1, <1>2, <1>5, <2>1 DEF LzssStates, TakesLiteral
  <2> QED
    BY <1>8, <2>2 DEF LzssEffect, r
<1>9. CASE st.mode = "offset"
  <2>1. r = [st EXCEPT !.bit = st.bit - 1, !.mode = left, !.out = copied,
                       !.ok = st.ok /\ Len(st.out) + length <= max]
    BY <1>9, <1>1 DEF LzssByte, LzssStates, MatchLength
  <2> HIDE DEF copied, length, left, r
  <2>2. /\ r \in LzssStates /\ r.mode = left /\ r.control = st.control /\ r.bit = st.bit - 1
        /\ r.hi = st.hi /\ r.out = copied
    BY <1>1, <1>2, <1>3, <1>4, <1>9, <2>1 DEF LzssStates, left
  <2>3. r.ok <=> st.ok /\ Len(st.out) + length <= max
    <3> DEFINE ok == st.ok /\ Len(st.out) + length <= max
    <3>1. "ok" \in DOMAIN st
      BY DEF LzssStates
    <3>2. r.ok = ok
      BY <2>1, <3>1, Zenon
    <3> QED
      BY <3>2
  <2>4. Len(r.out) = Len(st.out) + length
    BY <1>4, <2>2
  <2>5. EndsMatch(max, st, b, r)
    BY <2>2, <2>3, <2>4 DEF copied, length, left, EndsMatch
  <2> QED
    BY <1>9, <2>2, <2>5 DEF LzssEffect, r
<1> QED
  BY <1>1, <1>6, <1>7, <1>8, <1>9

LzssStart == [mode |-> "control", control |-> {}, bit |-> 7, hi |-> 0, out |-> <<>>, ok |-> TRUE]

\* f lists the states of an LZSS expansion.
LzssRuns(f, src, max) ==
  f[0] = LzssStart /\ \A i \in 1..Len(src) : f[i] = LzssByte(max, f[i - 1], src[i])
LzssYield(end) == IF end.ok /\ end.mode # "offset" THEN {end.out} ELSE {}

\* An LZSS expansion has a list of states and yields what is written in the last (compress.cpp:45-96).
LEMMA LzssRunsToEnd ==
  ASSUME NEW src \in Seq(Bytes), NEW max \in Nat
  PROVE  \E f \in [0..Len(src) -> LzssStates] :
           LzssRuns(f, src, max) /\ DecompressLzss(src, max) = LzssYield(f[Len(src)])
<1> DEFINE F == [st \in LzssStates |-> [b \in Bytes |-> LzssByte(max, st, b)]]
<1>1. LzssStart \in LzssStates
  BY ByteItself DEF LzssStart, LzssStates, Bytes
<1>2. F \in Steps(LzssStates, Bytes)
  <2>1. \A st \in LzssStates, b \in Bytes : LzssByte(max, st, b) \in LzssStates
    BY LzssByteIs DEF LzssEffect
  <2> QED
    BY <2>1 DEF Steps
<1>3. \A st \in LzssStates, b \in Bytes : F[st][b] = LzssByte(max, st, b)
  OBVIOUS
<1>4. DecompressLzss(src, max) = LzssYield(Loop(F, LzssStart, src))
  BY DEF DecompressLzss, LzssYield, LzssStart
<1> HIDE DEF F
<1>5. PICK f \in [0..Len(src) -> LzssStates] : Lists(f, F, LzssStart, src) /\ Loop(F, LzssStart, src) = f[Len(src)]
  BY <1>1, <1>2, LoopIs
<1>6. ASSUME NEW i \in 1..Len(src) PROVE f[i] = LzssByte(max, f[i - 1], src[i])
  <2>1. i - 1 \in 0..Len(src)
    OBVIOUS
  <2>2. f[i - 1] \in LzssStates /\ src[i] \in Bytes
    BY <2>1
  <2>3. f[i] = F[f[i - 1]][src[i]]
    BY <1>5 DEF Lists
  <2> QED
    BY <1>3, <2>2, <2>3
<1> QED
  BY <1>4, <1>5, <1>6 DEF LzssRuns, Lists

\* No expansion writes past the room it is given.
LEMMA LzssStaysInside ==
  ASSUME NEW src \in Seq(Bytes), NEW max \in Nat
  PROVE  \A out \in DecompressLzss(src, max) : out \in Seq(Bytes) /\ Len(out) <= max
<1>1. PICK f \in [0..Len(src) -> LzssStates] :
         LzssRuns(f, src, max) /\ DecompressLzss(src, max) = LzssYield(f[Len(src)])
  BY LzssRunsToEnd
<1> DEFINE n == Len(src)
<1>2. n \in Nat /\ \A i \in 1..n : src[i] \in Bytes
  OBVIOUS
<1> HIDE DEF n
<1> DEFINE T == {i \in Nat : i <= n => (f[i].ok => Len(f[i].out) <= max)}
<1>3. 0 \in T
  <2>1. f[0].out = <<>>
    BY <1>1 DEF LzssRuns, LzssStart
  <2> QED
    BY <2>1
<1>4. ASSUME NEW i \in Nat, i \in T PROVE i + 1 \in T
  <2> SUFFICES ASSUME i + 1 <= n, f[i + 1].ok PROVE Len(f[i + 1].out) <= max
    OBVIOUS
  <2> DEFINE st == f[i]
             r == f[i + 1]
             b == src[i + 1]
  <2>1. i \in 0..n /\ i + 1 \in 1..n /\ (i + 1) - 1 = i /\ i <= n
    BY <1>2
  <2>2. st \in LzssStates /\ b \in Bytes /\ r = LzssByte(max, st, b)
    BY <1>1, <1>2, <2>1 DEF LzssRuns, n
  <2>3. st.ok => Len(st.out) <= max
    BY <1>4, <2>1
  <2>4. st.mode \in {"control", "op", "offset"} /\ st.out \in Seq(Bytes)
    BY <2>2 DEF LzssStates
  <2>5. r.ok
    OBVIOUS
  <2> HIDE DEF st, r, b
  <2>6. LzssEffect(max, st, b, r)
    BY <2>2, LzssByteIs
  <2>7. CASE st.mode = "control" \/ (st.mode = "op" /\ st.bit \in st.control)
    <3>1. r.out = st.out /\ (r.ok <=> st.ok)
      BY <2>6, <2>7 DEF LzssEffect, ReadsControl, StartsMatch
    <3> QED
      BY <2>3, <2>5, <3>1 DEF r
  <2>8. CASE st.mode = "op" /\ st.bit \notin st.control
    <3>1. r.out = Append(st.out, b) /\ Len(st.out) < max
      BY <2>5, <2>6, <2>8 DEF LzssEffect, TakesLiteral
    <3>2. Len(r.out) = Len(st.out) + 1 /\ Len(st.out) \in Nat
      BY <2>2, <2>4, <3>1
    <3> QED
      BY <3>1, <3>2 DEF r
  <2>9. CASE st.mode = "offset"
    <3>1. Len(r.out) = Len(st.out) + MatchLength(st) /\ Len(st.out) + MatchLength(st) <= max
      BY <2>5, <2>6, <2>9 DEF LzssEffect, EndsMatch
    <3> QED
      BY <3>1 DEF r
  <2> QED
    BY <2>4, <2>7, <2>8, <2>9
<1>5. n \in T
  <2> HIDE DEF T
  <2> QED
    BY <1>2, <1>3, <1>4, SetInduction
<1>6. f[n] \in LzssStates
  BY <1>2 DEF n
<1> QED
  BY <1>1, <1>2, <1>5, <1>6 DEF LzssYield, LzssStates, n

\* With more room an expansion that succeeds yields the same.
LEMMA LzssMonotone ==
  ASSUME NEW src \in Seq(Bytes), NEW max \in Nat, NEW m \in 0..max
  PROVE  DecompressLzss(src, m) \subseteq DecompressLzss(src, max)
<1>0. m \in Nat
  OBVIOUS
<1>1. PICK f \in [0..Len(src) -> LzssStates] :
         LzssRuns(f, src, m) /\ DecompressLzss(src, m) = LzssYield(f[Len(src)])
  BY <1>0, LzssRunsToEnd
<1>2. PICK g \in [0..Len(src) -> LzssStates] :
         LzssRuns(g, src, max) /\ DecompressLzss(src, max) = LzssYield(g[Len(src)])
  BY LzssRunsToEnd
<1> DEFINE n == Len(src)
           Like(s, t) == /\ s.mode = t.mode /\ s.control = t.control /\ s.bit = t.bit /\ s.hi = t.hi
                         /\ s.out = t.out /\ (s.ok => t.ok)
<1>3. n \in Nat /\ \A i \in 1..n : src[i] \in Bytes
  OBVIOUS
<1>4. ASSUME NEW s \in LzssStates, NEW t \in LzssStates, Like(s, t), NEW b \in Bytes
      PROVE  Like(LzssByte(m, s, b), LzssByte(max, t, b))
  <2> DEFINE r == LzssByte(m, s, b)
             u == LzssByte(max, t, b)
  <2>1. s.mode \in {"control", "op", "offset"} /\ s.out \in Seq(Bytes) /\ s.hi \in Bytes
    BY DEF LzssStates
  <2>2. LzssEffect(m, s, b, r) /\ LzssEffect(max, t, b, u)
    BY <1>0, LzssByteIs
  <2>3. s.mode = t.mode /\ s.control = t.control /\ s.bit = t.bit /\ s.hi = t.hi /\ s.out = t.out /\ (s.ok => t.ok)
    BY <1>4
  <2> HIDE DEF r, u
  <2>4. CASE s.mode = "control"
    <3>1. ReadsControl(s, b, r) /\ ReadsControl(t, b, u)
      BY <2>2, <2>3, <2>4 DEF LzssEffect
    <3> QED
      BY <2>3, <3>1 DEF r, u, ReadsControl
  <2>5. CASE s.mode = "op" /\ s.bit \in s.control
    <3>1. StartsMatch(s, b, r) /\ StartsMatch(t, b, u)
      BY <2>2, <2>3, <2>5 DEF LzssEffect
    <3> QED
      BY <2>3, <3>1 DEF r, u, StartsMatch
  <2>6. CASE s.mode = "op" /\ s.bit \notin s.control
    <3>1. TakesLiteral(m, s, b, r) /\ TakesLiteral(max, t, b, u)
      BY <2>2, <2>3, <2>6 DEF LzssEffect
    <3>2. Len(s.out) \in Nat
      BY <2>1
    <3>3. Len(s.out) < m => Len(t.out) < max
      BY <1>0, <2>3, <3>2
    <3> QED
      BY <2>3, <3>1, <3>3, Zenon DEF r, u, TakesLiteral
  <2>7. CASE s.mode = "offset"
    <3>1. EndsMatch(m, s, b, r) /\ EndsMatch(max, t, b, u)
      BY <2>2, <2>3, <2>7 DEF LzssEffect
    <3>2. MatchLength(t) = MatchLength(s)
      BY <2>3 DEF MatchLength
    <3>3. Len(s.out) + MatchLength(s) \in Nat
      <4>1. Len(s.out) \in Nat /\ s.hi \in Nat
        BY <2>1, ByteItself
      <4>2. s.hi % 16 \in Nat
        BY <4>1
      <4> QED
        BY <4>1, <4>2 DEF LZSS_MIN_MATCH, MatchLength
    <3>4. Len(s.out) + MatchLength(s) <= m => Len(t.out) + MatchLength(t) <= max
      BY <1>0, <2>3, <3>2, <3>3
    <3>5. r.out = u.out /\ r.hi = u.hi
      <4>1. 256 * (s.hi \div 16) + b = 256 * (t.hi \div 16) + b
        BY <2>3
      <4> QED
        BY <2>3, <3>1, <3>2, <4>1, SMT DEF EndsMatch
    <3>6. r.ok => u.ok
      BY <2>3, <3>1, <3>4, Zenon DEF EndsMatch
    <3>7. r.mode = u.mode /\ r.control = u.control /\ r.bit = u.bit
      BY <2>3, <3>1, ZenonT(60) DEF EndsMatch
    <3> QED
      BY <3>5, <3>6, <3>7 DEF r, u
  <2> QED
    BY <2>1, <2>4, <2>5, <2>6, <2>7
<1> DEFINE T == {i \in Nat : i <= n => Like(f[i], g[i])}
<1>5. 0 \in T
  BY <1>1, <1>2 DEF LzssRuns
<1> HIDE DEF Like
<1>6. ASSUME NEW i \in Nat, i \in T PROVE i + 1 \in T
  <2> SUFFICES ASSUME i + 1 <= n PROVE Like(f[i + 1], g[i + 1])
    OBVIOUS
  <2>1. i \in 0..n /\ i + 1 \in 1..n /\ (i + 1) - 1 = i /\ i <= n
    BY <1>3
  <2>2. f[i] \in LzssStates /\ g[i] \in LzssStates /\ Like(f[i], g[i]) /\ src[i + 1] \in Bytes
    BY <1>3, <1>6, <2>1
  <2>3. f[i + 1] = LzssByte(m, f[i], src[i + 1]) /\ g[i + 1] = LzssByte(max, g[i], src[i + 1])
    BY <1>1, <1>2, <2>1 DEF LzssRuns
  <2> QED
    BY <1>4, <2>2, <2>3
<1>7. Like(f[n], g[n])
  <2> HIDE DEF T
  <2>1. n \in T
    BY <1>3, <1>5, <1>6, SetInduction
  <2> QED
    BY <1>3, <2>1 DEF T
<1> QED
  BY <1>1, <1>2, <1>7 DEF LzssYield, Like

\* The first elements of a sequence, and one more.
Beginning(q, i) == [k \in 1..i |-> q[k]]

\* One more of the first elements.
LEMMA FrontGrows ==
  ASSUME NEW S, NEW q \in Seq(S), NEW i \in Nat, i + 1 <= Len(q)
  PROVE  Beginning(q, i) \in Seq(S) /\ Len(Beginning(q, i)) = i /\ Append(Beginning(q, i), q[i + 1]) = Beginning(q, i + 1)
<1>1. \A k \in 1..i + 1 : q[k] \in S
  OBVIOUS
<1>2. Beginning(q, i) \in [1..i -> S]
  BY <1>1 DEF Beginning
<1>3. Beginning(q, i) \in Seq(S) /\ Len(Beginning(q, i)) = i
  BY <1>2
<1> DEFINE a == Append(Beginning(q, i), q[i + 1])
<1>4. DOMAIN a = 1..i + 1
  BY <1>3
<1>5. ASSUME NEW k \in 1..i + 1 PROVE a[k] = q[k]
  <2>1. CASE k \in 1..i
    BY <1>3, <2>1 DEF Beginning
  <2>2. CASE k = i + 1
    BY <1>3, <2>2
  <2>3. k \in 1..i \/ k = i + 1
    OBVIOUS
  <2> QED
    BY <2>1, <2>2, <2>3, Zenon
<1>6. a = [k \in 1..i + 1 |-> a[k]]
  BY <1>3, <1>4
<1> HIDE DEF a
<1>7. a = Beginning(q, i + 1)
  BY <1>5, <1>6 DEF Beginning
<1> QED
  BY <1>3, <1>7 DEF a

\* All of them are the sequence.
LEMMA WholeFront == ASSUME NEW S, NEW q \in Seq(S) PROVE Beginning(q, Len(q)) = q /\ Beginning(q, 0) = <<>>
<1>1. Beginning(q, Len(q)) = q
  BY DEF Beginning
<1>2. 1..0 = {}
  OBVIOUS
<1>3. Beginning(q, 0) = <<>>
  BY <1>2 DEF Beginning
<1> QED
  BY <1>1, <1>3

\* A control byte of no bits stands before up to eight bytes that are taken as they are.
LEMMA LiteralsReturn ==
  ASSUME NEW bytes \in Seq(Bytes), Len(bytes) <= 8
  PROVE  DecompressLzss(<<0>> \o bytes, 8) = {bytes}
<1>0. Len(bytes) \in Nat /\ bytes \in [1..Len(bytes) -> Bytes]
  BY LenProperties, Zenon
<1> DEFINE n == Len(bytes)
<1>1. n \in 0..8 /\ bytes \in [1..n -> Bytes]
  <2>1. ASSUME NEW l \in Nat, l <= 8 PROVE l \in 0..8
    BY <2>1
  <2> QED
    BY <1>0, <2>1, Zenon
<1> DEFINE zero == <<0>>
           src == zero \o bytes
<1>2. zero \in Seq(Bytes) /\ Len(zero) = 1 /\ zero[1] = 0
  BY DEF Bytes
<1>3. src \in Seq(Bytes) /\ Len(src) = n + 1 /\ src[1] = 0 /\ \A i \in 1..n : src[i + 1] = bytes[i]
  <2> HIDE DEF zero
  <2>1. /\ src \in Seq(Bytes) /\ Len(src) = Len(zero) + Len(bytes)
        /\ \A k \in 1..Len(zero) + Len(bytes) :
             src[k] = IF k <= Len(zero) THEN zero[k] ELSE bytes[k - Len(zero)]
    BY <1>2, JoinedIs
  <2> HIDE DEF src
  <2>2. Len(src) = n + 1 /\ \A k \in 1..n + 1 : src[k] = IF k <= 1 THEN zero[k] ELSE bytes[k - 1]
    BY <1>1, <1>2, <2>1
  <2>3. 1 \in 1..n + 1 /\ \A i \in 1..n : i + 1 \in 1..n + 1 /\ ~(i + 1 <= 1) /\ i + 1 - 1 = i
    BY <1>1
  <2>4. src[1] = 0
    BY <1>2, <2>2, <2>3
  <2>5. \A i \in 1..n : src[i + 1] = bytes[i]
    BY <2>2, <2>3
  <2> QED
    BY <2>1, <2>2, <2>4, <2>5
<1> HIDE DEF src
<1>4. PICK f \in [0..n + 1 -> LzssStates] :
         LzssRuns(f, src, 8) /\ DecompressLzss(src, 8) = LzssYield(f[n + 1])
  BY <1>3, LzssRunsToEnd, ZenonT(60)
<1>5. \A i \in 1..n + 1 : f[i] = LzssByte(8, f[i - 1], src[i]) /\ f[i - 1] \in LzssStates /\ src[i] \in Bytes
  <2>1. \A i \in 1..n + 1 : i - 1 \in 0..n + 1
    BY <1>1
  <2> QED
    BY <1>3, <1>4, <2>1, SMTT(30) DEF LzssRuns
<1>6. \A i \in 1..n + 1 : LzssEffect(8, f[i - 1], src[i], f[i])
  BY <1>5, LzssByteIs
<1> DEFINE T == {i \in Nat : i <= n => /\ f[i + 1].mode = IF i = 8 THEN "control" ELSE "op"
                                       /\ f[i + 1].control = {} /\ f[i + 1].bit = 7 - i
                                       /\ f[i + 1].out = Beginning(bytes, i) /\ f[i + 1].ok}
<1>7. 0 \in T
  <2>1. 1 \in 1..n + 1 /\ 1 - 1 = 0
    BY <1>1
  <2>2. LzssEffect(8, f[0], 0, f[1]) /\ f[0] = LzssStart
    BY <1>3, <1>4, <1>6, <2>1 DEF LzssRuns
  <2>3. ReadsControl(LzssStart, 0, f[1])
    BY <2>2 DEF LzssEffect, LzssStart
  <2>4. ByteBits(0) = {}
    <3> SUFFICES ASSUME NEW i \in 0..7 PROVE (0 \div 2^i) % 2 # 1
      BY DEF ByteBits, Bits
    <3>1. 2^i \in Nat \ {0}
      <4>1. i \in 0..31
        OBVIOUS
      <4> QED
        BY <4>1, Powers
    <3> DEFINE p == 2^i
    <3> HIDE DEF p
    <3>2. 0 \div p = 0
      BY <3>1, NoQuotient DEF p
    <3>3. (0 \div p) % 2 = 0
      BY <3>2
    <3> QED
      BY <3>3 DEF p
  <2>5. Beginning(bytes, 0) = <<>>
    BY WholeFront
  <2> QED
    BY <2>3, <2>4, <2>5 DEF ReadsControl, LzssStart
<1>8. ASSUME NEW i \in Nat, i \in T PROVE i + 1 \in T
  <2> SUFFICES ASSUME i + 1 <= n
               PROVE  /\ f[i + 1 + 1].mode = IF i + 1 = 8 THEN "control" ELSE "op"
                      /\ f[i + 1 + 1].control = {} /\ f[i + 1 + 1].bit = 7 - (i + 1)
                      /\ f[i + 1 + 1].out = Beginning(bytes, i + 1) /\ f[i + 1 + 1].ok
    OBVIOUS
  <2> DEFINE j == i + 1
             st == f[j]
             r == f[j + 1]
             b == bytes[j]
  <2>1. i \in 0..7 /\ j \in 1..n /\ j + 1 \in 1..n + 1 /\ (j + 1) - 1 = j /\ i <= n /\ i # 8
    BY <1>1
  <2>2. LzssEffect(8, st, b, r) /\ st \in LzssStates
    BY <1>3, <1>5, <1>6, <2>1
  <2>3. st.mode = "op" /\ st.control = {} /\ st.bit = 7 - i /\ st.out = Beginning(bytes, i) /\ st.ok
    BY <1>8, <2>1
  <2> HIDE DEF st, r, b
  <2>4. TakesLiteral(8, st, b, r)
    BY <2>2, <2>3 DEF LzssEffect
  <2>5. Beginning(bytes, i) \in Seq(Bytes) /\ Len(Beginning(bytes, i)) = i /\ Append(Beginning(bytes, i), b) = Beginning(bytes, j)
    BY FrontGrows DEF b
  <2>6. r.out = Beginning(bytes, j) /\ r.ok
    BY <2>1, <2>3, <2>4, <2>5 DEF TakesLiteral
  <2>7. r.mode = (IF j = 8 THEN "control" ELSE "op") /\ r.control = {} /\ r.bit = 7 - j
    BY <2>1, <2>3, <2>4, SMTT(30) DEF TakesLiteral
  <2> QED
    BY <2>6, <2>7 DEF r
<1>9. n \in T
  <2> HIDE DEF T
  <2> QED
    BY <1>1, <1>7, <1>8, SetInduction
<1>10. f[n + 1].mode # "offset" /\ f[n + 1].out = bytes /\ f[n + 1].ok
  <2>1. Beginning(bytes, n) = bytes
    BY WholeFront
  <2> QED
    BY <1>1, <1>9, <2>1
<1> QED
  BY <1>4, <1>10 DEF LzssYield, src

\* What one byte does to a run-length expansion: a tag of a run, of a literal or of nothing, the byte
\* that a run repeats, or one byte of a literal.
StartsRun(st, b, r) == r.mode = "run" /\ r.n = b - 128 /\ r.out = st.out /\ (r.ok <=> st.ok)
StartsLiteral(max, st, b, r) ==
  r.mode = "literal" /\ r.n = b /\ r.out = st.out /\ (r.ok <=> st.ok /\ Len(st.out) + b <= max)
Repeated(b, n) == [i \in 1..n |-> b]
EndsRun(max, st, b, r) ==
  /\ r.mode = "tag" /\ r.out = st.out \o Repeated(b, st.n)
  /\ r.ok <=> st.ok /\ (Repeated(b, st.n) = <<>> \/ Len(st.out) + Len(Repeated(b, st.n)) <= max)
GoesOnLiteral(st, b, r) ==
  /\ r.mode = IF st.n = 1 THEN "tag" ELSE "literal"
  /\ r.n = st.n - 1 /\ r.out = Append(st.out, b) /\ (r.ok <=> st.ok)
RleEffect(max, st, b, r) ==
  /\ r \in RleStates
  /\ st.mode = "tag" /\ b >= 128 => StartsRun(st, b, r)
  /\ st.mode = "tag" /\ b \in 1..127 => StartsLiteral(max, st, b, r)
  /\ st.mode = "tag" /\ b = 0 => r = st
  /\ st.mode = "run" => EndsRun(max, st, b, r)
  /\ st.mode = "literal" => GoesOnLiteral(st, b, r)

\* Each byte has that effect (compress.cpp:7-43).
LEMMA RleByteIs ==
  ASSUME NEW max \in Nat, NEW st \in RleStates, NEW b \in Bytes
  PROVE  RleEffect(max, st, b, RleByte(max, st, b))
<1> DEFINE r == RleByte(max, st, b)
           bytes == Repeated(b, st.n)
<1>1. /\ st.mode \in {"tag", "run", "literal"} /\ st.n \in Int /\ st.out \in Seq(Bytes) /\ st.ok \in BOOLEAN
      /\ b \in 0..255
  BY DEF RleStates, Bytes
<1>2. bytes \in Seq(Bytes)
  <2>1. CASE st.n \in Nat
    BY <2>1 DEF Repeated
  <2>2. CASE st.n \notin Nat
    <3>1. 1..st.n = {}
      BY <1>1, <2>2
    <3>2. bytes = <<>>
      BY <3>1 DEF Repeated
    <3> QED
      BY <3>2
  <2> QED
    BY <2>1, <2>2
<1> HIDE DEF bytes
<1>3. st.out \o bytes \in Seq(Bytes)
  BY <1>1, <1>2
<1>4. CASE st.mode = "tag" /\ b >= 128
  <2>1. r = [st EXCEPT !.mode = "run", !.n = b - 128]
    BY <1>4 DEF RleByte
  <2> HIDE DEF r
  <2>2. r \in RleStates /\ StartsRun(st, b, r)
    <3>1. b - 128 \in Int
      BY <1>1
    <3>2. r = [mode |-> "run", n |-> b - 128, out |-> st.out, ok |-> st.ok]
      BY <2>1 DEF RleStates
    <3>3. r \in RleStates
      BY <1>1, <3>1, <3>2 DEF RleStates
    <3>4. r.mode = "run" /\ r.n = b - 128 /\ r.out = st.out /\ r.ok = st.ok
      BY <3>2, Zenon
    <3> QED
      BY <3>3, <3>4 DEF StartsRun
  <2> QED
    BY <1>1, <1>4, <2>2 DEF RleEffect, r
<1>5. CASE st.mode = "tag" /\ b \in 1..127
  <2>1. r = [st EXCEPT !.mode = "literal", !.n = b, !.ok = st.ok /\ Len(st.out) + b <= max]
    <3>1. ~(b >= 128) /\ b # 0
      BY <1>1, <1>5
    <3> QED
      BY <1>5, <3>1 DEF RleByte, RleStates
  <2> HIDE DEF r
  <2>2. r \in RleStates /\ StartsLiteral(max, st, b, r)
    <3> DEFINE ok == st.ok /\ Len(st.out) + b <= max
    <3>1. b \in Int /\ ok \in BOOLEAN
      BY <1>1
    <3> HIDE DEF ok
    <3>2. r = [mode |-> "literal", n |-> b, out |-> st.out, ok |-> ok]
      BY <2>1 DEF RleStates, ok
    <3>3. r \in RleStates
      BY <1>1, <3>1, <3>2 DEF RleStates
    <3>4. r.mode = "literal" /\ r.n = b /\ r.out = st.out /\ r.ok = ok
      BY <3>2, Zenon
    <3> QED
      BY <3>3, <3>4 DEF StartsLiteral, ok
  <2> QED
    BY <1>1, <1>5, <2>2 DEF RleEffect, r
<1>6. CASE st.mode = "tag" /\ b = 0
  <2>1. r = st
    BY <1>6 DEF RleByte
  <2> QED
    BY <1>6, <2>1 DEF RleEffect
<1>7. CASE st.mode = "run"
  <2>1. r = [mode |-> "tag", n |-> 0, out |-> st.out \o bytes,
             ok |-> st.ok /\ (bytes = <<>> \/ Len(st.out) + Len(bytes) <= max)]
    BY <1>7 DEF RleByte, bytes, Repeated
  <2> HIDE DEF r
  <2>2. r.mode = "tag" /\ r.out = st.out \o bytes
        /\ (r.ok <=> st.ok /\ (bytes = <<>> \/ Len(st.out) + Len(bytes) <= max))
    BY <2>1, Zenon
  <2>3. r \in RleStates
    BY <1>1, <1>3, <2>1 DEF RleStates
  <2> QED
    BY <1>7, <2>2, <2>3 DEF RleEffect, EndsRun, bytes, r
<1>8. CASE st.mode = "literal"
  <2> DEFINE left == IF st.n = 1 THEN "tag" ELSE "literal"
  <2>1. r = [st EXCEPT !.out = Append(st.out, b), !.n = st.n - 1, !.mode = left]
    BY <1>8 DEF RleByte, RleStates
  <2> HIDE DEF r
  <2>2. r \in RleStates /\ GoesOnLiteral(st, b, r)
    <3> HIDE DEF left
    <3>1. st.n - 1 \in Int /\ Append(st.out, b) \in Seq(Bytes) /\ left \in {"tag", "literal"}
      BY <1>1 DEF left
    <3>2. r = [mode |-> left, n |-> st.n - 1, out |-> Append(st.out, b), ok |-> st.ok]
      BY <2>1 DEF RleStates
    <3>3. r \in RleStates
      BY <1>1, <3>1, <3>2 DEF RleStates
    <3>4. r.mode = left /\ r.n = st.n - 1 /\ r.out = Append(st.out, b) /\ r.ok = st.ok
      BY <3>2, Zenon
    <3> QED
      BY <3>3, <3>4 DEF GoesOnLiteral, left
  <2> QED
    BY <1>8, <2>2 DEF RleEffect, r
<1>9. b >= 128 \/ b \in 1..127 \/ b = 0
  BY <1>1
<1> QED
  BY <1>1, <1>4, <1>5, <1>6, <1>7, <1>8, <1>9

RleStart == [mode |-> "tag", n |-> 0, out |-> <<>>, ok |-> TRUE]

\* f lists the states of a run-length expansion.
RleRuns(f, src, max) ==
  f[0] = RleStart /\ \A i \in 1..Len(src) : RleEffect(max, f[i - 1], src[i], f[i])
RleYield(end) == IF end.ok /\ end.mode = "tag" THEN {end.out} ELSE {}

\* A run-length expansion has a list of states and yields what is written in the last.
LEMMA RleRunsToEnd ==
  ASSUME NEW src \in Seq(Bytes), NEW max \in Nat
  PROVE  \E f \in [0..Len(src) -> RleStates] :
           RleRuns(f, src, max) /\ DecompressRle(src, max) = RleYield(f[Len(src)])
<1> DEFINE F == [st \in RleStates |-> [b \in Bytes |-> RleByte(max, st, b)]]
<1>1. RleStart \in RleStates
  BY DEF RleStart, RleStates
<1>2. F \in Steps(RleStates, Bytes)
  <2>1. \A st \in RleStates, b \in Bytes : RleByte(max, st, b) \in RleStates
    BY RleByteIs DEF RleEffect
  <2> QED
    BY <2>1 DEF Steps
<1>3. \A st \in RleStates, b \in Bytes : F[st][b] = RleByte(max, st, b)
  OBVIOUS
<1>4. DecompressRle(src, max) = RleYield(Loop(F, RleStart, src))
  BY DEF DecompressRle, RleYield, RleStart
<1> HIDE DEF F
<1>5. PICK f \in [0..Len(src) -> RleStates] : Lists(f, F, RleStart, src) /\ Loop(F, RleStart, src) = f[Len(src)]
  BY <1>1, <1>2, LoopIs
<1>6. ASSUME NEW i \in 1..Len(src) PROVE RleEffect(max, f[i - 1], src[i], f[i])
  <2>1. i - 1 \in 0..Len(src)
    OBVIOUS
  <2>2. f[i - 1] \in RleStates /\ src[i] \in Bytes
    BY <2>1
  <2>3. f[i] = F[f[i - 1]][src[i]]
    BY <1>5 DEF Lists
  <2>4. f[i] = RleByte(max, f[i - 1], src[i])
    BY <1>3, <2>2, <2>3
  <2> QED
    BY <2>2, <2>4, RleByteIs
<1> QED
  BY <1>4, <1>5, <1>6 DEF RleRuns, Lists

\* No run-length expansion writes past the room it is given: a literal has asked for its room before.
LEMMA RleStaysInside ==
  ASSUME NEW src \in Seq(Bytes), NEW max \in Nat
  PROVE  \A out \in DecompressRle(src, max) : out \in Seq(Bytes) /\ Len(out) <= max
<1>1. PICK f \in [0..Len(src) -> RleStates] :
         RleRuns(f, src, max) /\ DecompressRle(src, max) = RleYield(f[Len(src)])
  BY RleRunsToEnd
<1> DEFINE n == Len(src)
           Inside(s) == s.ok => IF s.mode = "literal" THEN s.n >= 1 /\ Len(s.out) + s.n <= max ELSE Len(s.out) <= max
<1>2. n \in Nat /\ \A i \in 1..n : src[i] \in Bytes
  OBVIOUS
<1>3. ASSUME NEW st \in RleStates, Inside(st), NEW b \in Bytes, NEW r, RleEffect(max, st, b, r)
      PROVE  Inside(r)
  <2>1. /\ st.mode \in {"tag", "run", "literal"} /\ st.n \in Int /\ Len(st.out) \in Nat
        /\ st.out \in Seq(Bytes) /\ b \in 0..255
    BY DEF RleStates, Bytes
  <2>2. st.ok => IF st.mode = "literal" THEN st.n >= 1 /\ Len(st.out) + st.n <= max ELSE Len(st.out) <= max
    BY <1>3
  <2>3. SUFFICES ASSUME r.ok
                 PROVE  IF r.mode = "literal" THEN r.n >= 1 /\ Len(r.out) + r.n <= max ELSE Len(r.out) <= max
    OBVIOUS
  <2> HIDE DEF Inside
  <2>4. CASE st.mode = "tag" /\ b >= 128
    <3>1. StartsRun(st, b, r)
      BY <1>3, <2>4 DEF RleEffect
    <3> QED
      BY <2>2, <2>3, <2>4, <3>1 DEF StartsRun
  <2>5. CASE st.mode = "tag" /\ b \in 1..127
    <3>1. StartsLiteral(max, st, b, r)
      BY <1>3, <2>5 DEF RleEffect
    <3> QED
      BY <2>1, <2>2, <2>3, <2>5, <3>1 DEF StartsLiteral
  <2>6. CASE st.mode = "tag" /\ b = 0
    BY <1>3, <2>2, <2>3, <2>6 DEF RleEffect
  <2>7. CASE st.mode = "run"
    <3> DEFINE bytes == Repeated(b, st.n)
    <3>1. /\ r.mode = "tag" /\ r.out = st.out \o bytes
          /\ st.ok /\ (bytes = <<>> \/ Len(st.out) + Len(bytes) <= max)
      BY <1>3, <2>3, <2>7 DEF RleEffect, EndsRun
    <3>2. st.out \o <<>> = st.out /\ Len(st.out) <= max
      BY <2>1, <2>2, <2>7, <3>1
    <3>3. bytes \in Seq(Bytes)
      <4>1. CASE st.n \in Nat
        BY <4>1 DEF Repeated
      <4>2. CASE st.n \notin Nat
        <5>1. 1..st.n = {}
          BY <2>1, <4>2
        <5>2. bytes = <<>>
          BY <5>1 DEF Repeated
        <5> QED
          BY <5>2
      <4> QED
        BY <4>1, <4>2
    <3> HIDE DEF bytes
    <3>4. Len(r.out) = Len(st.out) + Len(bytes)
      BY <2>1, <3>1, <3>3, JoinedIs
    <3> QED
      BY <3>1, <3>2, <3>4
  <2>8. CASE st.mode = "literal"
    <3>1. GoesOnLiteral(st, b, r)
      BY <1>3, <2>8 DEF RleEffect
    <3>2. Len(Append(st.out, b)) = Len(st.out) + 1
      BY <2>1
    <3> QED
      BY <2>1, <2>2, <2>3, <2>8, <3>1, <3>2 DEF GoesOnLiteral
  <2>9. b >= 128 \/ b \in 1..127 \/ b = 0
    BY <2>1
  <2> QED
    BY <2>1, <2>4, <2>5, <2>6, <2>7, <2>8, <2>9
<1> DEFINE T == {i \in Nat : i <= n => Inside(f[i])}
<1>4. 0 \in T
  BY <1>1 DEF RleRuns, RleStart
<1> HIDE DEF Inside, n
<1>5. ASSUME NEW i \in Nat, i \in T PROVE i + 1 \in T
  <2> SUFFICES ASSUME i + 1 <= n PROVE Inside(f[i + 1])
    OBVIOUS
  <2>1. i \in 0..n /\ i + 1 \in 1..n /\ (i + 1) - 1 = i /\ i <= n
    BY <1>2
  <2>2. f[i] \in RleStates /\ src[i + 1] \in Bytes /\ RleEffect(max, f[i], src[i + 1], f[i + 1])
    BY <1>1, <1>2, <2>1 DEF RleRuns, n
  <2>3. Inside(f[i])
    BY <1>5, <2>1
  <2> QED
    BY <1>3, <2>2, <2>3
<1>6. n \in T
  <2> HIDE DEF T
  <2> QED
    BY <1>2, <1>4, <1>5, SetInduction
<1>7. f[n] \in RleStates /\ Inside(f[n])
  BY <1>2, <1>6 DEF n
<1> QED
  BY <1>1, <1>7 DEF RleYield, RleStates, n, Inside

-----------------------------------------------------------------------------
(* The two run-length decoders: one goes byte by byte, the other tag by tag.   *)

\* What a tag announces: how many bytes, where the next tag stands, and which bytes they are.
TagCount(src, rp) == src[rp] % 128
TagNext(src, rp) == IF src[rp] >= 128 THEN rp + 2 ELSE rp + 1 + TagCount(src, rp)
TagBytes(src, rp) ==
  IF src[rp] >= 128 THEN Repeated(src[rp + 1], TagCount(src, rp))
                    ELSE SubSeq(src, rp + 1, rp + TagCount(src, rp))

\* An expansion that has failed stays so.
LEMMA FailureLasts ==
  ASSUME NEW src \in Seq(Bytes), NEW max \in Nat, NEW f \in [0..Len(src) -> RleStates], RleRuns(f, src, max),
         NEW i \in 0..Len(src), ~f[i].ok
  PROVE  RleYield(f[Len(src)]) = {}
<1> DEFINE n == Len(src)
           T == {k \in Nat : i + k <= n => ~f[i + k].ok}
<1>1. n \in Nat /\ \A j \in 1..n : src[j] \in Bytes
  OBVIOUS
<1>2. 0 \in T
  OBVIOUS
<1>3. ASSUME NEW k \in Nat, k \in T PROVE k + 1 \in T
  <2> SUFFICES ASSUME i + (k + 1) <= n PROVE ~f[i + (k + 1)].ok
    OBVIOUS
  <2> DEFINE j == i + (k + 1)
             st == f[j - 1]
             b == src[j]
             r == f[j]
  <2>1. j \in 1..n /\ j - 1 \in 0..n /\ j - 1 = i + k /\ i + k <= n
    BY <1>1
  <2>2. ~st.ok /\ st \in RleStates /\ b \in Bytes /\ RleEffect(max, st, b, r)
    BY <1>1, <1>3, <2>1 DEF RleRuns
  <2> HIDE DEF st, b, r
  <2>3. st.mode \in {"tag", "run", "literal"} /\ (b >= 128 \/ b \in 1..127 \/ b = 0)
    BY <2>2 DEF RleStates, Bytes
  <2>4. ~r.ok
    BY <2>2, <2>3 DEF RleEffect, StartsRun, StartsLiteral, EndsRun, GoesOnLiteral
  <2> QED
    BY <2>4 DEF r
<1>4. n - i \in Nat /\ i + (n - i) = n
  BY <1>1
<1> HIDE DEF T, n
<1>5. n - i \in T
  BY <1>2, <1>3, <1>4, SetInduction
<1> QED
  BY <1>4, <1>5 DEF T, n, RleYield

\* The bytes behind a place.
Behind(src, p) == [k \in 1..Len(src) - p |-> src[p + k]]

\* What stands behind a place are the elements from there on, front by front.
LEMMA BehindIs ==
  ASSUME NEW S, NEW src \in Seq(S), NEW p \in 0..Len(src)
  PROVE  /\ Behind(src, p) \in Seq(S) /\ Len(Behind(src, p)) = Len(src) - p
         /\ \A j \in 0..Len(src) - p : SubSeq(src, p + 1, p + j) = Beginning(Behind(src, p), j)
<1> DEFINE m == Len(src) - p
<1>1. Len(src) \in Nat /\ \A k \in 1..Len(src) : src[k] \in S
  OBVIOUS
<1>2. m \in Nat /\ \A k \in 1..m : p + k \in 1..Len(src)
  BY <1>1
<1>3. Behind(src, p) = [k \in 1..m |-> src[p + k]]
  BY DEF Behind
<1>4. Behind(src, p) \in Seq(S) /\ Len(Behind(src, p)) = m
  BY <1>1, <1>2, <1>3
<1>5. ASSUME NEW j \in 0..m PROVE SubSeq(src, p + 1, p + j) = Beginning(Behind(src, p), j)
  <2>1. SubSeq(src, p + 1, p + j) = [k \in 1..(p + j) - (p + 1) + 1 |-> src[k + (p + 1) - 1]]
    BY <1>1 DEF SubSeq
  <2>2. (p + j) - (p + 1) + 1 = j /\ \A k \in 1..j : k + (p + 1) - 1 = p + k /\ k \in 1..m
    BY <1>2
  <2>3. SubSeq(src, p + 1, p + j) = [k \in 1..j |-> src[p + k]]
    BY <2>1, <2>2
  <2>4. Beginning(Behind(src, p), j) = [k \in 1..j |-> src[p + k]]
    BY <1>3, <2>2 DEF Beginning
  <2> QED
    BY <2>3, <2>4
<1> QED
  BY <1>4, <1>5

\* An element behind two sequences is one behind the second.
LEMMA AppendJoined == \A S : \A t, a \in Seq(S), x \in S : Append(a \o t, x) = a \o Append(t, x)
<1> SUFFICES ASSUME NEW S, NEW t \in Seq(S), NEW a \in Seq(S), NEW x \in S
             PROVE  Append(a \o t, x) = a \o Append(t, x)
  OBVIOUS
<1>1. <<x>> \in Seq(S) /\ a \o t \in Seq(S)
  OBVIOUS
<1>2. Append(a \o t, x) = (a \o t) \o <<x>> /\ Append(t, x) = t \o <<x>>
  BY <1>1, AppendIsConcat
<1>3. (a \o t) \o <<x>> = a \o (t \o <<x>>)
  BY <1>1, ConcatAssociative
<1> QED
  BY <1>2, <1>3

\* The state after j bytes of a literal that starts behind rp.
LiteralAt(src, f, rp, count, out, j) ==
  /\ f[rp + j].mode = IF j = count THEN "tag" ELSE "literal"
  /\ f[rp + j].n = count - j /\ f[rp + j].out = out \o Beginning(Behind(src, rp), j) /\ f[rp + j].ok

\* A literal is taken byte by byte, as far as the input goes.
LEMMA LiteralTaken ==
  ASSUME NEW src \in Seq(Bytes), NEW max \in Nat, NEW f \in [0..Len(src) -> RleStates], RleRuns(f, src, max),
         NEW rp \in 1..Len(src), NEW count \in 1..127, NEW out \in Seq(Bytes),
         f[rp].mode = "literal", f[rp].n = count, f[rp].out = out, f[rp].ok
  PROVE  \A j \in 0..count : rp + j <= Len(src) => LiteralAt(src, f, rp, count, out, j)
<1> DEFINE n == Len(src)
           later == Behind(src, rp)
           Now(j) == /\ f[rp + j].mode = IF j = count THEN "tag" ELSE "literal"
                     /\ f[rp + j].n = count - j /\ f[rp + j].out = out \o Beginning(later, j) /\ f[rp + j].ok
           T == {j \in Nat : j <= count /\ rp + j <= n => Now(j)}
<1>1. n \in Nat /\ \A j \in 1..n : src[j] \in Bytes
  OBVIOUS
<1>2. later \in Seq(Bytes) /\ Len(later) = n - rp /\ \A k \in 1..n - rp : later[k] = src[rp + k]
  <2>1. rp \in 0..n
    BY <1>1
  <2> QED
    BY <2>1, BehindIs DEF Behind
<1> HIDE DEF later
<1>3. 0 \in T
  <2>1. Beginning(later, 0) = <<>> /\ out \o <<>> = out
    BY <1>2, WholeFront
  <2> QED
    BY <2>1
<1>4. ASSUME NEW j \in Nat, j \in T PROVE j + 1 \in T
  <2> SUFFICES ASSUME j + 1 <= count, rp + (j + 1) <= n PROVE Now(j + 1)
    OBVIOUS
  <2> DEFINE k == rp + (j + 1)
             st == f[rp + j]
             b == src[k]
             r == f[k]
  <2>1. /\ k \in 1..n /\ k - 1 = rp + j /\ rp + j \in 0..n /\ rp + j <= n /\ j <= count /\ j # count
        /\ j + 1 <= n - rp /\ j + 1 \in 1..n - rp
    BY <1>1
  <2>2. Now(j)
    BY <1>4, <2>1
  <2>3. st \in RleStates /\ b \in Bytes /\ RleEffect(max, st, b, r)
    BY <1>1, <2>1 DEF RleRuns
  <2>4. st.mode = "literal" /\ st.n = count - j /\ st.out = out \o Beginning(later, j) /\ st.ok
    BY <2>1, <2>2
  <2> HIDE DEF st, r
  <2>5. GoesOnLiteral(st, b, r)
    BY <2>3, <2>4 DEF RleEffect
  <2>6. Beginning(later, j) \in Seq(Bytes) /\ Append(Beginning(later, j), b) = Beginning(later, j + 1)
    <3>1. j + 1 <= Len(later) /\ later[j + 1] = b
      BY <1>2, <2>1
    <3> QED
      BY <1>2, <3>1, FrontGrows, ZenonT(60)
  <2>7. Append(out \o Beginning(later, j), b) = out \o Append(Beginning(later, j), b)
    <3> DEFINE s == Beginning(later, j)
    <3>1. s \in Seq(Bytes) /\ out \in Seq(Bytes) /\ b \in Bytes
      BY <2>3, <2>6
    <3> HIDE DEF s, b
    <3>2. Append(out \o s, b) = out \o Append(s, b)
      BY <3>1, AppendJoined
    <3> QED
      BY <3>2 DEF s
  <2>8. r.out = out \o Beginning(later, j + 1) /\ r.ok
    BY <2>4, <2>5, <2>6, <2>7 DEF GoesOnLiteral
  <2>9. r.n = count - (j + 1) /\ r.mode = IF j + 1 = count THEN "tag" ELSE "literal"
    BY <2>1, <2>4, <2>5 DEF GoesOnLiteral
  <2> QED
    BY <2>8, <2>9 DEF r
<1>5. \A j \in Nat : j \in T
  <2> HIDE DEF T
  <2> QED
    BY <1>3, <1>4, SetInduction
<1>6. ASSUME NEW j \in 0..count, rp + j <= Len(src) PROVE Now(j)
  <2>1. j \in Nat /\ j <= count
    OBVIOUS
  <2> QED
    BY <1>5, <1>6, <2>1
<1> QED
  BY <1>6, Zenon DEF later, LiteralAt

\* A tag says how far it reaches; what it stands for are that many bytes.
LEMMA TagIs ==
  ASSUME NEW src \in Seq(Bytes), NEW rp \in 1..Len(src)
  PROVE  /\ TagCount(src, rp) \in 0..127 /\ TagNext(src, rp) \in Nat /\ TagNext(src, rp) > rp
         /\ TagNext(src, rp) <= Len(src) + 1 =>
              TagBytes(src, rp) \in Seq(Bytes) /\ Len(TagBytes(src, rp)) = TagCount(src, rp)
<1> DEFINE n == Len(src)
           b == src[rp]
           count == TagCount(src, rp)
<1>1. n \in Nat /\ rp \in Nat /\ rp <= n /\ \A j \in 1..n : src[j] \in Bytes
  OBVIOUS
<1>2. b \in 0..255 /\ count = b % 128
  BY <1>1 DEF Bytes, TagCount
<1>3. count \in 0..127
  <2> HIDE DEF b, count
  <2> QED
    BY <1>2
<1>4. TagNext(src, rp) \in Nat /\ TagNext(src, rp) > rp
  <2>1. TagNext(src, rp) = rp + 2 \/ TagNext(src, rp) = rp + 1 + count
    BY DEF TagNext
  <2> HIDE DEF count
  <2> QED
    BY <1>1, <1>3, <2>1
<1>5. ASSUME TagNext(src, rp) <= n + 1
      PROVE  TagBytes(src, rp) \in Seq(Bytes) /\ Len(TagBytes(src, rp)) = count
  <2>1. CASE b >= 128
    <3>1. TagNext(src, rp) = rp + 2 /\ TagBytes(src, rp) = Repeated(src[rp + 1], count)
      BY <2>1 DEF TagNext, TagBytes
    <3>2. rp + 1 \in 1..n
      BY <1>1, <1>5, <3>1
    <3>3. src[rp + 1] \in Bytes
      BY <1>1, <3>2
    <3> HIDE DEF count
    <3>4. Repeated(src[rp + 1], count) \in Seq(Bytes) /\ Len(Repeated(src[rp + 1], count)) = count
      BY <1>3, <3>3 DEF Repeated
    <3> QED
      BY <3>1, <3>4
  <2>2. CASE ~(b >= 128)
    <3>1. TagNext(src, rp) = rp + 1 + count /\ TagBytes(src, rp) = SubSeq(src, rp + 1, rp + count)
      BY <2>2 DEF TagNext, TagBytes
    <3> HIDE DEF count
    <3>2. rp \in 0..n /\ count \in 0..n - rp
      BY <1>1, <1>3, <1>5, <3>1
    <3>3. /\ Behind(src, rp) \in Seq(Bytes) /\ Len(Behind(src, rp)) = n - rp
          /\ SubSeq(src, rp + 1, rp + count) = Beginning(Behind(src, rp), count)
      BY <3>2, BehindIs
    <3>4. \A k \in 1..count : k \in 1..n - rp
      BY <1>1, <3>2
    <3>5. Beginning(Behind(src, rp), count) = [k \in 1..count |-> Behind(src, rp)[k]]
      BY DEF Beginning
    <3>6. \A k \in 1..count : Behind(src, rp)[k] \in Bytes
      BY <3>3, <3>4
    <3>7. Beginning(Behind(src, rp), count) \in Seq(Bytes) /\ Len(Beginning(Behind(src, rp), count)) = count
      BY <1>3, <3>5, <3>6
    <3> QED
      BY <3>1, <3>3, <3>7
  <2> QED
    BY <2>1, <2>2
<1> QED
  BY <1>3, <1>4, <1>5

\* Between two tags the byte-wise decoder does what the other one does in one step: it fails where a
\* tag reaches past the end of the input or of the room, and otherwise stands before the next tag.
LEMMA TagRead ==
  ASSUME NEW src \in Seq(Bytes), NEW max \in Nat, NEW f \in [0..Len(src) -> RleStates], RleRuns(f, src, max),
         NEW rp \in 1..Len(src), f[rp - 1].mode = "tag", f[rp - 1].ok, Len(f[rp - 1].out) <= max
  PROVE  IF TagNext(src, rp) > Len(src) + 1 \/ Len(f[rp - 1].out) + TagCount(src, rp) > max
         THEN RleYield(f[Len(src)]) = {}
         ELSE LET end == f[TagNext(src, rp) - 1]
              IN end.mode = "tag" /\ end.ok /\ end.out = f[rp - 1].out \o TagBytes(src, rp)
<1> DEFINE n == Len(src)
           b == src[rp]
           count == TagCount(src, rp)
           next == TagNext(src, rp)
           st == f[rp - 1]
           r == f[rp]
           out == st.out
           bytes == TagBytes(src, rp)
<1>1. n \in Nat /\ rp \in Nat /\ rp <= n /\ \A j \in 1..n : src[j] \in Bytes
  OBVIOUS
<1>2. b \in Bytes /\ b \in 0..255
  BY <1>1 DEF Bytes
<1>3. count \in 0..127 /\ next \in Nat /\ next > rp
  BY TagIs
<1>12. count = b % 128
  BY DEF TagCount
<1>4. rp - 1 \in 0..n /\ rp \in 0..n
  BY <1>1
<1> HIDE DEF b
<1>5. st \in RleStates /\ r \in RleStates /\ RleEffect(max, st, b, r) /\ st.mode = "tag" /\ st.ok
  BY <1>4 DEF RleRuns, b
<1>6. out \in Seq(Bytes) /\ Len(out) \in Nat /\ Len(out) <= max
  BY <1>5 DEF RleStates
<1>7. ASSUME NEW i \in 0..n, ~f[i].ok PROVE RleYield(f[n]) = {}
  BY <1>7, FailureLasts
<1>8. CASE b >= 128
  <2>1. next = rp + 2 /\ bytes = Repeated(src[rp + 1], count) /\ count = b - 128
    <3>1. next = rp + 2 /\ bytes = Repeated(src[rp + 1], count)
      BY <1>8 DEF TagNext, TagBytes, b
    <3>2. count = b - 128
      <4> HIDE DEF count
      <4>1. b \in 128..255
        BY <1>2, <1>8
      <4>2. \A k \in 128..255 : k % 128 = k - 128
        OBVIOUS
      <4> QED
        BY <1>12, <4>1, <4>2
    <3> QED
      BY <3>1, <3>2
  <2>2. r.mode = "run" /\ r.n = count /\ r.out = out /\ r.ok
    BY <1>5, <1>8, <2>1 DEF RleEffect, StartsRun
  <2>3. CASE rp = n
    <3>1. RleYield(f[n]) = {}
      BY <2>2, <2>3 DEF RleYield
    <3> QED
      BY <1>1, <2>1, <2>3, <3>1
  <2>4. CASE rp # n
    <3> DEFINE c == src[rp + 1]
               e == f[rp + 1]
    <3>1. rp + 1 \in 1..n /\ (rp + 1) - 1 = rp /\ rp + 1 \in 0..n
      BY <1>1, <2>4
    <3>2. c \in Bytes /\ RleEffect(max, r, c, e)
      BY <1>1, <3>1 DEF RleRuns
    <3> HIDE DEF c, e, count, next, bytes, out
    <3>3. /\ e.mode = "tag" /\ e.out = out \o Repeated(c, count)
          /\ (e.ok <=> (Repeated(c, count) = <<>> \/ Len(out) + Len(Repeated(c, count)) <= max))
      BY <2>2, <3>2 DEF RleEffect, EndsRun
    <3>4. Len(Repeated(c, count)) = count
      <4>1. count \in Nat
        BY <1>3
      <4> QED
        BY <4>1 DEF Repeated
    <3>5. bytes = Repeated(c, count) /\ next - 1 = rp + 1
      BY <1>1, <2>1 DEF c
    <3>6. e.ok <=> Len(out) + count <= max
      <4>1. Repeated(c, count) = <<>> => count = 0
        BY <3>4
      <4> QED
        BY <1>3, <1>6, <3>3, <3>4, <4>1
    <3>7. CASE Len(out) + count > max
      <4>1. ~e.ok
        BY <1>3, <1>6, <3>6, <3>7
      <4>2. RleYield(f[n]) = {}
        BY <1>7, <3>1, <4>1 DEF e
      <4> QED
        BY <3>7, <4>2 DEF count, out
    <3>8. CASE ~(Len(out) + count > max)
      <4>1. e.ok
        BY <1>3, <1>6, <3>6, <3>8
      <4>2. ~(next > n + 1)
        BY <1>1, <2>1, <3>1
      <4>3. f[next - 1] = e
        BY <3>5 DEF e
      <4> QED
        BY <3>3, <3>5, <3>8, <4>1, <4>2, <4>3 DEF count, next, bytes, out
    <3> QED
      BY <3>7, <3>8
  <2> QED
    BY <2>3, <2>4
<1>9. CASE b \in 1..127
  <2>1. next = rp + 1 + count /\ bytes = SubSeq(src, rp + 1, rp + count) /\ count = b
    <3>1. ~(b >= 128)
      BY <1>9
    <3>2. next = rp + 1 + count /\ bytes = SubSeq(src, rp + 1, rp + count)
      BY <3>1 DEF TagNext, TagBytes, b
    <3> HIDE DEF count
    <3> QED
      BY <1>2, <1>9, <1>12, <3>2
  <2>2. r.mode = "literal" /\ r.n = count /\ r.out = out /\ (r.ok <=> Len(out) + count <= max)
    BY <1>5, <1>9, <2>1 DEF RleEffect, StartsLiteral
  <2> HIDE DEF count, next, bytes, r, out
  <2>3. CASE Len(out) + count > max
    <3>1. ~r.ok
      BY <1>3, <1>6, <2>2, <2>3
    <3>2. RleYield(f[n]) = {}
      BY <1>4, <1>7, <3>1 DEF r
    <3> QED
      BY <2>3, <3>2 DEF count, out
  <2>4. CASE ~(Len(out) + count > max)
    <3>1. r.ok /\ count \in 1..127
      BY <1>3, <1>6, <1>9, <2>1, <2>2, <2>4
    <3>2. \A j \in 0..count : rp + j <= n => LiteralAt(src, f, rp, count, out, j)
      BY <1>6, <2>2, <3>1, LiteralTaken, ZenonT(60) DEF r
    <3> HIDE DEF n
    <3>3. CASE next > n + 1
      <4>1. n - rp \in 0..count /\ rp + (n - rp) = n /\ n - rp # count
        BY <1>1, <1>3, <2>1, <3>3
      <4>2. f[n].mode = "literal"
        BY <3>2, <4>1 DEF LiteralAt
      <4>3. RleYield(f[n]) = {}
        BY <4>2 DEF RleYield
      <4> QED
        BY <3>3, <4>3 DEF next, n
    <3>4. CASE ~(next > n + 1)
      <4>1. count \in 0..count /\ rp + count <= n /\ next - 1 = rp + count /\ count \in 0..n - rp /\ rp \in 0..n
        BY <1>1, <1>3, <2>1, <3>4
      <4>2. f[next - 1].mode = "tag" /\ f[next - 1].ok /\ f[next - 1].out = out \o Beginning(Behind(src, rp), count)
        BY <3>2, <4>1 DEF LiteralAt
      <4>3. bytes = Beginning(Behind(src, rp), count)
        BY <2>1, <4>1, BehindIs DEF n
      <4> QED
        BY <2>4, <3>4, <4>2, <4>3 DEF next, count, bytes, n, out
    <3> QED
      BY <3>3, <3>4, SMTT(30)
  <2> QED
    BY <2>3, <2>4
<1>10. CASE b = 0
  <2>1. next = rp + 1 /\ bytes = SubSeq(src, rp + 1, rp) /\ count = 0
    <3>1. count = 0 /\ ~(b >= 128)
      BY <1>10, <1>12
    <3> HIDE DEF count
    <3>2. next = rp + 1 + count /\ bytes = SubSeq(src, rp + 1, rp + count)
      BY <3>1 DEF TagNext, TagBytes, count, b
    <3> QED
      BY <1>1, <3>1, <3>2
  <2>2. bytes = <<>>
    <3>1. (rp) - (rp + 1) + 1 = 0
      BY <1>1
    <3>2. SubSeq(src, rp + 1, rp) = [k \in 1..rp - (rp + 1) + 1 |-> src[k + (rp + 1) - 1]]
      BY DEF SubSeq
    <3>3. SubSeq(src, rp + 1, rp) = <<>>
      BY <3>1, <3>2
    <3> QED
      BY <2>1, <3>3
  <2>3. r = st
    BY <1>5, <1>10 DEF RleEffect
  <2>4. out \o bytes = out
    BY <1>6, <2>2
  <2>5. ~(next > n + 1) /\ ~(Len(out) + count > max) /\ next - 1 = rp
    BY <1>1, <1>6, <2>1
  <2> HIDE DEF next, count, bytes
  <2>6. f[next - 1].mode = "tag" /\ f[next - 1].ok /\ f[next - 1].out = out \o bytes
    BY <1>5, <2>3, <2>4, <2>5
  <2> QED
    BY <2>5, <2>6 DEF next, count, bytes
<1>11. b >= 128 \/ b \in 1..127 \/ b = 0
  BY <1>2
<1> QED
  BY <1>8, <1>9, <1>10, <1>11

\* One step of decompress_payload, where g[rp][wp] is what the bytes from rp on give.
PayloadAt(src, max, g, rp, wp) ==
  IF rp > Len(src) THEN {<<>>}
  ELSE IF TagNext(src, rp) > Len(src) + 1 \/ wp + TagCount(src, rp) > max THEN {}
       ELSE {TagBytes(src, rp) \o rest : rest \in g[TagNext(src, rp)][wp + TagCount(src, rp)]}

\* It looks at what the bytes behind its tag give, and at nothing else.
LEMMA LooksBehind ==
  ASSUME NEW src \in Seq(Bytes), NEW max \in Nat, NEW g, NEW h, NEW rp \in 1..Len(src) + 1, NEW wp \in 0..max,
         \A q \in 1..Len(src) + 1, w \in 0..max : q > rp => g[q][w] = h[q][w]
  PROVE  PayloadAt(src, max, g, rp, wp) = PayloadAt(src, max, h, rp, wp)
<1>1. Len(src) \in Nat /\ rp \in Nat
  OBVIOUS
<1>2. CASE rp > Len(src)
  BY <1>2 DEF PayloadAt
<1>3. CASE ~(rp > Len(src))
  <2> DEFINE next == TagNext(src, rp)
             count == TagCount(src, rp)
  <2>1. rp \in 1..Len(src)
    BY <1>1, <1>3
  <2>2. count \in 0..127 /\ next \in Nat /\ next > rp
    BY <2>1, TagIs
  <2> HIDE DEF next, count
  <2>3. CASE next > Len(src) + 1 \/ wp + count > max
    BY <1>3, <2>3 DEF PayloadAt, next, count
  <2>4. CASE ~(next > Len(src) + 1 \/ wp + count > max)
    <3>1. next \in 1..Len(src) + 1 /\ wp + count \in 0..max
      <4>1. next \in Nat /\ count \in Nat /\ wp \in Nat /\ next > rp
        <5>1. \A c \in 0..127 : c \in Nat
          OBVIOUS
        <5>2. wp \in Nat
          OBVIOUS
        <5> QED
          BY <2>2, <5>1, <5>2
      <4>2. next <= Len(src) + 1
        BY <1>1, <2>4, <4>1
      <4>3. wp + count <= max
        BY <2>4, <4>1
      <4> QED
        BY <1>1, <4>1, <4>2, <4>3
    <3>2. g[next][wp + count] = h[next][wp + count]
      BY <2>2, <3>1
    <3> QED
      BY <1>3, <2>4, <3>2 DEF PayloadAt, next, count
  <2> QED
    BY <2>3, <2>4
<1> QED
  BY <1>2, <1>3

\* g answers for every place from `from` on.
Answers(src, max, g, from) ==
  \A rp \in 1..Len(src) + 1, wp \in 0..max : rp >= from => g[rp][wp] = PayloadAt(src, max, g, rp, wp)

\* There is an answer for every place: from the end of the input to its beginning.
LEMMA AnswerExists ==
  ASSUME NEW src \in Seq(Bytes), NEW max \in Nat
  PROVE  \E g : g = [rp \in 1..Len(src) + 1 |-> [wp \in 0..max |-> PayloadAt(src, max, g, rp, wp)]]
<1> DEFINE n == Len(src)
           T == {k \in Nat : k <= n + 1 => \E g : Answers(src, max, g, n + 2 - k)}
<1>1. n \in Nat
  OBVIOUS
<1> HIDE DEF n
<1>2. 0 \in T
  <2>1. Answers(src, max, <<>>, n + 2 - 0)
    BY <1>1 DEF Answers, n
  <2> QED
    BY <1>1, <2>1
<1>3. ASSUME NEW k \in Nat, k \in T PROVE k + 1 \in T
  <2> SUFFICES ASSUME k + 1 <= n + 1 PROVE \E g : Answers(src, max, g, n + 2 - (k + 1))
    OBVIOUS
  <2> DEFINE at == n + 2 - (k + 1)
  <2>1. at \in 1..n + 1 /\ k <= n + 1 /\ n + 2 - k = at + 1
    BY <1>1
  <2>2. PICK g : Answers(src, max, g, at + 1)
    BY <1>3, <2>1
  <2> HIDE DEF at
  <2> DEFINE h == [rp \in 1..n + 1 |-> [wp \in 0..max |->
                     IF rp = at THEN PayloadAt(src, max, g, rp, wp) ELSE g[rp][wp]]]
  <2>3. \A q \in 1..n + 1, w \in 0..max : q > at => h[q][w] = g[q][w]
    BY <2>1
  <2>4. \A w \in 0..max : h[at][w] = PayloadAt(src, max, g, at, w)
    BY <2>1
  <2> HIDE DEF h
  <2>5. ASSUME NEW rp \in 1..n + 1, NEW wp \in 0..max, rp >= at
        PROVE  h[rp][wp] = PayloadAt(src, max, h, rp, wp)
    <3>1. \A q \in 1..n + 1, w \in 0..max : q > rp => h[q][w] = g[q][w]
      BY <1>1, <2>1, <2>3, <2>5
    <3>2. PayloadAt(src, max, h, rp, wp) = PayloadAt(src, max, g, rp, wp)
      BY <3>1, LooksBehind DEF n
    <3>3. CASE rp = at
      BY <2>4, <3>2, <3>3
    <3>4. CASE rp # at
      <4>1. rp > at /\ rp >= at + 1
        BY <1>1, <2>1, <2>5, <3>4
      <4>2. g[rp][wp] = PayloadAt(src, max, g, rp, wp)
        BY <2>2, <4>1 DEF Answers, n
      <4> QED
        BY <2>3, <3>2, <4>1, <4>2
    <3> QED
      BY <3>3, <3>4
  <2>6. Answers(src, max, h, at)
    BY <2>5 DEF Answers, n
  <2> QED
    BY <2>6 DEF at
<1>4. PICK g : Answers(src, max, g, 1)
  <2> HIDE DEF T
  <2>1. n + 1 \in T
    BY <1>1, <1>2, <1>3, SetInduction
  <2>2. n + 2 - (n + 1) = 1 /\ n + 1 <= n + 1 /\ n + 1 \in Nat
    BY <1>1
  <2> QED
    BY <2>1, <2>2 DEF T
<1> DEFINE h == [rp \in 1..n + 1 |-> [wp \in 0..max |-> g[rp][wp]]]
<1>5. \A q \in 1..n + 1, w \in 0..max : h[q][w] = g[q][w]
  OBVIOUS
<1> HIDE DEF h
<1>6. ASSUME NEW rp \in 1..n + 1, NEW wp \in 0..max
      PROVE  g[rp][wp] = PayloadAt(src, max, h, rp, wp)
  <2>1. PayloadAt(src, max, h, rp, wp) = PayloadAt(src, max, g, rp, wp)
    BY <1>5, LooksBehind DEF n
  <2>2. rp >= 1
    BY <1>1
  <2> QED
    BY <1>4, <2>1, <2>2 DEF Answers, n
<1>7. h = [rp \in 1..n + 1 |-> [wp \in 0..max |-> PayloadAt(src, max, h, rp, wp)]]
  BY <1>6 DEF h
<1> QED
  BY <1>7 DEF n

\* What decompress_payload gives, as answers for every place (compression.cpp:23-62).
LEMMA PayloadIs ==
  ASSUME NEW src \in Seq(Bytes), NEW max \in Nat
  PROVE  \E h : /\ \A rp \in 1..Len(src) + 1, wp \in 0..max : h[rp][wp] = PayloadAt(src, max, h, rp, wp)
                /\ DecompressPayload(src, max) = h[1][0]
<1> DEFINE h == CHOOSE g : g = [rp \in 1..Len(src) + 1 |-> [wp \in 0..max |-> PayloadAt(src, max, g, rp, wp)]]
<1>1. h = [rp \in 1..Len(src) + 1 |-> [wp \in 0..max |-> PayloadAt(src, max, h, rp, wp)]]
  BY AnswerExists
<1>2. DecompressPayload(src, max) = h[1][0]
  BY DEF DecompressPayload, PayloadAt, TagNext, TagCount, TagBytes, Repeated
<1> HIDE DEF h
<1>3. \A rp \in 1..Len(src) + 1, wp \in 0..max : h[rp][wp] = PayloadAt(src, max, h, rp, wp)
  <2> DEFINE G == [rp \in 1..Len(src) + 1 |-> [wp \in 0..max |-> PayloadAt(src, max, h, rp, wp)]]
  <2>1. \A rp \in 1..Len(src) + 1, wp \in 0..max : G[rp][wp] = PayloadAt(src, max, h, rp, wp)
    OBVIOUS
  <2>2. h = G
    BY <1>1
  <2> HIDE DEF G
  <2> QED
    BY <2>1, <2>2
<1> QED
  BY <1>2, <1>3

\* Before a tag, the byte-wise decoder yields what it has written and what the answer h gives.
Agrees(src, max, f, h, rp) ==
  /\ \A wp \in 0..max : h[rp][wp] \in SUBSET Seq(Bytes)
  /\ f[rp - 1].mode = "tag" /\ f[rp - 1].ok /\ Len(f[rp - 1].out) <= max =>
       RleYield(f[Len(src)]) = {f[rp - 1].out \o rest : rest \in h[rp][Len(f[rp - 1].out)]}

\* At the end of the input nothing follows.
LEMMA EndAgrees ==
  ASSUME NEW src \in Seq(Bytes), NEW max \in Nat, NEW f \in [0..Len(src) -> RleStates], RleRuns(f, src, max),
         NEW h, \A rp \in 1..Len(src) + 1, wp \in 0..max : h[rp][wp] = PayloadAt(src, max, h, rp, wp)
  PROVE  Agrees(src, max, f, h, Len(src) + 1)
<1> DEFINE n == Len(src)
           st == f[n]
<1>1. n \in Nat /\ n + 1 \in 1..n + 1 /\ n + 1 > n /\ (n + 1) - 1 = n
  OBVIOUS
<1>2. st \in RleStates
  BY <1>1
<1>3. \A wp \in 0..max : h[n + 1][wp] = {<<>>}
  BY <1>1 DEF PayloadAt
<1>4. st.out \in Seq(Bytes) /\ Len(st.out) \in Nat /\ st.out \o <<>> = st.out
  BY <1>2 DEF RleStates
<1> HIDE DEF n, st
<1>5. ASSUME st.mode = "tag", st.ok, Len(st.out) <= max
      PROVE  RleYield(st) = {st.out \o rest : rest \in h[n + 1][Len(st.out)]}
  <2>1. Len(st.out) \in 0..max
    BY <1>4, <1>5
  <2>2. h[n + 1][Len(st.out)] = {<<>>}
    BY <1>3, <2>1
  <2>3. {st.out \o rest : rest \in {<<>>}} = {st.out}
    BY <1>4
  <2> QED
    BY <1>5, <2>2, <2>3 DEF RleYield
<1>6. {<<>>} \in SUBSET Seq(Bytes)
  OBVIOUS
<1> QED
  BY <1>1, <1>3, <1>5, <1>6 DEF Agrees, n, st

\* Every one of a set of sequences behind a beginning; one beginning, or two that follow each other.
Begun(a, H) == {a \o rest : rest \in H}

\* A beginning behind a beginning is one beginning.
LEMMA BegunTwice ==
  \A S : \A t, a \in Seq(S), H \in SUBSET Seq(S) : Begun(a \o t, H) = Begun(a, Begun(t, H))
<1> SUFFICES ASSUME NEW S, NEW t \in Seq(S), NEW a \in Seq(S), NEW H \in SUBSET Seq(S)
             PROVE  Begun(a \o t, H) = Begun(a, Begun(t, H))
  OBVIOUS
<1>1. \A rest \in H : (a \o t) \o rest = a \o (t \o rest)
  BY ConcatAssociative
<1>2. {(a \o t) \o rest : rest \in H} = {a \o (t \o rest) : rest \in H}
  BY <1>1, ZenonT(60)
<1>3. {a \o (t \o rest) : rest \in H} = {a \o rest : rest \in {t \o last : last \in H}}
  OBVIOUS
<1> QED
  BY <1>2, <1>3 DEF Begun

\* If both agree behind a tag they agree before it.
LEMMA TagAgrees ==
  ASSUME NEW src \in Seq(Bytes), NEW max \in Nat, NEW f \in [0..Len(src) -> RleStates], RleRuns(f, src, max),
         NEW h, \A rp \in 1..Len(src) + 1, wp \in 0..max : h[rp][wp] = PayloadAt(src, max, h, rp, wp),
         NEW rp \in 1..Len(src), \A q \in 1..Len(src) + 1 : q > rp => Agrees(src, max, f, h, q)
  PROVE  Agrees(src, max, f, h, rp)
<1> DEFINE n == Len(src)
           st == f[rp - 1]
           next == TagNext(src, rp)
           count == TagCount(src, rp)
           bytes == TagBytes(src, rp)
<1>1. n \in Nat /\ rp \in 1..n + 1 /\ rp - 1 \in 0..n /\ ~(rp > n)
  OBVIOUS
<1>2. count \in Nat /\ next \in Nat /\ next > rp /\ (next <= n + 1 => bytes \in Seq(Bytes) /\ Len(bytes) = count)
  <2>1. count \in 0..127 /\ next \in Nat /\ next > rp
    BY TagIs
  <2>2. next <= n + 1 => bytes \in Seq(Bytes) /\ Len(bytes) = count
    BY TagIs
  <2> HIDE DEF next, count, bytes
  <2> QED
    BY <2>1, <2>2
<1>3. \A wp \in 0..max :
        h[rp][wp] = IF next > n + 1 \/ wp + count > max THEN {} ELSE {bytes \o rest : rest \in h[next][wp + count]}
  BY <1>1 DEF PayloadAt
<1>4. st \in RleStates
  BY <1>1
<1>5. st.out \in Seq(Bytes) /\ Len(st.out) \in Nat
  BY <1>4 DEF RleStates
<1>6. next <= n + 1 => Agrees(src, max, f, h, next)
  <2> HIDE DEF next
  <2> QED
    BY <1>1, <1>2
<1>7. st.mode = "tag" /\ st.ok /\ Len(st.out) <= max =>
        IF next > n + 1 \/ Len(st.out) + count > max THEN RleYield(f[n]) = {}
        ELSE f[next - 1].mode = "tag" /\ f[next - 1].ok /\ f[next - 1].out = st.out \o bytes
  BY TagRead, Zenon
<1> HIDE DEF next, count, bytes, st
<1>8. ASSUME NEW wp \in 0..max PROVE h[rp][wp] \in SUBSET Seq(Bytes)
  <2>1. CASE next > n + 1 \/ wp + count > max
    BY <1>3, <2>1
  <2>2. CASE ~(next > n + 1 \/ wp + count > max)
    <3>1. next <= n + 1 /\ wp + count \in 0..max
      BY <1>1, <1>2, <2>2
    <3>2. bytes \in Seq(Bytes) /\ h[next][wp + count] \in SUBSET Seq(Bytes)
      BY <1>2, <1>6, <3>1 DEF Agrees
    <3>3. \A rest \in h[next][wp + count] : bytes \o rest \in Seq(Bytes)
      BY <3>2, ConcatProperties
    <3>4. h[rp][wp] = {bytes \o rest : rest \in h[next][wp + count]}
      BY <1>3, <2>2
    <3> QED
      BY <3>3, <3>4
  <2> QED
    BY <2>1, <2>2
<1>9. ASSUME st.mode = "tag", st.ok, Len(st.out) <= max
      PROVE  RleYield(f[n]) = {st.out \o rest : rest \in h[rp][Len(st.out)]}
  <2> DEFINE wp == Len(st.out)
             end == f[next - 1]
  <2>1. wp \in 0..max
    BY <1>5, <1>9
  <2>2. CASE next > n + 1 \/ wp + count > max
    <3>1. h[rp][wp] = {} /\ RleYield(f[n]) = {}
      BY <1>3, <1>7, <1>9, <2>1, <2>2
    <3> QED
      BY <3>1
  <2>3. CASE ~(next > n + 1 \/ wp + count > max)
    <3>1. next <= n + 1 /\ wp + count \in 0..max
      BY <1>1, <1>2, <2>1, <2>3
    <3>2. end.mode = "tag" /\ end.ok /\ end.out = st.out \o bytes
      BY <1>7, <1>9, <2>3
    <3>3. bytes \in Seq(Bytes) /\ Len(bytes) = count
      BY <1>2, <3>1
    <3>4. Len(end.out) = wp + count
      BY <1>5, <3>2, <3>3, JoinedIs
    <3>5. RleYield(f[n]) = {end.out \o rest : rest \in h[next][Len(end.out)]}
      <4>1. Agrees(src, max, f, h, next) /\ Len(end.out) <= max
        BY <1>5, <1>6, <3>1, <3>4
      <4> QED
        BY <3>2, <4>1 DEF Agrees
    <3>6. h[next][wp + count] \in SUBSET Seq(Bytes)
      BY <1>6, <3>1 DEF Agrees
    <3>7. h[rp][wp] = {bytes \o rest : rest \in h[next][wp + count]}
      BY <1>3, <2>1, <2>3
    <3> HIDE DEF end
    <3>8. RleYield(f[n]) = Begun(st.out \o bytes, h[next][wp + count])
      BY <3>2, <3>4, <3>5, Zenon DEF Begun
    <3>9. Begun(st.out \o bytes, h[next][wp + count]) = Begun(st.out, Begun(bytes, h[next][wp + count]))
      BY <1>5, <3>3, <3>6, BegunTwice
    <3>10. RleYield(f[n]) = {st.out \o rest : rest \in h[rp][wp]}
      BY <3>7, <3>8, <3>9, Zenon DEF Begun
    <3> QED
      BY <3>10
  <2> QED
    BY <2>2, <2>3
<1> QED
  BY <1>8, <1>9 DEF Agrees, st

\* The two run-length decoders of the library agree on every input and for every room
\* (compress.cpp:7-43, compression.cpp:23-62).
THEOREM RleDecodersAgree ==
  ASSUME NEW src \in Seq(Bytes), NEW max \in Nat
  PROVE  DecompressRle(src, max) = DecompressPayload(src, max)
<1>1. PICK f \in [0..Len(src) -> RleStates] :
         RleRuns(f, src, max) /\ DecompressRle(src, max) = RleYield(f[Len(src)])
  BY RleRunsToEnd
<1>2. PICK h : /\ \A rp \in 1..Len(src) + 1, wp \in 0..max : h[rp][wp] = PayloadAt(src, max, h, rp, wp)
               /\ DecompressPayload(src, max) = h[1][0]
  BY PayloadIs
<1> DEFINE n == Len(src)
           T == {k \in Nat : k <= n => \A q \in 1..n + 1 : q >= n + 1 - k => Agrees(src, max, f, h, q)}
<1>3. n \in Nat
  OBVIOUS
<1>4. 0 \in T
  <2>1. \A q \in 1..n + 1 : q >= n + 1 - 0 => q = n + 1
    BY <1>3
  <2>2. Agrees(src, max, f, h, n + 1)
    BY <1>1, <1>2, EndAgrees
  <2> QED
    BY <2>1, <2>2
<1>5. ASSUME NEW k \in Nat, k \in T PROVE k + 1 \in T
  <2> SUFFICES ASSUME k + 1 <= n, NEW q \in 1..n + 1, q >= n + 1 - (k + 1) PROVE Agrees(src, max, f, h, q)
    OBVIOUS
  <2> HIDE DEF n
  <2>1. \A p \in 1..n + 1 : p >= n + 1 - k => Agrees(src, max, f, h, p)
    BY <1>3, <1>5
  <2>2. CASE q >= n + 1 - k
    BY <2>1, <2>2
  <2>3. CASE ~(q >= n + 1 - k)
    <3>1. q \in 1..n /\ \A p \in 1..n + 1 : p > q => p >= n + 1 - k
      BY <1>3, <2>3
    <3>2. \A p \in 1..n + 1 : p > q => Agrees(src, max, f, h, p)
      BY <2>1, <3>1
    <3> QED
      BY <1>1, <1>2, <3>1, <3>2, TagAgrees DEF n
  <2> QED
    BY <2>2, <2>3
<1>6. Agrees(src, max, f, h, 1)
  <2> HIDE DEF T, n
  <2>1. n \in T
    BY <1>3, <1>4, <1>5, SetInduction
  <2>2. 1 \in 1..n + 1 /\ 1 >= n + 1 - n /\ n <= n
    BY <1>3
  <2> QED
    BY <1>3, <2>1, <2>2 DEF T
<1>7. f[0] = RleStart /\ RleStart.mode = "tag" /\ RleStart.ok /\ RleStart.out = <<>> /\ Len(<<>>) = 0
  BY <1>1 DEF RleRuns, RleStart
<1>8. RleYield(f[n]) = {<<>> \o rest : rest \in h[1][0]} /\ h[1][0] \in SUBSET Seq(Bytes)
  <2>1. 1 - 1 = 0 /\ 0 \in 0..max /\ 0 <= max
    OBVIOUS
  <2>2. f[1 - 1] = RleStart
    BY <1>7, <2>1
  <2> QED
    BY <1>6, <1>7, <2>1, <2>2 DEF Agrees
<1>9. {<<>> \o rest : rest \in h[1][0]} = h[1][0]
  <2>1. \A rest \in h[1][0] : <<>> \o rest = rest
    BY <1>8, ConcatEmptySeq
  <2> QED
    BY <2>1
<1> QED
  BY <1>1, <1>2, <1>8, <1>9

\* Every decoder stays inside the room it is given, whatever it reads (compress.cpp:7-96,
\* compression.cpp:23-62).
THEOREM ExpansionsStayInside ==
  ASSUME NEW bytes \in Seq(Bytes), NEW max \in Nat
  PROVE  DecodersAgree(bytes, max)
<1>1. DecompressRle(bytes, max) = DecompressPayload(bytes, max)
  BY RleDecodersAgree
<1>2. \A out \in DecompressRle(bytes, max) : Len(out) <= max
  BY RleStaysInside
<1>3. \A out \in DecompressLzss(bytes, max) : Len(out) <= max
  BY LzssStaysInside
<1>4. \A m \in 0..max - 1 : DecompressLzss(bytes, m) \subseteq DecompressLzss(bytes, max)
  BY LzssMonotone
<1> QED
  BY <1>1, <1>2, <1>3, <1>4 DEF DecodersAgree

-----------------------------------------------------------------------------
(* Encoders: what they write of a word or of some bytes is read back.          *)

\* A byte is the number of its bits.
LEMMA BitsOfByte == \A b \in Bytes : ByteBits(b) \subseteq 0..7 /\ Number(ByteBits(b)) = b
<1> SUFFICES ASSUME NEW b \in Bytes PROVE ByteBits(b) \subseteq 0..7 /\ Number(ByteBits(b)) = b
  OBVIOUS
<1> DEFINE width == 8
<1>1. b \in 0..2^width - 1 /\ width \in 0..32
  BY PowersAre DEF Bytes
<1> HIDE DEF width
<1>2. Number(Bits(b, width)) = b
  BY <1>1, NumbersAreWords
<1>3. ByteBits(b) = Bits(b, width) /\ ByteBits(b) \subseteq 0..7
  BY DEF ByteBits, Bits, width
<1> QED
  BY <1>2, <1>3

\* Eight bits are those of a byte, seven of a byte below 128.
LEMMA BytesOfBits ==
  \A w \in SUBSET (0..7) : Number(w) \in Bytes /\ ByteBits(Number(w)) = w /\ (7 \notin w => Number(w) < 128)
<1> SUFFICES ASSUME NEW w \in SUBSET (0..7)
             PROVE  Number(w) \in Bytes /\ ByteBits(Number(w)) = w /\ (7 \notin w => Number(w) < 128)
  OBVIOUS
<1> DEFINE eight == 8
           seven == 7
<1>1. eight \in 0..32 /\ w \subseteq 0..eight - 1 /\ 2^eight = 256 /\ seven \in 0..32 /\ 2^seven = 128
  BY PowersAre
<1>2. 7 \notin w => w \subseteq 0..seven - 1
  OBVIOUS
<1> HIDE DEF eight, seven
<1>3. Number(w) \in 0..2^eight - 1 /\ Bits(Number(w), eight) = w
  BY <1>1, WordsAreNumbers
<1>4. ASSUME 7 \notin w PROVE Number(w) \in 0..2^seven - 1
  <2>1. w \subseteq 0..seven - 1
    BY <1>2, <1>4
  <2>2. seven \in 0..32
    BY <1>1
  <2>3. Number(w) \in 0..2^seven - 1 /\ Bits(Number(w), seven) = w
    BY <2>1, <2>2, WordsAreNumbers
  <2> QED
    BY <2>3
<1>5. ByteBits(Number(w)) = w
  BY <1>3 DEF ByteBits, eight
<1> QED
  BY <1>1, <1>3, <1>4, <1>5 DEF Bytes

\* Four bytes make a word, each with its eight bits.
LEMMA WordOfFour ==
  ASSUME NEW q \in Seq(Bytes), Len(q) = 4
  PROVE  /\ BigEndian(q) \in WordBits
         /\ \A k \in 1..4, i \in 0..7 : i + 8 * (4 - k) \in BigEndian(q) <=> i \in ByteBits(q[k])
<1>1. \A k \in 1..4 : q[k] \in Bytes
  <2>1. \A k \in 1..Len(q) : q[k] \in Bytes
    BY ElementOfSeq, ZenonT(60)
  <2>2. 1..Len(q) = 1..4
    OBVIOUS
  <2> QED
    BY <2>1, <2>2, Zenon
<1>2. \A k \in 1..4 : ByteBits(q[k]) \subseteq 0..7
  BY <1>1, BitsOfByte
<1>3. DOMAIN q = 1..4
  OBVIOUS
<1>4. BigEndian(q) = UNION {{i + 8 * (4 - k) : i \in ByteBits(q[k])} : k \in 1..4}
  BY <1>3 DEF BigEndian
<1>5. \A x : x \in BigEndian(q) <=> \E k \in 1..4 : \E i \in ByteBits(q[k]) : x = i + 8 * (4 - k)
  BY <1>4
<1>6. ASSUME NEW x, x \in BigEndian(q) PROVE x \in 0..31
  <2>1. PICK k \in 1..4 : \E i \in ByteBits(q[k]) : x = i + 8 * (4 - k)
    BY <1>5, <1>6
  <2>2. PICK i \in 0..7 : x = i + 8 * (4 - k)
    BY <1>2, <2>1
  <2> QED
    BY <2>2
<1>7. ASSUME NEW k \in 1..4, NEW i \in 0..7
      PROVE  i + 8 * (4 - k) \in BigEndian(q) <=> i \in ByteBits(q[k])
  <2>1. ASSUME i + 8 * (4 - k) \in BigEndian(q) PROVE i \in ByteBits(q[k])
    <3>1. PICK l \in 1..4 : \E j \in ByteBits(q[l]) : i + 8 * (4 - k) = j + 8 * (4 - l)
      BY <1>5, <2>1
    <3>2. PICK j \in ByteBits(q[l]) : i + 8 * (4 - k) = j + 8 * (4 - l)
      BY <3>1
    <3>3. j \in 0..7
      BY <1>2, <3>2
    <3>4. k = l /\ i = j
      BY <3>2, <3>3
    <3> QED
      BY <3>2, <3>4
  <2>2. i \in ByteBits(q[k]) => i + 8 * (4 - k) \in BigEndian(q)
    BY <1>5
  <2> QED
    BY <2>1, <2>2
<1> QED
  BY <1>6, <1>7 DEF WordBits, WORD

\* The bytes of a word are the four it is made of, the last first (core_types.h).
LEMMA TurnedWord ==
  ASSUME NEW q \in Seq(Bytes), Len(q) = 4
  PROVE  LittleEndian(BigEndian(q)) = [k \in 1..4 |-> q[5 - k]]
<1>2. \A k \in 1..4 : q[k] \in Bytes
  <2>1. \A k \in 1..Len(q) : q[k] \in Bytes
    BY ElementOfSeq, ZenonT(60)
  <2>2. 1..Len(q) = 1..4
    OBVIOUS
  <2> QED
    BY <2>1, <2>2, Zenon
<1> DEFINE w == BigEndian(q)
<1>1. w \in WordBits /\ \A k \in 1..4, i \in 0..7 : i + 8 * (4 - k) \in w <=> i \in ByteBits(q[k])
  BY WordOfFour
<1> HIDE DEF w
<1>3. ASSUME NEW k \in 1..4 PROVE ByteAt(w, k - 1) = q[5 - k]
  <2> DEFINE m == 5 - k
             bits == {i - 8 * (k - 1) : i \in w \cap 8 * (k - 1)..8 * (k - 1) + 7}
  <2>1. m \in 1..4 /\ 4 - m = k - 1 /\ 8 * (k - 1) \in Nat
    OBVIOUS
  <2>2. q[m] \in Bytes /\ ByteBits(q[m]) \subseteq 0..7 /\ Number(ByteBits(q[m])) = q[m]
    BY <1>2, <2>1, BitsOfByte
  <2>3. \A i \in 0..7 : i + 8 * (k - 1) \in w <=> i \in ByteBits(q[m])
    BY <1>1, <2>1
  <2> HIDE DEF m
  <2>4. bits \subseteq ByteBits(q[m])
    <3>1. ASSUME NEW i \in w, i \in 8 * (k - 1)..8 * (k - 1) + 7 PROVE i - 8 * (k - 1) \in ByteBits(q[m])
      <4>1. i - 8 * (k - 1) \in 0..7 /\ (i - 8 * (k - 1)) + 8 * (k - 1) = i
        BY <3>1
      <4> QED
        BY <2>3, <4>1
    <3> QED
      BY <3>1
  <2>5. ByteBits(q[m]) \subseteq bits
    <3>1. ASSUME NEW i \in ByteBits(q[m]) PROVE i \in bits
      <4>1. i \in 0..7
        BY <2>2
      <4>2. i + 8 * (k - 1) \in w
        BY <2>3, <4>1
      <4>3. i + 8 * (k - 1) \in 8 * (k - 1)..8 * (k - 1) + 7 /\ i = (i + 8 * (k - 1)) - 8 * (k - 1)
        BY <4>1
      <4> QED
        BY <4>2, <4>3
    <3> QED
      BY <3>1
  <2>6. ByteAt(w, k - 1) = Number(bits)
    BY DEF ByteAt
  <2> HIDE DEF bits
  <2>7. bits = ByteBits(q[m])
    BY <2>4, <2>5
  <2> QED
    BY <2>2, <2>6, <2>7 DEF m
<1>4. LittleEndian(w) = [k \in 1..4 |-> q[5 - k]]
  BY <1>3 DEF LittleEndian
<1> QED
  BY <1>4 DEF w

\* A word is made of its bytes, the last first.
LEMMA WordOfItsBytes ==
  ASSUME NEW w \in WordBits
  PROVE  /\ LittleEndian(w) \in Seq(Bytes) /\ Len(LittleEndian(w)) = 4
         /\ Reverse(LittleEndian(w)) \in Seq(Bytes) /\ Len(Reverse(LittleEndian(w))) = 4
         /\ BigEndian(Reverse(LittleEndian(w))) = w
<1> DEFINE bits(j) == {i - 8 * j : i \in w \cap 8 * j..8 * j + 7}
           low == LittleEndian(w)
           q == Reverse(low)
<1>1. w \subseteq 0..31
  BY DEF WordBits, WORD
<1>2. ASSUME NEW j \in 0..3 PROVE bits(j) \in SUBSET (0..7) /\ \A i \in 0..7 : i \in bits(j) <=> i + 8 * j \in w
  <2>1. \A i \in w \cap 8 * j..8 * j + 7 : i - 8 * j \in 0..7
    BY <1>1
  <2>2. ASSUME NEW i \in 0..7, i \in bits(j) PROVE i + 8 * j \in w
    <3>1. PICK x \in w \cap 8 * j..8 * j + 7 : i = x - 8 * j
      BY <2>2
    <3>2. x = i + 8 * j
      BY <1>1, <3>1
    <3> QED
      BY <3>1, <3>2
  <2>3. ASSUME NEW i \in 0..7, i + 8 * j \in w PROVE i \in bits(j)
    <3> DEFINE x == i + 8 * j
    <3>1. x \in w \cap 8 * j..8 * j + 7 /\ i = x - 8 * j
      BY <2>3
    <3> QED
      BY <3>1
  <2> QED
    BY <2>1, <2>2, <2>3
<1>3. \A j \in 0..3 : ByteAt(w, j) = Number(bits(j))
  BY DEF ByteAt
<1> HIDE DEF bits
<1>4. \A j \in 0..3 : ByteAt(w, j) \in Bytes /\ ByteBits(ByteAt(w, j)) = bits(j)
  BY <1>2, <1>3, BytesOfBits
<1>5. \A k \in 1..4 : k - 1 \in 0..3 /\ 4 - k \in 0..3
  OBVIOUS
<1>6. low = [k \in 1..4 |-> ByteAt(w, k - 1)]
  BY DEF LittleEndian
<1>7. low \in Seq(Bytes) /\ Len(low) = 4 /\ \A k \in 1..4 : low[k] = ByteAt(w, k - 1)
  BY <1>4, <1>5, <1>6
<1> HIDE DEF low
<1>8. \A k \in 1..4 : (4 - k) + 1 \in 1..4 /\ ((4 - k) + 1) - 1 = 4 - k
  OBVIOUS
<1>9. q = [k \in 1..4 |-> low[(4 - k) + 1]]
  BY <1>7 DEF Reverse
<1>10. q = [k \in 1..4 |-> ByteAt(w, 4 - k)]
  BY <1>7, <1>8, <1>9
<1>11. q \in Seq(Bytes) /\ Len(q) = 4 /\ \A k \in 1..4 : q[k] = ByteAt(w, 4 - k)
  BY <1>4, <1>5, <1>10
<1> HIDE DEF q
<1>12. BigEndian(q) \in WordBits /\ \A k \in 1..4, i \in 0..7 : i + 8 * (4 - k) \in BigEndian(q) <=> i \in ByteBits(q[k])
  BY <1>11, WordOfFour
<1>13. ASSUME NEW x \in 0..31 PROVE x \in BigEndian(q) <=> x \in w
  <2> DEFINE j == x \div 8
             i == x % 8
             k == 4 - j
  <2>1. j \in 0..3 /\ i \in 0..7 /\ x = i + 8 * j /\ k \in 1..4 /\ 4 - k = j
    OBVIOUS
  <2> HIDE DEF i, j, k
  <2>2. x \in BigEndian(q) <=> i \in ByteBits(q[k])
    BY <1>12, <2>1
  <2>3. ByteBits(q[k]) = bits(j)
    BY <1>4, <1>11, <2>1
  <2> QED
    BY <1>2, <2>1, <2>2, <2>3
<1>14. BigEndian(q) = w
  <2> DEFINE v == BigEndian(q)
  <2>1. v \subseteq 0..31
    BY <1>12 DEF WordBits, WORD
  <2>2. \A x \in 0..31 : x \in v <=> x \in w
    BY <1>13
  <2> HIDE DEF v
  <2>3. v = w
    BY <1>1, <2>1, <2>2
  <2> QED
    BY <2>3 DEF v
<1> QED
  BY <1>7, <1>11, <1>14 DEF low, q

\* The number of the last group of seven bits that a word fills.
LastGroup(w) == Max({0} \cup {i \div 7 : i \in w})

\* A word of 32 bits fills at most five groups, and none of its bits lies behind the last.
LEMMA LastGroupIs ==
  ASSUME NEW w \in WordBits
  PROVE  LastGroup(w) \in 0..4 /\ \A i \in w : i < 7 * (LastGroup(w) + 1)
<1> DEFINE S == {0} \cup {i \div 7 : i \in w}
           f == [k \in 1..32 |-> IF k - 1 \in w THEN (k - 1) \div 7 ELSE 0]
<1>1. w \subseteq 0..31
  BY DEF WordBits, WORD
<1>2. \A i \in 0..31 : i \div 7 \in 0..4 /\ i < 7 * (i \div 7 + 1)
  OBVIOUS
<1>3. \A k \in 1..32 : k - 1 \in 0..31
  OBVIOUS
<1>4. \A k \in 1..32 : f[k] = IF k - 1 \in w THEN (k - 1) \div 7 ELSE 0
  OBVIOUS
<1> HIDE DEF f
<1>5. \A k \in 1..32 : f[k] \in 0..4
  BY <1>2, <1>3, <1>4
<1>6. S = {0} \cup {f[k] : k \in 1..32}
  <2>1. \A k \in 1..32 : f[k] \in S
    BY <1>4
  <2>2. ASSUME NEW i \in w PROVE \E k \in 1..32 : i \div 7 = f[k]
    <3>1. i + 1 \in 1..32 /\ (i + 1) - 1 = i
      BY <1>1
    <3>2. f[i + 1] = i \div 7
      BY <1>4, <3>1
    <3> QED
      BY <3>1, <3>2
  <2> QED
    BY <2>1, <2>2
<1>7. Gathers(S, 0, 32, f)
  BY <1>5, <1>6 DEF Gathers
<1> HIDE DEF S
<1>8. Max(S) \in S /\ \A y \in S : Max(S) >= y
  BY <1>7, GreatestOf
<1>9. S \subseteq 0..4
  BY <1>1, <1>2 DEF S
<1>10. \A i \in w : i \div 7 \in S
  BY DEF S
<1>11. LastGroup(w) = Max(S)
  BY DEF LastGroup, S
<1> DEFINE last == Max(S)
<1>12. last \in 0..4
  BY <1>8, <1>9
<1>13. ASSUME NEW i \in w PROVE i < 7 * (last + 1)
  <2>1. i \in 0..31 /\ i \div 7 \in 0..4 /\ i < 7 * (i \div 7 + 1) /\ i \div 7 <= last
    BY <1>1, <1>2, <1>8, <1>10
  <2> HIDE DEF last
  <2> QED
    BY <1>12, <2>1
<1> QED
  BY <1>11, <1>12, <1>13

\* The next seven bits of a word, put where they were.
LEMMA NextSeven ==
  ASSUME NEW w \in WordBits, NEW n \in Nat
  PROVE  /\ Low(Shr(w, n), 7) \in SUBSET (0..6)
         /\ Low(w, n) \cup Shl(Low(Shr(w, n), 7), n) = Low(w, n + 7)
<1> DEFINE seven == Low(Shr(w, n), 7)
<1>1. w \subseteq 0..31
  BY DEF WordBits, WORD
<1>2. seven \in SUBSET (0..6)
  BY DEF Low
<1>3. \A x \in Int : x \in seven <=> x \in 0..6 /\ x + n \in w
  <2> SUFFICES ASSUME NEW x \in Int PROVE x \in seven <=> x \in 0..6 /\ x + n \in w
    OBVIOUS
  <2>1. x \in seven <=> x \in 0..6 /\ \E j \in w : j >= n /\ x = j - n
    BY DEF Low, Shr
  <2>2. ASSUME NEW j \in w, x = j - n PROVE x + n = j
    BY <1>1, <2>2
  <2>3. x \in 0..6 /\ x + n \in w => x + n >= n /\ x = (x + n) - n
    OBVIOUS
  <2> HIDE DEF seven
  <2> QED
    BY <2>1, <2>2, <2>3
<1> HIDE DEF seven
<1>4. \A y : y \in Shl(seven, n) <=> y \in 0..31 /\ \E x \in seven : y = x + n
  BY DEF Shl, WORD
<1>5. \A m \in Nat : \A y : y \in Low(w, m) <=> y \in w /\ y \in 0..m - 1
  BY DEF Low
<1>6. ASSUME NEW y, y \in Low(w, n) \cup Shl(seven, n) PROVE y \in Low(w, n + 7)
  <2>1. CASE y \in Low(w, n)
    <3>1. y \in w /\ y \in 0..n - 1
      BY <1>5, <2>1
    <3>2. n + 7 \in Nat /\ y \in 0..(n + 7) - 1
      BY <3>1
    <3> QED
      BY <1>5, <3>1, <3>2
  <2>2. CASE y \in Shl(seven, n)
    <3>1. PICK x \in seven : y = x + n
      BY <1>4, <2>2
    <3>2. x \in 0..6 /\ x + n \in w
      BY <1>2, <1>3, <3>1
    <3>3. n + 7 \in Nat /\ y \in w /\ y \in 0..(n + 7) - 1
      BY <3>1, <3>2
    <3> QED
      BY <1>5, <3>3
  <2> QED
    BY <1>6, <2>1, <2>2
<1>7. ASSUME NEW y, y \in Low(w, n + 7) PROVE y \in Low(w, n) \cup Shl(seven, n)
  <2>1. y \in w /\ y \in 0..(n + 7) - 1 /\ y \in 0..31
    <3>1. n + 7 \in Nat
      OBVIOUS
    <3> QED
      BY <1>1, <1>5, <1>7, <3>1
  <2>2. CASE y < n
    <3>1. y \in 0..n - 1
      BY <2>1, <2>2
    <3> QED
      BY <1>5, <2>1, <3>1
  <2>3. CASE ~(y < n)
    <3>1. y - n \in 0..6 /\ (y - n) + n = y /\ y - n \in Int
      BY <2>1, <2>3
    <3>2. y - n \in seven
      BY <1>3, <2>1, <3>1
    <3> QED
      BY <1>4, <2>1, <3>1, <3>2
  <2> QED
    BY <2>2, <2>3
<1>8. Low(w, n) \cup Shl(seven, n) = Low(w, n + 7)
  BY <1>6, <1>7
<1> QED
  BY <1>2, <1>8 DEF seven

\* The groups of a word, each a byte: all but the last have the top bit.
LEMMA GroupsAre ==
  ASSUME NEW w \in WordBits
  PROVE  /\ VarintGroups(w) \in Seq(Bytes) /\ Len(VarintGroups(w)) = LastGroup(w) + 1
         /\ \A g \in 1..LastGroup(w) + 1 :
              LET b == VarintGroups(w)[g]
              IN /\ (b < 128 <=> g = LastGroup(w) + 1) /\ b % 128 \in Bytes
                 /\ ByteBits(b % 128) = Low(Shr(w, 7 * (g - 1)), 7)
<1> DEFINE last == LastGroup(w)
           bits(g) == Low(Shr(w, 7 * (g - 1)), 7)
           group(g) == Number(bits(g)) + (IF g <= last THEN 128 ELSE 0)
           gs == VarintGroups(w)
<1>1. last \in 0..4
  BY LastGroupIs
<1>2. gs = [g \in 1..last + 1 |-> group(g)]
  BY DEF VarintGroups, LastGroup
<1> HIDE DEF last, gs
<1>3. ASSUME NEW g \in 1..last + 1
      PROVE  /\ Number(bits(g)) \in 0..127 /\ ByteBits(Number(bits(g))) = bits(g)
             /\ (group(g) < 128 <=> g = last + 1) /\ group(g) \in 0..255 /\ group(g) % 128 = Number(bits(g))
  <2>1. 7 * (g - 1) \in Nat
    BY <1>1
  <2> DEFINE set == bits(g)
             n == Number(set)
  <2>2. set \in SUBSET (0..6)
    BY <2>1, NextSeven
  <2>3. group(g) = n + (IF g <= last THEN 128 ELSE 0)
    OBVIOUS
  <2> HIDE DEF set
  <2>4. set \in SUBSET (0..7) /\ 7 \notin set
    BY <2>2
  <2>5. n \in 0..127 /\ ByteBits(n) = set
    <3>1. n \in 0..255 /\ ByteBits(n) = set /\ n < 128
      BY <2>4, BytesOfBits DEF Bytes
    <3> HIDE DEF n
    <3> QED
      BY <3>1
  <2> HIDE DEF n, group
  <2>6. CASE g <= last
    <3>1. group(g) = n + 128 /\ g # last + 1
      BY <1>1, <2>3, <2>6
    <3>2. \A k \in 0..127 : (k + 128) % 128 = k /\ k + 128 \in 0..255 /\ ~(k + 128 < 128)
      OBVIOUS
    <3>3. (n + 128) % 128 = n /\ n + 128 \in 0..255 /\ ~(n + 128 < 128)
      BY <2>5, <3>2
    <3> QED
      BY <2>5, <3>1, <3>3 DEF n, set
  <2>7. CASE ~(g <= last)
    <3>1. group(g) = n /\ g = last + 1
      <4>1. g = last + 1
        BY <1>1, <2>7
      <4>2. group(g) = n + 0
        BY <2>3, <2>7
      <4> QED
        BY <2>5, <4>1, <4>2
    <3>2. \A k \in 0..127 : k % 128 = k /\ k \in 0..255 /\ k < 128
      OBVIOUS
    <3>3. n % 128 = n /\ n \in 0..255 /\ n < 128
      BY <2>5, <3>2
    <3> QED
      BY <2>5, <3>1, <3>3 DEF n, set
  <2> QED
    BY <2>6, <2>7
<1> HIDE DEF group, bits
<1>4. \A g \in 1..last + 1 : gs[g] = group(g)
  BY <1>2
<1>5. gs \in Seq(Bytes) /\ Len(gs) = last + 1
  <2>1. last + 1 \in Nat
    BY <1>1
  <2>2. \A g \in 1..last + 1 : group(g) \in Bytes
    BY <1>3 DEF Bytes
  <2>3. ASSUME NEW m \in Nat, \A g \in 1..m : group(g) \in Bytes
        PROVE  [g \in 1..m |-> group(g)] \in Seq(Bytes) /\ Len([g \in 1..m |-> group(g)]) = m
    BY <2>3
  <2> QED
    BY <1>2, <2>1, <2>2, <2>3
<1>6. ASSUME NEW g \in 1..last + 1
      PROVE  (gs[g] < 128 <=> g = last + 1) /\ gs[g] % 128 \in Bytes /\ ByteBits(gs[g] % 128) = bits(g)
  <2>1. Number(bits(g)) \in Bytes
    BY <1>3 DEF Bytes
  <2> QED
    BY <1>3, <1>4, <2>1
<1> QED
  BY <1>5, <1>6 DEF last, gs, bits

VarintStep == [st \in VarintStates |-> [b \in Bytes |-> VarintByte(st, b)]]

\* The decoder behind n groups of a word, with what it has written.
VarintAt(w, n, out) == [ok |-> TRUE, val |-> Low(w, 7 * n), shift |-> 7 * n, out |-> out]

\* One byte takes the decoder from a state of it to another (codec_dispatch.cpp:77-131).
LEMMA VarintByteIs ==
  ASSUME NEW st \in VarintStates, NEW b \in Bytes
  PROVE  VarintByte(st, b) \in VarintStates
<1> DEFINE val == st.val \cup Shl(ByteBits(b % 128), st.shift)
           r == VarintByte(st, b)
<1>1. st.ok \in BOOLEAN /\ st.val \in WordBits /\ st.shift \in Nat /\ st.out \in Seq(Bytes)
  BY DEF VarintStates
<1>2. val \in WordBits
  BY <1>1 DEF WordBits, Shl
<1>3. LittleEndian(val) \in Seq(Bytes)
  <2> HIDE DEF val
  <2> QED
    BY <1>2, WordOfItsBytes
<1>4. st = [ok |-> st.ok, val |-> st.val, shift |-> st.shift, out |-> st.out]
  BY DEF VarintStates
<1>5. r = IF b < 128 THEN [st EXCEPT !.val = {}, !.shift = 0, !.out = st.out \o LittleEndian(val)]
                     ELSE [st EXCEPT !.val = val, !.shift = st.shift + 7, !.ok = st.ok /\ st.shift + 7 <= 28]
  BY DEF VarintByte
<1> HIDE DEF val, r
<1>6. {} \in WordBits
  BY DEF WordBits
<1>7. CASE b < 128
  <2>1. r = [st EXCEPT !.val = {}, !.shift = 0, !.out = st.out \o LittleEndian(val)]
    BY <1>5, <1>7
  <2>2. r = [ok |-> st.ok, val |-> {}, shift |-> 0, out |-> st.out \o LittleEndian(val)]
    BY <2>1 DEF VarintStates
  <2>3. st.out \o LittleEndian(val) \in Seq(Bytes)
    BY <1>1, <1>3
  <2>4. r \in VarintStates
    BY <1>1, <1>6, <2>2, <2>3 DEF VarintStates
  <2> QED
    BY <2>4 DEF r
<1>8. CASE ~(b < 128)
  <2> DEFINE ok == st.ok /\ st.shift + 7 <= 28
  <2>1. ok \in BOOLEAN /\ st.shift + 7 \in Nat
    BY <1>1
  <2>2. r = [st EXCEPT !.val = val, !.shift = st.shift + 7, !.ok = ok]
    BY <1>5, <1>8
  <2> HIDE DEF ok
  <2>3. r = [ok |-> ok, val |-> val, shift |-> st.shift + 7, out |-> st.out]
    BY <2>2 DEF VarintStates
  <2>4. r \in VarintStates
    BY <1>1, <1>2, <2>1, <2>3 DEF VarintStates
  <2> QED
    BY <2>4 DEF r
<1> QED
  BY <1>7, <1>8

\* The decoder is a step for every state and byte.
LEMMA VarintSteps ==
  /\ VarintStep \in Steps(VarintStates, Bytes)
  /\ \A st \in VarintStates, b \in Bytes : VarintStep[st][b] = VarintByte(st, b)
<1>1. \A st \in VarintStates, b \in Bytes : VarintByte(st, b) \in VarintStates
  BY VarintByteIs
<1> QED
  BY <1>1 DEF VarintStep, Steps

\* The decoder behind some groups is in a state of it, behind none in the one a word starts in.
LEMMA VarintAtIs ==
  ASSUME NEW w \in WordBits, NEW n \in Nat, NEW out \in Seq(Bytes)
  PROVE  VarintAt(w, n, out) \in VarintStates /\ VarintAt(w, 0, out) = [ok |-> TRUE, val |-> {}, shift |-> 0, out |-> out]
<1>1. Low(w, 7 * n) \in WordBits /\ 7 * n \in Nat
  BY DEF Low, WordBits
<1>2. Low(w, 7 * 0) = {} /\ 7 * 0 = 0
  BY DEF Low
<1>3. VarintAt(w, n, out) \in VarintStates
  BY <1>1 DEF VarintAt, VarintStates
<1> QED
  BY <1>2, <1>3 DEF VarintAt

\* One group more: seven bits more of the word, or the whole word written.
LEMMA OneGroup ==
  ASSUME NEW w \in WordBits, NEW out \in Seq(Bytes), NEW g \in 1..LastGroup(w) + 1
  PROVE  VarintByte(VarintAt(w, g - 1, out), VarintGroups(w)[g]) =
           IF g = LastGroup(w) + 1 THEN VarintAt(w, 0, out \o LittleEndian(w)) ELSE VarintAt(w, g, out)
<1> DEFINE last == LastGroup(w)
           b == VarintGroups(w)[g]
           n == 7 * (g - 1)
           st == VarintAt(w, g - 1, out)
           val == st.val \cup Shl(ByteBits(b % 128), st.shift)
           r == VarintByte(st, b)
<1>1. last \in 0..4 /\ \A i \in w : i < 7 * (last + 1)
  BY LastGroupIs
<1>2. (b < 128 <=> g = last + 1) /\ ByteBits(b % 128) = Low(Shr(w, n), 7)
  BY GroupsAre
<1>3. g \in 1..5 /\ g - 1 \in Nat /\ n \in Nat /\ n + 7 = 7 * g /\ g \in Nat
  BY <1>1
<1>4. st.ok = TRUE /\ st.val = Low(w, n) /\ st.shift = n /\ st.out = out
  BY DEF VarintAt
<1>5. w \subseteq 0..31 /\ LittleEndian(w) \in Seq(Bytes)
  BY WordOfItsBytes DEF WordBits, WORD
<1>6. st \in VarintStates
  BY <1>3, VarintAtIs
<1>7. r = IF b < 128 THEN [st EXCEPT !.val = {}, !.shift = 0, !.out = st.out \o LittleEndian(val)]
                     ELSE [st EXCEPT !.val = val, !.shift = st.shift + 7, !.ok = st.ok /\ st.shift + 7 <= 28]
  BY DEF VarintByte
<1> HIDE DEF last, b, n, st, r
<1>8. val = Low(w, n + 7)
  BY <1>2, <1>3, <1>4, NextSeven
<1> HIDE DEF val
<1>9. CASE g = last + 1
  <2>1. n + 7 = 7 * (last + 1)
    BY <1>3, <1>9
  <2>2. \A i \in w : i \in 0..(n + 7) - 1
    BY <1>1, <1>3, <1>5, <2>1
  <2>3. val = w
    BY <1>8, <2>2 DEF Low
  <2>4. r = [st EXCEPT !.val = {}, !.shift = 0, !.out = out \o LittleEndian(w)]
    BY <1>2, <1>4, <1>7, <1>9, <2>3
  <2>5. r = [ok |-> TRUE, val |-> {}, shift |-> 0, out |-> out \o LittleEndian(w)]
    BY <1>4, <1>6, <2>4 DEF VarintStates
  <2>6. out \o LittleEndian(w) \in Seq(Bytes)
    BY <1>5
  <2>7. r = VarintAt(w, 0, out \o LittleEndian(w))
    BY <2>5, <2>6, VarintAtIs
  <2> QED
    BY <1>9, <2>7 DEF r, last, b, st
<1>10. CASE g # last + 1
  <2>1. n + 7 <= 28
    BY <1>1, <1>3, <1>10 DEF last
  <2>2. r = [st EXCEPT !.val = val, !.shift = n + 7, !.ok = TRUE]
    BY <1>2, <1>4, <1>7, <1>10, <2>1
  <2>3. r = [ok |-> TRUE, val |-> val, shift |-> n + 7, out |-> out]
    BY <1>4, <1>6, <2>2 DEF VarintStates
  <2>4. r = VarintAt(w, g, out)
    BY <1>3, <1>8, <2>3 DEF VarintAt
  <2> QED
    BY <1>10, <2>4 DEF r, last, b, st
<1> QED
  BY <1>9, <1>10

\* The groups of a word bring the word back, its bytes turned round.
LEMMA WordReturns ==
  ASSUME NEW w \in WordBits, NEW out \in Seq(Bytes)
  PROVE  Loop(VarintStep, VarintAt({}, 0, out), VarintGroups(w)) = VarintAt({}, 0, out \o LittleEndian(w))
<1> DEFINE last == LastGroup(w)
           gs == VarintGroups(w)
           base == VarintAt(w, 0, out)
<1>1. last \in 0..4
  BY LastGroupIs
<1>2. gs \in Seq(Bytes) /\ Len(gs) = last + 1
  BY GroupsAre
<1>3. base \in VarintStates /\ \A n \in Nat : VarintAt(w, n, out) \in VarintStates
  BY VarintAtIs
<1>4. \A g \in 1..last + 1 : VarintByte(VarintAt(w, g - 1, out), gs[g]) =
           IF g = last + 1 THEN VarintAt(w, 0, out \o LittleEndian(w)) ELSE VarintAt(w, g, out)
  BY OneGroup
<1> HIDE DEF last, gs, base
<1>5. PICK f \in [0..Len(gs) -> VarintStates] :
         Lists(f, VarintStep, base, gs) /\ Loop(VarintStep, base, gs) = f[Len(gs)]
  BY <1>2, <1>3, VarintSteps, LoopIs
<1>6. \A g \in 1..last + 1 : gs[g] \in Bytes /\ g - 1 \in 0..Len(gs)
  BY <1>1, <1>2
<1>7. \A g \in 1..last + 1 : f[g] = VarintByte(f[g - 1], gs[g])
  BY <1>2, <1>5, <1>6, VarintSteps DEF Lists
<1> DEFINE T == {n \in Nat : n <= last => f[n] = VarintAt(w, n, out)}
<1>8. 0 \in T
  BY <1>5 DEF Lists, base
<1>9. ASSUME NEW n \in Nat, n \in T PROVE n + 1 \in T
  <2> SUFFICES ASSUME n + 1 <= last PROVE f[n + 1] = VarintAt(w, n + 1, out)
    OBVIOUS
  <2>1. n + 1 \in 1..last + 1 /\ n + 1 # last + 1 /\ (n + 1) - 1 = n /\ n <= last
    BY <1>1
  <2>2. f[n] = VarintAt(w, n, out)
    BY <1>9, <2>1
  <2>3. f[n + 1] = VarintByte(f[n], gs[n + 1])
    BY <1>7, <2>1
  <2>4. VarintByte(VarintAt(w, n, out), gs[n + 1]) = VarintAt(w, n + 1, out)
    BY <1>4, <2>1
  <2> QED
    BY <2>2, <2>3, <2>4
<1>10. f[last] = VarintAt(w, last, out)
  <2>1. last \in Nat /\ last <= last
    BY <1>1
  <2> HIDE DEF T
  <2>2. last \in T
    BY <1>8, <1>9, <2>1, SetInduction
  <2> QED
    BY <2>1, <2>2 DEF T
<1>11. f[last + 1] = VarintAt(w, 0, out \o LittleEndian(w))
  <2>1. last + 1 \in 1..last + 1 /\ (last + 1) - 1 = last
    BY <1>1
  <2> QED
    BY <1>4, <1>7, <1>10, <2>1
<1>12. {} \in WordBits /\ out \o LittleEndian(w) \in Seq(Bytes) /\ 0 \in Nat
  BY WordOfItsBytes DEF WordBits
<1>13. VarintAt(w, 0, out \o LittleEndian(w)) = VarintAt({}, 0, out \o LittleEndian(w))
  BY <1>12, VarintAtIs
<1>14. base = VarintAt({}, 0, out)
  BY <1>12, VarintAtIs DEF base
<1> QED
  BY <1>2, <1>5, <1>11, <1>13, <1>14 DEF gs

\* The first words of some bytes, their bytes turned round, and the groups that varint makes of one.
TurnedWords(in, k) == [i \in 1..4 * k |-> in[4 * ((i - 1) \div 4) + 4 - ((i - 1) % 4)]]
WordAt(in, k) == BigEndian(SubSeq(in, 4 * k - 3, 4 * k))
GroupsOfWords(in, k) == [j \in 1..k |-> VarintGroups(WordAt(in, j))]

\* Place by place: where a byte of a word comes from.
LEMMA TurnedPlaces ==
  ASSUME NEW k \in Nat
  PROVE  /\ \A i \in 1..4 * k : 4 * ((i - 1) \div 4) + 4 - ((i - 1) % 4) \in 1..4 * k
         /\ \A j \in 1..4 : 4 * (((4 * k + j) - 1) \div 4) + 4 - (((4 * k + j) - 1) % 4) = 4 * k + (5 - j)
<1>1. ASSUME NEW i \in 1..4 * k PROVE 4 * ((i - 1) \div 4) + 4 - ((i - 1) % 4) \in 1..4 * k
  <2> DEFINE d == (i - 1) \div 4
             r == (i - 1) % 4
  <2>1. d \in Int /\ r \in 0..3 /\ i - 1 = 4 * d + r /\ i - 1 \in Nat
    OBVIOUS
  <2> HIDE DEF d, r
  <2>2. d \in 0..k - 1
    BY <2>1
  <2>3. 4 * d + 4 - r \in 1..4 * k
    BY <2>1, <2>2
  <2> QED
    BY <2>3 DEF d, r
<1>2. ASSUME NEW j \in 1..4
      PROVE  4 * (((4 * k + j) - 1) \div 4) + 4 - (((4 * k + j) - 1) % 4) = 4 * k + (5 - j)
  <2> DEFINE n == (4 * k + j) - 1
             d == n \div 4
             r == n % 4
  <2>1. n \in Int /\ n = 4 * k + (j - 1)
    OBVIOUS
  <2> HIDE DEF n
  <2>2. d \in Int /\ r \in 0..3 /\ n = 4 * d + r
    BY <2>1
  <2> HIDE DEF d, r
  <2>3. d = k /\ r = j - 1
    BY <2>1, <2>2
  <2>4. 4 * d + 4 - r = 4 * k + (5 - j)
    BY <2>3
  <2> QED
    BY <2>4 DEF n, d, r
<1> QED
  BY <1>1, <1>2

\* One word more that is turned stands behind those before it.
LEMMA TurnedGrows ==
  ASSUME NEW in \in Seq(Bytes), NEW k \in Nat, 4 * (k + 1) <= Len(in)
  PROVE  /\ TurnedWords(in, k) \in Seq(Bytes) /\ Len(TurnedWords(in, k)) = 4 * k
         /\ WordAt(in, k + 1) \in WordBits
         /\ TurnedWords(in, k) \o LittleEndian(WordAt(in, k + 1)) = TurnedWords(in, k + 1)
<1> DEFINE place(i) == 4 * ((i - 1) \div 4) + 4 - ((i - 1) % 4)
           q == SubSeq(in, 4 * (k + 1) - 3, 4 * (k + 1))
           front == TurnedWords(in, k)
           back == LittleEndian(WordAt(in, k + 1))
           whole == TurnedWords(in, k + 1)
<1>1. Len(in) \in Nat /\ \A i \in 1..Len(in) : in[i] \in Bytes
  OBVIOUS
<1>2. /\ \A i \in 1..4 * k : place(i) \in 1..4 * k
      /\ \A j \in 1..4 : place(4 * k + j) = 4 * k + (5 - j)
  BY TurnedPlaces
<1>3. k + 1 \in Nat /\ \A i \in 1..4 * (k + 1) : place(i) \in 1..4 * (k + 1)
  <2>1. k + 1 \in Nat
    OBVIOUS
  <2> QED
    BY <2>1, TurnedPlaces
<1>4. front = [i \in 1..4 * k |-> in[place(i)]] /\ whole = [i \in 1..4 * (k + 1) |-> in[place(i)]]
  BY DEF TurnedWords
<1> HIDE DEF place
<1>5. q = [j \in 1..4 |-> in[4 * k + j]]
  <2>1. q = [j \in 1..4 * (k + 1) - (4 * (k + 1) - 3) + 1 |-> in[j + (4 * (k + 1) - 3) - 1]]
    BY DEF SubSeq
  <2>2. 4 * (k + 1) - (4 * (k + 1) - 3) + 1 = 4
    OBVIOUS
  <2>3. \A j \in 1..4 : j + (4 * (k + 1) - 3) - 1 = 4 * k + j
    OBVIOUS
  <2> QED
    BY <2>1, <2>2, <2>3
<1>6. \A j \in 1..4 : 4 * k + j \in 1..Len(in) /\ 4 * k + (5 - j) \in 1..Len(in)
  BY <1>1
<1>7. q \in Seq(Bytes) /\ Len(q) = 4 /\ \A j \in 1..4 : q[j] = in[4 * k + j]
  <2>1. \A j \in 1..4 : in[4 * k + j] \in Bytes
    BY <1>1, <1>6
  <2> HIDE DEF q
  <2> QED
    BY <1>5, <2>1
<1>8. WordAt(in, k + 1) = BigEndian(q)
  BY DEF WordAt
<1> HIDE DEF q
<1>9. WordAt(in, k + 1) \in WordBits /\ back = [j \in 1..4 |-> q[5 - j]]
  BY <1>7, <1>8, WordOfFour, TurnedWord
<1> HIDE DEF front, back, whole
<1>10. \A j \in 1..4 : 5 - j \in 1..4
  OBVIOUS
<1>11. back = [j \in 1..4 |-> in[4 * k + (5 - j)]]
  BY <1>7, <1>9, <1>10
<1>12. back \in Seq(Bytes) /\ Len(back) = 4 /\ \A j \in 1..4 : back[j] = in[4 * k + (5 - j)]
  <2>1. \A j \in 1..4 : in[4 * k + (5 - j)] \in Bytes
    BY <1>1, <1>6
  <2> QED
    BY <1>11, <2>1
<1>13. front \in Seq(Bytes) /\ Len(front) = 4 * k /\ \A i \in 1..4 * k : front[i] = in[place(i)]
  <2>1. \A i \in 1..4 * k : in[place(i)] \in Bytes
    <3>1. \A i \in 1..4 * k : place(i) \in 1..Len(in)
      BY <1>1, <1>2
    <3> QED
      BY <1>1, <3>1
  <2>2. ASSUME NEW m \in Nat, \A i \in 1..m : in[place(i)] \in Bytes
        PROVE  /\ [i \in 1..m |-> in[place(i)]] \in Seq(Bytes) /\ Len([i \in 1..m |-> in[place(i)]]) = m
               /\ \A i \in 1..m : [l \in 1..m |-> in[place(l)]][i] = in[place(i)]
    BY <2>2
  <2>3. 4 * k \in Nat
    OBVIOUS
  <2> QED
    BY <1>4, <2>1, <2>2, <2>3
<1> DEFINE joined == front \o back
<1>14. joined \in Seq(Bytes) /\ Len(joined) = 4 * k + 4
       /\ \A i \in 1..4 * k + 4 : joined[i] = IF i <= 4 * k THEN front[i] ELSE back[i - 4 * k]
  <2>1. joined \in Seq(Bytes) /\ Len(joined) = Len(front) + Len(back)
        /\ \A i \in 1..Len(front) + Len(back) : joined[i] = IF i <= Len(front) THEN front[i] ELSE back[i - Len(front)]
    BY <1>12, <1>13, JoinedIs
  <2> HIDE DEF joined
  <2> QED
    BY <1>12, <1>13, <2>1
<1> HIDE DEF joined
<1>15. ASSUME NEW i \in 1..4 * k + 4 PROVE joined[i] = in[place(i)]
  <2>1. CASE i <= 4 * k
    <3>1. i \in 1..4 * k
      BY <2>1
    <3> QED
      BY <1>13, <1>14, <2>1, <3>1
  <2>2. CASE ~(i <= 4 * k)
    <3> DEFINE j == i - 4 * k
    <3>1. j \in 1..4 /\ i = 4 * k + j
      BY <2>2
    <3> HIDE DEF j
    <3>2. place(i) = 4 * k + (5 - j)
      <4>1. place(4 * k + j) = 4 * k + (5 - j)
        BY <1>2, <3>1, Zenon
      <4> QED
        BY <3>1, <4>1, Zenon
    <3>3. joined[i] = back[j]
      BY <1>14, <2>2 DEF j
    <3> QED
      BY <1>12, <3>1, <3>2, <3>3
  <2> QED
    BY <2>1, <2>2
<1>16. joined = [i \in 1..4 * k + 4 |-> joined[i]]
  BY <1>14
<1>17. joined = whole
  <2>1. 4 * (k + 1) = 4 * k + 4
    OBVIOUS
  <2>2. whole = [i \in 1..4 * k + 4 |-> in[place(i)]]
    BY <1>4, <2>1
  <2> QED
    BY <1>15, <1>16, <2>2
<1> QED
  BY <1>9, <1>13, <1>17 DEF joined, front, back, whole

\* The words of some bytes bring them back, one after the other.
LEMMA WordsReturn ==
  ASSUME NEW in \in Seq(Bytes), NEW m \in Nat, 4 * m <= Len(in)
  PROVE  /\ FlattenSeq(GroupsOfWords(in, m)) \in Seq(Bytes)
         /\ Loop(VarintStep, VarintAt({}, 0, <<>>), FlattenSeq(GroupsOfWords(in, m)))
              = VarintAt({}, 0, TurnedWords(in, m))
<1> DEFINE base == VarintAt({}, 0, <<>>)
           gs(k) == GroupsOfWords(in, k)
           Good(k) == /\ gs(k) \in Seq(Seq(Bytes)) /\ FlattenSeq(gs(k)) \in Seq(Bytes)
                      /\ Loop(VarintStep, base, FlattenSeq(gs(k))) = VarintAt({}, 0, TurnedWords(in, k))
           T == {k \in Nat : k <= m => Good(k)}
<1>1. {} \in WordBits /\ <<>> \in Seq(Bytes) /\ 0 \in Nat
  BY DEF WordBits
<1>2. base \in VarintStates
  BY <1>1, VarintAtIs
<1> HIDE DEF base
<1>3. 0 \in T
  <2>1. 1..0 = {} /\ 1..4 * 0 = {}
    OBVIOUS
  <2>2. gs(0) = <<>>
    BY <2>1 DEF GroupsOfWords
  <2>3. TurnedWords(in, 0) = <<>>
    BY <2>1 DEF TurnedWords
  <2>4. FlattenSeq(gs(0)) = <<>>
    BY <2>2, FlattenNone
  <2>5. Loop(VarintStep, base, <<>>) = base
    BY <1>2, VarintSteps, LoopEnds
  <2>6. <<>> \in Seq(Seq(Bytes)) /\ <<>> \in Seq(Bytes)
    OBVIOUS
  <2> QED
    BY <2>2, <2>3, <2>4, <2>5, <2>6 DEF base
<1>4. ASSUME NEW k \in Nat, k \in T PROVE k + 1 \in T
  <2> SUFFICES ASSUME k + 1 <= m PROVE Good(k + 1)
    OBVIOUS
  <2>1. Good(k) /\ 4 * (k + 1) <= Len(in) /\ k + 1 \in Nat
    BY <1>4
  <2> DEFINE w == WordAt(in, k + 1)
             out == TurnedWords(in, k)
             word == VarintGroups(w)
             flat == FlattenSeq(gs(k))
  <2>2. out \in Seq(Bytes) /\ w \in WordBits /\ out \o LittleEndian(w) = TurnedWords(in, k + 1)
    BY <2>1, TurnedGrows
  <2>3. word \in Seq(Bytes)
    <3> HIDE DEF w
    <3> QED
      BY <2>2, GroupsAre
  <2>4. gs(k + 1) = Append(gs(k), word)
    <3>1. gs(k) = [j \in 1..k |-> VarintGroups(WordAt(in, j))] /\ gs(k) \in Seq(Seq(Bytes))
          /\ gs(k + 1) = [j \in 1..k + 1 |-> VarintGroups(WordAt(in, j))]
      BY <2>1 DEF GroupsOfWords
    <3> DEFINE a == gs(k)
               b == gs(k + 1)
    <3>2. Len(a) = k /\ a \in Seq(Seq(Bytes)) /\ \A j \in 1..k : a[j] = VarintGroups(WordAt(in, j))
      BY <3>1
    <3>3. DOMAIN b = 1..k + 1 /\ b[k + 1] = word /\ \A j \in 1..k : b[j] = VarintGroups(WordAt(in, j))
      <4>1. k + 1 \in 1..k + 1 /\ \A j \in 1..k : j \in 1..k + 1
        OBVIOUS
      <4> QED
        BY <3>1, <4>1
    <3>4. b = [j \in 1..k + 1 |-> VarintGroups(WordAt(in, j))]
      BY <3>1
    <3> HIDE DEF a, b, word
    <3>5. Append(a, word) = [j \in 1..k + 1 |-> IF j <= k THEN a[j] ELSE word]
      <4> DEFINE c == Append(a, word)
      <4>1. c \in Seq(Seq(Bytes)) /\ Len(c) = k + 1 /\ (\A j \in 1..k : c[j] = a[j]) /\ c[k + 1] = word
        BY <2>3, <3>2, AppendProperties
      <4> HIDE DEF c
      <4>2. c = [j \in 1..k + 1 |-> c[j]]
        BY <4>1
      <4>3. \A j \in 1..k + 1 : c[j] = IF j <= k THEN a[j] ELSE word
        <5>1. \A j \in 1..k + 1 : (j \in 1..k /\ j <= k) \/ (j = k + 1 /\ ~(j <= k))
          OBVIOUS
        <5> QED
          BY <4>1, <5>1
      <4> QED
        BY <4>2, <4>3 DEF c
    <3>6. \A j \in 1..k + 1 : b[j] = IF j <= k THEN a[j] ELSE word
      <4>1. \A j \in 1..k + 1 : (j \in 1..k /\ j <= k) \/ (j = k + 1 /\ ~(j <= k))
        OBVIOUS
      <4> QED
        BY <3>2, <3>3, <4>1
    <3>7. b = [j \in 1..k + 1 |-> b[j]]
      BY <3>4
    <3>8. b = Append(a, word)
      BY <3>5, <3>6, <3>7
    <3> QED
      BY <3>8 DEF a, b
  <2>5. gs(k) \in Seq(Seq(Bytes)) /\ flat \in Seq(Bytes)
        /\ Loop(VarintStep, base, flat) = VarintAt({}, 0, out)
    BY <2>1
  <2>6. FlattenSeq(gs(k + 1)) = flat \o word
    <3>1. FlattenSeq(Append(gs(k), word)) = flat \o word
      <4> DEFINE a == gs(k)
      <4>1. a \in Seq(Seq(Bytes))
        BY <2>5
      <4> HIDE DEF a, word
      <4>2. FlattenSeq(Append(a, word)) = FlattenSeq(a) \o word
        BY <2>3, <4>1, FlattenLonger
      <4> QED
        BY <4>2 DEF a
    <3> QED
      BY <2>4, <3>1
  <2>7. gs(k + 1) \in Seq(Seq(Bytes))
    <3> DEFINE a == gs(k)
    <3>1. a \in Seq(Seq(Bytes))
      BY <2>5
    <3> HIDE DEF a, word
    <3>2. Append(a, word) \in Seq(Seq(Bytes))
      BY <2>3, <3>1
    <3> QED
      BY <2>4, <3>2 DEF a
  <2> HIDE DEF w, out, word, flat
  <2>8. Loop(VarintStep, base, flat \o word) = Loop(VarintStep, Loop(VarintStep, base, flat), word)
    BY <1>2, <2>3, <2>5, VarintSteps, LoopGoesOn
  <2>9. Loop(VarintStep, VarintAt({}, 0, out), word) = VarintAt({}, 0, out \o LittleEndian(w))
    BY <2>2, WordReturns DEF word
  <2>10. Loop(VarintStep, base, FlattenSeq(gs(k + 1))) = VarintAt({}, 0, TurnedWords(in, k + 1))
    BY <2>2, <2>5, <2>6, <2>8, <2>9
  <2>11. FlattenSeq(gs(k + 1)) \in Seq(Bytes)
    <3>1. flat \o word \in Seq(Bytes)
      BY <2>3, <2>5
    <3> QED
      BY <2>6, <3>1, Zenon
  <2> QED
    BY <2>7, <2>10, <2>11
<1>5. Good(m)
  <2>1. m <= m
    OBVIOUS
  <2> HIDE DEF T
  <2>2. m \in T
    BY <1>3, <1>4, SetInduction
  <2> QED
    BY <2>1, <2>2 DEF T
<1> QED
  BY <1>5 DEF base

\* What varint encoding makes of some bytes brings back every whole word of them with its bytes turned
\* round, for bytes of every length (codec_dispatch.cpp:28-61, 77-131).
THEOREM VarintTurnsWords ==
  ASSUME NEW bytes \in Seq(Bytes)
  PROVE  \A x \in Encode("Varint", bytes) : Decode("Varint", x) = {TurnedRound(bytes)}
<1> SUFFICES ASSUME NEW x, x \in EncodeVarint(bytes) PROVE DecodeVarint(x) = {TurnedRound(bytes)}
  BY DEF Encode, Decode
<1> DEFINE m == Len(bytes) \div 4
           turned == TurnedWords(bytes, m)
           end == Loop(VarintStep, VarintAt({}, 0, <<>>), x)
<1>1. m \in Nat /\ 4 * m <= Len(bytes)
  <2> DEFINE n == Len(bytes)
  <2>1. n \in Nat
    OBVIOUS
  <2> HIDE DEF n
  <2>2. n \div 4 \in Nat /\ 4 * (n \div 4) <= n
    BY <2>1
  <2> QED
    BY <2>2 DEF n
<1>2. x = FlattenSeq(GroupsOfWords(bytes, m)) /\ x # <<>>
  BY DEF EncodeVarint, GroupsOfWords, WordAt
<1>3. turned = TurnedRound(bytes)
  BY DEF TurnedWords, TurnedRound
<1>4. end = VarintAt({}, 0, turned)
  <2> HIDE DEF m
  <2> QED
    BY <1>1, <1>2, WordsReturn
<1>5. end.ok = TRUE /\ end.shift = 0 /\ end.out = turned
  <2> HIDE DEF end
  <2>1. 7 * 0 = 0
    OBVIOUS
  <2> QED
    BY <1>4, <2>1 DEF VarintAt
<1>6. turned # <<>>
  <2>1. CASE m = 0
    <3>1. 1..0 = {}
      OBVIOUS
    <3>2. GroupsOfWords(bytes, 0) = <<>>
      BY <3>1 DEF GroupsOfWords
    <3>3. x = <<>>
      BY <1>2, <2>1, <3>2, FlattenNone
    <3> QED
      BY <1>2, <3>3
  <2>2. CASE m # 0
    <3> HIDE DEF m
    <3>1. 1 \in 1..4 * m
      BY <1>1, <2>2
    <3>2. DOMAIN turned = 1..4 * m
      BY DEF TurnedWords
    <3> HIDE DEF turned
    <3>3. DOMAIN turned # DOMAIN <<>>
      BY <3>1, <3>2
    <3> QED
      BY <3>3, Zenon DEF turned
  <2> QED
    BY <2>1, <2>2
<1>7. VarintAt({}, 0, <<>>) = [ok |-> TRUE, val |-> {}, shift |-> 0, out |-> <<>>]
  <2>1. {} \in WordBits /\ <<>> \in Seq(Bytes) /\ 0 \in Nat
    BY DEF WordBits
  <2> QED
    BY <2>1, VarintAtIs
<1>8. DecodeVarint(x) = LET out == IF end.shift = 0 THEN end.out ELSE end.out \o LittleEndian(end.val)
                        IN IF end.ok /\ out # <<>> THEN {out} ELSE {}
  BY <1>7 DEF DecodeVarint, VarintStep
<1> HIDE DEF end, turned
<1>9. DecodeVarint(x) = {turned}
  BY <1>5, <1>6, <1>8
<1> QED
  BY <1>3, <1>9

\* For bytes of every length, delta leaves all but the first and varint the whole words, each turned
\* round (codec_dispatch.cpp:11-92).
THEOREM WhatCodecsLeave ==
  ASSUME NEW bytes \in Seq(Bytes)
  PROVE  LeftByCodecs(bytes)
<1>1. \A x \in Encode("Delta", bytes) : Decode("Delta", x) = {Tail(bytes)}
  BY DeltaLosesFirst
<1>2. \A x \in Encode("Varint", bytes) : Decode("Varint", x) = {TurnedRound(bytes)}
  BY VarintTurnsWords
<1> QED
  BY <1>1, <1>2 DEF LeftByCodecs

\* A group of eight literals decodes to them in a room of eight and not in one of seven
\* (compress.cpp:46-96).
LEMMA GroupDecodes ==
  ASSUME NEW eight \in Seq(Bytes), Len(eight) = 8
  PROVE  GroupOfLiterals(eight)
<1> DEFINE src == <<0>> \o eight
<1>1. DecompressLzss(src, 8) = {eight}
  <2>1. eight \in Seq(Bytes) /\ Len(eight) <= 8
    OBVIOUS
  <2> QED
    BY <2>1, LiteralsReturn, Zenon
<1>2. src \in Seq(Bytes)
  <2>1. <<0>> \in Seq(Bytes)
    BY DEF Bytes
  <2> QED
    BY <2>1
<1> HIDE DEF src
<1>3. DecompressLzss(src, 7) \subseteq {eight}
  <2>1. 7 \in 0..8 /\ 8 \in Nat
    OBVIOUS
  <2> QED
    BY <1>1, <1>2, <2>1, LzssMonotone
<1>4. \A out \in DecompressLzss(src, 7) : Len(out) <= 7
  <2>1. 7 \in Nat
    OBVIOUS
  <2> QED
    BY <1>2, <2>1, LzssStaysInside
<1>5. DecompressLzss(src, 7) = {}
  <2>1. ASSUME NEW out \in DecompressLzss(src, 7) PROVE FALSE
    <3>1. out = eight
      BY <1>3, <2>1
    <3>2. Len(out) <= 7
      BY <1>4, <2>1, Zenon
    <3>3. Len(out) = 8
      BY <3>1, Zenon
    <3>4. 8 <= 7
      BY <3>2, <3>3, Zenon
    <3> QED
      BY <3>4
  <2> QED
    BY <2>1, Zenon
<1> QED
  BY <1>1, <1>5 DEF src, GroupOfLiterals

-----------------------------------------------------------------------------
(* The checksums of a chain: words that differ where a byte does.              *)

ADLER == 65521
TwoSums == [a: Nat, b: Nat]
SumsStep(modulus) ==
  [s \in TwoSums |-> [byte \in Bytes |->
    LET a == (s.a + byte) % modulus IN [a |-> a, b |-> (s.b + a) % modulus]]]

\* The first of the two running sums, byte by byte.
LEMMA FirstSum ==
  ASSUME NEW data \in Seq(Bytes)
  PROVE  \E f \in [0..Len(data) -> 0..ADLER - 1] :
           /\ f[0] = 1 /\ \A i \in 1..Len(data) : f[i] = (f[i - 1] + data[i]) % ADLER
           /\ Sums(1, ADLER, data) \in TwoSums /\ Sums(1, ADLER, data).a = f[Len(data)]
<1> DEFINE F == SumsStep(ADLER)
           base == [a |-> 1, b |-> 0]
           n == Len(data)
<1>1. n \in Nat /\ \A i \in 1..n : data[i] \in Bytes /\ i - 1 \in 0..n
  OBVIOUS
<1>2. ADLER \in Nat \ {0}
  BY DEF ADLER
<1>3. ASSUME NEW s \in TwoSums, NEW byte \in Bytes
      PROVE  F[s][byte] \in TwoSums /\ F[s][byte].a = (s.a + byte) % ADLER
  <2> DEFINE a == (s.a + byte) % ADLER
             b == (s.b + a) % ADLER
  <2>1. s.a \in Nat /\ s.b \in Nat /\ byte \in Nat
    BY DEF TwoSums, Bytes
  <2>2. a \in Nat
    BY <1>2, <2>1
  <2>3. F[s][byte] = [a |-> a, b |-> b]
    BY DEF SumsStep
  <2> HIDE DEF a, F
  <2>4. b \in Nat
    BY <1>2, <2>1, <2>2
  <2> HIDE DEF b
  <2>5. F[s][byte] \in TwoSums /\ F[s][byte].a = a
    BY <2>2, <2>3, <2>4 DEF TwoSums
  <2> QED
    BY <2>5 DEF a
<1>4. F \in Steps(TwoSums, Bytes)
  <2>1. \A s \in TwoSums, byte \in Bytes : F[s][byte] \in TwoSums
    BY <1>3
  <2>2. F = [s \in TwoSums |-> F[s]] /\ \A s \in TwoSums : F[s] = [byte \in Bytes |-> F[s][byte]]
    BY DEF SumsStep
  <2> HIDE DEF F
  <2> QED
    BY <2>1, <2>2 DEF Steps
<1>5. base \in TwoSums /\ base.a = 1
  BY DEF TwoSums
<1>6. Sums(1, ADLER, data) = Loop(F, base, data)
  BY DEF Sums, SumsStep, TwoSums
<1> HIDE DEF F, base
<1>7. PICK g \in [0..Len(data) -> TwoSums] : Lists(g, F, base, data) /\ Loop(F, base, data) = g[Len(data)]
  BY <1>4, <1>5, LoopIs
<1> DEFINE f == [i \in 0..n |-> g[i].a]
<1>8. \A i \in 0..n : f[i] = g[i].a /\ g[i] \in TwoSums
  BY <1>7
<1>9. f[0] = 1
  <2>1. 0 \in 0..n
    BY <1>1
  <2> QED
    BY <1>5, <1>7, <1>8, <2>1 DEF Lists
<1>10. ASSUME NEW i \in 1..n PROVE f[i] = (f[i - 1] + data[i]) % ADLER /\ f[i] \in 0..ADLER - 1
  <2>1. i - 1 \in 0..n /\ i \in 0..n /\ data[i] \in Bytes
    BY <1>1
  <2>2. g[i - 1] \in TwoSums /\ g[i] = F[g[i - 1]][data[i]] /\ f[i] = g[i].a /\ f[i - 1] = g[i - 1].a
    BY <1>7, <1>8, <2>1 DEF Lists
  <2>3. g[i].a = (g[i - 1].a + data[i]) % ADLER
    BY <1>3, <2>1, <2>2
  <2>4. data[i] \in Nat
    BY <2>1, ByteItself
  <2>5. g[i - 1].a \in Nat
    <3> DEFINE s == g[i - 1]
    <3>1. s \in TwoSums
      BY <2>2
    <3> HIDE DEF s
    <3>2. s.a \in Nat
      BY <3>1 DEF TwoSums
    <3> QED
      BY <3>2 DEF s
  <2> DEFINE x == g[i - 1].a
             d == data[i]
             z == x + d
  <2>6. f[i] = z % ADLER
    BY <2>2, <2>3
  <2>7. f[i - 1] = x
    BY <2>2
  <2>8. x \in Nat /\ d \in Nat
    BY <2>4, <2>5
  <2> HIDE DEF f, x, d
  <2>9. z \in Nat
    BY <2>8
  <2>10. f[i] = (f[i - 1] + d) % ADLER
    BY <2>6, <2>7
  <2> HIDE DEF z
  <2>11. f[i] \in 0..ADLER - 1
    BY <1>2, <2>6, <2>9
  <2> QED
    BY <2>10, <2>11 DEF d
<1>11. n \in 0..n
  BY <1>1
<1>12. Sums(1, ADLER, data) \in TwoSums /\ Sums(1, ADLER, data).a = f[n]
  BY <1>6, <1>7, <1>8, <1>11
<1>13. f = [i \in 0..n |-> f[i]]
  OBVIOUS
<1> HIDE DEF f
<1>14. f \in [0..n -> 0..ADLER - 1]
  <2>1. \A i \in 0..n : i = 0 \/ i \in 1..n
    BY <1>1
  <2>2. 1 \in 0..ADLER - 1
    BY DEF ADLER
  <2>3. \A i \in 0..n : f[i] \in 0..ADLER - 1
    BY <1>9, <1>10, <2>1, <2>2, SMTT(30)
  <2> QED
    BY <1>13, <2>3
<1> QED
  BY <1>9, <1>10, <1>12, <1>14

\* A sum grows by less than the modulus: different bytes give different sums, and different sums do
\* not meet again.
LEMMA SumsStayApart ==
  \A x, y \in 0..ADLER - 1, c, d \in Bytes :
    ((x + c) % ADLER = (y + d) % ADLER) => (x = y <=> c = d)
<1> DEFINE M == ADLER
<1>1. M \in Nat /\ M > 255
  BY DEF ADLER
<1> HIDE DEF M
<1>2. ASSUME NEW x \in 0..M - 1, NEW c \in 0..255
      PROVE  (x + c) % M \in Int /\ ((x + c) % M = x + c \/ (x + c) % M = (x + c) - M)
  <2> DEFINE z == x + c
             q == z \div M
             r == z % M
  <2>1. z \in Nat /\ z < M + M /\ M \in Nat \ {0}
    BY <1>1
  <2> HIDE DEF z
  <2>2. q \in Nat /\ r \in 0..M - 1 /\ z = M * q + r
    BY <2>1, QuotientIs
  <2> HIDE DEF q, r
  <2>3. q = 0 \/ q = 1
    <3>1. ASSUME NEW p \in Nat PROVE M * (2 + p) = M + M + M * p /\ M * p >= 0
      BY <1>1
    <3>2. CASE q >= 2
      <4>1. q - 2 \in Nat /\ q = 2 + (q - 2)
        BY <2>2, <3>2
      <4>2. M * q >= M + M
        BY <1>1, <3>1, <4>1
      <4> QED
        BY <1>1, <2>1, <2>2, <4>2
    <3> QED
      BY <2>2, <3>2
  <2>4. M * 0 = 0 /\ M * 1 = M
    BY <1>1
  <2>5. r \in Int /\ (r = z \/ r = z - M)
    BY <1>1, <2>1, <2>2, <2>3, <2>4
  <2> QED
    BY <2>5 DEF r, z
<1>3. ASSUME NEW x \in 0..M - 1, NEW y \in 0..M - 1, NEW c \in 0..255, NEW d \in 0..255,
             (x + c) % M = (y + d) % M
      PROVE  x = y <=> c = d
  <2> DEFINE r == (x + c) % M
             s == (y + d) % M
  <2>1. r \in Int /\ (r = x + c \/ r = (x + c) - M)
    BY <1>2
  <2>2. s \in Int /\ (s = y + d \/ s = (y + d) - M)
    BY <1>2
  <2>3. r = s
    BY <1>3
  <2> HIDE DEF r, s
  <2>4. x \in Int /\ y \in Int /\ c \in Int /\ d \in Int /\ x < M /\ y < M /\ x >= 0 /\ y >= 0
    BY <1>1
  <2>5. c >= 0 /\ c < M /\ d >= 0 /\ d < M
    BY <1>1
  <2>6. r = y + d \/ r = (y + d) - M
    BY <2>2, <2>3
  <2>7. x = y => c = d
    BY <1>1, <2>1, <2>4, <2>5, <2>6
  <2>8. c = d => x = y
    BY <1>1, <2>1, <2>4, <2>5, <2>6
  <2> QED
    BY <2>7, <2>8
<1> QED
  BY <1>3, ZenonT(60) DEF M, Bytes

\* The checksum of Adler is another one as soon as one byte is another, wherever it stands
\* (checksum_chain.cpp:80-92).
LEMMA AdlerTells ==
  ASSUME NEW data \in Seq(Bytes), NEW i \in 1..Len(data), NEW b \in Bytes, b # data[i]
  PROVE  Sums(1, ADLER, data).a # Sums(1, ADLER, [data EXCEPT ![i] = b]).a
<1> DEFINE n == Len(data)
           other == [data EXCEPT ![i] = b]
<1>1. n \in Nat /\ \A j \in 1..n : data[j] \in Bytes /\ j - 1 \in 0..n
  OBVIOUS
<1>2. other \in Seq(Bytes) /\ Len(other) = n /\ other[i] = b /\ \A j \in 1..n : j # i => other[j] = data[j]
  OBVIOUS
<1> HIDE DEF other
<1>3. PICK f \in [0..Len(data) -> 0..ADLER - 1] :
           /\ f[0] = 1 /\ \A j \in 1..Len(data) : f[j] = (f[j - 1] + data[j]) % ADLER
           /\ Sums(1, ADLER, data) \in TwoSums /\ Sums(1, ADLER, data).a = f[Len(data)]
  BY FirstSum
<1>4. PICK g \in [0..n -> 0..ADLER - 1] :
           /\ g[0] = 1 /\ \A j \in 1..n : g[j] = (g[j - 1] + other[j]) % ADLER
           /\ Sums(1, ADLER, other) \in TwoSums /\ Sums(1, ADLER, other).a = g[n]
  BY <1>2, FirstSum
<1> HIDE DEF n
<1>5. \A j \in 1..n : /\ f[j - 1] \in 0..ADLER - 1 /\ g[j - 1] \in 0..ADLER - 1
                      /\ data[j] \in Bytes /\ other[j] \in Bytes
                      /\ f[j] = (f[j - 1] + data[j]) % ADLER /\ g[j] = (g[j - 1] + other[j]) % ADLER
  BY <1>1, <1>2, <1>3, <1>4 DEF n
<1>6. i \in 1..n
  BY DEF n
<1> DEFINE T == {k \in Nat : k <= n => (f[k] = g[k] <=> k < i)}
<1>7. 0 \in T
  BY <1>3, <1>4, <1>6
<1>8. ASSUME NEW k \in Nat, k \in T PROVE k + 1 \in T
  <2> SUFFICES ASSUME k + 1 <= n PROVE f[k + 1] = g[k + 1] <=> k + 1 < i
    OBVIOUS
  <2>1. k + 1 \in 1..n /\ (k + 1) - 1 = k /\ k <= n
    BY <1>1
  <2>2. f[k] = g[k] <=> k < i
    BY <1>8, <2>1
  <2>3. /\ f[k] \in 0..ADLER - 1 /\ g[k] \in 0..ADLER - 1 /\ data[k + 1] \in Bytes /\ other[k + 1] \in Bytes
        /\ f[k + 1] = (f[k] + data[k + 1]) % ADLER /\ g[k + 1] = (g[k] + other[k + 1]) % ADLER
    BY <1>5, <2>1
  <2>4. f[k + 1] = g[k + 1] => (f[k] = g[k] <=> data[k + 1] = other[k + 1])
    BY <2>3, SumsStayApart
  <2>5. CASE k + 1 = i
    <3>1. data[k + 1] # other[k + 1] /\ k < i /\ ~(k + 1 < i)
      BY <1>2, <1>6, <2>5
    <3> QED
      BY <2>2, <2>4, <3>1
  <2>6. CASE k + 1 # i
    <3>1. data[k + 1] = other[k + 1] /\ (k < i <=> k + 1 < i)
      BY <1>2, <1>6, <2>1, <2>6 DEF n
    <3>2. f[k] = g[k] => f[k + 1] = g[k + 1]
      BY <2>3, <3>1
    <3> QED
      BY <2>2, <2>4, <3>1, <3>2
  <2> QED
    BY <2>5, <2>6
<1>9. f[n] # g[n]
  <2>1. n \in Nat /\ n <= n /\ ~(n < i)
    BY <1>1, <1>6 DEF n
  <2> HIDE DEF T
  <2>2. n \in T
    BY <1>7, <1>8, <2>1, SetInduction
  <2> QED
    BY <2>1, <2>2 DEF T
<1> QED
  BY <1>3, <1>4, <1>9 DEF n, other

\* Operators on words give words.
LEMMA WordOperators ==
  /\ \A v, w \in WordBits : Xor(v, w) \in WordBits /\ v \cup w \in WordBits
  /\ \A w \in WordBits, n \in Nat : Shr(w, n) \in WordBits
  /\ \A w, n : Shl(w, n) \in WordBits
  /\ \A w, n : w \in WordBits => Low(w, n) \in WordBits
  /\ \A b : ByteBits(b) \in WordBits
  /\ \A n : WordOf(n) \in WordBits
  /\ \A n \in 0..32 : Ones(n) \in WordBits
<1>1. \A v, w \in WordBits : Xor(v, w) \in WordBits /\ v \cup w \in WordBits
  BY DEF WordBits, Xor
<1>2. ASSUME NEW w \in WordBits, NEW n \in Nat PROVE Shr(w, n) \in WordBits
  <2>1. w \subseteq 0..31
    BY DEF WordBits, WORD
  <2>2. \A i \in w : i >= n => i - n \in 0..31
    BY <2>1
  <2>3. Shr(w, n) \subseteq 0..31
    BY <2>2 DEF Shr
  <2> QED
    BY <2>3 DEF WordBits, WORD
<1>3. \A w, n : Shl(w, n) \in WordBits
  BY DEF WordBits, Shl
<1>4. \A w, n : w \in WordBits => Low(w, n) \in WordBits
  BY DEF WordBits, Low
<1>5. \A b : ByteBits(b) \in WordBits
  BY DEF WordBits, ByteBits, Bits, WORD
<1>6. \A n : WordOf(n) \in WordBits
  BY DEF WordBits, WordOf, Bits, WORD
<1>7. \A n \in 0..32 : Ones(n) \in WordBits
  BY DEF WordBits, Ones, WORD
<1> QED
  BY <1>1, <1>2, <1>3, <1>4, <1>5, <1>6, <1>7

\* The places of a sequence, one after the other.
LEMMA PlacesAre ==
  ASSUME NEW S, NEW data \in Seq(S)
  PROVE  [i \in DOMAIN data |-> i] \in Seq(DOMAIN data)
  OBVIOUS

\* Every checksum is a word, whatever it is taken of (checksum_chain.cpp:9-92).
LEMMA ChecksumsAreWords ==
  ASSUME NEW algo \in ChecksumAlgos, NEW data \in Seq(Bytes)
  PROVE  Checksum(algo, data) \in WordBits
<1> DEFINE places == [i \in DOMAIN data |-> i]
<1>1. places \in Seq(DOMAIN data)
  BY PlacesAre
<1>2. crc16_ccitt(data) \in WordBits
  <2> DEFINE F == [acc \in WordBits |-> [i \in DOMAIN data |->
                     Xor(ShiftIn(acc, data[i]), Low(Shl(ByteBits(data[i]), (i - 1) % 8), 16))]]
  <2>1. ASSUME NEW acc \in WordBits, NEW i \in DOMAIN data
        PROVE  Xor(ShiftIn(acc, data[i]), Low(Shl(ByteBits(data[i]), (i - 1) % 8), 16)) \in WordBits
    <3>1. Shl(acc, 8) \in WordBits /\ Shr(acc, 8) \in WordBits
      BY WordOperators
    <3>2. Low(Shl(acc, 8), 16) \in WordBits /\ Low(Xor(Shr(acc, 8), ByteBits(data[i])), 8) \in WordBits
      BY <3>1, WordOperators
    <3>3. ShiftIn(acc, data[i]) \in WordBits
      BY <3>2, WordOperators DEF ShiftIn
    <3>4. Low(Shl(ByteBits(data[i]), (i - 1) % 8), 16) \in WordBits
      BY WordOperators
    <3> QED
      BY <3>3, <3>4, WordOperators
  <2>2. F \in Steps(WordBits, DOMAIN data)
    BY <2>1 DEF Steps
  <2>3. crc16_ccitt(data) = Loop(F, Ones(16), places)
    BY DEF crc16_ccitt, Indexed
  <2>4. 16 \in 0..32
    OBVIOUS
  <2>5. Ones(16) \in WordBits
    BY <2>4, WordOperators
  <2> HIDE DEF F, places
  <2>6. Loop(F, Ones(16), places) \in WordBits
    BY <1>1, <2>2, <2>5, LoopEnds
  <2> QED
    BY <2>3, <2>6
<1>3. xor_fold(data) \in WordBits
  <2> DEFINE F == [acc \in WordBits |-> [i \in DOMAIN data |->
                     Xor(acc, Shl(ByteBits(data[i]), ((i - 1) % 4) * 8))]]
  <2>1. ASSUME NEW acc \in WordBits, NEW i \in DOMAIN data
        PROVE  Xor(acc, Shl(ByteBits(data[i]), ((i - 1) % 4) * 8)) \in WordBits
    <3>1. Shl(ByteBits(data[i]), ((i - 1) % 4) * 8) \in WordBits
      BY WordOperators
    <3> QED
      BY <3>1, WordOperators
  <2>2. F \in Steps(WordBits, DOMAIN data)
    BY <2>1 DEF Steps
  <2>3. xor_fold(data) = Loop(F, {}, places)
    BY DEF xor_fold, Indexed
  <2>4. {} \in WordBits
    BY DEF WordBits
  <2> HIDE DEF F, places
  <2>5. Loop(F, {}, places) \in WordBits
    BY <1>1, <2>2, <2>4, LoopEnds
  <2> QED
    BY <2>3, <2>5
<1>4. \A c \in WordBits : CrcOfByte(c) \in WordBits
  <2> SUFFICES ASSUME NEW c \in WordBits PROVE CrcOfByte(c) \in WordBits
    OBVIOUS
  <2> DEFINE F == [w \in WordBits |-> [i \in 1..8 |-> CrcBit(w)]]
             poly == <<237, 184, 131, 32>>
             eight == [i \in 1..8 |-> i]
  <2>1. CRC32_POLY \in WordBits
    <3>1. poly \in Seq(Bytes) /\ Len(poly) = 4
      BY DEF Bytes
    <3>2. CRC32_POLY = BigEndian(poly)
      BY DEF CRC32_POLY
    <3> HIDE DEF poly
    <3> QED
      BY <3>1, <3>2, WordOfFour
  <2>2. ASSUME NEW w \in WordBits PROVE CrcBit(w) \in WordBits
    <3>1. Shr(w, 1) \in WordBits
      BY WordOperators
    <3>2. Xor(CRC32_POLY, Shr(w, 1)) \in WordBits
      BY <2>1, <3>1, WordOperators
    <3> QED
      BY <3>1, <3>2 DEF CrcBit
  <2>3. F \in Steps(WordBits, 1..8)
    BY <2>2 DEF Steps
  <2>4. eight \in Seq(1..8)
    OBVIOUS
  <2>5. CrcOfByte(c) = Loop(F, c, eight)
    BY DEF CrcOfByte
  <2> HIDE DEF F, eight
  <2>6. Loop(F, c, eight) \in WordBits
    BY <2>3, <2>4, LoopEnds
  <2> QED
    BY <2>5, <2>6
<1>5. crc32(data) \in WordBits
  <2> DEFINE F == [crc \in WordBits |-> [b \in Bytes |->
                     Xor(CrcOfByte(Low(Xor(crc, ByteBits(b)), 8)), Shr(crc, 8))]]
  <2>1. ASSUME NEW crc \in WordBits, NEW b \in Bytes
        PROVE  Xor(CrcOfByte(Low(Xor(crc, ByteBits(b)), 8)), Shr(crc, 8)) \in WordBits
    <3>1. Xor(crc, ByteBits(b)) \in WordBits /\ Shr(crc, 8) \in WordBits
      BY WordOperators
    <3>2. Low(Xor(crc, ByteBits(b)), 8) \in WordBits
      BY <3>1, WordOperators
    <3>3. CrcOfByte(Low(Xor(crc, ByteBits(b)), 8)) \in WordBits
      BY <1>4, <3>2
    <3> QED
      BY <3>1, <3>3, WordOperators
  <2>2. F \in Steps(WordBits, Bytes)
    BY <2>1 DEF Steps
  <2>3. crc32(data) = Xor(Ones(32), Loop(F, Ones(32), data))
    BY DEF crc32
  <2>4. 32 \in 0..32
    OBVIOUS
  <2>5. Ones(32) \in WordBits
    BY <2>4, WordOperators
  <2> HIDE DEF F
  <2>6. Loop(F, Ones(32), data) \in WordBits
    BY <2>2, <2>5, LoopEnds
  <2> QED
    BY <2>3, <2>5, <2>6, WordOperators
<1>6. \A s, width : Joined(s, width) \in WordBits
  BY WordOperators DEF Joined
<1>7. \/ Checksum(algo, data) = crc16_ccitt(data)
      \/ Checksum(algo, data) = crc32(data)
      \/ Checksum(algo, data) = xor_fold(data)
      \/ \E s, width : Checksum(algo, data) = Joined(s, width)
  BY DEF Checksum, ChecksumAlgos
<1> QED
  BY <1>2, <1>3, <1>5, <1>6, <1>7

\* Adler's modulus fits into 16 bits.
LEMMA AdlerFits == 2^16 \in Nat /\ ADLER \in Nat /\ ADLER <= 2^16
  BY SMT DEF ADLER

\* A piece of a sequence, element by element.
LEMMA PieceIs ==
  ASSUME NEW w, NEW m \in Nat, NEW k \in Nat
  PROVE  SubSeq(w, m, k) = [j \in 1..k - m + 1 |-> w[j + m - 1]]
  BY DEF SubSeq

\* Two sums that differ make words that differ.
LEMMA JoinedTellApart ==
  ASSUME NEW s \in TwoSums, NEW t \in TwoSums, s.a \in 0..ADLER - 1, t.a \in 0..ADLER - 1,
         Joined(s, 16) = Joined(t, 16)
  PROVE  s.a = t.a
<1> DEFINE width == 16
<1>0. width \in 0..32
  OBVIOUS
<1>1. 2^width \in Nat /\ ADLER \in Nat /\ ADLER <= 2^width
  BY AdlerFits
<1>2. s.a \in 0..2^width - 1 /\ t.a \in 0..2^width - 1
  <2>1. ASSUME NEW M \in Nat, NEW P \in Nat, M <= P, NEW x \in 0..M - 1 PROVE x \in 0..P - 1
    BY <2>1
  <2> HIDE DEF width
  <2> QED
    BY <2>1, <1>1
<1>3. ASSUME NEW r \in TwoSums PROVE Low(Joined(r, 16), 16) = Bits(r.a, 16)
  <2>1. \A i \in Shl(WordOf(r.b), 16) : i \notin 0..15
    <3>1. \A j \in WordOf(r.b) : j \in 0..30 /\ j + 16 \notin 0..15
      BY DEF WordOf, Bits
    <3> QED
      BY <3>1 DEF Shl
  <2>2. \A i \in 0..15 : i \in WordOf(r.a) <=> i \in Bits(r.a, 16)
    BY DEF WordOf, Bits
  <2>3. Bits(r.a, 16) \subseteq 0..15
    BY DEF Bits
  <2>4. Low(Joined(r, 16), 16) = Joined(r, 16) \cap 0..15
    BY DEF Low
  <2>5. \A i : i \in Joined(r, 16) <=> i \in Shl(WordOf(r.b), 16) \/ i \in WordOf(r.a)
    BY DEF Joined
  <2> QED
    BY <2>1, <2>2, <2>3, <2>4, <2>5
<1>4. Bits(s.a, width) = Bits(t.a, width)
  BY <1>3
<1> HIDE DEF width
<1> QED
  BY <1>0, <1>2, <1>4, BitsTellApart

\* Adler's checksum is another one when one byte is another.
LEMMA AdlerDiffers ==
  ASSUME NEW data \in Seq(Bytes), NEW i \in 1..Len(data), NEW b \in Bytes, b # data[i]
  PROVE  Checksum("Adler32", data) # Checksum("Adler32", [data EXCEPT ![i] = b])
<1> DEFINE other == [data EXCEPT ![i] = b]
           s == Sums(1, ADLER, data)
           t == Sums(1, ADLER, other)
<1>1. other \in Seq(Bytes)
  OBVIOUS
<1>2. s.a # t.a
  BY AdlerTells
<1> HIDE DEF other
<1>3. ASSUME NEW q \in Seq(Bytes) PROVE Sums(1, ADLER, q) \in TwoSums /\ Sums(1, ADLER, q).a \in 0..ADLER - 1
  <2>1. PICK f \in [0..Len(q) -> 0..ADLER - 1] :
           Sums(1, ADLER, q) \in TwoSums /\ Sums(1, ADLER, q).a = f[Len(q)]
    BY FirstSum
  <2>2. Len(q) \in 0..Len(q)
    OBVIOUS
  <2> QED
    BY <2>1, <2>2
<1>4. s \in TwoSums /\ t \in TwoSums /\ s.a \in 0..ADLER - 1 /\ t.a \in 0..ADLER - 1
  BY <1>1, <1>3
<1>5. \A q : Checksum("Adler32", q) = Joined(Sums(1, ADLER, q), 16)
  BY DEF Checksum, ADLER
<1> HIDE DEF s, t
<1>6. Joined(s, 16) # Joined(t, 16)
  BY <1>2, <1>4, JoinedTellApart
<1> QED
  BY <1>5, <1>6 DEF s, t, other

\* Three parts that stand one behind the other, the last two of four bytes.
ThreeParts(whole, a, b, c) ==
  /\ whole \in Seq(Bytes) /\ a \in Seq(Bytes) /\ b \in Seq(Bytes) /\ c \in Seq(Bytes)
  /\ Len(b) = 4 /\ Len(c) = 4 /\ Len(whole) = Len(a) + 8
  /\ \A i \in 1..Len(a) : whole[i] = a[i]
  /\ \A j \in 1..4 : whole[Len(a) + j] = b[j] /\ whole[Len(a) + 4 + j] = c[j]

\* The parts are what is cut out of the whole where they stand.
LEMMA PartsFound ==
  ASSUME NEW whole, NEW a, NEW b, NEW c, ThreeParts(whole, a, b, c)
  PROVE  LET n == Len(a)
         IN /\ SubSeq(whole, 1, n) = a /\ SubSeq(whole, n + 1, n + 4) = b
            /\ SubSeq(whole, n + 5, n + 8) = c
<1> DEFINE n == Len(a)
<1>1. n \in Nat /\ a = [i \in 1..n |-> a[i]] /\ b = [j \in 1..4 |-> b[j]] /\ c = [j \in 1..4 |-> c[j]]
  BY DEF ThreeParts
<1>0. whole \in Seq(Bytes) /\ n + 1 \in Nat /\ n + 4 \in Nat /\ n + 5 \in Nat /\ n + 8 \in Nat
  BY <1>1 DEF ThreeParts
<1>2. /\ \A i \in 1..n : whole[i] = a[i]
      /\ \A j \in 1..4 : whole[n + j] = b[j] /\ whole[n + 4 + j] = c[j]
  BY DEF ThreeParts
<1> HIDE DEF n
<1>3. SubSeq(whole, 1, n) = [i \in 1..n |-> whole[i]]
  BY <1>1
<1>4. SubSeq(whole, n + 1, n + 4) = [j \in 1..4 |-> whole[n + j]]
  <2>1. (n + 4) - (n + 1) + 1 = 4 /\ \A j \in 1..4 : j + (n + 1) - 1 = n + j
    BY <1>1
  <2>2. SubSeq(whole, n + 1, n + 4) = [j \in 1..(n + 4) - (n + 1) + 1 |-> whole[j + (n + 1) - 1]]
    BY <1>0, PieceIs, SMTT(30)
  <2> QED
    BY <2>1, <2>2
<1>5. SubSeq(whole, n + 5, n + 8) = [j \in 1..4 |-> whole[n + 4 + j]]
  <2>1. (n + 8) - (n + 5) + 1 = 4 /\ \A j \in 1..4 : j + (n + 5) - 1 = n + 4 + j
    BY <1>1
  <2>2. SubSeq(whole, n + 5, n + 8) = [j \in 1..(n + 8) - (n + 5) + 1 |-> whole[j + (n + 5) - 1]]
    BY <1>0, PieceIs, SMTT(30)
  <2> QED
    BY <2>1, <2>2
<1>6. [i \in 1..n |-> whole[i]] = [i \in 1..n |-> a[i]]
  BY <1>2
<1>7. [j \in 1..4 |-> whole[n + j]] = [j \in 1..4 |-> b[j]]
  BY <1>2
<1>8. [j \in 1..4 |-> whole[n + 4 + j]] = [j \in 1..4 |-> c[j]]
  BY <1>2
<1> QED
  BY <1>1, <1>3, <1>4, <1>5, <1>6, <1>7, <1>8 DEF n

\* The bytes of a checksum as they stand in a packet.
Stamp(algo, data) == Reverse(LittleEndian(Checksum(algo, data)))

\* Two checksums behind their data.
LEMMA SealedParts ==
  ASSUME NEW x \in ChecksumAlgos, NEW y \in ChecksumAlgos, NEW data \in Seq(Bytes)
  PROVE  ThreeParts(Sealed(<<x, y>>, data), data, Stamp(x, data), Stamp(y, data))
<1> DEFINE b == Stamp(x, data)
           c == Stamp(y, data)
           stamps == [i \in DOMAIN <<x, y>> |-> Reverse(LittleEndian(Checksum(<<x, y>>[i], data)))]
           back == b \o c
           whole == data \o back
           n == Len(data)
<1>1. b \in Seq(Bytes) /\ c \in Seq(Bytes) /\ Len(b) = 4 /\ Len(c) = 4
  BY ChecksumsAreWords, WordOfItsBytes DEF Stamp
<1>2. stamps = <<b, c>>
  BY DEF Stamp
<1> HIDE DEF b, c
<1>3. FlattenSeq(stamps) = back
  <2>1. <<>> \in Seq(Seq(Bytes)) /\ <<b>> \in Seq(Seq(Bytes))
    BY <1>1
  <2>2. <<b>> = Append(<<>>, b) /\ <<b, c>> = Append(<<b>>, c)
    OBVIOUS
  <2> DEFINE none == <<>>
             one == <<b>>
  <2>3. none \in Seq(Seq(Bytes)) /\ one \in Seq(Seq(Bytes)) /\ one = Append(none, b) /\ stamps = Append(one, c)
    BY <1>2, <2>1, <2>2
  <2>4. FlattenSeq(none) = <<>>
    BY FlattenNone
  <2> HIDE DEF none, one, stamps
  <2>5. FlattenSeq(one) = FlattenSeq(none) \o b
    BY <1>1, <2>3, FlattenLonger
  <2>6. FlattenSeq(stamps) = FlattenSeq(one) \o c
    BY <1>1, <2>3, FlattenLonger
  <2>7. <<>> \o b = b
    BY <1>1
  <2> QED
    BY <2>4, <2>5, <2>6, <2>7
<1>4. Sealed(<<x, y>>, data) = whole
  BY <1>3 DEF Sealed
<1>5. /\ back \in Seq(Bytes) /\ Len(back) = 8
      /\ \A j \in 1..4 : back[j] = b[j] /\ back[4 + j] = c[j]
  <2>1. back \in Seq(Bytes) /\ Len(back) = Len(b) + Len(c)
        /\ \A k \in 1..Len(b) + Len(c) : back[k] = IF k <= Len(b) THEN b[k] ELSE c[k - Len(b)]
    BY <1>1, JoinedIs
  <2> HIDE DEF back
  <2>2. \A k \in 1..8 : back[k] = IF k <= 4 THEN b[k] ELSE c[k - 4]
    BY <1>1, <2>1
  <2>3. \A j \in 1..4 : j \in 1..8 /\ j <= 4 /\ 4 + j \in 1..8 /\ ~(4 + j <= 4) /\ (4 + j) - 4 = j
    OBVIOUS
  <2> QED
    BY <1>1, <2>1, <2>2, <2>3
<1> HIDE DEF back
<1>6. /\ whole \in Seq(Bytes) /\ Len(whole) = n + 8 /\ n \in Nat
      /\ \A k \in 1..n + 8 : whole[k] = IF k <= n THEN data[k] ELSE back[k - n]
  <2>1. whole \in Seq(Bytes) /\ Len(whole) = Len(data) + Len(back)
        /\ \A k \in 1..Len(data) + Len(back) : whole[k] = IF k <= Len(data) THEN data[k] ELSE back[k - Len(data)]
    BY <1>5, JoinedIs
  <2>2. n \in Nat /\ Len(data) = n /\ Len(back) = 8
    BY <1>5
  <2> HIDE DEF whole, n
  <2> QED
    BY <2>1, <2>2
<1> HIDE DEF whole, n
<1>7. \A i \in 1..n : i \in 1..n + 8 /\ i <= n
  BY <1>6
<1>8. \A j \in 1..4 : /\ n + j \in 1..n + 8 /\ ~(n + j <= n) /\ (n + j) - n = j
                      /\ n + 4 + j \in 1..n + 8 /\ ~(n + 4 + j <= n) /\ (n + 4 + j) - n = 4 + j
  BY <1>6
<1>9. \A i \in 1..n : whole[i] = data[i]
  BY <1>6, <1>7
<1>10. \A j \in 1..4 : whole[n + j] = b[j] /\ whole[n + 4 + j] = c[j]
  BY <1>5, <1>6, <1>8
<1> QED
  BY <1>1, <1>4, <1>6, <1>9, <1>10 DEF ThreeParts, b, c, n

\* What verify_chain looks at, for two checksums.
LEMMA VerifiedIs ==
  ASSUME NEW x \in ChecksumAlgos, NEW y \in ChecksumAlgos, NEW whole, NEW data, NEW b, NEW c,
         ThreeParts(whole, data, b, c)
  PROVE  verify_chain(<<x, y>>, whole) <=> BigEndian(b) = Checksum(x, data) /\ BigEndian(c) = Checksum(y, data)
<1> DEFINE algos == <<x, y>>
           n == Len(data)
<1>1. Len(whole) = n + 8 /\ n \in Nat
  BY DEF ThreeParts
<1>2. SubSeq(whole, 1, n) = data /\ SubSeq(whole, n + 1, n + 4) = b /\ SubSeq(whole, n + 5, n + 8) = c
  BY PartsFound
<1>3. Len(algos) = 2 /\ DOMAIN algos = {1, 2} /\ algos[1] = x /\ algos[2] = y
  OBVIOUS
<1> HIDE DEF n, algos
<1>4. Len(whole) - 4 * Len(algos) = n
  BY <1>1, <1>3
<1>5. verify_chain(algos, whole) <=>
        /\ n >= 0
        /\ \A i \in {1, 2} : BigEndian(SubSeq(whole, n + 4 * i - 3, n + 4 * i)) = Checksum(algos[i], SubSeq(whole, 1, n))
  BY <1>3, <1>4 DEF verify_chain
<1>6. n + 4 * 1 - 3 = n + 1 /\ n + 4 * 1 = n + 4 /\ n + 4 * 2 - 3 = n + 5 /\ n + 4 * 2 = n + 8 /\ n >= 0
  BY <1>1
<1>7. verify_chain(algos, whole) <=>
        /\ BigEndian(SubSeq(whole, n + 1, n + 4)) = Checksum(x, SubSeq(whole, 1, n))
        /\ BigEndian(SubSeq(whole, n + 5, n + 8)) = Checksum(y, SubSeq(whole, 1, n))
  BY <1>3, <1>5, <1>6
<1> QED
  BY <1>2, <1>7 DEF algos

\* A chain of any checksum and Adler's verifies what it sealed and notices a byte that is another,
\* whatever was sealed and wherever the byte stands (checksum_chain.cpp:9-112).
THEOREM ChainsDetectChanges ==
  ASSUME NEW algo \in ChecksumAlgos, NEW data \in Seq(Bytes), NEW Values \in SUBSET Bytes
  PROVE  ChainDetectsChange(<<algo, "Adler32">>, data, Values)
<1> DEFINE algos == <<algo, "Adler32">>
           sealed == Sealed(algos, data)
           b == Stamp(algo, data)
           c == Stamp("Adler32", data)
           n == Len(data)
<1>1. "Adler32" \in ChecksumAlgos /\ n \in Nat /\ DOMAIN data = 1..n
  BY DEF ChecksumAlgos
<1>2. ThreeParts(sealed, data, b, c)
  BY <1>1, SealedParts
<1>3. BigEndian(b) = Checksum(algo, data) /\ BigEndian(c) = Checksum("Adler32", data)
  BY <1>1, ChecksumsAreWords, WordOfItsBytes DEF Stamp
<1> HIDE DEF sealed, b, c
<1>4. verify_chain(algos, sealed)
  BY <1>1, <1>2, <1>3, VerifiedIs
<1>5. ASSUME NEW i \in 1..n, NEW v \in Values, v # data[i]
      PROVE  ~verify_chain(algos, [sealed EXCEPT ![i] = v])
  <2> DEFINE other == [data EXCEPT ![i] = v]
             changed == [sealed EXCEPT ![i] = v]
  <2>1. other \in Seq(Bytes) /\ Len(other) = n /\ other[i] = v /\ \A j \in 1..n : j # i => other[j] = data[j]
    OBVIOUS
  <2>2. sealed \in Seq(Bytes) /\ Len(sealed) = n + 8
    BY <1>2 DEF ThreeParts
  <2>3. i \in 1..n + 8 /\ v \in Bytes
    BY <1>1
  <2>4. changed \in Seq(Bytes) /\ Len(changed) = n + 8 /\ changed[i] = v
        /\ \A j \in 1..n + 8 : j # i => changed[j] = sealed[j]
    BY <2>2, <2>3
  <2> HIDE DEF other, changed, n
  <2>5. \A j \in 1..n : changed[j] = other[j]
    <3>1. \A j \in 1..n : j \in 1..n + 8 /\ sealed[j] = data[j]
      BY <1>1, <1>2 DEF ThreeParts, n
    <3> QED
      BY <2>1, <2>4, <3>1
  <2>6. \A j \in 1..4 : changed[n + j] = b[j] /\ changed[n + 4 + j] = c[j]
    <3>1. \A j \in 1..4 : n + j \in 1..n + 8 /\ n + j # i /\ n + 4 + j \in 1..n + 8 /\ n + 4 + j # i
      BY <1>1
    <3>2. \A j \in 1..4 : sealed[n + j] = b[j] /\ sealed[n + 4 + j] = c[j]
      BY <1>2 DEF ThreeParts, n
    <3> QED
      BY <2>4, <3>1, <3>2
  <2>7. ThreeParts(changed, other, b, c)
    BY <1>2, <2>1, <2>4, <2>5, <2>6 DEF ThreeParts
  <2>8. verify_chain(algos, changed) => BigEndian(c) = Checksum("Adler32", other)
    BY <1>1, <2>7, VerifiedIs
  <2>9. Checksum("Adler32", data) # Checksum("Adler32", other)
    BY <1>5, <2>3, AdlerDiffers DEF other, n
  <2> QED
    BY <1>3, <2>8, <2>9 DEF changed
<1> QED
  BY <1>1, <1>4, <1>5 DEF ChainDetectsChange, sealed
============================================================================
