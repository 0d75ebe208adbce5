------------------------------- MODULE Words -------------------------------
(* 32-bit words as sets of bit positions: the bitwise operators of the code   *)
(* are set operators, and no number leaves the range of an integer of TLC.    *)
(* Records of 32-bit fields, and what a field keeps of a quotient.            *)
EXTENDS Integers, Sequences, FiniteSets, SequencesExt, FiniteSetsExt

WORD == 32
WordBits == SUBSET (0..WORD - 1)
Bytes == 0..255

Bits(n, width) == {i \in 0..width - 1 : (n \div 2^i) % 2 = 1}
ByteBits(b) == Bits(b, 8)
WordOf(n) == Bits(n, 31)

\* The number of a word: twice that of the bits above the lowest, and the lowest.
Number(w) ==
  LET above[i \in 0..WORD] ==
        IF i = WORD THEN 0 ELSE 2 * above[i + 1] + (IF i \in w THEN 1 ELSE 0)
  IN above[0]

\* A word of four bytes (or of fewer), the first the most significant.
BigEndian(bytes) ==
  UNION {{i + 8 * (Len(bytes) - k) : i \in ByteBits(bytes[k])} : k \in DOMAIN bytes}

\* Byte k of a word, 0 the least significant.
ByteAt(w, k) == Number({i - 8 * k : i \in w \cap 8 * k..8 * k + 7})
LittleEndian(w) == [k \in 1..4 |-> ByteAt(w, k - 1)]

Xor(v, w) == (v \ w) \cup (w \ v)
Shl(w, n) == {i + n : i \in w} \cap 0..WORD - 1
Shr(w, n) == {i - n : i \in {j \in w : j >= n}}
Low(w, n) == w \cap 0..n - 1

\* A carry enters bit i when two ones met below it and a one stands in every bit between.
Carries(v, w) ==
  {i \in 1..WORD - 1 : \E j \in v \cap w : j < i /\ j + 1..i - 1 \subseteq v \cup w}
Plus(v, w) == Xor(Xor(v, w), Carries(v, w))
Times(v, w) == FoldSet(LAMBDA i, sum : Plus(sum, Shl(v, i)), {}, w)

GOLDEN == BigEndian(<<158, 55, 121, 185>>)    \* 0x9E3779B9
KNUTH == BigEndian(<<158, 55, 121, 177>>)     \* 2654435761

\* h = seed; h = h * factor + byte, over the bytes.
PolynomialHash(seed, factor, bytes) ==
  FoldLeft(LAMBDA h, b : Plus(Times(h, WordOf(factor)), WordOf(b)), WordOf(seed), bytes)

\* seed ^ (word + golden + (seed << 6) + (seed >> 2) + n)
Combined(seed, word, n) ==
  Xor(seed, Plus(Plus(Plus(word, GOLDEN), Plus(Shl(seed, 6), Shr(seed, 2))), WordOf(n)))

-----------------------------------------------------------------------------
\* Division cuts towards 0.
Magnitude(a) == IF a < 0 THEN -a ELSE a
Quotient(a, b) ==
  LET q == Magnitude(a) \div Magnitude(b) IN IF (a < 0) = (b < 0) THEN q ELSE -q

\* What is stored of num/den after it went through a double: cut towards 0, and when the quotient
\* is whole the double may lie just below it (1001 thousandths are 1.001, and 1.001 * 1000 < 1001).
Stored(num, den) ==
  LET q == Quotient(num, den)
  IN IF q * den # num \/ q = 0 THEN {q} ELSE {q, IF q > 0 THEN q - 1 ELSE q + 1}

AsWord(v) == IF v >= 0 THEN WordOf(v) ELSE Xor(0..31, WordOf(-v - 1))
AsNumber(w) == IF 31 \in w THEN -Number(Xor(0..31, w)) - 1 ELSE Number(w)
SwapBytes(v) == AsNumber(BigEndian(LittleEndian(AsWord(v))))

Field(record, f) == IF f < Len(record) THEN record[f + 1] ELSE 0

\* The record grows with zeros up to the field.
Written(record, f, v) ==
  [i \in 1..Max({Len(record), f + 1}) |-> IF i = f + 1 THEN v ELSE Field(record, i - 1)]
=============================================================================
