---------------------------- MODULE PacketBuilder ---------------------------
(* packet_builder.cpp: TLVs gathered into a packet; checksum_chain.cpp: the   *)
(* checksums a packet can carry, in a chain that is loaded from a stream.     *)
EXTENDS RecordStream, Words

CONSTANTS TlvTypes,          \* types of TLVs
          TlvLengths,        \* lengths of values
          PACKET_WRAP,       \* 2^16: what a length field holds is below it
          OVERHEAD           \* the bytes of the header and the CRC

ASSUME BuilderAssumption == PACKET_WRAP \in Nat \ {0} /\ OVERHEAD \in Nat /\ TlvLengths \subseteq Nat

VARIABLES tlv_payload,       \* the TLVs appended, [type, length]; values are not looked at
          sequence_id,
          chain,             \* chain_ of a ChecksumChain: the algorithms, in order
          packets            \* history: what finalize gave out since the last reset

builderVars == <<tlv_payload, sequence_id, chain, packets>>

ChecksumAlgos == {"Crc16Ccitt", "Crc32", "Fletcher16", "Fletcher32", "Adler32", "XorFold"}
DefaultChain == <<"Crc16Ccitt", "Adler32">>

BuilderTypeOK ==
  /\ tlv_payload \in Seq([type: TlvTypes, length: 0..PACKET_WRAP - 1])
  /\ sequence_id \in Nat
  /\ chain \in Seq(ChecksumAlgos)

PacketSize(tlvs) == OVERHEAD + FoldLeft(LAMBDA n, t : n + 4 + t.length, 0, tlvs)

BuilderInit ==
  tlv_payload = <<>> /\ sequence_id = 0 /\ chain = DefaultChain /\ packets = <<>>

\* Only the length of the value is looked at, never the size of what is gathered.
AppendTlv(type, length) ==
  /\ length < PACKET_WRAP
  /\ tlv_payload' = Append(tlv_payload, [type |-> type, length |-> length])
  /\ UNCHANGED <<sequence_id, chain, packets>>

\* The payload stays and the sequence number too: the next packet begins with this one.
Finalize ==
  /\ PacketSize(tlv_payload) < PACKET_WRAP
  /\ packets' = Append(packets, [sequence |-> sequence_id, tlvs |-> tlv_payload])
  /\ UNCHANGED <<tlv_payload, sequence_id, chain>>

SetSequence(seq) == sequence_id' = seq /\ UNCHANGED <<tlv_payload, chain, packets>>

BuilderReset ==
  tlv_payload' = <<>> /\ sequence_id' = 0 /\ packets' = <<>> /\ UNCHANGED chain

\* A specification that ends early is taken as far as it goes; the old chain is gone in any case.
LoadChainSpec(s) ==
  /\ s.header
  /\ chain' = Taken(s, FALSE)
  /\ UNCHANGED <<tlv_payload, sequence_id, packets>>

BuilderNext(maxTlvs, maxPackets) ==
  \/ \E type \in TlvTypes, length \in TlvLengths :
       Len(tlv_payload) < maxTlvs /\ AppendTlv(type, length)
  \/ Len(packets) < maxPackets /\ Finalize
  \/ SetSequence(1)
  \/ BuilderReset
  \/ \E s \in StreamsOf(ChecksumAlgos, 1) : LoadChainSpec(s)

\* builder_check_tlv_0 .. 119 and builder_hash_payload_0 .. 119, n their number.
builder_check_tlv(n, type, len) == type # 0 /\ len <= 4096 + (n % 64)
builder_hash_payload(n, data) == PolynomialHash(n, 31, data)

-----------------------------------------------------------------------------
(* Checksums, as words; bytes are folded in with their index from 0 *)

Indexed(Op(_, _, _), base, data) ==
  Loop([acc \in WordBits |-> [i \in DOMAIN data |-> Op(acc, data[i], i - 1)]], base,
       [i \in DOMAIN data |-> i])

Ones(n) == 0..n - 1

\* Not the CCITT polynomial: a byte is mixed in, and mixed in again shifted by its index.
ShiftIn(crc, b) == Xor(Low(Shl(crc, 8), 16), Low(Xor(Shr(crc, 8), ByteBits(b)), 8))
crc16_ccitt(data) ==
  Indexed(LAMBDA crc, b, i : Xor(ShiftIn(crc, b), Low(Shl(ByteBits(b), i % 8), 16)), Ones(16), data)

CRC32_POLY == BigEndian(<<237, 184, 131, 32>>)
CrcBit(c) == IF 0 \in c THEN Xor(CRC32_POLY, Shr(c, 1)) ELSE Shr(c, 1)
CrcOfByte(c) == Loop([w \in WordBits |-> [i \in 1..8 |-> CrcBit(w)]], c, [i \in 1..8 |-> i])
crc32(data) ==
  Xor(Ones(32),
      Loop([crc \in WordBits |-> [b \in Bytes |->
              Xor(CrcOfByte(Low(Xor(crc, ByteBits(b)), 8)), Shr(crc, 8))]],
           Ones(32), data))

\* Two running sums; a is added to after every byte, b after every a.
Sums(start, modulus, data) ==
  Loop([s \in [a: Nat, b: Nat] |-> [byte \in Bytes |->
          LET a == (s.a + byte) % modulus IN [a |-> a, b |-> (s.b + a) % modulus]]],
       [a |-> start, b |-> 0], data)
Joined(s, width) == Shl(WordOf(s.b), width) \cup WordOf(s.a)

xor_fold(data) == Indexed(LAMBDA acc, b, i : Xor(acc, Shl(ByteBits(b), (i % 4) * 8)), {}, data)

Checksum(algo, data) ==
  CASE algo = "Crc16Ccitt" -> crc16_ccitt(data)
    [] algo = "Crc32" -> crc32(data)
    [] algo = "Fletcher16" -> Joined(Sums(0, 255, data), 8)
    [] algo = "Fletcher32" -> Joined(Sums(0, 65535, data), 16)
    [] algo = "Adler32" -> Joined(Sums(1, 65521, data), 16)
    [] algo = "XorFold" -> xor_fold(data)
    [] OTHER -> {}

\* The checksums stand behind the payload, four bytes each, and all cover the payload alone.
verify_chain(algos, data) ==
  LET n == Len(data) - 4 * Len(algos)
  IN /\ n >= 0
     /\ \A i \in DOMAIN algos :
          BigEndian(SubSeq(data, n + 4 * i - 3, n + 4 * i)) = Checksum(algos[i], SubSeq(data, 1, n))

\* checksum_combine_0 .. 99, n its number.
checksum_combine(n, a, b) == Combined(a, b, n)

-----------------------------------------------------------------------------
(* Properties *)

\* finalize keeps what was gathered: until a reset every packet carries all that the packets before
\* it carried, so each one given out is a beginning of what is gathered now, and the size written
\* into it fits its field (packet_builder.cpp:37-67).
PacketsArePrefixes ==
  \A i \in DOMAIN packets :
    IsPrefix(packets[i].tlvs, tlv_payload) /\ PacketSize(packets[i].tlvs) < PACKET_WRAP

\* Data with its checksums behind it verifies, and no longer does when one byte of it is another
\* (checksum_chain.cpp:9-112). Fletcher-16 takes 0 and 255 for the same byte.
Sealed(algos, data) ==
  data \o FlattenSeq([i \in DOMAIN algos |-> Reverse(LittleEndian(Checksum(algos[i], data)))])
ChainDetectsChange(algos, data, Values) ==
  LET sealed == Sealed(algos, data)
  IN /\ verify_chain(algos, sealed)
     /\ \A i \in DOMAIN data, b \in Values :
          b # data[i] /\ (b - data[i]) % 255 # 0 /\ algos # <<>>
            => ~verify_chain(algos, [sealed EXCEPT ![i] = b])
=============================================================================
