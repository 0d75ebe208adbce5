---------------------------- MODULE CodecDispatch ---------------------------
(* codec_dispatch.cpp with the decoders of compress.cpp and compression.cpp:  *)
(* byte codecs, and the table of preferred ones a stream may load. A codec    *)
(* that fails returns {}, one that succeeds the set of its output.            *)
EXTENDS RecordStream, Words

Codecs == {"Raw", "Rle", "Lzss", "Delta", "Varint", "Bcd"}
MAX_OUTPUT == 8192             \* the buffer decode expands into
LZSS_WINDOW_SIZE == 4096
LZSS_MIN_MATCH == 3

VARIABLE preferred_order

CodecTypeOK == preferred_order \in Seq(Codecs \cup {"Other"})

CodecInit == preferred_order = <<"Raw", "Rle", "Lzss", "Delta", "Varint">>

\* A table that ends early is taken as far as it goes; the old one is gone in any case.
CodecTableLoads(s) == s.header /\ Taken(s, FALSE) # <<>>
LoadCodecTable(s) ==
  preferred_order' = IF s.header THEN Taken(s, FALSE) ELSE preferred_order

-----------------------------------------------------------------------------
(* Delta: a 16-bit base, then differences; only the low byte comes out *)

DecodeDelta(in) ==
  IF Len(in) < 2 THEN {}
  ELSE LET prev[i \in 2..Len(in)] == IF i = 2 THEN in[2] ELSE prev[i - 1] + in[i]
       IN {[i \in 1..Len(in) - 2 |-> prev[i + 2] % 256]}

EncodeDelta(in) ==
  IF in = <<>> THEN {}
  ELSE {<<0, in[1]>> \o [i \in 1..Len(in) - 1 |-> (in[i + 1] - in[i]) % 256]}

-----------------------------------------------------------------------------
(* Varint: groups of seven bits, the lowest first; the top bit says that more follow *)

VarintByte(st, b) ==
  LET val == st.val \cup Shl(ByteBits(b % 128), st.shift)
  IN IF b < 128 THEN [st EXCEPT !.val = {}, !.shift = 0, !.out = @ \o LittleEndian(val)]
                ELSE [st EXCEPT !.val = val, !.shift = @ + 7, !.ok = @ /\ st.shift + 7 <= 28]

VarintStates == [ok: BOOLEAN, val: WordBits, shift: Nat, out: Seq(Bytes)]

\* An input that ends inside a number gives the number as far as it came.
DecodeVarint(in) ==
  LET st == Loop([st \in VarintStates |-> [b \in Bytes |-> VarintByte(st, b)]],
                 [ok |-> TRUE, val |-> {}, shift |-> 0, out |-> <<>>], in)
      out == IF st.shift = 0 THEN st.out ELSE st.out \o LittleEndian(st.val)
  IN IF st.ok /\ out # <<>> THEN {out} ELSE {}

VarintGroups(w) ==
  LET last == Max({0} \cup {i \div 7 : i \in w})
  IN [g \in 1..last + 1 |-> Number(Low(Shr(w, 7 * (g - 1)), 7)) + (IF g <= last THEN 128 ELSE 0)]

\* Whole words only: up to three bytes at the end are dropped.
EncodeVarint(in) ==
  LET out == FlattenSeq([k \in 1..Len(in) \div 4 |->
                           VarintGroups(BigEndian(SubSeq(in, 4 * k - 3, 4 * k)))])
  IN IF out # <<>> THEN {out} ELSE {}

-----------------------------------------------------------------------------
DecodeBcd(in) ==
  IF \E i \in DOMAIN in : in[i] \div 16 > 9 \/ in[i] % 16 > 9 THEN {}
  ELSE {FlattenSeq([i \in DOMAIN in |-> <<48 + (in[i] \div 16), 48 + (in[i] % 16)>>])}

-----------------------------------------------------------------------------
(* Run lengths: a tag of a run and its value, or of a literal and its bytes. *)
(* decompress_rle and decompress_payload are two texts of one algorithm:     *)
(* here the first byte by byte, the second with the cursors of the code.     *)

RleStates == [mode: {"tag", "run", "literal"}, n: Int, out: Seq(Bytes), ok: BOOLEAN]

RleByte(max, st, b) ==
  LET grown(bytes) == [mode |-> "tag", n |-> 0, out |-> st.out \o bytes,
                       ok |-> st.ok /\ (bytes = <<>> \/ Len(st.out) + Len(bytes) <= max)]
  IN CASE st.mode = "tag" /\ b >= 128 -> [st EXCEPT !.mode = "run", !.n = b - 128]
       [] st.mode = "tag" /\ b \in 1..127 -> [st EXCEPT !.mode = "literal", !.n = b,
                                                !.ok = @ /\ Len(st.out) + b <= max]
       [] st.mode = "tag" /\ b = 0 -> st
       [] st.mode = "run" -> grown([i \in 1..st.n |-> b])
       [] st.mode = "literal" -> [st EXCEPT !.out = Append(@, b), !.n = @ - 1,
                                            !.mode = IF st.n = 1 THEN "tag" ELSE @]

DecompressRle(src, max) ==
  LET start == [mode |-> "tag", n |-> 0, out |-> <<>>, ok |-> TRUE]
      end == Loop([st \in RleStates |-> [b \in Bytes |-> RleByte(max, st, b)]], start, src)
  IN IF end.ok /\ end.mode = "tag" THEN {end.out} ELSE {}

\* from[rp][wp] is what the bytes from rp on give, for `wp` bytes written before.
DecompressPayload(src, max) ==
  LET from[rp \in 1..Len(src) + 1] == [wp \in 0..max |->
        IF rp > Len(src) THEN {<<>>}
        ELSE LET count == src[rp] % 128
                 run == src[rp] >= 128
                 next == IF run THEN rp + 2 ELSE rp + 1 + count
                 bytes == IF run THEN [i \in 1..count |-> src[rp + 1]]
                                 ELSE SubSeq(src, rp + 1, rp + count)
             IN IF next > Len(src) + 1 \/ wp + count > max THEN {}
                ELSE {bytes \o rest : rest \in from[next][wp + count]}]
  IN from[1][0]

-----------------------------------------------------------------------------
(* LZSS: a control byte for eight operations, each a literal byte or a match  *)
(* of twelve bits of offset and four of length                                *)

\* The ring buffer holds the last bytes written, and zeros before the first; offset 0 is the oldest.
RingByte(out, offset) ==
  LET back == IF offset = 0 THEN LZSS_WINDOW_SIZE ELSE offset
  IN IF back <= Len(out) THEN out[Len(out) + 1 - back] ELSE 0

MatchCopied(out, offset, length) ==
  Loop([o \in Seq(Bytes) |-> [i \in 1..length |-> Append(o, RingByte(o, offset))]], out,
       [i \in 1..length |-> i])

LzssStates ==
  [mode: {"control", "op", "offset"}, control: SUBSET (0..7), bit: Int, hi: Bytes, out: Seq(Bytes),
   ok: BOOLEAN]

LzssByte(max, st, b) ==
  LET spent == [st EXCEPT !.bit = @ - 1, !.mode = IF st.bit = 0 THEN "control" ELSE "op"]
  IN CASE st.mode = "control" -> [st EXCEPT !.mode = "op", !.control = ByteBits(b), !.bit = 7]
       [] st.mode = "op" /\ st.bit \in st.control -> [st EXCEPT !.mode = "offset", !.hi = b]
       [] st.mode = "op" /\ st.bit \notin st.control ->
            [spent EXCEPT !.out = Append(@, b), !.ok = @ /\ Len(st.out) < max]
       [] st.mode = "offset" ->
            LET length == (st.hi % 16) + LZSS_MIN_MATCH
            IN [spent EXCEPT !.out = MatchCopied(@, 256 * (st.hi \div 16) + b, length),
                             !.ok = @ /\ Len(st.out) + length <= max]

\* A plausible mistake: a byte more than the room is let through.
DecompressLzss_OffByOne(src, max) ==
  LET start == [mode |-> "control", control |-> {}, bit |-> 7, hi |-> 0, out |-> <<>>, ok |-> TRUE]
      end == Loop([st \in LzssStates |-> [b \in Bytes |-> LzssByte(max + 1, st, b)]], start, src)
  IN IF end.ok /\ end.mode # "offset" THEN {end.out} ELSE {}

DecompressLzss(src, max) ==
  LET start == [mode |-> "control", control |-> {}, bit |-> 7, hi |-> 0, out |-> <<>>, ok |-> TRUE]
      end == Loop([st \in LzssStates |-> [b \in Bytes |-> LzssByte(max, st, b)]], start, src)
  IN IF end.ok /\ end.mode # "offset" THEN {end.out} ELSE {}

-----------------------------------------------------------------------------
Decode(codec, in) ==
  CASE codec = "Raw" -> {in}
    [] codec = "Rle" -> DecompressRle(in, MAX_OUTPUT)
    [] codec = "Lzss" -> DecompressLzss(in, MAX_OUTPUT)
    [] codec = "Delta" -> DecodeDelta(in)
    [] codec = "Varint" -> DecodeVarint(in)
    [] codec = "Bcd" -> DecodeBcd(in)
    [] OTHER -> {}

Encode(codec, in) ==
  CASE codec = "Raw" -> {in}
    [] codec = "Delta" -> EncodeDelta(in)
    [] codec = "Varint" -> EncodeVarint(in)
    [] OTHER -> {}

\* codec_rotate_0 .. 69, n its number. A shift by 32 (n a multiple of 8) is undefined; whether the
\* build drops the shift or the bits, the word comes out as it was.
codec_rotate(n, w) == Xor(Shl(w, n % 8), Shr(w, WORD - (n % 8)))

-----------------------------------------------------------------------------
(* Properties *)

\* What is left of some bytes that were encoded and decoded again (codec_dispatch.cpp:11-92). No
\* codec is the identity: delta loses the first byte, and varint keeps whole words only and turns
\* the bytes of each round, since it reads them high byte first and writes them low byte first.
TurnedRound(in) ==
  [i \in 1..4 * (Len(in) \div 4) |-> in[4 * ((i - 1) \div 4) + 4 - ((i - 1) % 4)]]
LeftByCodecs(bytes) ==
  /\ \A x \in Encode("Delta", bytes) : Decode("Delta", x) = {Tail(bytes)}
  /\ \A x \in Encode("Varint", bytes) : Decode("Varint", x) = {TurnedRound(bytes)}

\* A control byte of zero and the eight literals it announces give these eight bytes, and seven of
\* room are too few (compress.cpp:46-96).
GroupOfLiterals(eight) ==
  /\ DecompressLzss(<<0>> \o eight, 8) = {eight}
  /\ DecompressLzss(<<0>> \o eight, 7) = {}

\* The two run-length decoders agree on every input and every room for the output, no decoder
\* writes past the room it is given, and more room changes nothing of what succeeds
\* (compress.cpp:7-96, compression.cpp:23-62).
DecodersAgree(bytes, max) ==
  /\ DecompressRle(bytes, max) = DecompressPayload(bytes, max)
  /\ \A out \in DecompressRle(bytes, max) \cup DecompressLzss(bytes, max) : Len(out) <= max
  /\ \A m \in 0..max - 1 : DecompressLzss(bytes, m) \subseteq DecompressLzss(bytes, max)
=============================================================================
