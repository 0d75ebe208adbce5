--------------------------- MODULE BinaryValidator --------------------------
(* binary_validator.cpp: rules a block of bytes must satisfy, and the count   *)
(* of the blocks that did not.                                                *)
EXTENDS PacketBuilder

CONSTANTS ValidationRules,   \* [rule, a, b, expected]: what streams bring
          Blocks,            \* blocks of bytes; values of four of them stay below 2^31
          PARAM_WRAP         \* the sum of two parameters is taken modulo this (2^32)

VARIABLES validation_rules,
          failure_count,
          verdicts           \* history: what validate answered since the last clear

validatorVars == <<validation_rules, failure_count, verdicts>>

\* Every block that did not pass since the last clear is counted once.
ValidatorTypeOK ==
  /\ validation_rules \in Seq(ValidationRules)
  /\ verdicts \in Seq(BOOLEAN)
  /\ failure_count = Len(Kept(verdicts, {FALSE}))

ValidatorInit == validation_rules = <<>> /\ failure_count = 0 /\ verdicts = <<>>

\* Replaces the rules as soon as the header is accepted.
LoadValidationRules(s) ==
  /\ s.header
  /\ validation_rules' = Taken(s, FALSE)
  /\ UNCHANGED <<failure_count, verdicts>>

AddValidationRule(r) ==
  validation_rules' = Append(validation_rules, r) /\ UNCHANGED <<failure_count, verdicts>>

\* The check value of this file: the bytes of a block shifted in, without the polynomial.
validator_crc16(data) == FoldLeft(ShiftIn, Ones(16), data)

\* A big-endian number of the bytes of a block from an offset.
NumberAt(data, offset, n) == FoldLeft(LAMBDA v, b : 256 * v + b, 0, SubSeq(data, offset + 1, offset + n))

\* The answer of a rule by its kind. A lower bound of one to three bytes would be read past its end;
\* no rule of that form is offered.
CheckRule(r, data) ==
  LET len == Len(data)
  IN CASE r.rule = "MinLength" -> len >= r.a
       [] r.rule = "MaxLength" -> len <= r.a
       [] r.rule = "MagicBytes" -> IsPrefix(r.expected, data)
       [] r.rule = "CrcMatch" ->
            len >= 2 /\ BigEndian(SubSeq(data, len - 1, len)) = validator_crc16(SubSeq(data, 1, len - 2))
       [] r.rule = "FieldRange" ->
            /\ r.a + 4 <= len
            /\ NumberAt(data, r.a, 4) <= r.b
            /\ r.expected # <<>> => NumberAt(r.expected, 0, 4) <= NumberAt(data, r.a, 4)
       [] r.rule = "RequiredField" -> len >= (r.a + r.b) % PARAM_WRAP
       [] r.rule = "SchemaVersion" -> len >= 4 /\ NumberAt(data, 2, 2) = r.a
       [] r.rule = "ChecksumChain" -> verify_chain(DefaultChain, data)
       [] OTHER -> TRUE

\* A plausible mistake: every rule that fails counts.
Validate_EachRule(data) ==
  LET failing == SelectSeq(validation_rules, LAMBDA r : ~CheckRule(r, data))
  IN /\ failure_count' = failure_count + Len(failing)
     /\ verdicts' = Append(verdicts, failing = <<>>)
     /\ UNCHANGED validation_rules

\* The first rule that fails ends the check and counts, whatever the rules after it say.
Validate(data) ==
  LET ok == \A k \in DOMAIN validation_rules : CheckRule(validation_rules[k], data)
  IN /\ failure_count' = IF ok THEN failure_count ELSE failure_count + 1
     /\ verdicts' = Append(verdicts, ok)
     /\ UNCHANGED validation_rules

ValidatorClear == validation_rules' = <<>> /\ failure_count' = 0 /\ verdicts' = <<>>

\* validator_preflight_0 .. 179 and validator_digest_0 .. 179, n their number; the first adds its
\* number modulo 16, the second reads 64 bytes at most.
validator_preflight(n, len, min_len) == len >= min_len + (n % 16)
validator_digest(n, data) == PolynomialHash(n, 33, SubSeq(data, 1, Min({64, Len(data)})))

ValidatorNext(maxRules, maxVerdicts) ==
  \/ \E r \in ValidationRules : Len(validation_rules) < maxRules /\ AddValidationRule(r)
  \/ \E s \in StreamsOf(ValidationRules, 2) : LoadValidationRules(s)
  \/ \E data \in Blocks : Len(verdicts) < maxVerdicts /\ Validate(data)
  \/ ValidatorClear
=============================================================================
