-------------------------- MODULE TelemetryDecoder --------------------------
(* telemetry_decoder.cpp: batches of telemetry records, each with its length  *)
(* before it.                                                                 *)
EXTENDS RecordStream, Words

CONSTANT TelemetryRecords    \* [type, length, sound, id, timestamp, value]: sound says that the
                             \* contents of the record pass the checks of its type

VARIABLES decode_stats,      \* type -> how many were valid
          batch_count

telemetryVars == <<decode_stats, batch_count>>

RecordTypes == {"GpsFix", "ImuSample", "Attitude", "Barometric", "Temperature", "PowerRail",
                "CustomPayload"}

minimum_record_size(type) ==
  CASE type = "GpsFix" -> 22
    [] type = "ImuSample" -> 24
    [] type = "Attitude" -> 20
    [] type = "Barometric" -> 14
    [] type = "Temperature" -> 8
    [] type = "PowerRail" -> 12
    [] type = "CustomPayload" -> 10
    [] OTHER -> 2

TelemetryTypeOK == decode_stats \in [RecordTypes -> Nat] /\ batch_count \in Nat

TelemetryInit == decode_stats = [t \in RecordTypes |-> 0] /\ batch_count = 0

\* The checks by type: a fix quality of at most 5 and at most 32 satellites; a pressure between
\* 10000 and 120000; a custom payload as long as it says. Its length is read from bytes 9 and 10,
\* the second of which a record of 10 bytes does not have: too short whatever is read.
ChecksContents(type) == type \in {"GpsFix", "Barometric", "CustomPayload"}
Valid(r) ==
  /\ r.type \in RecordTypes
  /\ r.length >= minimum_record_size(r.type)
  /\ r.type = "CustomPayload" => r.length >= 11
  /\ ChecksContents(r.type) => r.sound

\* A batch has no count: it goes on to the first record that is empty or not all there, and what
\* came before counts. A batch without a valid record fails.
ValidOf(s) == IF s.header THEN Kept(s.records, {r \in ToSet(s.records) : Valid(r)}) ELSE <<>>
BatchDecodes(s) == ValidOf(s) # <<>>

DecodeBatch(s) ==
  /\ batch_count' = IF s.header THEN batch_count + 1 ELSE batch_count
  /\ LET valid == ValidOf(s)
         of(t) == Kept(valid, {r \in ToSet(valid) : r.type = t})
     IN decode_stats' = [t \in RecordTypes |-> decode_stats[t] + Len(of(t))]

\* The families telemetry_validate_range_0 .. 79, telemetry_hash_field_0 .. 79 and
\* telemetry_interpolate_0 .. 79, the same for every number: the last as a numerator over den, for
\* t = num/den.
telemetry_validate_range(value, lo, hi) == ~(value < lo \/ value > hi)
telemetry_hash_field(seed, field) == Combined(seed, field, 0)
telemetry_interpolate(a, b, num, den) ==
  IF num <= 0 THEN a * den ELSE IF num >= den THEN b * den ELSE a * den + (b - a) * num
=============================================================================
