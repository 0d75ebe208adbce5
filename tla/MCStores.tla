------------------------------ MODULE MCStores ------------------------------
(* The components that do not meet each other: a behaviour is one of any of   *)
(* them, chosen at the start, with all of its calls. Two more parts grow a    *)
(* sequence that the pure operators are tried on.                             *)
EXTENDS StateStore, SessionStore, RateLimiter, RecordBuffer, MetricStore, EventLog, TimeSync,
        PipelineScheduler, Registries, LookupTables, BinaryValidator, AlertEngine, XorCipher,
        CodecDispatch, FilterEngine, TransformPipeline, TelemetryDecoder

CONSTANTS ProbeBytes, ProbeNumbers,   \* what the sequence is made of
          MAX_PROBE                   \* bound on its length

ASSUME ProbeAssumption ==
  ProbeBytes \subseteq 0..255 /\ ProbeNumbers \subseteq -(2^30)..2^30 /\ MAX_PROBE \in Nat

VARIABLES part,                       \* the component of this behaviour
          probe                       \* the bytes or the record tried

Parts == {"snapshots", "sessions", "limits", "buffer", "metrics", "log", "sync", "schedule", "devices",
          "dispatch", "archive", "mappings", "builder", "validator", "alerts", "cipher", "codecs",
          "schemas", "filters", "transforms", "telemetry", "bytes", "numbers"}

Grow(Values) ==
  \/ Len(probe) < MAX_PROBE /\ \E v \in Values : probe' = Append(probe, v)
  \/ Len(probe) = MAX_PROBE /\ probe' = <<>>

SomeNumbers == {-1001, 0, 1, 7, 1001}
SomeAppends == {1, 3}
RecordTried == <<0, 1500, -7>>
LimitChoices == {[id |-> "k", max_events |-> 1, window |-> 2], [id |-> "k", max_events |-> 2, window |-> 1]}
StoredRecord(i, n) == [id |-> i, opened_at |-> 0, last_active |-> 1, state |-> 2,
                       byte_count |-> n, metadata |-> 1]
SomeStored == {StoredRecord(1, 1), StoredRecord(1, 3)}
Sample(t, v) == [id |-> 1, timestamp |-> t, value |-> v]
SomeSamples == {Sample(0, 3), Sample(1, -2), Sample(3, 5000)}
SomeEvents == [id: {1}, level: {0, 3}]
SomeSyncs == [local: {0}, offset: {-7, -1, 0, 3, 15}, stratum: {1, 15, 16}]
Stage(i, kind, deadline, priority, input) ==
  [id |-> i, kind |-> kind, deadline |-> deadline, priority |-> priority, input |-> input]
SomeJobs == {Stage(1, "Decode", 1, 1, "sound"), Stage(2, "Decode", 0, 2, "other"),
             Stage(3, "Filter", 2, 1, "sound"), Stage(4, "Transform", 0, 1, "other")}
SomeDevices == [id: {0, 1, 2}, status: {0, 1}]
SomeRoutes == [id: {1, 2}, handler: {5, 6}]
SomeArchived == [id: {1, 2}, offset: {0, 6}, size: {2, 3}]
Mapping(src, dst, kind, scale, offset) ==
  [src |-> src, dst |-> dst, transform |-> kind, scale |-> scale, offset |-> offset]
SomeMappings == {Mapping(0, 1, 0, 0, 0), Mapping(1, 0, 1, -500, 0), Mapping(2, 3, 3, 2000, 5),
                 Mapping(1, 1, 5, 0, 0), Mapping(2, 0, 4, 0, 0), Mapping(3, 2, 2, 0, 9)}
Check(rule, a, b, expected) == [rule |-> rule, a |-> a, b |-> b, expected |-> expected]
SomeBlocks == {<<>>, <<7, 0, 1>>, <<7, 0, 0, 9>>, Sealed(DefaultChain, <<7>>)}
SomeChecks == {Check("MinLength", 3, 0, <<>>), Check("MaxLength", 4, 0, <<>>),
               Check("MagicBytes", 0, 0, <<7, 0>>), Check("CrcMatch", 0, 0, <<>>),
               Check("FieldRange", 0, 1000, <<0, 0, 0, 1>>), Check("RequiredField", 6, 5, <<>>),
               Check("SchemaVersion", 9, 0, <<>>), Check("ChecksumChain", 0, 0, <<>>)}
Threshold(lower, upper, severity, on) ==
  [metric |-> 1, lower |-> lower, upper |-> upper, severity |-> severity, enabled |-> on]
SomeThresholds == {Threshold(0, 5, "Info", TRUE), Threshold(5, 0, "Critical", TRUE),
                   Threshold(0, 0, "Warning", FALSE)}
SomeKeys == {<<>>, <<1, 2, 3>>, <<1, 2, 3, 4>>, <<9, 8, 7, 6, 5>>, <<1, 1, 1, 1, 1, 1, 1>>}
SomeInputs == {[i \in 1..n |-> 40 * i] : n \in 0..6}
SomeGarbage == {<<0, 0, 0, 0>>, <<255, 1, 2, 3>>}
FieldOf(i, type, offset, size, required) ==
  [id |-> i, type |-> type, offset |-> offset, size |-> size, required |-> required]
SomeFields == {FieldOf(1, "Word", 0, 4, TRUE), FieldOf(1, "Bytes", 6, 3, FALSE),
               FieldOf(2, "Bytes", 6, 3, TRUE), FieldOf(2, "Short", 2, 1, FALSE)}
SomeRules == {[id |-> 1, enabled |-> TRUE, conditions |-> <<"c">>],
              [id |-> 2, enabled |-> FALSE, conditions |-> <<>>]}
StageOf(type, a, b, c, in, out) ==
  [type |-> type, a |-> a, b |-> b, c |-> c, in |-> in, out |-> out]
SomeStages == {StageOf("Scale", 1001, 0, 0, 0, 0), StageOf("Offset", -5, 0, 0, 1, 3),
               StageOf("Clamp", -5, 900, 0, 1, 1), StageOf("MapRange", 0, 2000, 500, 1, 0),
               StageOf("Interpolate", 250, 40, 0, 2, 2), StageOf("BitShift", 1000, 0, 0, 1, 2),
               StageOf("SwapEndian", 0, 0, 0, 2, 3)}
SomeTelemetry == {[type |-> "CustomPayload", length |-> n, sound |-> b, id |-> 0, timestamp |-> 0, value |-> 0] :
                    n \in {10, 11}, b \in BOOLEAN}

-----------------------------------------------------------------------------
(* The families of numbered helpers, over bounded inputs *)

SomeWords == {WordOf(n) : n \in {0, 1, 255, 65536, 2^30}} \cup {0..31}
SomeTexts == {<<>>, <<0>>, <<97, 1>>, <<97, 2>>}
Tens == 0..9

\* An odd factor and an exclusive or lose nothing: two numbers of a family never agree on the same
\* input, and a last byte that is another changes the hash.
ASSUME HashesTellApart ==
  \A n, m \in Tens, s \in SomeTexts : n # m =>
    /\ state_store_hash(n, s) # state_store_hash(m, s)
    /\ builder_hash_payload(n, s) # builder_hash_payload(m, s)
    /\ schema_field_checksum(n, s) # schema_field_checksum(m, s)
    /\ validator_digest(n, s) # validator_digest(m, s)
    /\ state_store_hash(1, Append(s, n)) # state_store_hash(1, Append(s, m))
ASSUME WordsTellApart ==
  \A n, m \in Tens, v, w \in SomeWords :
    /\ n # m => checksum_combine(n, v, w) # checksum_combine(m, v, w)
    /\ v # w => telemetry_hash_field({}, v) # telemetry_hash_field({}, w)
    /\ v # w => codec_rotate(n, v) # codec_rotate(n, w)
ASSUME RotationsReturn ==
  \A n \in 1..7, w \in SomeWords : codec_rotate(8 - n, codec_rotate(n, w)) =
                               codec_rotate(4, codec_rotate(4, w))
ASSUME HashesStayShort == \A n, dest \in Tens : dispatch_hash(n, dest) \subseteq 0..15

\* Severities only rise, up to the last one; a slot lies inside its buffer; a jitter is less than 17;
\* a percentile is one of the values and grows with the fraction; a curve stays below its argument;
\* what is interpolated lies between its ends, and beyond them where the factor of lerp exceeds 1.
ASSUME HelpersStayInRange ==
  \A n \in 0..20 :
    /\ \A s \in 0..3 : alert_escalate(n, s) \in s..3 /\ (s < 3 => alert_escalate(n, s) > s)
    /\ \A cap \in 1..4 : record_buffer_slot(n, 7, cap) \in 0..cap - 1
    /\ rate_limit_jitter(n, 5) \in 5..21
    /\ \A x \in {-1000, -1, 0, 700, 2000} : Magnitude(field_map_curve(n, x)) <= Magnitude(x)
    /\ \A num \in 0..4 : /\ metric_percentile(<<1, 5, 5, 9>>, num, 4) \in {1, 5, 9}
                         /\ telemetry_interpolate(2, 10, num, 4) \in 2 * 4..10 * 4
                         /\ transform_lerp(n, 2, 10, num, 4) >= 1000 * telemetry_interpolate(2, 10, num, 4)
    /\ \A p, late \in 0..3 : scheduler_weight(n, p, late) < scheduler_weight(n, p + 1, 0)

\* What a check accepts it accepts with more room too, and what is not there is refused.
ASSUME ChecksAreMonotone ==
  \A n \in 0..20, k \in 0..8 :
    /\ validator_preflight(n, k + n, n) => validator_preflight(n, k + n + 1, n)
    /\ builder_check_tlv(n, 1, 4096 + k) => n % 64 >= k
    /\ ~builder_check_tlv(n, 0, k) /\ ~session_store_validate(n, 0, k)
    /\ event_log_filter(n, k, 3) => event_log_filter(n, k + 1, 3)
    /\ session_store_validate(n, 1, k) => k < 4
    /\ device_validate_id(n, WordOf(k)) <=> k # 0
    /\ archive_validate_name(n, [i \in 1..64 |-> k]) <=> k # 0
    /\ schema_compat_check(k + 255, k) /\ ~schema_compat_check(k + 256, k)
    /\ telemetry_validate_range(k, n, n) <=> k = n

-----------------------------------------------------------------------------
StoresInit ==
  /\ part \in Parts /\ probe = <<>>
  /\ StateInit /\ StoreInit /\ LimitInit /\ BufferInit /\ MetricInit /\ EventLogInit /\ SyncInit
  /\ SchedulerInit /\ DeviceInit /\ DispatchInit /\ ArchiveInit /\ MappingInit /\ BuilderInit
  /\ ValidatorInit /\ AlertInit /\ CipherInit /\ CodecInit /\ SchemaInit /\ FilterInit
  /\ TransformInit /\ TelemetryInit

\* The component of this behaviour steps, another one stays as it is.
Of(name, Step, partVars) == IF part = name THEN Step ELSE UNCHANGED partVars

StoresNext ==
  /\ Of("snapshots", StateNext, stateVars)
  /\ Of("sessions", StoreNext, storeVars)
  /\ Of("limits", LimitNext, limitVars)
  /\ Of("buffer", BufferNext \/ (next_seq = MAX_PUSHED /\ UNCHANGED bufferVars), bufferVars)
  /\ Of("metrics", MetricNext(4), metricVars)
  /\ Of("log", EventLogNext, events)
  /\ Of("sync", SyncNext, syncVars)
  /\ Of("schedule", SchedulerNext({0, 2}, 3), schedulerVars)
  /\ Of("devices", DeviceNext, devices)
  /\ Of("dispatch", DispatchNext(2), dispatchVars)
  /\ Of("archive", ArchiveNext, archiveVars)
  /\ Of("mappings", MappingNext(3), mappingVars)
  /\ Of("builder", BuilderNext(3, 2), builderVars)
  /\ Of("validator", ValidatorNext(3, 2), validatorVars)
  /\ Of("alerts", AlertNext({-1, 3, 6}, 2, 4), alertVars)
  /\ Of("cipher", CipherNext, cipherVars)
  /\ Of("codecs", \E s \in StreamsOf(Codecs, 2) : LoadCodecTable(s), preferred_order)
  /\ Of("schemas", \E i \in SchemaIds, s \in StreamsOf(Fields, 2) :
                     (load_count < 2 \/ ~Whole(s, FALSE)) /\ LoadBinarySchema(i, s), schemaVars)
  /\ Of("filters", \/ FilterClear
                   \/ \E s \in StreamsOf(FilterRules, 2) : Len(rules) < 3 /\ LoadRulesBinary(s),
        filterVars)
  /\ Of("transforms", /\ \E s \in StreamsOf(TransformStages, 2) : LoadPipelineBinary(s)
                      /\ UNCHANGED apply_count, transformVars)
  /\ Of("telemetry", \E s \in StreamsOf(TelemetryRecords, 2) : (batch_count < 2 \/ ~s.header) /\ DecodeBatch(s),
        telemetryVars)
  /\ CASE part = "bytes" -> Grow(ProbeBytes)
       [] part = "numbers" -> Grow(ProbeNumbers)
       [] OTHER -> UNCHANGED probe
  /\ UNCHANGED part

StoresVars == <<part, probe, stateVars, storeVars, limitVars, bufferVars, metricVars, events, syncVars,
                schedulerVars, devices, dispatchVars, archiveVars, mappingVars, builderVars,
                validatorVars, alertVars, cipherVars, preferred_order, schemaVars, filterVars,
                transformVars, telemetryVars>>

StoresSpec == StoresInit /\ [][StoresNext]_StoresVars

-----------------------------------------------------------------------------
(* Properties *)

\* Every component keeps its types, its limits and the numbers it derives: capped sequences stay
\* within their caps, maps are keyed by the ids inside them, alerts are numbered without a gap, and
\* each refused block counts one failure.
StoresTypeOK ==
  /\ StateTypeOK /\ StoreTypeOK /\ LimitTypeOK /\ BufferTypeOK /\ MetricTypeOK /\ EventLogTypeOK
  /\ SyncTypeOK /\ SchedulerTypeOK /\ DeviceTypeOK /\ DispatchTypeOK /\ ArchiveTypeOK
  /\ MappingTypeOK /\ BuilderTypeOK /\ ValidatorTypeOK /\ AlertTypeOK /\ CipherTypeOK /\ CodecTypeOK
  /\ SchemaTypeOK /\ FilterTypeOK /\ TransformTypeOK /\ TelemetryTypeOK

\* Of bytes encoded and decoded again, delta leaves all but the first, and varint its whole words,
\* each with its bytes turned round (codec_dispatch.cpp:11-92). Neither gives back what it was given.
CodecsLeave == part = "bytes" => LeftByCodecs(probe)

\* Every full group of eight literals decodes to these literals, given room for all of them
\* (compress.cpp:46-96).
Padded(bytes) == [i \in 1..8 |-> IF i <= Len(bytes) THEN bytes[i] ELSE 0]
LiteralsDecode == part = "bytes" /\ Len(probe) <= 8 => GroupOfLiterals(Padded(probe))

\* decompress_rle and decompress_payload, two texts of one algorithm, accept the same inputs with
\* the same result, and no decoder leaves its room (compress.cpp:7-96, compression.cpp:23-62).
DecodersStayInside == part = "bytes" => \A max \in {0, 2, 5} : DecodersAgree(probe, max)

\* Whatever stands first in a chain that ends in Adler's checksum, the chain verifies what it sealed
\* and refuses it with one byte of the data changed (checksum_chain.cpp:9-112).
ChainsNoticeChange ==
  part = "bytes" /\ Len(probe) < 3 =>
    \A algo \in ChecksumAlgos : ChainDetectsChange(<<algo, "Adler32">>, probe, ProbeBytes)

\* What the algorithms make of any bytes, in four parts: what the codecs leave, what full groups of
\* literals become, that decoders agree and stay inside their room, that chains notice a change.
ByteLaws == CodecsLeave /\ LiteralsDecode /\ DecodersStayInside /\ ChainsNoticeChange

\* However its key was copied and moved about, a cipher decrypts what another with the same key
\* encrypted, for inputs that match the key in length: no longer than the key and of whole words, or
\* less than a word (cipher.cpp:26-90, 138-193). Of any other input nothing is said.
CopiedKeysDecrypt == part = "cipher" => MatchedInputsReturn(SomeInputs)

\* Where the arithmetic of the components meets its ends (time_sync.cpp:43-49, metric_store.cpp:60-72,
\* schema_registry.cpp:52-112, filter_engine.cpp:55-77, transform_pipeline.cpp:56-119,
\* field_mapper.cpp:53-85): corrections and cutoffs are clamped, sizes are cut to 16 bits, fields that
\* are missing read as 0 and numbers go through doubles.
NumericLaws ==
  /\ sync_samples # <<>> =>
       /\ CorrectionKeepsOrder(estimated_offset)
       /\ FilterStaysBetween(estimated_offset, sync_samples[1].offset)
  /\ WindowsAreRecent(0..2)
  /\ \A i \in DOMAIN schemas, len \in 0..10 : FieldsStayInside(schemas[i].fields, len)
  /\ part = "numbers" => \A a, b \in ProbeNumbers : a >= 0 /\ b >= 0 => OperatorsConsistent(probe, 1, a, b)
  /\ \A r \in {<<>>, RecordTried} : StagesTouchOutputs(stages, r) /\ MappedRecordSound(mappings, r)
=============================================================================
