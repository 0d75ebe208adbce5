--------------------------- MODULE IngestPipeline ---------------------------
(* ingest_pipeline.cpp: a packet announces sections and each of them is       *)
(* handed to the part of the pipeline it is for. A section that its part      *)
(* accepts is kept in the record buffer; one that is refused may already have *)
(* changed its part, and those after it are processed all the same. One step  *)
(* of the model is one section.                                               *)
EXTENDS ConfigParser, Registries, FilterEngine, TransformPipeline,
        MetricStore, EventLog, CodecDispatch, TelemetryDecoder, RecordBuffer

CONSTANTS Sections,          \* [type, schema, body]: what packets are made of
          Announced,         \* numbers of sections a packet announces
          MAX_PACKETS,       \* bound on the packets since a reset
          MAX_HISTORY        \* bound on the sections since the start

\* What the bytes of a section may be to the part it is for: any records of its kind.
StreamOf(Records) == [header: BOOLEAN, count: Nat, records: Seq(Records), spare: BOOLEAN]
RecordsFor ==
  [Config |-> ConfigEntries, Schema |-> Fields, Filter |-> FilterRules, Transform |-> TransformStages,
   Device |-> Devices, Metrics |-> MetricSamples, Log |-> Events, Codec |-> Codecs \cup {"Other"},
   Telemetry |-> TelemetryRecords]

\* The sample made of a reading of a power rail, in millivolts where the samples of a metrics
\* section are in thousandths.
RailSample(r) == [id |-> r.id, timestamp |-> r.timestamp, value |-> 1000 * r.value]

ASSUME IngestAssumption ==
  /\ Announced \subseteq Nat
  /\ Sections \subseteq Payloads
  /\ \A sec \in Sections : /\ sec.schema \in SchemaIds
                           /\ sec.type # "LoadConfig"
                           /\ sec.type \in DOMAIN RecordsFor => sec.body \in StreamOf(RecordsFor[sec.type])
  /\ \A r \in TelemetryRecords : r.type = "PowerRail" => RailSample(r) \in MetricSamples

VARIABLES phase,             \* "idle" or "sections": inside process_packet or not
          todo,              \* sections still announced
          result,            \* [accepted, records_processed, errors] of this packet or the last one
          packets_seen,
          history,           \* history: [section, ok], what was handed on since the start
          announced,         \* history: the number this packet, or the last one, announced
          since              \* history: how long the history was at the last reset

partVars == <<entries, schemaVars, filterVars, transformVars, devices, metricVars, events,
              preferred_order, telemetryVars, bufferVars>>
ingestVars == <<phase, todo, result, packets_seen, history, announced, since, partVars>>

NoResult == [accepted |-> FALSE, records_processed |-> 0, errors |-> 0]

IngestTypeOK ==
  /\ phase \in {"idle", "sections"}
  /\ todo \in Nat /\ packets_seen \in Nat
  /\ ConfigTypeOK /\ SchemaTypeOK /\ FilterTypeOK /\ TransformTypeOK /\ DeviceTypeOK
  /\ MetricTypeOK /\ EventLogTypeOK /\ CodecTypeOK /\ TelemetryTypeOK /\ BufferTypeOK

IngestInit ==
  /\ phase = "idle" /\ todo = 0 /\ result = NoResult /\ packets_seen = 0
  /\ history = <<>> /\ announced = 0 /\ since = 0
  /\ ConfigInit /\ SchemaInit /\ FilterInit /\ TransformInit /\ DeviceInit
  /\ MetricInit /\ EventLogInit /\ CodecInit /\ TelemetryInit /\ BufferInit

-----------------------------------------------------------------------------
(* A section *)

\* What the part answers.
SectionAccepted(sec) ==
  CASE sec.type = "Config" -> ConfigParses(sec.body)
    [] sec.type = "Schema" -> SchemaLoads(sec.schema, sec.body)
    [] sec.type = "Filter" -> FilterLoads(sec.body)
    [] sec.type = "Transform" -> TransformLoads(sec.body)
    [] sec.type = "Device" -> DevicesLoad(sec.body)
    [] sec.type = "Metrics" -> Whole(sec.body, FALSE)
    [] sec.type = "Log" -> Whole(sec.body, FALSE)
    [] sec.type = "Codec" -> CodecTableLoads(sec.body)
    [] sec.type = "Telemetry" -> BatchDecodes(sec.body)
    [] OTHER -> FALSE

\* For every valid record the whole section is transformed once more and the filters look at what
\* comes out; both results are dropped. A reading of a power rail goes to the metric of its number.
\* The alerts have no thresholds and never fire.
Rails(body) ==
  LET valid == ValidOf(body)
      rails == Kept(valid, {r \in ToSet(valid) : r.type = "PowerRail"})
  IN [k \in DOMAIN rails |-> RailSample(rails[k])]

EvaluateTelemetry(body) ==
  /\ DecodeBatch(body)
  /\ RecordEach(Rails(body))
  /\ apply_count' = apply_count + Len(ValidOf(body))
  /\ eval_count' = eval_count + Len(ValidOf(body))
  /\ UNCHANGED <<stages, rules>>

\* The part a type is for, and the parts it is not for.
For(sec, type, Handler, partsVars) == IF sec.type = type THEN Handler ELSE UNCHANGED partsVars

ProcessSection(sec) ==
  /\ For(sec, "Config", ParseBinary(sec.body), entries)
  /\ For(sec, "Schema", LoadBinarySchema(sec.schema, sec.body), schemaVars)
  /\ For(sec, "Device", LoadRegistryBinary(sec.body), devices)
  /\ For(sec, "Log", ParseLogStream(sec.body), events)
  /\ For(sec, "Codec", LoadCodecTable(sec.body), preferred_order)
  /\ CASE sec.type = "Telemetry" -> EvaluateTelemetry(sec.body)
       [] sec.type = "Filter" ->
            LoadRulesBinary(sec.body) /\ UNCHANGED <<transformVars, metricVars, telemetryVars>>
       [] sec.type = "Transform" ->
            /\ LoadPipelineBinary(sec.body)
            /\ UNCHANGED <<apply_count, filterVars, metricVars, telemetryVars>>
       [] sec.type = "Metrics" ->
            /\ RecordEach(Taken(sec.body, FALSE))
            /\ UNCHANGED <<filterVars, transformVars, telemetryVars>>
       [] OTHER -> UNCHANGED <<filterVars, transformVars, metricVars, telemetryVars>>

-----------------------------------------------------------------------------
(* A packet *)

\* Too short, or of another magic: an error and nothing else.
RefusePacket ==
  /\ phase = "idle"
  /\ result' = [NoResult EXCEPT !.errors = 1]
  /\ announced' = 0
  /\ UNCHANGED <<phase, todo, packets_seen, history, since, partVars>>

BeginPacket(n) ==
  /\ phase = "idle"
  /\ packets_seen < MAX_PACKETS
  /\ Len(history) + n <= MAX_HISTORY
  /\ packets_seen' = packets_seen + 1
  /\ phase' = "sections" /\ todo' = n /\ announced' = n
  /\ result' = NoResult
  /\ UNCHANGED <<history, since, partVars>>

\* A plausible mistake: a section is kept whatever its part answered.
HandleSection_KeepsAll(sec) ==
  /\ phase = "sections" /\ todo > 0
  /\ ProcessSection(sec)
  /\ Push(sec)
  /\ result' = IF SectionAccepted(sec) THEN [result EXCEPT !.records_processed = @ + 1]
               ELSE [result EXCEPT !.errors = @ + 1]
  /\ history' = Append(history, [section |-> sec, ok |-> SectionAccepted(sec)])
  /\ todo' = todo - 1
  /\ UNCHANGED <<phase, packets_seen, announced, since>>

\* The return value of the push is not looked at. It is never false here: nothing is popped, and no
\* part accepts a section without bytes.
HandleSection(sec) ==
  /\ phase = "sections" /\ todo > 0
  /\ ProcessSection(sec)
  /\ \/ /\ SectionAccepted(sec)
        /\ result' = [result EXCEPT !.records_processed = @ + 1]
        /\ Push(sec)
     \/ /\ ~SectionAccepted(sec)
        /\ result' = [result EXCEPT !.errors = @ + 1]
        /\ UNCHANGED bufferVars
  /\ history' = Append(history, [section |-> sec, ok |-> SectionAccepted(sec)])
  /\ todo' = todo - 1
  /\ UNCHANGED <<phase, packets_seen, announced, since>>

\* A plausible mistake: a packet that ends early is no error.
CutShort_Silent ==
  /\ phase = "sections" /\ todo > 0
  /\ todo' = 0
  /\ UNCHANGED <<phase, result, packets_seen, history, announced, since, partVars>>

\* The packet ends before its sections do: the rest of them is given up.
CutShort ==
  /\ phase = "sections" /\ todo > 0
  /\ todo' = 0
  /\ result' = [result EXCEPT !.errors = @ + 1]
  /\ UNCHANGED <<phase, packets_seen, history, announced, since, partVars>>

ReturnPacket ==
  /\ phase = "sections" /\ todo = 0
  /\ phase' = "idle"
  /\ result' = [result EXCEPT !.accepted = (result.errors = 0)]
  /\ UNCHANGED <<todo, packets_seen, history, announced, since, partVars>>

\* A configuration may also be loaded outside of a packet.
LoadConfig(body) ==
  /\ phase = "idle"
  /\ Len(history) < MAX_HISTORY
  /\ ParseBinary(body)
  /\ history' = Append(history, [section |-> [type |-> "LoadConfig", schema |-> 0, body |-> body],
                                 ok |-> ConfigParses(body)])
  /\ UNCHANGED <<phase, todo, result, packets_seen, announced, since, schemaVars, filterVars,
                 transformVars, devices, metricVars, events, preferred_order, telemetryVars, bufferVars>>

\* Schemas, devices, metrics, codecs, the telemetry counts and the buffer stay as they are.
Reset ==
  /\ phase = "idle"
  /\ FilterClear /\ TransformClear /\ EventLogClear /\ ConfigClear
  /\ packets_seen' = 0
  /\ since' = Len(history)
  /\ UNCHANGED <<phase, todo, result, history, announced, apply_count, schemaVars, devices, metricVars,
                 preferred_order, telemetryVars, bufferVars>>

ConfigBodies == {sec.body : sec \in {x \in Sections : x.type = "Config"}}

IngestNext ==
  \/ RefusePacket
  \/ \E n \in Announced : BeginPacket(n)
  \/ \E sec \in Sections : HandleSection(sec)
  \/ CutShort
  \/ ReturnPacket
  \/ \E body \in ConfigBodies : LoadConfig(body)
  \/ Reset

IngestSpec == IngestInit /\ [][IngestNext]_ingestVars

\* ingest_mix_0 .. 119, n its number.
ingest_mix(n, a, b) == Plus(Times(GOLDEN, Xor(a, b)), WordOf(n))

-----------------------------------------------------------------------------
(* Properties *)

\* The buffer holds the newest of the sections that were accepted, numbered as they were accepted,
\* and nothing else, whatever packets they came in and whether those were accepted
\* (ingest_pipeline.cpp:80-86): the full buffer drops from the front and reset drops nothing.
BufferHoldsNewest ==
  LET accepted == Kept(history, [section: Sections, ok: {TRUE}])
      kept == Newest(accepted, CAPACITY)
  IN /\ next_seq = Len(accepted)
     /\ Len(records) = Len(kept)
     /\ \A k \in DOMAIN kept : records[k] = [sequence |-> next_seq - Len(kept) + k - 1,
                                             payload |-> kept[k].section]

\* What the parts that reset clears hold follows from the sections since the reset alone
\* (ingest_pipeline.cpp:24-30, 32-64). A configuration and the transform stages come from the last
\* section whose header was accepted, refused sections included, and never from two; the rules of
\* all filter sections stand one after the other, and the log is the tail of all log sections.
Bodies(types) ==
  LET recent == SubSeq(history, since + 1, Len(history))
      kept == Kept(recent, {h \in ToSet(recent) : h.section.type \in types /\ h.section.body.header})
  IN [k \in DOMAIN kept |-> kept[k].section.body]
LastBody(types) == IF Bodies(types) = <<>> THEN BadHeader ELSE Last(Bodies(types))
PartsFollowSections ==
  LET all(type) == FlattenSeq([k \in DOMAIN Bodies({type}) |-> Taken(Bodies({type})[k], FALSE)])
      config == Taken(LastBody({"Config", "LoadConfig"}), FALSE)
  IN /\ DOMAIN entries = IdsOf(config)
     /\ \A key \in DOMAIN entries : entries[key] = LastOf(config, key)
     /\ stages = Taken(LastBody({"Transform"}), TRUE)
     /\ rules = Acceptable(all("Filter"))
     /\ events = Newest(all("Log"), MAX_EVENTS)

\* A result accounts for every section the packet announced (ingest_pipeline.cpp:66-90): it is
\* accepted exactly when all of them were handed on and accepted; otherwise the two counts show how
\* far it came, a packet cut short counting one error for all that it did not have.
VerdictCountsSections ==
  [][phase = "sections" /\ phase' = "idle" =>
       LET handled == result.records_processed + result.errors
           mine == SubSeq(history, Len(history) - Min({handled, Len(history)}) + 1, Len(history))
       IN /\ handled <= announced
          /\ result'.accepted <=> result.records_processed = announced
          /\ result.errors = 0 => Len(mine) = announced /\ \A k \in DOMAIN mine : mine[k].ok]_ingestVars
=============================================================================
