------------------------------ MODULE MCIngest ------------------------------
(* The pipeline on packets of up to three sections, of about twenty kinds.    *)
EXTENDS IngestPipeline

Stream(n, recs, more) == [header |-> TRUE, count |-> n, records |-> recs, spare |-> more]
Section(type, body) == [type |-> type, schema |-> 0, body |-> body]

SomeEntries == [id: {1, 2}, value: {"a", "b"}]
SomeFields == {[id |-> 1, type |-> "Word", offset |-> 0, size |-> 4, required |-> TRUE]}
SomeRules == {[id |-> 1, enabled |-> TRUE, conditions |-> <<"c">>],
              [id |-> 2, enabled |-> TRUE, conditions |-> <<>>]}
StageOf(type, a, b) == [type |-> type, a |-> a, b |-> b, c |-> 0, in |-> 0, out |-> 0]
Scale == StageOf("Scale", 2000, 0)
Clamp == StageOf("Clamp", 0, 9000)
SomeStages == {Scale, Clamp}
SomeDevices == {[id |-> 1, status |-> 0], [id |-> 0, status |-> 0]}
SomeSamples == [id: {1}, timestamp: {0, 1}, value: {3}] \cup [id: {1}, timestamp: {1}, value: {5000}]
SomeEvents == [id: {1, 2}, level: {0, 3}]
Power(sound) == [type |-> "PowerRail", length |-> IF sound THEN 12 ELSE 11, sound |-> TRUE,
                 id |-> 1, timestamp |-> 1, value |-> 5]
Gps(quality) == [type |-> "GpsFix", length |-> 22, sound |-> quality, id |-> 0, timestamp |-> 0, value |-> 0]
SomeTelemetry == {Power(TRUE), Power(FALSE), Gps(TRUE), Gps(FALSE)}

E1(v) == [id |-> 1, value |-> v]
E2(v) == [id |-> 2, value |-> v]
Word1 == [id |-> 1, type |-> "Word", offset |-> 0, size |-> 4, required |-> TRUE]
Rule(i) == CHOOSE r \in SomeRules : r.id = i
Sample(t) == [id |-> 1, timestamp |-> t, value |-> 3]
Event(i, level) == [id |-> i, level |-> level]
Device(i) == [id |-> i, status |-> 0]

SomeSections ==
  {Section("Config", b) : b \in {Stream(2, <<E1("a"), E2("a")>>, FALSE), Stream(2, <<E1("b")>>, FALSE),
                                 BadHeader}}
  \cup {[Section("Schema", b) EXCEPT !.schema = i] :
          i \in {0, 1}, b \in {Stream(1, <<Word1>>, FALSE)}}
  \cup {Section("Filter", b) : b \in {Stream(2, <<Rule(1), Rule(2)>>, FALSE), Stream(2, <<Rule(1)>>, FALSE)}}
  \cup {Section("Transform", b) : b \in {Stream(2, <<Scale, Clamp>>, more) : more \in BOOLEAN}}
  \cup {Section("Device", Stream(2, <<Device(0), Device(1)>>, FALSE))}
  \cup {Section("Metrics", b) : b \in {Stream(2, <<Sample(1), Sample(0)>>, FALSE), Stream(2, <<Sample(0)>>, TRUE)}}
  \cup {Section("Log", b) : b \in {Stream(2, <<Event(1, 0), Event(2, 3)>>, FALSE),
                                   Stream(2, <<Event(2, 0)>>, TRUE)}}
  \cup {Section("Codec", b) : b \in {Stream(2, <<"Lzss">>, FALSE), Stream(0, <<>>, FALSE)}}
  \cup {Section("Telemetry", b) : b \in {Stream(0, <<Power(TRUE), Gps(FALSE), Gps(TRUE)>>, FALSE),
                                         Stream(0, <<Power(FALSE)>>, FALSE)}}
  \cup {Section("Other", BadHeader)}

\* ingest_mix takes its two words in either order, and no two of its numbers agree.
ASSUME MixTellsApart ==
  \A n, m \in 0..3, a, b \in {{}, {0}, {3, 31}, 0..31} :
    /\ ingest_mix(n, a, b) = ingest_mix(n, b, a)
    /\ n # m => ingest_mix(n, a, b) # ingest_mix(m, a, b)

\* A key of 0 is refused, and so is a type above the number of a check modulo 8.
ASSUME EntriesAreChecked ==
  \A n \in 0..16, type \in 0..9 :
    ~config_validate_entry(n, 0, type) /\ (config_validate_entry(n, 1, type) <=> type <= n % 8)
=============================================================================
