---------------------------- MODULE MetricStore -----------------------------
(* metric_store.cpp: per metric a capped window of samples and statistics     *)
(* over every sample there ever was. Values are in thousandths.               *)
EXTENDS RecordStream

CONSTANTS MetricSamples,     \* [id, timestamp, value]: what is recorded
          MAX_SAMPLES        \* max_samples_per_metric_ (1024)

ASSUME MetricAssumption ==
  /\ MAX_SAMPLES \in Nat \ {0}
  /\ \A r \in MetricSamples : r.value \in Int /\ r.timestamp \in Nat

VARIABLES samples,           \* metric -> the deque of its samples
          stats,             \* metric -> [min, max, sum, count, last]
          recorded           \* history: metric -> all its samples, in order

metricVars == <<samples, stats, recorded>>

NoSamples == <<>>
NoStats == [min |-> 0, max |-> 0, sum |-> 0, count |-> 0, last |-> 0]

MetricTypeOK ==
  /\ DOMAIN samples = DOMAIN stats /\ DOMAIN stats = DOMAIN recorded
  /\ \A m \in DOMAIN samples : /\ samples[m] \in Seq(MetricSamples)
                               /\ Len(samples[m]) <= MAX_SAMPLES
                               /\ stats[m].count = Len(recorded[m])

MetricInit == samples = << >> /\ stats = << >> /\ recorded = << >>

\* A plausible mistake: the bounds start at 0 and not at the first value.
Counted_ZeroStart(st, v) ==
  [min |-> Min({st.min, v}), max |-> Max({st.max, v}),
   sum |-> st.sum + v, count |-> st.count + 1, last |-> v]

\* The statistics after one more value.
Counted(st, v) ==
  [min |-> IF st.count = 0 THEN v ELSE Min({st.min, v}),
   max |-> IF st.count = 0 THEN v ELSE Max({st.max, v}),
   sum |-> st.sum + v, count |-> st.count + 1, last |-> v]

\* `series_[id]` makes the entry of a metric that is new.
At(m, id, default) == IF id \in DOMAIN m THEN m[id] ELSE default

\* The samples and the statistics of a metric after one more sample.
Recorded(series, r) ==
  [samples |-> Capped(series.samples, r, MAX_SAMPLES), stats |-> Counted(series.stats, r.value)]

\* The same after the samples of a sequence, one by one.
RecordedAll(series, recs) ==
  LET after[n \in 0..Len(recs)] == IF n = 0 THEN series ELSE Recorded(after[n - 1], recs[n])
  IN after[Len(recs)]

RecordEach(recs) ==
  LET of(id) == Kept(recs, {r \in ToSet(recs) : r.id = id})
      known == DOMAIN samples \cup IdsOf(recs)
      series == [id \in known |->
                   RecordedAll([samples |-> At(samples, id, NoSamples), stats |-> At(stats, id, NoStats)],
                               of(id))]
  IN /\ samples' = [id \in known |-> series[id].samples]
     /\ stats' = [id \in known |-> series[id].stats]
     /\ recorded' = [id \in known |-> At(recorded, id, NoSamples) \o of(id)]

LoadBatchBinary(s) == s.header /\ RecordEach(Taken(s, FALSE))

\* Samples older than a time, as long as they are at the front.
ExpireBefore(time) ==
  /\ samples' = [m \in DOMAIN samples |->
       LET stays == {k \in DOMAIN samples[m] : samples[m][k].timestamp >= time}
       IN SubSeq(samples[m], Min(stays \cup {Len(samples[m]) + 1}), Len(samples[m]))]
  /\ UNCHANGED <<stats, recorded>>

\* The samples within a window that ends with the newest; {} for "nothing found".
GetWindow(m, window) ==
  IF samples[m] = <<>> THEN <<>>
  ELSE LET latest == Last(samples[m]).timestamp
           cutoff == IF latest > window THEN latest - window ELSE 0
       IN Kept(samples[m], {x \in ToSet(samples[m]) : x.timestamp >= cutoff})

\* metric_percentile_0 .. 94 (all the same): the value at the fraction num/den of the sorted ones.
metric_percentile(sorted, num, den) ==
  IF sorted = <<>> THEN 0
  ELSE sorted[1 + Min({(num * (Len(sorted) - 1)) \div den, Len(sorted) - 1})]

MetricNext(maxRecorded) ==
  \/ \E r \in MetricSamples :
       Len(At(recorded, r.id, <<>>)) < maxRecorded /\ RecordEach(<<r>>)
  \/ \E s \in StreamsOf(MetricSamples, 2) :
       /\ \A m \in DOMAIN recorded : Len(recorded[m]) + 2 <= maxRecorded
       /\ LoadBatchBinary(s)
  \/ \E r \in MetricSamples : ExpireBefore(r.timestamp)

MetricSpec(maxRecorded) == MetricInit /\ [][MetricNext(maxRecorded)]_metricVars

-----------------------------------------------------------------------------
(* Properties *)

\* The statistics cover every sample ever recorded, also those the cap or an expiry has dropped,
\* and the window kept beside them is the tail of the same history (metric_store.cpp:16-35, 74-81):
\* every sample still there lies between min and max, and the last one is the last value.
StatsCoverAllSamples ==
  \A m \in DOMAIN samples :
    LET values == {recorded[m][k].value : k \in DOMAIN recorded[m]}
    IN /\ samples[m] = Newest(recorded[m], Len(samples[m]))
       /\ stats[m].count = Len(recorded[m])
       /\ stats[m].min = Min(values) /\ stats[m].max = Max(values)
       /\ samples[m] # <<>> => stats[m].last = Last(samples[m]).value

\* A window that is asked for is never empty while there are samples, and holds no sample older
\* than the window, although samples out of time order stay behind an expired one
\* (metric_store.cpp:60-72).
WindowsAreRecent(Windows) ==
  \A m \in DOMAIN samples, window \in Windows :
    LET w == GetWindow(m, window)
    IN /\ (w = <<>>) <=> (samples[m] = <<>>)
       /\ \A k \in DOMAIN w : w[k].timestamp + window >= Last(samples[m]).timestamp
=============================================================================
