---------------------------- MODULE RateLimiter -----------------------------
(* rate_limiter.cpp: a sliding window of admitted time stamps per key.        *)
EXTENDS RecordStream

CONSTANTS LimitKeys,         \* keys
          LimitConfigs,      \* [id, max_events, window]: what a key may be configured to
          LimitTimes,        \* time stamps, in ms
          MAX_ADMITTED       \* bound on the history of a key

ASSUME LimitAssumption ==
  /\ LimitConfigs \subseteq [id: LimitKeys, max_events: Nat, window: Nat]
  /\ LimitTimes \subseteq Nat
  /\ MAX_ADMITTED \in Nat

VARIABLES configs,           \* key -> its config; the keys that have a bucket
          timestamps,        \* key -> the deque of its bucket
          admitted,          \* history: what allow let through since configure or reset
          clock,             \* history: the latest time allow was asked with since then
          steady             \* history: that time never stepped back

limitVars == <<configs, timestamps, admitted, clock, steady>>

LimitTypeOK ==
  /\ DOMAIN configs \subseteq LimitKeys
  /\ \A k \in DOMAIN configs : configs[k] \in LimitConfigs
  /\ timestamps \in [LimitKeys -> Seq(LimitTimes)]
  /\ admitted \in [LimitKeys -> Seq(LimitTimes)]
  /\ clock \in [LimitKeys -> LimitTimes \cup {0}]
  /\ steady \in [LimitKeys -> BOOLEAN]

LimitInit ==
  /\ configs = << >>
  /\ timestamps = [k \in LimitKeys |-> <<>>]
  /\ admitted = [k \in LimitKeys |-> <<>>]
  /\ clock = [k \in LimitKeys |-> 0]
  /\ steady = [k \in LimitKeys |-> TRUE]

\* The histories of some keys start over.
StartOver(keys) ==
  /\ admitted' = [k \in LimitKeys |-> IF k \in keys THEN <<>> ELSE admitted[k]]
  /\ clock' = [k \in LimitKeys |-> IF k \in keys THEN 0 ELSE clock[k]]
  /\ steady' = [k \in LimitKeys |-> IF k \in keys THEN TRUE ELSE steady[k]]

\* A key configured again keeps its deque.
ConfigureEach(recs) ==
  /\ configs' = PutAll(configs, recs)
  /\ StartOver(IdsOf(recs))
  /\ UNCHANGED timestamps

Configure(cfg) == ConfigureEach(<<cfg>>)
LoadConfigBinary(s) == s.header /\ ConfigureEach(Taken(s, FALSE))

\* A plausible mistake: a stamp just as old as the window leaves too.
Cutoff_Inclusive(k, time) == IF time > configs[k].window THEN time - configs[k].window + 1 ELSE 0

Cutoff(k, time) == IF time > configs[k].window THEN time - configs[k].window ELSE 0

\* How many stamps leave the front of a deque: those before the first that is not too old.
Expired(stamps, cutoff) ==
  CHOOSE n \in 0..Len(stamps) :
    /\ \A i \in 1..n : stamps[i] < cutoff
    /\ n < Len(stamps) => stamps[n + 1] >= cutoff

\* The deque allow works on.
Fresh(stamps, cutoff) == SubSeq(stamps, Expired(stamps, cutoff) + 1, Len(stamps))

\* A key without a bucket is always allowed, and nothing is noted.
Allow(k, time) ==
  /\ k \in DOMAIN configs
  /\ clock' = [clock EXCEPT ![k] = time]
  /\ steady' = [steady EXCEPT ![k] = @ /\ clock[k] <= time]
  /\ LET fresh == Fresh(timestamps[k], Cutoff(k, time))
     IN \/ /\ Len(fresh) >= configs[k].max_events
           /\ timestamps' = [timestamps EXCEPT ![k] = fresh]
           /\ UNCHANGED admitted
        \/ /\ Len(fresh) < configs[k].max_events
           /\ Len(admitted[k]) < MAX_ADMITTED
           /\ timestamps' = [timestamps EXCEPT ![k] = Append(fresh, time)]
           /\ admitted' = [admitted EXCEPT ![k] = Append(@, time)]
  /\ UNCHANGED configs

ResetKey(k) ==
  /\ k \in DOMAIN configs
  /\ timestamps' = [timestamps EXCEPT ![k] = <<>>]
  /\ StartOver({k})
  /\ UNCHANGED configs

\* rate_limit_jitter_0 .. 94, n its number.
rate_limit_jitter(n, ts) == ts + (n % 17)

LimitNext ==
  \/ \E cfg \in LimitConfigs : Configure(cfg)
  \/ \E s \in StreamsOf(LimitConfigs, 2) : LoadConfigBinary(s)
  \/ \E k \in LimitKeys : ResetKey(k) \/ \E time \in LimitTimes : Allow(k, time)

LimitSpec == LimitInit /\ [][LimitNext]_limitVars

-----------------------------------------------------------------------------
(* Properties *)

\* A key never admits more than max_events in one window (rate_limiter.cpp:35-47): among the
\* events admitted since it was configured or reset, the one max_events places earlier is older
\* than the window. Claimed while the caller's clock does not step back, also between refused
\* calls, which drop stamps too.
WindowHonoured ==
  \A k \in DOMAIN configs : steady[k] =>
    \A j \in configs[k].max_events + 1..Len(admitted[k]) :
      admitted[k][j - configs[k].max_events] + configs[k].window < admitted[k][j]
=============================================================================
