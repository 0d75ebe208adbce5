------------------------------ MODULE TimeSync ------------------------------
(* time_sync.cpp: the samples of a clock's offset, and the correction of time *)
(* stamps by the last of them.                                                *)
EXTENDS RecordStream, Words

CONSTANTS SyncSamples,       \* [local, offset, stratum]: what messages bring
          MAX_SYNC_SAMPLES,  \* 64
          CLOCK_WRAP         \* time stamps are numbers modulo this (2^32)

\* An offset has the width of a time stamp, and a sign.
ASSUME SyncAssumption ==
  /\ MAX_SYNC_SAMPLES \in Nat \ {0} /\ CLOCK_WRAP \in Nat \ {0}
  /\ \A sample \in SyncSamples : sample.offset \in 1 - CLOCK_WRAP..CLOCK_WRAP - 1

VARIABLES sync_samples,
          estimated_offset

syncVars == <<sync_samples, estimated_offset>>

SyncTypeOK ==
  /\ sync_samples \in Seq(SyncSamples) /\ Len(sync_samples) <= MAX_SYNC_SAMPLES
  /\ estimated_offset = IF sync_samples = <<>> THEN 0 ELSE Last(sync_samples).offset

SyncInit == sync_samples = <<>> /\ estimated_offset = 0

\* Drift and the local time are noted like the offset and used nowhere.
ParseSyncMessage(sample) ==
  /\ sample.stratum <= 15
  /\ sync_samples' = Newest(Append(sync_samples, sample), MAX_SYNC_SAMPLES)
  /\ estimated_offset' = sample.offset

SyncNext == \E sample \in SyncSamples : ParseSyncMessage(sample)

\* A plausible mistake: a sum below 0 wraps.
Corrected_Wraps(time, offset) == (time + offset) % CLOCK_WRAP

\* Not below 0, and cut to the width of a time stamp.
Corrected(time, offset) == Max({0, time + offset}) % CLOCK_WRAP
ApplyCorrection(time) == IF sync_samples = <<>> THEN time ELSE Corrected(time, estimated_offset)

\* time_sync_filter_0 .. 109, n its number.
time_sync_filter(n, offset, prev) == Quotient(3 * offset + prev + (n % 7), 4)

-----------------------------------------------------------------------------
(* Properties *)

\* Corrected time stamps keep their order as long as none of them leaves the range upwards; the
\* ones before -offset all become 0, and undoing a correction that met neither end restores the
\* stamp (time_sync.cpp:43-49).
CorrectionKeepsOrder(offset) ==
  LET inside == {t \in 0..CLOCK_WRAP - 1 : t + offset < CLOCK_WRAP}
  IN /\ \A t, u \in inside : t <= u => Corrected(t, offset) <= Corrected(u, offset)
     /\ \A t \in inside : t + offset >= 0 => Corrected(Corrected(t, offset), -offset) = t
     /\ \A t \in (0..CLOCK_WRAP - 1) \ inside : Corrected(t, offset) < t

\* The smoothed offset stays within the two it is made of, and the rounding a number n adds.
FilterStaysBetween(offset, prev) ==
  \A n \in 0..6 :
    LET f == time_sync_filter(n, offset, prev)
    IN Min({offset, prev}) - 1 <= f /\ f <= Max({offset, prev}) + 2
=============================================================================
