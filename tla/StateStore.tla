----------------------------- MODULE StateStore -----------------------------
(* state_store.cpp: snapshots by id, the largest id ever saved, and pruning   *)
(* by time.                                                                   *)
EXTENDS RecordStream, Words

CONSTANTS SnapshotIds,       \* ids, 0 among them
          SnapshotTimes      \* time stamps, in ms

ASSUME StateAssumption == SnapshotIds \subseteq Nat /\ SnapshotTimes \subseteq Nat

VARIABLES snapshots,         \* id -> snapshot
          latest_id,
          pruned             \* history: the ids prune_before took and nobody saved again

stateVars == <<snapshots, latest_id, pruned>>

\* A snapshot's version and blob are carried along and decide nothing.
Snapshot == [id: SnapshotIds, timestamp: SnapshotTimes]

StateTypeOK ==
  /\ DOMAIN snapshots \subseteq SnapshotIds \ {0}
  /\ \A i \in DOMAIN snapshots : snapshots[i] \in Snapshot
  /\ latest_id \in SnapshotIds \cup {0}
  /\ pruned \subseteq SnapshotIds

StateInit == snapshots = << >> /\ latest_id = 0 /\ pruned = {}

\* A plausible mistake: the id saved last is taken for the latest.
SaveEach_NoMax(recs) ==
  LET kept == Kept(recs, {r \in ToSet(recs) : r.id # 0})
  IN /\ snapshots' = PutAll(snapshots, kept)
     /\ latest_id' = IF kept = <<>> THEN latest_id ELSE Last(kept).id
     /\ pruned' = pruned \ IdsOf(kept)

\* Each record of the sequence saved in turn; the id 0 is refused and skipped.
SaveEach(recs) ==
  LET kept == Kept(recs, {r \in ToSet(recs) : r.id # 0})
  IN /\ snapshots' = PutAll(snapshots, kept)
     /\ latest_id' = Max({latest_id} \cup IdsOf(kept))
     /\ pruned' = pruned \ IdsOf(kept)

SaveSnapshot(snap) == snap.id # 0 /\ SaveEach(<<snap>>)

\* Saves as it reads: a stream refused later has saved its first records.
LoadSnapshotBinary(s) == s.header /\ SaveEach(Taken(s, FALSE))

GetSnapshot(id) == IF id \in DOMAIN snapshots THEN {snapshots[id]} ELSE {}
GetLatest == GetSnapshot(latest_id)

PruneBefore(time) ==
  LET old == {i \in DOMAIN snapshots : snapshots[i].timestamp < time}
  IN /\ snapshots' = [i \in DOMAIN snapshots \ old |-> snapshots[i]]
     /\ pruned' = pruned \cup old
     /\ UNCHANGED latest_id

\* state_store_hash_0 .. 149, n its number.
state_store_hash(n, data) == PolynomialHash(n, 31, data)

StateNext ==
  \/ \E snap \in Snapshot : SaveSnapshot(snap)
  \/ \E s \in StreamsOf(Snapshot, 2) : LoadSnapshotBinary(s)
  \/ \E time \in SnapshotTimes : PruneBefore(time)

StateSpec == StateInit /\ [][StateNext]_stateVars

-----------------------------------------------------------------------------
(* Properties *)

\* The latest id is found unless pruning took it (state_store.cpp:15-59): it is the largest id there
\* is, also when a stream that was refused half way has saved its first records, and get_latest
\* fails only when nothing was ever saved or prune_before dropped that very snapshot.
LatestLostOnlyByPruning ==
  /\ \A i \in DOMAIN snapshots : i <= latest_id
  /\ GetLatest = {} => latest_id = 0 \/ latest_id \in pruned
  /\ pruned \cap DOMAIN snapshots = {}
=============================================================================
