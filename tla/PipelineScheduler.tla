-------------------------- MODULE PipelineScheduler -------------------------
(* pipeline_scheduler.cpp: stages wait until a run settles all of them, the   *)
(* most urgent first.                                                         *)
EXTENDS RecordStream

CONSTANTS Stages             \* [id, kind, deadline, priority, input]: input is "none", "sound" or
                             \* "other", where sound is what the telemetry decoder finds valid

VARIABLES pending,
          total_run,
          last_result,       \* [completed, stages_run, stages_failed] of the last run
          enqueued,          \* history: how many stages were ever accepted
          settled            \* history: [stage, run, now, ran], in the order they were settled

schedulerVars == <<pending, total_run, last_result, enqueued, settled>>

SchedulerTypeOK ==
  /\ pending \in Seq(Stages)
  /\ total_run \in Nat /\ enqueued \in Nat
  /\ last_result \in [completed: BOOLEAN, stages_run: Nat, stages_failed: Nat]

SchedulerInit ==
  /\ pending = <<>> /\ total_run = 0 /\ enqueued = 0 /\ settled = <<>>
  /\ last_result = [completed |-> TRUE, stages_run |-> 0, stages_failed |-> 0]

EnqueueEach(recs) ==
  /\ pending' = pending \o recs
  /\ enqueued' = enqueued + Len(recs)
  /\ UNCHANGED <<total_run, last_result, settled>>

\* Every stage is accepted; a stream refused at a later stage leaves the earlier ones pending. A
\* header of 13 bytes is asked for as 12: where it ends between the two, the length of its input
\* is read past the end and the test behind it refuses the stream.
Enqueue(stage) == EnqueueEach(<<stage>>)
LoadScheduleBinary(s) == s.header /\ EnqueueEach(Taken(s, FALSE))

\* Each kind works on parts made for the call: a filter without rules matches nothing.
RunStage(stage) ==
  CASE stage.kind = "Decode" -> stage.input = "sound"
    [] stage.kind = "Filter" -> FALSE
    [] OTHER -> stage.input # "none"

Late(stage, now) == stage.deadline > 0 /\ now > stage.deadline

\* A plausible mistake: the comparison of the sort is turned round.
Urgent_Ascending(order) ==
  \A i, j \in DOMAIN order : i < j => order[i].priority <= order[j].priority

\* The orders std::sort may leave: by falling priority, and anything among equals.
Urgent(order) == \A i, j \in DOMAIN order : i < j => order[i].priority >= order[j].priority
Orders(stageSeq) ==
  {order \in {[k \in DOMAIN stageSeq |-> stageSeq[p[k]]] : p \in Bijection(DOMAIN stageSeq, DOMAIN stageSeq)} :
     Urgent(order)}

RunUntil(now) ==
  \E order \in Orders(pending) :
    LET ran(k) == ~Late(order[k], now) /\ RunStage(order[k])
        runs == Cardinality({k \in DOMAIN order : ran(k)})
        number == IF settled = <<>> THEN 1 ELSE Last(settled).run + 1
    IN /\ total_run' = total_run + runs
       /\ last_result' = [completed |-> runs = Len(order), stages_run |-> runs,
                          stages_failed |-> Len(order) - runs]
       /\ settled' = settled \o [k \in DOMAIN order |->
                                   [stage |-> order[k], run |-> number, now |-> now, ran |-> ran(k)]]
       /\ pending' = <<>>
       /\ UNCHANGED enqueued

\* The pending stages are dropped unsettled.
SchedulerClear ==
  /\ pending' = <<>>
  /\ enqueued' = enqueued - Len(pending)
  /\ UNCHANGED <<total_run, last_result, settled>>

\* scheduler_weight_0 .. 149, n their number.
scheduler_weight(n, priority, deadline) == priority * 1000 + (deadline \div 2^(n % 8))

SchedulerNext(Times_now, maxEnqueued) ==
  \/ \E stage \in Stages : enqueued < maxEnqueued /\ Enqueue(stage)
  \/ \E s \in StreamsOf(Stages, 2) : enqueued + 2 <= maxEnqueued /\ LoadScheduleBinary(s)
  \/ \E now \in Times_now : pending # <<>> /\ RunUntil(now)
  \/ SchedulerClear

SchedulerSpec(Times_now, maxEnqueued) ==
  SchedulerInit /\ [][SchedulerNext(Times_now, maxEnqueued)]_schedulerVars

-----------------------------------------------------------------------------
(* Properties *)

\* Every stage that was accepted and not cleared is settled exactly once (pipeline_scheduler.cpp:
\* 27-93), whichever order the sort leaves equals in, also after a stream that was refused half
\* way: none is run twice or lost, none runs past its deadline, one of a run is never settled
\* before a more urgent one, and the totals say how many ran.
StagesSettleOnce ==
  /\ Len(settled) + Len(pending) = enqueued
  /\ total_run = Cardinality({k \in DOMAIN settled : settled[k].ran})
  /\ \A k \in DOMAIN settled : settled[k].ran => ~Late(settled[k].stage, settled[k].now)
  /\ \A j, k \in DOMAIN settled :
       j < k /\ settled[j].run = settled[k].run =>
         settled[j].stage.priority >= settled[k].stage.priority
=============================================================================
