-------------------------- MODULE TransformPipeline -------------------------
(* transform_pipeline.cpp: stages that rewrite fields of a record in place. A *)
(* field is a 32-bit number of thousandths; the code computes in doubles.     *)
EXTENDS RecordStream, Words

CONSTANT TransformStages     \* [type, a, b, c, in, out]: what streams bring, parameters in thousandths

ASSUME TransformAssumption ==
  \A s \in TransformStages : {s.in, s.out} \subseteq Nat /\ {s.a, s.b, s.c} \subseteq Int

VARIABLES stages,
          apply_count

transformVars == <<stages, apply_count>>

TransformTypeOK == stages \in Seq(TransformStages)

TransformInit == stages = <<>> /\ apply_count = 0

\* A stage has 17 bytes and 20 are asked for: without spare bytes the last one is refused. What
\* was there before is gone as soon as the header is accepted.
TransformLoads(s) == Whole(s, TRUE)
LoadPipelineBinary(s) ==
  stages' = IF s.header THEN Taken(s, TRUE) ELSE stages

TransformClear == stages' = <<>>

-----------------------------------------------------------------------------
\* What a stage may make of a value. A range of no width divides by 0, a shift to the left by less
\* than 0 is undefined, and a field to be swapped that the record does not have is read past the
\* record's end: each may give anything, of which 0 stands for all.
StageResults(s, v) ==
  CASE s.type = "Scale" -> Stored(v * s.a, 1000)
    [] s.type = "Offset" -> Stored(v + s.a, 1)
    [] s.type = "Clamp" -> Stored(Max({s.a, Min({s.b, v})}), 1)
    [] s.type = "MapRange" ->
         IF s.a = s.b THEN {0}
         ELSE Stored(s.c * (s.b - s.a) + (v - s.a) * (s.b - s.c), s.b - s.a)
    [] s.type = "Interpolate" -> Stored(v * s.a + s.b * (1000 - s.a), 1000)
    [] s.type = "BitShift" ->
         IF s.a <= -1000 THEN {0}
         ELSE UNION {Stored(i * 2^Quotient(s.a, 1000), 1) : i \in Stored(v, 1)}
    [] s.type = "SwapEndian" -> Stored(SwapBytes(v), 1)
    [] OTHER -> Stored(v, 1)

\* Every record the stages may leave, one stage after the other on the same copy.
Applied(stageSeq, record) ==
  Loop([outs \in SUBSET Seq(Int) |->
          [s \in TransformStages |->
             UNION {{Written(o, s.out, v) : v \in StageResults(s, Field(o, s.in))} : o \in outs}]],
       {record}, stageSeq)

\* transform_lerp_0 .. 84, n their number: a numerator over 1000 * den, for t = num/den.
transform_lerp(n, a, b, num, den) == 1000 * den * a + (b - a) * num * (1000 + n)

-----------------------------------------------------------------------------
(* Properties *)

\* Stages touch the fields they name and no others, and stand a record that is too short
\* (transform_pipeline.cpp:56-119): whatever the order of the stages, a field that is no output
\* keeps its value, and what a last stage clamps lies within its bounds but for one thousandth.
StagesTouchOutputs(stageSeq, record) ==
  \A out \in Applied(stageSeq, record) :
    /\ Len(out) = Max({Len(record)} \cup {stageSeq[k].out + 1 : k \in DOMAIN stageSeq})
    /\ \A f \in 0..Len(out) - 1 :
         (\A k \in DOMAIN stageSeq : stageSeq[k].out # f) => out[f + 1] = Field(record, f)
    /\ LET last == Last(stageSeq)
       IN stageSeq # <<>> /\ last.type = "Clamp" /\ last.a <= last.b =>
            out[last.out + 1] \in last.a - 1..last.b + 1
=============================================================================
