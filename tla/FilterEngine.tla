---------------------------- MODULE FilterEngine ----------------------------
(* filter_engine.cpp: rules over the fields of a record.                      *)
EXTENDS RecordStream, Words

CONSTANT FilterRules         \* [id, enabled, conditions]: what streams bring

VARIABLES rules,
          eval_count

filterVars == <<rules, eval_count>>

FilterTypeOK == rules \in Seq(FilterRules) /\ \A k \in DOMAIN rules : rules[k].conditions # <<>>

FilterInit == rules = <<>> /\ eval_count = 0

\* A plausible mistake: the loader appends what add_rule would refuse.
Acceptable_All(recs) == recs

\* A rule without conditions is refused, and the loader does not look at that.
Acceptable(recs) == Kept(recs, {r \in ToSet(recs) : r.conditions # <<>>})

\* Adds as it reads. A condition has 15 bytes, of which 14 are asked for and passed over: its mask
\* ends in the first byte of what follows, which is why masks are whatever the stream brings.
FilterLoads(s) == Whole(s, FALSE)
LoadRulesBinary(s) == rules' = rules \o Acceptable(Taken(s, FALSE)) /\ UNCHANGED eval_count

FilterClear == rules' = <<>> /\ UNCHANGED eval_count

-----------------------------------------------------------------------------
(* Evaluation: a record is a sequence of whole fields, numbered from 0 *)

FieldValue(record, field) == IF field < Len(record) THEN record[field + 1] ELSE 0

ConditionHolds(c, record) ==
  LET val == FieldValue(record, c.field)
      masked == WordOf(val) \cap WordOf(c.mask)
  IN CASE c.op = "Equal" -> val = c.a
       [] c.op = "NotEqual" -> val # c.a
       [] c.op = "GreaterThan" -> val > c.a
       [] c.op = "LessThan" -> val < c.a
       [] c.op = "GreaterOrEqual" -> val >= c.a
       [] c.op = "LessOrEqual" -> val <= c.a
       [] c.op = "BitMask" -> masked = WordOf(c.a)
       [] c.op = "BitSet" -> masked # {}
       [] c.op = "InRange" -> val >= c.a /\ val <= c.b
       [] OTHER -> FALSE

\* The ids of the enabled rules of which every condition holds, in the order of the rules. The
\* schema id is not looked at, so a rule applies to the records of every schema.
Matched_ids(ruleSeq, record) ==
  LET hit == SelectSeq(ruleSeq, LAMBDA r : r.enabled /\
                         \A k \in DOMAIN r.conditions : ConditionHolds(r.conditions[k], record))
  IN [k \in DOMAIN hit |-> hit[k].id]

\* What is evaluated counts, unless there is nothing to look at.
Evaluated(len) == IF len = 0 THEN eval_count ELSE eval_count + 1

\* filter_normalize_0 .. 89 (all the same) and filter_combine_0 .. 89, n their number.
filter_normalize(v, min_v, max_v) == ~(v < min_v) /\ ~(v > max_v)
filter_combine(n, a, b) == Plus(Xor(a, WordOf(n)), Shr(b, n % 8))

-----------------------------------------------------------------------------
(* Properties *)

\* The operators keep the relations their names promise, also for a field the record does not have
\* (filter_engine.cpp:55-77): one of equal, less and greater; a range is both of its ends; a mask
\* that equals its value has a bit in common with it, unless the value is 0.
OperatorsConsistent(record, field, a, b) ==
  LET holds(op) == ConditionHolds([field |-> field, op |-> op, a |-> a, b |-> b, mask |-> b], record)
      count(ops) == Cardinality({op \in ops : holds(op)})
  IN /\ count({"Equal", "LessThan", "GreaterThan"}) = 1
     /\ count({"Equal", "NotEqual"}) = 1
     /\ holds("GreaterOrEqual") <=> ~holds("LessThan")
     /\ holds("LessOrEqual") <=> ~holds("GreaterThan")
     /\ holds("InRange") <=> filter_normalize(FieldValue(record, field), a, b)
     /\ holds("BitMask") /\ a # 0 => holds("BitSet")
     /\ \A n \in 0..9 : a # b =>
          filter_combine(n, WordOf(a), WordOf(b)) # filter_combine(n, WordOf(b), WordOf(b))
=============================================================================
