---------------------------- MODULE AlertEngine -----------------------------
(* alert_engine.cpp: thresholds, and the alerts a value outside them fires.   *)
EXTENDS RecordStream

CONSTANT Thresholds          \* [metric, lower, upper, severity, enabled]

VARIABLES thresholds,
          next_alert_id,
          alerts             \* history: every alert ever fired, in order

alertVars == <<thresholds, next_alert_id, alerts>>

Severities == <<"Info", "Warning", "Critical", "Emergency">>

\* Alerts are numbered from 1 without a gap, also across a clear.
AlertTypeOK ==
  /\ thresholds \in Seq(Thresholds)
  /\ next_alert_id = Len(alerts) + 1
  /\ \A k \in DOMAIN alerts : alerts[k].alert_id = k

AlertInit == thresholds = <<>> /\ next_alert_id = 1 /\ alerts = <<>>

\* Adds as it reads. A threshold has 14 bytes and 18 are asked for.
LoadThresholdsBinary(s) ==
  thresholds' = thresholds \o Taken(s, TRUE) /\ UNCHANGED <<next_alert_id, alerts>>

AddThreshold(t) == thresholds' = Append(thresholds, t) /\ UNCHANGED <<next_alert_id, alerts>>

\* The thresholds a value is outside of; one whose bounds are crossed is outside of every value.
Crossed(metric, value) ==
  Kept(thresholds, {t \in ToSet(thresholds) : t.enabled /\ t.metric = metric
                                              /\ (value < t.lower \/ value > t.upper)})

\* An alert for each, numbered on; the numbers go on after a clear too.
EvaluateAlerts(metric, value) ==
  LET crossed == Crossed(metric, value)
  IN /\ next_alert_id' = next_alert_id + Len(crossed)
     /\ alerts' = alerts \o [k \in DOMAIN crossed |->
                               [alert_id |-> next_alert_id + k - 1, metric |-> metric,
                                value |-> value, severity |-> crossed[k].severity]]
     /\ UNCHANGED thresholds

AlertClear == thresholds' = <<>> /\ UNCHANGED <<next_alert_id, alerts>>

\* alert_escalate_0 .. 79, n their number: severities counted from 0.
alert_escalate(n, s) == IF s + (n % 3) >= 3 THEN 3 ELSE s + 1

AlertNext(Values, maxThresholds, maxAlerts) ==
  \/ \E t \in Thresholds : Len(thresholds) < maxThresholds /\ AddThreshold(t)
  \/ \E s \in StreamsOf(Thresholds, 2) :
       Len(thresholds) + 2 <= maxThresholds /\ LoadThresholdsBinary(s)
  \/ \E t \in Thresholds, value \in Values :
       Len(alerts) + Len(thresholds) <= maxAlerts /\ EvaluateAlerts(t.metric, value)
  \/ AlertClear
=============================================================================
