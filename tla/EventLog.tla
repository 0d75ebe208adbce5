------------------------------ MODULE EventLog ------------------------------
(* event_log.cpp: a capped list of events, filled from a stream.              *)
EXTENDS RecordStream

CONSTANTS Events,            \* [id, level]: events, as far as they are told apart
          MAX_EVENTS         \* max_events_ (4096)

ASSUME EventLogAssumption == MAX_EVENTS \in Nat \ {0}

VARIABLE events

EventLogTypeOK == events \in Seq(Events) /\ Len(events) <= MAX_EVENTS

EventLogInit == events = <<>>

\* A full log drops its oldest event for each new one.
AppendEach(log, evs) ==
  LET after[n \in 0..Len(evs)] ==
        IF n = 0 THEN log ELSE Capped(after[n - 1], evs[n], MAX_EVENTS)
  IN after[Len(evs)]

AppendEvent(ev) == events' = AppendEach(events, <<ev>>)

\* Appends as it reads. The loop asks for 12 of a record's 13 bytes: a header that ends between
\* the two is read past the end and refused by the next test, so the record counts as not there.
ParseLogStream(s) == events' = AppendEach(events, Taken(s, FALSE))

CountByLevel(level) == Cardinality({k \in DOMAIN events : events[k].level = level})

EventLogClear == events' = <<>>

EventLogNext == EventLogClear \/ \E ev \in Events : AppendEvent(ev)

\* event_log_filter_0 .. 94, n its number: levels counted from 0.
event_log_filter(n, level, min_level) == level >= min_level + (n % 2)
=============================================================================
