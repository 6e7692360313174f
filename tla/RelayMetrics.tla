---------------------------- MODULE RelayMetrics ----------------------------
(***************************************************************************)
(* The telemetry of the two daemons: RelayMetrics and JobMetrics count     *)
(* what was published and what the job events said, the histograms sort    *)
(* latencies into powers of two, and the exporters write one document from *)
(* the counters.  A std::uint64_t has Width bits here, the histogram       *)
(* Width + 1 buckets.                                                      *)
(***************************************************************************)
EXTENDS WireMessages, Sequences, Functions

CONSTANTS Width,                        \* the bits of a latency
          Published,                    \* actions: outcome, timestamp, publication, start, end
          JobEvents,                    \* the events recorded
          MaxRecords                    \* bound: what is recorded in one behaviour

CountMax == 2 ^ Width - 1
Buckets == 0..Width

VARIABLES daemon,                       \* whose metrics: "relay" (RelayMetrics) or "job" (JobMetrics)
          counters, kinds,              \* counters_ or total_; kinds_
          latency,                      \* the histograms, by name
          seen,                         \* history: the latencies each was shown
          records, document             \* how much was recorded; the last export

metricVars == <<daemon, counters, kinds, latency, seen, records, document>>

RelayCounters ==
  {"received", "corrupt", "accepted", "published", "dropped", "complete", "cancelled", "failed",
   "rejected_stale", "rejected_deadline", "rejected_capacity", "expired", "queue_high", "busy_high",
   "worker_failures"}
EventCounters ==
  {"kAdmitted", "kDispatched", "kStarted", "kProgress", "kPreempted", "kMigrationStarted",
   "kMigrationCompleted", "kCompleted", "kCancelled", "kFailed", "kRejected"}
JobCounters == EventCounters \cup Rejections \cup 
  {"events", "work", "queue_high", "busy_high", "worker_failures", "quarantines", "events_dropped"}
Histograms == {"queue", "execution", "end_to_end", "cancellation"}

Zeroes(names) == [n \in names |-> 0]
Bump(c, names) == [n \in DOMAIN c |-> c[n] + IF n \in names THEN 1 ELSE 0]
Peak(c, n, depth) == [c EXCEPT ![n] = IF depth > @ THEN depth ELSE @]

-----------------------------------------------------------------------------
elapsed(start, end) == IF end >= start THEN end - start ELSE 0

saturating_count(a, b) == IF a > CountMax - b THEN CountMax ELSE a + b

bit_width(n) == CHOOSE w \in Buckets : n < 2 ^ w /\ (w = 0 \/ n >= 2 ^ (w - 1))

Bucket(v) == IF v <= 1 THEN 0 ELSE bit_width(v - 1)

EmptyHistogram == [buckets |-> Zeroes(Buckets), count |-> 0, sum |-> 0, min |-> 0, max |-> 0]

observe(h, v) ==
  [buckets |-> [h.buckets EXCEPT ![Bucket(v)] = @ + 1], count |-> h.count + 1,
   sum |-> saturating_count(h.sum, v),
   min |-> IF h.count = 0 \/ v < h.min THEN v ELSE h.min,
   max |-> IF v > h.max THEN v ELSE h.max]

\* Observes the latencies given for some of the histograms.
Observe(values) ==
  /\ latency' = [n \in Histograms |->
       IF n \in DOMAIN values THEN observe(latency[n], values[n]) ELSE latency[n]]
  /\ seen' = [n \in Histograms |->
       IF n \in DOMAIN values THEN Append(seen[n], values[n]) ELSE seen[n]]

Record(whose) == /\ daemon = whose /\ records < MaxRecords /\ records' = records + 1
                 /\ UNCHANGED <<daemon, document>>

-----------------------------------------------------------------------------
(* RelayMetrics.                                                           *)

record_condition(valid) ==
  /\ Record("relay")
  /\ counters' = Bump(counters, {"received"} \cup IF valid THEN {} ELSE {"corrupt"})
  /\ UNCHANGED <<kinds, latency, seen>>

record_accepted(depth) ==
  /\ Record("relay") /\ counters' = Peak(Bump(counters, {"accepted"}), "queue_high", depth)
  /\ UNCHANGED <<kinds, latency, seen>>

record_action_drop ==
  /\ Record("relay") /\ counters' = Bump(counters, {"dropped"})
  /\ UNCHANGED <<kinds, latency, seen>>

ActionOutcomes == {"rejected_stale", "rejected_deadline", "rejected_capacity", "expired",
                   "complete", "cancelled", "failed"}

\* The counter of a published action: its rejection code, or for an inference
\* its status.
record_action(outcome, timestamp, published, started, finished) ==
  /\ Record("relay") /\ counters' = Bump(counters, {"published", outcome})
  /\ Observe([n \in (IF timestamp = 0 THEN {} ELSE {"end_to_end"}) \cup
                    (IF started = 0 THEN {} ELSE {"queue", "execution"}) |->
       CASE n = "end_to_end" -> elapsed(timestamp, published)
         [] n = "queue" -> elapsed(timestamp, started)
         [] OTHER -> elapsed(started, finished)])
  /\ UNCHANGED kinds

relay_observe_workers(busy, failures) ==
  /\ Record("relay")
  /\ counters' = [Peak(counters, "busy_high", busy) EXCEPT !["worker_failures"] = failures]
  /\ UNCHANGED <<kinds, latency, seen>>

-----------------------------------------------------------------------------
(* JobMetrics.                                                             *)

Ends == {"kCompleted", "kCancelled", "kFailed", "kRejected"}

\* Mutation: a rejection is counted under its reason only.
JobCountersReason(c, e) ==
  LET names == {"events", IF e.event = "kRejected" THEN e.code ELSE e.event}
      bumped == [Bump(c, names) EXCEPT
                   !["work"] = IF e.event \in Ends THEN saturating_count(@, e.progress.completed)
                                                   ELSE @]
  IN  IF e.event = "kAdmitted" THEN Peak(bumped, "queue_high", e.depth) ELSE bumped

record_job_counters(c, e) ==
  LET names == {"events", e.event} \cup IF e.event = "kRejected" THEN {e.code} ELSE {}
      bumped == [Bump(c, names) EXCEPT
                   !["work"] = IF e.event \in Ends THEN saturating_count(@, e.progress.completed)
                                                   ELSE @]
  IN  IF e.event = "kAdmitted" THEN Peak(bumped, "queue_high", e.depth) ELSE bumped

\* A rejection that no worker took has no timing.
TimedEnd(e) == e.event \in Ends \ {"kRejected"} \/ (e.event = "kRejected" /\ e.worker)

KindCounters(e) == [kinds EXCEPT ![e.descriptor.kind] = record_job_counters(@, e)]

record(e) ==
  /\ Record("job")
  /\ IF ~make_job_event(e.event, e.descriptor, e.progress, e.code, 0)
       THEN UNCHANGED <<counters, kinds, latency, seen>>
     ELSE /\ counters' = record_job_counters(counters, e) /\ kinds' = KindCounters(e)
          /\ Observe(IF ~TimedEnd(e) THEN << >>
                     ELSE [n \in Histograms \ IF e.cancelling = 0 THEN {"cancellation"} ELSE {} |->
                             IF n = "cancellation" THEN e.cancelling ELSE e.spent])

\* observe_workers and record_event_drops, at the end of each turn of the loop.
job_observe_workers(busy, failures, quarantines, dropped) ==
  /\ Record("job")
  /\ counters' = [Peak(counters, "busy_high", busy) EXCEPT
                    !["worker_failures"] = failures, !["quarantines"] = quarantines,
                    !["events_dropped"] = dropped]
  /\ UNCHANGED <<kinds, latency, seen>>

-----------------------------------------------------------------------------
(* The exporters, each on its own subset of the counters.                  *)

Total(f, names) == FoldFunctionOnSet(+, 0, f, names)

\* write_histogram: the cumulative counts under the bounds 2^0, 2^1, ... +Inf.
Cumulative(h) == [i \in Buckets |-> Total(h.buckets, 0..i)]

Shown(form, h) ==
  CASE form = "prometheus" -> Cumulative(h) [] form = "otlp" -> h.buckets [] OTHER -> << >>

Written(form, names, by_kind) ==
  [form |-> form, counters |-> Restrict(counters, names),
   kinds |-> [k \in 1..3 |-> Restrict(kinds[k], by_kind)],
   buckets |-> [n \in Histograms |-> Shown(form, latency[n])],
   summary |-> [n \in Histograms |-> <<latency[n].count, latency[n].sum>>]]

ByKind == Ends \cup {"work"}
OfWorkers == {"worker_failures", "quarantines"}

relay_write_prometheus == Written("prometheus", RelayCounters, {})
relay_write_metrics_json == Written("json", RelayCounters, {})
relay_write_otlp_json == Written("otlp", RelayCounters, {})
job_write_prometheus == Written("prometheus", JobCounters, ByKind)
job_write_metrics_json ==
  Written("json", (EventCounters \ {"kProgress"}) \cup OfWorkers
                  \cup {"events", "kRejectedQos", "work", "events_dropped"}, ByKind)
job_write_otlp_json ==
  Written("otlp", Ends \cup OfWorkers \cup {"events", "kAdmitted", "kRejectedQos", "kPreempted",
                                           "kMigrationCompleted", "work"},
          {"kCompleted", "work"})

\* The exporters truncate the file before they write it.
Export(format) ==
  /\ document' = CASE format = "prometheus" ->
                       IF daemon = "relay" THEN relay_write_prometheus ELSE job_write_prometheus
                   [] format = "json" ->
                       IF daemon = "relay" THEN relay_write_metrics_json ELSE job_write_metrics_json
                   [] format = "otlp" ->
                       IF daemon = "relay" THEN relay_write_otlp_json ELSE job_write_otlp_json
  /\ UNCHANGED <<daemon, counters, kinds, latency, seen, records>>

-----------------------------------------------------------------------------
MetricInit ==
  /\ daemon \in {"relay", "job"}
  /\ counters = Zeroes(IF daemon = "relay" THEN RelayCounters ELSE JobCounters)
  /\ kinds = [k \in 1..3 |-> Zeroes(IF daemon = "relay" THEN {} ELSE JobCounters)]
  /\ latency = [n \in Histograms |-> EmptyHistogram] /\ seen = [n \in Histograms |-> <<>>]
  /\ records = 0 /\ document = [form |-> "none"]

MetricNext ==
  \/ \E valid \in BOOLEAN : record_condition(valid)
  \/ \E depth \in 1..2 : record_accepted(depth) \/ relay_observe_workers(depth, depth - 1)
                          \/ job_observe_workers(depth, depth - 1, 1, depth)
  \/ record_action_drop
  \/ \E a \in Published : record_action(a[1], a[2], a[3], a[4], a[5])
  \/ \E e \in JobEvents : record(e)
  \/ \E format \in {"prometheus", "json", "otlp"} : Export(format)

-----------------------------------------------------------------------------
\* A histogram is right: the number of latencies shown to it that are at most
\* 2^i is the sum of its buckets up to i, the last one takes the rest, and
\* count, minimum, maximum and the saturated sum agree with them.
BucketsCountAtMost ==
  \A n \in Histograms :
    LET h == latency[n] all == DOMAIN seen[n] IN
    h.count # 0 \/ all # {} =>
    /\ \A i \in 0..(Width - 1) :
         Total(h.buckets, 0..i) = Cardinality({k \in all : seen[n][k] <= 2 ^ i})
    /\ Total(h.buckets, Buckets) = h.count /\ h.count = Len(seen[n])
    /\ \A k \in all : h.min <= seen[n][k] /\ seen[n][k] <= h.max
    /\ h.sum >= h.max

\* The totals partition: what was published splits into the outcomes, the
\* events into their kinds, the rejections into their reasons, and every total
\* of the jobs is the sum over the kinds of job.
CountersPartition ==
  IF daemon = "relay"
  THEN /\ counters["published"] = Total(counters, ActionOutcomes)
       /\ counters["corrupt"] <= counters["received"]
  ELSE /\ counters["events"] = Total(counters, EventCounters)
       /\ counters["kRejected"] = Total(counters, Rejections)
       /\ \A n \in EventCounters \cup Rejections \cup {"events"} :
            counters[n] = kinds[1][n] + kinds[2][n] + kinds[3][n]

\* A document agrees with itself and is never ahead of the counters: under the
\* last bound Prometheus finds the count it is given next to it, the buckets
\* of OTLP sum to that count, and no later state has a smaller count of events.
DocumentConsistent ==
  document.form # "none" =>
    /\ \A n \in DOMAIN document.counters \ (OfWorkers \cup {"events_dropped"}) :
         document.counters[n] <= counters[n]
    /\ \A n \in Histograms :
         LET count == document.summary[n][1] IN
         /\ document.form = "prometheus" => document.buckets[n][Width] = count
         /\ document.form = "otlp" => Total(document.buckets[n], Buckets) = count
         /\ count <= latency[n].count

\* The three views of what happened agree: the histograms with the latencies, the
\* counters with each other, and every exported document with both.
MetricsAgree == BucketsCountAtMost /\ CountersPartition /\ DocumentConsistent
=============================================================================
