------------------------------- MODULE Reports -------------------------------
(***************************************************************************)
(* The built-in analytics over the envelopes of a tenant and a window:     *)
(* policy.blocked breakdowns (src/analytics.js), latency profiles          *)
(* (src/performance.js), anomaly detection by the median and its absolute  *)
(* deviation (src/anomalies.js), and the counts of getMetrics.             *)
(*                                                                         *)
(* A list of envelopes is a set, ids being unique.  Times are integers; a  *)
(* stored time parses, and the order of its text is its order in time.     *)
(***************************************************************************)
EXTENDS Query, Workflows

CONSTANTS
    IsText(_),      \* the value is a string that is not blank
    NotANumber,     \* what adding to an inherited property yields, a string
    RateScale,      \* an error rate is counted in parts of RateScale
    Cutoff,         \* the modified-z cutoff, in tenths: 35
    MinSamples      \* traces a baseline needs: 3

ASSUME ReportAssumption == RateScale \in Nat /\ Cutoff \in Nat /\ MinSamples \in Nat

ASSUME NotANumberAssumption == NotANumber \notin Nat

-----------------------------------------------------------------------------
(* The SELECTs behind the reports *)

Windowed(events, view, since, until) ==
    {e \in events : /\ view = None \/ e.tenant = view
                    /\ since = None \/ e.time >= since
                    /\ until = None \/ e.time < until}

StartTypes == {"tool.called", "task.created"}
EndToStart == [t \in {"tool.result", "task.completed", "task.failed"} |->
                  IF t = "tool.result" THEN "tool.called" ELSE "task.created"]
ErrorTypes == {"task.failed", "error.raised"}

GetPolicyBlockedEvents(events, view, since, until) ==
    {e \in Windowed(events, view, since, until) : e.type = "policy.blocked"}

GetPerformanceEvents(events, view, since, until) ==
    {e \in Windowed(events, view, since, until) :
        e.type \in StartTypes \cup DOMAIN EndToStart}

-----------------------------------------------------------------------------
(* Breakdowns *)

\* A missing, blank or non-string value has one bucket.
BucketKey(v) == IF v \notin {Absent, NonScalar} /\ IsText(v) THEN v ELSE Unspecified

\* key gives every event its bucket.
Tally(key) == [k \in Range(key) |-> Cardinality({e \in DOMAIN key : key[e] = k})]

\* bump counts in a plain object, which inherits these properties: what is
\* assigned to __proto__ is lost, and to the others 1 is added as to a text.
ObjectPrototype ==
    {"__proto__", "constructor", "hasOwnProperty", "isPrototypeOf", "propertyIsEnumerable",
     "toLocaleString", "toString", "valueOf", "__defineGetter__", "__defineSetter__",
     "__lookupGetter__", "__lookupSetter__"}

CountBy(key) ==
    [k \in Range(key) \ {"__proto__"} |->
        IF k \in ObjectPrototype THEN NotANumber ELSE Tally(key)[k]]

MostRecent(list, cap) ==
    LET sorted == SortedBy(list, [e \in list |-> -e.time])
    IN  SubSeq(sorted, 1, Min({cap, Len(sorted)}))

PolicyOf(e) == BucketKey(ResolveField(e, <<"payload", "policy">>))

SummarizePolicyBlocked(list, cap) ==
    [total     |-> Cardinality(list),
     by_policy |-> CountBy([e \in list |-> PolicyOf(e)]),
     by_source |-> CountBy([e \in list |-> BucketKey(e.source)]),
     by_day    |-> Tally([e \in list |-> e.time \div Day]),
     recent    |-> MostRecent(list, cap)]

-----------------------------------------------------------------------------
(* Latency: an end event names its start in causation_id; a start is never   *)
(* consumed, so two ends of one start are two operations.                    *)

StartsById(list) == {e \in list : e.type \in StartTypes}

EndsOf(list) == {e \in list : e.type \in DOMAIN EndToStart}

Pairs_AnyStart(list) ==     \* mutant: the start's type is not compared
    {p \in StartsById(list) \X EndsOf(list) : p[2].causation_id = p[1].id}

\* <<start, end>>
Pairs(list) ==
    {p \in StartsById(list) \X EndsOf(list) :
        /\ p[2].causation_id = p[1].id
        /\ p[1].type = EndToStart[p[2].type]
        /\ p[2].time >= p[1].time}

\* Nearest rank: the element at ceil(p/100 * n).
Percentile(sorted, p) ==
    LET n == Len(sorted) IN sorted[Max({1, (p * n + 99) \div 100})]

Stats(ops) ==
    LET sorted == SortedBy(ops, [o \in ops |-> o.duration])
        ms     == [i \in DOMAIN sorted |-> sorted[i].duration]
        n      == Len(ms)
    IN  IF n = 0 THEN [count |-> 0, sample |-> ms]
        ELSE [count |-> n, sample |-> ms, min |-> ms[1], max |-> ms[n],
              p50 |-> Percentile(ms, 50), p95 |-> Percentile(ms, 95),
              p99 |-> Percentile(ms, 99)]

GroupStats(key) == [k \in Range(key) |-> Stats({o \in DOMAIN key : key[o] = k})]

Operation(s, e) ==
    [end      |-> e.id,
     op       |-> <<s.type, e.type>>,
     name     |-> LET tool == ResolveField(s, <<"payload", "tool">>)
                  IN  BucketKey(IF tool # Absent THEN tool
                                ELSE ResolveField(e, <<"payload", "tool">>)),
     source   |-> BucketKey(s.source),
     session  |-> s.session_id,
     failed   |-> e.type = "task.failed",
     duration |-> e.time - s.time]

SummarizePerformance(list) ==
    LET ops == {Operation(p[1], p[2]) : p \in Pairs(list)}
    IN  [total_operations |-> Cardinality(ops),
         unmatched_ends   |-> Cardinality(EndsOf(list) \ {p[2] : p \in Pairs(list)}),
         overall          |-> Stats(ops),
         by_tool          |-> GroupStats([o \in {p \in ops : p.op[1] = "tool.called"} |-> o.name]),
         by_agent         |-> GroupStats([o \in ops |-> o.source]),
         by_session       |-> GroupStats([o \in ops |-> o.session]),
         by_operation     |-> GroupStats([o \in ops |-> o.op])]

-----------------------------------------------------------------------------
(* Anomalies.  Scores are compared as integers: medians are held twice, the  *)
(* deviation from a median twice, a median deviation four times; MAD_SCALE   *)
(* and MEAN_AD_SCALE are 14826 and 12533 ten-thousandths.                    *)

MaxOperationLatency(list) ==
    Max({0} \cup {p[2].time - p[1].time : p \in Pairs(list)})

Metrics == {"error_rate", "policy_blocked_count", "latency_max_ms"}

TraceMetrics(list) ==
    LET errors == Cardinality({e \in list : e.type \in ErrorTypes})
    IN  [error_rate           |-> (RateScale * errors) \div Cardinality(list),
         policy_blocked_count |-> Cardinality({e \in list : e.type = "policy.blocked"}),
         latency_max_ms       |-> MaxOperationLatency(list)]

Median2(vals) ==    \* twice the median of a function's values
    LET n == Cardinality(DOMAIN vals)
        s == SortedBy(DOMAIN vals, vals)
        m == n \div 2
    IN  IF n = 0 THEN 0
        ELSE IF n % 2 = 1 THEN 2 * vals[s[m + 1]] ELSE vals[s[m]] + vals[s[m + 1]]

Abs(n) == IF n < 0 THEN -n ELSE n

\* The score of value v exceeds the cutoff; FALSE without a stable baseline.
Exceeds(vals, v) ==
    LET n    == Cardinality(DOMAIN vals)
        med2 == Median2(vals)
        dev  == [t \in DOMAIN vals |-> Abs(2 * vals[t] - med2)]
        mad4 == Median2(dev)
        sum2 == SumFunction(dev)
    IN  /\ n >= MinSamples /\ sum2 > 0
        /\ IF mad4 > 0
           THEN 200000 * (2 * v - med2) > Cutoff * 14826 * mad4
           ELSE 100000 * n * (2 * v - med2) > Cutoff * 12533 * sum2

\* trace -> the metrics it is flagged on, of the flagged traces.
DetectAnomalies(list) ==
    LET traces  == {e.trace_id : e \in list}
        metrics == [t \in traces |-> TraceMetrics({e \in list : e.trace_id = t})]
        column(m) == [t \in traces |-> metrics[t][m]]
        flags   == [t \in traces |-> {m \in Metrics : Exceeds(column(m), metrics[t][m])}]
    IN  [metrics |-> metrics,
         flags   |-> [t \in {u \in traces : flags[u] # {}} |-> flags[t]]]

-----------------------------------------------------------------------------
(* getMetrics without a window: what each of its queries yields on a store   *)

MetricsOf(list, rows) ==
    [accepted      |-> Cardinality(list),
     byType        |-> Tally([e \in list |-> e.type]),
     session_count |-> Cardinality(rows),
     workflow_count |-> Cardinality({r.trace : r \in rows}),
     subagent_session_count |-> Cardinality({r \in rows : r.parent # None}),
     max_tree_depth |-> MaxDepth(rows)]

GetMetrics_AllEvents(events, rows, view) ==     \* mutant: a tenant filter is missing
    MetricsOf(events, {r \in rows : view = None \/ r.tenant = view})

GetMetrics(events, rows, view) ==
    MetricsOf(Windowed(events, view, None, None),
              {r \in rows : view = None \/ r.tenant = view})

\* The order of the queries: an await stands between one and the next.
NextQuery == [accepted |-> "byType", byType |-> "workflow_count",
              workflow_count |-> "subagent_session_count",
              subagent_session_count |-> "session_count",
              session_count |-> "max_tree_depth", max_tree_depth |-> "counted"]

-----------------------------------------------------------------------------
(* What the reports must satisfy *)

TotalCount(f) == SumFunction([k \in DOMAIN f |-> f[k].count])

Ordinary(f) == SumFunction([k \in DOMAIN f \ ObjectPrototype |-> f[k]])

\* Every event is counted exactly once and the breakdown totals equal total,
\* but for the events whose key every object inherits.
PolicyAddsUp(list) ==
    LET r == SummarizePolicyBlocked(list, 1) IN
    /\ Ordinary(r.by_policy) = Cardinality({e \in list : PolicyOf(e) \notin ObjectPrototype})
    /\ Ordinary(r.by_source) =
          Cardinality({e \in list : BucketKey(e.source) \notin ObjectPrototype})
    /\ SumFunction(r.by_day) = r.total
    /\ \A e \in list : r.recent # <<>> /\ e.time <= r.recent[1].time

\* A percentile is a sample, at least p% of the samples are no larger, and
\* no smaller sample has that.
NearestRank(ms, p, value) ==
    LET below(v) == Cardinality({i \in DOMAIN ms : ms[i] <= v}) IN
    /\ \E i \in DOMAIN ms : ms[i] = value
    /\ 100 * below(value) >= p * Len(ms)
    /\ \A i \in DOMAIN ms : ms[i] < value => 100 * below(ms[i]) < p * Len(ms)

\* Every end event is one operation or one unmatched end, each breakdown
\* counts every operation once, and the percentiles are in order.
PerformanceAddsUp(list) ==
    LET r == SummarizePerformance(list)
        n == r.total_operations
    IN  /\ n + r.unmatched_ends = Cardinality(EndsOf(list))
        /\ TotalCount(r.by_agent) = n
        /\ TotalCount(r.by_session) = n
        /\ TotalCount(r.by_operation) = n
        /\ n > 0 => /\ r.overall.min >= 0
                    /\ NearestRank(r.overall.sample, 50, r.overall.p50)
                    /\ NearestRank(r.overall.sample, 95, r.overall.p95)
                    /\ NearestRank(r.overall.sample, 99, r.overall.p99)
                    /\ r.overall.p99 <= r.overall.max

\* A flagged trace is above the median of its metric, at most half of the
\* traces are, too few traces flag nothing, and the slowest operation of any
\* trace is one that the latency report has as well.
AnomaliesAreSpikes(list) ==
    LET r == DetectAnomalies(list)
        n == Cardinality(DOMAIN r.metrics)
        spiked(m) == {t \in DOMAIN r.flags : m \in r.flags[t]}
        above(m, t) == {u \in DOMAIN r.metrics : r.metrics[u][m] >= r.metrics[t][m]}
        slowest == SummarizePerformance(list).overall
    IN  /\ n < MinSamples => DOMAIN r.flags = {}
        /\ \A m \in Metrics, t \in DOMAIN r.flags : m \in r.flags[t] =>
              2 * Cardinality(above(m, t)) <= n
        /\ \A m \in Metrics : \A t \in spiked(m), u \in DOMAIN r.metrics :
              r.metrics[u][m] > r.metrics[t][m] => u \in spiked(m)
        /\ \A t \in DOMAIN r.metrics : r.metrics[t].latency_max_ms > 0 =>
              r.metrics[t].latency_max_ms <= slowest.max
=============================================================================
