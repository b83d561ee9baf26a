-------------------------------- MODULE Query --------------------------------
(***************************************************************************)
(* User-defined analytics (src/customQuery.js): a query is a structured    *)
(* spec of filters, grouping, distinct counts, a window and a limit, which *)
(* validateQuerySpec checks against lists of allowed names and runQuery    *)
(* evaluates over event envelopes.                                         *)
(*                                                                         *)
(* A field reference is the sequence of its dot-separated segments.  The   *)
(* nested part of an envelope (payload, labels, extensions) is a function  *)
(* from the full paths of its scalars to their values.  null and a missing *)
(* property are one value, Absent; an object or array is NonScalar.        *)
(***************************************************************************)
EXTENDS Integers, Sequences, FiniteSets, SequencesExt

CONSTANTS
    Absent,         \* the value of a missing property, and null
    NonScalar,      \* the value of a property that holds an object
    Unspecified,    \* the group key of a missing or blank value
    TextRank(_),    \* the place of a scalar's text in the string order
    IsNumber(_),    \* the scalar's text reads as a number
    NumberOf(_),    \* that number
    Day,            \* ticks of event time in one day, the time bucket here
    MaxFilters, MaxGroupBy, MaxAggregations, DefaultLimit, MaxLimit

\* The elements of a finite set in ascending order of their keys, those of one
\* key in some order.
Least(S, key) == CHOOSE x \in S : \A y \in S : key[x] <= key[y]

SortedBy(S, key) ==
    LET rest[n \in 0..Cardinality(S)] ==
            IF n = 0 THEN S ELSE rest[n - 1] \ {Least(rest[n - 1], key)}
    IN  [i \in 1..Cardinality(S) |-> Least(rest[i - 1], key)]

-----------------------------------------------------------------------------
(* Names *)

TopLevelFields == {"id", "type", "source", "session_id", "trace_id",
                   "parent_session_id", "causation_id", "time", "tenant"}
NestedRoots == {"payload", "labels", "extensions"}
ForbiddenSegments == {"__proto__", "prototype", "constructor"}

ValuelessOps == {"exists", "not_exists"}
ArrayOps == {"in", "nin"}
ScalarOps == {"eq", "ne", "gt", "gte", "lt", "lte"}

-----------------------------------------------------------------------------
(* Field references *)

ValidFieldRef(f) ==
    \/ Len(f) = 1 /\ f[1] \in TopLevelFields
    \/ /\ Len(f) > 1
       /\ f[1] \in NestedRoots
       /\ \A i \in 2..Len(f) : f[i] \notin ForbiddenSegments \cup {""}

ResolveField(e, f) ==
    IF Len(f) = 1 THEN e[f[1]]
    ELSE IF f \in DOMAIN e.nested THEN e.nested[f]
    ELSE IF \E p \in DOMAIN e.nested : IsStrictPrefix(f, p) THEN NonScalar
    ELSE Absent

-----------------------------------------------------------------------------
(* Filters *)

\* Numbers compare as numbers when both sides are; otherwise as text.
Less(a, b) ==
    IF IsNumber(a) /\ IsNumber(b) THEN NumberOf(a) < NumberOf(b)
    ELSE TextRank(a) < TextRank(b)

MatchFilter_NeSkipsObjects(e, flt) ==   \* mutant: ne never matches an object
    LET actual == ResolveField(e, flt.field)
        scalar == actual \notin {Absent, NonScalar}
    IN  CASE flt.op = "exists"     -> actual # Absent
          [] flt.op = "not_exists" -> actual = Absent
          [] flt.op = "eq"  -> scalar /\ actual = flt.value
          [] flt.op = "ne"  -> actual # NonScalar /\ ~(scalar /\ actual = flt.value)
          [] flt.op = "in"  -> scalar /\ actual \in flt.value
          [] flt.op = "nin" -> ~(scalar /\ actual \in flt.value)
          [] flt.op = "gt"  -> scalar /\ Less(flt.value, actual)
          [] flt.op = "gte" -> scalar /\ ~Less(actual, flt.value)
          [] flt.op = "lt"  -> scalar /\ Less(actual, flt.value)
          [] flt.op = "lte" -> scalar /\ ~Less(flt.value, actual)

MatchFilter(e, flt) ==
    LET actual == ResolveField(e, flt.field)
        scalar == actual \notin {Absent, NonScalar}
    IN  CASE flt.op = "exists"     -> actual # Absent
          [] flt.op = "not_exists" -> actual = Absent
          [] flt.op = "eq"  -> scalar /\ actual = flt.value
          [] flt.op = "ne"  -> ~(scalar /\ actual = flt.value)
          [] flt.op = "in"  -> scalar /\ actual \in flt.value
          [] flt.op = "nin" -> ~(scalar /\ actual \in flt.value)
          [] flt.op = "gt"  -> scalar /\ Less(flt.value, actual)
          [] flt.op = "gte" -> scalar /\ ~Less(actual, flt.value)
          [] flt.op = "lt"  -> scalar /\ Less(actual, flt.value)
          [] flt.op = "lte" -> scalar /\ ~Less(flt.value, actual)

-----------------------------------------------------------------------------
(* validateQuerySpec.  The value of a filter is a set for in and nin, Absent *)
(* when it is missing; distinct lists the fields of count_distinct.          *)

ValidFilter(flt) ==
    /\ ValidFieldRef(flt.field)
    /\ \/ flt.op \in ValuelessOps
       \/ flt.op \in ArrayOps /\ flt.value # {}
       \/ flt.op \in ScalarOps /\ flt.value \notin {Absent, NonScalar}

ValidSpec(spec) ==
    /\ Len(spec.filters) <= MaxFilters
    /\ \A i \in DOMAIN spec.filters : ValidFilter(spec.filters[i])
    /\ Len(spec.group_by) <= MaxGroupBy
    /\ \A i \in DOMAIN spec.group_by : ValidFieldRef(spec.group_by[i])
    /\ Len(spec.distinct) <= MaxAggregations
    /\ \A i \in DOMAIN spec.distinct : ValidFieldRef(spec.distinct[i])
    /\ spec.limit = Absent \/ spec.limit \in 1..MaxLimit

\* A count is always among the aggregations, so it is not named here.
Normalized(spec) ==
    [spec EXCEPT !.limit = IF @ = Absent THEN DefaultLimit ELSE @]

-----------------------------------------------------------------------------
(* runQuery *)

InWindow(e, spec) ==
    /\ spec.since = Absent \/ e.time >= spec.since
    /\ spec.until = Absent \/ e.time < spec.until

Matched(events, spec) ==
    {e \in events : InWindow(e, spec) /\ \A i \in DOMAIN spec.filters :
                                             MatchFilter(e, spec.filters[i])}

GroupKeyValue(v) == IF v \in {Absent, NonScalar} THEN Unspecified ELSE v

\* The group of an event: its key values, then its day when bucketed.
GroupOf(e, spec) ==
    [i \in DOMAIN spec.group_by |-> GroupKeyValue(ResolveField(e, spec.group_by[i]))]
    \o (IF spec.bucketed THEN <<e.time \div Day>> ELSE <<>>)

Row(members, spec, g) ==
    [group    |-> g,
     count    |-> Cardinality(members),
     distinct |-> [i \in DOMAIN spec.distinct |->
        Cardinality({ResolveField(e, spec.distinct[i]) : e \in members} \ {Absent})]]

RunQuery(events, spec) ==
    LET matched == Matched(events, spec)
        groups  == {GroupOf(e, spec) : e \in matched}
        rows    == {Row({e \in matched : GroupOf(e, spec) = g}, spec, g) : g \in groups}
        sorted  == SortedBy(rows, [r \in rows |-> -r.count])
        cut     == Len(sorted) > spec.limit
    IN  [total_matched |-> Cardinality(matched),
         rows          |-> IF cut THEN SubSeq(sorted, 1, spec.limit) ELSE sorted,
         truncated     |-> cut]

-----------------------------------------------------------------------------
(* What a result must satisfy *)

Negation == [eq |-> "ne", in |-> "nin", exists |-> "not_exists"]

Counted(rows) == SumFunction([i \in DOMAIN rows |-> rows[i].count])

\* The rows of a result partition the matched events, the largest first, and
\* a truncated result still has its total; a distinct count is no larger than
\* the count beside it.
AddsUp(events, spec) ==
    LET res == RunQuery(events, spec) IN
    /\ Len(res.rows) <= spec.limit
    /\ IF res.truncated
       THEN Len(res.rows) = spec.limit /\ Counted(res.rows) < res.total_matched
       ELSE Counted(res.rows) = res.total_matched
    /\ \A i \in 2..Len(res.rows) : res.rows[i - 1].count >= res.rows[i].count
    /\ \A i \in DOMAIN res.rows, d \in DOMAIN spec.distinct :
          res.rows[i].distinct[d] <= res.rows[i].count

\* A filter and its negation split the events that pass the other filters,
\* with missing and non-scalar values on one side only.
Splits(events, spec) ==
    \A i \in DOMAIN spec.filters : spec.filters[i].op \in DOMAIN Negation =>
        LET flipped == [spec EXCEPT !.filters[i].op = Negation[@]]
            without == [spec EXCEPT !.filters = RemoveAt(@, i)]
        IN  Cardinality(Matched(events, spec)) + Cardinality(Matched(events, flipped))
            = Cardinality(Matched(events, without))
=============================================================================
