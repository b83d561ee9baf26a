-------------------------------- MODULE Reads --------------------------------
(***************************************************************************)
(* The read side of the server while events arrive and are pruned: keyset  *)
(* pagination of events, sessions and workflows, walked by a client from   *)
(* the first page to the last; audit bundles and compliance reports,       *)
(* assembled from several queries; and the reports over the stored events. *)
(*                                                                         *)
(* Table sessions has the columns that reads use: the tenant, trace and    *)
(* parent of the event that made the row, and the last activity; counts    *)
(* and first activity are EventStore's.  A session id may be used by       *)
(* several tenants and its events may span traces.  One request at a time  *)
(* is enough: reads leave nothing behind for each other.                   *)
(***************************************************************************)
EXTENDS Reports, Audit

CONSTANTS
    Worlds,         \* sets of envelopes that emitters may send, ids unique
    Read,           \* the worlds in which clients page and request bundles
    Measured,       \* the worlds in which clients request the counts
    Cutoffs,        \* retention cutoffs
    PageSize,       \* rows on a page
    Words,          \* free-text searches
    Specs,          \* query specs that clients send
    Windows,        \* <<since, until>> of the reports
    SigningConfigured, AccessLogEnabled, RetentionConfigured

VARIABLES
    emitted,    \* the world: what emitters may send
    events,     \* the rows of table events
    sessions,   \* the rows of table sessions
    reader      \* the request, or the walk over pages, in progress

store == <<emitted, events, sessions>>
vars == <<emitted, events, sessions, reader>>

TenantsOf(evs) == {e.tenant : e \in evs}

Fields == {"id", "type", "time", "causation_id", "tenant", "session_id", "trace_id",
           "parent_session_id", "source", "signed", "nested"}

\* Times are the places of their texts in order, ids likewise.
ASSUME WorldAssumption ==
    /\ Read \cup Measured \subseteq Worlds
    /\ \A w \in Worlds : IsFiniteSet(w) /\ \A e \in w :
          /\ DOMAIN e = Fields
          /\ e.id \in Int /\ e.time \in Int /\ e.session_id \in Int /\ e.trace_id \in Int
    /\ \A w \in Worlds : \A e, f \in w : e.id = f.id => e = f

\* validateQueryParams: a limit is at least 1.
ASSUME PageAssumption == PageSize \in Nat \ {0}

\* null is neither an id nor the place of a row, and no tenant's name: the
\* column tenant_id is NOT NULL.
ASSUME NoneAssumption ==
    /\ None \notin Int /\ None \notin Int \X Int
    /\ \A w \in Worlds : \A e \in w : e.tenant # None

SpecFields == {"filters", "group_by", "distinct", "bucketed", "since", "until", "limit"}

\* validateQuerySpec turns away a body whose filters are no array of objects.
ASSUME SpecAssumption ==
    /\ MaxLimit \in Nat /\ DefaultLimit \in 1..MaxLimit
    /\ \A s \in Specs :
          /\ DOMAIN s = SpecFields
          /\ s.filters \in Seq(Range(s.filters))
          /\ \A i \in DOMAIN s.filters : DOMAIN s.filters[i] = {"field", "op", "value"}

-----------------------------------------------------------------------------
(* Table sessions *)

SessionRow(e) ==
    [session |-> e.session_id, tenant |-> e.tenant, trace |-> e.trace_id,
     parent  |-> e.parent_session_id, updated |-> e.time]

\* upsertSession: a later event of the session moves the last activity only.
Upsert(rows, e) ==
    LET old == {r \in rows : r.session = e.session_id}
    IN  (rows \ old) \cup
        (IF old = {} THEN {SessionRow(e)}
         ELSE {[r EXCEPT !.updated = Max({@, e.time})] : r \in old})

\* _pruneTx: of tenant t's rows whose sessions lost events, one without an
\* event of t goes and another has its last activity recomputed.
Reconciled(rows, t, lost, left) ==
    LET affected == {r \in rows : r.tenant = t /\ \E e \in lost : e.session_id = r.session}
        own(r)   == {e \in left : e.tenant = t /\ e.session_id = r.session}
    IN  (rows \ affected) \cup
        {[r EXCEPT !.updated = Max({e.time : e \in own(r)})] :
            r \in {q \in affected : own(q) # {}}}

Seen(rows, view) == {r \in rows : view = None \/ r.tenant = view}

SessionEvents(evs, s, view) ==
    {e \in evs : e.session_id = s /\ (view = None \/ e.tenant = view)}

TraceRows(rows, trace, view) == {r \in Seen(rows, view) : r.trace = trace}

-----------------------------------------------------------------------------
(* Pages.  A row's sort key is <<time, id>>; events are listed in ascending  *)
(* order, sessions and workflows in descending order of the last activity.   *)

EventKeys(evs, s, view) == {<<e.time, e.id>> : e \in SessionEvents(evs, s, view)}

SessionKeys(rows, view) == {<<r.updated, r.session>> : r \in Seen(rows, view)}

WorkflowKeys(rows, view) ==
    {<<Max({r.updated : r \in TraceRows(rows, t, view)}), t>> :
        t \in {r.trace : r \in Seen(rows, view)}}

Keys(w, evs, rows) ==
    CASE w.kind = "events"    -> EventKeys(evs, w.arg, w.view)
      [] w.kind = "sessions"  -> SessionKeys(rows, w.view)
      [] w.kind = "workflows" -> WorkflowKeys(rows, w.view)

Precedes_NoTieBreak(w, k, l) ==     \* mutant: rows of one time share a place
    IF w.kind = "events" THEN k[1] < l[1] ELSE k[1] > l[1]

Precedes(w, k, l) ==
    IF w.kind = "events"
    THEN k[1] < l[1] \/ (k[1] = l[1] /\ k[2] < l[2])
    ELSE k[1] > l[1] \/ (k[1] = l[1] /\ k[2] > l[2])

\* ORDER BY and LIMIT PageSize + 1: the row too many says that there is a next
\* page, which begins after the last row of this one.
Page(w, evs, rows) ==
    LET later == {k \in Keys(w, evs, rows) : w.cursor = None \/ Precedes(w, w.cursor, k)}
        shown == CHOOSE R \in SUBSET later :
                     /\ Cardinality(R) = Min({PageSize, Cardinality(later)})
                     /\ \A k \in R, l \in later \ R : ~Precedes(w, l, k)
        last  == CHOOSE k \in shown : \A l \in shown : ~Precedes(w, k, l)
    IN  [rows |-> shown, next |-> IF shown = later THEN None ELSE last]

\* applyTextFilter: the search runs on the rows of the page.
Mentions(e, q) ==
    q = None \/ q = e.type \/ \E p \in DOMAIN e.nested :
                                  p[1] = "payload" /\ e.nested[p] = q

Shown(w, evs, k) ==
    w.kind = "events" => \E e \in evs : e.id = k[2] /\ Mentions(e, w.q)

-----------------------------------------------------------------------------
(* Requests *)

Idle == [kind |-> "idle"]

WalkKinds == {"events", "sessions", "workflows"}
AuditKinds == {"session", "workflow", "report"}

\* got: the pages so far; kept: the keys that have been listed ever since the
\* walk began.
Walk(kind, view, arg, q) ==
    [kind |-> kind, view |-> view, arg |-> arg, q |-> q, cursor |-> None,
     ended |-> FALSE, got |-> <<>>, kept |-> {}]

Begin(w) == reader' = [w EXCEPT !.kept = Keys(w, events, sessions)]

BeginEvents ==
    \E s \in {e.session_id : e \in emitted}, v \in TenantsOf(emitted) \cup {None},
       q \in Words \cup {None} : Begin(Walk("events", v, s, q))

BeginSessions ==
    \E v \in TenantsOf(emitted) \cup {None} : Begin(Walk("sessions", v, None, None))

BeginWorkflows ==
    \E v \in TenantsOf(emitted) \cup {None} : Begin(Walk("workflows", v, None, None))

BeginWalk ==
    /\ reader = Idle
    /\ emitted \in Read
    /\ BeginEvents \/ BeginSessions \/ BeginWorkflows
    /\ UNCHANGED store

NextPage ==
    /\ reader.kind \in WalkKinds
    /\ ~reader.ended
    /\ LET page == Page(reader, events, sessions)
       IN  reader' = [reader EXCEPT
               !.got    = Append(@, {k \in page.rows : Shown(reader, events, k)}),
               !.cursor = page.next,
               !.ended  = page.next = None]
    /\ UNCHANGED store

\* The session rows that a bundle request names.
ScopeRows(kind, view, arg, rows) ==
    IF kind = "session" THEN {r \in Seen(rows, view) : r.session = arg}
    ELSE TraceRows(rows, arg, view)

\* stored, listed: the events stored and the session ids in scope ever since the
\* request began; known, named: those at any time since; hidden: the session
\* ids under a parent cycle when the scope was read.
Request(kind, view, arg) ==
    LET ids == IdsOf(ScopeRows(kind, view, arg, sessions))
    IN  [kind |-> kind, view |-> view, arg |-> arg, at |-> "metrics",
         total |-> 0, blocked |-> 0, todo |-> {}, got |-> {},
         stored |-> events, known |-> events,
         listed |-> ids, named |-> ids, hidden |-> {}]

\* A bundle request begins with its scope, a report with the counts.
BeginAudit ==
    /\ reader = Idle
    /\ emitted \in Read
    /\ SigningConfigured
    /\ \E v \in TenantsOf(emitted) :
          \/ \E s \in {e.session_id : e \in emitted} :
                reader' = [Request("session", v, s) EXCEPT !.at = "scope"]
          \/ \E t \in {e.trace_id : e \in emitted} :
                \/ reader' = [Request("workflow", v, t) EXCEPT !.at = "scope"]
                \/ reader' = Request("report", v, t)
    /\ UNCHANGED store

\* Of getMetrics a report uses what the first query counts.
ReadMetrics ==
    /\ reader.kind = "report" /\ reader.at = "metrics"
    /\ reader' = [reader EXCEPT
           !.at = "policy",
           !.total = GetMetrics(events, sessions, reader.view).accepted]
    /\ UNCHANGED store

ReadPolicy ==
    /\ reader.kind = "report" /\ reader.at = "policy"
    /\ reader' = [reader EXCEPT
           !.at = "scope",
           !.blocked = Cardinality(GetPolicyBlockedEvents(events, reader.view, None, None))]
    /\ UNCHANGED store

\* collectSessionIds of the workflow's tree; a session is read by its id.
ScopeSessions(rows) ==
    IF reader.kind = "session" THEN IdsOf(rows) ELSE CollectSessionIds(Forest(rows))

\* A missing scope is a 404, and an unverified report.
ReadScope ==
    /\ reader.kind \in AuditKinds /\ reader.at = "scope"
    /\ LET rows == ScopeRows(reader.kind, reader.view, reader.arg, sessions)
       IN  reader' = IF rows # {}
                     THEN [reader EXCEPT
                         !.at     = "rows",
                         !.todo   = ScopeSessions(rows),
                         !.hidden = IF reader.kind = "session" THEN {} ELSE Cyclic(rows)]
                     ELSE IF reader.kind = "report" THEN [reader EXCEPT !.at = "unscoped"]
                     ELSE Idle
    /\ UNCHANGED store

\* Promise.all: the sessions' queries run in any order.
ReadRows ==
    /\ reader.kind \in AuditKinds /\ reader.at = "rows"
    /\ \E s \in reader.todo :
          reader' = [reader EXCEPT !.todo = @ \ {s},
                                   !.got = @ \cup SessionEvents(events, s, reader.view)]
    /\ UNCHANGED store

Build ==
    /\ reader.kind \in AuditKinds /\ reader.at = "rows" /\ reader.todo = {}
    /\ reader' = [reader EXCEPT !.at = "built"]
    /\ UNCHANGED store

BeginMetrics ==
    /\ reader = Idle
    /\ emitted \in Measured
    /\ \E v \in TenantsOf(emitted) \cup {None} :
          reader' = [kind |-> "metrics", view |-> v, at |-> "accepted",
                     counts |-> [q \in DOMAIN NextQuery |-> 0],
                     stored |-> events, known |-> events]
    /\ UNCHANGED store

\* One query of getMetrics.
ReadCount ==
    /\ reader.kind = "metrics" /\ reader.at \in DOMAIN NextQuery
    /\ reader' = [reader EXCEPT
           !.counts[reader.at] = GetMetrics(events, sessions, reader.view)[reader.at],
           !.at = NextQuery[@]]
    /\ UNCHANGED store

Answer ==
    /\ \/ reader.kind \in WalkKinds /\ reader.ended
       \/ reader.kind \in AuditKinds /\ reader.at \in {"built", "unscoped"}
       \/ reader.kind = "metrics" /\ reader.at = "counted"
    /\ reader' = Idle
    /\ UNCHANGED store

-----------------------------------------------------------------------------
(* The store *)

\* The reader's witnesses after a change of the store.
Witness(evs, rows) ==
    LET scope == IdsOf(ScopeRows(reader.kind, reader.view, reader.arg, rows))
    IN  reader' =
            IF reader.kind \in WalkKinds
            THEN [reader EXCEPT !.kept = @ \cap Keys(reader, evs, rows)]
            ELSE IF reader.kind \in AuditKinds
            THEN [reader EXCEPT !.stored = @ \cap evs, !.known = @ \cup evs,
                                !.listed = @ \cap scope, !.named = @ \cup scope]
            ELSE IF reader.kind = "metrics"
            THEN [reader EXCEPT !.stored = @ \cap evs, !.known = @ \cup evs]
            ELSE reader

Insert ==
    \E e \in emitted :
        /\ \A f \in events : f.id # e.id
        /\ events' = events \cup {e}
        /\ sessions' = Upsert(sessions, e)
        /\ Witness(events', sessions')
        /\ UNCHANGED emitted

Prune ==
    \E t \in TenantsOf(emitted), cutoff \in Cutoffs :
        LET lost == {e \in events : e.tenant = t /\ e.time < cutoff} IN
        /\ events' = events \ lost
        /\ sessions' = Reconciled(sessions, t, lost, events')
        /\ Witness(events', sessions')
        /\ UNCHANGED emitted

Init ==
    /\ emitted \in Worlds
    /\ events = {}
    /\ sessions = {}
    /\ reader = Idle

Next ==
    \/ Insert \/ Prune
    \/ BeginWalk \/ NextPage
    \/ BeginAudit \/ ReadMetrics \/ ReadPolicy \/ ReadScope \/ ReadRows \/ Build
    \/ BeginMetrics \/ ReadCount
    \/ Answer

Spec == Init /\ [][Next]_vars

-----------------------------------------------------------------------------
(* Properties *)

Ids(keys) == {k[2] : k \in keys}

\* Pages are a partition of the list, whatever is inserted and pruned between
\* them: each is listed after the ones before it, no row that stays listed is
\* returned twice (also under another key), and at the last page all
\* rows that kept their place since the first have been returned, except those
\* that the free-text search leaves out.  A session that becomes active during
\* the walk moves to the front and is the case of a row that did not keep its
\* place.
WalksAreExact ==
    reader.kind \in WalkKinds =>
        /\ \A i, j \in DOMAIN reader.got : i < j =>
              \A k \in reader.got[i], l \in reader.got[j] :
                  /\ Precedes(reader, k, l)
                  /\ k[2] \in Ids(reader.kept) => k[2] # l[2]
        /\ reader.ended =>
              {k \in reader.kept : Shown(reader, events, k)}
              \subseteq UNION {reader.got[i] : i \in DOMAIN reader.got}

SingleTraceId(evs) ==
    LET traces == {e.trace_id : e \in evs}
    IN  IF Cardinality(traces) = 1 THEN CHOOSE t \in traces : TRUE ELSE None

Bundle ==
    BuildAuditBundle(SortedBy(reader.got, [e \in reader.got |-> e.time]),
                     IF reader.kind = "session"
                     THEN <<reader.arg, SingleTraceId(reader.got)>> ELSE <<reader.arg>>,
                     reader.view, Secret)

Evidence ==
    [access_log           |-> AccessLogEnabled,
     signing_configured   |-> SigningConfigured,
     bundle_verified      |-> IF reader.at = "built" /\ SigningConfigured
                              THEN VerifyAuditBundle(Bundle, Secret)
                              ELSE NotVerified,
     policy_blocked_count |-> reader.blocked,
     total_events         |-> reader.total,
     retention_configured |-> RetentionConfigured]

InScope(e) ==
    /\ e.tenant = reader.view
    /\ IF reader.kind = "session" THEN e.session_id = reader.arg
       ELSE e.trace_id = reader.arg

\* Emitters that keep a session id to one tenant and one trace.
Plain(w) == \A e, f \in w : e.session_id = f.session_id =>
                e.tenant = f.tenant /\ e.trace_id = f.trace_id

\* A bundle is assembled from queries of different instants, and still says
\* nothing wrong: all its events were stored, of its tenant, and in sessions
\* that its scope named; no such event is missing that was stored, its session
\* in scope, from the request's first query to its last, unless the session is
\* under a parent cycle.  If no session id spans traces or tenants, that is
\* what the scope itself says; else a trace's bundle need not have "ALL events
\* for the trace" (server.js), as a row keeps its first event's trace.  Edits of the bundle are found (TamperEvident),
\* and so no report claims that tampering was.
BundlesAreTruthful ==
    reader.kind \in AuditKinds /\ reader.at = "built" =>
        /\ \A e \in reader.got : /\ e \in reader.known /\ e.tenant = reader.view
                                 /\ e.session_id \in reader.named
                                 /\ Plain(emitted) => InScope(e)
        /\ \A e \in reader.stored :
              /\ e.tenant = reader.view /\ e.session_id \notin reader.hidden
              /\ e.session_id \in reader.listed \/ (Plain(emitted) /\ InScope(e))
              => e \in reader.got
        /\ TamperEvident(Bundle)
        /\ \A f \in DOMAIN Frameworks :
              LET r == GenerateComplianceReport(f, Evidence) IN
              /\ r.unmet = 0
              /\ r.satisfied + r.partial = r.total_controls

\* The trees and the depth of every table of sessions agree with their
\* definitions over the parent links, also when sessions name each other as
\* parents or a parent is in another trace, and so does the causation graph of
\* every trace.
TreesAreComplete ==
    reader = Idle =>
        /\ TreeCovers(sessions)
        /\ DepthIsLongestChain(sessions)
        /\ \A t \in {r.trace : r \in sessions} : ForestCovers(TraceRows(sessions, t, None))
        /\ \A t \in {e.trace_id : e \in events} :
              GraphIsConsistent({e \in events : e.trace_id = t})

\* The counts come from queries of different instants.  Those of events lie
\* between the events stored throughout and those stored at any time; and when
\* nothing changed meanwhile, all fit together.
MetricsFit ==
    reader.kind = "metrics" /\ reader.at = "counted" =>
        LET c     == reader.counts
            least == Cardinality(Windowed(reader.stored, reader.view, None, None))
            most  == Cardinality(Windowed(reader.known, reader.view, None, None))
        IN  /\ c.accepted \in least..most
            /\ SumFunction(c.byType) \in least..most
            /\ reader.stored = reader.known =>
                  /\ SumFunction(c.byType) = c.accepted
                  /\ c.subagent_session_count <= c.session_count
                  /\ c.workflow_count <= c.session_count
                  /\ c.max_tree_depth <= c.session_count

\* A valid spec's groups partition what it matches, and each filter and its
\* negation split the events that pass its other filters, also when the field
\* is missing or holds an object.
QueriesAddUp ==
    reader = Idle =>
        \A view \in TenantsOf(emitted) \cup {None} : \A raw \in {s \in Specs : ValidSpec(s)} :
            LET spec == Normalized(raw)
                mine == Windowed(events, view, None, None)
            IN  /\ AddsUp(mine, spec)
                /\ Splits(mine, spec)

\* The reports over one window account for the same events: breakdowns add up,
\* every end of an operation is paired or counted as unmatched, percentiles are
\* nearest-rank samples, and only spikes are flagged.
ReportsAgree ==
    reader = Idle =>
        \A view \in TenantsOf(emitted) \cup {None}, w \in Windows :
            LET all    == Windowed(events, view, w[1], w[2])
                policy == GetPolicyBlockedEvents(events, view, w[1], w[2])
                perf   == GetPerformanceEvents(events, view, w[1], w[2])
                traces == DetectAnomalies(all).metrics
            IN  /\ PolicyAddsUp(policy)
                /\ PerformanceAddsUp(perf)
                /\ AnomaliesAreSpikes(all)
                /\ SumFunction([t \in DOMAIN traces |-> traces[t].policy_blocked_count])
                   = Cardinality(policy)
=============================================================================
