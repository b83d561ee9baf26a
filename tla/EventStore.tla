----------------------------- MODULE EventStore -----------------------------
(***************************************************************************)
(* The storage core: the `events` and `sessions` tables and the two        *)
(* transactions that write them, insertEvent and pruneEventsBefore, as the *)
(* SQLite backend runs them (src/db/backends/sqlite.js).  better-sqlite3   *)
(* is synchronous and every transaction is serialised by the database      *)
(* file's write lock, so one call is one step, also when the prune job     *)
(* runs in a process of its own.                                           *)
(*                                                                         *)
(* Timestamps are the TEXT the tables hold.  The code only ever compares   *)
(* them as strings, so a timestamp is its rank in that string order.       *)
(***************************************************************************)
EXTENDS Integers, FiniteSets, FiniteSetsExt

CONSTANTS
    Ids,        \* event ids, chosen by the emitters
    Tenants,    \* tenants, taken from the API key that posts
    Sessions,   \* session ids, chosen by the emitters
    Times,      \* timestamps, as ranks in the string order
    MayUse,     \* MayUse[t]: the session ids tenant t's emitters use
    NoRow       \* "there is no row for this session id"

SessionRow == [tenant: Tenants, event_count: Nat,
               started_at: Times, updated_at: Times]

ASSUME StoreAssumption ==
    /\ Times \subseteq Nat
    /\ MayUse \in [Tenants -> SUBSET Sessions]
    /\ NoRow \notin SessionRow

VARIABLES
    events,     \* the rows of table events
    sessions    \* session_id -> summary row, or NoRow

vars == <<events, sessions>>

Event == [id: Ids, tenant: Tenants, session: Sessions, time: Times]

-----------------------------------------------------------------------------
(* Reading the tables *)

Stored(i) == \E e \in events : e.id = i

EventsOf(evs, s, t) == {e \in evs : e.session = s /\ e.tenant = t}

TimesOf(evs) == {e.time : e \in evs}

-----------------------------------------------------------------------------
(* insertEvent: INSERT OR IGNORE on the global event id, then the upsert   *)
(* of the session summary; one transaction.                                *)

Upsert(row, e) ==
    IF row = NoRow
    THEN [tenant |-> e.tenant, event_count |-> 1,
          started_at |-> e.time, updated_at |-> e.time]
    ELSE [row EXCEPT !.event_count = @ + 1,
                     !.updated_at  = IF e.time > @ THEN e.time ELSE @]

InsertEvent_NoEarlyReturn(e) ==     \* mutant: a duplicate reaches the upsert
    /\ events' = IF Stored(e.id) THEN events ELSE events \cup {e}
    /\ sessions' = [sessions EXCEPT ![e.session] = Upsert(@, e)]

InsertEvent_IdPerTenant(e) ==       \* mutant: ids conflict within a tenant only
    \/ /\ \E f \in events : f.id = e.id /\ f.tenant = e.tenant
       /\ UNCHANGED vars
    \/ /\ ~\E f \in events : f.id = e.id /\ f.tenant = e.tenant
       /\ events' = events \cup {e}
       /\ sessions' = [sessions EXCEPT ![e.session] = Upsert(@, e)]

InsertEvent(e) ==
    \/ /\ Stored(e.id)
       /\ UNCHANGED vars
    \/ /\ ~Stored(e.id)
       /\ events' = events \cup {e}
       /\ sessions' = [sessions EXCEPT ![e.session] = Upsert(@, e)]

-----------------------------------------------------------------------------
(* pruneEventsBefore: delete the tenant's events older than the cutoff,    *)
(* drop the summaries left without events, recompute the other summaries   *)
(* that lost events; one transaction.                                      *)

Expired(t, cutoff) == {e \in events : e.tenant = t /\ e.time < cutoff}

Recomputed_KeepStart(row, evs) ==   \* mutant: started_at is not recomputed
    [row EXCEPT !.event_count = Cardinality(evs),
                !.updated_at  = Max(TimesOf(evs))]

Recomputed(row, evs) ==
    [row EXCEPT !.event_count = Cardinality(evs),
                !.started_at  = Min(TimesOf(evs)),
                !.updated_at  = Max(TimesOf(evs))]

Reconciled_TenantWide(s, t, affected, left) ==  \* mutant: not only the affected
    IF sessions[s] = NoRow THEN NoRow
    ELSE IF sessions[s].tenant # t THEN sessions[s]
    ELSE IF EventsOf(left, s, t) = {} THEN NoRow
    ELSE Recomputed(sessions[s], EventsOf(left, s, t))

Reconciled(s, t, affected, left) ==
    IF s \notin affected \/ sessions[s] = NoRow
    THEN sessions[s]
    ELSE IF sessions[s].tenant # t THEN sessions[s]
    ELSE IF EventsOf(left, s, t) = {} THEN NoRow
    ELSE Recomputed(sessions[s], EventsOf(left, s, t))

PruneEventsBefore(t, cutoff) ==
    LET gone     == Expired(t, cutoff)
        affected == {e.session : e \in gone}
        left     == events \ gone
    IN  /\ events'   = left
        /\ sessions' = [s \in Sessions |-> Reconciled(s, t, affected, left)]

-----------------------------------------------------------------------------
Init ==
    /\ events = {}
    /\ sessions = [s \in Sessions |-> NoRow]

Ingest == \E e \in Event : e.session \in MayUse[e.tenant] /\ InsertEvent(e)

Prune == \E t \in Tenants, cutoff \in Times : PruneEventsBefore(t, cutoff)

Next == Ingest \/ Prune

Spec == Init /\ [][Next]_vars

-----------------------------------------------------------------------------
(* Properties *)

\* The tables hold rows of their columns' types.
TypeOK ==
    /\ events \subseteq Event
    /\ sessions \in [Sessions -> SessionRow \cup {NoRow}]

\* A session id that only one tenant's emitters use.  UUID session ids are;
\* nothing in the schema makes them so.
Exclusive(s) ==
    \A t, u \in Tenants : s \in MayUse[t] /\ s \in MayUse[u] => t = u

\* The summary that the rows of table events call for.
AgreesWith(row, evs) ==
    /\ row.event_count = Cardinality(evs)
    /\ row.updated_at \in TimesOf(evs)
    /\ \A e \in evs : e.time <= row.updated_at

\* The derived table tells the truth about the base table: a session used
\* by one tenant has a summary exactly when events of it are stored, and the
\* summary's count and last activity are those of the stored events, after
\* any order of arrivals, duplicates and prunes (interface.js, "reconcile
\* the derived sessions summary rows").
SummariesExact ==
    \A s \in Sessions : Exclusive(s) =>
        IF sessions[s] = NoRow
        THEN \A e \in events : e.session # s
        ELSE AgreesWith(sessions[s], EventsOf(events, s, sessions[s].tenant))

\* started_at is never left pointing at an event that was pruned, although
\* insertEvent sets it from the first arrival and never moves it again.
StartedAtStored ==
    \A s \in Sessions : Exclusive(s) /\ sessions[s] # NoRow =>
        \E e \in events : /\ e.session = s
                          /\ e.tenant = sessions[s].tenant
                          /\ e.time = sessions[s].started_at

\* Whoever uses it, a summary has a stored event of its own tenant behind it:
\* no prune leaves a session row that lists, in a tenant's sessions, a
\* session of which that tenant has no event.
NoPhantomSummary ==
    \A s \in Sessions : sessions[s] # NoRow =>
        EventsOf(events, s, sessions[s].tenant) # {}

\* An event id identifies one stored event, whatever tenant, session or
\* time a second submission of the id claims.
UniqueIds == \A e, f \in events : e.id = f.id => e = f

\* "a prune never rewrites aggregates on sessions that lost nothing"
\* (sqlite.js): a summary changes only in a step that stores or deletes an
\* event of that very session.
OnlyOwnEventsMoveASummary ==
    [][\A s \in Sessions : sessions'[s] # sessions[s] =>
          \E e \in (events' \ events) \cup (events \ events') :
              e.session = s]_vars

\* The last-activity time of a session never moves backwards while its row
\* exists: late arrivals do not lower it and a prune removes older events
\* first.
LastActivityAdvances ==
    [][\A s \in Sessions :
          Exclusive(s) /\ sessions[s] # NoRow /\ sessions'[s] # NoRow
          => sessions'[s].updated_at >= sessions[s].updated_at]_vars

\* The inductive invariant behind SummariesExact and StartedAtStored.  What
\* they lack on their own: rows and events sit in sessions their tenants may
\* use, so the row of an exclusive session has the tenant of its events.
Entitled ==
    /\ \A e \in events : e.session \in MayUse[e.tenant]
    /\ \A s \in Sessions : sessions[s] # NoRow => s \in MayUse[sessions[s].tenant]

IInv ==
    /\ TypeOK
    /\ IsFiniteSet(events)
    /\ UniqueIds
    /\ Entitled
    /\ NoPhantomSummary
    /\ SummariesExact
    /\ StartedAtStored
=============================================================================
