--------------------------- MODULE IngestPipeline ---------------------------
(***************************************************************************)
(* POST /events, from the quota check to the answer (src/server.js and     *)
(* src/middleware/quota.js), for the requests of one project handled by    *)
(* one or several server processes on one PostgreSQL database.  Every      *)
(* await of the handler ends a step.  insertEvent is one step here: that   *)
(* its transactions are equivalent to that is PgEventStore's subject.      *)
(*                                                                         *)
(* Authentication and the rate limit come before and are left out: the     *)
(* requests are those that passed them.                                    *)
(***************************************************************************)
EXTENDS Integers, FiniteSets

CONSTANTS
    Requests,   \* the POST requests
    Nodes,      \* server processes
    Ids,        \* event ids; an emitter's retry posts an id again
    Quota,      \* the project's event_quota
    NoEntry     \* the project is not cached

CacheEntry == [usage : Nat, fresh : BOOLEAN]

ASSUME IngestAssumption ==
    /\ IsFiniteSet(Requests)
    /\ Quota \in Nat
    /\ NoEntry \notin CacheEntry

VARIABLES
    req,        \* request -> pc and the handler's local state
    stored,     \* ids in table events
    counters,   \* server_metrics: received, rejected, duplicates
    cache,      \* node -> quota cache entry of the project
    fanout      \* id -> how often its event was broadcast and scheduled

vars == <<req, stored, counters, cache, fanout>>

Step(r, from, to) == req[r].pc = from /\ req' = [req EXCEPT ![r].pc = to]

Count(name) == counters' = [counters EXCEPT ![name] = @ + 1]

-----------------------------------------------------------------------------
(* enforceQuota *)

\* A request arrives; valid says whether signature and schema will pass.
Arrive(r, n, i, valid) ==
    /\ req[r].pc = "none"
    /\ req' = [req EXCEPT ![r] = [pc |-> "checking", node |-> n, id |-> i,
                                  valid |-> valid, usage |-> 0]]
    /\ UNCHANGED <<stored, counters, cache, fanout>>

HasFresh(n) == cache[n] # NoEntry /\ cache[n].fresh

Verdict(usage) == IF usage >= Quota THEN "refused" ELSE "admitted"

\* loadProject finds a fresh entry.
CheckCached(r) ==
    /\ req[r].pc = "checking"
    /\ HasFresh(req[r].node)
    /\ Step(r, "checking", Verdict(cache[req[r].node].usage))
    /\ UNCHANGED <<stored, counters, cache, fanout>>

\* It finds none, or a stale one.
Miss(r) ==
    /\ Step(r, "checking", "counting")
    /\ ~HasFresh(req[r].node)
    /\ UNCHANGED <<stored, counters, cache, fanout>>

\* getProjectEventCount.
CountEvents(r) ==
    /\ req[r].pc = "counting"
    /\ req' = [req EXCEPT ![r].pc = "counted", ![r].usage = Cardinality(stored)]
    /\ UNCHANGED <<stored, counters, cache, fanout>>

\* The count has come back: the entry is replaced by it.
SetCache(r) ==
    /\ req[r].pc = "counted"
    /\ Step(r, "counted", Verdict(req[r].usage))
    /\ cache' = [cache EXCEPT ![req[r].node] = [usage |-> req[r].usage, fresh |-> TRUE]]
    /\ UNCHANGED <<stored, counters, fanout>>

\* A query failed: the check fails open.
CheckFails(r) ==
    /\ Step(r, "counting", "admitted")
    /\ UNCHANGED <<stored, counters, cache, fanout>>

\* QUOTA_REFRESH_MS have passed.
Expire(n) ==
    /\ cache[n] # NoEntry
    /\ cache' = [cache EXCEPT ![n].fresh = FALSE]
    /\ UNCHANGED <<req, stored, counters, fanout>>

-----------------------------------------------------------------------------
(* The handler *)

CountReceived(r) ==
    /\ Step(r, "admitted", "received")
    /\ Count("received")
    /\ UNCHANGED <<stored, cache, fanout>>

\* The signature or the schema is wrong: 401 or 400.
Reject(r) ==
    /\ Step(r, "received", "rejected")
    /\ ~req[r].valid
    /\ Count("rejected")
    /\ UNCHANGED <<stored, cache, fanout>>

InsertEvent_NoDedup(r) ==   \* mutant: an id that is stored is stored again
    /\ Step(r, "received", "inserted")
    /\ req[r].valid
    /\ stored' = stored \cup {req[r].id}
    /\ UNCHANGED <<counters, cache, fanout>>

\* insertEvent.
InsertEvent(r) ==
    /\ req[r].pc = "received"
    /\ req[r].valid
    /\ IF req[r].id \in stored
       THEN Step(r, "received", "known") /\ UNCHANGED stored
       ELSE Step(r, "received", "inserted") /\ stored' = stored \cup {req[r].id}
    /\ UNCHANGED <<counters, cache, fanout>>

CountDuplicate_NotCounted(r) ==     \* mutant: no duplicates counter
    /\ Step(r, "known", "duplicate")
    /\ UNCHANGED <<stored, counters, cache, fanout>>

\* 200, duplicate: true.
CountDuplicate(r) ==
    /\ Step(r, "known", "duplicate")
    /\ Count("duplicates")
    /\ UNCHANGED <<stored, cache, fanout>>

Increment(n) ==
    IF cache[n] = NoEntry THEN UNCHANGED cache
    ELSE cache' = [cache EXCEPT ![n].usage = @ + 1]

\* recordAccepted, broadcastSse, scheduleDelivery and 202, in one callback.
Accept(r) ==
    /\ Step(r, "inserted", "accepted")
    /\ Increment(req[r].node)
    /\ fanout' = [fanout EXCEPT ![req[r].id] = @ + 1]
    /\ UNCHANGED <<stored, counters>>

-----------------------------------------------------------------------------
(* Failures *)

InHandler == {"checking", "counting", "counted", "admitted", "received", "inserted", "known"}

\* The places that await a query, which throws: 500.  req remembers whether
\* the request had been counted, and whether its event had been stored.
Fail(r) ==
    /\ \/ Step(r, "admitted", "failed")
       \/ Step(r, "received", "failed_received")
       \/ Step(r, "known", "failed_received")
    /\ UNCHANGED <<stored, counters, cache, fanout>>

Fallen(pc) ==
    CASE pc \in {"received", "known"}               -> "failed_received"
      [] pc \in {"checking", "counting", "counted", "admitted"} -> "failed"
      [] pc = "inserted"                            -> "failed_stored"
      [] OTHER                                      -> pc

\* A server process dies: its requests get no answer, its cache is gone.
Crash(n) ==
    /\ req'   = [r \in Requests |->
                   IF req[r].pc \in InHandler /\ req[r].node = n
                   THEN [req[r] EXCEPT !.pc = Fallen(@)] ELSE req[r]]
    /\ cache' = [cache EXCEPT ![n] = NoEntry]
    /\ UNCHANGED <<stored, counters, fanout>>

-----------------------------------------------------------------------------
Init ==
    /\ req = [r \in Requests |-> [pc |-> "none"]]
    /\ stored = {}
    /\ counters = [received |-> 0, rejected |-> 0, duplicates |-> 0]
    /\ cache = [n \in Nodes |-> NoEntry]
    /\ fanout = [i \in Ids |-> 0]

Handle(r) ==
    \/ CheckCached(r) \/ Miss(r) \/ CountEvents(r) \/ SetCache(r) \/ CheckFails(r)
    \/ CountReceived(r)
    \/ Reject(r)
    \/ InsertEvent(r)
    \/ CountDuplicate(r)
    \/ Accept(r)

Next ==
    \/ \E r \in Requests, n \in Nodes, i \in Ids, valid \in BOOLEAN : Arrive(r, n, i, valid)
    \/ \E r \in Requests : Handle(r) \/ Fail(r)
    \/ \E n \in Nodes : Expire(n) \/ Crash(n)

Spec == Init /\ [][Next]_vars

-----------------------------------------------------------------------------
(* Properties *)

Places ==
    InHandler \cup {"refused", "rejected", "duplicate", "accepted",
                    "failed", "failed_received", "failed_stored"}

RequestState ==
    [pc : {"none"}]
        \cup [pc : Places, node : Nodes, id : Ids, valid : BOOLEAN, usage : Nat]

TypeOK ==
    /\ req \in [Requests -> RequestState]
    /\ stored \subseteq Ids
    /\ counters \in [{"received", "rejected", "duplicates"} -> Nat]
    /\ cache \in [Nodes -> CacheEntry \cup {NoEntry}]
    /\ fanout \in [Ids -> Nat]

At(places) == {r \in Requests : req[r].pc \in places}

\* The requests that submitted id i and stand at one of the places.
Of(i, places) == {r \in At(places) : req[r].id = i}

\* Where a request stands once its insertEvent has stored a new event.
HasStored == {"inserted", "accepted", "failed_stored"}

\* An event is broadcast and handed to the webhooks at most once, however
\* many requests, on however many nodes, submit its id; and only if stored.
FannedOutOnce ==
    \A i \in Ids : fanout[i] <= 1 /\ (fanout[i] = 1 => i \in stored)

\* For every stored event there is one request that stored it, so at most
\* one that may fan it out.
StoredByOne ==
    /\ \A i \in Ids : Cardinality(Of(i, HasStored)) = IF i \in stored THEN 1 ELSE 0
    /\ \A i \in Ids : fanout[i] = Cardinality(Of(i, {"accepted"}))

\* Where a request stands that is counted as received and as nothing else.
Unaccounted == {"received", "known", "failed_received"}

\* The counters of GET /metrics add up: what was received is stored, known,
\* rejected, still in the handler or lost to a failure.
CountersBalance ==
    counters.received = Cardinality(stored) + counters.duplicates + counters.rejected
                        + Cardinality(At(Unaccounted))

\* The inductive invariant behind FannedOutOnce and CountersBalance.
IInv ==
    /\ TypeOK
    /\ IsFiniteSet(stored)
    /\ StoredByOne
    /\ FannedOutOnce
    /\ CountersBalance
=============================================================================
