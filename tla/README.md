# Agent Event Protocol: verification

TLA+ models of the Agent Event Protocol, the TLC runs that check them on small
instances, and TLAPS proofs of what matters most for every value of the
constants. Paths are relative to the repository; `server.js` and the like are
under `src/src/`, `instrument.ts` under `src/sdks/node/src/`.

## 1. The system

Agents post events (`POST /events`) to an ingest server. The server checks the
API key, a rate limit and a quota, verifies signature and schema, stores the
event, keeps a summary row per session, pushes the event to open dashboards
(SSE) and fans it out to the tenant's webhooks. Two batch jobs run beside the
server as processes of their own: the retention job (`prune.js`) and the export
to cold storage (`export.js`). Storage is SQLite (synchronous, one process file
lock) or PostgreSQL (a pool of connections, READ COMMITTED). People use the
command line tool and the read endpoints; agents use an SDK, of which the Node
one instruments LangGraph programs by itself.

| Component | State | Operations | What makes it correct |
|---|---|---|---|
| Event store (`db/backends/`) | tables `events`, `sessions` | `insertEvent`, `pruneEventsBefore` | one row per id; `sessions` is a faithful summary of `events`; an answer is never taken back |
| Ingest pipeline (`server.js`, `middleware/quota.js`) | request in progress, `server_metrics`, quota cache | the `POST /events` handler | a stored event is fanned out at most once; counters add up |
| Webhook delivery (`webhookDelivery.js`) | semaphore, deliveries, `webhook_deliveries` | dispatch, sign, post, retry, record | slots accounted, no lost wakeup, every delivery ends, the log is true |
| Retention and export (`retention.js`, `prune.js`, `export/`) | pass in progress, objects in the sink | `pruneAll`, `runExport`, `LocalFileSink.write` | nothing is deleted that is not archived; one failure does not stop the pass |
| Start, SSE hub, tickets (`server.js`, `db/migrate.js`) | `schema_migrations`, `sseClients`, `sseTickets`, timers | `init`, migrations, drain; `/auth/sse-ticket`, `/stream`, `broadcastSse` | nobody serves on an old schema; limits kept, slots given back, a ticket used once |
| Keys, projects, webhooks, saved queries (`auth.js`, `server.js`) | their tables | create, update, revoke, delete | what is answered was done; a revoked key opens nothing that a stranger may not open |
| Command line (`cli.js`) | the request, its socket and idle timer, the output file | every command that talks to a server | exit code 0 says the truth; a command ends |
| Reads (`server.js`, `workflowGraph.js`, `audit.js`, `compliance.js`, `analytics.js`, `performance.js`, `anomalies.js`, `customQuery.js`) | cursors held by clients | pagination, trees, graphs, bundles, reports, queries | pages neither lose nor repeat rows; bundles and counts are what was stored; numbers agree |
| Node SDK (`instrument.ts`) | patches, table of runs, emit queue | `instrument`, callbacks, drain loop | events form one tree per trace; order kept; runs reported once |
| Rate limit (`middleware/rateLimit.js`) | a window per key | `ingestRateLimit`, sweep | the ceiling holds |

The components meet in the database (server processes and jobs share nothing
else), in the ingest handler (quota cache, store, SSE and webhooks are called
from it), in the sink (both jobs write objects to it) and over HTTP.

What is hard here: two or more processes on one database; statements of
concurrent transactions that see different snapshots; Node's interleaving of
callbacks at every `await`, with microtasks running before I/O; crashes between
storing and telling; retries by emitters (same id again) and of webhook posts
(answer lost after acceptance); reads of several pages or queries while the
store changes; callbacks of a framework in orders the code does not choose; time
used as a name (object keys) and as text (event times). `PROJECT.json` lists
each hazard with its line and the properties that cover it.

## 2. Modules

| Module | Models | Proofs |
|---|---|---|
| `EventStore` | `insertEvent` and `pruneEventsBefore`, one step each: the SQLite backend, and the abstract specification of the PostgreSQL one | `Storage_proofs` |
| `PgEventStore` | the same on PostgreSQL, one step per statement | `Storage_proofs` |
| `IngestPipeline` | the `POST /events` handler from the quota check to the answer | `IngestPipeline_proofs` |
| `WebhookDelivery` | the delivery engine with its semaphore | `WebhookDelivery_proofs` |
| `RetentionExport` | the retention job with the export gate, and the export job | `RetentionExport_proofs` |
| `Gateway` | processes from start to exit: migrations, event streams, tickets | `Gateway_proofs` |
| `Registry`, `Cli` | requests over keys, projects, webhooks and queries; the command line tool that sends them | `Cli_proofs` |
| `Instrument` | the Node SDK's auto-instrumentation | `Instrument_proofs` |
| `TelemetryChannel` | what `Instrument` promises of the events it builds (abstract) | |
| `Workflows`, `Query`, `Reports`, `Audit` | pure computations: trees and graphs, custom queries, built-in reports, bundles and compliance status | |
| `Reads` | the read endpoints over a changing store, composing the four | `Reads_proofs` |

Each specification `M` is run through `MCM`, which holds the small instance.

**EventStore.** `events` is the set of rows of the table, `sessions` a function
from session id to its summary row or `NoRow`. `InsertEvent` is `INSERT OR
IGNORE` on the id followed by the upsert, `PruneEventsBefore` the delete with
the two clean-up statements. Timestamps are compared as text by the code, so a
timestamp is its rank in that order. `MayUse` says which tenants' emitters use
which session ids: ids are chosen by the emitters, and the schema does not keep
two tenants apart.

**PgEventStore** extends it. `ins[w]` is the transaction of connection `w`,
`prune` the one of the prune job, `lock` the row locks, and `events` and
`sessions` are what is committed. A statement that waits for a row goes on with
the row's new version and with its own snapshot of other tables. This and the
unique key are the assumptions about PostgreSQL (marked external in the map).
`ImplementsEventStore` is `EventStore`'s behaviour, in which the prune's commit
may stand for `PruneEventsBefore` with whatever it has computed: the inserts
implement their abstract step, the prune does not (section 5).

**IngestPipeline.** `req[r].pc` follows one request through its `await`s; its
end state remembers what had been done. `stored` abstracts the events table to
ids, the cache to one project with usage and freshness. The schema and signature
checks are the parameter `valid` of the request.

**WebhookDelivery.** A step is the code between two awaits. `NoMicrotasks` and
`DbAnswers` are the event loop: continuations run before the next network
answer or timer, and a query's answer is a continuation with SQLite and a
network answer with PostgreSQL (`SyncDb`). The semaphore is modelled as
written: `release` resolves the first waiter and the waiter counts itself when
it runs again (`woken`).

**RetentionExport.** One clock gives the events' times, the cutoffs and the
second in an object's key. The sink's write first truncates and then fills, so
an object is open and empty in between. `FreshKeys` separates two questions:
what the gate guarantees when object keys do not collide, and what a collision
does. `Ingest` stores an event of any time in `Times`, whatever the clock says:
`POST /events` takes the time from the emitter. `arrived`, `late` and `gap` are
history: the events stored since the pass began, those since the last export read
its window, and those of them that the delete then removed.

**Gateway.** `applied` and `ran` are the database's, `phase[p]` and `seen[p]` each
process's. (This is the SQLite runner, `migrate.js`; the PostgreSQL backend runs
`SCHEMA_DDL` with `CREATE ... IF NOT EXISTS` and keeps no versions.) A process reads the applied versions once and then runs one
transaction per version it believes pending: the primary key of
`schema_migrations` turns away the second of two processes, whose start then
fails. Streams and tickets are modelled for one process, `Me`; requests are
handled without an `await` and so are one step. A connection that is `"gone"`
has broken without the server having heard of it.

**Registry and Cli.** `at[c]` is how far the handler of client `c`'s request is;
between two of its steps all others run. `req`, `seen` and `status` are its
request, the row it has read and its answer. `OpenReads` are the clients
whose server has no dashboard token and is not in production: there a read whose key
is missing, wrong or revoked goes on as anybody's. `done`, `asked` and `torn` are
history. `Cli` adds the tool's side: `cl[c]` the state of the command, `armed` the
idle listener of each request of it (a keep-alive socket may be shared), `wire`
the connection. A request goes on in the server after its client has given up,
and a client sends nothing twice. Rows are named by the client whose request
inserts them, as ids and keys are random.

**Instrument.** JavaScript between two awaits is one step. `table` is
`EmissionCore.runs` in its insertion order, `log` the events built, of which only
type, run, session, trace and cause are kept; `queue` and `posting` are the
emitter's. `hears[r]` is which cores' handlers a run's callbacks reach, decided
by the patched methods when the run starts and inherited by its children. The
framework starts and ends runs in any order, children after parents only at the
start. `ImplementsChannel` is `TelemetryChannel` with `fate` mapped to what can be
said of an event: pending, received, unknown after a timeout, or lost.

**Reads.** `reader` is the one request or walk in progress; inserts and prunes run
between its pages and queries. A page is the query's `WHERE`, `ORDER BY` and `LIMIT`,
the cursor the last row's key. A bundle of one query is built from one moment, a
compliance report reads metrics, policy events and bundle at several. `sessions` is the
table with the columns that reads use: the row is made by the first event that is
stored, keeps that event's tenant, trace and parent, and later events move its last
activity only; a prune drops or recounts the rows of its tenant. Nothing keeps a
session id to one tenant or trace. `stored` and `known`, `listed` and `named` are
history: what was there throughout a request, and what was there at any time.
`getMetrics` is one step per query: so PostgreSQL runs it, on a pool without a
transaction; SQLite awaits once in between, and its interleavings are among those. `Workflows` has the recursive descendants query round by round,
`buildTree`, `getWorkflow` and `buildWorkflowGraph`: a node of a tree is the path
to it, a level of the tree is one call deep in `buildNode`, and nothing is
declared recursive. What the trees are compared with is said without steps:
`Below` is a least set closed under children, `Cyclic` a greatest one closed under
parents. `Query` validation and
evaluation of user-defined queries; `Reports` the built-in ones, with error rates
counted in parts of `RateScale` to stay in the integers and breakdowns counted as plain
objects count (`Tally`); `Audit` bundles under an
ideal hash (the digest of a sequence is the sequence) and an ideal HMAC.

## 3. Runs

Every run finishes within two minutes or so. "Violation" runs state what a
document or comment of the repository says and show the code doing otherwise.

| Run | Instance | Shows |
|---|---|---|
| `EventStore_shared` | 4 ids, 2 tenants, 2 sessions, one of them shared, 3 times | summaries stay exact, `started_at` is of a stored event, only own events move a row; `IInv` contains `NoPhantomSummary` |
| `PgEventStore_stmts` | 2 connections, 2 ids, 1 session, 2 times, the prune job | inserts implement `EventStore`; the isolation they rely on; answers are not taken back; the recount meets no empty session; nobody waits in a circle; every transaction ends |
| `PgEventStore_orphan` (violation) | the same with 2 sessions | an event without a session row |
| `IngestPipeline_once` | 3 requests, 2 processes, 2 ids, quota 2 | fanned out at most once; counters balance |
| `WebhookDelivery_slots` | 3 events, 1 webhook, 1 slot, 1 retry, PostgreSQL | slots and waiters accounted, no lost wakeup, the bound, a true delivery log, every delivery ends |
| `WebhookDelivery_barge` (violation) | 2 events, 2 webhooks, 1 slot, no retry, SQLite | one delivery more than the bound |
| `RetentionExport_gate` | 2 tenants, 3 projects (one keeps for ever), 2 ids, events older and newer than the cutoffs stored at any moment, both jobs | the gate holds but for the gap; a pass is complete |
| `RetentionExport_slug` (violation) | 2 tenants with one slug, 2 ids, 4 instants, the prune alone | an archive overwritten after the delete |
| `Gateway_streams` | 2 processes, 2 migrations, 3 clients, 1 ticket, 2 tenants and the dashboard, limits 2 and 1 | the schema is complete before anybody is served; slots are the streams; a ticket lets in one; slots come back |
| `Cli_commands` | 2 commands of every kind, one of them sent to a server where reads are open, a key and a webhook to begin with | exit code 0 is true; one deletion is reported once; a revoked key opens nothing but open reads; PATCHes that do not overlap are kept; commands end |
| `Instrument_runs` | 2 runs, 2 cores, 1 table entry, a queue of 1 | one tree per trace; runs accounted and reported once; the channel; the emitter rests |
| `Reads_served` | 3 worlds for walks and bundles, one of them for the counts too, all reachable subsets of these and of 4 more for trees, queries and reports | walks are exact; bundles are true and covered edits are found; trees are complete; queries and reports add up; counts fit |

**Bounds.** Two ids and two writers give every pairwise conflict (same id, same
session, both, neither); `EventStore_shared` has four ids so that a session can
lose some events and keep others while another session of the same tenant and
the other tenant's rows stand by. Two times are early and late, which is all a
cutoff tells apart. `PgEventStore_stmts` has one session row; that a prune which holds
several waits in no circle is the theorem `NobodyDeadlocks`. One slot with three deliveries gives a queue of two and a
newcomer. Two instants of clock after the start are enough for an event to
expire and for two exports to fall into the same or different seconds; the event
times (`Times`) are two, of which one pass's cutoff has one behind it and the next
pass's both, so that either may be stored backdated at any point of a pass. Three
clients exceed a limit of two while one of them is gone and not yet heard of. Two
runs are a parent and a child, or two roots; the table and the queue of one entry
overflow at once. The worlds of `MCReads` were chosen for ties in time, a
subagent's session, a second tenant, parents that form a cycle or are in another
trace, a session id that two traces and two tenants use, inherited names as keys, ends of operations
that are doubled, misplaced or early, and nested values of every kind.
`MaxCount` (in `MCEventStore`, and a constant of `PgEventStore`) bounds counts that
the code lets grow, `MaxNow` the clock, `MaxObjects` (in `MCRetentionExport`) the
objects of one history, `MaxCalls` the overlapping calls of `instrument()`. What
lies beyond the bounds is the business of the proofs.

**Deadlock** is checked where the system should always be able to go on.
`IngestPipeline`, `WebhookDelivery_slots`, `Cli_commands` and `Instrument_runs` have
finitely many requests, deliveries, commands and runs and really stop.

**Fairness.** `PgFairness`: a statement of an open transaction is executed in
the end, and PostgreSQL hands a row or key to its waiters (strong fairness: its
lock queues are first come, first served). Nothing obliges anybody to begin, and
a transaction may fail at any step. In `WebhookDelivery` the microtask queue is
run, a POST is answered or times out (`timeoutMs` is always set), timers fire,
queries return; a crash ends the deliveries of its process, since the in-memory
queue is gone and nothing resumes it. In `Gateway` only Node's `'close'`
event is promised for a stream that was ended. In `Cli` the idle timer fires and
a broken connection is noticed, and nothing is promised of server or network. In
`Instrument` a POST is answered or aborted after `timeoutMs`.

## 4. Proofs

The theorems are about all values of the constants; what they assume about them
is the `ASSUME` of each module (finite sets of requests, times that are natural
numbers, and the like) and, where it says so, one more assumption in the
theorem itself.

`Storage_proofs`, first part (`EventStore`), for any ids, tenants, sessions, times and `MayUse`: the
inductive invariant (`StoreInvariant`), and from it `SummariesAlwaysExact`,
`StartedAtAlwaysStored`, `NeverAPhantom`, and the action properties
`OnlyOwnEvents` and `LastActivityNeverBack` (the last is proved only, no run checks it). The strengthening: rows and events
sit in sessions that their tenants may use (`Entitled`), so that a session used
by one tenant has a row of that tenant; and the set of events is finite, without
which `Cardinality` says nothing. The argument for the prune is by cases on a
session: untouched, emptied, or recomputed, where the remaining events' `Min`
and `Max` exist because the set is not empty and bounded by the old
`updated_at`.

`Storage_proofs`, second part (`PgEventStore`), for any number of connections, with or without a prune:
`PgInvariant`. `InsertsIsolated` is the heart of it: while a transaction is
open, its id and its session row belong to it, and the row that it computed is
still the one that its upsert would compute. `EmittersEntitled` and
`PruneLocks` are the other half, the prune's: it writes only rows it has locked.
`NobodyDeadlocks`: an insert that holds a row is about to commit (`HoldersCommit`), so
in any set of transactions there is one that waits for none of them, whatever number
of rows the prune has locked and in whatever order.
For the proof one adds that the events are finite and their times bounded.
`AnswersAreKept` and `RecountsFindEvents` follow, and the refinement
`InsertsImplementEventStore`: an insert's commit is `InsertEvent`, since the row
that it publishes is the upsert of the committed row by the invariant, and every
step but the prune's commit stutters. `ConcurrentInsertsExact` carries the
summaries' exactness over from `EventStore`, for `Cutoffs = {}`, that is without a
prune; with one it is false (`PgEventStore_orphan`).

`IngestPipeline_proofs`, for any finite number of requests and any processes,
ids and quota, crashes included: `IngestInvariant`, `AtMostOneFanOut` and
`CountersAlwaysBalance`. The strengthening is `StoredByOne`: to each stored id
belongs exactly one request that stored it, so one at most can fan it out. The
proof counts: a step moves one request across the border of one counted set, or
of none (`MoveAt`, `MoveOf`, `QuietStep`), and a crash moves many requests
between places that no set tells apart.

`WebhookDelivery_proofs`, for any finite sets of events and webhooks, any number
of slots and retries, and either backend: `SemaphoreIsAccounted`,
`WakeupsAreNotLost` and `OutcomesAreTrue`. The invariant counts the holders of
slots against `active` and ties the queue to the deliveries that wait, each once.
`ConcurrencyIsBounded` assumes `SyncDb = FALSE`: only then does no new delivery
reach the semaphore between a `release` and the continuation of the waiter it
woke, because the answer that the newcomer needs is a network answer. With
SQLite it is false (`WebhookDelivery_barge`).

`RetentionExport_proofs`: `PassesAreComplete`, for any tenants, projects and
windows and with no assumption about keys. A window that the pass has emptied
holds afterwards only what was stored since the pass began (`arrived`). Under
`FreshKeys`, `GateInvariant` and `NoUnbackedLoss`: the object that
a job is about to open does not exist and the one it is filling is empty and its
own (`KeysApart`), hence no write loses anything, and what the delete removes is
what was read, which is what the object holds (`GateHolds`), or was stored after the
export read the window (`late`). An event of the latter kind is backdated: its time
lies before the cutoff of a pass that is going on. The code deletes it unarchived;
`retention.js:85` and `OPERATIONS.md:730` name this as the one gap, and the theorem
says that there is no other. Without `FreshKeys`
it is false (`RetentionExport_slug`).

`Gateway_proofs`, for any numbers of processes, migrations, clients, tickets and
any limits: `SchemaComesFirst`, `HubIsAccounted` and `TicketsAreUsedOnce`. The
invariant falls into a part for the schema (what a process takes for applied is
applied), one for the tickets and one for the hub (a taken slot is one of a stream
that is not closed, under its own tenant).

`Instrument_proofs`, for any number of runs, cores and calls and any caps:
`EventsFormTrees`, `RunsAreAccounted`, `RunsAreReportedOnce`, and the refinement
`EmitterImplementsChannel`. The core's invariant (`CorePart`) says that what the
table remembers of a run is in the log (`Remembers`) and that the log speaks of a
run only after its start and of its end only after its end; then each new event
is a sound continuation of the log (`Fits`) and the counts of openings, ends,
tracked and evicted runs stay in balance. The emitter's (`Ordered`) says that one
event at most is posted, what waits is younger than it and older events are
settled; hence a drain settles the oldest pending event and everything else is an
offer, a late arrival, the end of the process, or a stutter.

`Cli_proofs`, for any number of commands, keys, webhooks and queries:
`ExitsAreTrue`, `RevocationsHold`, `DeletionsAreTold`, `UpdatesAreKept`. Every
step is the server going on with one request (`Serves`), the tool sending one
(`Sent`), or a step of the tool that the server does not see (`Quiet`), so each
invariant is kept by three lemmas. `ToolPart` ties the tool's place to its
request's; `DeletePart` says that a deleted row stays away, because nobody can
insert its name again; `RevokePart` that a key whose revocation was answered is
revoked, so a request that was sent later (`Barred`) is either still to be looked
up or already refused, unless it is a read and reads are open (`Doomed`); `ExitPart` that an answer taken for success is the answer
of a commit, for a PATCH because the row it looks up again has kept its tenant.
The assumption (`RegistryAssumption`) is that inserted rows have names of their
own and that tokens are no rows.

`Reads_proofs`, for any worlds, page size, words, cutoffs and interleaving of
inserts and prunes with pages and queries: `TypeInvariant`,
`TreesAreAlwaysComplete`, `WalksAreAlwaysExact`, `BundlesAreAlwaysTruthful`,
`QueriesAlwaysAddUp`, `ReportsAlwaysAgree` and `MetricsAlwaysFit`. All rest on an
invariant of the store (`StoreInv`): the rows of `sessions` are finitely many, have
ids of their own, and each was made by some event that emitters send.

- *Trees* (`TreeCoversRows`, `ForestCoversRows`, `DepthOfRows`), for any finite
  set of session rows, however their parents refer to each other. Recursion is
  on a bounded number of rounds, so the recursive functions exist
  (`RecursionExists`) and induction over the naturals reaches them. A round that
  meets an earlier one makes the session its own ancestor (`RoundsRepeat`), and
  more rounds than sessions must meet (the pigeonhole principle): the query ends
  unless there is a cycle. No session comes twice on a path from a root
  (`PathsAreSimple`), because each has one parent and a root has none within the
  rows; so the levels of a forest end, and each session outside `Cyclic` has one
  node (`OneNodeEach`), whose path is exactly what is above it (`PathIsAbove`).
- *Walks.* `WalkInv`: what has been returned is in order and not after the cursor,
  rows that kept their place were returned at that place only, and all of them
  that the cursor has passed were returned (`NoneLeftOut`). An insert or a prune
  can only shrink `kept`; a page adds the first rows after the cursor, and that
  there are such first rows (`FirstRowsExist`) is induction over a finite set.
- *Bundles.* `BundleInv`: what has been read was stored at some time, is of the
  tenant and in a session that the scope named; and every event that stayed, in a
  session that stayed in the scope, is read already, has its session among those
  still to be read, or is under a parent cycle as the scope was read (`hidden`).
  Where session ids keep to one tenant and trace (`Plain`), a stored event of the scope has a
  session row in the scope, which turns this into the statement about the scope
  itself. For the edits: `SortedIsSorted` says that the bundle's sequence lists each
  event once, so that another order shows in the ids; a field that is changed, an
  event that is dropped, a manifest that does not fit and another secret each break
  one of the equations that the verifier tests. The edits that it does not test, the
  transport signature of an event and the absence of the version field, are
  `Unnoticed`, and the theorem says that they verify (`SignatureIsNotCovered`).
- *Queries* (`QueryAddsUp`, `FiltersSplit`), for any finite set of events. The rows
  of a query list each group once (`SortedRows`), so the counts of the first rows
  add up to the events of their groups (`FirstRowsCount`); when rows are cut, the
  first group past the limit has an event that they do not count. A filter matches
  an event iff its negation does not (`NegatedMatch`), whatever the field holds.
- *Reports* (`PolicyOfEvents`, `PerformanceOfEvents`, `SpikesStandOut`),
  likewise. Each breakdown is a sum over groups (`ValuesAddUp`) except for inherited
  keys (`TallyAddsUp`); start ids are unique, so an end is one operation at most
  (`OneOpPerEnd`); the rank of a percentile is the least that has enough samples
  at or below it (`RankBounds`); at most half of the values lie above the middle
  of the sorted ones (`MedianIsMiddle`), and a score over the cutoff puts a value
  above it, with either scale (`ExceedsIsAbove`).
- *Counts.* `MetricsInv`: each count taken so far lies between what was stored
  throughout and what was stored at any time; the first only shrinks and the second
  only grows (`WindowsGrow`). If the two are equal at the end, the events were the
  same at each query; the session rows are then the same too, since only a change of
  the events changes them, and one store's counts fit (`MetricsOfStore`): a forest is no
  deeper than it has sessions, since its levels come to an end (`TreesEnd`).

They assume of the worlds what the code establishes: the fields of an event are
the columns of its row; its id, time, session and trace are places in an order of
texts, hence integers here; ids are unique (the primary key) (`WorldAssumption`).
Nothing is assumed of how emitters use session and trace ids.
`None` is no id and no tenant (`NoneAssumption`: the columns are `NOT NULL`); a
page has at least one row (`PageAssumption`); a query spec is an object whose
filters are a sequence of field, operator and value, and the limits are positive
(`SpecAssumption`: `validateQuerySpec` turns away the rest); the cutoff, the
minimal sample and the scale of rates are natural numbers (`ReportAssumption`);
and the editor of a bundle does not know the secret (`SecretAssumption`).

Model-checked only: liveness under fairness, which depends on `ENABLED` and is
out of the proof system's reach (`TransactionsEnd`, `DeliveriesEnd`,
`SlotsComeBack`, `EmitterRests`, `CommandsEnd`), and the findings. Every invariant
and every step property that a passing run checks is a theorem.

## 5. Findings

Three runs show the code do other than a document or comment says
(`PROJECT.json` quotes the lines):

- `PgEventStore_orphan`: under PostgreSQL an event is left without a session row.
- `RetentionExport_slug`: an archive is overwritten after its events are deleted.
- `WebhookDelivery_barge`: one delivery in flight over the bound, with SQLite.

In five more places a document or comment says what the code does not do. The
properties state what the code does, each with the exception that the words leave out:

- Revoked keys. `docs/QUICK_REFERENCE.md:321` and `AUTH.md:145`: "Subsequent requests with the
  revoked key receive HTTP 401". Where no `DASHBOARD_TOKEN` is set outside production,
  `requireReadAccess` (`auth.js:295`) passes over such a key and answers the read as
  anybody's, with 200. `RevokedRefused` excepts reads there (`OpenReads`).
- Bundles and traces. `server.js:684`: "A bundle must hold ALL events for the trace to be
  verifiable". A session's row keeps the trace of its first event (`sqlite.js:111`), so
  the later events of a session that moves to another trace are missing from that
  trace's bundle and are in the first one's. `BundlesAreTruthful` speaks of the sessions
  that the scope named, and of the trace only where no session spans two (`Plain`).
- Depth. `_helpers.js:63`: "Groups sessions by trace_id, builds a tree per trace". The
  code links a session to its parent in whatever trace, so the depth may be more than
  that of any trace's tree. `DepthIsLongestChain` is about chains across traces.
- Breakdowns. `analytics.js:24`: "every event is counted exactly once and the breakdown
  totals always equal `total`". `bump` counts in a plain object: a policy, action or
  source named `constructor` turns its count into a string, one named `__proto__` is
  lost. `PolicyAddsUp` excepts the names that every object inherits.
- Digests. `audit.js:16`: "Mutating any event byte [...] changes this digest". The event's own
  transport signature is left out of it (which `audit.js:62` intends) and not compared
  with `per_event_signatures` either; and `aep_audit_version` is compared only if it is
  there (`audit.js:343`). `TamperEvident` says that these edits verify (`Unnoticed`) and
  the others do not.

Noticed while modelling, with no run of their own:

Storage and ingest
- `db/backends/sqlite.js:117` counts every tenant's events into a shared session,
  the prune (`sqlite.js:486`) recounts one tenant's; so the aggregates of a
  session that two tenants use are neither's. `SummariesExact` is therefore
  stated of sessions with one tenant.
- `sqlite.js:95` ignores on the event id only, `SETUP.md:147` promises
  deduplication by `idempotency_key`.
- `sqlite.js:340` and `MAX`/`MIN` compare timestamps as text; with UTC offsets
  that is not their order in time (`001_initial_schema.js:21`).
- `middleware/quota.js:97`: a refresh of the usage that reads an event before its
  request has counted it counts it twice, so one event is refused early until the
  next refresh, although `quota.js:20` calls the check correct in between.
- `middleware/rateLimit.js:6` calls the fixed window "equivalent protection" to a
  sliding one; two bursts on both sides of a boundary pass twice the limit.
- `db/index.js:78`: a second `init()` before the first has resolved opens a second
  backend.

Serving
- `webhookDelivery.js:396` sends unsigned when the secret cannot be read,
  `OPERATIONS.md:600` says that deliveries are signed.
- `server.js:1452`: the heartbeat sets `lastActivityAt` every 15 seconds, so the idle
  timeout of 90 never fires while writes succeed.
- Shutdown waits for open streams, which end only when their clients go; the timer of
  `server.js:1979` then forces the exit.
- A request that was authorised before a revocation may still commit after it
  (`RevokedRefused` is about requests sent later), and of two concurrent
  `DELETE /admin/keys/:id` both may answer 200.
- `postgres.js:1054`: of two overlapping PATCHes of one webhook the later write puts
  back what the earlier changed; `UpdatesKept` excepts those (`torn`).

Command line
- `aep webhooks create` prints the one-time `signing_secret` only with `--json`
  (`cli.js:1338`, `cli.js:1574`).
- `aep admin keys list` reads `k.tenant_id` and `k.created_at` (`cli.js:1651`); the
  server answers in camel case (`server.js:1729`).
- `aep init` loses the minted key when its last step fails.

Reads
- The recursive descendants query (`sqlite.js:191`, `postgres.js:530`) is `UNION ALL`
  without a bound on depth and does not end for a session below a cycle of
  parents; its recursive part does not look at the tenant.
- Sessions on a cycle of parents are missing from the workflow tree and bundle,
  which a comment acknowledges (`server.js:692`).
- A walk over sessions misses those that become active during it (they move to the
  front), and a row that is pruned and created again with an older time can be
  returned twice. `WalksAreExact` speaks of what stays put.
- A compliance report's evidence is read at different instants, and so are the counts of
  `GET /metrics`: under load they need not fit together. `MetricsFit` says what is
  still true of them.
- `computeMaxDepth` descends below 1001 sessions and no further
  (`_helpers.js:86`), so a longer chain is reported as 1002 deep.

Instrumentation
- Overlapping calls of `instrument()` leave a patch behind that `uninstrument()` does
  not remove; it is without effect as handlers are injected by the current core
  only.

## 6. Not modelled, and why

- **Rate limit**: one counter per key, read and written in one callback without an
  `await`, in one process's memory. There is no interleaving to check, and the sum
  over a window is a statement about wall-clock time.
- **Tiers and regions**: labels and defaults; quota and retention enter as
  constants.
- **Canonicalization, signatures, schema validation, URL checks**: stateless
  functions of characters and bytes. Their outcomes are parameters (`valid`,
  `Refuse`) or ideal functions (`Audit`); the conformance vectors under `tests/` say
  more about them than a bounded enumeration would.
- **Export encoders and the S3 sink**: formatting and one library call, which
  replaces an object in one step.
- **Errors, logging, dashboard page, PDF and CSV rendering**: wording and layout.
- **Python and Go SDKs**: HTTP clients. What they may do to the server, posting an id
  again, is in `EventStore` and `IngestPipeline`; the asynchronous queue of theirs is
  the one of the Node SDK in simpler form.
- **Kubernetes operator, OpenTelemetry bridge**: separate Go programs whose promises
  are those of the API server's optimistic concurrency and of the collector.
- **Metrics and access log**: the persisted counters are in `IngestPipeline`;
  histograms and the best-effort log are not.

Within modelled parts: operators `prefix` and `contains`, aggregations `sum`, `avg`,
`min` and `max`, severities and windows over `started_at` are left out of `Query` and
`Reports`; free-text search is equality with a word; compliance reports have a trace
as scope and leave out `agent_role` and `subject`; counts over a window of time, for
which the depth is left out by the code, are left out; breakdowns by action are counted
like those by policy; stored times parse and are ordered as their texts are. The
deletion of saved queries by two clients at once, and an idle listener that would fail
a later request early, are in the models and no property speaks of them. The upgrade of a schema
by `up()` is one atomic step, as its transaction makes it.

What would come next: `IngestPipeline` over `PgEventStore` instead of a one-step
store; `RetentionExport` over the statement-level prune; the operator's reconcile
loop.
