-------------------------- MODULE RetentionExport --------------------------
(***************************************************************************)
(* The retention job with its cold-storage gate, and the export job that   *)
(* writes to the same sink: pruneAll (src/retention.js, run by             *)
(* src/prune.js), runExport (src/export/index.js) and the local file sink  *)
(* (src/export/sink.js).  Both jobs are processes of their own that run    *)
(* beside the server; every await of theirs ends a step, and a process may *)
(* die or a read or a write may fail at each.                              *)
(*                                                                         *)
(* Time is one clock, `now`.  Cutoffs and the second that names an archive *)
(* object are readings of it, and event times are any Times around it: what*)
(* matters is their order and which exports fall into one second.          *)
(***************************************************************************)
EXTENDS Integers, FiniteSets

CONSTANTS
    Ids, Tenants, Projects,
    TenantOf,       \* project -> the tenant its retention applies to
    RetentionDays,  \* project -> retention window; 0 is "keep forever"
    Slug,           \* tenant -> slugifyTenant(tenant)
    FreshKeys,      \* no two exports fall on one object key, see Fresh
    ExportJob,      \* the standalone export job runs too
    Times,          \* the times that events carry
    MaxNow          \* bound of the clock

Clock == 0..MaxNow
Event == [id : Ids, tenant : Tenants, time : Times]
Slugs == {Slug[t] : t \in Tenants}
Keys  == Slugs \X Clock

ASSUME RetentionAssumption ==
    /\ TenantOf \in [Projects -> Tenants]
    /\ RetentionDays \in [Projects -> Nat]
    /\ DOMAIN Slug = Tenants
    /\ {FreshKeys, ExportJob} \subseteq BOOLEAN
    /\ Times \subseteq Int
    /\ MaxNow \in Nat

VARIABLES
    now,
    events,     \* table events
    deleted,    \* the events that a prune has deleted
    archive,    \* the sink: object key -> the events in the object
    job,        \* the prune job
    export,     \* the standalone export job
    \* History, for the properties:
    arrived,    \* the events stored since the pass began
    late,       \* those stored since the project's export read its window
    gap         \* the late events that a prune has deleted

history == <<arrived, late, gap>>

vars == <<now, events, deleted, archive, job, export, history>>

Idle == [pc |-> "idle"]

-----------------------------------------------------------------------------
(* What surrounds the jobs *)

Tick ==
    /\ now < MaxNow
    /\ now' = now + 1
    /\ UNCHANGED <<events, deleted, archive, job, export, history>>

\* The pass has read a window and not yet deleted it.
Between == job.pc \in {"read", "writing", "exported"}

\* POST /events stores an event with whatever time its emitter gave it: the
\* present, a time behind a cutoff, one to come.  (An id that a prune deleted
\* may come again in the code; Ids bounds the events of a behaviour.)
Ingest(i, t, time) ==
    LET e == [id |-> i, tenant |-> t, time |-> time] IN
    /\ \A d \in events \cup deleted : d.id # i
    /\ events'  = events \cup {e}
    /\ arrived' = IF job = Idle THEN arrived ELSE arrived \cup {e}
    /\ late'    = IF Between THEN late \cup {e} ELSE late
    /\ UNCHANGED <<now, deleted, archive, job, export, gap>>

-----------------------------------------------------------------------------
(* runExport for one tenant: name the object, read the events, open the    *)
(* object (which truncates one of the same key), write it.                 *)

\* getEventsForQuery with { until }.
Window(t, until) == {e \in events : e.tenant = t /\ e.time < until}

\* buildObjectKey: the tenant's slug and the second in which runExport began.
ObjectKey(t, second) == <<Slug[t], second>>

Writing(j) == j.pc \in {"read", "writing"} \/ (j.pc = "exported" /\ j.evs # {})

\* Tenants with one slug, jobs started by the same cron minute, or two passes
\* in a row may choose one key in one second; with FreshKeys they do not.
Fresh(key) ==
    FreshKeys => /\ key \notin DOMAIN archive
                 /\ \A j \in {job, export} : Writing(j) => j.key # key

Write(key, evs) ==
    archive' = [k \in DOMAIN archive \cup {key} |-> IF k = key THEN evs ELSE archive[k]]

Open(key) == Write(key, {})

-----------------------------------------------------------------------------
(* pruneAll with exportBeforePrune *)

Prunable(p) == RetentionDays[p] > 0

Cutoff(p) == job.now - RetentionDays[p]

\* listProjects; the reference time of all cutoffs is taken once, and the
\* projects that keep their events forever are passed over (isPrunable).
StartPrune ==
    /\ job = Idle
    /\ job' = [pc |-> "next", now |-> now, failed |-> {},
               todo |-> {p \in Projects : Prunable(p)}]
    /\ UNCHANGED <<now, events, deleted, archive, export, history>>

\* exportTenant is called; runExport's `now` is the time of this call.
CallExport(p) ==
    /\ job.pc = "next"
    /\ p \in job.todo
    /\ job' = [pc |-> "called", now |-> job.now, todo |-> job.todo \ {p},
               failed |-> job.failed, project |-> p, key |-> ObjectKey(TenantOf[p], now)]
    /\ UNCHANGED <<now, events, deleted, archive, export, history>>

\* What runExport goes on with; no object is written for an empty window.
HasRead(evs) ==
    [pc |-> IF evs = {} THEN "exported" ELSE "read", now |-> job.now, todo |-> job.todo,
     failed |-> job.failed, project |-> job.project, key |-> job.key, evs |-> evs]

ReadExpired_EarlierUntil ==         \* mutant: until is off by one
    LET evs == Window(TenantOf[job.project], Cutoff(job.project) - 1) IN
    /\ job.pc = "called"
    /\ evs # {} => Fresh(job.key)
    /\ job' = HasRead(evs)
    /\ UNCHANGED <<now, events, deleted, archive, export, history>>

\* runExport reads the window that the prune will delete.
ReadExpired ==
    LET evs == Window(TenantOf[job.project], Cutoff(job.project)) IN
    /\ job.pc = "called"
    /\ evs # {} => Fresh(job.key)
    /\ job' = HasRead(evs)
    /\ UNCHANGED <<now, events, deleted, archive, export, history>>

OpenObject ==
    /\ job.pc = "read"
    /\ Open(job.key)
    /\ job' = [job EXCEPT !.pc = "writing"]
    /\ UNCHANGED <<now, events, deleted, export, history>>

WriteObject ==
    /\ job.pc = "writing"
    /\ Write(job.key, job.evs)
    /\ job' = [job EXCEPT !.pc = "exported"]
    /\ UNCHANGED <<now, events, deleted, export, history>>

ExportFails_DeletesAnyway ==    \* mutant: the failure is logged, no `continue`
    /\ job.pc \in {"called", "read", "writing"}
    /\ job' = [pc |-> "exported", now |-> job.now, todo |-> job.todo,
               failed |-> job.failed \cup {job.project}, project |-> job.project,
               key |-> job.key, evs |-> {}]
    /\ UNCHANGED <<now, events, deleted, archive, export, history>>

ExportFails_EndsPass ==         \* mutant: the failure ends the whole pass
    /\ job.pc \in {"called", "read", "writing"}
    /\ job' = [pc |-> "next", now |-> job.now, todo |-> {},
               failed |-> job.failed \cup {job.project}]
    /\ late' = {}
    /\ UNCHANGED <<now, events, deleted, archive, export, arrived, gap>>

\* exportTenant rejects: the project's events are not deleted, the pass goes
\* on with the next project.
ExportFails ==
    /\ job.pc \in {"called", "read", "writing"}
    /\ job' = [pc |-> "next", now |-> job.now, todo |-> job.todo,
               failed |-> job.failed \cup {job.project}]
    /\ late' = {}
    /\ UNCHANGED <<now, events, deleted, archive, export, arrived, gap>>

\* pruneEventsBefore(tenantId, cutoff).
DeleteExpired ==
    LET gone == Window(TenantOf[job.project], Cutoff(job.project)) IN
    /\ job.pc = "exported"
    /\ events'  = events \ gone
    /\ deleted' = deleted \cup gone
    /\ gap'     = gap \cup (gone \cap late)
    /\ late'    = {}
    /\ job'     = [pc |-> "next", now |-> job.now, todo |-> job.todo, failed |-> job.failed]
    /\ UNCHANGED <<now, archive, export, arrived>>

FinishPrune ==
    /\ job.pc = "next"
    /\ job.todo = {}
    /\ job' = Idle
    /\ arrived' = {}
    /\ UNCHANGED <<now, events, deleted, archive, export, late, gap>>

\* The process dies, or a query of it throws and ends the pass.
PruneDies ==
    /\ job # Idle
    /\ job' = Idle
    /\ arrived' = {} /\ late' = {}
    /\ UNCHANGED <<now, events, deleted, archive, export, gap>>

-----------------------------------------------------------------------------
(* The export job (src/export.js): runExport over all tenants' events.     *)

\* planTenants: the projects' tenants, or with --all-tenants those that have
\* events as well.
StartExport(all) ==
    /\ ExportJob
    /\ export = Idle
    /\ export' = [pc |-> "next", now |-> now,
                  todo |-> {TenantOf[p] : p \in Projects}
                               \cup IF all THEN {e.tenant : e \in events} ELSE {}]
    /\ UNCHANGED <<now, events, deleted, archive, job, history>>

\* No object is written for a tenant without events.
ReadTenant(t) ==
    LET evs == {e \in events : e.tenant = t}
        key == ObjectKey(t, export.now)
    IN  /\ export.pc = "next"
        /\ t \in export.todo
        /\ evs # {} => Fresh(key)
        /\ export' = IF evs = {}
                     THEN [export EXCEPT !.todo = @ \ {t}]
                     ELSE [pc |-> "read", now |-> export.now, todo |-> export.todo \ {t},
                           evs |-> evs, key |-> key]
        /\ UNCHANGED <<now, events, deleted, archive, job, history>>

OpenExport ==
    /\ export.pc = "read"
    /\ Open(export.key)
    /\ export' = [export EXCEPT !.pc = "writing"]
    /\ UNCHANGED <<now, events, deleted, job, history>>

WriteExport ==
    /\ export.pc = "writing"
    /\ Write(export.key, export.evs)
    /\ export' = [pc |-> "next", now |-> export.now, todo |-> export.todo]
    /\ UNCHANGED <<now, events, deleted, job, history>>

\* It ends, or fails, or dies.
EndExport ==
    /\ export # Idle
    /\ export' = Idle
    /\ UNCHANGED <<now, events, deleted, archive, job, history>>

-----------------------------------------------------------------------------
Init ==
    /\ now = 0
    /\ events = {}
    /\ deleted = {}
    /\ archive = [k \in {} |-> {}]
    /\ job = Idle
    /\ export = Idle
    /\ arrived = {} /\ late = {} /\ gap = {}

PruneStep ==
    \/ \E p \in Projects : CallExport(p)
    \/ ReadExpired
    \/ OpenObject
    \/ WriteObject
    \/ ExportFails
    \/ DeleteExpired
    \/ FinishPrune

ExportStep ==
    \/ \E t \in Tenants : ReadTenant(t)
    \/ OpenExport
    \/ WriteExport

Next ==
    \/ Tick
    \/ \E i \in Ids, t \in Tenants, time \in Times : Ingest(i, t, time)
    \/ StartPrune \/ PruneStep \/ PruneDies
    \/ \E all \in BOOLEAN : StartExport(all)
    \/ ExportStep \/ EndExport

Spec == Init /\ [][Next]_vars

-----------------------------------------------------------------------------
(* Properties *)

PruneJob ==
    [pc : {"idle"}]
        \cup [pc : {"next"}, now : Clock, todo : SUBSET Projects, failed : SUBSET Projects]
        \cup [pc : {"called"}, now : Clock, todo : SUBSET Projects,
              failed : SUBSET Projects, project : Projects, key : Keys]
        \cup [pc : {"read", "writing", "exported"}, now : Clock,
              todo : SUBSET Projects, failed : SUBSET Projects,
              project : Projects, evs : SUBSET Event, key : Keys]

ExportingJob ==
    [pc : {"idle"}]
        \cup [pc : {"next"}, now : Clock, todo : SUBSET Tenants]
        \cup [pc : {"read", "writing"}, now : Clock, todo : SUBSET Tenants,
              evs : SUBSET Event, key : Keys]

TypeOK ==
    /\ now \in Clock
    /\ events \subseteq Event
    /\ deleted \subseteq Event
    /\ DOMAIN archive \subseteq Keys
    /\ archive \in [DOMAIN archive -> SUBSET Event]
    /\ job \in PruneJob
    /\ export \in ExportingJob
    /\ arrived \cup late \cup gap \subseteq Event

\* The gate: whenever a project's events may be deleted, all of its window that
\* was stored before the export's read has been read, and all that was read is
\* in the object, whatever is stored or exported meanwhile.  An event that is
\* late for the read is in neither.
GateHolds ==
    /\ job # Idle => job.now <= now
    /\ job # Idle => \A p \in job.todo : Prunable(p)
    /\ job.pc \in {"called", "read", "writing", "exported"} => Prunable(job.project)
    /\ Between => Window(TenantOf[job.project], Cutoff(job.project)) \ late \subseteq job.evs
    /\ job.pc = "exported" /\ job.evs # {} =>
          job.key \in DOMAIN archive /\ archive[job.key] = job.evs

\* "a cold-storage outage can never cause unbacked data loss", and a backdated
\* event that lands between export and delete "is the only gap" (retention.js):
\* whichever step failed and whatever ran besides, what a prune with
\* exportBeforePrune deleted and is in no object of the archive was stored
\* after that project's export had read its window.
DeletedIsArchived ==
    \A e \in deleted \ gap : \E k \in DOMAIN archive : e \in archive[k]

\* With FreshKeys no export writes a key that was written before.
KeysApart ==
    /\ \A j \in {job, export} : j.pc = "read" => j.key \notin DOMAIN archive
    /\ Writing(job) /\ Writing(export) => job.key # export.key
    /\ \A j \in {job, export} :
          j.pc = "writing" => j.key \in DOMAIN archive /\ archive[j.key] = {}

IInv == TypeOK /\ GateHolds /\ KeysApart /\ DeletedIsArchived

\* A finished pass has dealt with every project: what is left in its window
\* came, dated back, while the pass ran, or its export failed.  One project's
\* failure costs the others nothing.
PassComplete ==
    [][FinishPrune =>
          \A p \in Projects :
             Prunable(p) /\ p \notin job.failed
             => Window(TenantOf[p], Cutoff(p)) \subseteq arrived]_vars
=============================================================================
