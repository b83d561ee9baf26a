---------------------- MODULE RetentionExport_proofs ----------------------
(* Theorems of RetentionExport, for every value of its constants. *)
EXTENDS RetentionExport, TLAPS

USE RetentionAssumption

(* The two jobs, by what they are at. *)
LEMMA JobFields ==
    ASSUME job \in PruneJob
    PROVE  /\ job.pc \in {"idle", "next", "called", "read", "writing", "exported"}
           /\ job.pc = "idle" <=> job = Idle
           /\ job.pc = "next" =>
                 job \in [pc : {"next"}, now : Clock, todo : SUBSET Projects,
                          failed : SUBSET Projects]
           /\ job.pc = "called" =>
                 job \in [pc : {"called"}, now : Clock, todo : SUBSET Projects,
                          failed : SUBSET Projects, project : Projects, key : Keys]
           /\ job.pc \in {"read", "writing", "exported"} =>
                 job \in [pc : {"read", "writing", "exported"}, now : Clock,
                          todo : SUBSET Projects, failed : SUBSET Projects,
                          project : Projects, evs : SUBSET Event, key : Keys]
           /\ job # Idle =>
                 job.now \in Clock /\ job.todo \in SUBSET Projects
                 /\ job.failed \in SUBSET Projects
BY DEF PruneJob, Idle

LEMMA ExportFields ==
    ASSUME export \in ExportingJob
    PROVE  /\ export.pc \in {"idle", "next", "read", "writing"}
           /\ export.pc = "idle" <=> export = Idle
           /\ export.pc = "next" =>
                 export \in [pc : {"next"}, now : Clock, todo : SUBSET Tenants]
           /\ export.pc \in {"read", "writing"} =>
                 export \in [pc : {"read", "writing"}, now : Clock, todo : SUBSET Tenants,
                             evs : SUBSET Event, key : Keys]
BY DEF ExportingJob, Idle

LEMMA WindowType ==
    ASSUME TypeOK, NEW t, NEW until
    PROVE  Window(t, until) \in SUBSET Event /\ Window(t, until) \in SUBSET events
BY DEF TypeOK, Window

LEMMA KeyType ==
    ASSUME NEW t \in Tenants, NEW second \in Clock
    PROVE  ObjectKey(t, second) \in Keys
BY DEF ObjectKey, Keys, Slugs

(* What writing one object does to the archive. *)
LEMMA WriteEffect ==
    ASSUME TypeOK, NEW key \in Keys, NEW evs \in SUBSET Event, Write(key, evs)
    PROVE  /\ DOMAIN archive' = DOMAIN archive \cup {key}
           /\ DOMAIN archive' \subseteq Keys
           /\ archive' \in [DOMAIN archive' -> SUBSET Event]
           /\ archive'[key] = evs
           /\ \A k \in DOMAIN archive : k # key => archive'[k] = archive[k]
<1>1. archive' = [k \in DOMAIN archive \cup {key} |-> IF k = key THEN evs ELSE archive[k]]
    BY DEF Write
<1>2. DOMAIN archive \subseteq Keys /\ archive \in [DOMAIN archive -> SUBSET Event]
    BY DEF TypeOK
<1> QED
    BY <1>1, <1>2

-----------------------------------------------------------------------------
(* Type correctness: every row read, named and written is one. *)
LEMMA TypeStep ==
    ASSUME TypeOK, [Next]_vars
    PROVE  TypeOK'
<1>1. /\ now \in Clock /\ events \in SUBSET Event /\ deleted \in SUBSET Event
      /\ DOMAIN archive \in SUBSET Keys
      /\ archive \in [DOMAIN archive -> SUBSET Event]
      /\ job \in PruneJob /\ export \in ExportingJob
      /\ arrived \cup late \cup gap \subseteq Event
    BY DEF TypeOK
<1> USE DEF history
<1>2. CASE Tick
    BY <1>1, <1>2 DEF Tick, TypeOK, Clock
<1>3. ASSUME NEW i \in Ids, NEW t \in Tenants, NEW time \in Times, Ingest(i, t, time)
      PROVE  TypeOK'
    <2>1. [id |-> i, tenant |-> t, time |-> time] \in Event
        BY DEF Event
    <2> QED BY <1>1, <1>3, <2>1 DEF Ingest, TypeOK
<1>4. CASE StartPrune
    <2>1. job' \in PruneJob
        BY <1>1, <1>4 DEF StartPrune, PruneJob
    <2> QED BY <1>1, <1>4, <2>1 DEF StartPrune, TypeOK
<1>5. ASSUME NEW p \in Projects, CallExport(p)
      PROVE  TypeOK'
    <2>1. job \in [pc : {"next"}, now : Clock, todo : SUBSET Projects,
                   failed : SUBSET Projects]
        BY <1>1, <1>5, JobFields DEF CallExport
    <2>2. ObjectKey(TenantOf[p], now) \in Keys
        BY <1>1, KeyType
    <2>3. job' \in PruneJob
        BY <1>5, <2>1, <2>2 DEF CallExport, PruneJob
    <2> QED BY <1>1, <1>5, <2>3 DEF CallExport, TypeOK
<1>6. CASE ReadExpired
    <2> DEFINE evs == Window(TenantOf[job.project], Cutoff(job.project))
    <2>1. job \in [pc : {"called"}, now : Clock, todo : SUBSET Projects,
                   failed : SUBSET Projects, project : Projects, key : Keys]
        BY <1>1, <1>6, JobFields DEF ReadExpired
    <2>2. evs \in SUBSET Event /\ job' = HasRead(evs)
        BY <1>6, WindowType DEF ReadExpired
    <2> HIDE DEF evs
    <2>3. job' \in PruneJob
        BY <2>1, <2>2 DEF HasRead, PruneJob
    <2> QED BY <1>1, <1>6, <2>3 DEF ReadExpired, TypeOK
<1>7. CASE OpenObject \/ WriteObject
    <2>1. job \in [pc : {"read", "writing", "exported"}, now : Clock,
                   todo : SUBSET Projects, failed : SUBSET Projects,
                   project : Projects, evs : SUBSET Event, key : Keys]
        BY <1>1, <1>7, JobFields DEF OpenObject, WriteObject
    <2>2. PICK evs \in SUBSET Event, to \in {"writing", "exported"} :
             Write(job.key, evs) /\ job' = [job EXCEPT !.pc = to]
        BY <1>7, <2>1 DEF OpenObject, WriteObject, Open
    <2>3. job' \in PruneJob
        BY <2>1, <2>2 DEF PruneJob
    <2>4. DOMAIN archive' \subseteq Keys /\ archive' \in [DOMAIN archive' -> SUBSET Event]
        BY <2>1, <2>2, WriteEffect
    <2> QED BY <1>1, <1>7, <2>3, <2>4 DEF OpenObject, WriteObject, TypeOK
<1>8. CASE ExportFails
    <2>1. /\ job.now \in Clock /\ job.todo \in SUBSET Projects
          /\ job.failed \in SUBSET Projects /\ job.project \in Projects
        BY <1>1, <1>8, JobFields DEF ExportFails
    <2>2. job' \in PruneJob
        BY <1>8, <2>1 DEF ExportFails, PruneJob
    <2> QED BY <1>1, <1>8, <2>2 DEF ExportFails, TypeOK
<1>9. CASE DeleteExpired
    <2>1. /\ job.now \in Clock /\ job.todo \in SUBSET Projects
          /\ job.failed \in SUBSET Projects
        BY <1>1, <1>9, JobFields DEF DeleteExpired
    <2>2. job' \in PruneJob
        BY <1>9, <2>1 DEF DeleteExpired, PruneJob
    <2> QED BY <1>1, <1>9, <2>2, WindowType DEF DeleteExpired, TypeOK
<1>10. CASE FinishPrune \/ PruneDies
    BY <1>1, <1>10 DEF FinishPrune, PruneDies, Idle, PruneJob, TypeOK
<1>11. ASSUME NEW all \in BOOLEAN, StartExport(all)
       PROVE  TypeOK'
    <2> DEFINE todo == {TenantOf[p] : p \in Projects}
                          \cup IF all THEN {e.tenant : e \in events} ELSE {}
    <2>1. todo \in SUBSET Tenants
        BY <1>1 DEF Event
    <2>2. export' = [pc |-> "next", now |-> now, todo |-> todo]
        BY <1>11 DEF StartExport
    <2> HIDE DEF todo
    <2>3. export' \in ExportingJob
        BY <1>1, <2>1, <2>2 DEF ExportingJob
    <2> QED BY <1>1, <1>11, <2>3 DEF StartExport, TypeOK
<1>12. ASSUME NEW t \in Tenants, ReadTenant(t)
       PROVE  TypeOK'
    <2> DEFINE evs == {e \in events : e.tenant = t}
               key == ObjectKey(t, export.now)
    <2>1. export \in [pc : {"next"}, now : Clock, todo : SUBSET Tenants]
        BY <1>1, <1>12, ExportFields DEF ReadTenant
    <2>2. evs \in SUBSET Event /\ key \in Keys
        BY <1>1, <2>1, KeyType
    <2>3. export' = IF evs = {} THEN [export EXCEPT !.todo = export.todo \ {t}]
                    ELSE [pc |-> "read", now |-> export.now, todo |-> export.todo \ {t},
                          evs |-> evs, key |-> key]
        BY <1>12, <2>1 DEF ReadTenant
    <2> HIDE DEF evs, key
    <2>4. CASE evs = {}
        <3>1. export' \in [pc : {"next"}, now : Clock, todo : SUBSET Tenants]
            BY <2>1, <2>3, <2>4
        <3> QED BY <1>1, <1>12, <3>1 DEF ReadTenant, TypeOK, ExportingJob
    <2>5. CASE evs # {}
        <3>1. export.now \in Clock /\ export.todo \ {t} \in SUBSET Tenants
            BY <2>1
        <3>2. export' \in [pc : {"read", "writing"}, now : Clock, todo : SUBSET Tenants,
                           evs : SUBSET Event, key : Keys]
            BY <2>2, <2>3, <2>5, <3>1
        <3>3. export' \in ExportingJob
            BY <3>2 DEF ExportingJob
        <3>4. UNCHANGED <<now, events, deleted, archive, job, arrived, late, gap>>
            BY <1>12 DEF ReadTenant
        <3> QED BY <1>1, <3>3, <3>4 DEF TypeOK
    <2> QED BY <2>4, <2>5
<1>13. CASE OpenExport
    <2>1. export \in [pc : {"read", "writing"}, now : Clock, todo : SUBSET Tenants,
                      evs : SUBSET Event, key : Keys]
        BY <1>1, <1>13, ExportFields DEF OpenExport
    <2>2. export' \in ExportingJob
        BY <1>13, <2>1 DEF OpenExport, ExportingJob
    <2>3. DOMAIN archive' \subseteq Keys /\ archive' \in [DOMAIN archive' -> SUBSET Event]
        <3>1. export.key \in Keys /\ Write(export.key, {})
            BY <1>13, <2>1 DEF OpenExport, Open
        <3>2. {} \in SUBSET Event
            OBVIOUS
        <3> QED BY <3>1, <3>2, WriteEffect
    <2> QED BY <1>1, <1>13, <2>2, <2>3 DEF OpenExport, TypeOK
<1>14. CASE WriteExport
    <2>1. export \in [pc : {"read", "writing"}, now : Clock, todo : SUBSET Tenants,
                      evs : SUBSET Event, key : Keys]
        BY <1>1, <1>14, ExportFields DEF WriteExport
    <2>2. export' \in ExportingJob
        BY <1>14, <2>1 DEF WriteExport, ExportingJob
    <2>3. DOMAIN archive' \subseteq Keys /\ archive' \in [DOMAIN archive' -> SUBSET Event]
        <3>1. /\ export.key \in Keys /\ export.evs \in SUBSET Event
              /\ Write(export.key, export.evs)
            BY <1>14, <2>1 DEF WriteExport
        <3> QED BY <3>1, WriteEffect
    <2> QED BY <1>1, <1>14, <2>2, <2>3 DEF WriteExport, TypeOK
<1>15. CASE EndExport
    BY <1>1, <1>15 DEF EndExport, Idle, ExportingJob, TypeOK
<1>16. CASE UNCHANGED vars
    BY <1>1, <1>16 DEF vars, TypeOK
<1> QED
    BY <1>2, <1>3, <1>4, <1>5, <1>6, <1>7, <1>8, <1>9, <1>10, <1>11, <1>12,
       <1>13, <1>14, <1>15, <1>16 DEF Next, PruneStep, ExportStep

-----------------------------------------------------------------------------
(* What the pass has behind it: of a window once emptied only what arrived  *)
(* in the meantime is left.                                                *)

Behind(p) ==
    /\ p \notin job.todo \cup job.failed
    /\ job.pc # "next" => p # job.project

PassInv ==
    /\ TypeOK
    /\ job # Idle => job.now <= now
    /\ job # Idle => \A p \in Projects :
          Prunable(p) /\ Behind(p) => Window(TenantOf[p], Cutoff(p)) \subseteq arrived

LEMMA PassStep ==
    ASSUME PassInv, [Next]_vars
    PROVE  PassInv'
<1> USE DEF history
<1>1. TypeOK /\ TypeOK' /\ job \in PruneJob /\ now \in Clock
    BY TypeStep DEF PassInv, TypeOK
<1>2. job # Idle => job.now \in Clock /\ job.now <= now
    BY <1>1, JobFields DEF PassInv
<1>3. CASE Tick
    <2>1. job' # Idle => job'.now <= now'
        BY <1>1, <1>2, <1>3 DEF Tick, Clock
    <2> QED BY <1>1, <1>3, <2>1 DEF Tick, PassInv, Behind, Window, Cutoff
<1>4. ASSUME NEW i \in Ids, NEW t \in Tenants, NEW time \in Times, Ingest(i, t, time)
      PROVE  PassInv'
    <2> DEFINE e == [id |-> i, tenant |-> t, time |-> time]
    <2>1. /\ UNCHANGED <<now, job>> /\ events' = events \cup {e}
          /\ job # Idle => arrived' = arrived \cup {e}
        BY <1>4 DEF Ingest
    <2> HIDE DEF e
    <2>2. \A p \in Projects : Window(TenantOf[p], Cutoff(p))'
                                  \subseteq Window(TenantOf[p], Cutoff(p)) \cup {e}
        BY <2>1 DEF Window, Cutoff
    <2> QED BY <1>1, <2>1, <2>2 DEF PassInv, Behind, Prunable
<1>5. CASE StartPrune
    <2>1. /\ job' # Idle /\ job'.now = now /\ now' = now
          /\ \A p \in Projects : Prunable(p) => p \in job'.todo
        BY <1>5 DEF StartPrune, Idle
    <2> QED BY <1>1, <2>1 DEF PassInv, Behind, Clock
(* The steps of a pass that leave the projects behind it as they are. *)
<1>6. ASSUME job # Idle, job' # Idle, job'.now = job.now,
             UNCHANGED <<now, events, arrived>>,
             \A p \in Projects : Behind(p)' => Behind(p)
      PROVE  PassInv'
    BY <1>1, <1>6 DEF PassInv, Window, Cutoff
<1>7. ASSUME NEW p \in Projects, CallExport(p)
      PROVE  PassInv'
    <2>1. job \in [pc : {"next"}, now : Clock, todo : SUBSET Projects,
                   failed : SUBSET Projects]
        BY <1>1, <1>7, JobFields DEF CallExport
    <2>2. /\ job.pc = "next" /\ job # Idle /\ job' # Idle
          /\ job'.now = job.now /\ job'.pc = "called" /\ job'.project = p
          /\ job'.todo = job.todo \ {p} /\ job'.failed = job.failed
        BY <1>7, <2>1 DEF CallExport, Idle
    <2>3. \A q \in Projects : Behind(q)' => Behind(q)
        BY <2>2 DEF Behind
    <2> QED BY <1>6, <1>7, <2>2, <2>3 DEF CallExport
<1>8. CASE ReadExpired
    <2>1. /\ job.pc = "called" /\ job # Idle /\ job' # Idle
          /\ job'.now = job.now /\ job'.pc # "next" /\ job'.project = job.project
          /\ job'.todo = job.todo /\ job'.failed = job.failed
        BY <1>8 DEF ReadExpired, HasRead, Idle
    <2>2. \A q \in Projects : Behind(q)' => Behind(q)
        BY <2>1 DEF Behind
    <2> QED BY <1>6, <1>8, <2>1, <2>2 DEF ReadExpired
<1>9. CASE OpenObject \/ WriteObject
    <2>1. job \in [pc : {"read", "writing", "exported"}, now : Clock,
                   todo : SUBSET Projects, failed : SUBSET Projects,
                   project : Projects, evs : SUBSET Event, key : Keys]
        BY <1>1, <1>9, JobFields DEF OpenObject, WriteObject
    <2>2. /\ job # Idle /\ job' # Idle /\ job.pc # "next"
          /\ job'.now = job.now /\ job'.pc # "next" /\ job'.project = job.project
          /\ job'.todo = job.todo /\ job'.failed = job.failed
        BY <1>9, <2>1 DEF OpenObject, WriteObject, Idle
    <2>3. \A q \in Projects : Behind(q)' => Behind(q)
        BY <2>2 DEF Behind
    <2> QED BY <1>6, <1>9, <2>2, <2>3 DEF OpenObject, WriteObject
<1>10. CASE ExportFails
    <2>1. /\ job # Idle /\ job' # Idle /\ job.pc # "next"
          /\ job'.now = job.now /\ job'.todo = job.todo
          /\ job'.failed = job.failed \cup {job.project}
        BY <1>10 DEF ExportFails, Idle
    <2>2. \A q \in Projects : Behind(q)' => Behind(q)
        BY <2>1 DEF Behind
    <2> QED BY <1>6, <1>10, <2>1, <2>2 DEF ExportFails
<1>11. CASE DeleteExpired
    <2>1. /\ job # Idle /\ job' # Idle /\ job.pc = "exported" /\ job'.pc = "next"
          /\ job'.now = job.now /\ job'.todo = job.todo /\ job'.failed = job.failed
          /\ now' = now /\ arrived' = arrived
        BY <1>11 DEF DeleteExpired, Idle
    <2>2. events' = events \ Window(TenantOf[job.project], Cutoff(job.project))
        BY <1>11 DEF DeleteExpired
    <2>3. \A p \in Projects : Cutoff(p)' = Cutoff(p)
        BY <2>1 DEF Cutoff
    <2>4. \A p \in Projects : Behind(p)' => Behind(p) \/ p = job.project
        BY <2>1 DEF Behind
    <2>5. ASSUME NEW p \in Projects, Prunable(p), Behind(p)'
          PROVE  Window(TenantOf[p], Cutoff(p))' \subseteq arrived
        <3>1. CASE Behind(p)
            <4>1. Window(TenantOf[p], Cutoff(p)) \subseteq arrived
                BY <2>1, <2>5, <3>1 DEF PassInv
            <4> QED BY <2>2, <2>3, <4>1 DEF Window
        <3>2. CASE p = job.project
            BY <2>2, <2>3, <3>2 DEF Window
        <3> QED BY <2>4, <2>5, <3>1, <3>2
    <2> QED BY <1>1, <1>2, <2>1, <2>5 DEF PassInv, Prunable
<1>12. CASE FinishPrune \/ PruneDies
    BY <1>1, <1>12 DEF FinishPrune, PruneDies, PassInv
<1>13. CASE UNCHANGED <<now, events, job, arrived>>
    BY <1>1, <1>13 DEF PassInv, Behind, Window, Cutoff
<1>14. (\E all \in BOOLEAN : StartExport(all)) \/ ExportStep \/ EndExport \/ UNCHANGED vars
          => UNCHANGED <<now, events, job, arrived>>
    BY DEF history, StartExport, ExportStep, ReadTenant, OpenExport, WriteExport, EndExport, vars
<1> QED
    BY <1>3, <1>4, <1>5, <1>7, <1>8, <1>9, <1>10, <1>11, <1>12, <1>13, <1>14
       DEF Next, PruneStep

LEMMA PassInit == Init => PassInv
<1> SUFFICES ASSUME Init PROVE PassInv
    OBVIOUS
<1>1. job = Idle /\ export = Idle
    BY DEF Init
<1>2. job \in PruneJob /\ export \in ExportingJob
    BY <1>1 DEF Idle, PruneJob, ExportingJob
<1>3. archive \in [DOMAIN archive -> SUBSET Event] /\ DOMAIN archive \subseteq Keys
    BY DEF Init
<1>4. TypeOK
    BY <1>2, <1>3 DEF Init, TypeOK, Clock
<1> QED
    BY <1>1, <1>4 DEF PassInv

(* A pass that finishes has left nothing in a window whose export succeeded *)
(* but what arrived while it ran: the failure of one project's export costs *)
(* the other projects nothing.                                              *)
THEOREM PassesAreComplete == Spec => PassComplete
<1> DEFINE A == FinishPrune =>
                   \A p \in Projects :
                      Prunable(p) /\ p \notin job.failed
                      => Window(TenantOf[p], Cutoff(p)) \subseteq arrived
<1>1. Init => PassInv
    BY PassInit
<1>2. PassInv /\ [Next]_vars => PassInv'
    BY PassStep
<1>3. PassInv => A
    BY DEF PassInv, FinishPrune, Behind, Idle
<1>4. PassInv /\ [Next]_vars => [A]_vars
    BY <1>3
<1> QED
    BY <1>1, <1>2, <1>4, PTL DEF Spec, PassComplete

-----------------------------------------------------------------------------
(* The gate.  The steps on the archive, seen from the job that takes them: *)
(* with FreshKeys the object is new or still empty, so nothing is lost.    *)

LEMMA NothingIsLost ==
    ASSUME TypeOK, NEW key \in Keys, NEW evs \in SUBSET Event, Write(key, evs),
           key \in DOMAIN archive => archive[key] = {},
           DeletedIsArchived, UNCHANGED <<deleted, gap>>
    PROVE  DeletedIsArchived'
<1>1. ASSUME NEW e \in deleted \ gap
      PROVE  \E k \in DOMAIN archive' : e \in archive'[k]
    <2>1. PICK k \in DOMAIN archive : e \in archive[k]
        BY DEF DeletedIsArchived
    <2>2. k # key
        BY <2>1
    <2> QED BY <2>1, <2>2, WriteEffect
<1> QED
    BY <1>1 DEF DeletedIsArchived

(* A job that is not writing what the other one writes keeps its object.   *)
LEMMA OtherObjectKept ==
    ASSUME TypeOK, NEW key \in Keys, NEW evs \in SUBSET Event, Write(key, evs),
           NEW k, k # key
    PROVE  /\ k \in DOMAIN archive' <=> k \in DOMAIN archive
           /\ k \in DOMAIN archive => archive'[k] = archive[k]
BY WriteEffect

(* GateHolds and KeysApart, one job at a time. *)
JobGate ==
    /\ job # Idle => job.now <= now
    /\ job # Idle => \A p \in job.todo : Prunable(p)
    /\ job.pc \in {"called", "read", "writing", "exported"} => Prunable(job.project)

WindowRead ==
    Between => Window(TenantOf[job.project], Cutoff(job.project)) \ late \subseteq job.evs

ObjectWritten ==
    job.pc = "exported" /\ job.evs # {} =>
        job.key \in DOMAIN archive /\ archive[job.key] = job.evs

OwnObject(j) ==
    /\ j.pc = "read" => j.key \notin DOMAIN archive
    /\ j.pc = "writing" => j.key \in DOMAIN archive /\ archive[j.key] = {}

Gate ==
    /\ JobGate /\ WindowRead /\ ObjectWritten
    /\ OwnObject(job) /\ OwnObject(export)
    /\ Writing(job) /\ Writing(export) => job.key # export.key
    /\ DeletedIsArchived

LEMMA Parts == IInv <=> TypeOK /\ Gate
BY DEF IInv, GateHolds, KeysApart, Gate, JobGate, WindowRead, ObjectWritten, OwnObject

LEMMA PartsNext == IInv' <=> TypeOK' /\ Gate'
BY DEF IInv, GateHolds, KeysApart, Gate, JobGate, WindowRead, ObjectWritten, OwnObject

LEMMA GateStep ==
    ASSUME FreshKeys, IInv, [Next]_vars
    PROVE  IInv'
<1> USE DEF Gate, history, Between
<1>1. /\ TypeOK /\ TypeOK' /\ job \in PruneJob /\ export \in ExportingJob
      /\ now \in Clock /\ events \in SUBSET Event
    BY TypeStep DEF IInv, TypeOK
<1>2. Gate
    BY Parts
<1>3. SUFFICES Gate'
    BY <1>1, PartsNext
<1>4. job # Idle => job.now \in Clock /\ job.now <= now
    BY <1>1, <1>2, JobFields DEF JobGate
<1>5. CASE Tick
    <2>1. JobGate'
        BY <1>1, <1>2, <1>4, <1>5 DEF Tick, JobGate, Clock, Prunable
    <2> QED BY <1>2, <1>5, <2>1 DEF Tick, WindowRead, Window, Cutoff, ObjectWritten,
                   OwnObject, Writing, DeletedIsArchived
<1>6. ASSUME NEW i \in Ids, NEW t \in Tenants, NEW time \in Times, Ingest(i, t, time)
      PROVE  Gate'
    <2> DEFINE e == [id |-> i, tenant |-> t, time |-> time]
    <2>1. /\ UNCHANGED <<now, deleted, archive, job, export, gap>>
          /\ events' = events \cup {e}
          /\ Between => late' = late \cup {e}
        BY <1>6 DEF Ingest
    <2> HIDE DEF e
    <2>2. \A p \in Projects : Window(TenantOf[p], Cutoff(p))'
                                  \subseteq Window(TenantOf[p], Cutoff(p)) \cup {e}
        BY <2>1 DEF Window, Cutoff
    <2>3. job.pc \in {"read", "writing", "exported"} => job.project \in Projects
        BY <1>1, JobFields
    <2>4. WindowRead'
        BY <1>2, <2>1, <2>2, <2>3 DEF WindowRead
    <2> QED BY <1>2, <2>1, <2>4 DEF JobGate, ObjectWritten, OwnObject, Writing,
                   DeletedIsArchived
(* The steps of the prune that leave the archive alone. *)
<1>7. ASSUME UNCHANGED <<archive, export, deleted, gap>>, ~Writing(job'), job'.pc # "exported",
             JobGate'
      PROVE  Gate'
    BY <1>2, <1>7 DEF WindowRead, ObjectWritten, OwnObject, Writing, DeletedIsArchived
<1>8. CASE StartPrune
    <2>1. JobGate' /\ job'.pc = "next"
        BY <1>1, <1>8 DEF StartPrune, JobGate, Clock, Prunable
    <2> QED BY <1>7, <1>8, <2>1 DEF StartPrune, Writing
<1>9. ASSUME NEW p \in Projects, CallExport(p)
      PROVE  Gate'
    <2>1. /\ job # Idle /\ job'.now = job.now /\ job'.todo \subseteq job.todo
          /\ job'.pc = "called" /\ job'.project = p /\ p \in job.todo /\ now' = now
        BY <1>9 DEF CallExport, Idle
    <2>2. JobGate'
        BY <1>2, <2>1 DEF JobGate, Prunable
    <2> QED BY <1>7, <1>9, <2>1, <2>2 DEF CallExport, Writing
<1>10. CASE ExportFails
    <2>1. /\ job # Idle /\ job'.now = job.now /\ job'.todo = job.todo
          /\ job'.pc = "next" /\ now' = now
        BY <1>10 DEF ExportFails, Idle
    <2>2. JobGate'
        BY <1>2, <2>1 DEF JobGate, Prunable
    <2> QED BY <1>7, <1>10, <2>1, <2>2 DEF ExportFails, Writing
<1>11. CASE FinishPrune \/ PruneDies
    <2>1. job' = Idle /\ UNCHANGED <<archive, export, deleted, gap>>
        BY <1>11 DEF FinishPrune, PruneDies
    <2> QED BY <1>7, <2>1 DEF Idle, JobGate, Writing
<1>12. CASE ReadExpired
    <2> DEFINE evs == Window(TenantOf[job.project], Cutoff(job.project))
    <2>1. /\ job # Idle /\ job.pc = "called" /\ job' = HasRead(evs)
          /\ UNCHANGED <<now, events, deleted, archive, export, late, gap>>
          /\ evs # {} => /\ job.key \notin DOMAIN archive
                         /\ Writing(export) => export.key # job.key
        BY <1>12 DEF ReadExpired, Fresh, Idle
    <2>2. /\ job'.now = job.now /\ job'.todo = job.todo /\ job'.project = job.project
          /\ job'.key = job.key /\ job'.evs = evs
          /\ job'.pc = IF evs = {} THEN "exported" ELSE "read"
        BY <2>1 DEF HasRead
    <2>3. Window(TenantOf[job.project], Cutoff(job.project))'
            = Window(TenantOf[job.project], Cutoff(job.project))
        BY <2>1, <2>2 DEF Window, Cutoff
    <2>4. JobGate'
        BY <1>2, <2>1, <2>2 DEF JobGate, Prunable
    <2>5. WindowRead'
        BY <2>2, <2>3 DEF WindowRead
    <2> HIDE DEF evs
    <2> QED BY <1>2, <2>1, <2>2, <2>4, <2>5
            DEF ObjectWritten, OwnObject, Writing, DeletedIsArchived
(* What the prune does with its object. *)
<1>13. ASSUME OpenObject \/ WriteObject
       PROVE  /\ JobGate' /\ WindowRead'
              /\ job.key \in Keys /\ Writing(job)
              /\ job'.key = job.key /\ job'.evs = job.evs /\ job.evs \in SUBSET Event
              /\ UNCHANGED <<export, deleted, gap>>
    <2>1. job \in [pc : {"read", "writing", "exported"}, now : Clock,
                   todo : SUBSET Projects, failed : SUBSET Projects,
                   project : Projects, evs : SUBSET Event, key : Keys]
        BY <1>1, <1>13, JobFields DEF OpenObject, WriteObject
    <2>2. /\ job # Idle /\ job.pc \in {"read", "writing"}
          /\ job'.pc \in {"writing", "exported"} /\ job'.now = job.now
          /\ job'.todo = job.todo /\ job'.project = job.project
          /\ job'.key = job.key /\ job'.evs = job.evs
          /\ UNCHANGED <<now, events, export, deleted, late, gap>>
        BY <1>13, <2>1 DEF OpenObject, WriteObject, Idle
    <2>3. Window(TenantOf[job.project], Cutoff(job.project))'
            = Window(TenantOf[job.project], Cutoff(job.project))
        BY <2>2 DEF Window, Cutoff
    <2>4. JobGate'
        BY <1>2, <2>2 DEF JobGate, Prunable
    <2>5. WindowRead'
        BY <1>2, <2>2, <2>3 DEF WindowRead
    <2> QED BY <2>1, <2>2, <2>4, <2>5 DEF Writing
(* The other job's key is another one, so its object stays as it is. *)
<1>14. CASE OpenObject
    <2>1. /\ Write(job.key, {}) /\ job.pc = "read" /\ job'.pc = "writing"
          /\ {} \in SUBSET Event
        BY <1>1, <1>13, <1>14, JobFields DEF OpenObject, Open
    <2>2. /\ job'.key \in DOMAIN archive' /\ archive'[job'.key] = {}
          /\ job.key \notin DOMAIN archive
        BY <1>1, <1>2, <1>13, <1>14, <2>1, WriteEffect DEF OwnObject
    <2>3. DeletedIsArchived'
        BY <1>1, <1>2, <1>13, <1>14, <2>1, <2>2, NothingIsLost
    <2>4. OwnObject(export)'
        <3>1. Writing(export) => export.key # job.key
            BY <1>2, <1>13, <1>14
        <3>2. Writing(export) =>
                 /\ export.key \in DOMAIN archive' <=> export.key \in DOMAIN archive
                 /\ export.key \in DOMAIN archive => archive'[export.key] = archive[export.key]
            BY <1>1, <1>13, <1>14, <2>1, <3>1, OtherObjectKept
        <3> QED BY <1>2, <1>13, <1>14, <3>2 DEF OwnObject, Writing
    <2> QED BY <1>2, <1>13, <1>14, <2>1, <2>2, <2>3, <2>4
            DEF ObjectWritten, OwnObject, Writing
<1>15. CASE WriteObject
    <2>1. /\ Write(job.key, job.evs) /\ job.pc = "writing" /\ job'.pc = "exported"
        BY <1>1, <1>13, <1>15, JobFields DEF WriteObject
    <2>2. /\ job'.key \in DOMAIN archive' /\ archive'[job'.key] = job'.evs
          /\ archive[job.key] = {}
        <3>1. archive[job.key] = {}
            BY <1>2, <2>1 DEF OwnObject
        <3>2. job.key \in DOMAIN archive' /\ archive'[job.key] = job.evs
            BY <1>1, <1>13, <1>15, <2>1, WriteEffect
        <3> QED BY <1>13, <1>15, <3>1, <3>2
    <2>3. DeletedIsArchived'
        BY <1>1, <1>2, <1>13, <1>15, <2>1, <2>2, NothingIsLost
    <2>4. OwnObject(export)'
        <3>1. Writing(export) => export.key # job.key
            BY <1>2, <1>13, <1>15
        <3>2. Writing(export) =>
                 /\ export.key \in DOMAIN archive' <=> export.key \in DOMAIN archive
                 /\ export.key \in DOMAIN archive => archive'[export.key] = archive[export.key]
            BY <1>1, <1>13, <1>15, <2>1, <3>1, OtherObjectKept
        <3> QED BY <1>2, <1>13, <1>15, <3>2 DEF OwnObject, Writing
    <2> QED BY <1>2, <1>13, <1>15, <2>1, <2>2, <2>3, <2>4
            DEF ObjectWritten, OwnObject, Writing
<1>16. CASE DeleteExpired
    <2>1. /\ job # Idle /\ job.pc = "exported" /\ job'.pc = "next"
          /\ job'.now = job.now /\ job'.todo = job.todo
          /\ UNCHANGED <<now, archive, export>>
          /\ deleted' = deleted \cup Window(TenantOf[job.project], Cutoff(job.project))
          /\ gap' = gap \cup (Window(TenantOf[job.project], Cutoff(job.project)) \cap late)
        BY <1>16 DEF DeleteExpired, Idle
    <2>2. Window(TenantOf[job.project], Cutoff(job.project)) \ late \subseteq job.evs
        BY <1>2, <2>1 DEF WindowRead
    <2>3. \A e \in deleted' \ gap' : \E k \in DOMAIN archive' : e \in archive'[k]
        BY <1>2, <2>1, <2>2 DEF ObjectWritten, DeletedIsArchived
    <2>4. DeletedIsArchived'
        BY <2>3 DEF DeletedIsArchived
    <2>5. JobGate'
        BY <1>2, <2>1 DEF JobGate, Prunable
    <2> QED BY <1>2, <2>1, <2>4, <2>5
            DEF WindowRead, ObjectWritten, OwnObject, Writing
(* The export job.  Nothing of the prune's changes. *)
<1>17. ASSUME UNCHANGED <<now, events, deleted, job, late, gap>>
       PROVE  /\ JobGate' /\ WindowRead'
    BY <1>2, <1>17 DEF JobGate, Prunable, WindowRead, Window, Cutoff
<1>18. ASSUME UNCHANGED <<now, events, deleted, archive, job, late, gap>>, ~Writing(export')
       PROVE  Gate'
    BY <1>2, <1>17, <1>18 DEF ObjectWritten, OwnObject, Writing, DeletedIsArchived
<1>19. CASE (\E all \in BOOLEAN : StartExport(all)) \/ EndExport
    <2>1. UNCHANGED <<now, events, deleted, archive, job, late, gap>> /\ ~Writing(export')
        BY <1>19 DEF StartExport, EndExport, Idle, Writing
    <2> QED BY <1>18, <2>1
<1>20. ASSUME NEW t \in Tenants, ReadTenant(t)
       PROVE  Gate'
    <2>1. /\ UNCHANGED <<now, events, deleted, archive, job, late, gap>>
          /\ export \in [pc : {"next"}, now : Clock, todo : SUBSET Tenants]
        BY <1>1, <1>20, ExportFields DEF ReadTenant
    <2>2. CASE {e \in events : e.tenant = t} = {}
        <3>1. export' = [export EXCEPT !.todo = export.todo \ {t}]
            BY <1>20, <2>2 DEF ReadTenant
        <3>2. ~Writing(export')
            BY <2>1, <3>1 DEF Writing
        <3> QED BY <1>18, <2>1, <3>2
    <2>3. CASE {e \in events : e.tenant = t} # {}
        <3> DEFINE key == ObjectKey(t, export.now)
        <3>1. /\ export'.pc = "read" /\ export'.key = key
              /\ key \notin DOMAIN archive
              /\ Writing(job) => job.key # key
            BY <1>20, <2>3 DEF ReadTenant, Fresh
        <3> HIDE DEF key
        <3>2. JobGate' /\ WindowRead'
            BY <1>17, <2>1
        <3>3. OwnObject(export)' /\ OwnObject(job)'
            BY <1>2, <2>1, <3>1 DEF OwnObject
        <3>4. Writing(job)' /\ Writing(export)' => job'.key # export'.key
            BY <2>1, <3>1 DEF Writing
        <3>5. ObjectWritten' /\ DeletedIsArchived'
            BY <1>2, <2>1 DEF ObjectWritten, DeletedIsArchived
        <3> QED BY <3>2, <3>3, <3>4, <3>5
    <2> QED BY <2>2, <2>3
<1>21. ASSUME OpenExport \/ WriteExport
       PROVE  /\ export \in [pc : {"read", "writing"}, now : Clock, todo : SUBSET Tenants,
                             evs : SUBSET Event, key : Keys]
              /\ UNCHANGED <<now, events, deleted, job, late, gap>> /\ Writing(export)
    <2>1. export \in [pc : {"read", "writing"}, now : Clock, todo : SUBSET Tenants,
                      evs : SUBSET Event, key : Keys]
        BY <1>1, <1>21, ExportFields DEF OpenExport, WriteExport
    <2> QED BY <1>21, <2>1 DEF OpenExport, WriteExport, Writing
(* The prune's object, when the export job writes another one. *)
<1>22. ASSUME NEW evs \in SUBSET Event, OpenExport \/ WriteExport, Write(export.key, evs)
       PROVE  ObjectWritten' /\ OwnObject(job)'
    <2>1. export.key \in Keys /\ Writing(export) /\ job' = job
        BY <1>21, <1>22
    <2>2. Writing(job) => job.key # export.key
        BY <1>2, <2>1
    <2>3. Writing(job) =>
             /\ job.key \in DOMAIN archive' <=> job.key \in DOMAIN archive
             /\ job.key \in DOMAIN archive => archive'[job.key] = archive[job.key]
        BY <1>1, <1>22, <2>1, <2>2, OtherObjectKept
    <2> QED BY <1>2, <2>1, <2>3 DEF ObjectWritten, OwnObject, Writing
<1>23. CASE OpenExport
    <2>1. /\ Write(export.key, {}) /\ {} \in SUBSET Event /\ export.key \in Keys
          /\ export.pc = "read" /\ export'.pc = "writing" /\ export'.key = export.key
        BY <1>21, <1>23 DEF OpenExport, Open
    <2>2. /\ export.key \in DOMAIN archive' /\ archive'[export.key] = {}
          /\ export.key \notin DOMAIN archive
        <3>1. export.key \notin DOMAIN archive
            BY <1>2, <2>1 DEF OwnObject
        <3> QED BY <1>1, <2>1, <3>1, WriteEffect
    <2>3. DeletedIsArchived'
        BY <1>1, <1>2, <1>21, <1>23, <2>1, <2>2, NothingIsLost
    <2>4. ObjectWritten' /\ OwnObject(job)'
        BY <1>22, <1>23, <2>1
    <2> QED BY <1>2, <1>17, <1>21, <1>23, <2>1, <2>2, <2>3, <2>4 DEF OwnObject, Writing
<1>24. CASE WriteExport
    <2>1. /\ Write(export.key, export.evs) /\ export.evs \in SUBSET Event
          /\ export.key \in Keys /\ export.pc = "writing" /\ export'.pc = "next"
        BY <1>21, <1>24 DEF WriteExport
    <2>2. archive[export.key] = {}
        BY <1>2, <2>1 DEF OwnObject
    <2>3. DeletedIsArchived'
        BY <1>1, <1>2, <1>21, <1>24, <2>1, <2>2, NothingIsLost
    <2>4. ObjectWritten' /\ OwnObject(job)'
        BY <1>22, <1>24, <2>1
    <2> QED BY <1>17, <1>21, <1>24, <2>1, <2>3, <2>4 DEF OwnObject, Writing
<1>25. CASE UNCHANGED vars
    BY <1>2, <1>25 DEF vars, JobGate, Prunable, WindowRead, Window, Cutoff, ObjectWritten,
                       OwnObject, Writing, DeletedIsArchived
<1> QED
    BY <1>5, <1>6, <1>8, <1>9, <1>10, <1>11, <1>12, <1>14, <1>15, <1>16, <1>19,
       <1>20, <1>23, <1>24, <1>25 DEF Next, PruneStep, ExportStep

(* The gate: what a prune has deleted is in the archive or came too late    *)
(* for the export's read, with whatever time, whichever step failed and     *)
(* whatever else ran, while no two exports choose one object.               *)
THEOREM GateInvariant == ASSUME FreshKeys PROVE Spec => []IInv
<1>1. Init => IInv
    <2>1. Init => TypeOK
        BY PassInit DEF PassInv
    <2>2. Init => Gate
        BY DEF Init, Idle, Gate, JobGate, WindowRead, Between, ObjectWritten, OwnObject, Writing,
               DeletedIsArchived
    <2> QED BY <2>1, <2>2, Parts
<1>2. IInv /\ [Next]_vars => IInv'
    BY GateStep
<1> QED
    BY <1>1, <1>2, PTL DEF Spec

(* "A cold-storage outage can never cause unbacked data loss", and an event *)
(* that lands between export and delete is the only gap.                    *)
THEOREM NoUnbackedLoss == ASSUME FreshKeys PROVE Spec => []DeletedIsArchived
<1>1. IInv => DeletedIsArchived
    BY DEF IInv
<1> QED
    BY <1>1, GateInvariant, PTL
=============================================================================
