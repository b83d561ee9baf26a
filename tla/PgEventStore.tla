---------------------------- MODULE PgEventStore ----------------------------
(***************************************************************************)
(* The storage core on PostgreSQL (src/db/backends/postgres.js): the same  *)
(* insertEvent and pruneEventsBefore, but each is a transaction of several *)
(* statements under READ COMMITTED, and the connections of the pool run    *)
(* them concurrently.  Every statement is a step of its own.               *)
(*                                                                         *)
(* events and sessions, of the extended module, are what is committed; an  *)
(* open transaction's writes are kept in its own record until Commit.  Of  *)
(* PostgreSQL the module assumes what the statements need: a statement     *)
(* sees the rows committed when it starts and its own transaction's; a     *)
(* unique key or a row written by an open transaction makes other writers  *)
(* wait for its end; an UPDATE or DELETE that waited goes on with the new  *)
(* version of the row but with its own old snapshot of every other table.  *)
(***************************************************************************)
EXTENDS EventStore

CONSTANTS
    Workers,    \* pooled connections that run insertEvent
    Pruner,     \* the connection of the prune job
    Cutoffs,    \* cutoffs the prune job uses; {} when it does not run
    Nobody,     \* "no transaction holds this row"
    Untouched,  \* "the prune's transaction has not written this row"
    MaxCount    \* bound: no insert begins into a session counted this high

ASSUME PgAssumption ==
    /\ Pruner \notin Workers
    /\ Nobody \notin Workers \cup {Pruner}
    /\ Untouched \notin SessionRow \cup {NoRow}
    /\ MaxCount \in Nat

VARIABLES
    ins,        \* ins[w]: w's insertEvent transaction, pc and event
    prune,      \* the pruneEventsBefore transaction
    lock,       \* session_id -> the open transaction that wrote its row
    answered,   \* ids whose emitter was answered "accepted" or "duplicate"
    expunged    \* ids that a committed prune deleted

pgVars == <<events, sessions, ins, prune, lock, answered, expunged>>

Idle == [pc |-> "idle"]

-----------------------------------------------------------------------------
(* insertEvent *)

Begin(w, e) ==
    /\ ins[w] = Idle
    /\ e.session \in MayUse[e.tenant]
    /\ sessions[e.session] # NoRow => sessions[e.session].event_count < MaxCount
    /\ ins' = [ins EXCEPT ![w] = [pc |-> "begun", event |-> e]]
    /\ UNCHANGED <<events, sessions, prune, lock, answered, expunged>>

\* The unique key `id` is being written by an open transaction.
IdPending(i) ==
    \/ \E w \in Workers : ins[w].pc \in {"inserted", "upserted"} /\ ins[w].event.id = i
    \/ prune.pc \in {"deleted", "emptying", "recomputing"} /\ \E e \in prune.gone : e.id = i

InsertRow_NoWait(w) ==          \* mutant: SELECT for the id, then INSERT
    /\ ins[w].pc = "begun"
    /\ ~Stored(ins[w].event.id)
    /\ ins' = [ins EXCEPT ![w].pc = "inserted"]
    /\ UNCHANGED <<events, sessions, prune, lock, answered, expunged>>

\* INSERT ... ON CONFLICT (id) DO NOTHING inserted the row.
InsertRow(w) ==
    /\ ins[w].pc = "begun"
    /\ ~IdPending(ins[w].event.id)
    /\ ~Stored(ins[w].event.id)
    /\ ins' = [ins EXCEPT ![w].pc = "inserted"]
    /\ UNCHANGED <<events, sessions, prune, lock, answered, expunged>>

AnswerDuplicate_NoWait(w) ==    \* mutant: an uncommitted row counts as stored
    /\ ins[w].pc = "begun"
    /\ IdPending(ins[w].event.id) \/ Stored(ins[w].event.id)
    /\ ins' = [ins EXCEPT ![w] = Idle]
    /\ answered' = answered \cup {ins[w].event.id}
    /\ UNCHANGED <<events, sessions, prune, lock, expunged>>

\* rowCount = 0: COMMIT and answer { isDuplicate: true }.
AnswerDuplicate(w) ==
    /\ ins[w].pc = "begun"
    /\ ~IdPending(ins[w].event.id)
    /\ Stored(ins[w].event.id)
    /\ ins' = [ins EXCEPT ![w] = Idle]
    /\ answered' = answered \cup {ins[w].event.id}
    /\ UNCHANGED <<events, sessions, prune, lock, expunged>>

UpsertSession_NoLock(w) ==      \* mutant: read-modify-write without the row
    /\ ins[w].pc = "inserted"
    /\ ins' = [ins EXCEPT ![w] = [pc |-> "upserted", event |-> ins[w].event,
                                  row |-> Upsert(sessions[ins[w].event.session], ins[w].event)]]
    /\ UNCHANGED <<events, sessions, prune, lock, answered, expunged>>

\* INSERT ... ON CONFLICT (session_id) DO UPDATE, on the row's latest version.
UpsertSession(w) ==
    LET e == ins[w].event IN
    /\ ins[w].pc = "inserted"
    /\ lock[e.session] = Nobody
    /\ lock' = [lock EXCEPT ![e.session] = w]
    /\ ins'  = [ins EXCEPT ![w] = [pc |-> "upserted", event |-> e,
                                   row |-> Upsert(sessions[e.session], e)]]
    /\ UNCHANGED <<events, sessions, prune, answered, expunged>>

Unlock(p) == lock' = [s \in Sessions |-> IF lock[s] = p THEN Nobody ELSE lock[s]]

CommitInsert(w) ==
    LET e == ins[w].event IN
    /\ ins[w].pc = "upserted"
    /\ events'   = events \cup {e}
    /\ sessions' = [sessions EXCEPT ![e.session] = ins[w].row]
    /\ ins'      = [ins EXCEPT ![w] = Idle]
    /\ answered' = answered \cup {e.id}
    /\ Unlock(w)
    /\ UNCHANGED <<prune, expunged>>

AbortInsert_NoRollback(w) ==    \* mutant: the connection is released as it is
    /\ ins[w] # Idle
    /\ ins' = [ins EXCEPT ![w] = Idle]
    /\ UNCHANGED <<events, sessions, prune, lock, answered, expunged>>

\* A statement failed, or the connection or the server broke: ROLLBACK.
AbortInsert(w) ==
    /\ ins[w] # Idle
    /\ ins' = [ins EXCEPT ![w] = Idle]
    /\ Unlock(w)
    /\ UNCHANGED <<events, sessions, prune, answered, expunged>>

-----------------------------------------------------------------------------
(* pruneEventsBefore *)

\* SELECT DISTINCT session_id: the sessions that will lose events.
SelectAffected(t, cutoff) ==
    /\ prune = Idle
    /\ prune' = [pc |-> "selected", tenant |-> t, cutoff |-> cutoff,
                 affected |-> {e.session : e \in Expired(t, cutoff)}]
    /\ UNCHANGED <<events, sessions, ins, lock, answered, expunged>>

\* DELETE FROM events, with a snapshot of its own.
DeleteEvents ==
    LET gone == Expired(prune.tenant, prune.cutoff) IN
    /\ prune.pc = "selected"
    /\ prune' = IF gone = {} THEN Idle
                ELSE [pc |-> "deleted", tenant |-> prune.tenant,
                      affected |-> prune.affected, gone |-> gone]
    /\ UNCHANGED <<events, sessions, ins, lock, answered, expunged>>

\* The affected session rows a statement of the prune finds in its snapshot.
AffectedRows ==
    {s \in prune.affected : sessions[s] # NoRow /\ sessions[s].tenant = prune.tenant}

\* What the prune's statements see of table events.
Left == events \ prune.gone

\* DELETE FROM sessions ... NOT IN (...) starts: todo is what its snapshot
\* selects, rows is what the transaction has written to session rows.
DeleteEmpties ==
    /\ prune.pc = "deleted"
    /\ prune' = [pc |-> "emptying", tenant |-> prune.tenant,
                 affected |-> prune.affected, gone |-> prune.gone,
                 todo |-> {s \in AffectedRows : EventsOf(Left, s, prune.tenant) = {}},
                 rows |-> [s \in Sessions |-> Untouched]]
    /\ UNCHANGED <<events, sessions, ins, lock, answered, expunged>>

\* A row is locked, waiting for its writer, and deleted; the subquery is not
\* run again on newer events.
RemoveRow(s) ==
    /\ prune.pc = "emptying"
    /\ s \in prune.todo
    /\ lock[s] = Nobody
    /\ lock'  = [lock EXCEPT ![s] = Pruner]
    /\ prune' = [prune EXCEPT !.todo = @ \ {s}, !.rows[s] = NoRow]
    /\ UNCHANGED <<events, sessions, ins, answered, expunged>>

Recompute_WithEmpties ==        \* mutant: reconcile also the rows to be deleted
    /\ prune.pc = "deleted"
    /\ prune' = [pc |-> "recomputing", tenant |-> prune.tenant, gone |-> prune.gone,
                 rows |-> [s \in Sessions |-> Untouched],
                 todo |-> AffectedRows, left |-> Left]
    /\ UNCHANGED <<events, sessions, ins, lock, answered, expunged>>

\* UPDATE sessions SET ... (SELECT ...) starts.
Recompute ==
    /\ prune.pc = "emptying"
    /\ prune.todo = {}
    /\ prune' = [pc |-> "recomputing", tenant |-> prune.tenant, gone |-> prune.gone,
                 rows |-> prune.rows,
                 todo |-> {s \in AffectedRows : prune.rows[s] = Untouched},
                 left |-> Left]
    /\ UNCHANGED <<events, sessions, ins, lock, answered, expunged>>

\* A row is locked, waiting for its writer, and updated in its latest version
\* with aggregates over the statement's snapshot.
RecomputeRow(s) ==
    LET evs == EventsOf(prune.left, s, prune.tenant) IN
    /\ prune.pc = "recomputing"
    /\ s \in prune.todo
    /\ evs # {}         \* otherwise NOT NULL fails, see AbortPrune
    /\ lock[s] = Nobody
    /\ lock'  = [lock EXCEPT ![s] = Pruner]
    /\ prune' = [prune EXCEPT !.todo = @ \ {s},
                              !.rows[s] = Recomputed(sessions[s], evs)]
    /\ UNCHANGED <<events, sessions, ins, answered, expunged>>

CommitPrune ==
    /\ prune.pc = "recomputing"
    /\ prune.todo = {}
    /\ events'   = events \ prune.gone
    /\ sessions' = [s \in Sessions |-> IF prune.rows[s] = Untouched THEN sessions[s]
                                       ELSE prune.rows[s]]
    /\ prune'    = Idle
    /\ expunged' = expunged \cup {e.id : e \in prune.gone}
    /\ Unlock(Pruner)
    /\ UNCHANGED <<ins, answered>>

\* A statement failed, or the job or the server broke: ROLLBACK.
AbortPrune ==
    /\ prune # Idle
    /\ prune' = Idle
    /\ Unlock(Pruner)
    /\ UNCHANGED <<events, sessions, ins, answered, expunged>>

-----------------------------------------------------------------------------
PgInit ==
    /\ Init
    /\ ins = [w \in Workers |-> Idle]
    /\ prune = Idle
    /\ lock = [s \in Sessions |-> Nobody]
    /\ answered = {}
    /\ expunged = {}

InsertStep(w) ==
    \/ InsertRow(w)
    \/ AnswerDuplicate(w)
    \/ UpsertSession(w)
    \/ CommitInsert(w)

PruneStep ==
    \/ DeleteEvents
    \/ DeleteEmpties
    \/ \E s \in Sessions : RemoveRow(s)
    \/ Recompute
    \/ \E s \in Sessions : RecomputeRow(s)
    \/ CommitPrune

PgNext ==
    \/ \E w \in Workers, e \in Event : Begin(w, e)
    \/ \E w \in Workers : InsertStep(w) \/ AbortInsert(w)
    \/ \E t \in Tenants, cutoff \in Cutoffs : SelectAffected(t, cutoff)
    \/ PruneStep
    \/ AbortPrune

PgSpec == PgInit /\ [][PgNext]_pgVars

\* Statements run to their end, and PostgreSQL grants a row or a key to its
\* waiters in the order they queued; nothing obliges anybody to begin.
PgFairness ==
    /\ \A w \in Workers : SF_pgVars(InsertStep(w))
    /\ WF_pgVars(PruneStep)
    /\ \A s \in Sessions : SF_pgVars(RemoveRow(s)) /\ SF_pgVars(RecomputeRow(s))

PgLiveSpec == PgSpec /\ PgFairness

-----------------------------------------------------------------------------
(* Properties *)

InsertTransaction ==
    [pc : {"idle"}]
        \cup [pc : {"begun", "inserted"}, event : Event]
        \cup [pc : {"upserted"}, event : Event, row : SessionRow]

Written == [Sessions -> SessionRow \cup {NoRow, Untouched}]

\* The prune's transaction has its statement's fields.
PruneTypeOK ==
    \/ prune = Idle
    \/ prune \in [pc : {"selected"}, tenant : Tenants, cutoff : Cutoffs,
                 affected : SUBSET Sessions]
    \/ prune \in [pc : {"deleted"}, tenant : Tenants, affected : SUBSET Sessions,
                 gone : SUBSET Event]
    \/ prune \in [pc : {"emptying"}, tenant : Tenants, affected : SUBSET Sessions,
                 gone : SUBSET Event, todo : SUBSET Sessions, rows : Written]
    \/ prune \in [pc : {"recomputing"}, tenant : Tenants, gone : SUBSET Event,
                 rows : Written, todo : SUBSET Sessions, left : SUBSET Event]

\* Every variable has its type, the open transactions' records included.
PgTypeOK ==
    /\ TypeOK
    /\ ins \in [Workers -> InsertTransaction]
    /\ PruneTypeOK
    /\ lock \in [Sessions -> Workers \cup {Pruner, Nobody}]
    /\ answered \subseteq Ids
    /\ expunged \subseteq Ids

Inserting(w) == ins[w].pc \in {"inserted", "upserted"}

\* What an open insert may rely on until it commits, whatever the others do:
\* nobody else stores its id, and nobody else writes its session's row, so
\* the row it computed is still the one its commit should write.
InsertsIsolated ==
    \A w \in Workers : Inserting(w) =>
        /\ ~Stored(ins[w].event.id)
        /\ \A v \in Workers : Inserting(v) /\ ins[v].event.id = ins[w].event.id => v = w
        /\ ins[w].pc = "upserted" =>
              /\ lock[ins[w].event.session] = w
              /\ ins[w].row = Upsert(sessions[ins[w].event.session], ins[w].event)

\* Emitters post into the sessions they may use.
EmittersEntitled ==
    \A w \in Workers : ins[w] # Idle =>
        ins[w].event.session \in MayUse[ins[w].event.tenant]

\* The prune writes no row that it has not locked, and a row it is about to
\* recount is there.
PruneLocks ==
    /\ prune.pc \in {"emptying", "recomputing"} =>
          \A s \in Sessions : prune.rows[s] # Untouched => lock[s] = Pruner
    /\ prune.pc = "recomputing" => \A s \in prune.todo : sessions[s] # NoRow

PgIInv ==
    /\ PgTypeOK
    /\ InsertsIsolated
    /\ EmittersEntitled
    /\ PruneLocks
    /\ UniqueIds

\* The concurrent insertEvent transactions implement the one-step inserts of
\* EventStore, also while a prune runs: a commit is an InsertEvent, and of
\* all other steps only the prune's commit shows in the tables.
ImplementsEventStore == Init /\ [][Next \/ CommitPrune]_vars

\* Whatever an emitter was told, "accepted" or "duplicate", its event is in
\* the table or a prune expired it: no answer is given on the strength of a
\* row that another transaction may still take back.
AnsweredIsStored == \A i \in answered : Stored(i) \/ i \in expunged

\* "Delete-empties must run BEFORE reconcile so reconcile never hits a
\* zero-event session" (postgres.js): also with inserts committing between
\* the two statements' snapshots.
ReconcileHasEvents ==
    prune.pc = "recomputing" =>
        \A s \in prune.todo : EventsOf(prune.left, s, prune.tenant) # {}

\* Transaction p may be waiting for q: for a key that q has written or deleted,
\* or for a row that q has locked.
InsertWaits(w, q) ==
    \/ /\ ins[w].pc = "begun" /\ q \in Workers
       /\ Inserting(q) /\ ins[q].event.id = ins[w].event.id
    \/ /\ ins[w].pc = "begun" /\ q = Pruner
       /\ prune.pc \in {"deleted", "emptying", "recomputing"}
       /\ \E e \in prune.gone : e.id = ins[w].event.id
    \/ ins[w].pc = "inserted" /\ lock[ins[w].event.session] = q

PruneWaits(q) ==
    prune.pc \in {"emptying", "recomputing"} /\ \E s \in prune.todo : lock[s] = q

Waits(p, q) == p # q /\ IF p = Pruner THEN PruneWaits(q) ELSE InsertWaits(p, q)

\* No transactions wait for each other in a circle: not the inserts, each of
\* which takes a key and then a row, nor a prune that has deleted keys, holds
\* some session rows and asks for more.  In any set of them one waits for none.
NoDeadlock ==
    \A C \in (SUBSET (Workers \cup {Pruner})) \ {{}} :
        \E p \in C : \A q \in C : ~Waits(p, q)

\* A transaction that was begun is answered or fails, whoever else writes the
\* same id or the same session.
TransactionsEnd ==
    /\ \A w \in Workers : ins[w].pc = "begun" ~> ins[w] = Idle
    /\ prune.pc = "selected" ~> prune = Idle

\* Every stored event belongs to a session that the sessions list shows
\* (interface.js, pruneEventsBefore: only "sessions that lost all their
\* events are deleted").
NoOrphanEvents == \A e \in events : sessions[e.session] # NoRow
=============================================================================
