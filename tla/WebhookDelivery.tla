-------------------------- MODULE WebhookDelivery --------------------------
(***************************************************************************)
(* Webhook delivery (src/webhookDelivery.js): an ingested event is fanned  *)
(* out to its tenant's enabled webhooks; each delivery takes a slot of a   *)
(* global semaphore, records a webhook_deliveries row, signs the body,     *)
(* POSTs it with bounded retries and records the outcome.                  *)
(*                                                                         *)
(* Node runs one callback at a time and every `await` lets others run: a   *)
(* step below is the code between two awaits.  What an await continues     *)
(* with is a microtask, and the microtasks are drained before the next     *)
(* network answer or timer is heard.  With SQLite a query is answered by a *)
(* microtask too; with PostgreSQL its answer comes from the network.       *)
(* Each event has a type that every webhook's filter takes; a webhook that *)
(* does not match is like one that is disabled.                            *)
(***************************************************************************)
EXTENDS Integers, Sequences, FiniteSets, SequencesExt

CONSTANTS
    Events,         \* ingested events
    Hooks,          \* webhooks of the tenant
    MaxConcurrent,  \* WEBHOOK_MAX_CONCURRENT
    MaxRetries,     \* WEBHOOK_MAX_RETRIES
    SyncDb          \* the storage backend is SQLite

ASSUME DeliveryAssumption ==
    /\ IsFiniteSet(Events) /\ IsFiniteSet(Hooks)
    /\ MaxConcurrent \in Nat \ {0}
    /\ MaxRetries \in Nat
    /\ SyncDb \in BOOLEAN

VARIABLES
    hooks,      \* table webhooks: hook -> "enabled", "disabled" or "deleted"
    event,      \* event -> "new", "scheduled" (scheduleDelivery) or "dispatched"
    pc,         \* delivery -> where its deliverToWebhook stands
    tries,      \* delivery -> attempts made
    result,     \* delivery -> outcome of deliverWithRetries, or "none"
    row,        \* table webhook_deliveries: delivery -> status, or "none"
    received,   \* deliveries the receiver has accepted
    active,     \* Semaphore.active
    queue,      \* Semaphore.queue
    woken       \* waiters resolved by release() that have not run again yet

sem == <<active, queue, woken>>
vars == <<hooks, event, pc, tries, result, row, received, sem>>

Deliveries == Events \X Hooks

(* The event loop *)

\* The places where a delivery waits for something other than a microtask.
Resting ==
    {"none", "waiting", "posting", "sleeping", "done"}
        \cup IF SyncDb THEN {} ELSE {"slot", "created", "recording"}

\* Nothing is left to do before the network and the timers are heard again.
NoMicrotasks ==
    /\ woken = {}
    /\ \A d \in Deliveries : pc[d] \in Resting
    /\ SyncDb => \A e \in Events : event[e] # "scheduled"

\* When the answer to a query is heard.
DbAnswers == SyncDb \/ NoMicrotasks

-----------------------------------------------------------------------------
(* The tenant's requests *)

\* PATCH /webhooks/:id with { enabled }.
Patch(h, status) ==
    /\ hooks[h] # "deleted"
    /\ hooks' = [hooks EXCEPT ![h] = status]
    /\ UNCHANGED <<event, pc, tries, result, row, received, sem>>

\* DELETE /webhooks/:id; its delivery rows stay.
Delete(h) ==
    /\ hooks[h] # "deleted"
    /\ hooks' = [hooks EXCEPT ![h] = "deleted"]
    /\ UNCHANGED <<event, pc, tries, result, row, received, sem>>

\* POST /events stored a new event and calls scheduleDelivery.  (With SQLite,
\* the requests pipelined on one connection are handled in one turn.)
Schedule(e) ==
    /\ DbAnswers
    /\ event[e] = "new"
    /\ event' = [event EXCEPT ![e] = "scheduled"]
    /\ UNCHANGED <<hooks, pc, tries, result, row, received, sem>>

-----------------------------------------------------------------------------
(* dispatchEvent: the matching webhooks are those of this moment; every    *)
(* delivery calls acquire() in the same callback, in list order.           *)

Free_OffByOne ==        \* mutant: active <= max
    IF active <= MaxConcurrent THEN MaxConcurrent + 1 - active ELSE 0

Free == IF active < MaxConcurrent THEN MaxConcurrent - active ELSE 0

Least(m, n) == IF m < n THEN m ELSE n

\* acquire() for each delivery of the sequence ds.
Acquire(ds) ==
    LET k == Least(Free, Len(ds)) IN
    /\ active' = active + k
    /\ queue'  = queue \o SubSeq(ds, k + 1, Len(ds))
    /\ pc'     = [d \in Deliveries |->
                    CASE \E i \in 1..k : ds[i] = d           -> "slot"
                      [] \E i \in (k + 1)..Len(ds) : ds[i] = d -> "waiting"
                      [] OTHER                               -> pc[d]]

Dispatch(e) ==
    /\ DbAnswers
    /\ event[e] = "scheduled"
    /\ event' = [event EXCEPT ![e] = "dispatched"]
    /\ \E order \in SetToSeqs({h \in Hooks : hooks[h] = "enabled"}) :
          Acquire([i \in 1..Len(order) |-> <<e, order[i]>>])
    /\ UNCHANGED <<hooks, tries, result, row, received, woken>>

\* listWebhooks failed: the error is logged and nobody is told of the event.
DispatchFails(e) ==
    /\ DbAnswers
    /\ event[e] = "scheduled"
    /\ event' = [event EXCEPT ![e] = "dispatched"]
    /\ UNCHANGED <<hooks, pc, tries, result, row, received, sem>>

-----------------------------------------------------------------------------
(* deliverToWebhook *)

Goto(d, from, to) == pc[d] = from /\ pc' = [pc EXCEPT ![d] = to]

CreateRow(d) ==
    /\ DbAnswers
    /\ Goto(d, "slot", "created")
    /\ row' = [row EXCEPT ![d] = "pending"]
    /\ UNCHANGED <<hooks, event, tries, result, received, sem>>

\* createWebhookDelivery threw, from its INSERT or from reading the row back:
\* no attempt is made.
CreateRowFails(d) ==
    /\ DbAnswers
    /\ Goto(d, "slot", "ending")
    /\ row' \in {row, [row EXCEPT ![d] = "pending"]}
    /\ UNCHANGED <<hooks, event, tries, result, received, sem>>

\* getWebhookSigningSecret: found, gone with its webhook, or the query threw.
\* The delivery goes on in each case, with a signature or without one.
FetchSecret(d) ==
    /\ DbAnswers
    /\ Goto(d, "created", "ready")
    /\ UNCHANGED <<hooks, event, tries, result, row, received, sem>>

\* deliverOnce starts: the POST leaves.
Post(d) ==
    /\ Goto(d, "ready", "posting")
    /\ tries' = [tries EXCEPT ![d] = @ + 1]
    /\ UNCHANGED <<hooks, event, result, row, received, sem>>

\* deliverOnce refuses the target or the size; nothing leaves, no retry.
Refuse(d) ==
    /\ Goto(d, "ready", "recording")
    /\ tries'  = [tries EXCEPT ![d] = @ + 1]
    /\ result' = [result EXCEPT ![d] = "failed"]
    /\ UNCHANGED <<hooks, event, row, received, sem>>

\* A 2xx answer.
AnswerOk(d) ==
    /\ NoMicrotasks
    /\ Goto(d, "posting", "recording")
    /\ result'   = [result EXCEPT ![d] = "success"]
    /\ received' = received \cup {d}
    /\ UNCHANGED <<hooks, event, tries, row, sem>>

\* A 4xx answer other than 408 and 429.
AnswerPermanent(d) ==
    /\ NoMicrotasks
    /\ Goto(d, "posting", "recording")
    /\ result' = [result EXCEPT ![d] = "failed"]
    /\ UNCHANGED <<hooks, event, tries, row, received, sem>>

AnswerTransient_SuccessOnTimeout(d) ==  \* mutant: an unanswered POST counts as done
    /\ NoMicrotasks
    /\ Goto(d, "posting", "recording")
    /\ result' = [result EXCEPT ![d] = "success"]
    /\ received' \in {received, received \cup {d}}
    /\ UNCHANGED <<hooks, event, tries, row, sem>>

\* 408, 429, 5xx, a network error or a timeout.  The receiver may have
\* accepted the event all the same.
AnswerTransient(d) ==
    /\ NoMicrotasks
    /\ received' \in {received, received \cup {d}}
    /\ IF tries[d] <= MaxRetries
       THEN /\ Goto(d, "posting", "sleeping")
            /\ UNCHANGED result
       ELSE /\ Goto(d, "posting", "recording")
            /\ result' = [result EXCEPT ![d] = "failed"]
    /\ UNCHANGED <<hooks, event, tries, row, sem>>

\* The backoff timer fires.
Retry(d) ==
    /\ NoMicrotasks
    /\ Goto(d, "sleeping", "ready")
    /\ UNCHANGED <<hooks, event, tries, result, row, received, sem>>

\* updateWebhookDelivery.
Record(d) ==
    /\ DbAnswers
    /\ Goto(d, "recording", "ending")
    /\ row' = [row EXCEPT ![d] = result[d]]
    /\ UNCHANGED <<hooks, event, tries, result, received, sem>>

\* It threw, before or after its UPDATE: logged, the row may stay "pending".
RecordFails(d) ==
    /\ DbAnswers
    /\ Goto(d, "recording", "ending")
    /\ row' \in {row, [row EXCEPT ![d] = result[d]]}
    /\ UNCHANGED <<hooks, event, tries, result, received, sem>>

-----------------------------------------------------------------------------
(* The semaphore *)

\* deliverToWebhook returned: its local variables are gone.
Forget(d) ==
    /\ tries'  = [tries EXCEPT ![d] = 0]
    /\ result' = [result EXCEPT ![d] = "none"]

Release_NoShift(d) ==       \* mutant: release() forgets the waiters
    /\ Goto(d, "ending", "done")
    /\ active' = active - 1
    /\ Forget(d)
    /\ UNCHANGED <<hooks, event, row, received, queue, woken>>

\* release(), in the finally clause: the first waiter's promise is resolved.
Release(d) ==
    /\ Goto(d, "ending", "done")
    /\ active' = active - 1
    /\ Forget(d)
    /\ IF queue = <<>>
       THEN UNCHANGED <<queue, woken>>
       ELSE /\ queue' = Tail(queue)
            /\ woken' = woken \cup {Head(queue)}
    /\ UNCHANGED <<hooks, event, row, received>>

Resume_NoCount(d) ==        \* mutant: the woken waiter does not count itself
    /\ d \in woken
    /\ Goto(d, "waiting", "slot")
    /\ woken' = woken \ {d}
    /\ UNCHANGED <<hooks, event, tries, result, row, received, active, queue>>

\* acquire() goes on after its await: the slot is counted only now.
Resume(d) ==
    /\ d \in woken
    /\ Goto(d, "waiting", "slot")
    /\ woken'  = woken \ {d}
    /\ active' = active + 1
    /\ UNCHANGED <<hooks, event, tries, result, row, received, queue>>

-----------------------------------------------------------------------------
\* The process dies and starts again: the tables survive, everything that
\* was in memory is gone and nothing resumes it.
Crash ==
    /\ event' = [e \in Events |-> IF event[e] = "scheduled" THEN "dispatched" ELSE event[e]]
    /\ pc'    = [d \in Deliveries |-> IF pc[d] = "none" THEN "none" ELSE "done"]
    /\ tries'  = [d \in Deliveries |-> 0]
    /\ result' = [d \in Deliveries |-> "none"]
    /\ active' = 0
    /\ queue'  = <<>>
    /\ woken'  = {}
    /\ UNCHANGED <<hooks, row, received>>

Init ==
    /\ hooks    = [h \in Hooks |-> "enabled"]
    /\ event    = [e \in Events |-> "new"]
    /\ pc       = [d \in Deliveries |-> "none"]
    /\ tries    = [d \in Deliveries |-> 0]
    /\ result   = [d \in Deliveries |-> "none"]
    /\ row      = [d \in Deliveries |-> "none"]
    /\ received = {}
    /\ active   = 0
    /\ queue    = <<>>
    /\ woken    = {}

Run(d) ==
    \/ CreateRow(d)  \/ CreateRowFails(d)
    \/ FetchSecret(d) \/ Post(d) \/ Refuse(d)
    \/ AnswerOk(d)   \/ AnswerPermanent(d) \/ AnswerTransient(d)
    \/ Retry(d)
    \/ Record(d)     \/ RecordFails(d)
    \/ Release(d)    \/ Resume(d)

Tenant ==
    \/ \E h \in Hooks : Delete(h) \/ \E status \in {"enabled", "disabled"} : Patch(h, status)
    \/ \E e \in Events : Schedule(e)

\* What a process does as long as it lives.
Work ==
    \/ \E e \in Events : Dispatch(e) \/ DispatchFails(e)
    \/ \E d \in Deliveries : Run(d)

Next == Tenant \/ Work \/ Crash

Spec == Init /\ [][Next]_vars

\* While a process lives its microtasks run, every POST is answered or times
\* out (timeoutMs), every backoff timer fires and every query returns.
LiveSpec ==
    /\ Spec
    /\ \A e \in Events : WF_vars(Dispatch(e) \/ DispatchFails(e))
    /\ \A d \in Deliveries : WF_vars(Run(d))

-----------------------------------------------------------------------------
(* Properties *)

Places == {"none", "waiting", "slot", "created", "ready", "posting",
           "sleeping", "recording", "ending", "done"}

\* Every variable has its type.
TypeOK ==
    /\ hooks \in [Hooks -> {"enabled", "disabled", "deleted"}]
    /\ event \in [Events -> {"new", "scheduled", "dispatched"}]
    /\ pc \in [Deliveries -> Places]
    /\ tries \in [Deliveries -> Nat]
    /\ result \in [Deliveries -> {"none", "success", "failed"}]
    /\ row \in [Deliveries -> {"none", "pending", "success", "failed"}]
    /\ received \subseteq Deliveries
    /\ active \in Nat
    /\ queue \in Seq(Deliveries)
    /\ woken \subseteq Deliveries

Holding(d) == pc[d] \notin {"none", "waiting", "done"}

\* A slot is counted exactly while a delivery holds it, through every failure
\* path: none leaks, none is given back twice.
SlotsAccounted == active = Cardinality({d \in Deliveries : Holding(d)})

\* A delivery waits in exactly one place, once.
WaitersAccounted ==
    /\ \A i, j \in 1..Len(queue) : queue[i] = queue[j] => i = j
    /\ \A i \in 1..Len(queue) : queue[i] \notin woken
    /\ \A d \in Deliveries :
          pc[d] = "waiting" <=> d \in woken \/ \E i \in 1..Len(queue) : queue[i] = d

\* The semaphore's counter and queue tell the truth about the deliveries in
\* progress.
SemaphoreAccounted == SlotsAccounted /\ WaitersAccounted

\* No lost wakeup: while deliveries wait, the slots are all taken or already
\* promised to woken waiters.
NoLostWakeup == queue # <<>> => active + Cardinality(woken) >= MaxConcurrent

\* The log of deliveries does not lie: "success" is recorded only for an
\* event that the receiver accepted, and nothing reaches a receiver without
\* leaving a row, also when answers are lost, queries fail and the process
\* dies between the steps.  A POST is repeated MaxRetries times at most.
OutcomesTrue ==
    \A d \in Deliveries :
        /\ row[d] = "success" => d \in received
        /\ result[d] = "success" => d \in received
        /\ d \in received => row[d] # "none"
        /\ tries[d] <= MaxRetries + 1

\* Every delivery comes to its end, with its slot given back, however many
\* wait for the semaphore.
DeliveriesEnd ==
    \A d \in Deliveries : pc[d] = "waiting" \/ Holding(d) ~> pc[d] = "done"

\* "max concurrent in-flight deliveries" (OPERATIONS.md): never more slots in
\* use than WEBHOOK_MAX_CONCURRENT.
ConcurrencyBounded == active <= MaxConcurrent

\* The inductive invariant behind them.  What they lack on their own: where a
\* delivery stands when its row exists, its result is known and a further
\* attempt is allowed, and that an event is dispatched once.
EventOf(d) == d[1]

Undispatched == \A d \in Deliveries : event[EventOf(d)] # "dispatched" => pc[d] = "none"

RowsFollow ==
    \A d \in Deliveries :
        /\ pc[d] \in {"created", "ready", "posting", "sleeping", "recording"} => row[d] # "none"
        /\ pc[d] = "recording" => result[d] # "none"
        /\ pc[d] # "posting" => tries[d] <= MaxRetries
            \/ pc[d] \in {"recording", "ending"}

IInv ==
    /\ TypeOK
    /\ SlotsAccounted
    /\ WaitersAccounted
    /\ NoLostWakeup
    /\ Undispatched
    /\ RowsFollow
    /\ OutcomesTrue
=============================================================================
