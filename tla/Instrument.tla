----------------------------- MODULE Instrument -----------------------------
(***************************************************************************)
(* Auto-instrumentation of LangGraph in the Node SDK                       *)
(* (sdks/node/src/instrument.ts): instrument() patches the graph class so  *)
(* that every graph run carries a callback handler; the handler's          *)
(* LangGraphMapper and EmissionCore turn callbacks into events with their  *)
(* sessions, traces and causes; the Emitter posts the events one by one.   *)
(*                                                                         *)
(* Every instrument() that gets through makes an EmissionCore.  One of     *)
(* them, Me, is modelled in detail, of the others only which runs they     *)
(* hear of.  The JavaScript between two awaits is one step.  A session or  *)
(* trace id is named by the run for which it was generated, an event by    *)
(* its position in the order of building.                                  *)
(***************************************************************************)
EXTENDS Integers, Sequences, FiniteSets, SequencesExt

CONSTANTS
    NumRuns,    \* runs of graphs, nodes, intermediate runnables and tools
    Cores,      \* EmissionCores that calls of instrument() can make
    Me,         \* the one whose events are modelled
    MaxRuns,    \* cap of the table of tracked runs
    MaxQueue,   \* cap of the emit queue
    MaxCalls,   \* bound: instrument() calls waiting for their imports
    None        \* "no run", "no core"

\* A run id is fresh: the runs are numbered in the order they start.
Runs == 1..NumRuns

ASSUME InstrumentAssumption ==
    /\ NumRuns \in Nat
    /\ Me \in Cores
    /\ None \notin Runs \cup Cores
    /\ MaxRuns \in Nat
    /\ MaxQueue \in Nat \ {0}
    /\ MaxCalls \in Nat

VARIABLES
    current,    \* _state: the core that instrument() installed, or None
    patches,    \* who has patched invoke() and stream(), innermost first
    calls,      \* instrument() calls that await their imports
    made,       \* the cores that exist
    life,       \* life[r]: "new", "live" or "over", as the framework sees it
    kind,       \* kind[r]: "chain" or "tool"
    hears,      \* hears[r]: the cores whose handler r's callbacks reach
    table,      \* EmissionCore.runs, a Map in insertion order
    evicted,    \* EmissionCore.evicted
    log,        \* the events built
    queue,      \* Emitter.queue
    posting,    \* the event that the drain loop awaits (draining is true)
    late,       \* events whose POST was given up before it arrived
    stored      \* events that have arrived at the server

patchVars == <<current, patches, calls, made>>
frameVars == <<life, kind, hears>>
coreVars  == <<table, evicted, log>>
netVars   == <<late, stored>>
vars == <<patchVars, frameVars, coreVars, queue, posting, netVars>>

-----------------------------------------------------------------------------
(* instrument(), uninstrument() *)

\* "if (_state) return true": only then nothing happens.
Instrument ==
    /\ current = None
    /\ calls < MaxCalls
    /\ calls' = calls + 1
    /\ UNCHANGED <<current, patches, made, frameVars, coreVars, queue, posting, netVars>>

\* The imports are there: patch whatever invoke() and stream() are now.
Installed(c) ==
    /\ calls > 0
    /\ c \notin made
    /\ calls'   = calls - 1
    /\ made'    = made \cup {c}
    /\ patches' = Append(patches, c)
    /\ current' = c
    /\ UNCHANGED <<frameVars, coreVars, queue, posting, netVars>>

\* The framework is not installed: a warning.
ImportFails ==
    /\ calls > 0
    /\ calls' = calls - 1
    /\ UNCHANGED <<current, patches, made, frameVars, coreVars, queue, posting, netVars>>

\* The methods are again what they were when the current core patched them;
\* its handler stays with the runs that have it.
Uninstrument ==
    /\ current # None
    /\ patches' = SubSeq(patches, 1, SelectInSeq(patches, LAMBDA c : c = current) - 1)
    /\ current' = None
    /\ UNCHANGED <<calls, made, frameVars, coreVars, queue, posting, netVars>>

Injected_Own ==         \* mutant: a patched method injects its own handler
    Range(patches)

\* The handlers that the patched methods, each calling the next, add to the
\* config of a graph run: each adds the current core's unless it is there.
Injected == IF patches = <<>> \/ current = None THEN {} ELSE {current}

-----------------------------------------------------------------------------
(* Emitter *)

Submitted_NoFlag(sender, n) ==  \* mutant: submit() always starts a loop
    IF Len(sender.queue) >= MaxQueue THEN sender
    ELSE LET q == Append(sender.queue, n)
         IN  [queue |-> Tail(q), posting |-> sender.posting \cup {Head(q)}]

\* submit(): drop, or push and, unless it is running, start the drain loop.
Submitted(sender, n) ==
    IF Len(sender.queue) >= MaxQueue THEN sender
    ELSE LET q == Append(sender.queue, n)
         IN  IF sender.posting # {} THEN [sender EXCEPT !.queue = q]
             ELSE [queue |-> Tail(q), posting |-> {Head(q)}]

\* emit() of one or two events, in order.
Emit(es) ==
    LET one == Submitted([queue |-> queue, posting |-> posting], Len(log) + 1)
        all == IF Len(es) = 1 THEN one ELSE Submitted(one, Len(log) + 2)
    IN  /\ log'     = log \o es
        /\ queue'   = all.queue
        /\ posting' = all.posting

\* The awaited emit() is over: the loop takes the next event or ends.
Drain(n) ==
    IF queue = <<>>
    THEN posting' = posting \ {n} /\ UNCHANGED queue
    ELSE posting' = (posting \ {n}) \cup {Head(queue)} /\ queue' = Tail(queue)

\* The server ingests a posted event, in time or after the client gave up.
Arrive(n) ==
    /\ n \in (posting \cup late) \ stored
    /\ stored' = stored \cup {n}
    /\ UNCHANGED <<patchVars, frameVars, coreVars, queue, posting, late>>

\* An answer: the event was ingested, or refused for good.
Answer(n) ==
    /\ n \in posting
    /\ Drain(n)
    /\ UNCHANGED <<patchVars, frameVars, coreVars, netVars>>

TimeOut_NoCatch(n) ==   \* mutant: the exception ends the drain loop
    /\ n \in posting
    /\ posting' = posting \ {n}
    /\ late' = late \cup {n}
    /\ UNCHANGED <<patchVars, frameVars, coreVars, queue, stored>>

\* No answer within timeoutMs: abort(), and the exception is swallowed.
TimeOut(n) ==
    /\ n \in posting
    /\ Drain(n)
    /\ late' = late \cup {n}
    /\ UNCHANGED <<patchVars, frameVars, coreVars, stored>>

-----------------------------------------------------------------------------
(* EmissionCore: the table of tracked runs *)

Tracked(r) == \E i \in DOMAIN table : table[i].run = r

PlaceOf(r) == CHOOSE i \in DOMAIN table : table[i].run = r

InfoOf(r) == table[PlaceOf(r)]

Untracked(r) == RemoveAt(table, PlaceOf(r))

\* put(): over the cap, the run that was tracked first is forgotten.
Put(info) ==
    LET t == Append(table, info) IN
    IF Len(t) > MaxRuns THEN table' = Tail(t) /\ evicted' = evicted + 1
                        ELSE table' = t /\ UNCHANGED evicted

\* The parent's entry, when the parent is given and tracked.
Parent(p) == IF p # None /\ Tracked(p) THEN {InfoOf(p)} ELSE {}

\* A root opens a session and a trace of its own; a sub-agent is handed off
\* to from its parent's session, and opens a session in its parent's trace.
OpenAgentRun(r, p) ==
    LET n == Len(log) IN
    \/ /\ Parent(p) = {}
       /\ Emit(<<[type |-> "task.created", run |-> r, session |-> r, trace |-> r, cause |-> 0]>>)
       /\ Put([run |-> r, session |-> r, trace |-> r, open |-> n + 1,
               handoff |-> 0, upper |-> None])
    \/ \E parent \in Parent(p) :
       /\ Emit(<<[type |-> "handoff.started", run |-> r, session |-> parent.session,
                  trace |-> parent.trace, cause |-> parent.open],
                 [type |-> "task.created", run |-> r, session |-> r,
                  trace |-> parent.trace, cause |-> n + 1]>>)
       /\ Put([run |-> r, session |-> r, trace |-> parent.trace, open |-> n + 2,
               handoff |-> n + 1, upper |-> parent.session])

CloseAgentRun_KeepEntry(r) ==   \* mutant: get() without delete()
    LET info == InfoOf(r) IN
    /\ Emit(<<[type |-> "task.ended", run |-> r, session |-> info.session,
               trace |-> info.trace, cause |-> info.open]>>)
    /\ UNCHANGED <<table, evicted>>

\* task.completed or task.failed, and the end of the hand-off that opened
\* the run in the parent's session.
CloseAgentRun(r) ==
    LET info == InfoOf(r)
        end  == [type |-> "task.ended", run |-> r, session |-> info.session,
                 trace |-> info.trace, cause |-> info.open]
        back == [type |-> "handoff.completed", run |-> r, session |-> info.upper,
                 trace |-> info.trace, cause |-> info.handoff]
    IN  /\ Emit(IF info.handoff = 0 THEN <<end>> ELSE <<end, back>>)
        /\ table' = Untracked(r)
        /\ UNCHANGED evicted

OpenToolRun_OwnTrace(r, p) ==   \* mutant: a tool always gets a trace of its own
    LET parent == CHOOSE info \in Parent(p) \cup {[session |-> r, open |-> 0]} :
                      Parent(p) # {} => info \in Parent(p)
    IN  /\ Emit(<<[type |-> "tool.called", run |-> r, session |-> parent.session,
                   trace |-> r, cause |-> parent.open]>>)
        /\ Put([run |-> r, session |-> parent.session, trace |-> r,
                open |-> Len(log) + 1, handoff |-> 0, upper |-> None])

\* A tool call belongs to its parent's session; without one it stands alone.
OpenToolRun(r, p) ==
    \/ /\ Parent(p) = {}
       /\ Emit(<<[type |-> "tool.called", run |-> r, session |-> r, trace |-> r, cause |-> 0]>>)
       /\ Put([run |-> r, session |-> r, trace |-> r, open |-> Len(log) + 1,
               handoff |-> 0, upper |-> None])
    \/ \E parent \in Parent(p) :
       /\ Emit(<<[type |-> "tool.called", run |-> r, session |-> parent.session,
                  trace |-> parent.trace, cause |-> parent.open]>>)
       /\ Put([run |-> r, session |-> parent.session, trace |-> parent.trace,
               open |-> Len(log) + 1, handoff |-> 0, upper |-> parent.upper])

\* closeToolRun() or failToolRun(): tool.result or error.raised.
CloseToolRun(r) ==
    LET info == InfoOf(r) IN
    /\ Emit(<<[type |-> "tool.ended", run |-> r, session |-> info.session,
               trace |-> info.trace, cause |-> info.open]>>)
    /\ table' = Untracked(r)
    /\ UNCHANGED evicted

-----------------------------------------------------------------------------
(* The callbacks, as the framework makes them *)

Starts(r, k, p) ==
    /\ life[r] = "new"
    /\ \A q \in 1..(r - 1) : life[q] # "new"
    /\ p # None => life[p] = "live" /\ kind[p] = "chain"
    /\ life'  = [life EXCEPT ![r] = "live"]
    /\ kind'  = [kind EXCEPT ![r] = k]
    /\ hears' = [hears EXCEPT ![r] = IF p = None THEN Injected ELSE hears[p]]
    /\ UNCHANGED <<patchVars, netVars>>

\* A chain of a graph: the graph itself, a node, an intermediate runnable, or
\* one that the framework tags as hidden.
HandleChainStart(r, p, node, hidden) ==
    /\ Starts(r, "chain", p)
    /\ IF Me \in hears'[r] /\ ~hidden /\ (p = None \/ node)
       THEN OpenAgentRun(r, p)
       ELSE UNCHANGED <<coreVars, queue, posting>>

HandleToolStart(r, p) ==
    /\ Starts(r, "tool", p)
    /\ IF Me \in hears'[r]
       THEN OpenToolRun(r, p)
       ELSE UNCHANGED <<coreVars, queue, posting>>

Ends(r, k) ==
    /\ life[r] = "live"
    /\ kind[r] = k
    /\ life' = [life EXCEPT ![r] = "over"]
    /\ UNCHANGED <<patchVars, kind, hears, netVars>>

\* A run may end before the runs it started.
HandleChainEnd(r) ==
    /\ Ends(r, "chain")
    /\ IF Tracked(r) THEN CloseAgentRun(r)
                     ELSE UNCHANGED <<coreVars, queue, posting>>

HandleToolEnd(r) ==
    /\ Ends(r, "tool")
    /\ IF Tracked(r) THEN CloseToolRun(r)
                     ELSE UNCHANGED <<coreVars, queue, posting>>

\* The host process ends, with or without a flush().
Exit ==
    /\ life'    = [r \in Runs |-> "over"]
    /\ queue'   = <<>>
    /\ posting' = {}
    /\ late'    = late \cup posting
    /\ current' = None
    /\ calls'   = 0
    /\ made'    = Cores
    /\ UNCHANGED <<patches, kind, hears, coreVars, stored>>

-----------------------------------------------------------------------------
Init ==
    /\ current = None /\ patches = <<>> /\ calls = 0 /\ made = {}
    /\ life  = [r \in Runs |-> "new"]
    /\ kind  = [r \in Runs |-> "chain"]
    /\ hears = [r \in Runs |-> {}]
    /\ table = <<>> /\ evicted = 0 /\ log = <<>>
    /\ queue = <<>> /\ posting = {} /\ late = {} /\ stored = {}

Parents == Runs \cup {None}

Callback ==
    \E r \in Runs :
        \/ \E p \in Parents, node, hidden \in BOOLEAN : HandleChainStart(r, p, node, hidden)
        \/ \E p \in Parents : HandleToolStart(r, p)
        \/ HandleChainEnd(r)
        \/ HandleToolEnd(r)

Network == \E n \in 1..Len(log) : Arrive(n) \/ Answer(n) \/ TimeOut(n)

Next ==
    \/ Instrument \/ ImportFails \/ Uninstrument
    \/ \E c \in Cores : Installed(c)
    \/ Callback
    \/ Network
    \/ Exit

Spec == Init /\ [][Next]_vars

\* Every POST is answered or aborted after timeoutMs, and the loop goes on.
LiveSpec == Spec /\ WF_vars(\E n \in 1..Len(log) : Answer(n) \/ TimeOut(n))

-----------------------------------------------------------------------------
(* Properties *)

OpenTypes == {"task.created", "tool.called"}
EndTypes  == {"task.ended", "tool.ended"}

Event == [type : OpenTypes \cup EndTypes \cup {"handoff.started", "handoff.completed"},
          run : Runs, session : Runs, trace : Runs, cause : Nat]

Info == [run : Runs, session : Runs, trace : Runs, open : Nat \ {0}, handoff : Nat,
         upper : Runs \cup {None}]

TypeOK ==
    /\ current \in Cores \cup {None} /\ patches \in Seq(Cores)
    /\ calls \in Nat /\ made \subseteq Cores
    /\ life \in [Runs -> {"new", "live", "over"}]
    /\ kind \in [Runs -> {"chain", "tool"}]
    /\ hears \in [Runs -> SUBSET Cores]
    /\ table \in Seq(Info) /\ evicted \in Nat /\ log \in Seq(Event)
    /\ queue \in Seq(1..Len(log))
    /\ posting \subseteq 1..Len(log) /\ late \subseteq 1..Len(log)
    /\ stored \subseteq 1..Len(log)

\* Events wait in the order they were built, behind the one being posted;
\* none of them has been posted before.
QueueInOrder ==
    /\ \A n, m \in posting : n = m
    /\ posting = {} => queue = <<>>
    /\ \A i, j \in DOMAIN queue : i < j => queue[i] < queue[j]
    /\ \A i \in DOMAIN queue : \A n \in posting \cup late \cup stored : n < queue[i]
    /\ \A n \in posting : \A m \in late \cup stored : m <= n
    /\ posting \cap late = {}

Fate(n) ==
    IF n \in stored THEN "received"
    ELSE IF n \in posting \cup Range(queue) THEN "pending"
    ELSE IF n \in late THEN "unknown"
    ELSE "lost"

Channel == INSTANCE TelemetryChannel WITH fate <- [n \in 1..Len(log) |-> Fate(n)]

\* Callbacks that build events in bursts, a bounded queue, one drain loop,
\* timeouts and the end of the process make a channel that delivers in
\* order, at most once.
ImplementsChannel == Channel!Spec

CountOf(types) == Cardinality({n \in 1..Len(log) : log[n].type \in types})

\* The events form one tree per trace, also when runs end before the runs
\* they started or are evicted ("One trace_id per run; every causation_id
\* resolves to a real emitted event"): a cause precedes its effect and shares
\* its trace, a trace has one event without a cause, a hand-off is completed
\* in the session where it was started.
TracesAreTrees ==
    \A n \in 1..Len(log) : LET e == log[n] IN
        /\ e.cause < n
        /\ e.cause # 0 => log[e.cause].trace = e.trace
        /\ e.cause = 0 => \A m \in 1..Len(log) : log[m].trace = e.trace /\ log[m].cause = 0 => m = n
        /\ e.type = "handoff.completed" =>
              /\ log[e.cause].type = "handoff.started"
              /\ log[e.cause].session = e.session /\ log[e.cause].run = e.run

\* Runs are reported to the end or counted: what was opened has ended once,
\* is still tracked, or is in the count of evicted runs.
RunsAccounted ==
    /\ CountOf(OpenTypes) = CountOf(EndTypes) + Len(table) + evicted
    /\ Len(table) <= MaxRuns
    /\ \A n, m \in 1..Len(log) :
          log[n].type \in EndTypes /\ log[m].type \in EndTypes /\ log[n].run = log[m].run => n = m

\* However often instrument() and uninstrument() are called, and whatever
\* they interrupt, no run is reported by two cores.
ReportedOnce == \A r \in Runs : \A c, d \in hears[r] : c = d

\* The emitter comes to rest: no event waits forever, with whatever answers.
EmitterRests == posting # {} \/ queue # <<>> ~> posting = {} /\ queue = <<>>

\* The inductive invariant behind all of these, of which Instrument_proofs
\* shows the core's part and the emitter's part one after the other.
\* The events themselves: causes, and one opening and one end per run.
WellFormed(l) ==
    /\ \A n \in 1..Len(l) :
          /\ l[n].cause < n
          /\ l[n].cause # 0 => l[l[n].cause].trace = l[n].trace
          /\ l[n].cause = 0 => l[n].type \in OpenTypes /\ l[n].trace = l[n].run
          /\ l[n].type = "handoff.completed" =>
                /\ l[n].cause # 0
                /\ l[l[n].cause].type = "handoff.started"
                /\ l[l[n].cause].session = l[n].session /\ l[l[n].cause].run = l[n].run
    /\ \A types \in {OpenTypes, EndTypes} : \A n, m \in 1..Len(l) :
          l[n].type \in types /\ l[m].type \in types /\ l[n].run = l[m].run => n = m

\* What the core remembers of a run is in the log.
Remembers(l, info) ==
    /\ info.open \in 1..Len(l) /\ l[info.open].trace = info.trace
    /\ info.handoff # 0 =>
          /\ info.handoff \in 1..Len(l) /\ l[info.handoff].type = "handoff.started"
          /\ l[info.handoff].run = info.run /\ l[info.handoff].trace = info.trace
          /\ l[info.handoff].session = info.upper

TableFollows ==
    /\ \A i \in 1..Len(table) : Remembers(log, table[i]) /\ life[table[i].run] # "new"
    /\ \A i, j \in 1..Len(table) : table[i].run = table[j].run => i = j

\* A run is spoken of once it has started, its end once it is over.
LogFollows ==
    \A n \in 1..Len(log) :
        /\ life[log[n].run] # "new"
        /\ log[n].type \in EndTypes => life[log[n].run] = "over"

IInv ==
    /\ TypeOK
    /\ WellFormed(log)
    /\ TableFollows
    /\ LogFollows
    /\ RunsAccounted
    /\ ReportedOnce
    /\ QueueInOrder
=============================================================================
