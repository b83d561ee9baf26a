------------------------------ MODULE Gateway ------------------------------
(***************************************************************************)
(* The server's processes from start to exit (src/server.js): each brings  *)
(* the schema up to date (src/db/migrate.js) before it listens, then       *)
(* serves event streams (SSE) opened with API keys or one-time tickets,    *)
(* and drains them when it is told to stop.                                *)
(*                                                                         *)
(* The database is shared by the processes.  Streams and tickets live in   *)
(* one process's memory, and are modelled for the process Me.  Handlers    *)
(* run to their end without an await, so a request is one step; what the   *)
(* limits count is the set of slots that are taken.                        *)
(***************************************************************************)
EXTENDS Integers, FiniteSets

CONSTANTS
    Processes,      \* server processes on one database
    Me,             \* the process whose streams and tickets are modelled
    LastVersion,    \* the number of migrations
    Clients,        \* event-stream clients of Me, one connection each
    Tickets,        \* ticket ids, chosen at random
    Tenants,
    Default,        \* the tenant "default"
    Admin,          \* the dashboard token: tenant_id null
    None,
    MaxConnections, \* MAX_SSE_CONNECTIONS
    MaxPerTenant    \* MAX_SSE_PER_TENANT

Versions == 1..LastVersion

Callers == Tenants \cup {Admin}

ASSUME GatewayAssumption ==
    /\ Me \in Processes
    /\ LastVersion \in Nat
    /\ Default \in Tenants
    /\ Admin \notin Tenants
    /\ None \notin Callers
    /\ IsFiniteSet(Clients)
    /\ MaxConnections \in Nat
    /\ MaxPerTenant \in Nat

VARIABLES
    applied,    \* table schema_migrations
    ran,        \* ran[v]: how often up() of migration v was committed
    phase,      \* phase[p]: "down", "started", "migrating", "listening", "draining"
    seen,       \* seen[p]: the versions p takes for applied while it migrates
    ticket,     \* sseTickets: ticket[t] is the tenant_id of its record, or None
    past,       \* the tickets in it whose 30 seconds are over
    sold,       \* the ticket ids that have been used up
    uses,       \* uses[t]: streams that were let in with t
    conn,       \* conn[k]: "none", "open", or "gone" until 'close' is handled
    opener,     \* opener[k]: who opened k's stream, or None
    slots,      \* sseClients: the pairs <<tenant, client>> of its maps
    timers      \* the clients whose heartbeat and idle intervals run

schemaVars == <<applied, ran, seen>>
ticketVars == <<ticket, past, sold, uses>>
hubVars    == <<conn, opener, slots, timers>>
vars == <<phase, schemaVars, ticketVars, hubVars>>

-----------------------------------------------------------------------------
(* Starting: init(), runMigrations(), listen() *)

Start(p) ==
    /\ phase[p] = "down"
    /\ phase' = [phase EXCEPT ![p] = "started"]
    /\ UNCHANGED <<schemaVars, ticketVars, hubVars>>

\* SELECT version FROM schema_migrations: read once, before the loop.
ReadApplied(p) ==
    /\ phase[p] = "started"
    /\ seen'  = [seen EXCEPT ![p] = applied]
    /\ phase' = [phase EXCEPT ![p] = "migrating"]
    /\ UNCHANGED <<applied, ran, ticketVars, hubVars>>

Pending(p) == Versions \ seen[p]

NextVersion(p) == CHOOSE v \in Pending(p) : \A w \in Pending(p) : v <= w

Migrate_NoKey(p) ==     \* mutant: INSERT OR IGNORE of the version
    LET v == NextVersion(p) IN
    /\ phase[p] = "migrating" /\ Pending(p) # {}
    /\ applied' = applied \cup {v}
    /\ ran'     = [ran EXCEPT ![v] = @ + 1]
    /\ seen'    = [seen EXCEPT ![p] = @ \cup {v}]
    /\ UNCHANGED <<phase, ticketVars, hubVars>>

\* One transaction: up() and the INSERT of the version.
Migrate(p) ==
    LET v == NextVersion(p) IN
    /\ phase[p] = "migrating" /\ Pending(p) # {}
    /\ v \notin applied
    /\ applied' = applied \cup {v}
    /\ ran'     = [ran EXCEPT ![v] = @ + 1]
    /\ seen'    = [seen EXCEPT ![p] = @ \cup {v}]
    /\ UNCHANGED <<phase, ticketVars, hubVars>>

\* Another process has been faster: the primary key refuses the version, the
\* transaction is rolled back and the process exits.
MigrateFails(p) ==
    /\ phase[p] = "migrating" /\ Pending(p) # {}
    /\ NextVersion(p) \in applied
    /\ phase' = [phase EXCEPT ![p] = "down"]
    /\ seen'  = [seen EXCEPT ![p] = {}]
    /\ UNCHANGED <<applied, ran, ticketVars, hubVars>>

Listen(p) ==
    /\ phase[p] = "migrating"
    /\ Pending(p) = {}
    /\ phase' = [phase EXCEPT ![p] = "listening"]
    /\ seen'  = [seen EXCEPT ![p] = {}]
    /\ UNCHANGED <<applied, ran, ticketVars, hubVars>>

-----------------------------------------------------------------------------
(* One-time tickets *)

\* POST /auth/sse-ticket
IssueTicket(t, caller) ==
    /\ phase[Me] = "listening"
    /\ t \notin sold
    /\ ticket' = [ticket EXCEPT ![t] = caller]
    /\ sold'   = sold \cup {t}
    /\ UNCHANGED <<phase, schemaVars, past, uses, hubVars>>

\* 30 seconds have gone by.
Expire(t) ==
    /\ ticket[t] # None
    /\ t \notin past
    /\ past' = past \cup {t}
    /\ UNCHANGED <<phase, schemaVars, ticket, sold, uses, hubVars>>

\* Every 60 seconds.
SweepTickets ==
    /\ past # {}
    /\ ticket' = [t \in Tickets |-> IF t \in past THEN None ELSE ticket[t]]
    /\ past'   = {}
    /\ UNCHANGED <<phase, schemaVars, sold, uses, hubVars>>

-----------------------------------------------------------------------------
(* The stream hub *)

\* "req.tenant_id || 'default'"
Audience(caller) == IF caller = Admin THEN Default ELSE caller

SlotsOf(x, taken) == {s \in taken : s[1] = x}

\* The slot is taken, then the limits are checked, then it is given back.
Admitted(k, caller) ==
    LET taken == slots \cup {<<Audience(caller), k>>} IN
    /\ Cardinality(taken) <= MaxConnections
    /\ Cardinality(SlotsOf(Audience(caller), taken)) <= MaxPerTenant

Admit_NoRollback(k, caller) ==  \* mutant: 429 keeps the slot
    /\ slots' = slots \cup {<<Audience(caller), k>>}
    /\ IF Admitted(k, caller)
       THEN /\ conn'   = [conn EXCEPT ![k] = "open"]
            /\ opener' = [opener EXCEPT ![k] = caller]
            /\ timers' = timers \cup {k}
       ELSE UNCHANGED <<conn, opener, timers>>

\* GET /stream, once the caller is known: a stream, or 429.
Admit(k, caller) ==
    IF Admitted(k, caller)
    THEN /\ slots'  = slots \cup {<<Audience(caller), k>>}
         /\ conn'   = [conn EXCEPT ![k] = "open"]
         /\ opener' = [opener EXCEPT ![k] = caller]
         /\ timers' = timers \cup {k}
    ELSE UNCHANGED hubVars

ConnectWithKey(k, caller) ==
    /\ phase[Me] = "listening"
    /\ conn[k] = "none"
    /\ Admit(k, caller)
    /\ UNCHANGED <<phase, schemaVars, ticketVars>>

ConnectWithTicket_Reusable(k, t) ==     \* mutant: deleted only when it expires
    /\ phase[Me] = "listening"
    /\ conn[k] = "none"
    /\ IF ticket[t] = None \/ t \in past
       THEN /\ ticket' = [ticket EXCEPT ![t] = None]
            /\ past' = past \ {t}
            /\ UNCHANGED <<uses, hubVars>>
       ELSE /\ UNCHANGED <<ticket, past>>
            /\ uses' = IF Admitted(k, ticket[t]) THEN [uses EXCEPT ![t] = @ + 1] ELSE uses
            /\ Admit(k, ticket[t])
    /\ UNCHANGED <<phase, schemaVars, sold>>

\* The ticket is deleted whatever comes of it: 401, 429 or a stream.
ConnectWithTicket(k, t) ==
    /\ phase[Me] = "listening"
    /\ conn[k] = "none"
    /\ ticket' = [ticket EXCEPT ![t] = None]
    /\ past'   = past \ {t}
    /\ IF ticket[t] = None \/ t \in past
       THEN UNCHANGED <<uses, hubVars>>
       ELSE /\ uses' = IF Admitted(k, ticket[t]) THEN [uses EXCEPT ![t] = @ + 1] ELSE uses
            /\ Admit(k, ticket[t])
    /\ UNCHANGED <<phase, schemaVars, sold>>

\* The client hangs up, or its connection breaks.
Disconnect(k) ==
    /\ conn[k] = "open"
    /\ conn' = [conn EXCEPT ![k] = "gone"]
    /\ UNCHANGED <<phase, schemaVars, ticketVars, opener, slots, timers>>

\* cleanup(): the entry is looked up by tenant and connection.
Without(K) == {s \in slots : s[2] \notin K}

\* An interval's write to the broken connection throws.
HeartbeatFails(k) ==
    /\ k \in timers
    /\ conn[k] = "gone"
    /\ timers' = timers \ {k}
    /\ slots'  = Without({k})
    /\ UNCHANGED <<phase, schemaVars, ticketVars, conn, opener>>

\* broadcastSse() for tenant x: connections whose write throws lose their
\* slot; their intervals stay until the 'close' event.
Broadcast(x) ==
    /\ phase[Me] \in {"listening", "draining"}
    /\ \E K \in (SUBSET {k \in Clients : conn[k] = "gone" /\ <<x, k>> \in slots}) \ {{}} :
          slots' = Without(K)
    /\ UNCHANGED <<phase, schemaVars, ticketVars, conn, opener, timers>>

HandleClose_KeepSlot(k) ==  \* mutant: the slot is left to the next failing write
    /\ conn[k] = "gone"
    /\ conn'   = [conn EXCEPT ![k] = "none"]
    /\ opener' = [opener EXCEPT ![k] = None]
    /\ timers' = timers \ {k}
    /\ UNCHANGED <<phase, schemaVars, ticketVars, slots>>

\* req.on("close"): the intervals are cleared, cleanup() is done once.
HandleClose(k) ==
    /\ conn[k] = "gone"
    /\ conn'   = [conn EXCEPT ![k] = "none"]
    /\ opener' = [opener EXCEPT ![k] = None]
    /\ timers' = timers \ {k}
    /\ slots'  = Without({k})
    /\ UNCHANGED <<phase, schemaVars, ticketVars>>

-----------------------------------------------------------------------------
(* Stopping *)

\* SIGTERM or SIGINT: httpServer.close() accepts no connection any more.
Shutdown(p) ==
    /\ phase[p] = "listening"
    /\ phase' = [phase EXCEPT ![p] = "draining"]
    /\ UNCHANGED <<schemaVars, ticketVars, hubVars>>

\* What was in Me's memory is gone.
Forget(p) ==
    IF p = Me
    THEN /\ ticket' = [t \in Tickets |-> None]
         /\ past'   = {}
         /\ conn'   = [k \in Clients |-> "none"]
         /\ opener' = [k \in Clients |-> None]
         /\ slots'  = {}
         /\ timers' = {}
    ELSE UNCHANGED <<ticket, past, hubVars>>

\* Every connection has ended: closeDb(), exit 0.
Drained(p) ==
    /\ phase[p] = "draining"
    /\ p = Me => \A k \in Clients : conn[k] = "none"
    /\ phase' = [phase EXCEPT ![p] = "down"]
    /\ Forget(p)
    /\ UNCHANGED <<schemaVars, sold, uses>>

\* The hard timeout of 30 seconds while draining, or a crash at any time.
Die(p) ==
    /\ phase[p] # "down"
    /\ phase' = [phase EXCEPT ![p] = "down"]
    /\ seen'  = [seen EXCEPT ![p] = {}]
    /\ Forget(p)
    /\ UNCHANGED <<applied, ran, sold, uses>>

-----------------------------------------------------------------------------
Init ==
    /\ applied = {}
    /\ ran    = [v \in Versions |-> 0]
    /\ phase  = [p \in Processes |-> "down"]
    /\ seen   = [p \in Processes |-> {}]
    /\ ticket = [t \in Tickets |-> None]
    /\ past   = {}
    /\ sold   = {}
    /\ uses   = [t \in Tickets |-> 0]
    /\ conn   = [k \in Clients |-> "none"]
    /\ opener = [k \in Clients |-> None]
    /\ slots  = {}
    /\ timers = {}

Lifecycle(p) ==
    \/ Start(p) \/ ReadApplied(p) \/ Migrate(p) \/ MigrateFails(p) \/ Listen(p)
    \/ Shutdown(p) \/ Drained(p) \/ Die(p)

Next ==
    \/ \E p \in Processes : Lifecycle(p)
    \/ \E t \in Tickets : Expire(t) \/ \E caller \in Callers : IssueTicket(t, caller)
    \/ SweepTickets
    \/ \E k \in Clients :
          \/ \E caller \in Callers : ConnectWithKey(k, caller)
          \/ \E t \in Tickets : ConnectWithTicket(k, t)
          \/ Disconnect(k) \/ HeartbeatFails(k) \/ HandleClose(k)
    \/ \E x \in Tenants : Broadcast(x)

Spec == Init /\ [][Next]_vars

\* Node emits 'close' for a connection that has broken.
LiveSpec == Spec /\ \A k \in Clients : WF_vars(HandleClose(k))

-----------------------------------------------------------------------------
(* Properties *)

TypeOK ==
    /\ applied \subseteq Versions
    /\ ran \in [Versions -> Nat]
    /\ phase \in [Processes -> {"down", "started", "migrating", "listening", "draining"}]
    /\ seen \in [Processes -> SUBSET Versions]
    /\ ticket \in [Tickets -> Callers \cup {None}]
    /\ past \subseteq Tickets /\ sold \subseteq Tickets
    /\ uses \in [Tickets -> Nat]
    /\ conn \in [Clients -> {"none", "open", "gone"}]
    /\ opener \in [Clients -> Callers \cup {None}]
    /\ slots \subseteq Tenants \X Clients
    /\ timers \subseteq Clients

\* No process serves before the schema is complete, and two processes that
\* start together run no migration twice, whoever is faster or dies halfway.
SchemaBeforeTraffic ==
    /\ \A p \in Processes : phase[p] \in {"listening", "draining"} => applied = Versions
    /\ \A v \in Versions : ran[v] = IF v \in applied THEN 1 ELSE 0

\* Slots are what the limits say and what the connections need: an open
\* stream has its slot and its intervals, a slot or an interval belongs to a
\* connection that has not been closed, and nobody holds a slot of another
\* tenant than the one it was let in for (an admin's is "default").
HubAccounted ==
    /\ Cardinality(slots) <= MaxConnections
    /\ \A x \in Tenants : Cardinality(SlotsOf(x, slots)) <= MaxPerTenant
    /\ \A k \in Clients : conn[k] = "open" =>
          k \in timers /\ \E s \in slots : s[2] = k
    /\ \A k \in timers : conn[k] # "none"
    /\ \A s \in slots : conn[s[2]] # "none" /\ opener[s[2]] # None
                        /\ s[1] = Audience(opener[s[2]])
    /\ slots # {} => phase[Me] \in {"listening", "draining"}

\* "one-time use": a ticket lets in one stream, also when it is presented
\* twice, expires, is swept or its process restarts; what is in the map has
\* not been used, and its clock is running.
TicketsOnce ==
    \A t \in Tickets :
        /\ uses[t] <= 1
        /\ ticket[t] # None => uses[t] = 0 /\ t \in sold
        /\ t \in past => ticket[t] # None

\* What a stream took is given back: after its client is gone it holds
\* neither a slot nor an interval for ever.
SlotsComeBack ==
    \A k \in Clients : conn[k] = "gone" ~> k \notin timers /\ \A s \in slots : s[2] # k

\* The inductive invariant behind them.  What they lack on their own: what a
\* process takes for applied is applied, and an id that was never issued has
\* let nobody in.
IInv ==
    /\ TypeOK
    /\ SchemaBeforeTraffic
    /\ HubAccounted
    /\ TicketsOnce
    /\ IsFiniteSet(slots)
    /\ \A p \in Processes : seen[p] \subseteq applied
    /\ \A t \in Tickets \ sold : uses[t] = 0
=============================================================================
