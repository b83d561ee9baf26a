------------------------------ MODULE Registry ------------------------------
(***************************************************************************)
(* The server's tables of keys, projects, webhooks and saved queries, and  *)
(* the requests over them: src/auth.js, the routes of src/server.js and    *)
(* the statements of src/db/backends/postgres.js.  A request is looked at  *)
(* again after every await: between the look-up of its key, the reads and  *)
(* the writes of its handler, other requests run.  Under SQLite the same   *)
(* statements run without a break, which is one of the orders here.        *)
(*                                                                         *)
(* Ids and keys are chosen at random, so a row is named by the client      *)
(* whose request inserts it.  A client has one request at a time.          *)
(***************************************************************************)
EXTENDS Integers

CONSTANTS
    Clients,
    Seeds,          \* names of the rows that are there at the start
    DefaultTenant,  \* aep init mints its key for it
    Admin,          \* the bearer of ADMIN_TOKEN
    Nothing,        \* no row, no request
    Names,          \* of saved queries
    DefaultProject,
    OpenReads,      \* the clients of servers without DASHBOARD_TOKEN that are
                    \* not in production
    FirstKeys,      \* the rows at the start: api_keys,
    FirstHooks      \* webhooks

Ids == Clients \cup Seeds

\* The keys that aep init mints.
Minted == [tenant : {DefaultTenant}, project : {DefaultProject},
           scopes : {{"read", "write"}}, revoked : BOOLEAN]

\* Rows that requests insert have names of their own; tokens are not rows.
ASSUME RegistryAssumption ==
    /\ Clients \cap Seeds = {}
    /\ OpenReads \subseteq Clients
    /\ DOMAIN FirstKeys \subseteq Seeds /\ DOMAIN FirstHooks \subseteq Seeds
    /\ Admin \notin Ids /\ Nothing \notin Ids \cup Minted
    /\ \A i \in DOMAIN FirstKeys : {"revoked"} \subseteq DOMAIN FirstKeys[i]
    /\ \A i \in DOMAIN FirstHooks : {"tenant"} \subseteq DOMAIN FirstHooks[i]

VARIABLES
    keys,       \* api_keys: [tenant, scopes, project, revoked], or Nothing
    projects,   \* projects: their ids
    hooks,      \* webhooks: [tenant, target, enabled], or Nothing
    queries,    \* saved_queries: [tenant, name], or Nothing
    events,     \* ids of stored events
    req,        \* req[c]: the request the server has from c, or Nothing
    at,         \* at[c]: how far its handler is
    seen,       \* seen[c]: the row the handler has read, or Nothing
    status,     \* status[c]: the HTTP status it has answered, or 0
    done,       \* history: the clients whose request has taken effect
    asked,      \* history: the webhooks as their PATCHes, one by one, ask for
    torn        \* history: the webhooks whose PATCHes have overlapped

tables  == <<keys, projects, hooks, queries, events>>
history == <<done, asked, torn>>
regVars == <<tables, req, at, seen, status, history>>

\* The fields of r, then those of s that r does not have.
Over(r, s) ==
    [f \in DOMAIN r \cup DOMAIN s |-> IF f \in DOMAIN r THEN r[f] ELSE s[f]]

Success == {200, 201, 202, 204}

AdminOps == {"createKey", "listKeys", "revokeKey", "createProject"}
ReadOps  == {"read", "listKeys", "health"}
BodyOps  == {"emit", "createHook", "updateHook", "saveQuery", "createKey", "createProject"}

-----------------------------------------------------------------------------
(* Steps of a handler *)

Handles(c, op) == at[c] = "handling" /\ req[c].op = op

Answer(c, code) ==
    /\ at'     = [at EXCEPT ![c] = "answered"]
    /\ status' = [status EXCEPT ![c] = code]

\* The answer goes out and what it reports has been committed.
Commit(c, code) ==
    /\ Answer(c, code)
    /\ done' = done \cup {c}
    /\ UNCHANGED <<req, seen>>

\* The answer goes out, nothing was changed.
Refuse(c, code) ==
    /\ Answer(c, code)
    /\ UNCHANGED <<tables, req, seen, history>>

\* The tenant a request acts for; its handler has it from the key's row.
TenantOf(c) == req[c].tenant

\* The request arrives: what is asked, and with which key.
Receive(c, r) ==
    /\ req'    = [req EXCEPT ![c] = r]
    /\ at'     = [at EXCEPT ![c] = "received"]
    /\ status' = [status EXCEPT ![c] = 0]
    /\ seen'   = [seen EXCEPT ![c] = Nothing]
    /\ done'   = done \ {c}
    /\ UNCHANGED <<tables, asked, torn>>

\* The handler runs, for one tenant or, with Nothing, for all.
Accept(c, tenant) ==
    /\ at'  = [at EXCEPT ![c] = "handling"]
    /\ req' = [req EXCEPT ![c].tenant = tenant]
    /\ UNCHANGED <<tables, seen, status, history>>

\* The row of the request's key, unless it is revoked.
LiveKey(c) ==
    LET row == IF req[c].by = Admin THEN Nothing ELSE keys[req[c].by]
    IN  IF row = Nothing THEN Nothing ELSE IF row.revoked THEN Nothing ELSE row

\* requireAdminAuth; /health asks for nothing.
AuthoriseAdmin(c) ==
    /\ req[c].op \in AdminOps \cup {"health"}
    /\ IF req[c].op = "health" \/ req[c].by = Admin THEN Accept(c, Nothing) ELSE Refuse(c, 401)

\* requireApiKey("write").
AuthoriseWrite(c) ==
    /\ req[c].op \notin AdminOps \cup {"health", "read"}
    /\ IF LiveKey(c) = Nothing THEN Refuse(c, 401)
       ELSE IF "write" \notin LiveKey(c).scopes THEN Refuse(c, 403)
       ELSE Accept(c, LiveKey(c).tenant)

\* requireReadAccess: where reads are open, whoever has no live key that may
\* read, reads the events of all tenants.
AuthoriseRead(c) ==
    /\ req[c].op = "read"
    /\ IF LiveKey(c) # Nothing /\ "read" \in LiveKey(c).scopes THEN Accept(c, LiveKey(c).tenant)
       ELSE IF c \in OpenReads THEN Accept(c, Nothing)
       ELSE Refuse(c, 401)

\* The key's row is read once, and what it says stays with the request.
Authorise(c) ==
    /\ at[c] = "received"
    /\ AuthoriseAdmin(c) \/ AuthoriseWrite(c) \/ AuthoriseRead(c)

\* The body is not what the route wants.
RefuseBody(c) ==
    /\ at[c] = "handling"
    /\ req[c].op \in BodyOps
    /\ Refuse(c, 400)

\* A statement fails; the route answers 500.
Fail(c) ==
    /\ at[c] \in {"handling", "read"}
    /\ Refuse(c, 500)

\* Lists, single rows, reports; /health.
Read(c) ==
    /\ at[c] = "handling" /\ req[c].op \in ReadOps
    /\ Commit(c, 200)
    /\ UNCHANGED <<tables, asked, torn>>

\* POST /events, which IngestPipeline models in full.
StoreEvent(c) ==
    /\ Handles(c, "emit")
    /\ events' = events \cup {req[c].arg}
    /\ Commit(c, IF req[c].arg \in events THEN 200 ELSE 202)
    /\ UNCHANGED <<keys, projects, hooks, queries, asked, torn>>

-----------------------------------------------------------------------------
(* Keys and projects *)

CreateProject(c) ==
    /\ Handles(c, "createProject")
    /\ projects' = projects \cup {c}
    /\ Commit(c, 201)
    /\ UNCHANGED <<keys, hooks, queries, events, asked, torn>>

\* Projects are never deleted: one that was found stays.
CreateKey(c) ==
    /\ Handles(c, "createKey")
    /\ IF req[c].arg \notin projects THEN Refuse(c, 400)
       ELSE /\ keys' = [keys EXCEPT ![c] = [tenant |-> req[c].for, project |-> req[c].arg,
                                            scopes |-> {"read", "write"}, revoked |-> FALSE]]
            /\ Commit(c, 201)
            /\ UNCHANGED <<projects, hooks, queries, events, asked, torn>>

\* DELETE /admin/keys/:id, the look: 404, 409, or go on.
FindKey(c) ==
    /\ Handles(c, "revokeKey")
    /\ LET row == keys[req[c].arg] IN
       IF row = Nothing THEN Refuse(c, 404)
       ELSE IF row.revoked THEN Refuse(c, 409)
       ELSE /\ at'   = [at EXCEPT ![c] = "read"]
            /\ seen' = [seen EXCEPT ![c] = row]
            /\ UNCHANGED <<tables, req, status, history>>

RevokeKey_NotAwaited(c) ==  \* mutant: db.revokeApiKey() without await
    /\ at[c] = "read" /\ req[c].op = "revokeKey"
    /\ Commit(c, 200)
    /\ UNCHANGED <<tables, asked, torn>>

RevokeKey(c) ==
    /\ at[c] = "read" /\ req[c].op = "revokeKey"
    /\ keys' = [keys EXCEPT ![req[c].arg].revoked = TRUE]
    /\ Commit(c, 200)
    /\ UNCHANGED <<projects, hooks, queries, events, asked, torn>>

-----------------------------------------------------------------------------
(* Webhooks: a row is found by its id and the caller's tenant *)

Owned(c, table, i) == table[i] # Nothing /\ table[i].tenant = TenantOf(c)

CreateHook(c) ==
    LET row == [tenant |-> TenantOf(c), target |-> "first", enabled |-> TRUE] IN
    /\ Handles(c, "createHook")
    /\ hooks' = [hooks EXCEPT ![c] = row]
    /\ asked' = [asked EXCEPT ![c] = row]
    /\ Commit(c, 201)
    /\ UNCHANGED <<keys, projects, queries, events, torn>>

\* updateWebhook: SELECT, UPDATE of every column, SELECT.
FindHook(c) ==
    /\ Handles(c, "updateHook")
    /\ IF Owned(c, hooks, req[c].arg)
       THEN /\ at'   = [at EXCEPT ![c] = "read"]
            /\ seen' = [seen EXCEPT ![c] = hooks[req[c].arg]]
            /\ UNCHANGED <<tables, req, status, history>>
       ELSE Refuse(c, 404)

Merged_Or(patch, row) ==    \* mutant: fields.enabled || existing.enabled
    [row EXCEPT !.target  = IF "target" \in DOMAIN patch THEN patch.target ELSE @,
                !.enabled = ("enabled" \in DOMAIN patch /\ patch.enabled) \/ @]

\* The fields of the PATCH over the row that was read.
Merged(patch, row) == Over(patch, row)

WriteHook(c) ==
    LET h == req[c].arg IN
    /\ at[c] = "read" /\ req[c].op = "updateHook"
    /\ at' = [at EXCEPT ![c] = "written"]
    /\ IF Owned(c, hooks, h)
       THEN /\ hooks' = [hooks EXCEPT ![h] = Merged(req[c].patch, seen[c])]
            /\ asked' = [asked EXCEPT ![h] = Over(req[c].patch, @)]
            /\ torn'  = IF hooks[h] = seen[c] THEN torn ELSE torn \cup {h}
            /\ done'  = done \cup {c}
       ELSE UNCHANGED <<hooks, asked, torn, done>>
    /\ UNCHANGED <<keys, projects, queries, events, req, seen, status>>

AnswerPatch(c) ==
    /\ at[c] = "written"
    /\ Answer(c, IF Owned(c, hooks, req[c].arg) THEN 200 ELSE 404)
    /\ UNCHANGED <<tables, req, seen, history>>

DeleteHook_Seen(c) ==   \* mutant: SELECT, then DELETE, and 204
    LET h == req[c].arg IN
    \/ /\ Handles(c, "deleteHook")
       /\ IF Owned(c, hooks, h)
          THEN /\ at'   = [at EXCEPT ![c] = "read"]
               /\ seen' = [seen EXCEPT ![c] = hooks[h]]
               /\ UNCHANGED <<tables, req, status, history>>
          ELSE Refuse(c, 404)
    \/ /\ at[c] = "read" /\ req[c].op = "deleteHook"
       /\ hooks' = [hooks EXCEPT ![h] = Nothing]
       /\ Commit(c, 204)
       /\ UNCHANGED <<keys, projects, queries, events, asked, torn>>

\* One DELETE; whether a row went decides the answer.
DeleteHook(c) ==
    LET h == req[c].arg IN
    /\ Handles(c, "deleteHook")
    /\ IF Owned(c, hooks, h)
       THEN /\ hooks' = [hooks EXCEPT ![h] = Nothing]
            /\ Commit(c, 204)
            /\ UNCHANGED <<keys, projects, queries, events, asked, torn>>
       ELSE Refuse(c, 404)

-----------------------------------------------------------------------------
(* Saved queries: UNIQUE (tenant_id, name) *)

Taken(tenant, name) ==
    \E i \in Ids : queries[i] # Nothing /\ queries[i] = [tenant |-> tenant, name |-> name]

SaveQuery(c) ==
    /\ Handles(c, "saveQuery")
    /\ IF Taken(TenantOf(c), req[c].arg) THEN Refuse(c, 409)
       ELSE /\ queries' = [queries EXCEPT ![c] = [tenant |-> TenantOf(c), name |-> req[c].arg]]
            /\ Commit(c, 201)
            /\ UNCHANGED <<keys, projects, hooks, events, asked, torn>>

DeleteQuery(c) ==
    LET q == req[c].arg IN
    /\ Handles(c, "deleteQuery")
    /\ IF Owned(c, queries, q)
       THEN /\ queries' = [queries EXCEPT ![q] = Nothing]
            /\ Commit(c, 204)
            /\ UNCHANGED <<keys, projects, hooks, events, asked, torn>>
       ELSE Refuse(c, 404)

-----------------------------------------------------------------------------
RegInit ==
    /\ keys     = [i \in Ids |-> IF i \in DOMAIN FirstKeys THEN FirstKeys[i] ELSE Nothing]
    /\ hooks    = [i \in Ids |-> IF i \in DOMAIN FirstHooks THEN FirstHooks[i] ELSE Nothing]
    /\ asked    = [i \in Ids |-> IF i \in DOMAIN FirstHooks THEN FirstHooks[i] ELSE Nothing]
    /\ queries  = [i \in Ids |-> Nothing]
    /\ projects = {DefaultProject}
    /\ events   = {}
    /\ req      = [c \in Clients |-> Nothing]
    /\ at       = [c \in Clients |-> "none"]
    /\ seen     = [c \in Clients |-> Nothing]
    /\ status   = [c \in Clients |-> 0]
    /\ done = {} /\ torn = {}

Serve(c) ==
    \/ Authorise(c) \/ RefuseBody(c) \/ Fail(c)
    \/ Read(c) \/ StoreEvent(c)
    \/ CreateProject(c) \/ CreateKey(c) \/ FindKey(c) \/ RevokeKey(c)
    \/ CreateHook(c) \/ FindHook(c) \/ WriteHook(c) \/ AnswerPatch(c) \/ DeleteHook(c)
    \/ SaveQuery(c) \/ DeleteQuery(c)
=============================================================================
