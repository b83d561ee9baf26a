-------------------------------- MODULE Cli --------------------------------
(***************************************************************************)
(* Invocations of the command line tool (src/cli.js) against the server of *)
(* Registry.  A command sends one request, aep init three and aep export   *)
(* writes what it gets to a file; each ends with exit code 0 or 1.         *)
(* Connections are refused, break before or after the headers of the       *)
(* answer, or stay silent until the idle timer fires; the server goes on   *)
(* with a request whose client has given up.  Nothing is sent twice.       *)
(***************************************************************************)
EXTENDS Registry

CONSTANTS
    ApiKeys,        \* keys given with --key
    EventIds,       \* ids of the events of aep emit, its own or given with --id
    Admins,         \* tokens given with --admin-token
    NewTenant       \* a tenant given with --tenant-id

VARIABLES
    cmd,    \* cmd[c]: "none", "one", "init", "export", "document"
    cl,     \* cl[c]: "idle", "waiting", "reading", "flushing", "done"
    wire,   \* wire[c]: whether the connection is up
    armed,  \* armed[c]: the requests whose idle listener is on the socket
    step,   \* step[c]: which request of the command this is
    exit,   \* exit[c]: the exit code, or -1
    file    \* file[c]: "none", "partial", "complete": what --out holds

cliVars == <<cmd, cl, wire, armed, step, exit, file>>
vars == <<regVars, cliVars>>

Waits(c) == cl[c] \in {"waiting", "reading"}

\* The request as the server sees it.  late: a revocation of its key had been
\* reported before it was sent.
Stamped(r) ==
    Over([tenant |-> Nothing,
          late   |-> \E d \in Clients : /\ exit[d] = 0 /\ req[d].op = "revokeKey"
                                        /\ req[d].arg = r.by], r)

\* request(): the socket is there, the idle timer is armed.
Send(c, r) ==
    /\ Receive(c, Stamped(r))
    /\ wire'  = [wire EXCEPT ![c] = TRUE]
    /\ armed' = [armed EXCEPT ![c] = @ \cup {step'[c]}]
    /\ cl'    = [cl EXCEPT ![c] = "waiting"]

\* succeed() and fail(): settle once, disarm.
Disarmed(c) == [armed EXCEPT ![c] = @ \ {step[c]}]

Exit(c, code) ==
    /\ cl'    = [cl EXCEPT ![c] = "done"]
    /\ exit'  = [exit EXCEPT ![c] = code]
    /\ armed' = Disarmed(c)

-----------------------------------------------------------------------------
Begin(c, kind, r) ==
    /\ cl[c] = "idle"
    /\ cmd'  = [cmd EXCEPT ![c] = kind]
    /\ step' = [step EXCEPT ![c] = 1]
    /\ Send(c, r)
    /\ UNCHANGED <<exit, file>>

(* What the commands ask for; the ids are those of the rows there may be. *)

KeyIds  == DOMAIN FirstKeys \cup Clients
HookIds == DOMAIN FirstHooks \cup Clients

Ask(op)      == [op : {op}, by : ApiKeys]
AskOf(op, X) == [op : {op}, by : ApiKeys, arg : X]

Fetch(k) == [op |-> "read", by |-> k]

cmdEmit == AskOf("emit", EventIds)

\* They print what a GET returns.
cmdSession  == Ask("read")
cmdWorkflow == Ask("read")
cmdMetrics  == Ask("read")

\* policy-blocked, performance, anomalies: as above.
cmdAnalytics == Ask("read")

\* --list, --run and the query itself; --save; --delete
cmdAnalyticsQuery ==
    Ask("read") \cup AskOf("saveQuery", Names) \cup AskOf("deleteQuery", Clients)

Patches == {[enabled |-> FALSE], [target |-> "second"]}

cmdWebhooks ==
    Ask("read") \cup Ask("createHook") \cup AskOf("deleteHook", HookIds)
    \cup [op : {"updateHook"}, by : ApiKeys, arg : HookIds, patch : Patches]

cmdAdmin ==
         [op : {"createKey"}, by : Admins, for : {NewTenant}, arg : {DefaultProject}]
    \cup [op : {"listKeys"}, by : Admins]
    \cup [op : {"revokeKey"}, by : Admins, arg : KeyIds]

\* Not a command of the tool: projects are made by hand over HTTP.
Projects ==
         [op : {"createProject"}, by : Admins]
    \cup [op : {"createKey"}, by : Admins, for : {NewTenant}, arg : Clients]

RunCommand(c) ==
    \E r \in cmdEmit \cup cmdSession \cup cmdWorkflow \cup cmdMetrics \cup cmdAnalytics
            \cup cmdAnalyticsQuery \cup cmdWebhooks \cup cmdAdmin \cup Projects :
        Begin(c, "one", r)

Health       == [op |-> "health", by |-> Nothing]
Mint(token)  == [op |-> "createKey", by |-> token, for |-> DefaultTenant, arg |-> DefaultProject]
TestEvent(c) == [op |-> "emit", by |-> c, arg |-> c]

RunInit(c) == Begin(c, "init", Health)

\* aep export <session> --out <file>
RunExport(c) == \E k \in ApiKeys : Begin(c, "export", Fetch(k))

\* aep audit export and aep compliance report, with --out or --pdf
RunDocument(c) == \E k \in ApiKeys : Begin(c, "document", Fetch(k))

\* What the command takes for done.
Expected_Lax(c) ==      \* mutant: a row that is not there counts as deleted
    \/ status[c] \in Success
    \/ status[c] = 404 /\ req[c].op \in {"deleteHook", "deleteQuery"}

Expected(c) ==
    LET op == req[c].op IN
    \/ op \in ReadOps /\ status[c] = 200
    \/ op = "emit" /\ status[c] \in {200, 202}
    \/ op \in {"createKey", "createProject", "createHook", "saveQuery"} /\ status[c] = 201
    \/ op = "updateHook" /\ status[c] = 200
    \/ op = "revokeKey" /\ status[c] \in {200, 204}
    \/ op \in {"deleteHook", "deleteQuery"} /\ status[c] = 204

\* The headers arrive; aep export opens its file for a 200.
Headers(c) ==
    /\ cl[c] = "waiting" /\ wire[c] /\ at[c] = "answered"
    /\ cl'   = [cl EXCEPT ![c] = "reading"]
    /\ file' = IF cmd[c] = "export" /\ status[c] = 200
               THEN [file EXCEPT ![c] = "partial"] ELSE file
    /\ UNCHANGED <<regVars, cmd, wire, armed, step, exit>>

\* 'end' of the answer of a command with one request.
EndOne(c) ==
    /\ cl[c] = "reading" /\ wire[c] /\ cmd[c] = "one"
    /\ Exit(c, IF Expected(c) THEN 0 ELSE 1)
    /\ UNCHANGED <<regVars, cmd, wire, step, file>>

\* aep init: health, mint a key, verify it with an event.
EndInit(c) ==
    /\ cl[c] = "reading" /\ wire[c] /\ cmd[c] = "init"
    /\ IF ~Expected(c) \/ step[c] = 3
       THEN /\ Exit(c, IF Expected(c) THEN 0 ELSE 1)
            /\ UNCHANGED <<regVars, cmd, wire, step, file>>
       ELSE /\ step' = [step EXCEPT ![c] = @ + 1]
            /\ \E token \in Admins :
                  Receive(c, Stamped(IF step[c] = 1 THEN Mint(token) ELSE TestEvent(c)))
            /\ wire'  = [wire EXCEPT ![c] = TRUE]
            /\ armed' = [armed EXCEPT ![c] = (@ \ {step[c]}) \cup {step[c] + 1}]
            /\ cl'    = [cl EXCEPT ![c] = "waiting"]
            /\ UNCHANGED <<cmd, exit, file>>

EndExport_Early(c) ==   \* mutant: done at the end of the answer
    /\ cl[c] = "reading" /\ wire[c] /\ cmd[c] = "export"
    /\ Exit(c, IF Expected(c) THEN 0 ELSE 1)
    /\ UNCHANGED <<regVars, cmd, wire, step, file>>

\* The answer has ended, the file has not.
EndExport(c) ==
    /\ cl[c] = "reading" /\ wire[c] /\ cmd[c] = "export"
    /\ IF status[c] = 200
       THEN /\ cl' = [cl EXCEPT ![c] = "flushing"]
            /\ UNCHANGED <<exit, armed>>
       ELSE Exit(c, 1)
    /\ UNCHANGED <<regVars, cmd, wire, step, file>>

\* The report is written in one go: the bundle, then its PDF.  No events to
\* sign, or a file that cannot be written, ends the command.
EndDocument(c) ==
    /\ cl[c] = "reading" /\ wire[c] /\ cmd[c] = "document"
    /\ \/ /\ status[c] = 200
          /\ file' = [file EXCEPT ![c] = "complete"]
          /\ \E code \in {0, 1} : Exit(c, code)
       \/ /\ UNCHANGED file
          /\ Exit(c, 1)
    /\ UNCHANGED <<regVars, cmd, wire, step>>

\* 'finish' of the file.
Finish(c) ==
    /\ cl[c] = "flushing"
    /\ file' = [file EXCEPT ![c] = "complete"]
    /\ Exit(c, 0)
    /\ UNCHANGED <<regVars, cmd, wire, step>>

\* 'error' of the file.
WriteFails(c) ==
    /\ cl[c] \in {"reading", "flushing"} /\ file[c] = "partial"
    /\ Exit(c, 1)
    /\ UNCHANGED <<regVars, cmd, wire, step, file>>

-----------------------------------------------------------------------------
(* The network *)

Break(c) ==
    /\ Waits(c) /\ wire[c]
    /\ wire' = [wire EXCEPT ![c] = FALSE]
    /\ UNCHANGED <<regVars, cmd, cl, armed, step, exit, file>>

NoticeBreak_NotAborted(c) ==    \* mutant: no listener for "aborted"
    /\ cl[c] = "waiting" /\ ~wire[c]
    /\ Exit(c, 1)
    /\ UNCHANGED <<regVars, cmd, wire, step, file>>

\* 'error' of the request, or 'aborted' of the answer.
NoticeBreak(c) ==
    /\ Waits(c) /\ ~wire[c]
    /\ Exit(c, 1)
    /\ UNCHANGED <<regVars, cmd, wire, step, file>>

\* onIdle(): no data for --timeout seconds; the socket is destroyed.
Idle(c) ==
    /\ cl[c] \in {"waiting", "reading", "flushing"} /\ wire[c]
    /\ step[c] \in armed[c]
    /\ wire' = [wire EXCEPT ![c] = FALSE]
    /\ Exit(c, 1)
    /\ UNCHANGED <<regVars, cmd, step, file>>

-----------------------------------------------------------------------------
Init ==
    /\ RegInit
    /\ cmd   = [c \in Clients |-> "none"]
    /\ cl    = [c \in Clients |-> "idle"]
    /\ wire  = [c \in Clients |-> FALSE]
    /\ armed = [c \in Clients |-> {}]
    /\ step  = [c \in Clients |-> 0]
    /\ exit  = [c \in Clients |-> -1]
    /\ file  = [c \in Clients |-> "none"]

Server(c) == Serve(c) /\ UNCHANGED cliVars

Tool(c) ==
    \/ RunCommand(c) \/ RunInit(c) \/ RunExport(c) \/ RunDocument(c)
    \/ Headers(c) \/ EndOne(c) \/ EndInit(c) \/ EndExport(c) \/ EndDocument(c)
    \/ Finish(c) \/ WriteFails(c)
    \/ Break(c) \/ NoticeBreak(c) \/ Idle(c)

Next == \E c \in Clients : Server(c) \/ Tool(c)

Spec == Init /\ [][Next]_vars

\* --timeout is not 0: the idle timer fires sooner or later, and Node tells
\* the tool of a broken connection.
LiveSpec == Spec /\ \A c \in Clients : WF_vars(NoticeBreak(c)) /\ WF_vars(Idle(c))

-----------------------------------------------------------------------------
(* Properties *)

\* Exit code 0 says the truth: what the command asked for has been committed
\* by the server, a deletion by this command and no other, an export is
\* complete in its file, and aep init has left a stored key that a stored
\* event came in with.
ExitTruth ==
    \A c \in Clients : exit[c] = 0 =>
        /\ c \in done
        /\ cmd[c] \in {"export", "document"} => file[c] = "complete"
        /\ cmd[c] = "init" => keys[c] # Nothing /\ c \in events

\* Of several commands that delete one webhook, one at most reports it.
DeletedOnce ==
    LET Deleters(h) == {c \in Clients : /\ exit[c] = 0
                                        /\ req[c].op = "deleteHook" /\ req[c].arg = h}
    IN \A h \in Ids : \A c, d \in Deleters(h) : c = d

\* AUTH.md: "Revocation is immediate": once the revocation of a key has been
\* reported, no request that is sent later succeeds with it, save for a read
\* where reads are open to everyone.  (There the document's "Subsequent requests
\* with the revoked key receive HTTP 401" is not so.)
RevokedRefused ==
    \A c \in Clients : req[c] # Nothing /\ req[c].late /\ status[c] \in Success
                       => c \in OpenReads /\ req[c].op = "read"

\* A webhook is what its PATCHes have asked for, one after the other, each
\* field by itself, unless two of them overlapped.
UpdatesKept ==
    \A h \in Ids : hooks[h] # Nothing /\ h \notin torn => hooks[h] = asked[h]

\* A command ends, whatever the server and the network do.
CommandsEnd == \A c \in Clients : cl[c] # "idle" ~> cl[c] = "done"
=============================================================================
