----------------------------- MODULE Cli_proofs -----------------------------
(* Theorems of Cli, for every value of its constants. *)
EXTENDS Cli, TLAPS

-----------------------------------------------------------------------------
(* PATCHes *)

UpdatePart ==
    /\ DOMAIN hooks = Ids /\ DOMAIN asked = Ids
    /\ UpdatesKept

(* What one request does to hooks and asked. *)
LEMMA ServerKeepsUpdates ==
    ASSUME UpdatePart, NEW c \in Clients, Server(c)
    PROVE  UpdatePart'
<1> USE DEF UpdatePart, UpdatesKept, tables, history
<1>1. CASE CreateHook(c)
    BY <1>1 DEF CreateHook
<1>2. CASE WriteHook(c)
    <2> DEFINE h == req[c].arg
    <2>1. CASE Owned(c, hooks, h)
        <3>1. /\ hooks' = [hooks EXCEPT ![h] = Over(req[c].patch, seen[c])]
              /\ asked' = [asked EXCEPT ![h] = Over(req[c].patch, asked[h])]
              /\ torn' = IF hooks[h] = seen[c] THEN torn ELSE torn \cup {h}
            BY <1>2, <2>1 DEF WriteHook, Merged
        <3>2. hooks[h] # Nothing
            BY <2>1 DEF Owned
        <3>3. \A i \in Ids \ {h} : hooks'[i] = hooks[i] /\ asked'[i] = asked[i]
            BY <3>1
        <3>4. h \in Ids /\ h \notin torn' => hooks'[h] = asked'[h]
            BY <3>1, <3>2
        <3> QED
            BY <3>1, <3>3, <3>4
    <2>2. CASE ~Owned(c, hooks, h)
        BY <1>2, <2>2 DEF WriteHook
    <2> QED
        BY <2>1, <2>2
<1>3. CASE DeleteHook(c)
    BY <1>3 DEF DeleteHook, Refuse
<1>4. CASE ~(CreateHook(c) \/ WriteHook(c) \/ DeleteHook(c))
    <2>1. UNCHANGED <<hooks, asked, torn>>
        BY <1>4 DEF Server, Serve, Authorise, AuthoriseAdmin, AuthoriseWrite,
               AuthoriseRead, Accept, RefuseBody, Fail, Read, StoreEvent,
            CreateProject, CreateKey, FindKey, RevokeKey, FindHook, AnswerPatch,
            SaveQuery, DeleteQuery, Refuse
    <2> QED
        BY <2>1
<1> QED
    BY <1>1, <1>2, <1>3, <1>4

LEMMA ToolLeavesTables ==
    ASSUME NEW c \in Clients, Tool(c)
    PROVE  UNCHANGED <<tables, asked, torn>>
BY DEF Tool, RunCommand, RunInit, RunExport, RunDocument, Begin, Send, Receive, Headers,
    EndOne, EndInit, EndExport, EndDocument, Finish, WriteFails, Break, NoticeBreak, Idle,
    regVars, history

(* A webhook is what its PATCHes ask for: the UPDATE of updateWebhook writes  *)
(* every column, so only PATCHes that overlap lose one another's fields.      *)
THEOREM UpdatesAreKept == Spec => []UpdatesKept
<1>1. Init => UpdatePart
    BY DEF Init, RegInit, UpdatePart, UpdatesKept
<1>2. UpdatePart /\ [Next]_vars => UpdatePart'
    <2> SUFFICES ASSUME UpdatePart, [Next]_vars
                 PROVE  UpdatePart'
        OBVIOUS
    <2>1. ASSUME NEW c \in Clients, Server(c)
          PROVE  UpdatePart'
        BY <2>1, ServerKeepsUpdates
    <2>2. ASSUME NEW c \in Clients, Tool(c)
          PROVE  UpdatePart'
        BY <2>2, ToolLeavesTables DEF UpdatePart, UpdatesKept, tables
    <2>3. CASE UNCHANGED vars
        BY <2>3 DEF vars, regVars, tables, history, UpdatePart, UpdatesKept
    <2> QED
        BY <2>1, <2>2, <2>3 DEF Next
<1>3. UpdatePart => UpdatesKept
    BY DEF UpdatePart
<1> QED
    BY <1>1, <1>2, <1>3, PTL DEF Spec

-----------------------------------------------------------------------------
(* How the tool stands to its request *)

(* A request as the tool makes it, and as the server has it. *)
Asks(r) ==
    /\ {"op", "by"} \subseteq DOMAIN r
    /\ r.op = "health" => r.by = Nothing
    /\ r.op \in {"revokeKey", "deleteHook"} => "arg" \in DOMAIN r
    /\ r.op = "revokeKey" => r.arg \in Ids
    /\ r.op = "updateHook" => /\ {"arg", "patch"} \subseteq DOMAIN r /\ r.arg \in Ids
                             /\ "tenant" \notin DOMAIN r.patch

Requested(r) == Asks(r) /\ "late" \in DOMAIN r

(* aep init is at its step of that operation. *)
InitStep(c) ==
    \/ (step[c] = 1 /\ req[c].op = "health")
    \/ (step[c] = 2 /\ req[c].op = "createKey")
    \/ (step[c] = 3 /\ req[c].op = "emit")

ToolOf(c) ==
    /\ at[c] = "none" => /\ cl[c] = "idle" /\ exit[c] # 0 /\ req[c] = Nothing
                         /\ cmd[c] = "none"
    /\ cl[c] = "idle" => at[c] = "none"
    /\ at[c] # "none" => Requested(req[c])
    /\ cl[c] \in {"reading", "flushing"} => at[c] = "answered"
    /\ cl[c] \in {"waiting", "reading", "flushing"} => exit[c] # 0
    /\ cmd[c] \in {"export", "document"} /\ at[c] # "none" => req[c].op = "read"
    /\ cmd[c] = "init" /\ at[c] # "none" => InitStep(c)
    /\ cl[c] = "flushing" => cmd[c] = "export" /\ status[c] = 200
    /\ exit[c] = 0 => at[c] = "answered" /\ Expected(c)

ToolPart ==
    /\ DOMAIN req = Clients /\ DOMAIN at = Clients /\ DOMAIN status = Clients
    /\ DOMAIN cmd = Clients /\ DOMAIN cl = Clients /\ DOMAIN exit = Clients
    /\ DOMAIN step = Clients /\ DOMAIN file = Clients
    /\ \A c \in Clients : ToolOf(c)

(* The four kinds of steps.  The server goes on with the request of c. *)
Serves(c) ==
    /\ UNCHANGED cliVars
    /\ at[c] \in {"received", "handling", "read", "written"}
    /\ DOMAIN at' = DOMAIN at /\ DOMAIN status' = DOMAIN status /\ DOMAIN req' = DOMAIN req
    /\ at'[c] # "none" /\ at'[c] # "received"
    /\ \A d \in Clients \ {c} : at'[d] = at[d] /\ status'[d] = status[d] /\ req'[d] = req[d]
    /\ Requested(req[c]) => /\ Requested(req'[c])
                            /\ req'[c].op = req[c].op /\ req'[c].by = req[c].by
                            /\ req'[c].late = req[c].late
                            /\ \A f \in DOMAIN req[c] : f # "tenant" =>
                                  f \in DOMAIN req'[c] /\ req'[c][f] = req[c][f]
    /\ at[c] # "received" => UNCHANGED req

(* The tool sends r for c. *)
Sends(c, r) ==
    /\ Receive(c, Stamped(r))
    /\ cl' = [cl EXCEPT ![c] = "waiting"]
    /\ UNCHANGED exit

(* The tool does nothing the server sees. *)
Quiet == UNCHANGED <<regVars, cmd, step>>

LEMMA ServerServes ==
    ASSUME ToolPart, NEW c \in Clients, Server(c)
    PROVE  Serves(c)
<1> USE DEF ToolPart, Serves, Requested, Asks, Server, Answer, Commit, Refuse, Handles
<1>1. CASE Authorise(c)
    <2>1. UNCHANGED cliVars /\ at[c] = "received"
        BY <1>1 DEF Authorise
    <2>5. Refuse(c, 401) \/ Refuse(c, 403) \/ \E t : Accept(c, t)
        BY <1>1 DEF Authorise, AuthoriseAdmin, AuthoriseWrite, AuthoriseRead
    <2>2. /\ at'[c] \in {"handling", "answered"} /\ DOMAIN at' = DOMAIN at
          /\ DOMAIN status' = DOMAIN status
          /\ \A d \in Clients \ {c} : at'[d] = at[d] /\ status'[d] = status[d]
        BY <2>5 DEF Accept
    <2>3. req' = req \/ \E t : req' = [req EXCEPT ![c].tenant = t]
        BY <2>5 DEF Accept
    <2> DEFINE Kept == /\ DOMAIN req' = DOMAIN req
                       /\ \A d \in Clients \ {c} : req'[d] = req[d]
                       /\ Requested(req[c]) =>
                             /\ DOMAIN req'[c] = DOMAIN req[c]
                             /\ \A f \in DOMAIN req[c] : f # "tenant" => req'[c][f] = req[c][f]
    <2>4. Kept
        <3>1. CASE req' = req
            BY <3>1
        <3>2. ASSUME NEW t, req' = [req EXCEPT ![c].tenant = t]
              PROVE  Kept
            <4>1. req' = [req EXCEPT ![c] = [req[c] EXCEPT !.tenant = t]]
                BY <3>2
            <4>2. req'[c] = [req[c] EXCEPT !.tenant = t]
                BY <4>1
            <4> QED
                BY <4>1, <4>2
        <3> QED
            BY <2>3, <3>1, <3>2
    <2> QED
        BY <2>1, <2>2, <2>4
<1>2. CASE ~Authorise(c)
    <2>1. req' = req
        BY <1>2 DEF Serve, RefuseBody, Fail, Read, StoreEvent,
            CreateProject, CreateKey, FindKey, RevokeKey, CreateHook, FindHook, WriteHook,
            AnswerPatch, DeleteHook, SaveQuery, DeleteQuery
    <2>2. /\ at[c] \in {"handling", "read", "written"}
          /\ \E a \in {"read", "written", "answered"} : at' = [at EXCEPT ![c] = a]
        BY <1>2 DEF Serve, RefuseBody, Fail, Read, StoreEvent,
            CreateProject, CreateKey, FindKey, RevokeKey, CreateHook, FindHook, WriteHook,
            AnswerPatch, DeleteHook, SaveQuery, DeleteQuery
    <2>3. status' = status \/ \E n : status' = [status EXCEPT ![c] = n]
        BY <1>2 DEF Serve, RefuseBody, Fail, Read, StoreEvent,
            CreateProject, CreateKey, FindKey, RevokeKey, CreateHook, FindHook, WriteHook,
            AnswerPatch, DeleteHook, SaveQuery, DeleteQuery
    <2> QED
        BY <2>1, <2>2, <2>3
<1> QED
    BY <1>1, <1>2

LEMMA ServesKeepsTool ==
    ASSUME ToolPart, NEW c \in Clients, Serves(c)
    PROVE  ToolPart'
<1>1. Requested(req[c]) /\ Requested(req'[c]) /\ req'[c].op = req[c].op
    BY DEF ToolPart, ToolOf, Serves
<1>2. \A d \in Clients \ {c} : ToolOf(d)'
    BY DEF ToolPart, ToolOf, Serves, InitStep, Expected, cliVars
<1>3. ToolOf(c)'
    <2>1. cl[c] \notin {"idle", "reading", "flushing"} /\ exit[c] # 0
        BY DEF ToolPart, ToolOf, Serves
    <2>2. cl'[c] = cl[c] /\ exit'[c] = exit[c] /\ cmd'[c] = cmd[c] /\ step'[c] = step[c]
        BY DEF Serves, cliVars
    <2>3. at[c] # "none" /\ at'[c] # "none"
        BY DEF Serves
    <2> QED
        BY <1>1, <2>1, <2>2, <2>3 DEF ToolPart, ToolOf, InitStep
<1> QED
    BY <1>2, <1>3 DEF ToolPart, Serves, cliVars

LEMMA StampedFacts ==
    ASSUME NEW r, Asks(r)
    PROVE  /\ Requested(Stamped(r))
           /\ Stamped(r).op = r.op /\ Stamped(r).by = r.by
           /\ \A f \in DOMAIN r : f \notin {"tenant", "late"} =>
                 f \in DOMAIN Stamped(r) /\ Stamped(r)[f] = r[f]
           /\ Stamped(r).late = \E d \in Clients : /\ exit[d] = 0 /\ req[d].op = "revokeKey"
                                                   /\ req[d].arg = r.by
BY DEF Stamped, Over, Asks, Requested

LEMMA CommandsAsk ==
    ASSUME NEW r \in cmdEmit \cup cmdSession \cup cmdWorkflow \cup cmdMetrics \cup cmdAnalytics
            \cup cmdAnalyticsQuery \cup cmdWebhooks \cup cmdAdmin \cup Projects
    PROVE  Asks(r)
<1>1. KeyIds \subseteq Ids /\ HookIds \subseteq Ids
    BY RegistryAssumption DEF KeyIds, HookIds, Ids
<1>2. \A p \in Patches : "tenant" \notin DOMAIN p
    BY DEF Patches
<1> QED
    BY <1>1, <1>2 DEF cmdEmit, cmdSession, cmdWorkflow, cmdMetrics, cmdAnalytics, cmdAnalyticsQuery,
        cmdWebhooks, cmdAdmin, Projects, Ask, AskOf, Asks

(* A request that is sent. *)
Sent(c, r) ==
    /\ Asks(r)
    /\ Receive(c, Stamped(r))
    /\ cl' = [cl EXCEPT ![c] = "waiting"]
    /\ DOMAIN cmd' = DOMAIN cmd /\ DOMAIN step' = DOMAIN step
    /\ \A d \in Clients \ {c} : cmd'[d] = cmd[d] /\ step'[d] = step[d]
    /\ UNCHANGED <<exit, file>>
    /\ exit[c] # 0
    /\ at[c] = "none" \/ (cmd[c] = "init" /\ at[c] = "answered" /\ step[c] \in {1, 2} /\ Expected(c))
    /\ cmd[c] = "init" /\ at[c] = "answered" => cmd'[c] = "init" /\ step'[c] = step[c] + 1
    /\ at[c] = "none" => step'[c] = 1
    /\ cmd'[c] \in {"export", "document"} => r.op = "read"
    /\ cmd'[c] = "init" => \/ step'[c] = 1 /\ r.op = "health"
                           \/ step'[c] = 2 /\ r.op = "createKey" /\ \E token : r = Mint(token)
                           \/ step'[c] = 3 /\ r.op = "emit" /\ r = TestEvent(c)

LEMMA BeginSends ==
    ASSUME ToolPart, NEW c \in Clients, NEW r, Asks(r), NEW kind,
           kind \in {"export", "document"} => r.op = "read",
           kind = "init" => r.op = "health",
           Begin(c, kind, r)
    PROVE  Sent(c, r)
<1>1. at[c] = "none" /\ exit[c] # 0
    BY DEF Begin, ToolPart, ToolOf
<1>2. /\ Receive(c, Stamped(r)) /\ UNCHANGED <<exit, file>>
      /\ cl' = [cl EXCEPT ![c] = "waiting"]
      /\ cmd' = [cmd EXCEPT ![c] = kind] /\ step' = [step EXCEPT ![c] = 1]
    BY DEF Begin, Send
<1>3. cmd'[c] = kind /\ step'[c] = 1
    BY <1>2 DEF ToolPart
<1>4. /\ DOMAIN cmd' = DOMAIN cmd /\ DOMAIN step' = DOMAIN step
      /\ \A d \in Clients \ {c} : cmd'[d] = cmd[d] /\ step'[d] = step[d]
    BY <1>2
<1> QED
    BY <1>1, <1>2, <1>3, <1>4 DEF Sent

LEMMA ToolSendsOrIsQuiet ==
    ASSUME ToolPart, NEW c \in Clients, Tool(c)
    PROVE  (\E r : Sent(c, r)) \/ Quiet
<1>1. CASE RunCommand(c)
    BY <1>1, CommandsAsk, BeginSends DEF RunCommand
<1>2. CASE RunInit(c)
    BY <1>2, BeginSends DEF RunInit, Health, Asks
<1>3. CASE RunExport(c)
    BY <1>3, BeginSends DEF RunExport, Fetch, Asks
<1>4. CASE RunDocument(c)
    BY <1>4, BeginSends DEF RunDocument, Fetch, Asks
<1>5. CASE EndInit(c)
    <2>1. cmd[c] = "init" /\ at[c] = "answered" /\ exit[c] # 0 /\ InitStep(c)
        BY <1>5 DEF EndInit, ToolPart, ToolOf
    <2>2. CASE ~Expected(c) \/ step[c] = 3
        BY <1>5, <2>2 DEF EndInit, Quiet
    <2>3. CASE ~(~Expected(c) \/ step[c] = 3)
        <3> Expected(c)
            BY <2>3
        <3>1. PICK token \in Admins :
                Receive(c, Stamped(IF step[c] = 1 THEN Mint(token) ELSE TestEvent(c)))
            BY <1>5, <2>3 DEF EndInit
        <3>2. /\ step' = [step EXCEPT ![c] = step[c] + 1]
              /\ cl' = [cl EXCEPT ![c] = "waiting"]
              /\ UNCHANGED <<cmd, exit, file>>
            BY <1>5, <2>3 DEF EndInit
        <3>3. step[c] \in {1, 2}
            BY <2>1, <2>3 DEF InitStep
        <3>4. step'[c] = step[c] + 1 /\ cmd'[c] = "init"
            BY <2>1, <3>2 DEF ToolPart
        <3>5. CASE step[c] = 1
            <4> DEFINE r == Mint(token)
            <4>1. Receive(c, Stamped(r)) /\ step'[c] = 2
                BY <3>1, <3>4, <3>5
            <4>2. Asks(r) /\ r.op = "createKey" /\ \E t : r = Mint(t)
                BY DEF Asks, Mint
            <4> HIDE DEF r
            <4>3. Sent(c, r)
                BY <2>1, <3>2, <3>3, <3>4, <4>1, <4>2 DEF Sent, ToolPart
            <4> QED
                BY <4>3
        <3>6. CASE step[c] = 2
            <4> DEFINE r == TestEvent(c)
            <4>1. Receive(c, Stamped(r)) /\ step'[c] = 3
                BY <3>1, <3>4, <3>6
            <4>2. Asks(r) /\ r.op = "emit" /\ r = TestEvent(c)
                BY DEF Asks, TestEvent
            <4> HIDE DEF r
            <4>3. Sent(c, r)
                BY <2>1, <3>2, <3>3, <3>4, <4>1, <4>2 DEF Sent, ToolPart
            <4> QED
                BY <4>3
        <3> QED
            BY <3>3, <3>5, <3>6
    <2> QED
        BY <2>2, <2>3
<1>6. CASE ~(RunCommand(c) \/ RunInit(c) \/ RunExport(c) \/ RunDocument(c) \/ EndInit(c))
    BY <1>6 DEF Tool, Headers, EndOne, EndExport, EndDocument, Finish, WriteFails, Break,
        NoticeBreak, Idle, Quiet
<1> QED
    BY <1>1, <1>2, <1>3, <1>4, <1>5, <1>6

LEMMA SentKeepsTool ==
    ASSUME ToolPart, NEW c \in Clients, NEW r, Sent(c, r)
    PROVE  ToolPart'
<1>1. /\ Requested(Stamped(r)) /\ Stamped(r).op = r.op
    BY StampedFacts DEF Sent
<1>2. /\ req' = [req EXCEPT ![c] = Stamped(r)] /\ at' = [at EXCEPT ![c] = "received"]
      /\ status' = [status EXCEPT ![c] = 0]
    BY DEF Sent, Receive
<1>3. \A d \in Clients \ {c} : ToolOf(d)'
    BY <1>2 DEF ToolPart, ToolOf, Sent, InitStep, Expected
<1>4. ToolOf(c)'
    BY <1>1, <1>2 DEF ToolPart, ToolOf, Sent, InitStep
<1>5. /\ DOMAIN req' = Clients /\ DOMAIN at' = Clients /\ DOMAIN status' = Clients
      /\ DOMAIN cmd' = Clients /\ DOMAIN cl' = Clients /\ DOMAIN exit' = Clients
      /\ DOMAIN step' = Clients /\ DOMAIN file' = Clients
    BY <1>2 DEF ToolPart, Sent
<1> QED
    BY <1>3, <1>4, <1>5 DEF ToolPart

(* What aep has done when it ends with exit code 0. *)
Exiting(c) ==
    exit[c] = 0 =>
        /\ cl[c] = "done"
        /\ cmd[c] \in {"export", "document"} => file[c] = "complete"
        /\ cmd[c] = "init" => step[c] = 3

(* The other steps of the tool: where its process and its exit code go. *)
LEMMA QuietFacts ==
    ASSUME ToolPart, NEW c \in Clients, Tool(c), Quiet
    PROVE  /\ DOMAIN cl' = Clients /\ DOMAIN exit' = Clients /\ DOMAIN file' = Clients
           /\ \A d \in Clients \ {c} : cl'[d] = cl[d] /\ exit'[d] = exit[d] /\ file'[d] = file[d]
           /\ \/ cl'[c] = cl[c] /\ exit'[c] = exit[c] /\ file'[c] = file[c]
              \/ cl'[c] = "done" /\ exit'[c] = 1 /\ cl[c] # "idle"
              \/ /\ cl'[c] = "done" /\ exit'[c] = 0 /\ cl[c] \in {"reading", "flushing"}
                 /\ Expected(c) /\ Exiting(c)'
              \/ /\ cl'[c] = "reading" /\ exit'[c] = exit[c] /\ cl[c] = "waiting"
                 /\ at[c] = "answered"
              \/ /\ cl'[c] = "flushing" /\ exit'[c] = exit[c] /\ cl[c] = "reading"
                 /\ cmd[c] = "export" /\ status[c] = 200
<1> USE DEF ToolPart, ToolOf, InitStep, Quiet, regVars, Exiting
<1>1. /\ DOMAIN cl' = Clients /\ DOMAIN exit' = Clients
      /\ \A d \in Clients \ {c} : cl'[d] = cl[d] /\ exit'[d] = exit[d]
    BY DEF Tool, RunCommand, RunInit, RunExport, RunDocument, Begin, Send, Receive, Headers,
        EndOne, EndInit, EndExport, EndDocument, Finish, WriteFails, Break, NoticeBreak, Idle, Exit
<1>2. DOMAIN file' = Clients /\ \A d \in Clients \ {c} : file'[d] = file[d]
    BY DEF Tool, RunCommand, RunInit, RunExport, RunDocument, Begin, Send, Receive, Headers,
        EndOne, EndInit, EndExport, EndDocument, Finish, WriteFails, Break, NoticeBreak, Idle, Exit
<1> DEFINE Move == \/ cl'[c] = cl[c] /\ exit'[c] = exit[c] /\ file'[c] = file[c]
                   \/ cl'[c] = "done" /\ exit'[c] = 1 /\ cl[c] # "idle"
                   \/ /\ cl'[c] = "done" /\ exit'[c] = 0 /\ cl[c] \in {"reading", "flushing"}
                      /\ Expected(c) /\ Exiting(c)'
                   \/ /\ cl'[c] = "reading" /\ exit'[c] = exit[c] /\ cl[c] = "waiting"
                      /\ at[c] = "answered"
                   \/ /\ cl'[c] = "flushing" /\ exit'[c] = exit[c] /\ cl[c] = "reading"
                      /\ cmd[c] = "export" /\ status[c] = 200
<1>3. Move
    <2>1. CASE Headers(c)
        BY <2>1 DEF Headers
    <2>2. CASE EndOne(c) \/ EndInit(c)
        BY <2>2 DEF EndOne, EndInit, Exit, Receive
    <2>3. CASE EndExport(c)
        BY <2>3 DEF EndExport, Exit
    <2>4. CASE EndDocument(c)
        BY <2>4 DEF EndDocument, Exit, Expected, ReadOps
    <2>5. CASE Finish(c)
        BY <2>5 DEF Finish, Exit, Expected, ReadOps
    <2>6. CASE WriteFails(c) \/ Break(c) \/ NoticeBreak(c) \/ Idle(c)
        BY <2>6 DEF WriteFails, Break, NoticeBreak, Idle, Exit, Waits
    <2>7. ~(RunCommand(c) \/ RunInit(c) \/ RunExport(c) \/ RunDocument(c))
        BY DEF RunCommand, RunInit, RunExport, RunDocument, Begin, Send, Receive
    <2> QED
        BY <2>1, <2>2, <2>3, <2>4, <2>5, <2>6, <2>7 DEF Tool
<1> QED
    BY <1>1, <1>2, <1>3

LEMMA QuietKeepsTool ==
    ASSUME ToolPart, NEW c \in Clients, Tool(c), Quiet
    PROVE  ToolPart'
<1>1. \A d \in Clients : Expected(d)' = Expected(d)
    BY DEF Expected, Quiet, regVars
<1> QED
    BY <1>1, QuietFacts DEF ToolPart, ToolOf, InitStep, Quiet, regVars

LEMMA ToolPartHolds == Spec => []ToolPart
<1>1. Init => ToolPart
    BY DEF Init, RegInit, ToolPart, ToolOf
<1>2. ToolPart /\ [Next]_vars => ToolPart'
    <2> SUFFICES ASSUME ToolPart, [Next]_vars
                 PROVE  ToolPart'
        OBVIOUS
    <2>1. ASSUME NEW c \in Clients, Server(c)
          PROVE  ToolPart'
        BY <2>1, ServerServes, ServesKeepsTool
    <2>2. ASSUME NEW c \in Clients, Tool(c)
          PROVE  ToolPart'
        <3>1. CASE \E r : Sent(c, r)
            BY <3>1, SentKeepsTool
        <3>2. CASE Quiet
            BY <2>2, <3>2, QuietKeepsTool
        <3> QED
            BY <2>2, <3>1, <3>2, ToolSendsOrIsQuiet
    <2>3. CASE UNCHANGED vars
        BY <2>3 DEF vars, regVars, cliVars, ToolPart, ToolOf, InitStep, Expected
    <2> QED
        BY <2>1, <2>2, <2>3 DEF Next
<1> QED
    BY <1>1, <1>2, PTL DEF Spec

-----------------------------------------------------------------------------
(* Deletions *)

(* c has been told that it has deleted h. *)
Deleted(c, h) ==
    at[c] = "answered" /\ req[c].op = "deleteHook" /\ req[c].arg = h /\ status[c] = 204

(* The row that c names has been inserted, if it ever is. *)
HookMade(c) == at[c] = "answered" /\ req[c].op = "createHook" /\ cmd[c] # "init"

DeletePart ==
    /\ DOMAIN hooks = Ids
    /\ \A c \in Clients, h \in Ids : Deleted(c, h) =>
          hooks[h] = Nothing /\ (h \in Clients => HookMade(h))
    /\ \A c \in Clients : hooks[c] # Nothing => HookMade(c)
    /\ \A h \in Ids : \A c, d \in Clients : Deleted(c, h) /\ Deleted(d, h) => c = d

LEMMA ServerKeepsDeletes ==
    ASSUME ToolPart, DeletePart, NEW c \in Clients, Server(c)
    PROVE  DeletePart'
<1> DEFINE h == req[c].arg
<1>1. /\ Serves(c) /\ Requested(req[c])
      /\ req'[c].op = req[c].op
      /\ req[c].op = "deleteHook" => req'[c].arg = h
    <2>1. Serves(c)
        BY ServerServes
    <2>2. Requested(req[c])
        BY <2>1 DEF Serves, ToolPart, ToolOf
    <2> QED
        BY <2>1, <2>2 DEF Serves, Requested, Asks
<1>2. ~HookMade(c) /\ \A i : ~Deleted(c, i)
    BY <1>1 DEF Serves, HookMade, Deleted
<1>3. \A d \in Clients \ {c} : HookMade(d)' = HookMade(d) /\ \A i : Deleted(d, i)' = Deleted(d, i)
    BY <1>1 DEF Serves, HookMade, Deleted, cliVars
<1>4. \A i : Deleted(c, i)' => i = h
    BY <1>1 DEF Deleted
<1>5. c \in Ids /\ DOMAIN hooks = Ids
    BY DEF DeletePart, Ids
<1>6. CASE CreateHook(c)
    <2>1. /\ \E row : hooks' = [hooks EXCEPT ![c] = row]
          /\ at'[c] = "answered" /\ req[c].op = "createHook"
        BY <1>6 DEF CreateHook, Commit, Answer, Handles, ToolPart
    <2>2. HookMade(c)'
        BY <1>1, <2>1 DEF HookMade, ToolPart, ToolOf, InitStep, Serves, cliVars
    <2>3. \A i : ~Deleted(c, i)'
        BY <1>1, <2>1 DEF Deleted
    <2> QED
        BY <1>2, <1>3, <1>5, <2>1, <2>2, <2>3 DEF DeletePart
<1>7. CASE WriteHook(c)
    <2>1. /\ hooks' = hooks \/ (hooks[h] # Nothing /\ \E row : hooks' = [hooks EXCEPT ![h] = row])
          /\ at'[c] = "written"
        BY <1>7 DEF WriteHook, Owned, ToolPart
    <2>2. \A i : ~Deleted(c, i)'
        BY <2>1 DEF Deleted
    <2>3. ~HookMade(c)'
        BY <2>1 DEF HookMade
    <2>4. /\ DOMAIN hooks' = Ids
          /\ \A i \in Ids : hooks[i] = Nothing => hooks'[i] = Nothing
        BY <1>5, <2>1
    <2> QED
        BY <1>2, <1>3, <1>5, <2>2, <2>3, <2>4 DEF DeletePart, Ids
<1>8. CASE DeleteHook(c) /\ Owned(c, hooks, h)
    <2>1. hooks' = [hooks EXCEPT ![h] = Nothing] /\ hooks[h] # Nothing /\ req[c].op = "deleteHook"
        BY <1>8 DEF DeleteHook, Owned, Handles
    <2>2. \A d \in Clients \ {c}, i \in Ids : Deleted(d, i) => i # h
        BY <2>1 DEF DeletePart
    <2>3. ~HookMade(c)'
        BY <1>1, <2>1 DEF HookMade
    <2>4. h \in Clients => h # c /\ HookMade(h)
        BY <1>2, <2>1 DEF DeletePart
    <2> QED
        BY <1>2, <1>3, <1>4, <1>5, <2>1, <2>2, <2>3, <2>4 DEF DeletePart
<1>9. CASE ~(CreateHook(c) \/ WriteHook(c) \/ (DeleteHook(c) /\ Owned(c, hooks, h)))
    <2>1. hooks' = hooks
        BY <1>9 DEF Server, Serve, Authorise, AuthoriseAdmin, AuthoriseWrite,
               AuthoriseRead, Accept, RefuseBody, Fail, Read, StoreEvent,
            CreateProject, CreateKey, FindKey, RevokeKey, FindHook, AnswerPatch, DeleteHook,
            SaveQuery, DeleteQuery, Refuse, tables
    <2>2. req[c].op = "deleteHook" /\ at'[c] = "answered" => status'[c] # 204
        BY <1>9 DEF Server, Serve, Authorise, AuthoriseAdmin, AuthoriseWrite,
               AuthoriseRead, Accept, RefuseBody, Fail, Read, StoreEvent, Handles,
            CreateProject, CreateKey, FindKey, RevokeKey, FindHook, AnswerPatch, DeleteHook,
            SaveQuery, DeleteQuery, Refuse, Commit, Answer, ToolPart, ReadOps, BodyOps
    <2>3. \A i : ~Deleted(c, i)'
        BY <1>1, <2>2 DEF Deleted
    <2> QED
        BY <1>2, <1>3, <1>5, <2>1, <2>3 DEF DeletePart
<1> QED
    BY <1>6, <1>7, <1>8, <1>9

(* A request that is sent changes no table and reports nothing. *)
LEMMA SentFacts ==
    ASSUME ToolPart, NEW c \in Clients, NEW r, Sent(c, r)
    PROVE  /\ UNCHANGED tables
           /\ \A d \in Clients \ {c} : /\ at'[d] = at[d] /\ req'[d] = req[d]
                                      /\ status'[d] = status[d] /\ cmd'[d] = cmd[d]
                                      /\ step'[d] = step[d]
           /\ at'[c] = "received" /\ status'[c] = 0 /\ req'[c] = Stamped(r)
           /\ at[c] = "none" \/ (at[c] = "answered" /\ req[c].op \in {"health", "createKey"})
BY DEF Sent, Receive, ToolPart, ToolOf, InitStep

LEMMA InitDeletes == Init => DeletePart
BY RegistryAssumption DEF Init, RegInit, DeletePart, Deleted, HookMade, Ids

LEMMA NextKeepsDeletes == ToolPart /\ DeletePart /\ [Next]_vars => DeletePart'
<1> SUFFICES ASSUME ToolPart, DeletePart, [Next]_vars
             PROVE  DeletePart'
    OBVIOUS
<1>1. ASSUME NEW c \in Clients, Server(c)
      PROVE  DeletePart'
    BY <1>1, ServerKeepsDeletes
<1>2. ASSUME NEW c \in Clients, NEW r, Sent(c, r)
      PROVE  DeletePart'
    <2>1. hooks' = hooks
        BY <1>2, SentFacts DEF tables
    <2>2. ~HookMade(c) /\ ~HookMade(c)'
        <3>1. at[c] = "none" \/ cmd[c] = "init"
            BY <1>2 DEF Sent
        <3> QED
            BY <1>2, <3>1, SentFacts DEF HookMade
    <2>3. \A i : ~Deleted(c, i)'
        BY <1>2, SentFacts DEF Deleted
    <2>4. \A d \in Clients \ {c} : /\ HookMade(d)' = HookMade(d)
                                  /\ \A i : Deleted(d, i)' = Deleted(d, i)
        BY <1>2, SentFacts DEF HookMade, Deleted
    <2> QED
        BY <2>1, <2>2, <2>3, <2>4 DEF DeletePart
<1>3. CASE Quiet
    BY <1>3 DEF Quiet, regVars, tables, DeletePart, Deleted, HookMade
<1>4. CASE UNCHANGED vars
    BY <1>4 DEF vars, regVars, cliVars, tables, DeletePart, Deleted, HookMade
<1> QED
    BY <1>1, <1>2, <1>3, <1>4, ToolSendsOrIsQuiet DEF Next

(* The DELETE is one statement, and the row it deletes decides the answer:     *)
(* of several commands that delete one webhook, one at most says it has.      *)
THEOREM DeletionsAreTold == Spec => []DeletedOnce
<1>1. Init => DeletePart
    BY InitDeletes
<1>2. ToolPart /\ DeletePart /\ [Next]_vars => DeletePart'
    BY NextKeepsDeletes
<1>3. ToolPart /\ DeletePart => DeletedOnce
    <2> SUFFICES ASSUME ToolPart, DeletePart, NEW h \in Ids, NEW c \in Clients, NEW d \in Clients,
                        exit[c] = 0, req[c].op = "deleteHook", req[c].arg = h,
                        exit[d] = 0, req[d].op = "deleteHook", req[d].arg = h
                 PROVE  c = d
        BY DEF DeletedOnce
    <2>1. Deleted(c, h) /\ Deleted(d, h)
        BY DEF Deleted, ToolPart, ToolOf, Expected, ReadOps
    <2> QED
        BY <2>1 DEF DeletePart
<1> QED
    BY <1>1, <1>2, <1>3, ToolPartHolds, PTL DEF Spec

-----------------------------------------------------------------------------
(* Revocations *)

(* c has been told that k is revoked. *)
Revoked(c, k) ==
    at[c] = "answered" /\ req[c].op = "revokeKey" /\ req[c].arg = k /\ status[c] \in Success

(* The key that c names has been inserted, if it ever is. *)
KeyMade(c) ==
    \/ at[c] = "answered" /\ req[c].op = "createKey" /\ cmd[c] # "init"
    \/ cmd[c] = "init" /\ step[c] = 3
    \/ cmd[c] = "init" /\ step[c] = 2 /\ at[c] = "answered"

IsKey(k) ==
    /\ "revoked" \in DOMAIN keys[k]
    /\ k \in Clients => KeyMade(k)

Dead(k) == IsKey(k) /\ keys[k].revoked

(* A request that was sent after the revocation of its key, and is not a      *)
(* read that needs no key.                                                    *)
Doomed(c) == req[c].late /\ ~(c \in OpenReads /\ req[c].op = "read")

Barred(c) ==
    /\ at[c] \in {"received", "answered"}
    /\ status[c] \notin Success
    /\ at[c] = "received" => req[c].by \in Ids /\ Dead(req[c].by)

RevokePart ==
    /\ DOMAIN keys = Ids
    /\ \A k \in Ids : keys[k] # Nothing => IsKey(k)
    /\ \A c \in Clients : at[c] = "written" => req[c].op = "updateHook"
    /\ \A c \in Clients : at[c] = "read" /\ req[c].op = "revokeKey" => IsKey(req[c].arg)
    /\ \A c \in Clients, k \in Ids : Revoked(c, k) => Dead(k)
    /\ \A c \in Clients : at[c] # "none" /\ Doomed(c) => Barred(c)

(* What the server does to the keys. *)
LEMMA ServerKeepsKeys ==
    ASSUME ToolPart, RevokePart, NEW c \in Clients, Server(c)
    PROVE  /\ DOMAIN keys' = Ids
           /\ \A d \in Clients : KeyMade(d) => KeyMade(d)'
           /\ \A k \in Ids : (IsKey(k) => IsKey(k)') /\ (Dead(k) => Dead(k)')
           /\ \A k \in Ids : keys'[k] # Nothing => IsKey(k)'
<1>1. Serves(c)
    BY ServerServes
<1>2. \A d \in Clients : KeyMade(d) => KeyMade(d)'
    <2>1. \A d \in Clients \ {c} : KeyMade(d) => KeyMade(d)'
        BY <1>1 DEF Serves, KeyMade, cliVars
    <2>2. KeyMade(c) => KeyMade(c)'
        BY <1>1 DEF Serves, KeyMade, cliVars
    <2> QED
        BY <2>1, <2>2
<1>3. c \in Ids /\ DOMAIN keys = Ids
    BY DEF RevokePart, Ids
<1>4. CASE CreateKey(c) /\ req[c].arg \in projects
    <2> DEFINE row == [tenant |-> req[c].for, project |-> req[c].arg,
                       scopes |-> {"read", "write"}, revoked |-> FALSE]
    <2>1. /\ keys' = [keys EXCEPT ![c] = row]
          /\ at[c] = "handling" /\ at'[c] = "answered" /\ req[c].op = "createKey" /\ UNCHANGED req
        BY <1>4 DEF CreateKey, Commit, Answer, Handles, ToolPart
    <2>2. ~KeyMade(c) /\ KeyMade(c)'
        BY <1>1, <2>1 DEF KeyMade, ToolPart, ToolOf, InitStep, Serves, cliVars
    <2>3. keys'[c] = row /\ "revoked" \in DOMAIN row
        BY <1>3, <2>1
    <2>4. IsKey(c)' /\ ~IsKey(c)
        BY <2>2, <2>3 DEF IsKey
    <2>5. DOMAIN keys' = Ids /\ \A k \in Ids \ {c} : keys'[k] = keys[k]
        BY <1>3, <2>1
    <2> QED
        BY <1>2, <2>4, <2>5 DEF IsKey, Dead, RevokePart
<1>5. CASE RevokeKey(c)
    <2> DEFINE h == req[c].arg
    <2>1. /\ keys' = [keys EXCEPT ![h] = [keys[h] EXCEPT !.revoked = TRUE]]
          /\ IsKey(h) /\ h \in Ids
        BY <1>1, <1>5 DEF RevokeKey, RevokePart, Serves, ToolPart, ToolOf, Requested, Asks
    <2>2. /\ DOMAIN keys' = Ids /\ \A k \in Ids \ {h} : keys'[k] = keys[k]
          /\ keys'[h] = [keys[h] EXCEPT !.revoked = TRUE]
        BY <1>3, <2>1
    <2>3. \A k \in Ids : k = h => IsKey(k)' /\ Dead(k)'
        <3>1. DOMAIN keys'[h] = DOMAIN keys[h] /\ ("revoked" \in DOMAIN keys[h] => keys'[h].revoked = TRUE)
            BY <2>2
        <3> QED
            BY <1>2, <2>1, <3>1 DEF IsKey, Dead
    <2> QED
        BY <1>2, <2>2, <2>3 DEF IsKey, Dead, RevokePart
<1>6. CASE ~(CreateKey(c) /\ req[c].arg \in projects) /\ ~RevokeKey(c)
    <2>1. keys' = keys
        BY <1>6 DEF Server, Serve, Authorise, AuthoriseAdmin, AuthoriseWrite,
               AuthoriseRead, Accept, RefuseBody, Fail, Read, StoreEvent,
            CreateProject, CreateKey, FindKey, CreateHook, FindHook, WriteHook, AnswerPatch,
            DeleteHook, SaveQuery, DeleteQuery, Refuse, tables
    <2> QED
        BY <1>2, <1>3, <2>1 DEF IsKey, Dead, RevokePart
<1> QED
    BY <1>4, <1>5, <1>6

LEMMA ServerKeepsRevocations ==
    ASSUME ToolPart, RevokePart, NEW c \in Clients, Server(c)
    PROVE  RevokePart'
<1> DEFINE h == req[c].arg
<1>1. /\ Serves(c) /\ Requested(req[c])
      /\ req'[c].op = req[c].op /\ req'[c].by = req[c].by /\ req'[c].late = req[c].late
      /\ req[c].op = "revokeKey" => req'[c].arg = h /\ h \in Ids
    <2>1. Serves(c)
        BY ServerServes
    <2>2. Requested(req[c])
        BY <2>1 DEF Serves, ToolPart, ToolOf
    <2> QED
        BY <2>1, <2>2 DEF Serves, Requested, Asks
<1>2. /\ DOMAIN keys' = Ids
      /\ \A k \in Ids : (IsKey(k) => IsKey(k)') /\ (Dead(k) => Dead(k)')
      /\ \A k \in Ids : keys'[k] # Nothing => IsKey(k)'
    BY ServerKeepsKeys
<1>3. \A d \in Clients \ {c} : at'[d] = at[d] /\ req'[d] = req[d] /\ status'[d] = status[d]
    BY <1>1 DEF Serves
<1>4. at'[c] = "read" /\ req[c].op = "revokeKey" => IsKey(h)'
    <2> SUFFICES ASSUME at'[c] = "read", req[c].op = "revokeKey"
                 PROVE  IsKey(h)'
        OBVIOUS
    <2>1. FindKey(c)
        BY DEF Server, Serve, Authorise, AuthoriseAdmin, AuthoriseWrite,
               AuthoriseRead, Accept, RefuseBody, Fail, Read, StoreEvent, Handles,
            CreateProject, CreateKey, RevokeKey, CreateHook, FindHook, WriteHook, AnswerPatch,
            DeleteHook, SaveQuery, DeleteQuery, Refuse, Commit, Answer, ToolPart
    <2>2. keys[h] # Nothing /\ h' = h
        BY <2>1 DEF FindKey, Refuse, Answer, ToolPart
    <2> QED
        BY <1>1, <1>2, <2>2 DEF RevokePart
<1>5. \A k \in Ids : Revoked(c, k)' => Dead(k)'
    <2> SUFFICES ASSUME NEW k \in Ids, Revoked(c, k)'
                 PROVE  Dead(k)'
        OBVIOUS
    <2>1. req[c].op = "revokeKey" /\ k = h /\ at'[c] = "answered" /\ status'[c] \in Success
        BY <1>1 DEF Revoked
    <2>2. RevokeKey(c)
        BY <2>1 DEF RevokePart, Server, Serve, Authorise, AuthoriseAdmin, AuthoriseWrite,
               AuthoriseRead, Accept, RefuseBody, Fail, Read, StoreEvent, Handles, Success,
            CreateProject, CreateKey, FindKey, CreateHook, FindHook, WriteHook, AnswerPatch,
            DeleteHook, SaveQuery, DeleteQuery, Refuse, Commit, Answer, ToolPart, ReadOps
    <2>3. /\ keys' = [keys EXCEPT ![h] = [keys[h] EXCEPT !.revoked = TRUE]]
          /\ IsKey(h)
        BY <2>2 DEF RevokeKey, RevokePart
    <2>4. keys'[k] = [keys[k] EXCEPT !.revoked = TRUE]
        BY <2>1, <2>3 DEF RevokePart
    <2>5. keys'[k].revoked = TRUE
        BY <2>1, <2>3, <2>4 DEF IsKey
    <2> QED
        BY <1>2, <2>1, <2>3, <2>5 DEF Dead
<1>6. Doomed(c) => Barred(c)'
    <2> SUFFICES ASSUME Doomed(c)
                 PROVE  Barred(c)'
        OBVIOUS
    <2>1. at[c] = "received" /\ req[c].by \in Ids /\ Dead(req[c].by)
        BY <1>1 DEF RevokePart, Barred, Serves
    <2>2. req[c].by # Admin /\ req[c].op # "health"
        BY <1>1, <2>1, RegistryAssumption DEF Requested, Asks
    <2>3. Authorise(c)
        BY <2>1 DEF Server, Serve, RefuseBody, Fail, Read, StoreEvent, Handles,
            CreateProject, CreateKey, FindKey, RevokeKey, CreateHook, FindHook, WriteHook,
            AnswerPatch, DeleteHook, SaveQuery, DeleteQuery
    <2>4. LiveKey(c) = Nothing
        BY <2>1, <2>2 DEF LiveKey, Dead
    <2>5. Refuse(c, 401)
        BY <2>2, <2>3, <2>4 DEF Authorise, AuthoriseAdmin, AuthoriseWrite, AuthoriseRead, Doomed
    <2> QED
        BY <2>5 DEF Refuse, Answer, Barred, Success, ToolPart
<1>7. \A d \in Clients \ {c} : at[d] # "none" /\ Doomed(d) => Barred(d)'
    BY <1>2, <1>3 DEF RevokePart, Barred
<1>8. \A d \in Clients : at'[d] # "none" /\ Doomed(d)' => Barred(d)'
    <2>1. at[c] # "none" /\ (Doomed(c)' => Doomed(c))
        BY <1>1 DEF Doomed, Serves
    <2>2. \A d \in Clients \ {c} : Doomed(d)' => Doomed(d)
        BY <1>3 DEF Doomed
    <2> QED
        BY <1>3, <1>6, <1>7, <2>1, <2>2
<1>9. \A d \in Clients : at'[d] = "read" /\ req'[d].op = "revokeKey" => IsKey(req[d].arg)'
    <2> SUFFICES ASSUME NEW d \in Clients, d # c, at[d] = "read", req[d].op = "revokeKey"
                 PROVE  IsKey(req[d].arg)'
        BY <1>1, <1>3, <1>4
    <2>1. IsKey(req[d].arg) /\ req[d].arg \in Ids
        BY DEF RevokePart, ToolPart, ToolOf, Requested, Asks
    <2> QED
        BY <1>2, <1>3, <2>1
<1>10. \A d \in Clients, k \in Ids : Revoked(d, k)' => Dead(k)'
    <2> SUFFICES ASSUME NEW d \in Clients, NEW k \in Ids, d # c, Revoked(d, k)'
                 PROVE  Dead(k)'
        BY <1>5
    <2>1. Revoked(d, k)
        BY <1>3 DEF Revoked
    <2> QED
        BY <1>2, <2>1 DEF RevokePart
<1>11. \A d \in Clients : at'[d] = "written" => req'[d].op = "updateHook"
    <2>1. at'[c] = "written" => WriteHook(c)
        BY DEF Server, Serve, Authorise, AuthoriseAdmin, AuthoriseWrite,
               AuthoriseRead, Accept, RefuseBody, Fail, Read, StoreEvent,
            CreateProject, CreateKey, FindKey, RevokeKey, CreateHook, FindHook, AnswerPatch,
            DeleteHook, SaveQuery, DeleteQuery, Refuse, Commit, Answer, ToolPart
    <2>2. at'[c] = "written" => req'[c].op = "updateHook"
        BY <1>1, <2>1 DEF WriteHook
    <2> QED
        BY <1>3, <2>2 DEF RevokePart
<1> QED
    BY <1>2, <1>8, <1>9, <1>10, <1>11 DEF RevokePart

LEMMA InitRevokes == Init => RevokePart
<1> SUFFICES ASSUME Init
             PROVE  RevokePart
    OBVIOUS
<1>1. /\ DOMAIN keys = Ids
      /\ \A k \in Ids : keys[k] = IF k \in DOMAIN FirstKeys THEN FirstKeys[k] ELSE Nothing
      /\ \A c \in Clients : at[c] = "none"
    BY DEF Init, RegInit
<1>2. \A k \in DOMAIN FirstKeys : "revoked" \in DOMAIN FirstKeys[k] /\ k \notin Clients
    BY RegistryAssumption
<1>3. \A k \in Ids : keys[k] # Nothing => IsKey(k)
    BY <1>1, <1>2 DEF IsKey
<1> QED
    BY <1>1, <1>3 DEF RevokePart, Revoked

LEMMA NextKeepsRevokes == ToolPart /\ RevokePart /\ [Next]_vars => RevokePart'
<1> SUFFICES ASSUME ToolPart, RevokePart, [Next]_vars
             PROVE  RevokePart'
    OBVIOUS
<1>1. ASSUME NEW c \in Clients, Server(c)
      PROVE  RevokePart'
    BY <1>1, ServerKeepsRevocations
<1>2. ASSUME NEW c \in Clients, NEW r, Sent(c, r)
      PROVE  RevokePart'
    <2>1. keys' = keys
        BY <1>2, SentFacts DEF tables
    <2>2. /\ at'[c] = "received" /\ status'[c] = 0 /\ req'[c] = Stamped(r)
          /\ \A d \in Clients \ {c} : at'[d] = at[d] /\ req'[d] = req[d] /\ status'[d] = status[d]
        BY <1>2, SentFacts
    <2>3. \A d \in Clients : KeyMade(d) => KeyMade(d)'
        <3>1. KeyMade(c) => KeyMade(c)'
            BY <1>2, SentFacts DEF Sent, KeyMade, ToolPart, ToolOf, InitStep
        <3>2. \A d \in Clients \ {c} : KeyMade(d) => KeyMade(d)'
            BY <1>2, SentFacts DEF KeyMade
        <3> QED
            BY <3>1, <3>2
    <2>4. \A k \in Ids : (IsKey(k) => IsKey(k)') /\ (Dead(k) => Dead(k)')
        BY <2>1, <2>3 DEF IsKey, Dead
    <2>5. Doomed(c)' => Barred(c)'
        <3> SUFFICES ASSUME req'[c].late
                     PROVE  Barred(c)'
            BY DEF Doomed
        <3>1. Stamped(r).by = r.by
              /\ \E d \in Clients : exit[d] = 0 /\ req[d].op = "revokeKey" /\ req[d].arg = r.by
            BY <1>2, <2>2, StampedFacts DEF Sent
        <3>2. PICK d \in Clients : exit[d] = 0 /\ req[d].op = "revokeKey" /\ req[d].arg = r.by
            BY <3>1
        <3>3. Revoked(d, r.by) /\ r.by \in Ids
            BY <3>2 DEF ToolPart, ToolOf, Requested, Asks, Expected, ReadOps, Revoked, Success
        <3>4. Dead(r.by)
            BY <3>3 DEF RevokePart
        <3>5. req'[c].by \in Ids /\ req'[c].by = r.by
            BY <2>2, <3>1, <3>3
        <3> QED
            BY <2>2, <2>4, <3>4, <3>5 DEF Barred, Success
    <2>6. \A d \in Clients \ {c} : at[d] # "none" /\ Doomed(d) => Barred(d)'
        BY <2>2, <2>4 DEF RevokePart, Barred
    <2>7. \A d \in Clients, k \in Ids : Revoked(d, k)' => Dead(k)'
        BY <2>2, <2>4 DEF RevokePart, Revoked
    <2>8. \A d \in Clients : at'[d] = "read" /\ req'[d].op = "revokeKey" => IsKey(req[d].arg)'
        <3> SUFFICES ASSUME NEW d \in Clients, d # c, at[d] = "read", req[d].op = "revokeKey"
                     PROVE  IsKey(req[d].arg)'
            BY <2>2
        <3>1. IsKey(req[d].arg) /\ req[d].arg \in Ids
            BY DEF RevokePart, ToolPart, ToolOf, Requested, Asks
        <3> QED
            BY <2>2, <2>4, <3>1
    <2>9. \A k \in Ids : keys'[k] # Nothing => IsKey(k)'
        BY <2>1, <2>4 DEF RevokePart
    <2> QED
        BY <2>1, <2>2, <2>5, <2>6, <2>7, <2>8, <2>9 DEF RevokePart, Doomed
<1>3. CASE Quiet
    BY <1>3 DEF Quiet, regVars, tables, RevokePart, Revoked, Barred, Doomed, Dead, IsKey, KeyMade
<1>4. CASE UNCHANGED vars
    BY <1>4 DEF vars, regVars, cliVars, tables, RevokePart, Revoked, Barred, Doomed, Dead, IsKey, KeyMade
<1> QED
    BY <1>1, <1>2, <1>3, <1>4, ToolSendsOrIsQuiet DEF Next

(* DELETE /admin/keys/:id is answered after its UPDATE, and a key's row is     *)
(* read for every request: once a revocation has been reported, no request    *)
(* that is sent with the key succeeds (AUTH.md: immediate), except a read     *)
(* where reads are open to everyone.                                          *)
THEOREM RevocationsHold == Spec => []RevokedRefused
<1>1. Init => RevokePart
    BY InitRevokes
<1>2. ToolPart /\ RevokePart /\ [Next]_vars => RevokePart'
    BY NextKeepsRevokes
<1>3. ToolPart /\ RevokePart => RevokedRefused
    BY DEF ToolPart, ToolOf, RevokePart, Barred, Doomed, RevokedRefused
<1> QED
    BY <1>1, <1>2, <1>3, ToolPartHolds, PTL DEF Spec

-----------------------------------------------------------------------------
(* Exit codes *)

(* A PATCH: the row it has read is of its tenant, and a row that was not there *)
(* when it wrote is not there when it answers.                                *)
Patching(c) ==
    /\ at[c] = "read" /\ req[c].op = "updateHook" =>
          "tenant" \in DOMAIN seen[c] /\ seen[c].tenant = req[c].tenant
    /\ at[c] \in {"read", "written"} /\ req[c].op = "updateHook" =>
          (req[c].arg \in Clients => HookMade(req[c].arg))
    /\ at[c] = "written" => c \in done \/ ~Owned(c, hooks, req[c].arg)

(* aep init: the key it is to mint, then the event that is to come in with it. *)
Minting(c) ==
    cmd[c] = "init" /\ at[c] # "none" =>
        /\ step[c] = 2 => /\ {"for", "arg"} \subseteq DOMAIN req[c]
                          /\ req[c].for = DefaultTenant /\ req[c].arg = DefaultProject
        /\ step[c] = 3 => "arg" \in DOMAIN req[c] /\ req[c].arg = c
        /\ step[c] = 3 \/ (step[c] = 2 /\ at[c] = "answered" /\ Expected(c)) => keys[c] \in Minted
        /\ step[c] = 3 /\ at[c] = "answered" /\ Expected(c) => c \in events

ExitPart ==
    /\ DOMAIN seen = Clients
    /\ \A h \in Ids : hooks[h] # Nothing => "tenant" \in DOMAIN hooks[h]
    /\ \A c \in Clients : at[c] = "answered" /\ Expected(c) => c \in done
    /\ \A c \in Clients : Patching(c) /\ Minting(c) /\ Exiting(c)

(* What the server does to the webhooks: a row keeps its tenant. *)
LEMMA RowsKeepTenant ==
    ASSUME ToolPart, DeletePart, ExitPart, NEW c \in Clients, Server(c)
    PROVE  \A h \in Ids : hooks'[h] # Nothing =>
              /\ "tenant" \in DOMAIN hooks'[h]
              /\ \/ hooks[h] # Nothing /\ hooks'[h].tenant = hooks[h].tenant
                 \/ h = c /\ at[c] = "handling"
<1>1. c \in Ids /\ DOMAIN hooks = Ids
    BY DEF DeletePart, Ids
<1>2. CASE CreateHook(c)
    <2>1. at[c] = "handling" /\ \E row : "tenant" \in DOMAIN row /\ hooks' = [hooks EXCEPT ![c] = row]
        BY <1>2 DEF CreateHook, Handles
    <2> QED
        BY <1>1, <2>1 DEF ExitPart
<1>3. CASE WriteHook(c)
    <2> DEFINE h == req[c].arg
    <2>1. CASE ~Owned(c, hooks, h)
        BY <1>3, <2>1 DEF WriteHook, ExitPart
    <2>2. CASE Owned(c, hooks, h)
        <3> DEFINE new == Over(req[c].patch, seen[c])
        <3>1. hooks' = [hooks EXCEPT ![h] = new] /\ at[c] = "read" /\ req[c].op = "updateHook"
            BY <1>3, <2>2 DEF WriteHook, Merged
        <3>2. "tenant" \in DOMAIN seen[c] /\ seen[c].tenant = req[c].tenant
            BY <3>1 DEF ExitPart, Patching
        <3>3. "tenant" \notin DOMAIN req[c].patch
            BY <3>1 DEF ToolPart, ToolOf, Requested, Asks
        <3>4. "tenant" \in DOMAIN new /\ new.tenant = req[c].tenant
            BY <3>2, <3>3 DEF Over
        <3>5. hooks[h] # Nothing /\ hooks[h].tenant = req[c].tenant
            BY <2>2 DEF Owned, TenantOf
        <3> HIDE DEF new
        <3> QED
            BY <1>1, <3>1, <3>4, <3>5 DEF ExitPart
    <2> QED
        BY <2>1, <2>2
<1>4. CASE DeleteHook(c)
    BY <1>1, <1>4 DEF DeleteHook, Refuse, tables, ExitPart
<1>5. CASE ~(CreateHook(c) \/ WriteHook(c) \/ DeleteHook(c))
    <2>1. hooks' = hooks
        BY <1>5 DEF Server, Serve, Authorise, AuthoriseAdmin, AuthoriseWrite,
               AuthoriseRead, Accept, RefuseBody, Fail, Read, StoreEvent,
            CreateProject, CreateKey, FindKey, RevokeKey, FindHook, AnswerPatch,
            SaveQuery, DeleteQuery, Refuse, tables
    <2> QED
        BY <2>1 DEF ExitPart
<1> QED
    BY <1>2, <1>3, <1>4, <1>5

(* An answer that the tool takes for success is the answer of a commit. *)
LEMMA AnswersAreTrue ==
    ASSUME ToolPart, DeletePart, RevokePart, ExitPart, NEW c \in Clients, Server(c)
    PROVE  /\ \A d \in Clients \ {c} : d \in done' <=> d \in done
           /\ at'[c] = "answered" /\ Expected(c)' => c \in done'
<1>1. Serves(c) /\ req'[c].op = req[c].op
    BY ServerServes DEF Serves, ToolPart, ToolOf
<1>2. \A d \in Clients \ {c} : d \in done' <=> d \in done
    BY DEF Server, Serve, Authorise, AuthoriseAdmin, AuthoriseWrite,
               AuthoriseRead, Accept, RefuseBody, Fail, Read, StoreEvent,
        CreateProject, CreateKey, FindKey, RevokeKey, CreateHook, FindHook, WriteHook, AnswerPatch,
        DeleteHook, SaveQuery, DeleteQuery, Refuse, Commit, history
<1>3. CASE AnswerPatch(c)
    <2>1. /\ at[c] = "written" /\ req[c].op = "updateHook" /\ done' = done
          /\ status'[c] = IF Owned(c, hooks, req[c].arg) THEN 200 ELSE 404
        BY <1>3 DEF AnswerPatch, Answer, RevokePart, ToolPart, history
    <2>2. Expected(c)' => status'[c] = 200
        BY <1>1, <2>1 DEF Expected, ReadOps
    <2> QED
        BY <1>2, <2>1, <2>2 DEF ExitPart, Patching
<1>4. CASE ~AnswerPatch(c)
    <2>1. at'[c] = "answered" => c \in done' \/ \E code \in {400, 401, 403, 404, 409, 500} : Refuse(c, code)
        BY <1>4 DEF Server, Serve, Authorise, AuthoriseAdmin, AuthoriseWrite,
               AuthoriseRead, Accept, RefuseBody, Fail, Read, StoreEvent,
            CreateProject, CreateKey, FindKey, RevokeKey, CreateHook, FindHook, WriteHook,
            DeleteHook, SaveQuery, DeleteQuery, Commit, ToolPart
    <2>2. ASSUME NEW code \in {400, 401, 403, 404, 409, 500}, Refuse(c, code)
          PROVE  ~Expected(c)'
        BY <2>2 DEF Refuse, Answer, Expected, ToolPart
    <2> QED
        BY <1>2, <2>1, <2>2
<1> QED
    BY <1>3, <1>4

LEMMA ServerKeepsPatches ==
    ASSUME ToolPart, DeletePart, RevokePart, ExitPart, NEW c \in Clients, Server(c)
    PROVE  \A d \in Clients : Patching(d)'
<1> DEFINE h == req[c].arg
<1>1. /\ Serves(c) /\ ~HookMade(c) /\ at[c] \in {"received", "handling", "read", "written"}
      /\ \A d \in Clients : HookMade(d) => HookMade(d)'
    <2>1. Serves(c)
        BY ServerServes
    <2> QED
        BY <2>1 DEF Serves, HookMade, cliVars
<1>2. \A i \in Ids : hooks'[i] # Nothing =>
          \/ hooks[i] # Nothing /\ hooks'[i].tenant = hooks[i].tenant
          \/ i = c /\ at[c] = "handling"
    BY RowsKeepTenant
<1>3. ASSUME NEW d \in Clients \ {c}
      PROVE  Patching(d)'
    <2>1. /\ at'[d] = at[d] /\ req'[d] = req[d] /\ (d \in done' <=> d \in done)
          /\ seen'[d] = seen[d]
        <3>1. seen'[d] = seen[d]
            BY DEF Server, Serve, Authorise, AuthoriseAdmin, AuthoriseWrite,
               AuthoriseRead, Accept, RefuseBody, Fail, Read, StoreEvent,
                CreateProject, CreateKey, FindKey, RevokeKey, CreateHook, FindHook, WriteHook,
                AnswerPatch, DeleteHook, SaveQuery, DeleteQuery, Refuse, Commit, ExitPart
        <3> QED
            BY <1>1, <3>1, AnswersAreTrue DEF Serves
    <2>2. /\ at[d] = "written" => req[d].op = "updateHook" /\ req[d].arg \in Ids
          /\ at[d] = "read" /\ req[d].op = "updateHook" => req[d].arg \in Ids
        BY DEF RevokePart, ToolPart, ToolOf, Requested, Asks
    <2>3. at[d] = "written" /\ ~Owned(d, hooks, req[d].arg) => ~Owned(d, hooks, req[d].arg)'
        <3>1. at[d] = "written" => req[d].arg # c
            BY <1>1, <2>2 DEF ExitPart, Patching
        <3> QED
            BY <1>2, <2>1, <2>2, <3>1 DEF Owned, TenantOf
    <2> QED
        BY <1>1, <2>1, <2>2, <2>3 DEF ExitPart, Patching
<1>4. Patching(c)'
    <2>1. CASE FindHook(c) /\ Owned(c, hooks, h)
        <3>1. /\ seen'[c] = hooks[h] /\ at'[c] = "read" /\ hooks' = hooks /\ UNCHANGED req
              /\ req[c].op = "updateHook" /\ h \in Ids
            BY <1>1, <2>1 DEF FindHook, ExitPart, ToolPart, ToolOf, tables, Handles, Requested, Asks
        <3>2. hooks[h] # Nothing /\ hooks[h].tenant = req[c].tenant
            BY <2>1 DEF Owned, TenantOf
        <3>3. "tenant" \in DOMAIN hooks[h] /\ (h \in Clients => HookMade(h))
            BY <3>1, <3>2 DEF ExitPart, DeletePart
        <3> QED
            BY <1>1, <3>1, <3>2, <3>3 DEF Patching
    <2>2. CASE WriteHook(c)
        <3>1. /\ at[c] = "read" /\ at'[c] = "written" /\ req[c].op = "updateHook" /\ UNCHANGED req
              /\ Owned(c, hooks, h) => c \in done'
              /\ ~Owned(c, hooks, h) => hooks' = hooks
            BY <2>2 DEF WriteHook, ToolPart
        <3>2. ~Owned(c, hooks, h) => ~Owned(c, hooks, req[c].arg)'
            BY <3>1 DEF Owned, TenantOf
        <3> QED
            BY <1>1, <3>1, <3>2 DEF ExitPart, Patching
    <2>3. CASE ~((FindHook(c) /\ Owned(c, hooks, h)) \/ WriteHook(c))
        <3>1. ~(at'[c] \in {"read", "written"} /\ req[c].op = "updateHook")
            BY <2>3 DEF Server, Serve, Authorise, AuthoriseAdmin, AuthoriseWrite,
               AuthoriseRead, Accept, RefuseBody, Fail, Read, StoreEvent,
                CreateProject, CreateKey, FindKey, RevokeKey, CreateHook, FindHook,
                AnswerPatch, DeleteHook, SaveQuery, DeleteQuery, Refuse, Commit, Answer, Handles, ToolPart
        <3>2. req'[c].op = req[c].op
            BY <1>1 DEF Serves, ToolPart, ToolOf
        <3>3. at'[c] # "written"
            BY <2>3 DEF Server, Serve, Authorise, AuthoriseAdmin, AuthoriseWrite,
               AuthoriseRead, Accept, RefuseBody, Fail, Read, StoreEvent,
                CreateProject, CreateKey, FindKey, RevokeKey, CreateHook, FindHook,
                AnswerPatch, DeleteHook, SaveQuery, DeleteQuery, Refuse, Commit, Answer, Handles, ToolPart
        <3> QED
            BY <3>1, <3>2, <3>3 DEF Patching
    <2> QED
        BY <2>1, <2>2, <2>3
<1> QED
    BY <1>3, <1>4

LEMMA ServerKeepsMints ==
    ASSUME ToolPart, DeletePart, RevokePart, ExitPart, NEW c \in Clients, Server(c)
    PROVE  \A d \in Clients : Minting(d)'
<1>1. /\ Serves(c) /\ Requested(req[c])
      /\ DOMAIN keys = Ids /\ c \in Ids
    BY ServerServes DEF Serves, ToolPart, ToolOf, RevokePart, Ids
<1>2. events \subseteq events'
    BY DEF Server, Serve, Authorise, AuthoriseAdmin, AuthoriseWrite,
               AuthoriseRead, Accept, RefuseBody, Fail, Read, StoreEvent,
        CreateProject, CreateKey, FindKey, RevokeKey, CreateHook, FindHook, WriteHook,
        AnswerPatch, DeleteHook, SaveQuery, DeleteQuery, Refuse, tables
<1>3. \A k \in Ids : keys[k] \in Minted => keys'[k] \in Minted \/ (k = c /\ CreateKey(c))
    <2>1. CASE RevokeKey(c)
        <3>1. keys' = [keys EXCEPT ![req[c].arg] = [keys[req[c].arg] EXCEPT !.revoked = TRUE]]
            BY <2>1 DEF RevokeKey
        <3> QED
            BY <1>1, <3>1 DEF Minted
    <2>2. CASE CreateKey(c)
        BY <1>1, <2>2 DEF CreateKey, Refuse, tables
    <2>3. CASE ~(RevokeKey(c) \/ CreateKey(c))
        <3>1. keys' = keys
            BY <2>3 DEF Server, Serve, Authorise, AuthoriseAdmin, AuthoriseWrite,
               AuthoriseRead, Accept, RefuseBody, Fail, Read, StoreEvent,
                CreateProject, FindKey, CreateHook, FindHook, WriteHook, AnswerPatch,
                DeleteHook, SaveQuery, DeleteQuery, Refuse, tables
        <3> QED
            BY <3>1
    <2> QED
        BY <2>1, <2>2, <2>3
<1>4. ASSUME NEW d \in Clients \ {c}
      PROVE  Minting(d)'
    <2>1. /\ at'[d] = at[d] /\ req'[d] = req[d] /\ status'[d] = status[d] /\ cmd' = cmd /\ step' = step
        BY <1>1 DEF Serves, cliVars
    <2>2. Expected(d)' = Expected(d) /\ Minting(d) /\ d \in Ids
        BY <2>1 DEF Expected, ExitPart, Ids
    <2> QED
        BY <1>2, <1>3, <2>1, <2>2 DEF Minting
<1>5. Minting(c)'
    <2> SUFFICES ASSUME cmd[c] = "init"
                 PROVE  Minting(c)'
        BY <1>1 DEF Minting, Serves, cliVars
    <2>1. /\ InitStep(c) /\ Minting(c) /\ at[c] # "none" /\ at[c] # "answered"
          /\ cmd' = cmd /\ step' = step
        BY <1>1 DEF ToolPart, ToolOf, ExitPart, Serves, cliVars
    <2>2. /\ req'[c].op = req[c].op
          /\ \A f \in DOMAIN req[c] : f # "tenant" => f \in DOMAIN req'[c] /\ req'[c][f] = req[c][f]
        BY <1>1 DEF Serves
    <2>3. CASE step[c] = 1
        BY <2>1, <2>3 DEF Minting
    <2>4. CASE step[c] = 2
        <3>1. /\ {"for", "arg"} \subseteq DOMAIN req'[c]
              /\ req'[c].for = DefaultTenant /\ req'[c].arg = DefaultProject
            BY <2>1, <2>2, <2>4 DEF Minting
        <3>2. at'[c] = "answered" /\ Expected(c)' => keys'[c] \in Minted
            <4> SUFFICES ASSUME at'[c] = "answered", Expected(c)'
                         PROVE  keys'[c] \in Minted
                OBVIOUS
            <4>1. req[c].op = "createKey" /\ status'[c] = 201
                BY <2>1, <2>2, <2>4 DEF InitStep, Expected, ReadOps
            <4>2. CreateKey(c) /\ req[c].arg \in projects
                BY <4>1 DEF Server, Serve, Authorise, AuthoriseAdmin, AuthoriseWrite,
               AuthoriseRead, Accept, RefuseBody, Fail, Read, StoreEvent,
                    CreateProject, CreateKey, FindKey, RevokeKey, CreateHook, FindHook, WriteHook,
                    AnswerPatch, DeleteHook, SaveQuery, DeleteQuery, Refuse, Commit, Answer, Handles,
                    ToolPart, RevokePart, ReadOps
            <4>3. keys'[c] = [tenant |-> req[c].for, project |-> req[c].arg,
                              scopes |-> {"read", "write"}, revoked |-> FALSE]
                BY <1>1, <4>2 DEF CreateKey
            <4>4. req[c].for = DefaultTenant /\ req[c].arg = DefaultProject
                BY <2>1, <2>4 DEF Minting
            <4> QED
                BY <4>3, <4>4 DEF Minted
        <3> QED
            BY <2>1, <2>4, <3>1, <3>2 DEF Minting
    <2>5. CASE step[c] = 3
        <3>1. req[c].op = "emit" /\ "arg" \in DOMAIN req[c] /\ req[c].arg = c /\ keys[c] \in Minted
            BY <2>1, <2>5 DEF InitStep, Minting
        <3>2. keys'[c] \in Minted
            BY <1>1, <1>3, <3>1 DEF CreateKey, Handles
        <3>3. at'[c] = "answered" /\ Expected(c)' => c \in events'
            <4> SUFFICES ASSUME at'[c] = "answered", Expected(c)'
                         PROVE  c \in events'
                OBVIOUS
            <4>1. status'[c] \in {200, 202}
                BY <2>2, <3>1 DEF Expected, ReadOps
            <4>2. StoreEvent(c)
                BY <3>1, <4>1 DEF Server, Serve, Authorise, AuthoriseAdmin, AuthoriseWrite,
               AuthoriseRead, Accept, RefuseBody, Fail, Read,
                    CreateProject, CreateKey, FindKey, RevokeKey, CreateHook, FindHook, WriteHook,
                    AnswerPatch, DeleteHook, SaveQuery, DeleteQuery, Refuse, Commit, Answer, Handles,
                    ToolPart, RevokePart, ReadOps
            <4> QED
                BY <3>1, <4>2 DEF StoreEvent
        <3> QED
            BY <2>1, <2>2, <2>5, <3>1, <3>2, <3>3 DEF Minting
    <2> QED
        BY <2>1, <2>3, <2>4, <2>5 DEF InitStep
<1> QED
    BY <1>4, <1>5

LEMMA ServerKeepsExits ==
    ASSUME ToolPart, DeletePart, RevokePart, ExitPart, NEW c \in Clients, Server(c)
    PROVE  ExitPart'
<1>1. Serves(c)
    BY ServerServes
<1>2. DOMAIN seen' = Clients
    BY DEF ExitPart, Server, Serve, Authorise, AuthoriseAdmin, AuthoriseWrite,
               AuthoriseRead, Accept, RefuseBody, Fail, Read, StoreEvent,
        CreateProject, CreateKey, FindKey, RevokeKey, CreateHook, FindHook, WriteHook,
        AnswerPatch, DeleteHook, SaveQuery, DeleteQuery, Refuse, Commit
<1>3. \A d \in Clients : at'[d] = "answered" /\ Expected(d)' => d \in done'
    <2>1. ASSUME NEW d \in Clients \ {c}, at'[d] = "answered", Expected(d)'
          PROVE  d \in done'
        <3>1. at[d] = "answered" /\ Expected(d)
            BY <1>1, <2>1 DEF Serves, Expected
        <3> QED
            BY <3>1, AnswersAreTrue DEF ExitPart
    <2> QED
        BY <2>1, AnswersAreTrue
<1>4. \A d \in Clients : Exiting(d)'
    BY <1>1 DEF Serves, cliVars, ExitPart, Exiting
<1> QED
    BY <1>2, <1>3, <1>4, RowsKeepTenant, ServerKeepsPatches, ServerKeepsMints DEF ExitPart

LEMMA SentKeepsExits ==
    ASSUME ToolPart, ExitPart, NEW c \in Clients, NEW r, Sent(c, r)
    PROVE  ExitPart'
<1>1. /\ UNCHANGED tables
      /\ \A d \in Clients \ {c} : /\ at'[d] = at[d] /\ req'[d] = req[d] /\ status'[d] = status[d]
                                 /\ cmd'[d] = cmd[d] /\ step'[d] = step[d]
      /\ at'[c] = "received" /\ req'[c] = Stamped(r)
    BY SentFacts
<1>2. /\ DOMAIN seen' = DOMAIN seen /\ \A d \in Clients \ {c} : seen'[d] = seen[d]
      /\ \A d \in Clients \ {c} : d \in done' <=> d \in done
    BY DEF Sent, Receive
<1>3. \A d \in Clients \ {c} : Expected(d)' = Expected(d)
    BY <1>1 DEF Expected
<1>4. \A d \in Clients : HookMade(d) => HookMade(d)'
    <2>1. ~HookMade(c)
        BY DEF Sent, HookMade
    <2> QED
        BY <1>1, <2>1 DEF HookMade
<1>5. \A d \in Clients \ {c} : Patching(d)'
    BY <1>1, <1>2, <1>4 DEF ExitPart, Patching, Owned, TenantOf, tables
<1>6. Patching(c)'
    BY <1>1 DEF Patching
<1>7. \A d \in Clients \ {c} : Minting(d)'
    BY <1>1, <1>3 DEF ExitPart, Minting, tables
<1>8. Minting(c)'
    <2> SUFFICES ASSUME cmd'[c] = "init"
                 PROVE  Minting(c)'
        BY DEF Minting
    <2>1. \A f \in DOMAIN r : f \notin {"tenant", "late"} =>
              f \in DOMAIN Stamped(r) /\ Stamped(r)[f] = r[f]
        BY StampedFacts DEF Sent
    <2>2. CASE step'[c] = 1
        BY <1>1, <2>2 DEF Minting
    <2>3. CASE step'[c] = 2 /\ \E token : r = Mint(token)
        <3>1. {"for", "arg"} \subseteq DOMAIN r /\ r.for = DefaultTenant /\ r.arg = DefaultProject
            BY <2>3 DEF Mint
        <3> QED
            BY <1>1, <2>1, <2>3, <3>1 DEF Minting
    <2>4. CASE step'[c] = 3 /\ r = TestEvent(c)
        <3>1. "arg" \in DOMAIN r /\ r.arg = c
            BY <2>4 DEF TestEvent
        <3>2. at[c] # "none" /\ cmd[c] = "init" /\ step[c] = 2 /\ at[c] = "answered" /\ Expected(c)
            BY <2>4 DEF Sent
        <3>3. keys[c] \in Minted
            BY <3>2 DEF ExitPart, Minting
        <3> QED
            BY <1>1, <2>1, <2>4, <3>1, <3>3 DEF Minting, tables
    <2> QED
        BY <2>2, <2>3, <2>4 DEF Sent
<1>9. \A d \in Clients : Exiting(d)'
    BY <1>1 DEF Sent, ExitPart, Exiting, ToolPart
<1> QED
    BY <1>1, <1>2, <1>3, <1>5, <1>6, <1>7, <1>8, <1>9 DEF ExitPart, tables

LEMMA QuietKeepsExits ==
    ASSUME ToolPart, ExitPart, NEW c \in Clients, Tool(c), Quiet
    PROVE  ExitPart'
<1>1. \A d \in Clients : Expected(d)' = Expected(d) /\ Patching(d)' = Patching(d)
                        /\ Minting(d)' = Minting(d)
    BY DEF Quiet, regVars, tables, history, Expected, Patching, Minting, HookMade, Owned, TenantOf
<1>2. \A d \in Clients \ {c} : Exiting(d)'
    BY QuietFacts DEF Quiet, ExitPart, Exiting
<1>3. Exiting(c)'
    <2>1. cl[c] \in {"waiting", "reading", "flushing"} => exit[c] # 0
        BY DEF ToolPart, ToolOf
    <2> QED
        BY <2>1, QuietFacts DEF Quiet, ExitPart, Exiting
<1> QED
    BY <1>1, <1>2, <1>3 DEF ExitPart, Quiet, regVars, tables, history

(* Exit code 0 says the truth: the connection may break and the idle timer may *)
(* fire at any point of the answer, and the server may be anywhere in its      *)
(* handler when they do.                                                       *)
THEOREM ExitsAreTrue == Spec => []ExitTruth
<1> DEFINE Inv == DeletePart /\ RevokePart /\ ExitPart
<1>1. Init => Inv
    <2>1. Init => ExitPart
        <3> SUFFICES ASSUME Init
                     PROVE  ExitPart
            OBVIOUS
        <3>1. \A i \in DOMAIN FirstHooks : "tenant" \in DOMAIN FirstHooks[i]
            BY RegistryAssumption
        <3> QED
            BY <3>1 DEF Init, RegInit, ExitPart, Patching, Minting, Exiting
    <2> QED
        BY <2>1, InitDeletes, InitRevokes
<1>2. ToolPart /\ Inv /\ [Next]_vars => Inv'
    <2> SUFFICES ASSUME ToolPart, Inv, [Next]_vars
                 PROVE  ExitPart'
        BY NextKeepsDeletes, NextKeepsRevokes
    <2>1. ASSUME NEW c \in Clients, Server(c)
          PROVE  ExitPart'
        BY <2>1, ServerKeepsExits
    <2>2. ASSUME NEW c \in Clients, Tool(c)
          PROVE  ExitPart'
        BY <2>2, ToolSendsOrIsQuiet, SentKeepsExits, QuietKeepsExits
    <2>3. CASE UNCHANGED vars
        BY <2>3 DEF vars, regVars, cliVars, tables, history, ExitPart, Expected, Patching, Minting,
            Exiting, HookMade, Owned, TenantOf
    <2> QED
        BY <2>1, <2>2, <2>3 DEF Next
<1>3. ToolPart /\ Inv => ExitTruth
    <2> SUFFICES ASSUME ToolPart, ExitPart, NEW c \in Clients, exit[c] = 0
                 PROVE  /\ c \in done
                        /\ cmd[c] \in {"export", "document"} => file[c] = "complete"
                        /\ cmd[c] = "init" => keys[c] # Nothing /\ c \in events
        BY DEF ExitTruth
    <2>1. at[c] = "answered" /\ Expected(c)
        BY DEF ToolPart, ToolOf
    <2>2. cmd[c] = "init" => keys[c] \in Minted /\ c \in events
        BY <2>1 DEF ExitPart, Exiting, Minting
    <2>3. keys[c] \in Minted => keys[c] # Nothing
        BY RegistryAssumption
    <2> QED
        BY <2>1, <2>2, <2>3 DEF ExitPart, Exiting
<1> QED
    BY <1>1, <1>2, <1>3, ToolPartHolds, PTL DEF Spec
=============================================================================
