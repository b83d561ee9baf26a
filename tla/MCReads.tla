------------------------------- MODULE MCReads -------------------------------
(* A small instance of Reads for TLC. *)
EXTENDS Reads, TLC

CONSTANTS a, b, v9, v10, vLow, vNum

\* The scalars v9 and v10 are the texts "9" and "10": the order of the
\* numbers is not the order of the texts.  vNum is no text but a number.
MCIsText(v) == v # vNum
MCIsNumber(v) == v \in {v9, v10}
MCNumberOf(v) == IF v = v9 THEN 9 ELSE 10
MCTextRank(v) == CASE v = v10 -> 1 [] v = v9 -> 2 [] v = vLow -> 3 [] OTHER -> v

Cost(v) == <<"labels", "cost">> :> v
Tool(v) == <<"payload", "tool">> :> v
ToolObject == <<"payload", "tool", "name">> :> "grep"
Policy(v) == <<"payload", "policy">> :> v
Nothing == [p \in {} |-> v9]

Sent(id, s, type, time, cause, nested) ==
    [id |-> id, type |-> type, time |-> time, causation_id |-> cause,
     tenant |-> s.tenant, session_id |-> s.id, trace_id |-> s.trace,
     parent_session_id |-> s.parent, source |-> s.source, signed |-> s.source # None,
     nested |-> nested]

Session(id, tenant, trace, parent) ==
    [id |-> id, tenant |-> tenant, trace |-> trace, parent |-> parent,
     source |-> IF id = 1 THEN None ELSE "agent"]

\* Ties within a session, between sessions and between traces; a subagent
\* session; a second tenant.
PagedWorld ==
    LET s1 == Session(1, a, 1, None)
        s2 == Session(2, a, 1, 1)
        s3 == Session(3, a, 2, 2)
        s4 == Session(4, b, 3, None)
    IN  {Sent(1, s1, "task.created", 1, None, Nothing),
         Sent(2, s1, "tool.called", 1, 1, Tool("grep")),
         Sent(3, s2, "policy.blocked", 2, 1, Policy("grep")),
         Sent(4, s1, "task.completed", 2, 1, Nothing),
         Sent(5, s3, "task.created", 2, 4, Nothing),
         Sent(6, s4, "task.created", 1, None, Nothing)}

\* Two sessions that name each other as parents, and one below them.
CyclicWorld ==
    LET s1 == Session(1, a, 1, None)
        s2 == Session(2, a, 1, 3)
        s3 == Session(3, a, 1, 2)
        s4 == Session(4, a, 1, 2)
        s5 == Session(5, a, 1, 1)
    IN  {Sent(1, s1, "task.created", 2, None, Nothing),
         Sent(2, s2, "task.created", 1, 2, Nothing),
         Sent(3, s3, "tool.called", 1, 1, Nothing),
         Sent(4, s4, "tool.result", 2, 3, Nothing),
         Sent(5, s5, "policy.blocked", 1, 4, Policy("__proto__"))}

\* A session with events in two traces, another tenant's event in the same
\* session id, a trace of two tenants, and a subagent session.
SpanningWorld ==
    LET s1 == Session(1, a, 1, None)
        s2 == Session(1, a, 2, 2)
        s3 == Session(1, b, 1, None)
        s4 == Session(2, a, 1, 1)
    IN  {Sent(1, s1, "task.created", 1, None, Nothing),
         Sent(2, s2, "policy.blocked", 2, 1, Policy("constructor")),
         Sent(3, s3, "task.created", 1, None, Nothing),
         Sent(4, s4, "task.created", 2, 1, Nothing)}

\* Three traces with one operation each and its duration, a second end of an
\* operation, ends of the wrong type and before their start, and nested values
\* of every kind.
ReportWorld(d1, d2, d3) ==
    LET s1 == Session(1, a, 1, None)
        s2 == Session(2, a, 2, 1)
        s3 == Session(3, b, 3, 2)
    IN  {Sent(1, s1, "tool.called", 2, None, Tool("grep") @@ Cost(v9)),
         Sent(2, s1, "tool.result", 2 + d1, 1, ToolObject @@ Cost(v10)),
         Sent(3, s2, "task.created", 1, None, Cost(vLow)),
         Sent(4, s2, "task.failed", 1 + d2, 3, Policy("grep")),
         Sent(5, s3, "task.created", 3, None, Nothing),
         Sent(6, s3, "task.completed", 3 + d3, 5, Nothing),
         Sent(7, s2, "tool.result", 1, 1, Tool("sed")),
         Sent(8, s1, "policy.blocked", 4, 2, Policy(vNum))}

MCRead == {PagedWorld, CyclicWorld, SpanningWorld}
MCMeasured == {SpanningWorld}
MCWorlds == MCRead \cup {ReportWorld(d[1], d[2], d[3]) :
                d \in {<<1, 2, 9>>, <<9, 8, 1>>, <<1, 1, 9>>, <<0, 3, 3>>}}

MCCutoffs == {2, 3}
MCWords == {"grep"}
MCWindows == {<<None, None>>, <<2, None>>, <<1, 4>>}

Filter(field, op, value) == [field |-> field, op |-> op, value |-> value]
QuerySpec(filters, groups, distinct) ==
    [filters |-> filters, group_by |-> groups, distinct |-> distinct,
     bucketed |-> FALSE, since |-> None, until |-> None, limit |-> None]

MCSpecs ==
    LET cost == <<"labels", "cost">>  tool == <<"payload", "tool">>
        type == <<"type">>  parent == <<"parent_session_id">> IN
    {QuerySpec(<<Filter(cost, "gt", v9)>>, <<type>>, <<<<"session_id">>>>),
     QuerySpec(<<Filter(tool, "eq", "grep")>>, <<type, tool>>, <<tool>>),
     QuerySpec(<<Filter(tool, "exists", None), Filter(<<"time">>, "gte", 2)>>,
               <<tool>>, <<cost, type>>),
     [QuerySpec(<<Filter(type, "in", {"tool.called", "task.created"})>>, <<>>, <<>>)
        EXCEPT !.bucketed = TRUE, !.limit = 1],
     [QuerySpec(<<>>, <<parent, <<"source">>>>, <<<<"id">>>>)
        EXCEPT !.since = 1, !.until = 4, !.limit = 2],
     QuerySpec(<<Filter(<<"payload", "__proto__">>, "eq", "grep")>>, <<type>>, <<>>)}
=============================================================================
