------------------------------ MODULE Workflows ------------------------------
(***************************************************************************)
(* Session trees and causation graphs: the recursive descendants query,    *)
(* buildTree and computeMaxDepth of the storage backends, getWorkflow, and *)
(* buildWorkflowGraph (src/workflowGraph.js).                              *)
(*                                                                         *)
(* rows is a set of session rows [session, trace, tenant, parent, ...],    *)
(* one for each session id; parent is what the emitter said, also the id   *)
(* of no stored session, of itself, or of one of its own descendants.      *)
(***************************************************************************)
EXTENDS Integers, Sequences, FiniteSets, SequencesExt

CONSTANT None

IdsOf(rows) == {r.session : r \in rows}

ChildrenIn(rows, ids) == {r.session : r \in {q \in rows : q.parent \in ids}}

-----------------------------------------------------------------------------
(* getSessionTree: WITH RECURSIVE ... UNION ALL.  Round n of the recursion   *)
(* adds the children of the rows of round n - 1, whatever their tenant, until *)
(* a round adds none.                                                        *)

Round(rows, root) ==
    LET round[n \in 0..Cardinality(rows)] ==
            IF n = 0 THEN {root} ELSE ChildrenIn(rows, round[n - 1])
    IN  round

\* The query comes to an end: at most one round for each session.
QueryEnds(rows, root) == Round(rows, root)[Cardinality(rows)] = {}

Descendants(rows, root) == UNION {Round(rows, root)[n] : n \in 0..Cardinality(rows)}

-----------------------------------------------------------------------------
(* buildTree, collectSessionIds, getWorkflow, computeMaxDepth.  A node of a  *)
(* tree is the path to it, the sessions from the root down to its own:       *)
(* buildNode adds a node below each node for each of its children, whatever  *)
(* stands above it.                                                          *)

Levels(rows, roots) ==
    LET level[n \in 0..Cardinality(rows)] ==
            IF n = 0 THEN {<<r>> : r \in roots}
            ELSE UNION {{Append(p, c) : c \in ChildrenIn(rows, {Last(p)})} : p \in level[n - 1]}
    IN  level

BuildTree(rows, roots) == UNION {Levels(rows, roots)[n] : n \in 0..Cardinality(rows)}

CollectSessionIds(nodes) == {Last(p) : p \in nodes}

Roots_NullParentOnly(rows) ==   \* mutant: a parent outside the rows hides a root
    {r.session : r \in {q \in rows : q.parent = None}}

Roots(rows) ==
    {r.session : r \in {q \in rows : q.parent = None \/ q.parent \notin IdsOf(rows)}}

\* getWorkflow: the rows of one trace as a forest.
Forest(rows) == BuildTree(rows, Roots(rows))

\* A node is as deep as its path is long, but depthOf descends below no more
\* than VisitedLimit + 1 sessions, and counts what is there as 1.
VisitedLimit == 1000

MaxDepth(rows) ==
    Min({VisitedLimit + 2, Max({0} \cup {Len(p) : p \in Forest(rows)})})

-----------------------------------------------------------------------------
(* buildWorkflowGraph *)

HasInGraphParent(events, e) ==
    /\ e.causation_id # None
    /\ e.causation_id # e.id
    /\ \E f \in events : f.id = e.causation_id

WorkflowGraph(events) ==
    LET caused    == {e \in events : HasInGraphParent(events, e)}
        causeOf(e) == CHOOSE f \in events : f.id = e.causation_id
        sids      == {e.session_id : e \in events}
    IN  [nodes    |-> {e.id : e \in events},
         edges    |-> {[from |-> e.causation_id, to |-> e.id,
                        cross |-> causeOf(e).session_id # e.session_id] : e \in caused},
         roots    |-> {e.id : e \in events \ caused},
         sessions |-> [s \in sids |-> Cardinality({e \in events : e.session_id = s})]]

-----------------------------------------------------------------------------
(* What the shapes must satisfy *)

\* The session and all below it: the least set with s and the children of its
\* members.
Below(rows, s) ==
    {d \in IdsOf(rows) :
        \A D \in SUBSET IdsOf(rows) : s \in D /\ ChildrenIn(rows, D) \subseteq D => d \in D}

Above(rows, s) == {a \in IdsOf(rows) : s \in Below(rows, a)}

OwnAncestor(rows, s) == \E c \in ChildrenIn(rows, {s}) : s \in Below(rows, c)

\* The sessions on a parent cycle, and those below one: the greatest set with
\* the parents of its members.
Cyclic(rows) ==
    UNION {C \in SUBSET IdsOf(rows) : \A r \in rows : r.session \in C => r.parent \in C}

\* The forest of a trace comes to an end, and has every session of the trace
\* once, except those that no chain of parents leads to a root.
ForestCovers(rows) ==
    /\ Levels(rows, Roots(rows))[Cardinality(rows)] = {}
    /\ CollectSessionIds(Forest(rows)) = IdsOf(rows) \ Cyclic(rows)
    /\ Cardinality(Forest(rows)) = Cardinality(IdsOf(rows) \ Cyclic(rows))

\* The recursive query of a session tree ends unless the session is its own
\* ancestor, with the session and all sessions below it.
TreeCovers(rows) ==
    \A s \in IdsOf(rows) :
        /\ QueryEnds(rows, s) <=> ~OwnAncestor(rows, s)
        /\ QueryEnds(rows, s) => Descendants(rows, s) = Below(rows, s)

\* The reported depth is the length of the longest chain of parents that ends
\* at a root, up to the limit.  The chain may cross traces, where the code's
\* comment has "a tree per trace" (_helpers.js).
DepthIsLongestChain(rows) ==
    LET longest == Max({0} \cup {Cardinality(Above(rows, s)) :
                                     s \in IdsOf(rows) \ Cyclic(rows)})
    IN  MaxDepth(rows) = Min({VisitedLimit + 2, longest})

\* A causation graph has its edges between its own nodes and one edge into
\* each node that is not a root.
GraphIsConsistent(events) ==
    LET g == WorkflowGraph(events) IN
    /\ g.roots \cup {x.to : x \in g.edges} = g.nodes
    /\ g.roots \cap {x.to : x \in g.edges} = {}
    /\ Cardinality(g.edges) + Cardinality(g.roots) = Cardinality(g.nodes)
    /\ \A x \in g.edges : x.from \in g.nodes /\ x.from # x.to
    /\ SumFunction(g.sessions) = Cardinality(events)
=============================================================================
