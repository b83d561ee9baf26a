--------------------------- MODULE MCPgEventStore ---------------------------
(* Small instances of PgEventStore for TLC. *)
EXTENDS PgEventStore, TLC

CONSTANTS a, s1, s2

\* One tenant: PostgreSQL's rows and locks are per id and per session, and
\* what two tenants do to one session is the subject of MCEventStore.
MCMayUse == a :> Sessions

MCTimes == 1..2

MCCutoffs == {2}

Symmetry == Permutations(Ids) \cup Permutations(Workers)
=============================================================================
