---------------------------- MODULE MCEventStore ----------------------------
(* Small instances of EventStore for TLC. *)
EXTENDS EventStore, TLC

CONSTANTS a, b, s1, s2

MCTimes == 1..3

\* Tenant a has two sessions, tenant b posts into one of them as well.
MCSharedSessions == a :> {s1, s2} @@ b :> {s2}

\* The count of a shared session's summary grows without limit (the other
\* tenant's events are counted in and never counted out): bound it.
MaxCount == 4

CountBound ==
    \A s \in Sessions : sessions[s] # NoRow => sessions[s].event_count <= MaxCount

\* Event ids are interchangeable; tenants and sessions are not (MayUse).
IdSymmetry == Permutations(Ids)
=============================================================================
