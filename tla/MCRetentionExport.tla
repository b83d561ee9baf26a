------------------------- MODULE MCRetentionExport -------------------------
(* Small instances of RetentionExport for TLC. *)
EXTENDS RetentionExport, TLC

CONSTANTS a, b, p1, p2, p3

\* The expected setup, one project per tenant; a third one keeps its events.
OneEach == p1 :> a @@ p2 :> b
WithForever == p1 :> a @@ p2 :> b @@ p3 :> b

Windows == p1 :> 1 @@ p2 :> 2
WindowsForever == p1 :> 1 @@ p2 :> 1 @@ p3 :> 0

\* One time is expired from second 1 on, the other from second 2 on: each is
\* young to one pass and may be dated back behind the cutoff of another.
Around == {-1, 0}

\* Tenant ids that slugifyTenant tells apart, and two that it does not
\* ("acme.eu" and "acme_eu").
DistinctSlugs == a :> "a" @@ b :> "b"
OneSlug == a :> "acme_eu" @@ b :> "acme_eu"

\* Bound: histories that write more objects are not followed further.  A pass
\* writes at most two, one per tenant with expired events.
MaxObjects == 2

ObjectBound == Cardinality(DOMAIN archive) <= MaxObjects

Symmetry == Permutations(Ids)
=============================================================================
