-------------------------- MODULE TelemetryChannel --------------------------
(***************************************************************************)
(* What auto-instrumented telemetry promises of the events it builds: they *)
(* leave in the order they were built, one at a time, each at most once.   *)
(* An event may be dropped, and one that was given up may still arrive.    *)
(***************************************************************************)
EXTENDS Integers, Sequences

VARIABLE fate       \* fate[n]: what has become of the n-th event built

Fates == {"pending", "received", "unknown", "lost"}

Init == fate = <<>>

\* Events are built: each waits for its turn or is dropped at once.
Offer ==
    /\ fate' \in Seq(Fates)
    /\ Len(fate') > Len(fate)
    /\ \A n \in DOMAIN fate : fate'[n] = fate[n]
    /\ \A n \in DOMAIN fate' \ DOMAIN fate : fate'[n] \in {"pending", "lost"}

\* The oldest event that waits is received, refused or given up.
Settle(n) ==
    /\ fate[n] = "pending"
    /\ \A m \in 1..(n - 1) : fate[m] # "pending"
    /\ \E f \in {"received", "unknown", "lost"} : fate' = [fate EXCEPT ![n] = f]

\* An event that was given up arrives after all.
ArriveLate(n) ==
    /\ fate[n] = "unknown"
    /\ fate' = [fate EXCEPT ![n] = "received"]

\* The process ends.
Stop ==
    /\ DOMAIN fate' = DOMAIN fate
    /\ \A n \in DOMAIN fate :
          IF fate[n] = "pending" THEN fate'[n] \in {"unknown", "lost"}
                                 ELSE fate'[n] = fate[n]

Next ==
    \/ Offer
    \/ \E n \in DOMAIN fate : Settle(n) \/ ArriveLate(n)
    \/ Stop

Spec == Init /\ [][Next]_fate
=============================================================================
