----------------------- MODULE IngestPipeline_proofs -----------------------
(* Theorems of IngestPipeline, for every value of its constants. *)
EXTENDS IngestPipeline, FiniteSetTheorems, TLAPS

(* What the runs' invariant needs to be inductive; FannedOutOnce follows.   *)
Inv ==
    /\ TypeOK
    /\ IsFiniteSet(stored)
    /\ StoredByOne
    /\ CountersBalance

-----------------------------------------------------------------------------
(* The sets of requests that the invariants count. *)
LEMMA FiniteAt ==
    ASSUME NEW places, NEW i
    PROVE  /\ IsFiniteSet(At(places)) /\ Cardinality(At(places)) \in Nat
           /\ IsFiniteSet(Of(i, places)) /\ Cardinality(Of(i, places)) \in Nat
<1>1. At(places) \in SUBSET Requests /\ Of(i, places) \in SUBSET Requests
    BY DEF At, Of
<1>2. IsFiniteSet(At(places)) /\ IsFiniteSet(Of(i, places))
    BY <1>1, FS_Subset, IngestAssumption
<1> QED
    BY <1>2, FS_CardinalityType

(* One step of one request, from one place of the handler to another. *)
LEMMA StepEffect ==
    ASSUME TypeOK, NEW r \in Requests, NEW from \in Places, NEW to \in Places,
           Step(r, from, to)
    PROVE  /\ req' \in [Requests -> RequestState]
           /\ req[r].pc = from /\ req'[r].pc = to
           /\ req[r].id \in Ids /\ req'[r].id = req[r].id
           /\ req[r].node \in Nodes
           /\ \A q \in Requests : q # r => req'[q] = req[q]
<1>1. req \in [Requests -> RequestState] /\ req[r].pc = from /\ from # "none"
    BY DEF TypeOK, Step, Places, InHandler
<1>2. req[r] \in [pc : Places, node : Nodes, id : Ids, valid : BOOLEAN, usage : Nat]
    BY <1>1 DEF RequestState
<1>3. /\ req'[r] = [req[r] EXCEPT !.pc = to]
      /\ \A q \in Requests : q # r => req'[q] = req[q]
    BY <1>1 DEF Step
<1>4. /\ req'[r] \in [pc : Places, node : Nodes, id : Ids, valid : BOOLEAN, usage : Nat]
      /\ req'[r].pc = to /\ req'[r].id = req[r].id
    BY <1>2, <1>3
<1>5. req' \in [Requests -> RequestState]
    BY <1>1, <1>4 DEF Step, RequestState
<1> QED
    BY <1>1, <1>2, <1>3, <1>4, <1>5

(* A step that moves no request across the borders of the counted sets.     *)
LEMMA QuietStep ==
    ASSUME Inv, TypeOK',
           UNCHANGED <<stored, counters, fanout>>,
           \A q \in Requests :
              /\ req'[q].pc \in HasStored <=> req[q].pc \in HasStored
              /\ req'[q].pc = "accepted" <=> req[q].pc = "accepted"
              /\ req'[q].pc \in Unaccounted <=> req[q].pc \in Unaccounted
              /\ req[q].pc \in HasStored => req'[q].id = req[q].id
    PROVE  Inv'
<1>1. At(Unaccounted)' = At(Unaccounted)
    BY DEF At, Unaccounted
<1>2. \A i \in Ids : Of(i, HasStored)' = Of(i, HasStored)
    BY DEF Of, At
<1>3. \A i \in Ids : Of(i, {"accepted"})' = Of(i, {"accepted"})
    BY DEF Of, At, HasStored
<1>4. StoredByOne'
    BY <1>2, <1>3 DEF Inv, StoredByOne
<1>5. CountersBalance'
    BY <1>1 DEF Inv, CountersBalance
<1> QED
    BY <1>4, <1>5 DEF Inv

-----------------------------------------------------------------------------
LEMMA InitInv == Init => Inv
<1> SUFFICES ASSUME Init PROVE Inv
    OBVIOUS
<1>1. TypeOK
    BY DEF Init, TypeOK, RequestState
<1>2. \A places : places \subseteq Places =>
         At(places) = {} /\ \A i : Of(i, places) = {}
    BY DEF Init, At, Of, Places, InHandler
<1>3. HasStored \subseteq Places /\ {"accepted"} \subseteq Places /\ Unaccounted \subseteq Places
    BY DEF HasStored, Unaccounted, Places, InHandler
<1>4. Cardinality({}) = 0 /\ IsFiniteSet({})
    BY FS_EmptySet
<1>5. /\ At(Unaccounted) = {}
      /\ \A i \in Ids : Of(i, HasStored) = {} /\ Of(i, {"accepted"}) = {}
    BY <1>2, <1>3
<1>6. StoredByOne
    BY <1>4, <1>5 DEF Init, StoredByOne
<1>7. /\ counters.received = 0 /\ counters.duplicates = 0 /\ counters.rejected = 0
      /\ Cardinality(stored) = 0 /\ Cardinality(At(Unaccounted)) = 0
    BY <1>4, <1>5 DEF Init
<1>8. CountersBalance
    BY <1>7 DEF CountersBalance
<1> QED
    BY <1>1, <1>4, <1>6, <1>8 DEF Init, Inv

-----------------------------------------------------------------------------
(* The quota check and the failures count nothing and store nothing.        *)

LEMMA ArriveInv ==
    ASSUME Inv, NEW r \in Requests, NEW n \in Nodes, NEW i \in Ids,
           NEW valid \in BOOLEAN, Arrive(r, n, i, valid)
    PROVE  Inv'
<1> DEFINE new == [pc |-> "checking", node |-> n, id |-> i, valid |-> valid, usage |-> 0]
<1>1. /\ req[r].pc = "none"
      /\ req \in [Requests -> RequestState]
      /\ req' = [req EXCEPT ![r] = new]
    BY DEF Arrive, Inv, TypeOK
<1>2. new \in RequestState /\ new.pc = "checking"
    BY DEF RequestState, Places, InHandler
<1> HIDE DEF new
<1>3. TypeOK'
    BY <1>1, <1>2 DEF Arrive, Inv, TypeOK
<1>4. /\ req'[r].pc = "checking"
      /\ \A q \in Requests : q # r => req'[q] = req[q]
    BY <1>1, <1>2
<1> QED
    BY <1>1, <1>3, <1>4, QuietStep DEF Arrive, HasStored, Unaccounted

(* A step between places that no invariant tells apart. *)
LEMMA QuietMove ==
    ASSUME Inv, NEW r \in Requests, NEW from \in Places, NEW to \in Places,
           Step(r, from, to),
           UNCHANGED <<stored, counters, fanout>>,
           cache' \in [Nodes -> CacheEntry \cup {NoEntry}],
           to \in HasStored <=> from \in HasStored,
           to = "accepted" <=> from = "accepted",
           to \in Unaccounted <=> from \in Unaccounted
    PROVE  Inv'
<1>1. /\ req' \in [Requests -> RequestState]
      /\ req[r].pc = from /\ req'[r].pc = to
      /\ req'[r].id = req[r].id
      /\ \A q \in Requests : q # r => req'[q] = req[q]
    BY StepEffect DEF Inv
<1>2. TypeOK'
    BY <1>1 DEF Inv, TypeOK
<1> QED
    BY <1>1, <1>2, QuietStep

LEMMA QuotaInv ==
    ASSUME Inv, NEW r \in Requests,
           CheckCached(r) \/ Miss(r) \/ SetCache(r) \/ CheckFails(r)
    PROVE  Inv'
<1> USE DEF HasStored, Unaccounted, Places, InHandler
<1>1. /\ cache \in [Nodes -> CacheEntry \cup {NoEntry}]
      /\ req \in [Requests -> RequestState]
    BY DEF Inv, TypeOK
<1>2. CASE CheckCached(r)
    <2>1. PICK to \in {"refused", "admitted"} : Step(r, "checking", to)
        BY <1>2 DEF CheckCached, Verdict
    <2> QED BY <1>1, <1>2, <2>1, QuietMove DEF CheckCached
<1>3. CASE Miss(r)
    BY <1>1, <1>3, QuietMove DEF Miss
<1>4. CASE SetCache(r)
    <2>1. PICK to \in {"refused", "admitted"} : Step(r, "counted", to)
        BY <1>4 DEF SetCache, Verdict
    <2>2. req[r].pc = "counted"
        BY <1>4 DEF SetCache
    <2>3. req[r].usage \in Nat
        BY <1>1, <2>2 DEF RequestState
    <2>4. cache' \in [Nodes -> CacheEntry \cup {NoEntry}]
        BY <1>1, <1>4, <2>3 DEF SetCache, CacheEntry
    <2> QED BY <1>4, <2>1, <2>4, QuietMove DEF SetCache
<1>5. CASE CheckFails(r)
    BY <1>1, <1>5, QuietMove DEF CheckFails
<1> QED
    BY <1>2, <1>3, <1>4, <1>5

LEMMA CountEventsInv ==
    ASSUME Inv, NEW r \in Requests, CountEvents(r)
    PROVE  Inv'
<1>1. req \in [Requests -> RequestState] /\ req[r].pc = "counting"
    BY DEF CountEvents, Inv, TypeOK
<1>2. req[r] \in [pc : Places, node : Nodes, id : Ids, valid : BOOLEAN, usage : Nat]
    BY <1>1 DEF RequestState
<1>3. Cardinality(stored) \in Nat
    BY FS_CardinalityType DEF Inv
<1> DEFINE n == Cardinality(stored)
<1>4. /\ req'[r] = [[req[r] EXCEPT !.pc = "counted"] EXCEPT !.usage = n]
      /\ \A q \in Requests : q # r => req'[q] = req[q]
      /\ DOMAIN req' = Requests
      /\ req' = [q \in Requests |-> req'[q]]
    BY <1>1 DEF CountEvents
<1> HIDE DEF n
<1>5. /\ req'[r] \in [pc : Places, node : Nodes, id : Ids, valid : BOOLEAN, usage : Nat]
      /\ req'[r].pc = "counted" /\ req'[r].id = req[r].id
    BY <1>2, <1>3, <1>4 DEF n, Places, InHandler
<1>6. req'[r] \in RequestState
    BY <1>5 DEF RequestState
<1>7. TypeOK'
    BY <1>4, <1>6 DEF CountEvents, Inv, TypeOK
<1> QED
    BY <1>1, <1>4, <1>5, <1>7, QuietStep DEF CountEvents, HasStored, Unaccounted

LEMMA ExpireInv ==
    ASSUME Inv, NEW n \in Nodes, Expire(n)
    PROVE  Inv'
<1>1. cache \in [Nodes -> CacheEntry \cup {NoEntry}] /\ cache[n] \in CacheEntry
    BY DEF Expire, Inv, TypeOK
<1>2. cache'= [cache EXCEPT ![n] = [cache[n] EXCEPT !.fresh = FALSE]]
    BY <1>1 DEF Expire
<1>3. [cache[n] EXCEPT !.fresh = FALSE] \in CacheEntry
    BY <1>1 DEF CacheEntry
<1>4. TypeOK'
    BY <1>1, <1>2, <1>3 DEF Expire, Inv, TypeOK
<1> QED
    BY <1>4, QuietStep DEF Expire

LEMMA FailInv ==
    ASSUME Inv, NEW r \in Requests, Fail(r)
    PROVE  Inv'
<1>1. cache' \in [Nodes -> CacheEntry \cup {NoEntry}]
    BY DEF Fail, Inv, TypeOK
<1> QED
    BY <1>1, QuietMove DEF Fail, HasStored, Unaccounted, Places, InHandler

LEMMA CrashInv ==
    ASSUME Inv, NEW n \in Nodes, Crash(n)
    PROVE  Inv'
<1>1. req \in [Requests -> RequestState]
    BY DEF Inv, TypeOK
<1>2. ASSUME NEW q \in Requests
      PROVE  /\ req'[q] \in RequestState
             /\ req'[q].pc \in HasStored <=> req[q].pc \in HasStored
             /\ req'[q].pc = "accepted" <=> req[q].pc = "accepted"
             /\ req'[q].pc \in Unaccounted <=> req[q].pc \in Unaccounted
             /\ req[q].pc \in HasStored => req'[q].id = req[q].id
    <2>1. CASE ~(req[q].pc \in InHandler /\ req[q].node = n)
        <3>1. req'[q] = req[q]
            BY <2>1 DEF Crash
        <3> QED BY <1>1, <3>1
    <2>2. CASE req[q].pc \in InHandler /\ req[q].node = n
        <3> DEFINE to == Fallen(req[q].pc)
        <3>1. req'[q] = [req[q] EXCEPT !.pc = to]
            BY <2>2 DEF Crash
        <3>2. req[q] \in [pc : Places, node : Nodes, id : Ids, valid : BOOLEAN, usage : Nat]
            BY <1>1, <2>2 DEF RequestState, InHandler
        <3>3. /\ to \in Places
              /\ to \in HasStored <=> req[q].pc \in HasStored
              /\ to = "accepted" <=> req[q].pc = "accepted"
              /\ to \in Unaccounted <=> req[q].pc \in Unaccounted
            BY <2>2 DEF Fallen, InHandler, Places, HasStored, Unaccounted
        <3> HIDE DEF to
        <3>4. /\ req'[q] \in [pc : Places, node : Nodes, id : Ids, valid : BOOLEAN, usage : Nat]
              /\ req'[q].pc = to /\ req'[q].id = req[q].id
            BY <3>1, <3>2, <3>3
        <3> QED BY <3>3, <3>4 DEF RequestState
    <2> QED BY <2>1, <2>2
<1>3. req' \in [Requests -> RequestState]
    BY <1>2 DEF Crash
<1>4. cache' \in [Nodes -> CacheEntry \cup {NoEntry}]
    BY DEF Crash, Inv, TypeOK
<1>5. TypeOK'
    BY <1>3, <1>4 DEF Crash, Inv, TypeOK
<1> QED
    BY <1>2, <1>5, QuietStep DEF Crash

-----------------------------------------------------------------------------
(* The handler proper.  How one step changes the counted sets.              *)

LEMMA MoveAt ==
    ASSUME Inv, NEW r \in Requests, NEW from \in Places, NEW to \in Places,
           Step(r, from, to), NEW places
    PROVE  Cardinality(At(places)') =
             IF from \in places
             THEN IF to \in places THEN Cardinality(At(places))
                                  ELSE Cardinality(At(places)) - 1
             ELSE IF to \in places THEN Cardinality(At(places)) + 1
                                  ELSE Cardinality(At(places))
<1>1. /\ req[r].pc = from /\ req'[r].pc = to
      /\ \A q \in Requests : q # r => req'[q] = req[q]
    BY StepEffect DEF Inv
<1>2. At(places)' = IF to \in places THEN At(places) \cup {r} ELSE At(places) \ {r}
    BY <1>1 DEF At
<1>3. r \in At(places) <=> from \in places
    BY <1>1 DEF At
<1>4. IsFiniteSet(At(places)) /\ Cardinality(At(places)) \in Nat
    BY FiniteAt
<1>5. Cardinality(At(places) \cup {r}) =
         IF r \in At(places) THEN Cardinality(At(places)) ELSE Cardinality(At(places)) + 1
    BY <1>4, FS_AddElement
<1>6. Cardinality(At(places) \ {r}) =
         IF r \in At(places) THEN Cardinality(At(places)) - 1 ELSE Cardinality(At(places))
    BY <1>4, FS_RemoveElement
<1> QED
    BY <1>2, <1>3, <1>4, <1>5, <1>6

LEMMA MoveOf ==
    ASSUME Inv, NEW r \in Requests, NEW from \in Places, NEW to \in Places,
           Step(r, from, to), NEW places, NEW i
    PROVE  Cardinality(Of(i, places)') =
             IF req[r].id = i /\ from \notin places /\ to \in places
             THEN Cardinality(Of(i, places)) + 1
             ELSE IF req[r].id = i /\ from \in places /\ to \notin places
             THEN Cardinality(Of(i, places)) - 1
             ELSE Cardinality(Of(i, places))
<1>1. /\ req[r].pc = from /\ req'[r].pc = to
      /\ req'[r].id = req[r].id
      /\ \A q \in Requests : q # r => req'[q] = req[q]
    BY StepEffect DEF Inv
<1>2. Of(i, places)' = IF req[r].id = i /\ to \in places
                       THEN Of(i, places) \cup {r} ELSE Of(i, places) \ {r}
    BY <1>1 DEF Of, At
<1>3. r \in Of(i, places) <=> req[r].id = i /\ from \in places
    BY <1>1 DEF Of, At
<1>4. IsFiniteSet(Of(i, places)) /\ Cardinality(Of(i, places)) \in Nat
    BY FiniteAt
<1>5. Cardinality(Of(i, places) \cup {r}) =
         IF r \in Of(i, places) THEN Cardinality(Of(i, places)) ELSE Cardinality(Of(i, places)) + 1
    BY <1>4, FS_AddElement
<1>6. Cardinality(Of(i, places) \ {r}) =
         IF r \in Of(i, places) THEN Cardinality(Of(i, places)) - 1 ELSE Cardinality(Of(i, places))
    BY <1>4, FS_RemoveElement
<1> QED
    BY <1>2, <1>3, <1>4, <1>5, <1>6

(* CountReceived, Reject and CountDuplicate: one counter moves with one     *)
(* request across the border of Unaccounted.                                *)
LEMMA CountInv ==
    ASSUME Inv, NEW r \in Requests,
           CountReceived(r) \/ Reject(r) \/ CountDuplicate(r)
    PROVE  Inv'
<1> DEFINE n == Cardinality(At(Unaccounted))
<1>1. PICK from \in {"admitted", "received", "known"},
           to \in {"received", "rejected", "duplicate"},
           name \in {"received", "rejected", "duplicates"} :
         /\ Step(r, from, to) /\ Count(name)
         /\ UNCHANGED <<stored, cache, fanout>>
         /\ \/ from = "admitted" /\ to = "received" /\ name = "received"
            \/ from = "received" /\ to = "rejected" /\ name = "rejected"
            \/ from = "known" /\ to = "duplicate" /\ name = "duplicates"
    BY DEF CountReceived, Reject, CountDuplicate
<1>2. from \in Places /\ to \in Places
    BY <1>1 DEF Places, InHandler
<1>3. /\ counters \in [{"received", "rejected", "duplicates"} -> Nat]
      /\ counters' = [counters EXCEPT ![name] = counters[name] + 1]
      /\ counters' \in [{"received", "rejected", "duplicates"} -> Nat]
    BY <1>1 DEF Count, Inv, TypeOK
<1>4. TypeOK'
    BY <1>1, <1>2, <1>3, StepEffect DEF Inv, TypeOK
<1>5. StoredByOne'
    <2>1. \A i \in Ids : Cardinality(Of(i, HasStored)') = Cardinality(Of(i, HasStored))
        BY <1>1, <1>2, MoveOf DEF HasStored
    <2>2. \A i \in Ids : Cardinality(Of(i, {"accepted"})') = Cardinality(Of(i, {"accepted"}))
        BY <1>1, <1>2, MoveOf
    <2> QED BY <1>1, <2>1, <2>2 DEF Inv, StoredByOne
<1>6. n' = IF to = "received" THEN n + 1 ELSE n - 1
    BY <1>1, <1>2, MoveAt DEF Unaccounted
<1>7. n \in Nat /\ Cardinality(stored) \in Nat
    BY FiniteAt, FS_CardinalityType DEF Inv
<1>8. counters.received = Cardinality(stored) + counters.duplicates + counters.rejected + n
    BY DEF Inv, CountersBalance
<1> HIDE DEF n
<1>9. counters'.received = Cardinality(stored) + counters'.duplicates + counters'.rejected + n'
    <2>1. /\ counters.received \in Nat /\ counters.rejected \in Nat /\ counters.duplicates \in Nat
        BY <1>3
    <2>2. CASE name = "received"
        <3>1. /\ counters'.received = counters.received + 1
              /\ counters'.rejected = counters.rejected
              /\ counters'.duplicates = counters.duplicates
              /\ n' = n + 1
            BY <1>1, <1>3, <1>6, <2>2
        <3> QED BY <1>7, <1>8, <2>1, <3>1
    <2>3. CASE name = "rejected"
        <3>1. /\ counters'.received = counters.received
              /\ counters'.rejected = counters.rejected + 1
              /\ counters'.duplicates = counters.duplicates
              /\ n' = n - 1
            BY <1>1, <1>3, <1>6, <2>3
        <3> QED BY <1>7, <1>8, <2>1, <3>1
    <2>4. CASE name = "duplicates"
        <3>1. /\ counters'.received = counters.received
              /\ counters'.rejected = counters.rejected
              /\ counters'.duplicates = counters.duplicates + 1
              /\ n' = n - 1
            BY <1>1, <1>3, <1>6, <2>4
        <3> QED BY <1>7, <1>8, <2>1, <3>1
    <2> QED BY <2>2, <2>3, <2>4
<1>10. CountersBalance'
    BY <1>1, <1>9 DEF CountersBalance, n
<1> QED
    BY <1>1, <1>4, <1>5, <1>10 DEF Inv

(* insertEvent makes one request the one that stored the id. *)
LEMMA InsertEventInv ==
    ASSUME Inv, NEW r \in Requests, InsertEvent(r)
    PROVE  Inv'
<1> DEFINE id == req[r].id
<1>1. cache' \in [Nodes -> CacheEntry \cup {NoEntry}]
    BY DEF InsertEvent, Inv, TypeOK
<1>2. CASE id \in stored
    BY <1>1, <1>2, QuietMove DEF InsertEvent, HasStored, Unaccounted, Places, InHandler
<1>3. CASE id \notin stored
    <2>1. /\ Step(r, "received", "inserted")
          /\ stored' = stored \cup {id}
          /\ UNCHANGED <<counters, cache, fanout>>
        BY <1>3 DEF InsertEvent
    <2>2. "received" \in Places /\ "inserted" \in Places
        BY DEF Places, InHandler
    <2>3. id \in Ids /\ req' \in [Requests -> RequestState]
        BY <2>1, <2>2, StepEffect DEF Inv
    <2>4. TypeOK'
        BY <2>1, <2>3 DEF Inv, TypeOK
    <2>5. /\ IsFiniteSet(stored')
          /\ Cardinality(stored') = Cardinality(stored) + 1
          /\ Cardinality(stored) \in Nat
        BY <1>3, <2>1, FS_AddElement, FS_CardinalityType DEF Inv
    <2>6. StoredByOne'
        <3>1. \A i \in Ids : Cardinality(Of(i, HasStored)') =
                 IF i = id THEN Cardinality(Of(i, HasStored)) + 1
                           ELSE Cardinality(Of(i, HasStored))
            BY <2>1, <2>2, MoveOf DEF HasStored
        <3>2. \A i \in Ids : Cardinality(Of(i, {"accepted"})') = Cardinality(Of(i, {"accepted"}))
            BY <2>1, <2>2, MoveOf
        <3>3. \A i \in Ids : Cardinality(Of(i, HasStored)') = IF i \in stored' THEN 1 ELSE 0
            BY <1>3, <2>1, <3>1 DEF Inv, StoredByOne
        <3> QED BY <2>1, <3>2, <3>3 DEF Inv, StoredByOne
    <2>7. Cardinality(At(Unaccounted)') = Cardinality(At(Unaccounted)) - 1
        BY <2>1, <2>2, MoveAt DEF Unaccounted
    <2>8. CountersBalance'
        <3>1. Cardinality(At(Unaccounted)) \in Nat
            BY FiniteAt
        <3>2. /\ counters.received \in Nat /\ counters.rejected \in Nat
              /\ counters.duplicates \in Nat
            BY DEF Inv, TypeOK
        <3> QED BY <2>1, <2>5, <2>7, <3>1, <3>2 DEF Inv, CountersBalance
    <2> QED
        BY <2>4, <2>5, <2>6, <2>8 DEF Inv
<1> QED
    BY <1>2, <1>3

(* The request that stored the event fans it out. *)
LEMMA AcceptInv ==
    ASSUME Inv, NEW r \in Requests, Accept(r)
    PROVE  Inv'
<1> DEFINE id == req[r].id
<1>1. /\ Step(r, "inserted", "accepted")
      /\ Increment(req[r].node)
      /\ fanout' = [fanout EXCEPT ![id] = fanout[id] + 1]
      /\ UNCHANGED <<stored, counters>>
    BY DEF Accept
<1>2. "inserted" \in Places /\ "accepted" \in Places
    BY DEF Places, InHandler
<1>3. /\ id \in Ids /\ req[r].node \in Nodes
      /\ req' \in [Requests -> RequestState]
    BY <1>1, <1>2, StepEffect DEF Inv
<1>4. fanout \in [Ids -> Nat] /\ fanout' \in [Ids -> Nat]
    BY <1>1, <1>3 DEF Inv, TypeOK
<1>5. cache' \in [Nodes -> CacheEntry \cup {NoEntry}]
    <2> DEFINE n == req[r].node
    <2>1. cache \in [Nodes -> CacheEntry \cup {NoEntry}]
        BY DEF Inv, TypeOK
    <2>2. CASE cache[n] = NoEntry
        BY <1>1, <2>1, <2>2 DEF Increment
    <2>3. CASE cache[n] # NoEntry
        <3>1. cache[n] \in CacheEntry
            BY <1>3, <2>1, <2>3
        <3>2. cache' = [cache EXCEPT ![n] = [cache[n] EXCEPT !.usage = cache[n].usage + 1]]
            BY <1>1, <2>3 DEF Increment
        <3>3. [cache[n] EXCEPT !.usage = cache[n].usage + 1] \in CacheEntry
            BY <3>1 DEF CacheEntry
        <3> QED BY <2>1, <3>2, <3>3
    <2> QED BY <2>2, <2>3
<1>6. TypeOK'
    BY <1>1, <1>3, <1>4, <1>5 DEF Inv, TypeOK
<1>7. StoredByOne'
    <2>1. \A i \in Ids : Cardinality(Of(i, HasStored)') = Cardinality(Of(i, HasStored))
        BY <1>1, <1>2, MoveOf DEF HasStored
    <2>2. \A i \in Ids : Cardinality(Of(i, {"accepted"})') =
             IF i = id THEN Cardinality(Of(i, {"accepted"})) + 1
                       ELSE Cardinality(Of(i, {"accepted"}))
        BY <1>1, <1>2, MoveOf
    <2>3. \A i \in Ids : fanout'[i] = IF i = id THEN fanout[i] + 1 ELSE fanout[i]
        BY <1>1, <1>3, <1>4
    <2>4. \A i \in Ids : fanout'[i] = Cardinality(Of(i, {"accepted"})')
        BY <2>2, <2>3 DEF Inv, StoredByOne
    <2> QED BY <1>1, <2>1, <2>4 DEF Inv, StoredByOne
<1>8. CountersBalance'
    <2>1. Cardinality(At(Unaccounted)') = Cardinality(At(Unaccounted))
        BY <1>1, <1>2, MoveAt DEF Unaccounted
    <2> QED BY <1>1, <2>1 DEF Inv, CountersBalance
<1> QED
    BY <1>1, <1>6, <1>7, <1>8 DEF Inv

-----------------------------------------------------------------------------
(* An event that one request at most has stored is fanned out once at most. *)
LEMMA InvFansOutOnce == Inv => FannedOutOnce
<1> SUFFICES ASSUME Inv, NEW i \in Ids
             PROVE  fanout[i] <= 1 /\ (fanout[i] = 1 => i \in stored)
    BY DEF FannedOutOnce
<1>1. Of(i, {"accepted"}) \in SUBSET Of(i, HasStored)
    BY DEF Of, At, HasStored
<1>2. Cardinality(Of(i, {"accepted"})) <= Cardinality(Of(i, HasStored))
    BY <1>1, FiniteAt, FS_Subset
<1>3. /\ fanout[i] = Cardinality(Of(i, {"accepted"})) /\ fanout[i] \in Nat
      /\ Cardinality(Of(i, HasStored)) = IF i \in stored THEN 1 ELSE 0
    BY FiniteAt DEF Inv, StoredByOne
<1> QED
    BY <1>2, <1>3

(* The inductive invariant: every stored event was stored by exactly one   *)
(* request, and the counters account for every request.                    *)
THEOREM IngestInvariant == Spec => []IInv
<1>1. Init => Inv
    BY InitInv
<1>2. Inv /\ [Next]_vars => Inv'
    <2> SUFFICES ASSUME Inv, [Next]_vars
                 PROVE  Inv'
        OBVIOUS
    <2>1. ASSUME NEW r \in Requests, NEW n \in Nodes, NEW i \in Ids,
                 NEW valid \in BOOLEAN, Arrive(r, n, i, valid)
          PROVE  Inv'
        BY <2>1, ArriveInv
    <2>2. ASSUME NEW r \in Requests, Handle(r)
          PROVE  Inv'
        BY <2>2, QuotaInv, CountEventsInv, CountInv, InsertEventInv, AcceptInv DEF Handle
    <2>3. ASSUME NEW r \in Requests, Fail(r)
          PROVE  Inv'
        BY <2>3, FailInv
    <2>4. ASSUME NEW n \in Nodes, Expire(n) \/ Crash(n)
          PROVE  Inv'
        BY <2>4, ExpireInv, CrashInv
    <2>5. CASE UNCHANGED vars
        <3>1. TypeOK'
            BY <2>5 DEF vars, Inv, TypeOK
        <3> QED BY <2>5, <3>1, QuietStep DEF vars
    <2> QED
        BY <2>1, <2>2, <2>3, <2>4, <2>5 DEF Next
<1>3. Inv => IInv
    BY InvFansOutOnce DEF Inv, IInv
<1> QED
    BY <1>1, <1>2, <1>3, PTL DEF Spec

(* However many requests on however many nodes submit an id, its event is  *)
(* broadcast and scheduled at most once, and only after it was stored.     *)
THEOREM AtMostOneFanOut == Spec => []FannedOutOnce
<1>1. IInv => FannedOutOnce
    BY DEF IInv
<1> QED
    BY <1>1, IngestInvariant, PTL

(* What GET /metrics counts as received is stored, known, rejected, in the *)
(* handler or lost to a failure, in every reachable state.                 *)
THEOREM CountersAlwaysBalance == Spec => []CountersBalance
<1>1. IInv => CountersBalance
    BY DEF IInv
<1> QED
    BY <1>1, IngestInvariant, PTL
=============================================================================
