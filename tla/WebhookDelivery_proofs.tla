----------------------- MODULE WebhookDelivery_proofs -----------------------
(* Theorems of WebhookDelivery, for every value of its constants. *)
EXTENDS WebhookDelivery, FiniteSetTheorems, SequenceTheorems, TLAPS

Holders == {d \in Deliveries : Holding(d)}

Outside == {"none", "waiting", "done"}

(* A step of one delivery that holds a slot and keeps it. *)
Inner(d) ==
    /\ pc[d] \notin Outside
    /\ \E to \in Places \ Outside : pc' = [pc EXCEPT ![d] = to]
    /\ UNCHANGED <<event, sem>>

-----------------------------------------------------------------------------
(* Finitely many deliveries *)

LEMMA DeliveriesFinite ==
    /\ IsFiniteSet(Deliveries)
    /\ \A D \in SUBSET Deliveries : IsFiniteSet(D) /\ Cardinality(D) \in Nat
<1>1. IsFiniteSet(Deliveries)
    BY DeliveryAssumption, FS_Product DEF Deliveries
<1> QED
    BY <1>1, FS_Subset, FS_CardinalityType

(* A sequence without repetition has as many members as places. *)
LEMMA DistinctPrefix ==
    ASSUME NEW ds \in Seq(Deliveries), NEW k \in 0..Len(ds),
           \A i, j \in 1..Len(ds) : ds[i] = ds[j] => i = j
    PROVE  Cardinality({ds[i] : i \in 1..k}) = k
<1> DEFINE T == {ds[i] : i \in 1..k}
           f == [i \in 1..k |-> ds[i]]
<1>1. Len(ds) \in Nat /\ k \in Nat
    OBVIOUS
<1>2. f \in Bijection(1..k, T)
    <2>1. f \in [1..k -> T] /\ \A t \in T : \E i \in 1..k : f[i] = t
        OBVIOUS
    <2>2. \A i, j \in 1..k : f[i] = f[j] => i = j
        BY <1>1
    <2> QED
        BY <2>1, <2>2 DEF Bijection, Injection, Surjection, IsInjective
<1>3. ExistsBijection(1..k, T)
    BY <1>2 DEF ExistsBijection
<1>4. IsFiniteSet(1..k) /\ Cardinality(1..k) = k
    BY <1>1, FS_Interval
<1> QED
    BY <1>3, <1>4, FS_Bijection

(* The last part of a sequence. *)
LEMMA SuffixFacts ==
    ASSUME NEW S, NEW s \in Seq(S), NEW k \in 0..Len(s), NEW r,
           r = SubSeq(s, k + 1, Len(s))
    PROVE  /\ r \in Seq(S)
           /\ Len(r) = Len(s) - k
           /\ \A i \in 1..Len(r) : k + i \in 1..Len(s) /\ r[i] = s[k + i]
           /\ \A j \in (k + 1)..Len(s) : j - k \in 1..Len(r) /\ r[j - k] = s[j]
<1>1. Len(s) \in Nat /\ k \in Nat /\ k <= Len(s)
    OBVIOUS
<1>2. \A i \in (k + 1)..Len(s) : s[i] \in S
    BY <1>1
<1>3. /\ r \in Seq(S)
      /\ Len(r) = IF k + 1 <= Len(s) THEN Len(s) - (k + 1) + 1 ELSE 0
      /\ \A i \in 1..(Len(s) - (k + 1) + 1) : r[i] = s[(k + 1) + i - 1]
    <2>1. k + 1 \in Int /\ Len(s) \in Int
        BY <1>1
    <2>2. \A i \in (k + 1)..Len(s) : s[i] \in S
        BY <1>2
    <2> QED BY <2>1, <2>2, SubSeqProperties
<1>4. Len(r) = Len(s) - k
    BY <1>1, <1>3
<1>5. \A i \in 1..Len(r) : k + i \in 1..Len(s) /\ r[i] = s[k + i]
    BY <1>1, <1>3, <1>4
<1>6. \A j \in (k + 1)..Len(s) : j - k \in 1..Len(r) /\ r[j - k] = s[j]
    <2> TAKE j \in (k + 1)..Len(s)
    <2>1. j - k \in 1..Len(r) /\ k + (j - k) = j
        BY <1>1, <1>4
    <2> QED BY <2>1, <1>5
<1> QED
    BY <1>3, <1>4, <1>5, <1>6

(* The places of a concatenation. *)
LEMMA ConcatFacts ==
    ASSUME NEW S, NEW s \in Seq(S), NEW t \in Seq(S), NEW u, u = s \o t
    PROVE  /\ u \in Seq(S)
           /\ Len(u) = Len(s) + Len(t)
           /\ \A i \in 1..Len(s) : i \in 1..Len(u) /\ u[i] = s[i]
           /\ \A i \in 1..Len(t) : Len(s) + i \in 1..Len(u) /\ u[Len(s) + i] = t[i]
           /\ \A i \in 1..Len(u) : \/ i \in 1..Len(s)
                                    \/ /\ i > Len(s)
                                       /\ i - Len(s) \in 1..Len(t)
                                       /\ u[i] = t[i - Len(s)]
<1>1. Len(s) \in Nat /\ Len(t) \in Nat
    OBVIOUS
<1>2. /\ u \in Seq(S)
      /\ Len(u) = Len(s) + Len(t)
      /\ \A i \in 1..(Len(s) + Len(t)) : u[i] = IF i <= Len(s) THEN s[i] ELSE t[i - Len(s)]
    BY ConcatProperties
<1>3. \A i \in 1..Len(s) : i \in 1..Len(u) /\ u[i] = s[i]
    BY <1>1, <1>2
<1>4. \A i \in 1..Len(t) : Len(s) + i \in 1..Len(u) /\ u[Len(s) + i] = t[i]
    <2> TAKE i \in 1..Len(t)
    <2>1. /\ Len(s) + i \in 1..(Len(s) + Len(t)) /\ ~(Len(s) + i <= Len(s))
          /\ Len(s) + i - Len(s) = i
        BY <1>1
    <2> QED BY <1>2, <2>1
<1>5. \A i \in 1..Len(u) : \/ i \in 1..Len(s)
                            \/ /\ i > Len(s)
                               /\ i - Len(s) \in 1..Len(t)
                               /\ u[i] = t[i - Len(s)]
    BY <1>1, <1>2
<1> QED
    BY <1>2, <1>3, <1>4, <1>5

-----------------------------------------------------------------------------
(* What a dispatch asks for: distinct new deliveries of its event. *)

LEMMA DispatchAsks ==
    ASSUME NEW e \in Events, Dispatch(e)
    PROVE  \E ds \in Seq(Deliveries) :
              /\ Acquire(ds)
              /\ \A i \in 1..Len(ds) : EventOf(ds[i]) = e
              /\ \A i, j \in 1..Len(ds) : ds[i] = ds[j] => i = j
<1> DEFINE S == {h \in Hooks : hooks[h] = "enabled"}
<1>1. PICK order \in SetToSeqs(S) : Acquire([i \in 1..Len(order) |-> <<e, order[i]>>])
    BY DEF Dispatch
<1> DEFINE ds == [i \in 1..Len(order) |-> <<e, order[i]>>]
           n == Cardinality(S)
<1>2. n \in Nat
    BY DeliveryAssumption, FS_Subset, FS_CardinalityType
<1>3. order \in [1..n -> S] /\ \A i, j \in 1..n : i # j => order[i] # order[j]
    BY DEF SetToSeqs
<1>4. Len(order) = n
    BY <1>2, <1>3
<1>5. \A i \in 1..n : ds[i] = <<e, order[i]>> /\ order[i] \in Hooks
    BY <1>3, <1>4
<1>6. ds \in [1..n -> Deliveries]
    BY <1>4, <1>5 DEF Deliveries
<1> HIDE DEF ds, n, S
<1>7. ds \in Seq(Deliveries) /\ Len(ds) = n
    BY <1>2, <1>6
<1>8. \A i \in 1..n : EventOf(ds[i]) = e
    BY <1>5 DEF EventOf
<1>9. \A i, j \in 1..n : ds[i] = ds[j] => i = j
    BY <1>3, <1>5
<1> QED
    BY <1>1, <1>7, <1>8, <1>9 DEF ds

(* What it gets: slots for the first k, places in the queue for the others. *)
LEMMA AcquireFacts ==
    ASSUME TypeOK, NEW ds \in Seq(Deliveries), Acquire(ds)
    PROVE  \E k \in 0..Len(ds) :
              /\ k <= Free
              /\ k < Len(ds) => k = Free
              /\ active' = active + k
              /\ queue' = queue \o SubSeq(ds, k + 1, Len(ds))
              /\ pc' = [d \in Deliveries |->
                          CASE \E i \in 1..k : ds[i] = d -> "slot"
                            [] \E i \in (k + 1)..Len(ds) : ds[i] = d -> "waiting"
                            [] OTHER -> pc[d]]
<1>1. Len(ds) \in Nat /\ Free \in Nat
    BY DeliveryAssumption DEF TypeOK, Free
<1>2. Least(Free, Len(ds)) \in 0..Len(ds)
    BY <1>1 DEF Least
<1>3. /\ Least(Free, Len(ds)) <= Free
      /\ Least(Free, Len(ds)) < Len(ds) => Least(Free, Len(ds)) = Free
    BY <1>1 DEF Least
<1> QED
    BY <1>2, <1>3 DEF Acquire

-----------------------------------------------------------------------------
(* The steps between taking a slot and giving it back *)

(* The actions of a delivery that holds a slot. *)
HoldingStep(d) ==
    \/ CreateRow(d)  \/ CreateRowFails(d)
    \/ FetchSecret(d) \/ Post(d) \/ Refuse(d)
    \/ AnswerOk(d)   \/ AnswerPermanent(d) \/ AnswerTransient(d)
    \/ Retry(d)
    \/ Record(d)     \/ RecordFails(d)

LEMMA HoldingStepIsInner ==
    ASSUME TypeOK, NEW d \in Deliveries, HoldingStep(d)
    PROVE  Inner(d)
<1>1. UNCHANGED <<event, sem>>
    BY DEF HoldingStep, CreateRow, CreateRowFails, FetchSecret, Post, Refuse, AnswerOk,
           AnswerPermanent, AnswerTransient, Retry, Record, RecordFails
<1>2. \E from, to \in Places \ Outside : Goto(d, from, to)
    BY DEF HoldingStep, CreateRow, CreateRowFails, FetchSecret, Post, Refuse, AnswerOk,
           AnswerPermanent, AnswerTransient, Retry, Record, RecordFails, Places, Outside
<1> QED
    BY <1>1, <1>2 DEF Goto, Inner

LEMMA InnerKeepsSemaphore ==
    ASSUME TypeOK, NEW d \in Deliveries, Inner(d), SemaphoreAccounted, NoLostWakeup,
           Undispatched
    PROVE  SemaphoreAccounted' /\ NoLostWakeup' /\ Undispatched'
<1>1. /\ pc \in [Deliveries -> Places]
      /\ active' = active /\ queue' = queue /\ woken' = woken /\ event' = event
    BY DEF TypeOK, Inner, sem
<1>2. /\ pc'[d] \notin Outside /\ pc[d] \notin Outside
      /\ \A c \in Deliveries : c # d => pc'[c] = pc[c]
    BY <1>1 DEF Inner
<1>3. Holders' = Holders
    BY <1>2 DEF Holders, Holding, Outside
<1>4. SlotsAccounted'
    BY <1>1, <1>3 DEF SemaphoreAccounted, SlotsAccounted, Holders
<1>5. WaitersAccounted'
    BY <1>1, <1>2 DEF SemaphoreAccounted, WaitersAccounted, Outside
<1>6. NoLostWakeup'
    BY <1>1 DEF NoLostWakeup
<1>7. Undispatched'
    BY <1>1, <1>2 DEF Undispatched, Outside
<1> QED
    BY <1>4, <1>5, <1>6, <1>7 DEF SemaphoreAccounted

(* What a delivery's own step does to its data. *)
LEMMA HoldingStepData ==
    ASSUME TypeOK, NEW d \in Deliveries, HoldingStep(d), RowsFollow, OutcomesTrue
    PROVE  TypeOK' /\ RowsFollow' /\ OutcomesTrue'
<1> USE DEF TypeOK, Places, Goto, sem, RowsFollow, OutcomesTrue
<1>1. CASE CreateRow(d)
    BY <1>1 DEF CreateRow
<1>2. CASE CreateRowFails(d)
    BY <1>2 DEF CreateRowFails
<1>3. CASE FetchSecret(d)
    BY <1>3 DEF FetchSecret
<1>4. CASE Post(d)
    <2>1. tries[d] \in Nat /\ tries[d] <= MaxRetries /\ MaxRetries \in Nat /\ row[d] # "none"
        BY <1>4, DeliveryAssumption DEF Post
    <2>2. TypeOK'
        BY <1>4, <2>1 DEF Post
    <2>3. RowsFollow'
        BY <1>4, <2>1 DEF Post
    <2>4. OutcomesTrue'
        BY <1>4, <2>1 DEF Post
    <2> QED BY <2>2, <2>3, <2>4
<1>5. CASE Refuse(d)
    <2>1. tries[d] \in Nat /\ tries[d] <= MaxRetries /\ MaxRetries \in Nat /\ row[d] # "none"
        BY <1>5, DeliveryAssumption DEF Refuse
    <2>2. TypeOK'
        BY <1>5, <2>1 DEF Refuse
    <2>3. RowsFollow'
        BY <1>5, <2>1 DEF Refuse
    <2>4. OutcomesTrue'
        BY <1>5, <2>1 DEF Refuse
    <2> QED BY <2>2, <2>3, <2>4
<1>6. CASE AnswerOk(d)
    BY <1>6 DEF AnswerOk
<1>7. CASE AnswerPermanent(d)
    BY <1>7 DEF AnswerPermanent
<1>8. CASE AnswerTransient(d)
    <2>1. row[d] # "none" /\ tries' = tries /\ row' = row
        BY <1>8 DEF AnswerTransient
    <2>2. received' \in SUBSET Deliveries /\ received \subseteq received'
          /\ received' \subseteq received \cup {d}
        BY <1>8 DEF AnswerTransient
    <2>3. TypeOK'
        BY <1>8, <2>1, <2>2 DEF AnswerTransient
    <2>4. CASE tries[d] <= MaxRetries
        <3>1. pc' = [pc EXCEPT ![d] = "sleeping"] /\ result' = result
            BY <1>8, <2>4 DEF AnswerTransient
        <3> QED BY <2>1, <2>2, <2>3, <2>4, <3>1
    <2>5. CASE ~(tries[d] <= MaxRetries)
        <3>1. /\ pc' = [pc EXCEPT ![d] = "recording"]
              /\ result' = [result EXCEPT ![d] = "failed"]
            BY <1>8, <2>5 DEF AnswerTransient
        <3>2. RowsFollow'
            BY <2>1, <2>3, <3>1
        <3>3. OutcomesTrue'
            BY <2>1, <2>2, <2>3, <3>1
        <3> QED BY <2>3, <3>2, <3>3
    <2> QED BY <2>4, <2>5
<1>9. CASE Retry(d)
    BY <1>9 DEF Retry
<1>10. CASE Record(d)
    BY <1>10 DEF Record
<1>11. CASE RecordFails(d)
    <2>1. CASE row' = row
        BY <1>11, <2>1 DEF RecordFails
    <2>2. CASE row' = [row EXCEPT ![d] = result[d]]
        BY <1>11, <2>2 DEF RecordFails
    <2> QED BY <1>11, <2>1, <2>2 DEF RecordFails
<1> QED
    BY <1>1, <1>2, <1>3, <1>4, <1>5, <1>6, <1>7, <1>8, <1>9, <1>10, <1>11 DEF HoldingStep

-----------------------------------------------------------------------------
(* A dispatch *)

LEMMA DispatchKeeps ==
    ASSUME IInv, NEW e \in Events, Dispatch(e)
    PROVE  IInv'
<1> USE DEF IInv
<1>1. /\ event[e] = "scheduled" /\ event' = [event EXCEPT ![e] = "dispatched"]
      /\ hooks' = hooks /\ tries' = tries /\ result' = result /\ row' = row
      /\ received' = received /\ woken' = woken
    BY DEF Dispatch
<1>2. PICK ds \in Seq(Deliveries) :
         /\ Acquire(ds)
         /\ \A i \in 1..Len(ds) : EventOf(ds[i]) = e
         /\ \A i, j \in 1..Len(ds) : ds[i] = ds[j] => i = j
    BY DispatchAsks
<1>3. PICK k \in 0..Len(ds) :
         /\ k <= Free
         /\ k < Len(ds) => k = Free
         /\ active' = active + k
         /\ queue' = queue \o SubSeq(ds, k + 1, Len(ds))
         /\ pc' = [d \in Deliveries |->
                     CASE \E i \in 1..k : ds[i] = d -> "slot"
                       [] \E i \in (k + 1)..Len(ds) : ds[i] = d -> "waiting"
                       [] OTHER -> pc[d]]
    BY <1>2, AcquireFacts
<1> DEFINE Slots == {ds[i] : i \in 1..k}
<1>4. /\ Len(ds) \in Nat /\ k \in Nat /\ k <= Len(ds) /\ queue \in Seq(Deliveries)
      /\ active \in Nat /\ Len(queue) \in Nat
    BY DEF TypeOK
<1>5. \A i \in 1..Len(ds) : ds[i] \in Deliveries /\ pc[ds[i]] = "none" /\ EventOf(ds[i]) = e
    <2>1. \A i \in 1..Len(ds) : ds[i] \in Deliveries
        OBVIOUS
    <2> QED
        BY <1>1, <1>2, <2>1 DEF Undispatched
<1> DEFINE rest == SubSeq(ds, k + 1, Len(ds))
<1>6. queue' = queue \o rest
    BY <1>3
<1> HIDE DEF rest
<1>7. /\ rest \in Seq(Deliveries) /\ Len(rest) \in Nat
      /\ Len(rest) = Len(ds) - k
      /\ \A i \in 1..Len(rest) : k + i \in 1..Len(ds) /\ rest[i] = ds[k + i]
      /\ \A j \in (k + 1)..Len(ds) : j - k \in 1..Len(rest) /\ rest[j - k] = ds[j]
    <2>1. rest = SubSeq(ds, k + 1, Len(ds))
        BY DEF rest
    <2> QED BY <1>4, <2>1, SuffixFacts
<1>8. \A d \in Slots : d \in Deliveries /\ pc[d] = "none" /\ EventOf(d) = e
    BY <1>4, <1>5
<1>9. \A i \in 1..Len(rest) : /\ rest[i] \in Deliveries /\ pc[rest[i]] = "none"
                              /\ EventOf(rest[i]) = e
    <2> TAKE i \in 1..Len(rest)
    <2>1. k + i \in 1..Len(ds) /\ rest[i] = ds[k + i]
        BY <1>7
    <2> QED BY <1>5, <2>1
<1>10. \A i \in 1..Len(rest) : rest[i] \notin Slots
    <2> SUFFICES ASSUME NEW i \in 1..Len(rest), NEW j \in 1..k, rest[i] = ds[j]
                 PROVE  FALSE
        OBVIOUS
    <2>1. k + i \in 1..Len(ds) /\ j \in 1..Len(ds) /\ ds[k + i] = ds[j] /\ k + i # j
        BY <1>4, <1>7
    <2> QED BY <1>2, <2>1
<1>11. \A i, j \in 1..Len(rest) : rest[i] = rest[j] => i = j
    <2> SUFFICES ASSUME NEW i \in 1..Len(rest), NEW j \in 1..Len(rest), rest[i] = rest[j]
                 PROVE  i = j
        OBVIOUS
    <2>1. k + i \in 1..Len(ds) /\ k + j \in 1..Len(ds) /\ ds[k + i] = ds[k + j]
        BY <1>7
    <2>2. k + i = k + j
        BY <1>2, <2>1
    <2> QED BY <1>4, <1>6, <1>7, <2>2
<1>12. \A d \in Deliveries :
          /\ d \in Slots => pc'[d] = "slot"
          /\ d \notin Slots /\ (\E i \in 1..Len(rest) : rest[i] = d) => pc'[d] = "waiting"
          /\ d \notin Slots /\ (\A i \in 1..Len(rest) : rest[i] # d) => pc'[d] = pc[d]
    <2> TAKE d \in Deliveries
    <2>1. (\E i \in (k + 1)..Len(ds) : ds[i] = d) <=> (\E i \in 1..Len(rest) : rest[i] = d)
        <3>1. ASSUME NEW i \in (k + 1)..Len(ds), ds[i] = d
              PROVE  \E j \in 1..Len(rest) : rest[j] = d
            BY <1>7, <3>1
        <3>2. ASSUME NEW i \in 1..Len(rest), rest[i] = d
              PROVE  \E j \in (k + 1)..Len(ds) : ds[j] = d
            <4>1. k + i \in (k + 1)..Len(ds) /\ ds[k + i] = d
                BY <1>4, <1>7, <3>2
            <4> QED BY <4>1
        <3> QED BY <3>1, <3>2
    <2>2. d \in Slots <=> \E i \in 1..k : ds[i] = d
        OBVIOUS
    <2>3. pc'[d] = CASE \E i \in 1..k : ds[i] = d -> "slot"
                     [] \E i \in (k + 1)..Len(ds) : ds[i] = d -> "waiting"
                     [] OTHER -> pc[d]
        BY <1>3
    <2>4. d \in Slots => pc'[d] = "slot"
        BY <1>10, <2>1, <2>2, <2>3
    <2>5. CASE d \notin Slots /\ \E i \in 1..Len(rest) : rest[i] = d
        <3>1. ~(\E i \in 1..k : ds[i] = d) /\ \E i \in (k + 1)..Len(ds) : ds[i] = d
            BY <2>1, <2>2, <2>5
        <3> QED BY <2>3, <2>5, <3>1
    <2>6. CASE d \notin Slots /\ \A i \in 1..Len(rest) : rest[i] # d
        <3>1. ~(\E i \in 1..k : ds[i] = d) /\ ~(\E i \in (k + 1)..Len(ds) : ds[i] = d)
            BY <2>1, <2>2, <2>6
        <3> QED BY <2>3, <2>6, <3>1
    <2> QED BY <2>4, <2>5, <2>6
<1>13. Cardinality(Slots) = k
    BY <1>2, DistinctPrefix
<1> HIDE DEF Slots
<1>14. TypeOK'
    <2>1. pc' \in [Deliveries -> Places]
        BY <1>3 DEF TypeOK, Places
    <2>2. queue' \in Seq(Deliveries)
        BY <1>4, <1>6, <1>7, ConcatFacts
    <2>3. active' \in Nat
        BY <1>3, <1>4
    <2>4. event' \in [Events -> {"new", "scheduled", "dispatched"}]
        BY <1>1 DEF TypeOK
    <2> QED BY <1>1, <2>1, <2>2, <2>3, <2>4 DEF TypeOK
<1>15. SlotsAccounted'
    <2>1. Holders' = Holders \cup Slots
        BY <1>8, <1>9, <1>12 DEF Holders, Holding
    <2>2. Holders \cap Slots = {}
        BY <1>8 DEF Holders, Holding
    <2>3. /\ Slots \in SUBSET Deliveries /\ Holders \in SUBSET Deliveries
          /\ IsFiniteSet(Holders) /\ IsFiniteSet(Slots) /\ Cardinality(Holders) \in Nat
        BY <1>8, DeliveriesFinite DEF Holders
    <2>4. Cardinality(Holders \cup Slots) = Cardinality(Holders) + Cardinality(Slots) - 0
        BY <2>2, <2>3, FS_Union, FS_EmptySet
    <2>5. active = Cardinality(Holders)
        BY DEF SlotsAccounted, Holders
    <2>6. active' = Cardinality(Holders')
        BY <1>3, <1>4, <1>13, <2>1, <2>4, <2>5
    <2> QED BY <2>6 DEF SlotsAccounted, Holders
<1>16. /\ Len(queue') = Len(queue) + Len(rest)
       /\ \A i \in 1..Len(queue) : i \in 1..Len(queue') /\ queue'[i] = queue[i]
       /\ \A i \in 1..Len(rest) : /\ Len(queue) + i \in 1..Len(queue')
                                   /\ queue'[Len(queue) + i] = rest[i]
       /\ \A i \in 1..Len(queue') : \/ i \in 1..Len(queue)
                                     \/ /\ i > Len(queue)
                                        /\ i - Len(queue) \in 1..Len(rest)
                                        /\ queue'[i] = rest[i - Len(queue)]
    <2>1. queue \in Seq(Deliveries) /\ rest \in Seq(Deliveries)
        BY <1>4, <1>7
    <2> QED BY ONLY <1>6, <2>1, ConcatFacts
<1>17. \A i \in 1..Len(queue) : /\ queue[i] \in Deliveries /\ pc[queue[i]] = "waiting"
                                /\ queue[i] \notin woken
    BY <1>4 DEF WaitersAccounted
<1>18. \A d \in woken : d \in Deliveries /\ pc[d] = "waiting"
    BY DEF WaitersAccounted, TypeOK
<1>19. WaitersAccounted'
    <2>1. ASSUME NEW i \in 1..Len(queue'), NEW j \in 1..Len(queue'), queue'[i] = queue'[j]
          PROVE  i = j
        <3>1. CASE i \in 1..Len(queue) /\ j \in 1..Len(queue)
            BY <1>16, <2>1, <3>1 DEF WaitersAccounted
        <3>2. CASE i \in 1..Len(queue) /\ j \notin 1..Len(queue)
            <4>1. queue'[i] = queue[i] /\ \E m \in 1..Len(rest) : queue'[j] = rest[m]
                BY <1>16, <3>2
            <4> QED BY <1>9, <1>17, <2>1, <3>2, <4>1
        <3>3. CASE i \notin 1..Len(queue) /\ j \in 1..Len(queue)
            <4>1. queue'[j] = queue[j] /\ \E m \in 1..Len(rest) : queue'[i] = rest[m]
                BY <1>16, <3>3
            <4> QED BY <1>9, <1>17, <2>1, <3>3, <4>1
        <3>4. CASE i \notin 1..Len(queue) /\ j \notin 1..Len(queue)
            <4>1. /\ i - Len(queue) \in 1..Len(rest) /\ queue'[i] = rest[i - Len(queue)]
                  /\ j - Len(queue) \in 1..Len(rest) /\ queue'[j] = rest[j - Len(queue)]
                BY <1>16, <3>4
            <4>2. i - Len(queue) = j - Len(queue)
                BY <1>11, <2>1, <4>1
            <4>3. i \in Int /\ j \in Int
                OBVIOUS
            <4> QED BY <1>4, <4>2, <4>3
        <3> QED BY <3>1, <3>2, <3>3, <3>4
    <2>2. ASSUME NEW i \in 1..Len(queue')
          PROVE  queue'[i] \notin woken
        <3>1. CASE i \in 1..Len(queue)
            BY <1>16, <1>17, <3>1
        <3>2. CASE i \notin 1..Len(queue)
            <4>1. \E m \in 1..Len(rest) : queue'[i] = rest[m]
                BY <1>16, <3>2
            <4> QED BY <1>9, <1>18, <4>1
        <3> QED BY <3>1, <3>2
    <2>3. ASSUME NEW d \in Deliveries
          PROVE  (\E i \in 1..Len(queue') : queue'[i] = d)
                 <=> (\E i \in 1..Len(queue) : queue[i] = d)
                     \/ (\E i \in 1..Len(rest) : rest[i] = d)
        <3>1. ASSUME NEW i \in 1..Len(queue'), queue'[i] = d
              PROVE  (\E j \in 1..Len(queue) : queue[j] = d)
                     \/ (\E j \in 1..Len(rest) : rest[j] = d)
            BY <1>16, <3>1
        <3>2. ASSUME NEW i \in 1..Len(queue), queue[i] = d
              PROVE  \E j \in 1..Len(queue') : queue'[j] = d
            BY <1>16, <3>2
        <3>3. ASSUME NEW i \in 1..Len(rest), rest[i] = d
              PROVE  \E j \in 1..Len(queue') : queue'[j] = d
            BY <1>16, <3>3
        <3> QED BY <3>1, <3>2, <3>3
    <2>4. \A d \in Deliveries : pc'[d] = "waiting"
                                <=> d \in woken \/ \E i \in 1..Len(queue') : queue'[i] = d
        <3> TAKE d \in Deliveries
        <3>1. pc[d] = "waiting" <=> d \in woken \/ \E i \in 1..Len(queue) : queue[i] = d
            BY DEF WaitersAccounted
        <3>2. CASE d \in Slots
            <4>1. pc'[d] = "slot" /\ pc[d] = "none"
                BY <1>8, <1>12, <3>2
            <4>2. d \notin woken /\ \A i \in 1..Len(rest) : rest[i] # d
                BY <1>10, <1>18, <3>2, <4>1
            <4> QED BY <2>3, <3>1, <4>1, <4>2
        <3>3. CASE d \notin Slots /\ \E i \in 1..Len(rest) : rest[i] = d
            BY <1>12, <2>3, <3>3
        <3>4. CASE d \notin Slots /\ \A i \in 1..Len(rest) : rest[i] # d
            BY <1>12, <2>3, <3>1, <3>4
        <3> QED BY <3>2, <3>3, <3>4
    <2> QED BY <1>1, <2>1, <2>2, <2>4 DEF WaitersAccounted
<1>20. NoLostWakeup'
    <2>1. Cardinality(woken) \in Nat /\ MaxConcurrent \in Nat
        BY DeliveriesFinite, DeliveryAssumption DEF TypeOK
    <2>2. CASE queue # <<>>
        BY <1>1, <1>3, <1>4, <2>1, <2>2 DEF NoLostWakeup
    <2>3. CASE queue = <<>> /\ k = Len(ds)
        <3>1. Len(queue') = 0
            BY <1>4, <1>7, <1>16, <2>3
        <3> QED BY <1>14, <3>1 DEF NoLostWakeup, TypeOK
    <2>4. CASE k < Len(ds)
        <3>1. active' = active + Free
            BY <1>3, <2>4
        <3>2. active' >= MaxConcurrent
            BY <1>4, <2>1, <3>1 DEF Free
        <3> QED BY <1>1, <1>14, <2>1, <3>2 DEF NoLostWakeup, TypeOK
    <2> QED BY <1>4, <2>2, <2>3, <2>4
<1>21. \A d \in Deliveries :
          \/ pc'[d] = pc[d]
          \/ pc[d] = "none" /\ pc'[d] \in {"slot", "waiting"} /\ EventOf(d) = e
    <2> TAKE d \in Deliveries
    <2>1. CASE d \in Slots
        BY <1>8, <1>12, <2>1
    <2>2. CASE d \notin Slots /\ \E i \in 1..Len(rest) : rest[i] = d
        BY <1>9, <1>12, <2>2
    <2>3. CASE d \notin Slots /\ \A i \in 1..Len(rest) : rest[i] # d
        BY <1>12, <2>3
    <2> QED BY <2>1, <2>2, <2>3
<1>22. Undispatched'
    <2>1. event'[e] = "dispatched"
          /\ \A c \in Events : c # e => event'[c] = event[c]
        BY <1>1 DEF TypeOK
    <2>2. \A d \in Deliveries : EventOf(d) \in Events
        BY DEF Deliveries, EventOf
    <2> QED BY <1>21, <2>1, <2>2 DEF Undispatched
<1>23. RowsFollow' /\ OutcomesTrue'
    BY <1>1, <1>21 DEF RowsFollow, OutcomesTrue
<1> QED
    BY <1>14, <1>15, <1>19, <1>20, <1>22, <1>23

-----------------------------------------------------------------------------
(* A slot given back, and a waiter that takes it *)

LEMMA ReleaseKeeps ==
    ASSUME IInv, NEW d \in Deliveries, Release(d)
    PROVE  IInv'
<1> USE DEF IInv
<1>1. /\ pc[d] = "ending" /\ pc' = [pc EXCEPT ![d] = "done"] /\ active' = active - 1
      /\ tries' = [tries EXCEPT ![d] = 0] /\ result' = [result EXCEPT ![d] = "none"]
      /\ hooks' = hooks /\ event' = event /\ row' = row /\ received' = received
    BY DEF Release, Goto, Forget
<1>2. /\ pc \in [Deliveries -> Places] /\ queue \in Seq(Deliveries) /\ woken \subseteq Deliveries
      /\ active \in Nat /\ MaxConcurrent \in Nat /\ MaxRetries \in Nat
    BY DeliveryAssumption DEF TypeOK
<1>3. pc'[d] = "done" /\ \A c \in Deliveries : c # d => pc'[c] = pc[c]
    BY <1>1, <1>2
<1>4. active' = Cardinality(Holders') /\ active' \in Nat
    <2>1. Holders' = Holders \ {d} /\ d \in Holders
        BY <1>1, <1>3 DEF Holders, Holding
    <2>2. IsFiniteSet(Holders)
        BY DeliveriesFinite DEF Holders
    <2>3. IsFiniteSet(Holders \ {d}) /\ Cardinality(Holders \ {d}) = Cardinality(Holders) - 1
        BY <2>1, <2>2, FS_RemoveElement
    <2>4. active = Cardinality(Holders)
        BY DEF SlotsAccounted, Holders
    <2>5. Cardinality(Holders \ {d}) \in Nat
        BY <2>3, FS_CardinalityType
    <2> QED BY <1>1, <2>1, <2>3, <2>4, <2>5
<1>5. SlotsAccounted'
    BY <1>4 DEF SlotsAccounted, Holders
<1>6. Undispatched' /\ RowsFollow' /\ OutcomesTrue'
    BY <1>1, <1>2, <1>3 DEF TypeOK, Undispatched, RowsFollow, OutcomesTrue
<1>7. /\ TypeOK' <=> queue' \in Seq(Deliveries) /\ woken' \subseteq Deliveries
    BY <1>1, <1>4 DEF TypeOK, Places
<1>8. CASE queue = <<>>
    <2>1. queue' = queue /\ woken' = woken
        BY <1>8 DEF Release
    <2>2. WaitersAccounted'
        BY <1>1, <1>3, <2>1 DEF WaitersAccounted
    <2> QED
        BY <1>2, <1>5, <1>6, <1>7, <1>8, <2>1, <2>2 DEF NoLostWakeup
<1>9. CASE queue # <<>>
    <2> DEFINE first == Head(queue)
    <2>1. queue' = Tail(queue) /\ woken' = woken \cup {first}
        BY <1>9 DEF Release
    <2>2. /\ first = queue[1] /\ 1 \in 1..Len(queue) /\ Len(queue) \in Nat
          /\ Tail(queue) \in Seq(Deliveries) /\ Len(Tail(queue)) = Len(queue) - 1
          /\ \A i \in 1..Len(Tail(queue)) : Tail(queue)[i] = queue[i + 1]
        BY <1>2, <1>9, HeadTailProperties
    <2>3. first \in Deliveries /\ first \notin woken /\ pc[first] = "waiting"
        BY <1>2, <2>2 DEF WaitersAccounted
    <2> HIDE DEF first
    <2>4. \A i \in 1..Len(queue') : /\ i + 1 \in 1..Len(queue) /\ i + 1 # 1
                                    /\ queue'[i] = queue[i + 1]
        BY <2>1, <2>2
    <2>5. \A j \in 1..Len(queue) :
             j # 1 => j - 1 \in 1..Len(queue') /\ queue'[j - 1] = queue[j]
        <3> TAKE j \in 1..Len(queue)
        <3>1. j \in Int /\ Len(queue') = Len(queue) - 1
            BY <2>1, <2>2
        <3>2. CASE j # 1
            <4>1. j - 1 \in 1..Len(queue') /\ (j - 1) + 1 = j
                BY <2>2, <3>1, <3>2
            <4>2. queue'[j - 1] = queue[(j - 1) + 1]
                BY <2>4, <4>1
            <4> QED BY <4>1, <4>2
        <3> QED BY <3>2
    <2>6. WaitersAccounted'
        <3>1. ASSUME NEW i \in 1..Len(queue'), NEW j \in 1..Len(queue'), queue'[i] = queue'[j]
              PROVE  i = j
            <4>1. i + 1 = j + 1
                BY <2>4, <3>1 DEF WaitersAccounted
            <4> QED BY <4>1
        <3>2. ASSUME NEW i \in 1..Len(queue')
              PROVE  queue'[i] \notin woken'
            <4>1. queue'[i] # first /\ queue'[i] \notin woken
                BY <2>2, <2>4 DEF WaitersAccounted
            <4> QED BY <2>1, <4>1
        <3>3. \A c \in Deliveries : pc'[c] = "waiting"
                                    <=> c \in woken' \/ \E i \in 1..Len(queue') : queue'[i] = c
            <4> TAKE c \in Deliveries
            <4>1. pc'[c] = "waiting" <=> pc[c] = "waiting"
                BY <1>1, <1>3
            <4>2. pc[c] = "waiting" <=> c \in woken \/ \E i \in 1..Len(queue) : queue[i] = c
                BY DEF WaitersAccounted
            <4>3. ASSUME NEW i \in 1..Len(queue'), queue'[i] = c
                  PROVE  \E j \in 1..Len(queue) : queue[j] = c
                BY <2>4, <4>3
            <4>4. ASSUME NEW j \in 1..Len(queue), queue[j] = c
                  PROVE  c = first \/ \E i \in 1..Len(queue') : queue'[i] = c
                BY <2>2, <2>5, <4>4
            <4> QED BY <2>1, <2>3, <4>1, <4>2, <4>3, <4>4
        <3> QED BY <3>1, <3>2, <3>3 DEF WaitersAccounted
    <2>7. NoLostWakeup'
        <3>1. IsFiniteSet(woken) /\ Cardinality(woken) \in Nat
            BY <1>2, DeliveriesFinite
        <3>2. Cardinality(woken') = Cardinality(woken) + 1
            BY <2>1, <2>3, <3>1, FS_AddElement
        <3> QED BY <1>1, <1>2, <1>9, <3>1, <3>2 DEF NoLostWakeup
    <2> QED
        BY <1>2, <1>5, <1>6, <1>7, <2>1, <2>2, <2>3, <2>6, <2>7
<1> QED BY <1>8, <1>9

LEMMA ResumeKeeps ==
    ASSUME IInv, NEW d \in Deliveries, Resume(d)
    PROVE  IInv'
<1> USE DEF IInv
<1>1. /\ d \in woken /\ pc[d] = "waiting" /\ pc' = [pc EXCEPT ![d] = "slot"]
      /\ woken' = woken \ {d} /\ active' = active + 1 /\ queue' = queue
      /\ hooks' = hooks /\ event' = event /\ tries' = tries /\ result' = result
      /\ row' = row /\ received' = received
    BY DEF Resume, Goto
<1>2. /\ pc \in [Deliveries -> Places] /\ woken \subseteq Deliveries
      /\ active \in Nat /\ MaxConcurrent \in Nat
    BY DeliveryAssumption DEF TypeOK
<1>3. pc'[d] = "slot" /\ \A c \in Deliveries : c # d => pc'[c] = pc[c]
    BY <1>1, <1>2
<1>4. TypeOK'
    BY <1>1 DEF TypeOK, Places
<1>5. SlotsAccounted'
    <2>1. Holders' = Holders \cup {d} /\ d \notin Holders
        BY <1>1, <1>3 DEF Holders, Holding
    <2>2. IsFiniteSet(Holders)
        BY DeliveriesFinite DEF Holders
    <2>3. Cardinality(Holders \cup {d}) = Cardinality(Holders) + 1
        BY <2>1, <2>2, FS_AddElement
    <2>4. active = Cardinality(Holders)
        BY DEF SlotsAccounted, Holders
    <2>5. active' = Cardinality(Holders')
        BY <1>1, <2>1, <2>3, <2>4
    <2> QED BY <2>5 DEF SlotsAccounted, Holders
<1>6. WaitersAccounted'
    <2>1. \A i \in 1..Len(queue) : queue[i] # d
        BY <1>1 DEF WaitersAccounted
    <2> QED BY <1>1, <1>3, <2>1 DEF WaitersAccounted
<1>7. NoLostWakeup'
    <2>1. IsFiniteSet(woken) /\ Cardinality(woken) \in Nat
        BY <1>2, DeliveriesFinite
    <2>2. Cardinality(woken') = Cardinality(woken) - 1
        BY <1>1, <2>1, FS_RemoveElement
    <2> QED BY <1>1, <1>2, <2>1, <2>2 DEF NoLostWakeup
<1>8. Undispatched' /\ RowsFollow' /\ OutcomesTrue'
    BY <1>1, <1>2, <1>3 DEF Undispatched, RowsFollow, OutcomesTrue
<1> QED BY <1>4, <1>5, <1>6, <1>7, <1>8

-----------------------------------------------------------------------------
(* The other steps *)

LEMMA CrashKeeps ==
    ASSUME IInv, Crash
    PROVE  IInv'
<1> USE DEF IInv, Crash
<1>1. /\ active' = 0 /\ queue' = <<>> /\ woken' = {} /\ MaxRetries \in Nat
      /\ \A d \in Deliveries : pc'[d] \in {"none", "done"}
    BY DeliveryAssumption
<1>2. TypeOK'
    BY DEF TypeOK, Places
<1>3. SlotsAccounted'
    <2>1. Holders' = {}
        BY <1>1 DEF Holders, Holding
    <2>2. Cardinality(Holders') = 0
        BY <2>1, FS_EmptySet
    <2> QED BY <1>1, <2>2 DEF SlotsAccounted, Holders
<1>4. WaitersAccounted' /\ NoLostWakeup'
    BY <1>1 DEF WaitersAccounted, NoLostWakeup
<1>5. Undispatched'
    <2>1. \A d \in Deliveries : EventOf(d) \in Events
        BY DEF Deliveries, EventOf
    <2> QED BY <2>1 DEF Undispatched, TypeOK
<1>6. RowsFollow' /\ OutcomesTrue'
    BY <1>1 DEF RowsFollow, OutcomesTrue
<1> QED BY <1>2, <1>3, <1>4, <1>5, <1>6

(* A step that leaves every delivery and the semaphore alone. *)
LEMMA OthersKeep ==
    ASSUME IInv, UNCHANGED <<pc, tries, result, row, received, sem>>, TypeOK', Undispatched'
    PROVE  IInv'
<1>1. SlotsAccounted' /\ WaitersAccounted' /\ NoLostWakeup'
    BY DEF IInv, sem, SlotsAccounted, WaitersAccounted, NoLostWakeup, Holding
<1>2. RowsFollow' /\ OutcomesTrue'
    BY DEF IInv, RowsFollow, OutcomesTrue
<1> QED BY <1>1, <1>2 DEF IInv

LEMMA TenantKeeps ==
    ASSUME IInv, Tenant
    PROVE  IInv'
<1>1. ASSUME NEW h \in Hooks, Delete(h) \/ \E status \in {"enabled", "disabled"} : Patch(h, status)
      PROVE  IInv'
    <2>1. TypeOK' /\ UNCHANGED <<event, pc, tries, result, row, received, sem>>
        BY <1>1 DEF IInv, TypeOK, Delete, Patch, sem
    <2> QED BY <2>1, OthersKeep DEF IInv, Undispatched
<1>2. ASSUME NEW e \in Events, Schedule(e)
      PROVE  IInv'
    <2>1. TypeOK' /\ UNCHANGED <<pc, tries, result, row, received, sem>>
        BY <1>2 DEF IInv, TypeOK, Schedule, sem
    <2>2. Undispatched'
        BY <1>2 DEF IInv, TypeOK, Undispatched, Schedule
    <2> QED BY <2>1, <2>2, OthersKeep
<1> QED BY <1>1, <1>2 DEF Tenant

LEMMA DispatchFailsKeeps ==
    ASSUME IInv, NEW e \in Events, DispatchFails(e)
    PROVE  IInv'
<1>1. TypeOK' /\ UNCHANGED <<pc, tries, result, row, received, sem>>
    BY DEF IInv, TypeOK, DispatchFails, sem
<1>2. Undispatched'
    BY DEF IInv, TypeOK, Undispatched, DispatchFails
<1> QED BY <1>1, <1>2, OthersKeep

-----------------------------------------------------------------------------
(* The invariant *)

LEMMA InitIInv == Init => IInv
<1> SUFFICES ASSUME Init PROVE IInv
    OBVIOUS
<1>1. TypeOK
    BY DEF Init, TypeOK, Places
<1>2. \A d \in Deliveries : pc[d] = "none" /\ row[d] = "none" /\ result[d] = "none"
                            /\ tries[d] = 0
    BY DEF Init
<1>3. SlotsAccounted
    <2>1. Holders = {}
        BY <1>2 DEF Holders, Holding
    <2> QED BY <2>1, FS_EmptySet DEF Init, SlotsAccounted, Holders
<1>4. WaitersAccounted /\ NoLostWakeup
    BY <1>2 DEF Init, WaitersAccounted, NoLostWakeup
<1>5. Undispatched /\ RowsFollow /\ OutcomesTrue
    BY <1>2, DeliveryAssumption DEF Init, Undispatched, RowsFollow, OutcomesTrue
<1> QED BY <1>1, <1>3, <1>4, <1>5 DEF IInv

LEMMA NextIInv == IInv /\ [Next]_vars => IInv'
<1> SUFFICES ASSUME IInv, [Next]_vars PROVE IInv'
    OBVIOUS
<1>1. CASE Tenant
    BY <1>1, TenantKeeps
<1>2. ASSUME NEW e \in Events, Dispatch(e)
      PROVE  IInv'
    BY <1>2, DispatchKeeps
<1>3. ASSUME NEW e \in Events, DispatchFails(e)
      PROVE  IInv'
    BY <1>3, DispatchFailsKeeps
<1>4. ASSUME NEW d \in Deliveries, HoldingStep(d)
      PROVE  IInv'
    <2>1. Inner(d) /\ TypeOK' /\ RowsFollow' /\ OutcomesTrue'
        BY <1>4, HoldingStepIsInner, HoldingStepData DEF IInv
    <2>2. SemaphoreAccounted' /\ NoLostWakeup' /\ Undispatched'
        BY <2>1, InnerKeepsSemaphore DEF IInv, SemaphoreAccounted
    <2> QED BY <2>1, <2>2 DEF IInv, SemaphoreAccounted
<1>5. ASSUME NEW d \in Deliveries, Release(d)
      PROVE  IInv'
    BY <1>5, ReleaseKeeps
<1>6. ASSUME NEW d \in Deliveries, Resume(d)
      PROVE  IInv'
    BY <1>6, ResumeKeeps
<1>7. CASE Crash
    BY <1>7, CrashKeeps
<1>8. CASE UNCHANGED vars
    <2>1. UNCHANGED <<pc, tries, result, row, received, sem>> /\ TypeOK' /\ Undispatched'
        BY <1>8 DEF vars, sem, IInv, TypeOK, Undispatched
    <2> QED BY <2>1, OthersKeep
<1> QED
    BY <1>1, <1>2, <1>3, <1>4, <1>5, <1>6, <1>7, <1>8 DEF Next, Work, Run, HoldingStep

(* For any number of events, webhooks, slots and retries, with either        *)
(* backend: the semaphore, the log of deliveries and what the receivers      *)
(* accepted agree in every reachable state.                                  *)
THEOREM DeliveryInvariant == Spec => []IInv
<1>1. Init => IInv
    BY InitIInv
<1>2. IInv /\ [Next]_vars => IInv'
    BY NextIInv
<1> QED BY <1>1, <1>2, PTL DEF Spec

(* No slot leaks and none is given back twice; a delivery waits in one place. *)
THEOREM SemaphoreIsAccounted == Spec => []SemaphoreAccounted
<1>1. IInv => SemaphoreAccounted
    BY DEF IInv, SemaphoreAccounted
<1> QED BY <1>1, DeliveryInvariant, PTL

(* A release always hands its slot to a waiter when there is one: deliveries  *)
(* never wait beside a free slot that nobody was promised.                    *)
THEOREM WakeupsAreNotLost == Spec => []NoLostWakeup
<1>1. IInv => NoLostWakeup
    BY DEF IInv
<1> QED BY <1>1, DeliveryInvariant, PTL

(* webhook_deliveries never claims a success the receiver did not see, and    *)
(* nothing reaches a receiver without a row.                                  *)
THEOREM OutcomesAreTrue == Spec => []OutcomesTrue
<1>1. IInv => OutcomesTrue
    BY DEF IInv
<1> QED BY <1>1, DeliveryInvariant, PTL

-----------------------------------------------------------------------------
(* With PostgreSQL the configured limit holds: a woken waiter runs before    *)
(* the answer that another dispatch waits for is heard.                      *)

(* Slots in use and slots promised, together, within the limit. *)
Bounded == active + Cardinality(woken) <= MaxConcurrent

LEMMA NextBounded ==
    ASSUME SyncDb = FALSE, IInv, Bounded, [Next]_vars
    PROVE  Bounded'
<1>1. /\ active \in Nat /\ MaxConcurrent \in Nat
      /\ IsFiniteSet(woken) /\ Cardinality(woken) \in Nat /\ woken \subseteq Deliveries
    BY DeliveryAssumption, DeliveriesFinite DEF IInv, TypeOK
<1>2. ASSUME NEW e \in Events, Dispatch(e)
      PROVE  Bounded'
    <2>1. woken = {} /\ woken' = woken
        BY <1>2 DEF Dispatch, DbAnswers, NoMicrotasks
    <2>2. PICK ds \in Seq(Deliveries) : Acquire(ds)
        BY <1>2, DispatchAsks
    <2>3. PICK k \in Nat : k <= Free /\ active' = active + k
        <3>1. Len(ds) \in Nat
            BY <2>2
        <3> QED BY <2>2, <3>1, AcquireFacts DEF IInv
    <2>4. Cardinality(woken) = 0
        BY <2>1, FS_EmptySet
    <2> QED BY <1>1, <2>1, <2>3, <2>4 DEF Free, Bounded
<1>3. ASSUME NEW d \in Deliveries, Release(d)
      PROVE  Bounded'
    <2>1. active' = active - 1
        BY <1>3 DEF Release
    <2>2. CASE queue = <<>>
        BY <1>1, <1>3, <2>1, <2>2 DEF Release, Bounded
    <2>3. CASE queue # <<>>
        <3>1. woken' = woken \cup {Head(queue)}
            BY <1>3, <2>3 DEF Release
        <3>2. Cardinality(woken') <= Cardinality(woken) + 1 /\ Cardinality(woken') \in Nat
            <4> DEFINE first == Head(queue)
            <4>1. /\ IsFiniteSet(woken \cup {first})
                  /\ Cardinality(woken \cup {first})
                        = IF first \in woken THEN Cardinality(woken) ELSE Cardinality(woken) + 1
                BY <1>1, FS_AddElement
            <4> QED BY <1>1, <3>1, <4>1, FS_CardinalityType
        <3> QED BY <1>1, <2>1, <3>2 DEF Bounded
    <2> QED BY <2>2, <2>3
<1>4. ASSUME NEW d \in Deliveries, Resume(d)
      PROVE  Bounded'
    <2>1. d \in woken /\ woken' = woken \ {d} /\ active' = active + 1
        BY <1>4 DEF Resume
    <2>2. Cardinality(woken') = Cardinality(woken) - 1
        BY <1>1, <2>1, FS_RemoveElement
    <2> QED BY <1>1, <2>1, <2>2 DEF Bounded
<1>5. CASE Crash
    BY <1>1, <1>5, FS_EmptySet DEF Crash, Bounded
<1>6. ASSUME NEW d \in Deliveries, HoldingStep(d)
      PROVE  Bounded'
    <2>1. Inner(d)
        BY <1>6, HoldingStepIsInner DEF IInv
    <2> QED BY <2>1 DEF Inner, sem, Bounded
<1>7. CASE Tenant \/ (\E e \in Events : DispatchFails(e)) \/ UNCHANGED vars
    BY <1>7 DEF Tenant, Delete, Patch, Schedule, DispatchFails, vars, sem, Bounded
<1> QED
    BY <1>2, <1>3, <1>4, <1>5, <1>6, <1>7 DEF Next, Work, Run, HoldingStep

(* OPERATIONS.md, "max concurrent in-flight deliveries", with an asynchronous *)
(* backend: WEBHOOK_MAX_CONCURRENT is never exceeded, because no query is     *)
(* answered between a release and the resumption of the waiter it woke.       *)
THEOREM ConcurrencyIsBounded ==
    ASSUME SyncDb = FALSE
    PROVE  Spec => []ConcurrencyBounded
<1>1. Init => IInv /\ Bounded
    <2>1. Init => Bounded
        BY DeliveryAssumption, FS_EmptySet DEF Init, Bounded
    <2> QED BY <2>1, InitIInv
<1>2. (IInv /\ Bounded) /\ [Next]_vars => (IInv /\ Bounded)'
    BY NextIInv, NextBounded
<1>3. IInv /\ Bounded => ConcurrencyBounded
    <2> SUFFICES ASSUME IInv, Bounded PROVE ConcurrencyBounded
        OBVIOUS
    <2>1. active \in Nat /\ MaxConcurrent \in Nat /\ Cardinality(woken) \in Nat
        BY DeliveryAssumption, DeliveriesFinite DEF IInv, TypeOK
    <2> QED BY <2>1 DEF Bounded, ConcurrencyBounded
<1> QED BY <1>1, <1>2, <1>3, PTL DEF Spec
=============================================================================
