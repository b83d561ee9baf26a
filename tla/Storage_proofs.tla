--------------------------- MODULE Storage_proofs ---------------------------
(***************************************************************************)
(* Theorems of EventStore and of PgEventStore, for every value of their    *)
(* constants.                                                              *)
(***************************************************************************)
EXTENDS PgEventStore, FiniteSetTheorems, WellFoundedInduction, TLAPS

-----------------------------------------------------------------------------
(* EventStore *)

(* Every nonempty set of naturals has a least element. *)
LEMMA LeastNat ==
    ASSUME NEW T \in SUBSET Nat, T # {}
    PROVE  \E m \in T : \A x \in T : m <= x
<1> DEFINE R == OpToRel(<, Nat)
<1>1. IsWellFoundedOn(R, Nat)
    BY NatLessThanWellFounded
<1>2. PICK m \in T : \A x \in T : ~(<<x, m>> \in R)
    <2> HIDE DEF R
    <2> QED BY <1>1, WFMin
<1>3. ASSUME NEW x \in T
      PROVE  m <= x
    <2>1. x \in Nat /\ m \in Nat
        OBVIOUS
    <2>2. ~(x < m)
        BY <1>2, <2>1 DEF OpToRel
    <2> QED
        BY <2>1, <2>2
<1> QED
    BY <1>3

(* So a nonempty set of naturals below a bound has a greatest one. *)
LEMMA GreatestNat ==
    ASSUME NEW T \in SUBSET Nat, T # {},
           NEW b \in Nat, \A x \in T : x <= b
    PROVE  \E m \in T : \A x \in T : x <= m
<1> DEFINE D == {b - x : x \in T}
<1>1. D \in SUBSET Nat
    <2> SUFFICES ASSUME NEW x \in T
                 PROVE  b - x \in Nat
        OBVIOUS
    <2>1. x \in Nat /\ x <= b
        OBVIOUS
    <2> QED
        BY <2>1
<1>0. D # {}
    OBVIOUS
<1>2. PICK d \in D : \A y \in D : d <= y
    <2> HIDE DEF D
    <2> QED BY <1>1, <1>0, LeastNat
<1>3. PICK m \in T : d = b - m
    OBVIOUS
<1>4. \A x \in T : b - m <= b - x
    BY <1>2, <1>3
<1> QED
    BY <1>4

(* Min and Max of a nonempty bounded set of timestamps are what they say. *)
LEMMA MinOfTimes ==
    ASSUME NEW T \in SUBSET Nat, T # {}
    PROVE  Min(T) \in T /\ \A x \in T : Min(T) <= x
BY LeastNat DEF Min

LEMMA MaxOfTimes ==
    ASSUME NEW T \in SUBSET Nat, T # {},
           NEW b \in Nat, \A x \in T : x <= b
    PROVE  Max(T) \in T /\ \A x \in T : x <= Max(T)
BY GreatestNat DEF Max

(* Every stored time lies below some bound: finitely many were ever stored. *)
Bounded == \E b \in Nat : \A e \in events : e.time <= b

(* What an insert writes into the summary is a summary row. *)
LEMMA UpsertType ==
    ASSUME NEW row \in SessionRow \cup {NoRow}, NEW e \in Event
    PROVE  Upsert(row, e) \in SessionRow
<1>1. CASE row = NoRow
    BY <1>1 DEF Upsert, SessionRow, Event
<1>2. CASE row # NoRow
    <2> DEFINE last == IF e.time > row.updated_at THEN e.time ELSE row.updated_at
    <2>1. row \in SessionRow
        BY <1>2
    <2>2. last \in Times /\ row.event_count + 1 \in Nat
        BY <2>1 DEF SessionRow, Event
    <2>3. Upsert(row, e) = [row EXCEPT !.event_count = row.event_count + 1,
                                       !.updated_at = last]
        BY <1>2 DEF Upsert
    <2> HIDE DEF last
    <2> QED
        BY <2>1, <2>2, <2>3 DEF SessionRow
<1> QED
    BY <1>1, <1>2

(* What a prune recomputes from stored events is a summary row that agrees *)
(* with them and starts at one of them.                                     *)
LEMMA RecomputedAgrees ==
    ASSUME NEW row \in SessionRow,
           NEW evs \in SUBSET Event, IsFiniteSet(evs), evs # {},
           NEW b \in Nat, \A e \in evs : e.time <= b
    PROVE  /\ Recomputed(row, evs) \in SessionRow
           /\ Recomputed(row, evs).tenant = row.tenant
           /\ AgreesWith(Recomputed(row, evs), evs)
           /\ Recomputed(row, evs).started_at \in TimesOf(evs)
<1> DEFINE T == TimesOf(evs)
<1>1. T \in SUBSET Times /\ T \in SUBSET Nat
    BY StoreAssumption DEF TimesOf, Event
<1>2. T # {}
    BY DEF TimesOf
<1>3. \A x \in T : x <= b
    BY DEF TimesOf
<1>4. Min(T) \in T
    <2> HIDE DEF T
    <2> QED BY <1>1, <1>2, MinOfTimes
<1>5. Max(T) \in T /\ \A x \in T : x <= Max(T)
    <2> HIDE DEF T
    <2> QED BY <1>1, <1>2, <1>3, MaxOfTimes
<1>6. Cardinality(evs) \in Nat
    BY FS_CardinalityType
<1> DEFINE new == Recomputed(row, evs)
<1>7. new = [row EXCEPT !.event_count = Cardinality(evs),
                        !.started_at = Min(T), !.updated_at = Max(T)]
    BY DEF Recomputed
<1>8. /\ new \in SessionRow
      /\ new.tenant = row.tenant
      /\ new.event_count = Cardinality(evs)
      /\ new.started_at = Min(T)
      /\ new.updated_at = Max(T)
    <2> HIDE DEF T, new
    <2> QED BY <1>1, <1>4, <1>5, <1>6, <1>7 DEF SessionRow
<1>9. \A e \in evs : e.time \in T
    BY DEF TimesOf
<1> QED
    BY <1>4, <1>5, <1>8, <1>9 DEF AgreesWith

-----------------------------------------------------------------------------
(* How the events of a session change when one event is stored. *)
LEMMA EventsOfAdd ==
    ASSUME NEW evs, NEW e, NEW s, NEW t
    PROVE  EventsOf(evs \cup {e}, s, t) =
             IF e.session = s /\ e.tenant = t
             THEN EventsOf(evs, s, t) \cup {e}
             ELSE EventsOf(evs, s, t)
BY DEF EventsOf

(* An insert keeps a summary that agrees with its events in agreement. *)
LEMMA UpsertAgrees ==
    ASSUME NEW row \in SessionRow, NEW e \in Event,
           NEW evs \in SUBSET Event, IsFiniteSet(evs), e \notin evs,
           AgreesWith(row, evs)
    PROVE  /\ AgreesWith(Upsert(row, e), evs \cup {e})
           /\ Upsert(row, e).tenant = row.tenant
           /\ Upsert(row, e).started_at = row.started_at
<1> DEFINE last == IF e.time > row.updated_at THEN e.time ELSE row.updated_at
           all == evs \cup {e}
           new == Upsert(row, e)
<1>1. new = [row EXCEPT !.event_count = row.event_count + 1,
                        !.updated_at = last]
    BY StoreAssumption DEF Upsert
<1>2. /\ new.event_count = row.event_count + 1
      /\ new.updated_at = last
      /\ new.tenant = row.tenant
      /\ new.started_at = row.started_at
    <2> HIDE DEF last, new
    <2> QED BY <1>1 DEF SessionRow
<1>3. Cardinality(all) = row.event_count + 1
    BY FS_AddElement DEF AgreesWith
<1>4. last \in TimesOf(all)
    BY DEF AgreesWith, TimesOf
<1>5. \A f \in all : f.time <= last
    <2>1. \A f \in all : f.time \in Nat
        BY StoreAssumption DEF Event
    <2>2. row.updated_at \in Nat
        BY StoreAssumption DEF SessionRow
    <2>3. \A f \in evs : f.time <= row.updated_at
        BY DEF AgreesWith
    <2> QED
        BY <2>1, <2>2, <2>3
<1> HIDE DEF last, all, new
<1> QED
    <2>1. AgreesWith(new, all)
        BY <1>2, <1>3, <1>4, <1>5 DEF AgreesWith
    <2> QED
        BY <1>2, <2>1 DEF all, new

-----------------------------------------------------------------------------
StoreInv == IInv /\ Bounded

LEMMA InitInv == Init => StoreInv
<1> SUFFICES ASSUME Init PROVE StoreInv
    OBVIOUS
<1> USE DEF Init
<1>1. TypeOK /\ UniqueIds /\ Entitled /\ NoPhantomSummary
    BY DEF TypeOK, UniqueIds, Entitled, NoPhantomSummary
<1>2. IsFiniteSet(events)
    BY FS_EmptySet
<1>3. SummariesExact /\ StartedAtStored
    BY DEF SummariesExact, StartedAtStored
<1>4. Bounded
    <2>1. 0 \in Nat /\ \A e \in events : e.time <= 0
        OBVIOUS
    <2> QED BY <2>1 DEF Bounded
<1> QED
    BY <1>1, <1>2, <1>3, <1>4 DEF StoreInv, IInv

LEMMA StutterInv ==
    ASSUME StoreInv, UNCHANGED vars
    PROVE  StoreInv'
<1>1. events' = events /\ sessions' = sessions
    BY DEF vars
<1>2. IInv
    BY DEF StoreInv
<1>3. TypeOK' /\ IsFiniteSet(events)' /\ UniqueIds' /\ Entitled'
    BY <1>1, <1>2 DEF IInv, TypeOK, UniqueIds, Entitled
<1>4. NoPhantomSummary' /\ SummariesExact' /\ StartedAtStored'
    BY <1>1, <1>2, Zenon
       DEF IInv, NoPhantomSummary, SummariesExact, StartedAtStored
<1>5. Bounded'
    BY <1>1 DEF StoreInv, Bounded
<1> QED
    BY <1>3, <1>4, <1>5 DEF StoreInv, IInv

(* insertEvent keeps the invariant. *)
LEMMA InsertInv ==
    ASSUME StoreInv, NEW e \in Event, e.session \in MayUse[e.tenant],
           InsertEvent(e)
    PROVE  StoreInv'
<1> USE StoreAssumption
<1>1. CASE UNCHANGED vars
    BY <1>1, StutterInv
<1>2. CASE ~Stored(e.id) /\ ~UNCHANGED vars
    <2> DEFINE q == e.session
               new == Upsert(sessions[q], e)
    <2>1. /\ events' = events \cup {e}
          /\ sessions' = [sessions EXCEPT ![q] = new]
          /\ e \notin events
        BY <1>2 DEF InsertEvent, Stored
    <2>2. /\ events \subseteq Event
          /\ sessions \in [Sessions -> SessionRow \cup {NoRow}]
          /\ IsFiniteSet(events)
          /\ q \in Sessions
          /\ e.tenant \in Tenants
        BY DEF StoreInv, IInv, TypeOK, Event
    <2>3. new \in SessionRow /\ new # NoRow
        <3>1. sessions[q] \in SessionRow \cup {NoRow}
            BY <2>2
        <3> QED BY <3>1, UpsertType
    <2>4. /\ sessions'[q] = new
          /\ \A s \in Sessions : s # q => sessions'[s] = sessions[s]
        BY <2>1, <2>2
    <2>5. \A s, t : EventsOf(events', s, t) =
               IF q = s /\ e.tenant = t
               THEN EventsOf(events, s, t) \cup {e}
               ELSE EventsOf(events, s, t)
        BY <2>1 DEF EventsOf
    <2>6. new.tenant = IF sessions[q] = NoRow THEN e.tenant
                                              ELSE sessions[q].tenant
        <3>1. CASE sessions[q] = NoRow
            BY <3>1 DEF Upsert
        <3>2. CASE sessions[q] # NoRow
            BY <3>2, <2>2 DEF Upsert, SessionRow
        <3> QED BY <3>1, <3>2
    <2> HIDE DEF new
    <2>7. TypeOK'
        BY <2>1, <2>2, <2>3, <2>4 DEF TypeOK
    <2>8. IsFiniteSet(events)'
        BY <2>1, <2>2, FS_AddElement
    <2>9. UniqueIds'
        BY <1>2, <2>1 DEF StoreInv, IInv, UniqueIds, Stored
    <2>10. Entitled'
        <3>1. \A f \in events' : f.session \in MayUse[f.tenant]
            BY <2>1 DEF StoreInv, IInv, Entitled
        <3>2. \A s \in Sessions : sessions'[s] # NoRow
                 => s \in MayUse[sessions'[s].tenant]
            BY <2>2, <2>3, <2>4, <2>6 DEF StoreInv, IInv, Entitled
        <3> QED BY <3>1, <3>2 DEF Entitled
    <2>11. NoPhantomSummary'
        <3> SUFFICES ASSUME NEW s \in Sessions, sessions'[s] # NoRow
                     PROVE  EventsOf(events', s, sessions'[s].tenant) # {}
            BY DEF NoPhantomSummary
        <3>1. CASE sessions[s] # NoRow
            <4>1. sessions'[s].tenant = sessions[s].tenant
                BY <2>4, <2>6, <3>1
            <4>2. EventsOf(events, s, sessions[s].tenant) # {}
                BY <3>1 DEF StoreInv, IInv, NoPhantomSummary
            <4> QED BY <2>5, <4>1, <4>2
        <3>2. CASE sessions[s] = NoRow
            BY <2>4, <2>5, <2>6, <3>2
        <3> QED BY <3>1, <3>2
    <2>12. ASSUME NEW s \in Sessions, Exclusive(s)
           PROVE  /\ sessions'[s] = NoRow => \A f \in events' : f.session # s
                  /\ sessions'[s] # NoRow =>
                        LET evs == EventsOf(events', s, sessions'[s].tenant)
                        IN  /\ AgreesWith(sessions'[s], evs)
                            /\ \E f \in evs : f.time = sessions'[s].started_at
        <3>1. CASE s # q
            <4>1. /\ sessions'[s] = sessions[s]
                  /\ \A t : EventsOf(events', s, t) = EventsOf(events, s, t)
                BY <2>4, <2>5, <2>12, <3>1
            <4>2. CASE sessions[s] = NoRow
                <5>1. \A f \in events : f.session # s
                    BY <2>12, <4>2 DEF StoreInv, IInv, SummariesExact
                <5> QED BY <2>1, <3>1, <4>1, <4>2, <5>1
            <4>3. CASE sessions[s] # NoRow
                <5> DEFINE evs == EventsOf(events, s, sessions[s].tenant)
                <5>1. AgreesWith(sessions[s], evs)
                    BY <2>12, <4>3 DEF StoreInv, IInv, SummariesExact
                <5>2. \E f \in evs : f.time = sessions[s].started_at
                    BY <2>12, <4>3 DEF StoreInv, IInv, StartedAtStored, EventsOf
                <5> QED BY <4>1, <4>3, <5>1, <5>2
            <4> QED BY <4>2, <4>3
        <3>2. CASE s = q /\ sessions[q] = NoRow
            <4>1. EventsOf(events, q, e.tenant) = {}
                BY <2>12, <2>2, <3>2 DEF StoreInv, IInv, SummariesExact, EventsOf
            <4>2. /\ new = [tenant |-> e.tenant, event_count |-> 1,
                            started_at |-> e.time, updated_at |-> e.time]
                  /\ e.time \in Nat
                BY <3>2 DEF Upsert, new, Event
            <4>3. EventsOf(events', q, new.tenant) = {e}
                BY <2>5, <2>6, <3>2, <4>1
            <4>4. Cardinality({e}) = 1
                BY FS_Singleton
            <4>5. AgreesWith(new, {e}) /\ e.time = new.started_at
                BY <4>2, <4>4 DEF AgreesWith, TimesOf
            <4> QED BY <2>3, <2>4, <3>2, <4>3, <4>5
        <3>3. CASE s = q /\ sessions[q] # NoRow
            <4> DEFINE row == sessions[q]
                       old == EventsOf(events, q, row.tenant)
            <4>1. row \in SessionRow /\ row.tenant \in Tenants
                BY <2>2, <3>3 DEF SessionRow
            <4>2. row.tenant = e.tenant
                BY <2>12, <2>2, <3>3, <4>1
                    DEF StoreInv, IInv, Entitled, Exclusive
            <4>3. /\ AgreesWith(row, old)
                  /\ \E f \in old : f.time = row.started_at
                BY <2>12, <2>2, <3>3
                    DEF StoreInv, IInv, SummariesExact, StartedAtStored, EventsOf
            <4>4. old \in SUBSET Event /\ IsFiniteSet(old) /\ e \notin old
                BY <2>1, <2>2, FS_Subset DEF EventsOf
            <4>5. EventsOf(events', q, new.tenant) = old \cup {e}
                BY <2>5, <2>6, <3>3, <4>2
            <4>6. /\ AgreesWith(new, old \cup {e})
                  /\ new.started_at = row.started_at
                <5> HIDE DEF row, old
                <5>1. new = Upsert(row, e)
                    BY DEF new, row
                <5> QED BY <4>1, <4>3, <4>4, <5>1, UpsertAgrees
            <4> HIDE DEF old
            <4> QED BY <2>3, <2>4, <3>3, <4>3, <4>5, <4>6
        <3> QED BY <3>1, <3>2, <3>3
    <2>13. SummariesExact'
        BY <2>12 DEF SummariesExact, Exclusive
    <2>14. StartedAtStored'
        BY <2>12 DEF StartedAtStored, Exclusive, EventsOf
    <2>15. Bounded'
        <3>1. PICK b \in Nat : \A f \in events : f.time <= b
            BY DEF StoreInv, Bounded
        <3>2. e.time \in Nat /\ \A f \in events : f.time \in Nat
            BY <2>2 DEF Event
        <3> DEFINE c == b + e.time
        <3>3. c \in Nat /\ \A f \in events' : f.time <= c
            BY <2>1, <3>1, <3>2
        <3> HIDE DEF c
        <3> QED BY <3>3 DEF Bounded
    <2> QED
        BY <2>7, <2>8, <2>9, <2>10, <2>11, <2>13, <2>14, <2>15
            DEF StoreInv, IInv
<1> QED
    BY <1>1, <1>2 DEF InsertEvent

-----------------------------------------------------------------------------
(* What a prune does to each session, in terms of the old and new tables.  *)
LEMMA PruneEffect ==
    ASSUME TypeOK, NEW t \in Tenants, NEW cutoff \in Times,
           PruneEventsBefore(t, cutoff)
    PROVE  /\ events' \subseteq events
           /\ \A e \in events : e \notin events' <=> e.tenant = t /\ e.time < cutoff
           /\ \A s \in Sessions :
                 \/ sessions'[s] = sessions[s]
                    /\ \/ sessions[s] = NoRow
                       \/ sessions[s].tenant # t
                       \/ \A e \in events \ events' : e.session # s
                 \/ /\ sessions[s] # NoRow
                    /\ sessions[s].tenant = t
                    /\ \E e \in events \ events' : e.session = s
                    /\ EventsOf(events', s, t) = {}
                    /\ sessions'[s] = NoRow
                 \/ /\ sessions[s] # NoRow
                    /\ sessions[s].tenant = t
                    /\ \E e \in events \ events' : e.session = s
                    /\ EventsOf(events', s, t) # {}
                    /\ sessions'[s] =
                          Recomputed(sessions[s], EventsOf(events', s, t))
<1> DEFINE gone     == Expired(t, cutoff)
           affected == {e.session : e \in gone}
<1>1. events' = events \ gone
    BY DEF PruneEventsBefore
<1>2. gone = {e \in events : e.tenant = t /\ e.time < cutoff}
    BY DEF Expired
<1>3. \A s \in Sessions : sessions'[s] = Reconciled(s, t, affected, events')
    BY <1>1 DEF PruneEventsBefore
<1>4. events \ events' = gone
    BY <1>1, <1>2
<1>5. ASSUME NEW s \in Sessions
      PROVE  s \in affected <=> \E e \in events \ events' : e.session = s
    BY <1>4
<1> HIDE DEF gone, affected
<1>6. ASSUME NEW s \in Sessions
      PROVE  \/ sessions'[s] = sessions[s]
                /\ \/ sessions[s] = NoRow
                   \/ sessions[s].tenant # t
                   \/ \A e \in events \ events' : e.session # s
             \/ /\ sessions[s] # NoRow
                /\ sessions[s].tenant = t
                /\ \E e \in events \ events' : e.session = s
                /\ EventsOf(events', s, t) = {}
                /\ sessions'[s] = NoRow
             \/ /\ sessions[s] # NoRow
                /\ sessions[s].tenant = t
                /\ \E e \in events \ events' : e.session = s
                /\ EventsOf(events', s, t) # {}
                /\ sessions'[s] =
                      Recomputed(sessions[s], EventsOf(events', s, t))
    BY <1>3, <1>5 DEF Reconciled
<1> QED
    BY <1>1, <1>2, <1>6

(* pruneEventsBefore keeps the invariant. *)
LEMMA PruneInv ==
    ASSUME StoreInv, NEW t \in Tenants, NEW cutoff \in Times,
           PruneEventsBefore(t, cutoff)
    PROVE  StoreInv'
<1> USE StoreAssumption
<1>1. TypeOK
    BY DEF StoreInv, IInv
<1>2. /\ events \subseteq Event
      /\ sessions \in [Sessions -> SessionRow \cup {NoRow}]
      /\ IsFiniteSet(events)
      /\ events' \subseteq events
    BY <1>1, PruneEffect DEF StoreInv, IInv, TypeOK
<1>3. IsFiniteSet(events')
    BY <1>2, FS_Subset
<1>4. Bounded'
    BY <1>2 DEF StoreInv, Bounded
<1>5. PICK b \in Nat : \A e \in events' : e.time <= b
    BY <1>4 DEF Bounded
<1>6. ASSUME NEW s \in Sessions, sessions'[s] # NoRow,
             sessions'[s] # sessions[s]
      PROVE  LET evs == EventsOf(events', s, t)
             IN  /\ sessions[s] # NoRow
                 /\ sessions[s].tenant = t
                 /\ sessions'[s] \in SessionRow
                 /\ sessions'[s].tenant = t
                 /\ evs # {}
                 /\ AgreesWith(sessions'[s], evs)
                 /\ sessions'[s].started_at \in TimesOf(evs)
    <2> DEFINE evs == EventsOf(events', s, t)
    <2>1. /\ sessions[s] # NoRow
          /\ sessions[s].tenant = t
          /\ evs # {}
          /\ sessions'[s] = Recomputed(sessions[s], evs)
        BY <1>1, <1>6, PruneEffect
    <2>2. sessions[s] \in SessionRow
        BY <1>2, <2>1
    <2>3. evs \in SUBSET Event /\ IsFiniteSet(evs) /\ \A e \in evs : e.time <= b
        BY <1>2, <1>3, <1>5, FS_Subset DEF EventsOf
    <2> HIDE DEF evs
    <2>4. /\ Recomputed(sessions[s], evs) \in SessionRow
          /\ Recomputed(sessions[s], evs).tenant = sessions[s].tenant
          /\ AgreesWith(Recomputed(sessions[s], evs), evs)
          /\ Recomputed(sessions[s], evs).started_at \in TimesOf(evs)
        BY <2>1, <2>2, <2>3, RecomputedAgrees
    <2> QED BY <2>1, <2>4 DEF evs
<1>7. TypeOK'
    <2>1. sessions' \in [Sessions -> SessionRow \cup {NoRow}]
        <3>1. sessions' = [s \in Sessions |-> sessions'[s]]
            BY DEF PruneEventsBefore
        <3>2. \A s \in Sessions : sessions'[s] \in SessionRow \cup {NoRow}
            BY <1>2, <1>6
        <3> QED BY <3>1, <3>2
    <2> QED BY <1>2, <2>1 DEF TypeOK
<1>8. UniqueIds'
    BY <1>2 DEF StoreInv, IInv, UniqueIds
<1>9. ASSUME NEW s \in Sessions, sessions'[s] # NoRow
      PROVE  sessions[s] # NoRow /\ sessions'[s].tenant = sessions[s].tenant
    BY <1>6, <1>9
<1>10. Entitled'
    BY <1>2, <1>9 DEF StoreInv, IInv, Entitled
(* A row the prune left alone lost no event of its own. *)
<1>11. ASSUME NEW s \in Sessions, sessions'[s] # NoRow,
              sessions'[s] = sessions[s]
       PROVE  \/ EventsOf(events', s, sessions[s].tenant)
                     = EventsOf(events, s, sessions[s].tenant)
              \/ /\ AgreesWith(sessions'[s], EventsOf(events', s, t))
                 /\ sessions[s].tenant = t
                 /\ EventsOf(events', s, t) # {}
                 /\ sessions'[s].started_at \in TimesOf(EventsOf(events', s, t))
    <2> DEFINE u == sessions[s].tenant
               evs == EventsOf(events', s, t)
    <2>1. CASE u # t \/ \A e \in events \ events' : e.session # s
        <3>1. \A e \in events : e.session = s /\ e.tenant = u => e \in events'
            BY <1>1, <2>1, PruneEffect
        <3> QED BY <1>2, <3>1 DEF EventsOf
    <2>2. CASE /\ u = t
               /\ evs # {}
               /\ sessions'[s] = Recomputed(sessions[s], evs)
        <3>1. sessions[s] \in SessionRow
            BY <1>2, <1>11
        <3>2. evs \in SUBSET Event /\ IsFiniteSet(evs) /\ \A e \in evs : e.time <= b
            BY <1>2, <1>3, <1>5, FS_Subset DEF EventsOf
        <3> HIDE DEF evs
        <3>3. /\ AgreesWith(Recomputed(sessions[s], evs), evs)
              /\ Recomputed(sessions[s], evs).started_at \in TimesOf(evs)
            BY <2>2, <3>1, <3>2, RecomputedAgrees
        <3> QED BY <2>2, <3>3 DEF evs
    <2> QED BY <1>1, <1>11, <2>1, <2>2, PruneEffect
<1>12. NoPhantomSummary'
    <2> SUFFICES ASSUME NEW s \in Sessions, sessions'[s] # NoRow
                 PROVE  EventsOf(events', s, sessions'[s].tenant) # {}
        BY DEF NoPhantomSummary
    <2>1. CASE sessions'[s] = sessions[s]
        <3>1. EventsOf(events, s, sessions[s].tenant) # {}
            BY <2>1 DEF StoreInv, IInv, NoPhantomSummary
        <3> QED BY <1>11, <2>1, <3>1
    <2>2. CASE sessions'[s] # sessions[s]
        BY <1>6, <2>2
    <2> QED BY <2>1, <2>2
<1>13. SummariesExact'
    <2> SUFFICES ASSUME NEW s \in Sessions, Exclusive(s)
                 PROVE  IF sessions'[s] = NoRow
                        THEN \A e \in events' : e.session # s
                        ELSE AgreesWith(sessions'[s],
                               EventsOf(events', s, sessions'[s].tenant))
        BY DEF SummariesExact
    <2>1. CASE sessions'[s] # NoRow /\ sessions'[s] # sessions[s]
        BY <1>6, <2>1
    <2>2. CASE sessions'[s] # NoRow /\ sessions'[s] = sessions[s]
        <3>1. AgreesWith(sessions[s], EventsOf(events, s, sessions[s].tenant))
            BY <2>2 DEF StoreInv, IInv, SummariesExact
        <3> QED BY <1>11, <2>2, <3>1
    <2>3. CASE sessions'[s] = NoRow /\ sessions[s] = NoRow
        <3>1. \A e \in events : e.session # s
            BY <2>3 DEF StoreInv, IInv, SummariesExact
        <3> QED BY <1>2, <2>3, <3>1
    <2>4. CASE sessions'[s] = NoRow /\ sessions[s] # NoRow
        <3>1. sessions[s].tenant = t /\ EventsOf(events', s, t) = {}
            <4> DEFINE evs == EventsOf(events', s, t)
            <4>1. evs # {} => Recomputed(sessions[s], evs) # NoRow
                <5>1. evs \in SUBSET Event /\ IsFiniteSet(evs)
                        /\ \A e \in evs : e.time <= b
                    BY <1>2, <1>3, <1>5, FS_Subset DEF EventsOf
                <5>2. sessions[s] \in SessionRow
                    BY <1>2, <2>4
                <5> HIDE DEF evs
                <5>3. evs # {} => Recomputed(sessions[s], evs) \in SessionRow
                    BY <5>1, <5>2, RecomputedAgrees
                <5> QED BY <5>3
            <4> QED BY <1>1, <2>4, <4>1, PruneEffect
        <3>2. s \in MayUse[t]
            BY <2>4, <3>1 DEF StoreInv, IInv, Entitled
        <3>3. \A e \in events : e.session = s => e.tenant = t
            <4>1. \A e \in events : e.session \in MayUse[e.tenant] /\ e.tenant \in Tenants
                BY <1>2 DEF StoreInv, IInv, Entitled, Event
            <4> QED BY <3>2, <4>1 DEF Exclusive
        <3> QED BY <1>2, <2>4, <3>1, <3>3 DEF EventsOf
    <2> QED BY <2>1, <2>2, <2>3, <2>4
<1>14. StartedAtStored'
    <2> SUFFICES ASSUME NEW s \in Sessions, Exclusive(s), sessions'[s] # NoRow
                 PROVE  \E e \in EventsOf(events', s, sessions'[s].tenant) :
                           e.time = sessions'[s].started_at
        BY DEF StartedAtStored, EventsOf
    <2>1. CASE sessions'[s] # sessions[s]
        BY <1>6, <2>1 DEF TimesOf
    <2>2. CASE sessions'[s] = sessions[s]
        <3>1. \E e \in EventsOf(events, s, sessions[s].tenant) :
                 e.time = sessions[s].started_at
            BY <2>2 DEF StoreInv, IInv, StartedAtStored, EventsOf
        <3> QED BY <1>11, <2>2, <3>1 DEF TimesOf
    <2> QED BY <2>1, <2>2
<1> QED
    BY <1>3, <1>4, <1>7, <1>8, <1>10, <1>12, <1>13, <1>14 DEF StoreInv, IInv

-----------------------------------------------------------------------------
(* Every reachable state satisfies the inductive invariant. *)
THEOREM StrongInvariant == Spec => []StoreInv
<1>1. Init => StoreInv
    BY InitInv
<1>2. StoreInv /\ [Next]_vars => StoreInv'
    <2> SUFFICES ASSUME StoreInv, [Next]_vars
                 PROVE  StoreInv'
        OBVIOUS
    <2>1. CASE Ingest
        BY <2>1, InsertInv DEF Ingest
    <2>2. CASE Prune
        BY <2>2, PruneInv DEF Prune
    <2>3. CASE UNCHANGED vars
        BY <2>3, StutterInv
    <2> QED
        BY <2>1, <2>2, <2>3 DEF Next
<1> QED
    BY <1>1, <1>2, PTL DEF Spec

(* The invariant the runs check holds in every reachable state.            *)
THEOREM StoreInvariant == Spec => []IInv
<1>1. StoreInv => IInv
    BY DEF StoreInv
<1> QED
    BY <1>1, StrongInvariant, PTL

(* insertEvent and pruneEventsBefore only ever write rows of the columns'  *)
(* types; in particular a prune never computes an aggregate of no events.  *)
THEOREM TypeCorrect == Spec => []TypeOK
<1>1. StoreInv => TypeOK
    BY DEF StoreInv, IInv
<1> QED
    BY <1>1, StrongInvariant, PTL

(* A session summary always equals what its stored events call for. *)
THEOREM SummariesAlwaysExact == Spec => []SummariesExact
<1>1. StoreInv => SummariesExact
    BY DEF StoreInv, IInv
<1> QED
    BY <1>1, StrongInvariant, PTL

(* started_at is always the time of an event that is still stored. *)
THEOREM StartedAtAlwaysStored == Spec => []StartedAtStored
<1>1. StoreInv => StartedAtStored
    BY DEF StoreInv, IInv
<1> QED
    BY <1>1, StrongInvariant, PTL

(* No session row is without an event of its tenant, shared ids included. *)
THEOREM NeverAPhantom == Spec => []NoPhantomSummary
<1>1. StoreInv => NoPhantomSummary
    BY DEF StoreInv, IInv
<1> QED
    BY <1>1, StrongInvariant, PTL

(* A step that stores or deletes nothing of a session leaves its summary. *)
THEOREM OnlyOwnEvents == Spec => OnlyOwnEventsMoveASummary
<1> DEFINE A == \A s \in Sessions : sessions'[s] # sessions[s] =>
                   \E e \in (events' \ events) \cup (events \ events') :
                       e.session = s
<1>1. StoreInv /\ [Next]_vars => [A]_vars
    <2> SUFFICES ASSUME StoreInv, Next, NEW s \in Sessions,
                        sessions'[s] # sessions[s]
                 PROVE  \E e \in (events' \ events) \cup (events \ events') :
                           e.session = s
        OBVIOUS
    <2>1. TypeOK
        BY DEF StoreInv, IInv
    <2>2. CASE Ingest
        <3>1. PICK e \in Event : InsertEvent(e)
            BY <2>2 DEF Ingest
        <3>2. /\ events' = events \cup {e}
              /\ e \notin events
              /\ sessions' = [sessions EXCEPT
                                  ![e.session] = Upsert(sessions[e.session], e)]
            BY <3>1 DEF InsertEvent, Stored, vars
        <3>3. e.session = s
            BY <2>1, <3>2 DEF TypeOK
        <3> QED BY <3>2, <3>3
    <2>3. CASE Prune
        <3>1. PICK t \in Tenants, cutoff \in Times : PruneEventsBefore(t, cutoff)
            BY <2>3 DEF Prune
        <3> QED BY <2>1, <3>1, PruneEffect
    <2> QED BY <2>2, <2>3 DEF Next
<1>2. StoreInv /\ [Next]_vars /\ StoreInv' => [A]_vars
    BY <1>1
<1> QED
    BY <1>2, StrongInvariant, PTL DEF Spec, OnlyOwnEventsMoveASummary

(* The last-activity time of an exclusive session never moves backwards: a *)
(* prune that spares any event of the session spares its latest one.       *)
THEOREM LastActivityNeverBack == Spec => LastActivityAdvances
<1> DEFINE A == \A s \in Sessions :
                   Exclusive(s) /\ sessions[s] # NoRow /\ sessions'[s] # NoRow
                   => sessions'[s].updated_at >= sessions[s].updated_at
<1>1. StoreInv /\ StoreInv' /\ Next => A
    <2> SUFFICES ASSUME StoreInv, StoreInv', Next,
                        NEW s \in Sessions, Exclusive(s),
                        sessions[s] # NoRow, sessions'[s] # NoRow
                 PROVE  sessions'[s].updated_at >= sessions[s].updated_at
        OBVIOUS
    <2> USE StoreAssumption
    <2> DEFINE row == sessions[s]
               new == sessions'[s]
               old == EventsOf(events, s, row.tenant)
               now == EventsOf(events', s, new.tenant)
    <2>1. TypeOK /\ TypeOK'
        BY DEF StoreInv, IInv
    <2>2. /\ row \in SessionRow /\ row.updated_at \in Nat
          /\ new \in SessionRow /\ new.updated_at \in Nat
        BY <2>1 DEF TypeOK, SessionRow
    <2>3. AgreesWith(row, old) /\ AgreesWith(new, now)
        BY DEF StoreInv, IInv, SummariesExact
    <2>4. PICK e0 \in old : e0.time = row.updated_at
        BY <2>3 DEF AgreesWith, TimesOf
    <2>5. /\ e0 \in events /\ e0.session = s /\ e0.tenant = row.tenant
          /\ row.tenant \in Tenants
        BY <2>1, <2>2 DEF EventsOf, SessionRow
    <2>6. \A e \in old : e.time <= e0.time
        BY <2>3, <2>4 DEF AgreesWith
    <2>7. new.tenant = row.tenant
        <3>1. s \in MayUse[row.tenant] /\ s \in MayUse[new.tenant]
            BY DEF StoreInv, IInv, Entitled
        <3>2. new.tenant \in Tenants
            BY <2>2 DEF SessionRow
        <3> QED BY <2>5, <3>1, <3>2 DEF Exclusive
    <2>8. e0 \in events'
        <3>1. CASE Ingest
            BY <2>5, <3>1 DEF Ingest, InsertEvent, vars
        <3>2. CASE Prune
            <4>1. PICK t \in Tenants, cutoff \in Times : PruneEventsBefore(t, cutoff)
                BY <3>2 DEF Prune
            <4>2. /\ events' \subseteq events
                  /\ \A e \in events :
                        e \notin events' <=> e.tenant = t /\ e.time < cutoff
                BY <2>1, <4>1, PruneEffect
            <4>3. PICK e1 \in now : TRUE
                BY <2>3 DEF AgreesWith, TimesOf
            <4>4. e1 \in events' /\ e1 \in old /\ e1.tenant = row.tenant
                BY <2>7, <4>2 DEF EventsOf
            <4>5. e1.time \in Nat /\ e0.time \in Nat /\ cutoff \in Nat
                BY <2>1, <2>5, <4>2, <4>4 DEF TypeOK, Event
            <4>6. e1.time <= e0.time
                BY <2>6, <4>4
            <4> QED BY <2>5, <4>2, <4>4, <4>5, <4>6
        <3> QED BY <3>1, <3>2 DEF Next
    <2>9. e0 \in now
        BY <2>5, <2>7, <2>8 DEF EventsOf
    <2>10. e0.time <= new.updated_at
        BY <2>3, <2>9 DEF AgreesWith
    <2> QED
        BY <2>2, <2>4, <2>10
<1>2. StoreInv /\ StoreInv' /\ [Next]_vars => [A]_vars
    BY <1>1
<1> QED
    BY <1>2, StrongInvariant, PTL DEF Spec, LastActivityAdvances

(* An event id names one stored event, under every history of              *)
(* resubmissions and prunes.                                               *)
THEOREM IdsStayUnique == Spec => []UniqueIds
<1>1. StoreInv => UniqueIds
    BY DEF StoreInv, IInv
<1> QED
    BY <1>1, StrongInvariant, PTL

-----------------------------------------------------------------------------
(* PgEventStore *)

(* The times of a set of events lie below a bound: it is finite. *)
BoundedTimes(evs) == \E b \in Nat : \A e \in evs : e.time <= b

(* What the proofs need besides PgIInv: the aggregates of a recount are of  *)
(* finitely many events.                                                    *)
PgInv ==
    /\ PgIInv
    /\ IsFiniteSet(events)
    /\ BoundedTimes(events)
    /\ prune.pc = "recomputing" => IsFiniteSet(prune.left) /\ BoundedTimes(prune.left)

-----------------------------------------------------------------------------
(* The open insert transactions, by the statement they are at. *)
LEMMA InsertFields ==
    ASSUME ins \in [Workers -> InsertTransaction], NEW w \in Workers
    PROVE  /\ ins[w] # Idle => ins[w].event \in Event
           /\ ins[w].pc \in {"idle", "begun", "inserted", "upserted"}
           /\ ins[w].pc = "idle" <=> ins[w] = Idle
           /\ ins[w].pc \in {"begun", "inserted"} =>
                 ins[w] \in [pc : {"begun", "inserted"}, event : Event]
           /\ ins[w].pc = "upserted" =>
                 ins[w] \in [pc : {"upserted"}, event : Event, row : SessionRow]
<1>1. ins[w] \in InsertTransaction
    OBVIOUS
<1> QED
    BY <1>1 DEF InsertTransaction, Idle

(* The prune's transaction, by the statement it is at. *)
LEMMA PruneFields ==
    ASSUME PruneTypeOK
    PROVE  /\ prune.pc \in {"idle", "selected", "deleted", "emptying", "recomputing"}
           /\ prune.pc = "idle" <=> prune = Idle
           /\ prune.pc = "selected" =>
                 prune \in [pc : {"selected"}, tenant : Tenants, cutoff : Cutoffs,
                            affected : SUBSET Sessions]
           /\ prune.pc = "deleted" =>
                 prune \in [pc : {"deleted"}, tenant : Tenants,
                            affected : SUBSET Sessions, gone : SUBSET Event]
           /\ prune.pc = "emptying" =>
                 prune \in [pc : {"emptying"}, tenant : Tenants,
                            affected : SUBSET Sessions, gone : SUBSET Event,
                            todo : SUBSET Sessions, rows : Written]
           /\ prune.pc = "recomputing" =>
                 prune \in [pc : {"recomputing"}, tenant : Tenants,
                            gone : SUBSET Event, rows : Written,
                            todo : SUBSET Sessions, left : SUBSET Event]
BY DEF PruneTypeOK, Idle

(* What a transaction gives up at its end, and what it leaves alone. *)
LEMMA UnlockEffect ==
    ASSUME lock \in [Sessions -> Workers \cup {Pruner, Nobody}], NEW p, Unlock(p)
    PROVE  /\ lock' \in [Sessions -> Workers \cup {Pruner, Nobody}]
           /\ \A s \in Sessions : lock[s] # p => lock'[s] = lock[s]
BY DEF Unlock

-----------------------------------------------------------------------------
LEMMA PgInitInv == PgInit => PgInv
<1> SUFFICES ASSUME PgInit PROVE PgInv
    OBVIOUS
<1>1. events = {} /\ sessions \in [Sessions -> SessionRow \cup {NoRow}]
    BY DEF PgInit, Init
<1>2. PgTypeOK
    BY <1>1 DEF PgInit, PgTypeOK, TypeOK, InsertTransaction, PruneTypeOK, Idle
<1>3. ins \in [Workers -> InsertTransaction] /\ \A w \in Workers : ins[w] = Idle
    BY <1>2 DEF PgTypeOK, PgInit
<1>4. InsertsIsolated /\ EmittersEntitled
    BY <1>3 DEF InsertsIsolated, EmittersEntitled, Inserting, Idle
<1>5. PruneLocks /\ prune.pc = "idle"
    BY DEF PgInit, PruneLocks, Idle
<1>6. UniqueIds /\ BoundedTimes(events) /\ IsFiniteSet(events)
    BY <1>1, FS_EmptySet DEF UniqueIds, BoundedTimes
<1> QED
    BY <1>2, <1>4, <1>5, <1>6 DEF PgInv, PgIInv

-----------------------------------------------------------------------------
(* The steps of an insertEvent transaction. *)

LEMMA BeginInv ==
    ASSUME PgInv, NEW w \in Workers, NEW e \in Event, Begin(w, e)
    PROVE  PgInv'
<1>1. ins \in [Workers -> InsertTransaction]
    BY DEF PgInv, PgIInv, PgTypeOK
<1>2. /\ ins' \in [Workers -> InsertTransaction]
      /\ ins'[w] = [pc |-> "begun", event |-> e]
      /\ \A v \in Workers : v # w => ins'[v] = ins[v]
    BY <1>1 DEF Begin, InsertTransaction
<1>3. PgTypeOK'
    BY <1>2 DEF Begin, PgInv, PgIInv, PgTypeOK, TypeOK, PruneTypeOK
<1>4. InsertsIsolated'
    BY <1>2 DEF Begin, PgInv, PgIInv, InsertsIsolated, Inserting, Stored
<1>5. EmittersEntitled'
    BY <1>2 DEF Begin, PgInv, PgIInv, EmittersEntitled, Idle
<1>6. PruneLocks' /\ UniqueIds'
    BY DEF Begin, PgInv, PgIInv, PruneLocks, UniqueIds
<1> QED
    BY <1>3, <1>4, <1>5, <1>6 DEF Begin, PgInv, PgIInv, BoundedTimes

LEMMA InsertRowInv ==
    ASSUME PgInv, NEW w \in Workers, InsertRow(w)
    PROVE  PgInv'
<1>1. ins \in [Workers -> InsertTransaction]
    BY DEF PgInv, PgIInv, PgTypeOK
<1>2. ins[w] \in [pc : {"begun", "inserted"}, event : Event] /\ ins[w].pc = "begun"
    BY <1>1, InsertFields DEF InsertRow
<1>3. /\ ins'[w] = [ins[w] EXCEPT !.pc = "inserted"]
      /\ \A v \in Workers : v # w => ins'[v] = ins[v]
    BY <1>1 DEF InsertRow
<1>4. /\ ins'[w] \in [pc : {"begun", "inserted"}, event : Event]
      /\ ins'[w].pc = "inserted"
      /\ ins'[w].event = ins[w].event
    BY <1>2, <1>3
<1>5. ins' \in [Workers -> InsertTransaction]
    BY <1>1, <1>4 DEF InsertRow, InsertTransaction
<1>6. PgTypeOK'
    BY <1>5 DEF InsertRow, PgInv, PgIInv, PgTypeOK, TypeOK, PruneTypeOK
<1>7. \A v \in Workers : v # w /\ Inserting(v) => ins[v].event.id # ins[w].event.id
    BY DEF InsertRow, IdPending, Inserting
<1>8. InsertsIsolated'
    BY <1>3, <1>4, <1>7 DEF InsertRow, PgInv, PgIInv, InsertsIsolated, Inserting, Stored
<1>9. EmittersEntitled'
    BY <1>2, <1>3, <1>4 DEF InsertRow, PgInv, PgIInv, EmittersEntitled, Idle
<1>10. PruneLocks' /\ UniqueIds'
    BY DEF InsertRow, PgInv, PgIInv, PruneLocks, UniqueIds
<1> QED
    BY <1>6, <1>8, <1>9, <1>10 DEF InsertRow, PgInv, PgIInv, BoundedTimes

LEMMA AnswerDuplicateInv ==
    ASSUME PgInv, NEW w \in Workers, AnswerDuplicate(w)
    PROVE  PgInv'
<1>1. ins \in [Workers -> InsertTransaction]
    BY DEF PgInv, PgIInv, PgTypeOK
<1>2. /\ ins' \in [Workers -> InsertTransaction]
      /\ ins'[w] = Idle
      /\ \A v \in Workers : v # w => ins'[v] = ins[v]
    BY <1>1 DEF AnswerDuplicate, InsertTransaction, Idle
<1>3. ins[w].event.id \in Ids
    BY <1>1, InsertFields DEF AnswerDuplicate, Event
<1>4. PgTypeOK'
    BY <1>2, <1>3 DEF AnswerDuplicate, PgInv, PgIInv, PgTypeOK, TypeOK, PruneTypeOK
<1>5. InsertsIsolated'
    BY <1>2 DEF AnswerDuplicate, PgInv, PgIInv, InsertsIsolated, Inserting, Stored, Idle
<1>6. EmittersEntitled'
    BY <1>2 DEF AnswerDuplicate, PgInv, PgIInv, EmittersEntitled
<1>7. PruneLocks' /\ UniqueIds'
    BY DEF AnswerDuplicate, PgInv, PgIInv, PruneLocks, UniqueIds
<1> QED
    BY <1>4, <1>5, <1>6, <1>7 DEF AnswerDuplicate, PgInv, PgIInv, BoundedTimes

LEMMA UpsertSessionInv ==
    ASSUME PgInv, NEW w \in Workers, UpsertSession(w)
    PROVE  PgInv'
<1> DEFINE e == ins[w].event
           row == Upsert(sessions[e.session], e)
<1>1. /\ ins \in [Workers -> InsertTransaction]
      /\ lock \in [Sessions -> Workers \cup {Pruner, Nobody}]
      /\ sessions \in [Sessions -> SessionRow \cup {NoRow}]
    BY DEF PgInv, PgIInv, PgTypeOK, TypeOK
<1>2. /\ ins[w].pc = "inserted" /\ ins[w] # Idle
      /\ e \in Event /\ e.session \in Sessions
    BY <1>1, InsertFields DEF UpsertSession, Event, Idle
<1>3. row \in SessionRow
    BY <1>1, <1>2, UpsertType
<1>4. /\ ins'[w] = [pc |-> "upserted", event |-> e, row |-> row]
      /\ \A v \in Workers : v # w => ins'[v] = ins[v]
      /\ ins' \in [Workers -> InsertTransaction]
    BY <1>1, <1>2, <1>3 DEF UpsertSession, InsertTransaction
<1>5. /\ lock[e.session] = Nobody
      /\ lock' = [lock EXCEPT ![e.session] = w]
      /\ lock' \in [Sessions -> Workers \cup {Pruner, Nobody}]
      /\ UNCHANGED <<events, sessions, prune, answered, expunged>>
    BY <1>1 DEF UpsertSession
<1>6. PgTypeOK'
    BY <1>4, <1>5 DEF PgInv, PgIInv, PgTypeOK, TypeOK, PruneTypeOK
<1>7. \A v \in Workers : Inserting(v)' <=> Inserting(v)
    BY <1>2, <1>4 DEF Inserting
<1>8. \A s \in Sessions : lock[s] # Nobody => lock'[s] = lock[s]
    BY <1>1, <1>5
<1> HIDE DEF row
<1>9. InsertsIsolated'
    <2> SUFFICES ASSUME NEW v \in Workers, Inserting(v)'
                 PROVE  /\ ~Stored(ins[v].event.id)'
                        /\ \A u \in Workers : Inserting(u)' /\ ins'[u].event.id = ins'[v].event.id => u = v
                        /\ ins'[v].pc = "upserted" =>
                              /\ lock'[ins'[v].event.session] = v
                              /\ ins'[v].row = Upsert(sessions'[ins'[v].event.session], ins'[v].event)
        BY DEF InsertsIsolated
    <2>1. Inserting(v) /\ \A u \in Workers : ins'[u].event = ins[u].event
        BY <1>4, <1>7
    <2>2. ~Stored(ins[v].event.id)'
        BY <1>5, <2>1 DEF PgInv, PgIInv, InsertsIsolated, Stored
    <2>3. \A u \in Workers : Inserting(u)' /\ ins'[u].event.id = ins'[v].event.id => u = v
        BY <1>7, <2>1 DEF PgInv, PgIInv, InsertsIsolated
    <2>4. CASE v = w
        <3>1. /\ ins'[v].event = e
              /\ ins'[v].row = row
              /\ lock'[e.session] = v
            BY <1>1, <1>2, <1>4, <1>5, <2>4
        <3> QED BY <1>5, <2>2, <2>3, <3>1 DEF row
    <2>5. CASE v # w /\ ins[v].pc = "upserted"
        <3>1. /\ ins[v].event.session \in Sessions
              /\ lock[ins[v].event.session] = v
              /\ ins[v].row = Upsert(sessions[ins[v].event.session], ins[v].event)
            BY <1>1, <2>1, <2>5, InsertFields DEF PgInv, PgIInv, InsertsIsolated, Event
        <3>2. lock'[ins[v].event.session] = v
            BY <1>8, <3>1, PgAssumption
        <3> QED BY <1>4, <1>5, <2>2, <2>3, <2>5, <3>1, <3>2
    <2> QED BY <1>4, <2>2, <2>3, <2>4, <2>5
<1>10. EmittersEntitled'
    BY <1>2, <1>4 DEF PgInv, PgIInv, EmittersEntitled
<1>11. PruneLocks'
    BY <1>5, <1>8, PgAssumption DEF PgInv, PgIInv, PruneLocks
<1>12. UniqueIds'
    BY <1>5 DEF PgInv, PgIInv, UniqueIds
<1> QED
    BY <1>5, <1>6, <1>9, <1>10, <1>11, <1>12 DEF PgInv, PgIInv, BoundedTimes

LEMMA AbortInsertInv ==
    ASSUME PgInv, NEW w \in Workers, AbortInsert(w)
    PROVE  PgInv'
<1>1. /\ ins \in [Workers -> InsertTransaction]
      /\ lock \in [Sessions -> Workers \cup {Pruner, Nobody}]
      /\ Unlock(w)
      /\ UNCHANGED <<events, sessions, prune, answered, expunged>>
    BY DEF AbortInsert, PgInv, PgIInv, PgTypeOK
<1>2. /\ ins' \in [Workers -> InsertTransaction]
      /\ ins'[w] = Idle
      /\ \A v \in Workers : v # w => ins'[v] = ins[v]
    BY <1>1 DEF AbortInsert, InsertTransaction, Idle
<1>3. /\ lock' \in [Sessions -> Workers \cup {Pruner, Nobody}]
      /\ \A s \in Sessions : lock[s] # w => lock'[s] = lock[s]
    BY <1>1, UnlockEffect
<1>4. PgTypeOK'
    BY <1>1, <1>2, <1>3 DEF PgInv, PgIInv, PgTypeOK, TypeOK, PruneTypeOK
<1>5. InsertsIsolated'
    <2> SUFFICES ASSUME NEW v \in Workers, Inserting(v)'
                 PROVE  /\ ~Stored(ins[v].event.id)'
                        /\ \A u \in Workers : Inserting(u)' /\ ins'[u].event.id = ins'[v].event.id => u = v
                        /\ ins'[v].pc = "upserted" =>
                              /\ lock'[ins'[v].event.session] = v
                              /\ ins'[v].row = Upsert(sessions'[ins'[v].event.session], ins'[v].event)
        BY DEF InsertsIsolated
    <2>1. v # w /\ ins'[v] = ins[v] /\ Inserting(v)
        BY <1>2 DEF Inserting, Idle
    <2>2. ~Stored(ins[v].event.id)'
        BY <1>1, <2>1 DEF PgInv, PgIInv, InsertsIsolated, Stored
    <2>3. \A u \in Workers : Inserting(u)' /\ ins'[u].event.id = ins'[v].event.id => u = v
        BY <1>2, <2>1 DEF PgInv, PgIInv, InsertsIsolated, Inserting, Idle
    <2>4. ASSUME ins[v].pc = "upserted"
          PROVE  /\ lock'[ins'[v].event.session] = v
                 /\ ins'[v].row = Upsert(sessions'[ins'[v].event.session], ins'[v].event)
        <3>1. /\ ins[v].event.session \in Sessions
              /\ lock[ins[v].event.session] = v
              /\ ins[v].row = Upsert(sessions[ins[v].event.session], ins[v].event)
            BY <1>1, <2>1, <2>4, InsertFields DEF PgInv, PgIInv, InsertsIsolated, Event
        <3> QED BY <1>1, <1>3, <2>1, <3>1
    <2> QED BY <2>1, <2>2, <2>3, <2>4
<1>6. EmittersEntitled'
    BY <1>2 DEF PgInv, PgIInv, EmittersEntitled
<1>7. PruneLocks'
    BY <1>1, <1>3, PgAssumption DEF PgInv, PgIInv, PruneLocks
<1>8. UniqueIds'
    BY <1>1 DEF PgInv, PgIInv, UniqueIds
<1> QED
    BY <1>1, <1>4, <1>5, <1>6, <1>7, <1>8 DEF PgInv, PgIInv, BoundedTimes

LEMMA CommitInsertInv ==
    ASSUME PgInv, NEW w \in Workers, CommitInsert(w)
    PROVE  PgInv'
<1> DEFINE e == ins[w].event
           row == ins[w].row
<1>1. /\ ins \in [Workers -> InsertTransaction]
      /\ lock \in [Sessions -> Workers \cup {Pruner, Nobody}]
      /\ events \in SUBSET Event
      /\ sessions \in [Sessions -> SessionRow \cup {NoRow}]
    BY DEF PgInv, PgIInv, PgTypeOK, TypeOK
<1>2. /\ ins[w].pc = "upserted"
      /\ Unlock(w)
      /\ events' = events \cup {e}
      /\ sessions' = [sessions EXCEPT ![e.session] = row]
      /\ answered' = answered \cup {e.id}
      /\ UNCHANGED <<prune, expunged>>
    BY DEF CommitInsert
<1>3. /\ e \in Event /\ row \in SessionRow
      /\ e.id \in Ids /\ e.session \in Sessions /\ e.time \in Nat
    BY <1>1, <1>2, InsertFields, StoreAssumption DEF Event
<1>4. Inserting(w) /\ ~Stored(e.id) /\ lock[e.session] = w
    BY <1>2 DEF Inserting, PgInv, PgIInv, InsertsIsolated
<1>5. /\ ins' \in [Workers -> InsertTransaction]
      /\ ins'[w] = Idle
      /\ \A v \in Workers : v # w => ins'[v] = ins[v]
    BY <1>1 DEF CommitInsert, InsertTransaction, Idle
<1>6. /\ lock' \in [Sessions -> Workers \cup {Pruner, Nobody}]
      /\ \A s \in Sessions : lock[s] # w => lock'[s] = lock[s]
    BY <1>1, <1>2, UnlockEffect
<1>7. /\ sessions' \in [Sessions -> SessionRow \cup {NoRow}]
      /\ sessions'[e.session] = row
      /\ \A s \in Sessions : s # e.session => sessions'[s] = sessions[s]
    BY <1>1, <1>2, <1>3
<1>8. PgTypeOK'
    BY <1>1, <1>2, <1>3, <1>5, <1>6, <1>7 DEF PgInv, PgIInv, PgTypeOK, TypeOK, PruneTypeOK
<1> HIDE DEF e, row
<1>9. InsertsIsolated'
    <2> SUFFICES ASSUME NEW v \in Workers, Inserting(v)'
                 PROVE  /\ ~Stored(ins[v].event.id)'
                        /\ \A u \in Workers : Inserting(u)' /\ ins'[u].event.id = ins'[v].event.id => u = v
                        /\ ins'[v].pc = "upserted" =>
                              /\ lock'[ins'[v].event.session] = v
                              /\ ins'[v].row = Upsert(sessions'[ins'[v].event.session], ins'[v].event)
        BY DEF InsertsIsolated
    <2>1. v # w /\ ins'[v] = ins[v] /\ Inserting(v)
        BY <1>5 DEF Inserting, Idle
    <2>2. /\ ~Stored(ins[v].event.id)
          /\ ins[v].event.id # e.id
        BY <1>4, <2>1 DEF PgInv, PgIInv, InsertsIsolated, e
    <2>3. ~Stored(ins[v].event.id)'
        BY <1>2, <2>1, <2>2 DEF Stored
    <2>4. \A u \in Workers : Inserting(u)' /\ ins'[u].event.id = ins'[v].event.id => u = v
        BY <1>5, <2>1 DEF PgInv, PgIInv, InsertsIsolated, Inserting, Idle
    <2>5. ASSUME ins[v].pc = "upserted"
          PROVE  /\ lock'[ins'[v].event.session] = v
                 /\ ins'[v].row = Upsert(sessions'[ins'[v].event.session], ins'[v].event)
        <3>1. /\ ins[v].event.session \in Sessions
              /\ lock[ins[v].event.session] = v
              /\ ins[v].row = Upsert(sessions[ins[v].event.session], ins[v].event)
            BY <1>1, <2>1, <2>5, InsertFields DEF PgInv, PgIInv, InsertsIsolated, Event
        <3>2. ins[v].event.session # e.session
            BY <1>4, <2>1, <3>1
        <3> QED BY <1>6, <1>7, <2>1, <3>1, <3>2
    <2> QED BY <2>1, <2>3, <2>4, <2>5
<1>10. EmittersEntitled'
    BY <1>5 DEF PgInv, PgIInv, EmittersEntitled
<1>11. PruneLocks'
    BY <1>2, <1>3, <1>6, <1>7, StoreAssumption, PgAssumption DEF PgInv, PgIInv, PruneLocks, PgTypeOK, PruneTypeOK
<1>12. UniqueIds'
    BY <1>2, <1>4 DEF PgInv, PgIInv, UniqueIds, Stored
<1>13. IsFiniteSet(events')
    BY <1>2, FS_AddElement DEF PgInv
<1>14. BoundedTimes(events')
    <2>1. PICK b \in Nat : \A f \in events : f.time <= b
        BY DEF PgInv, BoundedTimes
    <2>2. CASE e.time <= b
        BY <1>2, <2>1, <2>2 DEF BoundedTimes
    <2>3. CASE b < e.time
        <3>1. \A f \in events : f.time \in Nat
            BY <1>1, StoreAssumption DEF Event
        <3>2. \A f \in events' : f.time <= e.time
            BY <1>2, <1>3, <2>1, <2>3, <3>1
        <3> QED BY <1>3, <3>2 DEF BoundedTimes, e
    <2> QED BY <1>3, <2>2, <2>3 DEF e
<1> QED
    BY <1>2, <1>8, <1>9, <1>10, <1>11, <1>12, <1>13, <1>14 DEF PgInv, PgIInv

-----------------------------------------------------------------------------
(* The statements of the prune.  They touch no row that an insert holds.    *)

LEMMA PruneFrame ==
    ASSUME PgInv,
           UNCHANGED <<events, sessions, ins, answered, expunged>>,
           lock' \in [Sessions -> Workers \cup {Pruner, Nobody}],
           \A s \in Sessions : lock[s] \in Workers => lock'[s] = lock[s],
           PruneTypeOK', PruneLocks',
           (prune.pc = "recomputing" => IsFiniteSet(prune.left) /\ BoundedTimes(prune.left))'
    PROVE  PgInv'
<1>1. PgTypeOK'
    BY DEF PgInv, PgIInv, PgTypeOK, TypeOK
<1>2. InsertsIsolated'
    <2> SUFFICES ASSUME NEW v \in Workers, Inserting(v)
                 PROVE  /\ ~Stored(ins[v].event.id)'
                        /\ \A u \in Workers : Inserting(u) /\ ins[u].event.id = ins[v].event.id => u = v
                        /\ ins[v].pc = "upserted" =>
                              /\ lock'[ins[v].event.session] = v
                              /\ ins[v].row = Upsert(sessions[ins[v].event.session], ins[v].event)
        BY DEF InsertsIsolated, Inserting
    <2>1. ~Stored(ins[v].event.id)'
        BY DEF PgInv, PgIInv, InsertsIsolated, Stored
    <2>2. ins[v].pc = "upserted" => ins[v].event.session \in Sessions
        BY InsertFields DEF PgInv, PgIInv, PgTypeOK, Event
    <2> QED BY <2>1, <2>2 DEF PgInv, PgIInv, InsertsIsolated
<1>3. EmittersEntitled' /\ UniqueIds'
    BY DEF PgInv, PgIInv, EmittersEntitled, UniqueIds
<1> QED
    BY <1>1, <1>2, <1>3 DEF PgInv, PgIInv, BoundedTimes

LEMMA SelectAffectedInv ==
    ASSUME PgInv, NEW t \in Tenants, NEW cutoff \in Cutoffs, SelectAffected(t, cutoff)
    PROVE  PgInv'
<1>1. {e.session : e \in Expired(t, cutoff)} \in SUBSET Sessions
    BY DEF Expired, PgInv, PgIInv, PgTypeOK, TypeOK, Event
<1>2. PruneTypeOK' /\ prune'.pc = "selected"
    BY <1>1 DEF SelectAffected, PruneTypeOK
<1>3. PruneLocks'
    BY <1>2 DEF PruneLocks
<1> QED
    BY <1>2, <1>3, PruneFrame DEF SelectAffected, PgInv, PgIInv, PgTypeOK

LEMMA DeleteEventsInv ==
    ASSUME PgInv, DeleteEvents
    PROVE  PgInv'
<1> DEFINE gone == Expired(prune.tenant, prune.cutoff)
<1>1. PruneTypeOK /\ events \in SUBSET Event
    BY DEF PgInv, PgIInv, PgTypeOK, TypeOK
<1>2. prune.pc = "selected" /\ prune.tenant \in Tenants /\ prune.affected \in SUBSET Sessions
    BY <1>1, PruneFields DEF DeleteEvents
<1>3. gone \in SUBSET Event
    BY <1>1 DEF Expired
<1>4. prune' = IF gone = {} THEN Idle
               ELSE [pc |-> "deleted", tenant |-> prune.tenant,
                     affected |-> prune.affected, gone |-> gone]
    BY DEF DeleteEvents
<1>5. PruneTypeOK' /\ prune'.pc \in {"idle", "deleted"}
    <2> HIDE DEF gone
    <2> QED BY <1>2, <1>3, <1>4 DEF PruneTypeOK, Idle
<1>6. PruneLocks'
    BY <1>5 DEF PruneLocks
<1> QED
    BY <1>5, <1>6, PruneFrame DEF DeleteEvents, PgInv, PgIInv, PgTypeOK

LEMMA DeleteEmptiesInv ==
    ASSUME PgInv, DeleteEmpties
    PROVE  PgInv'
<1> DEFINE todo == {s \in AffectedRows : EventsOf(Left, s, prune.tenant) = {}}
           rows == [s \in Sessions |-> Untouched]
<1>1. PruneTypeOK
    BY DEF PgInv, PgIInv, PgTypeOK
<1>2. prune.pc = "deleted"
      /\ prune \in [pc : {"deleted"}, tenant : Tenants,
                    affected : SUBSET Sessions, gone : SUBSET Event]
    BY <1>1, PruneFields DEF DeleteEmpties
<1>3. todo \in SUBSET Sessions
    BY <1>2 DEF AffectedRows
<1>4. rows \in Written /\ \A s \in Sessions : rows[s] = Untouched
    BY DEF Written
<1>5. prune' = [pc |-> "emptying", tenant |-> prune.tenant,
                affected |-> prune.affected, gone |-> prune.gone,
                todo |-> todo, rows |-> rows]
    BY DEF DeleteEmpties
<1> HIDE DEF todo, rows
<1>6. PruneTypeOK' /\ prune'.pc = "emptying"
    BY <1>2, <1>3, <1>4, <1>5 DEF PruneTypeOK
<1>7. PruneLocks'
    BY <1>4, <1>5 DEF PruneLocks
<1> QED
    BY <1>6, <1>7, PruneFrame DEF DeleteEmpties, PgInv, PgIInv, PgTypeOK

LEMMA RemoveRowInv ==
    ASSUME PgInv, NEW s \in Sessions, RemoveRow(s)
    PROVE  PgInv'
<1>1. /\ PruneTypeOK /\ PruneLocks
      /\ lock \in [Sessions -> Workers \cup {Pruner, Nobody}]
    BY DEF PgInv, PgIInv, PgTypeOK
<1>2. /\ prune.pc = "emptying"
      /\ prune \in [pc : {"emptying"}, tenant : Tenants,
                    affected : SUBSET Sessions, gone : SUBSET Event,
                    todo : SUBSET Sessions, rows : Written]
    BY <1>1, PruneFields DEF RemoveRow
<1>3. prune' = [prune EXCEPT !.todo = prune.todo \ {s},
                             !.rows = [prune.rows EXCEPT ![s] = NoRow]]
    BY <1>2 DEF RemoveRow
<1>4. [prune.rows EXCEPT ![s] = NoRow] \in Written
    BY <1>2 DEF Written
<1>5. /\ prune' \in [pc : {"emptying"}, tenant : Tenants,
                     affected : SUBSET Sessions, gone : SUBSET Event,
                     todo : SUBSET Sessions, rows : Written]
      /\ prune'.rows = [prune.rows EXCEPT ![s] = NoRow]
      /\ prune'.pc = "emptying"
    BY <1>2, <1>3, <1>4
<1>6. /\ lock[s] = Nobody
      /\ lock' = [lock EXCEPT ![s] = Pruner]
      /\ UNCHANGED <<events, sessions, ins, answered, expunged>>
    BY DEF RemoveRow
<1>7. PruneTypeOK'
    BY <1>5 DEF PruneTypeOK
<1>8. PruneLocks'
    <2> SUFFICES ASSUME NEW r \in Sessions, prune'.rows[r] # Untouched
                 PROVE  lock'[r] = Pruner
        BY <1>5 DEF PruneLocks
    <2>1. CASE r = s
        BY <1>1, <1>6, <2>1
    <2>2. CASE r # s
        BY <1>1, <1>2, <1>5, <1>6, <2>2 DEF PruneLocks, Written
    <2> QED BY <2>1, <2>2
<1>9. \A r \in Sessions : lock[r] \in Workers => lock'[r] = lock[r]
    BY <1>1, <1>6, PgAssumption
<1>10. lock' \in [Sessions -> Workers \cup {Pruner, Nobody}]
    BY <1>1, <1>6
<1> QED
    BY <1>5, <1>6, <1>7, <1>8, <1>9, <1>10, PruneFrame

LEMMA RecomputeInv ==
    ASSUME PgInv, Recompute
    PROVE  PgInv'
<1> DEFINE todo == {s \in AffectedRows : prune.rows[s] = Untouched}
           left == Left
<1>1. /\ PruneTypeOK /\ PruneLocks
      /\ lock \in [Sessions -> Workers \cup {Pruner, Nobody}]
      /\ events \in SUBSET Event
    BY DEF PgInv, PgIInv, PgTypeOK, TypeOK
<1>2. /\ prune.pc = "emptying"
      /\ prune \in [pc : {"emptying"}, tenant : Tenants,
                    affected : SUBSET Sessions, gone : SUBSET Event,
                    todo : SUBSET Sessions, rows : Written]
    BY <1>1, PruneFields DEF Recompute
<1>3. todo \in SUBSET Sessions /\ \A s \in todo : sessions[s] # NoRow
    BY <1>2 DEF AffectedRows
<1>4. left \in SUBSET events
    BY DEF Left
<1>5. prune' = [pc |-> "recomputing", tenant |-> prune.tenant, gone |-> prune.gone,
                rows |-> prune.rows, todo |-> todo, left |-> left]
    BY DEF Recompute
<1>6. UNCHANGED <<events, sessions, ins, lock, answered, expunged>>
    BY DEF Recompute
<1> HIDE DEF todo, left
<1>7. PruneTypeOK' /\ prune'.pc = "recomputing" /\ prune'.left = left
    BY <1>1, <1>2, <1>3, <1>4, <1>5 DEF PruneTypeOK
<1>8. PruneLocks'
    BY <1>1, <1>2, <1>3, <1>5, <1>6 DEF PruneLocks
<1>9. IsFiniteSet(left) /\ BoundedTimes(left)
    BY <1>4, FS_Subset DEF PgInv, BoundedTimes
<1> QED
    BY <1>1, <1>6, <1>7, <1>8, <1>9, PruneFrame DEF BoundedTimes

LEMMA RecomputeRowInv ==
    ASSUME PgInv, NEW s \in Sessions, RecomputeRow(s)
    PROVE  PgInv'
<1> DEFINE evs == EventsOf(prune.left, s, prune.tenant)
           new == Recomputed(sessions[s], evs)
<1>1. /\ PruneTypeOK /\ PruneLocks
      /\ lock \in [Sessions -> Workers \cup {Pruner, Nobody}]
      /\ sessions \in [Sessions -> SessionRow \cup {NoRow}]
    BY DEF PgInv, PgIInv, PgTypeOK, TypeOK
<1>2. /\ prune.pc = "recomputing"
      /\ prune \in [pc : {"recomputing"}, tenant : Tenants,
                    gone : SUBSET Event, rows : Written,
                    todo : SUBSET Sessions, left : SUBSET Event]
    BY <1>1, PruneFields DEF RecomputeRow
<1>3. /\ s \in prune.todo /\ evs # {} /\ lock[s] = Nobody
      /\ lock' = [lock EXCEPT ![s] = Pruner]
      /\ UNCHANGED <<events, sessions, ins, answered, expunged>>
    BY DEF RecomputeRow
<1>4. sessions[s] \in SessionRow
    BY <1>1, <1>2, <1>3 DEF PruneLocks
<1>5. new \in SessionRow
    <2>1. PICK b \in Nat : \A e \in prune.left : e.time <= b
        BY <1>2 DEF PgInv, BoundedTimes
    <2>2. evs \in SUBSET Event /\ IsFiniteSet(evs) /\ \A e \in evs : e.time <= b
        BY <1>2, <2>1, FS_Subset DEF PgInv, EventsOf
    <2> HIDE DEF evs
    <2> QED BY <1>3, <1>4, <2>2, RecomputedAgrees
<1>6. prune' = [prune EXCEPT !.todo = prune.todo \ {s},
                             !.rows = [prune.rows EXCEPT ![s] = new]]
    BY <1>2 DEF RecomputeRow
<1> HIDE DEF new, evs
<1>7. [prune.rows EXCEPT ![s] = new] \in Written
    BY <1>2, <1>5 DEF Written
<1>8. /\ prune' \in [pc : {"recomputing"}, tenant : Tenants,
                     gone : SUBSET Event, rows : Written,
                     todo : SUBSET Sessions, left : SUBSET Event]
      /\ prune'.rows = [prune.rows EXCEPT ![s] = new]
      /\ prune'.todo = prune.todo \ {s}
      /\ prune'.left = prune.left
      /\ prune'.pc = "recomputing"
    BY <1>2, <1>6, <1>7
<1>9. PruneTypeOK'
    BY <1>8 DEF PruneTypeOK
<1>10. PruneLocks'
    <2>1. \A r \in prune'.todo : sessions'[r] # NoRow
        BY <1>1, <1>2, <1>3, <1>8 DEF PruneLocks
    <2>2. ASSUME NEW r \in Sessions, prune'.rows[r] # Untouched
          PROVE  lock'[r] = Pruner
        <3>1. CASE r = s
            BY <1>1, <1>3, <3>1
        <3>2. CASE r # s
            BY <1>1, <1>2, <1>3, <1>8, <2>2, <3>2 DEF PruneLocks, Written
        <3> QED BY <3>1, <3>2
    <2> QED BY <2>1, <2>2 DEF PruneLocks
<1>11. \A r \in Sessions : lock[r] \in Workers => lock'[r] = lock[r]
    BY <1>1, <1>3, PgAssumption
<1>12. lock' \in [Sessions -> Workers \cup {Pruner, Nobody}]
    BY <1>1, <1>3
<1>13. IsFiniteSet(prune'.left) /\ BoundedTimes(prune'.left)
    BY <1>2, <1>8 DEF PgInv
<1> QED
    BY <1>3, <1>9, <1>10, <1>11, <1>12, <1>13, PruneFrame DEF BoundedTimes

LEMMA AbortPruneInv ==
    ASSUME PgInv, AbortPrune
    PROVE  PgInv'
<1>1. lock \in [Sessions -> Workers \cup {Pruner, Nobody}]
    BY DEF PgInv, PgIInv, PgTypeOK
<1>2. /\ lock' \in [Sessions -> Workers \cup {Pruner, Nobody}]
      /\ \A s \in Sessions : lock[s] # Pruner => lock'[s] = lock[s]
    BY <1>1, UnlockEffect DEF AbortPrune
<1>3. PruneTypeOK' /\ prune'.pc = "idle"
    BY DEF AbortPrune, PruneTypeOK, Idle
<1>4. PruneLocks'
    BY <1>3 DEF PruneLocks
<1> QED
    BY <1>2, <1>3, <1>4, PruneFrame, PgAssumption DEF AbortPrune

LEMMA CommitPruneInv ==
    ASSUME PgInv, CommitPrune
    PROVE  PgInv'
<1>1. /\ PgTypeOK /\ PruneTypeOK /\ PruneLocks
      /\ events \in SUBSET Event
      /\ lock \in [Sessions -> Workers \cup {Pruner, Nobody}]
      /\ sessions \in [Sessions -> SessionRow \cup {NoRow}]
    BY DEF PgInv, PgIInv, PgTypeOK, TypeOK
<1>2. prune.pc = "recomputing" /\ prune.rows \in Written /\ prune.gone \in SUBSET Event
    BY <1>1, PruneFields DEF CommitPrune
<1>3. /\ events' = events \ prune.gone
      /\ sessions' = [s \in Sessions |-> IF prune.rows[s] = Untouched THEN sessions[s]
                                         ELSE prune.rows[s]]
      /\ prune' = Idle
      /\ expunged' = expunged \cup {e.id : e \in prune.gone}
      /\ Unlock(Pruner)
      /\ UNCHANGED <<ins, answered>>
    BY DEF CommitPrune
<1>4. /\ lock' \in [Sessions -> Workers \cup {Pruner, Nobody}]
      /\ \A s \in Sessions : lock[s] # Pruner => lock'[s] = lock[s]
    BY <1>1, <1>3, UnlockEffect
<1>5. sessions' \in [Sessions -> SessionRow \cup {NoRow}]
    BY <1>1, <1>2, <1>3 DEF Written
<1>6. expunged' \subseteq Ids
    BY <1>1, <1>2, <1>3 DEF PgTypeOK, Event
<1>7. PgTypeOK'
    BY <1>1, <1>3, <1>4, <1>5, <1>6 DEF PgTypeOK, TypeOK, PruneTypeOK
(* A row that an insert holds was not written by the prune. *)
<1>8. \A s \in Sessions : lock[s] \in Workers => sessions'[s] = sessions[s] /\ lock'[s] = lock[s]
    BY <1>1, <1>2, <1>3, <1>4, PgAssumption DEF PruneLocks
<1>9. InsertsIsolated'
    <2> SUFFICES ASSUME NEW v \in Workers, Inserting(v)
                 PROVE  /\ ~Stored(ins[v].event.id)'
                        /\ \A u \in Workers : Inserting(u) /\ ins[u].event.id = ins[v].event.id => u = v
                        /\ ins[v].pc = "upserted" =>
                              /\ lock'[ins[v].event.session] = v
                              /\ ins[v].row = Upsert(sessions'[ins[v].event.session], ins[v].event)
        BY <1>3 DEF InsertsIsolated, Inserting
    <2>1. ~Stored(ins[v].event.id)'
        BY <1>3 DEF PgInv, PgIInv, InsertsIsolated, Stored
    <2>2. ins[v].pc = "upserted" => ins[v].event.session \in Sessions
        BY <1>1, InsertFields DEF PgTypeOK, Event
    <2> QED BY <1>8, <2>1, <2>2 DEF PgInv, PgIInv, InsertsIsolated
<1>10. EmittersEntitled' /\ UniqueIds'
    BY <1>3 DEF PgInv, PgIInv, EmittersEntitled, UniqueIds
<1>11. PruneLocks' /\ prune'.pc = "idle"
    BY <1>3 DEF PruneLocks, Idle
<1>12. IsFiniteSet(events') /\ BoundedTimes(events')
    BY <1>3, FS_Subset DEF PgInv, BoundedTimes
<1> QED
    BY <1>7, <1>9, <1>10, <1>11, <1>12 DEF PgInv, PgIInv

-----------------------------------------------------------------------------
(* What the open transactions rely on is true in every reachable state:    *)
(* an insert's id and row stay its own and the row it computed is current, *)
(* the prune writes only rows it has locked, and ids stay unique.          *)
THEOREM PgInvariant == PgSpec => []PgIInv
<1>1. PgInit => PgInv
    BY PgInitInv
<1>2. PgInv /\ [PgNext]_pgVars => PgInv'
    <2> SUFFICES ASSUME PgInv, [PgNext]_pgVars
                 PROVE  PgInv'
        OBVIOUS
    <2>1. ASSUME NEW w \in Workers, NEW e \in Event, Begin(w, e)
          PROVE  PgInv'
        BY <2>1, BeginInv
    <2>2. ASSUME NEW w \in Workers, InsertStep(w)
          PROVE  PgInv'
        BY <2>2, InsertRowInv, AnswerDuplicateInv, UpsertSessionInv, CommitInsertInv
           DEF InsertStep
    <2>3. ASSUME NEW w \in Workers, AbortInsert(w)
          PROVE  PgInv'
        BY <2>3, AbortInsertInv
    <2>4. ASSUME NEW t \in Tenants, NEW cutoff \in Cutoffs, SelectAffected(t, cutoff)
          PROVE  PgInv'
        BY <2>4, SelectAffectedInv
    <2>5. CASE PruneStep
        BY <2>5, DeleteEventsInv, DeleteEmptiesInv, RemoveRowInv, RecomputeInv,
           RecomputeRowInv, CommitPruneInv DEF PruneStep
    <2>6. CASE AbortPrune
        BY <2>6, AbortPruneInv
    <2>7. CASE UNCHANGED pgVars
        <3>1. PgTypeOK'
            BY <2>7 DEF pgVars, PgInv, PgIInv, PgTypeOK, TypeOK, PruneTypeOK
        <3>2. InsertsIsolated' /\ EmittersEntitled'
            BY <2>7 DEF pgVars, PgInv, PgIInv, InsertsIsolated, Inserting, Stored, EmittersEntitled
        <3>3. PruneLocks' /\ UniqueIds'
            BY <2>7 DEF pgVars, PgInv, PgIInv, PruneLocks, UniqueIds
        <3> QED BY <2>7, <3>1, <3>2, <3>3 DEF pgVars, PgInv, PgIInv, BoundedTimes
    <2> QED
        BY <2>1, <2>2, <2>3, <2>4, <2>5, <2>6, <2>7 DEF PgNext
<1>3. PgInv => PgIInv
    BY DEF PgInv
<1> QED
    BY <1>1, <1>2, <1>3, PTL DEF PgSpec

(* An emitter that was told "accepted" or "duplicate" has its event in the *)
(* table until a prune expires it.                                         *)
THEOREM AnswersAreKept == PgSpec => []AnsweredIsStored
<1>1. PgInit => AnsweredIsStored
    BY DEF PgInit, AnsweredIsStored
<1>2. AnsweredIsStored /\ [PgNext]_pgVars => AnsweredIsStored'
    <2> SUFFICES ASSUME AnsweredIsStored, [PgNext]_pgVars
                 PROVE  AnsweredIsStored'
        OBVIOUS
    <2> USE DEF AnsweredIsStored, Stored
    <2>1. CASE UNCHANGED <<events, answered, expunged>>
        BY <2>1
    <2>2. ASSUME NEW w \in Workers, AnswerDuplicate(w)
          PROVE  AnsweredIsStored'
        BY <2>2 DEF AnswerDuplicate
    <2>3. ASSUME NEW w \in Workers, CommitInsert(w)
          PROVE  AnsweredIsStored'
        BY <2>3 DEF CommitInsert
    <2>4. CASE CommitPrune
        BY <2>4 DEF CommitPrune
    <2>5. \A w \in Workers : \/ \E e \in Event : Begin(w, e)
                             \/ InsertRow(w) \/ UpsertSession(w) \/ AbortInsert(w)
                             => UNCHANGED <<events, answered, expunged>>
        BY DEF Begin, InsertRow, UpsertSession, AbortInsert
    <2>6. \A t \in Tenants, cutoff \in Cutoffs :
             SelectAffected(t, cutoff) => UNCHANGED <<events, answered, expunged>>
        BY DEF SelectAffected
    <2>7. DeleteEvents \/ DeleteEmpties \/ Recompute \/ AbortPrune
             => UNCHANGED <<events, answered, expunged>>
        BY DEF DeleteEvents, DeleteEmpties, Recompute, AbortPrune
    <2>8. \A s \in Sessions : RemoveRow(s) \/ RecomputeRow(s)
             => UNCHANGED <<events, answered, expunged>>
        BY DEF RemoveRow, RecomputeRow
    <2>9. UNCHANGED pgVars => UNCHANGED <<events, answered, expunged>>
        BY DEF pgVars
    <2> QED
        BY <2>1, <2>2, <2>3, <2>4, <2>5, <2>6, <2>7, <2>8, <2>9
           DEF PgNext, InsertStep, PruneStep
<1> QED
    BY <1>1, <1>2, PTL DEF PgSpec

-----------------------------------------------------------------------------
(* The transactions of any number of connections are together as if each   *)
(* insertEvent were one step of EventStore, also around a running prune.   *)
THEOREM InsertsImplementEventStore == PgSpec => ImplementsEventStore
<1>1. PgInit => Init
    BY DEF PgInit
<1>2. PgIInv /\ [PgNext]_pgVars => [Next \/ CommitPrune]_vars
    <2> SUFFICES ASSUME PgIInv, [PgNext]_pgVars
                 PROVE  [Next \/ CommitPrune]_vars
        OBVIOUS
    <2>1. ASSUME NEW w \in Workers, CommitInsert(w)
          PROVE  Next
        <3> DEFINE e == ins[w].event
        <3>1. ins[w].pc = "upserted" /\ ins[w] # Idle
            BY <2>1 DEF CommitInsert, Idle
        <3>2. e \in Event
            BY <3>1, InsertFields DEF PgIInv, PgTypeOK
        <3>3. /\ e.session \in MayUse[e.tenant]
              /\ ~Stored(e.id)
              /\ ins[w].row = Upsert(sessions[e.session], e)
            BY <3>1 DEF PgIInv, EmittersEntitled, InsertsIsolated, Inserting
        <3>4. InsertEvent(e)
            BY <2>1, <3>3 DEF CommitInsert, InsertEvent
        <3> QED BY <3>2, <3>3, <3>4 DEF Next, Ingest
    <2>2. \A w \in Workers : \/ \E e \in Event : Begin(w, e)
                             \/ InsertRow(w) \/ AnswerDuplicate(w)
                             \/ UpsertSession(w) \/ AbortInsert(w)
                             => UNCHANGED vars
        BY DEF Begin, InsertRow, AnswerDuplicate, UpsertSession, AbortInsert, vars
    <2>3. \A t \in Tenants, cutoff \in Cutoffs :
             SelectAffected(t, cutoff) => UNCHANGED vars
        BY DEF SelectAffected, vars
    <2>4. DeleteEvents \/ DeleteEmpties \/ Recompute \/ AbortPrune => UNCHANGED vars
        BY DEF DeleteEvents, DeleteEmpties, Recompute, AbortPrune, vars
    <2>5. \A s \in Sessions : RemoveRow(s) \/ RecomputeRow(s) => UNCHANGED vars
        BY DEF RemoveRow, RecomputeRow, vars
    <2>6. UNCHANGED pgVars => UNCHANGED vars
        BY DEF pgVars, vars
    <2> QED
        BY <2>1, <2>2, <2>3, <2>4, <2>5, <2>6 DEF PgNext, InsertStep, PruneStep
<1> QED
    BY <1>1, <1>2, PgInvariant, PTL DEF PgSpec, ImplementsEventStore

(* So without a prune the summaries that concurrent transactions leave are *)
(* exact: no increment is lost, none is counted twice.                     *)
THEOREM ConcurrentInsertsExact ==
    ASSUME Cutoffs = {}
    PROVE  PgSpec => []SummariesExact
<1> DEFINE NoPrune == prune = Idle
<1>1. PgInit => NoPrune
    BY DEF PgInit
<1>2. NoPrune /\ [PgNext]_pgVars => NoPrune'
    <2> SUFFICES ASSUME NoPrune, [PgNext]_pgVars
                 PROVE  NoPrune'
        OBVIOUS
    <2>1. ~PruneStep /\ ~AbortPrune
        BY DEF PruneStep, AbortPrune, DeleteEvents, DeleteEmpties, RemoveRow,
               Recompute, RecomputeRow, CommitPrune, Idle
    <2>2. \A w \in Workers : (\E e \in Event : Begin(w, e)) \/ InsertStep(w) \/ AbortInsert(w)
             => NoPrune'
        BY DEF Begin, InsertStep, InsertRow, AnswerDuplicate, UpsertSession,
               CommitInsert, AbortInsert
    <2> QED
        BY <2>1, <2>2 DEF PgNext, pgVars
<1>3. NoPrune /\ [Next \/ CommitPrune]_vars => [Next]_vars
    BY DEF CommitPrune, Idle
<1> QED
    BY <1>1, <1>2, <1>3, InsertsImplementEventStore, SummariesAlwaysExact, PTL
       DEF PgSpec, Spec, ImplementsEventStore

-----------------------------------------------------------------------------
(* Why delete-empties before reconcile is enough: until the prune commits,  *)
(* the table only grows, so a row that had an event left when the empties   *)
(* were chosen still has one, and a row that appeared since has the event   *)
(* it came with.                                                            *)
EmptiesChosen ==
    /\ prune.pc \in {"deleted", "emptying"} => prune.gone \subseteq events
    /\ prune.pc = "emptying" =>
          \A s \in AffectedRows :
              \/ prune.rows[s] # Untouched
              \/ s \in prune.todo
              \/ EventsOf(Left, s, prune.tenant) # {}

(* An insert's commit keeps the events that are left and brings a new row   *)
(* the event it counts.                                                     *)
LEMMA CommitKeepsChosen ==
    ASSUME PgIInv, EmptiesChosen, NEW w \in Workers, CommitInsert(w)
    PROVE  EmptiesChosen'
<1> DEFINE e == ins[w].event
<1>1. /\ ins[w].pc = "upserted" /\ ins[w] # Idle
      /\ events' = events \cup {e}
      /\ sessions' = [sessions EXCEPT ![e.session] = ins[w].row]
      /\ prune' = prune
    BY DEF CommitInsert, Idle
<1>2. /\ e \in Event /\ ~Stored(e.id)
      /\ ins[w].row = Upsert(sessions[e.session], e)
    BY <1>1, InsertFields DEF PgIInv, PgTypeOK, InsertsIsolated, Inserting
<1>3. /\ sessions \in [Sessions -> SessionRow \cup {NoRow}]
      /\ e.session \in Sessions
    BY <1>2 DEF PgIInv, PgTypeOK, TypeOK, Event
<1>4. prune.pc \in {"deleted", "emptying"} => prune'.gone \subseteq events'
    BY <1>1 DEF EmptiesChosen
<1>5. ASSUME prune.pc = "emptying", NEW s \in AffectedRows',
             prune.rows[s] = Untouched, s \notin prune.todo
      PROVE  EventsOf(Left', s, prune.tenant) # {}
    <2>1. /\ prune.gone \subseteq events
          /\ e \notin prune.gone
          /\ prune.affected \subseteq Sessions
        BY <1>2, <1>5, PruneFields DEF EmptiesChosen, Stored, PgIInv, PgTypeOK
    <2>2. Left' = Left \cup {e}
        BY <1>1, <2>1 DEF Left
    <2>3. s \in Sessions /\ s \in prune.affected /\ sessions'[s] # NoRow
          /\ sessions'[s].tenant = prune.tenant
        BY <1>1, <1>5, <2>1 DEF AffectedRows
    <2>4. CASE s \in AffectedRows
        <3>1. EventsOf(Left, s, prune.tenant) # {}
            BY <1>5, <2>4 DEF EmptiesChosen
        <3> QED BY <2>2, <3>1 DEF EventsOf
    <2>5. CASE s \notin AffectedRows
        <3>1. s = e.session
            BY <1>1, <1>3, <2>3, <2>5 DEF AffectedRows
        <3>2. sessions'[s] = Upsert(sessions[s], e)
            BY <1>1, <1>2, <1>3, <3>1
        <3>3. CASE sessions[s] = NoRow
            <4>1. e.tenant = prune.tenant
                BY <2>3, <3>2, <3>3 DEF Upsert
            <4> QED BY <2>2, <3>1, <4>1 DEF EventsOf
        <3>4. CASE sessions[s] # NoRow
            <4>1. sessions[s] \in SessionRow
                BY <1>3, <2>3, <3>4
            <4>2. sessions'[s].tenant = sessions[s].tenant
                BY <3>2, <3>4, <4>1 DEF Upsert, SessionRow
            <4> QED BY <2>3, <2>5, <3>4, <4>2 DEF AffectedRows
        <3> QED BY <3>3, <3>4
    <2> QED BY <2>4, <2>5
<1> QED
    BY <1>1, <1>4, <1>5 DEF EmptiesChosen

(* The recount meets no session without events: aggregates over none would  *)
(* write NULL into NOT NULL columns and fail the prune.                     *)
THEOREM RecountsFindEvents == PgSpec => []ReconcileHasEvents
<1> DEFINE RInv == EmptiesChosen /\ ReconcileHasEvents
<1>1. PgInit => RInv
    BY DEF PgInit, EmptiesChosen, ReconcileHasEvents, Idle
<1>2. PgIInv /\ RInv /\ [PgNext]_pgVars => RInv'
    <2> SUFFICES ASSUME PgIInv, EmptiesChosen, ReconcileHasEvents, [PgNext]_pgVars
                 PROVE  EmptiesChosen' /\ ReconcileHasEvents'
        OBVIOUS
    <2>1. CASE UNCHANGED <<events, sessions, prune>>
        BY <2>1 DEF EmptiesChosen, ReconcileHasEvents, AffectedRows, Left, EventsOf
    <2>2. ASSUME NEW w \in Workers, CommitInsert(w)
          PROVE  EmptiesChosen' /\ ReconcileHasEvents'
        <3>1. prune' = prune
            BY <2>2 DEF CommitInsert
        <3>2. ReconcileHasEvents'
            BY <3>1 DEF ReconcileHasEvents, EventsOf
        <3> QED BY <2>2, <3>2, CommitKeepsChosen
    <2>3. ASSUME NEW t \in Tenants, NEW cutoff \in Cutoffs, SelectAffected(t, cutoff)
          PROVE  EmptiesChosen' /\ ReconcileHasEvents'
        BY <2>3 DEF SelectAffected, EmptiesChosen, ReconcileHasEvents
    <2>4. CASE DeleteEvents
        BY <2>4 DEF DeleteEvents, EmptiesChosen, ReconcileHasEvents, Expired, Idle
    <2>5. CASE DeleteEmpties
        <3>1. /\ prune.pc = "deleted"
              /\ UNCHANGED <<events, sessions>>
              /\ prune'.pc = "emptying" /\ prune'.tenant = prune.tenant
              /\ prune'.affected = prune.affected /\ prune'.gone = prune.gone
              /\ prune'.todo = {s \in AffectedRows : EventsOf(Left, s, prune.tenant) = {}}
            BY <2>5 DEF DeleteEmpties
        <3>2. AffectedRows' = AffectedRows /\ Left' = Left
            BY <3>1 DEF AffectedRows, Left
        <3>3. EmptiesChosen'
            BY <3>1, <3>2 DEF EmptiesChosen, EventsOf
        <3> QED BY <3>1, <3>3 DEF ReconcileHasEvents
    <2>6. ASSUME NEW s \in Sessions, RemoveRow(s)
          PROVE  EmptiesChosen' /\ ReconcileHasEvents'
        <3>1. /\ prune.pc = "emptying"
              /\ UNCHANGED <<events, sessions>>
              /\ prune' = [prune EXCEPT !.todo = @ \ {s}, !.rows[s] = NoRow]
            BY <2>6 DEF RemoveRow
        <3>2. prune \in [pc : {"emptying"}, tenant : Tenants,
                         affected : SUBSET Sessions, gone : SUBSET Event,
                         todo : SUBSET Sessions, rows : Written]
            BY <3>1, PruneFields DEF PgIInv, PgTypeOK
        <3>3. /\ prune'.pc = "emptying" /\ prune'.tenant = prune.tenant
              /\ prune'.affected = prune.affected /\ prune'.gone = prune.gone
              /\ prune'.todo = prune.todo \ {s}
              /\ prune'.rows = [prune.rows EXCEPT ![s] = NoRow]
            BY <3>1, <3>2
        <3>4. AffectedRows' = AffectedRows /\ Left' = Left
            BY <3>1, <3>3 DEF AffectedRows, Left
        <3>5. prune'.rows[s] # Untouched
            BY <3>2, <3>3, PgAssumption DEF Written
        <3>6. \A x \in Sessions : x # s => prune'.rows[x] = prune.rows[x]
            BY <3>2, <3>3 DEF Written
        <3>7. AffectedRows \subseteq Sessions
            BY <3>2 DEF AffectedRows
        <3>8. EmptiesChosen'
            <4>1. prune'.gone \subseteq events'
                BY <3>1, <3>3 DEF EmptiesChosen
            <4>2. ASSUME NEW x \in AffectedRows'
                  PROVE  \/ prune'.rows[x] # Untouched
                         \/ x \in prune'.todo
                         \/ EventsOf(Left', x, prune'.tenant) # {}
                <5>1. CASE x = s
                    BY <3>5, <5>1
                <5>2. CASE x # s
                    <6>1. \/ prune.rows[x] # Untouched
                          \/ x \in prune.todo
                          \/ EventsOf(Left, x, prune.tenant) # {}
                        BY <3>1, <3>4 DEF EmptiesChosen
                    <6> QED BY <3>3, <3>4, <3>6, <3>7, <5>2, <6>1
                <5> QED BY <5>1, <5>2
            <4> QED BY <4>1, <4>2 DEF EmptiesChosen
        <3> QED BY <3>3, <3>8 DEF ReconcileHasEvents
    <2>7. CASE Recompute
        <3>1. /\ prune.pc = "emptying" /\ prune.todo = {}
              /\ prune'.pc = "recomputing" /\ prune'.tenant = prune.tenant
              /\ prune'.todo = {s \in AffectedRows : prune.rows[s] = Untouched}
              /\ prune'.left = Left
            BY <2>7 DEF Recompute
        <3>2. ReconcileHasEvents'
            BY <3>1 DEF ReconcileHasEvents, EmptiesChosen, EventsOf
        <3> QED BY <3>1, <3>2 DEF EmptiesChosen
    <2>8. ASSUME NEW s \in Sessions, RecomputeRow(s)
          PROVE  EmptiesChosen' /\ ReconcileHasEvents'
        <3>1. /\ prune.pc = "recomputing"
              /\ prune' = [prune EXCEPT !.todo = @ \ {s},
                                        !.rows[s] = Recomputed(sessions[s],
                                            EventsOf(prune.left, s, prune.tenant))]
            BY <2>8 DEF RecomputeRow
        <3>2. prune \in [pc : {"recomputing"}, tenant : Tenants, gone : SUBSET Event,
                         rows : Written, todo : SUBSET Sessions, left : SUBSET Event]
            BY <3>1, PruneFields DEF PgIInv, PgTypeOK
        <3>3. /\ prune'.pc = "recomputing" /\ prune'.tenant = prune.tenant
              /\ prune'.todo = prune.todo \ {s} /\ prune'.left = prune.left
            BY <3>1, <3>2
        <3> QED BY <3>1, <3>3 DEF ReconcileHasEvents, EmptiesChosen, EventsOf
    <2>9. CASE CommitPrune \/ AbortPrune
        BY <2>9 DEF CommitPrune, AbortPrune, EmptiesChosen, ReconcileHasEvents, Idle
    <2>10. \A w \in Workers : \/ \E e \in Event : Begin(w, e)
                              \/ InsertRow(w) \/ AnswerDuplicate(w)
                              \/ UpsertSession(w) \/ AbortInsert(w)
                              => UNCHANGED <<events, sessions, prune>>
        BY DEF Begin, InsertRow, AnswerDuplicate, UpsertSession, AbortInsert
    <2>11. UNCHANGED pgVars => UNCHANGED <<events, sessions, prune>>
        BY DEF pgVars
    <2> QED
        BY <2>1, <2>2, <2>3, <2>4, <2>5, <2>6, <2>7, <2>8, <2>9, <2>10, <2>11
           DEF PgNext, InsertStep, PruneStep
<1> QED
    BY <1>1, <1>2, PgInvariant, PTL DEF PgSpec
-----------------------------------------------------------------------------
(* An insert that holds a session row has nothing left to wait for. *)
Committing(w) == ins[w].pc = "upserted"

HoldersCommit ==
    \A s \in Sessions, w \in Workers : lock[s] = w =>
        Committing(w) /\ ins[w].event.session = s

LEMMA HoldersKeep ==
    ASSUME PgIInv, HoldersCommit, [PgNext]_pgVars
    PROVE  HoldersCommit'
<1>1. /\ ins \in [Workers -> InsertTransaction]
      /\ lock \in [Sessions -> Workers \cup {Pruner, Nobody}]
    BY DEF PgIInv, PgTypeOK
<1> USE DEF HoldersCommit, Committing
<1>2. ASSUME NEW w \in Workers, NEW e \in Event, Begin(w, e)
      PROVE  HoldersCommit'
    BY <1>1, <1>2 DEF Begin, Idle
<1>3. ASSUME NEW w \in Workers, InsertRow(w) \/ AnswerDuplicate(w)
      PROVE  HoldersCommit'
    BY <1>1, <1>3 DEF InsertRow, AnswerDuplicate
<1>4. ASSUME NEW w \in Workers, UpsertSession(w)
      PROVE  HoldersCommit'
    <2>1. /\ ins[w].pc = "inserted"
          /\ lock' = [lock EXCEPT ![ins[w].event.session] = w]
          /\ ins'[w].pc = "upserted" /\ ins'[w].event = ins[w].event
          /\ \A v \in Workers : v # w => ins'[v] = ins[v]
        BY <1>1, <1>4 DEF UpsertSession
    <2> QED BY <1>1, <2>1
<1>5. ASSUME NEW w \in Workers, CommitInsert(w) \/ AbortInsert(w)
      PROVE  HoldersCommit'
    <2>1. Unlock(w) /\ \A v \in Workers : v # w => ins'[v] = ins[v]
        BY <1>1, <1>5 DEF CommitInsert, AbortInsert
    <2> QED BY <1>1, <2>1, PgAssumption DEF Unlock
<1>6. ASSUME NEW s \in Sessions, RemoveRow(s) \/ RecomputeRow(s)
      PROVE  HoldersCommit'
    BY <1>1, <1>6, PgAssumption DEF RemoveRow, RecomputeRow
<1>7. CASE CommitPrune \/ AbortPrune
    <2>1. Unlock(Pruner) /\ UNCHANGED ins
        BY <1>7 DEF CommitPrune, AbortPrune
    <2> QED BY <1>1, <2>1, PgAssumption DEF Unlock
<1>8. CASE UNCHANGED <<ins, lock>>
    BY <1>8
<1>9. /\ \A t \in Tenants, cutoff \in Cutoffs : SelectAffected(t, cutoff) => UNCHANGED <<ins, lock>>
      /\ DeleteEvents \/ DeleteEmpties \/ Recompute => UNCHANGED <<ins, lock>>
      /\ UNCHANGED pgVars => UNCHANGED <<ins, lock>>
    BY DEF SelectAffected, DeleteEvents, DeleteEmpties, Recompute, pgVars
<1> HIDE DEF HoldersCommit, Committing
<1> QED
    BY <1>2, <1>3, <1>4, <1>5, <1>6, <1>7, <1>8, <1>9 DEF PgNext, InsertStep, PruneStep

(* In any set of transactions one waits for none of them: an insert that   *)
(* holds a row, else the prune, else an insert that asks for a row, else   *)
(* any.                                                                    *)
LEMMA SomebodyGoesOn == PgIInv /\ HoldersCommit => NoDeadlock
<1> SUFFICES ASSUME PgIInv, HoldersCommit,
                    NEW C \in SUBSET (Workers \cup {Pruner}), C # {}
             PROVE  \E p \in C : \A q \in C : ~Waits(p, q)
    BY DEF NoDeadlock
<1>1. \A w \in Workers : ins[w].pc \in {"idle", "begun", "inserted", "upserted"}
    BY InsertFields DEF PgIInv, PgTypeOK
<1>2. /\ \A w \in Workers : ins[w] # Idle => ins[w].event.session \in Sessions
      /\ prune.pc \in {"emptying", "recomputing"} => prune.todo \subseteq Sessions
    BY InsertFields, PruneFields DEF PgIInv, PgTypeOK, Event
<1>3. CASE \E w \in C \cap Workers : Committing(w)
    <2>1. PICK w \in C \cap Workers : Committing(w)
        BY <1>3
    <2>2. \A q \in C : ~Waits(w, q)
        BY <2>1, PgAssumption DEF Waits, InsertWaits, Committing
    <2> QED BY <2>1, <2>2
<1>4. CASE Pruner \in C /\ \A w \in C \cap Workers : ~Committing(w)
    <2>1. \A q \in C : ~(Pruner # q /\ PruneWaits(q))
        <3> SUFFICES ASSUME NEW q \in C, prune.pc \in {"emptying", "recomputing"},
                            NEW s \in prune.todo, lock[s] = q, q # Pruner
                     PROVE  FALSE
            BY DEF PruneWaits
        <3> QED BY <1>2, <1>4 DEF HoldersCommit
    <2> QED BY <1>4, <2>1 DEF Waits
<1>5. CASE /\ C \subseteq Workers /\ \A w \in C : ~Committing(w)
           /\ \E w \in C : ins[w].pc = "inserted"
    <2>1. PICK w \in C : ins[w].pc = "inserted"
        BY <1>5
    <2>2. ins[w].event.session \in Sessions /\ w # Pruner
        BY <1>2, <1>5, <2>1, PgAssumption DEF Idle
    <2>3. \A q \in C : lock[ins[w].event.session] # q
        BY <1>5, <2>2 DEF HoldersCommit
    <2> QED BY <2>1, <2>2, <2>3 DEF Waits, InsertWaits
<1>6. CASE C \subseteq Workers /\ \A w \in C : ins[w].pc \notin {"inserted", "upserted"}
    <2>1. PICK w \in C : TRUE
        OBVIOUS
    <2>2. \A q \in C : ~InsertWaits(w, q)
        BY <1>6, <2>1, PgAssumption DEF InsertWaits, Inserting
    <2> QED BY <1>6, <2>1, <2>2, PgAssumption DEF Waits
<1> QED
    BY <1>1, <1>3, <1>4, <1>5, <1>6 DEF Committing

(* Any number of insert transactions and a prune that locks any number of  *)
(* session rows in any order never wait for each other in a circle.        *)
THEOREM NobodyDeadlocks == PgSpec => []NoDeadlock
<1>1. PgInit => HoldersCommit
    BY PgAssumption DEF PgInit, HoldersCommit
<1>2. PgIInv /\ HoldersCommit /\ [PgNext]_pgVars => HoldersCommit'
    BY HoldersKeep
<1>3. PgIInv /\ HoldersCommit => NoDeadlock
    BY SomebodyGoesOn
<1> QED
    BY <1>1, <1>2, <1>3, PgInvariant, PTL DEF PgSpec
=============================================================================
