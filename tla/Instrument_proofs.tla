-------------------------- MODULE Instrument_proofs --------------------------
(***************************************************************************)
(* Theorems of Instrument, for every value of its constants: however many  *)
(* runs, cores and calls of instrument() there are, whatever the caps.     *)
(***************************************************************************)
EXTENDS Instrument, FiniteSetTheorems, SequenceTheorems, TLAPS

-----------------------------------------------------------------------------
(* One more event *)

LEMMA OneMore ==
    ASSUME NEW S, NEW l \in Seq(S), NEW a \in S, NEW k, k = l \o <<a>>
    PROVE  /\ k \in Seq(S) /\ Len(l) \in Nat /\ Len(k) = Len(l) + 1
           /\ \A n \in 1..Len(l) : n \in 1..Len(k) /\ k[n] = l[n]
           /\ k[Len(k)] = a
           /\ \A n \in 1..Len(k) : n \in 1..Len(l) \/ n = Len(k)
OBVIOUS

LEMMA TwoMore ==
    ASSUME NEW S, NEW l \in Seq(S), NEW a \in S, NEW b \in S
    PROVE  l \o <<a, b>> = (l \o <<a>>) \o <<b>>
<1>1. <<a>> \in Seq(S)
    OBVIOUS
<1>2. <<b>> \in Seq(S)
    OBVIOUS
<1>3. <<a>> \o <<b>> = <<a, b>>
    <2> DEFINE s == <<a>> \o <<b>>
               t == <<a, b>>
    <2>1. t \in Seq(S) /\ Len(t) = 2 /\ t[1] = a /\ t[2] = b
        OBVIOUS
    <2>2. s \in Seq(S) /\ Len(s) = 2 /\ s[1] = a /\ s[2] = b
        BY <1>1, <1>2, ConcatProperties
    <2> HIDE DEF s, t
    <2>3. \A i \in 1..Len(s) : s[i] = t[i]
        BY <2>1, <2>2
    <2>4. s = t
        BY <2>1, <2>2, <2>3, SeqEqual
    <2> QED BY <2>4 DEF s, t
<1>4. (l \o <<a>>) \o <<b>> = l \o (<<a>> \o <<b>>)
    BY ONLY <1>1, <1>2, l \in Seq(S), ConcatAssociative
<1> QED BY <1>3, <1>4

(* What makes an event a sound continuation of the log. *)
Fits(l, a) ==
    /\ a.cause <= Len(l)
    /\ a.cause # 0 => l[a.cause].trace = a.trace
    /\ a.cause = 0 => a.type \in OpenTypes /\ a.trace = a.run
    /\ a.type = "handoff.completed" =>
          /\ a.cause # 0
          /\ l[a.cause].type = "handoff.started"
          /\ l[a.cause].session = a.session /\ l[a.cause].run = a.run
    /\ \A types \in {OpenTypes, EndTypes} : a.type \in types =>
          \A n \in 1..Len(l) : l[n].type \in types => l[n].run # a.run

LEMMA StaysWellFormed ==
    ASSUME NEW l \in Seq(Event), WellFormed(l), NEW a \in Event, Fits(l, a),
           NEW k, k = l \o <<a>>
    PROVE  WellFormed(k)
<1>1. /\ k \in Seq(Event) /\ Len(l) \in Nat /\ Len(k) = Len(l) + 1
      /\ \A n \in 1..Len(l) : n \in 1..Len(k) /\ k[n] = l[n]
      /\ k[Len(k)] = a
      /\ \A n \in 1..Len(k) : n \in 1..Len(l) \/ n = Len(k)
    BY OneMore
<1>2. \A n \in 1..Len(k) : k[n].cause \in Nat
    <2> TAKE n \in 1..Len(k)
    <2>1. k[n] \in Event
        BY <1>1
    <2> QED BY <2>1 DEF Event
<1>3. \A n \in 1..Len(k) :
         /\ k[n].cause < n
         /\ k[n].cause # 0 => k[k[n].cause].trace = k[n].trace
         /\ k[n].cause = 0 => k[n].type \in OpenTypes /\ k[n].trace = k[n].run
         /\ k[n].type = "handoff.completed" =>
               /\ k[n].cause # 0
               /\ k[k[n].cause].type = "handoff.started"
               /\ k[k[n].cause].session = k[n].session /\ k[k[n].cause].run = k[n].run
    <2> TAKE n \in 1..Len(k)
    <2>1. CASE n \in 1..Len(l)
        <3>1. k[n] = l[n] /\ l[n].cause \in Nat /\ l[n].cause < n
            BY <1>1, <1>2, <2>1 DEF WellFormed
        <3>2. l[n].cause # 0 => k[l[n].cause] = l[l[n].cause]
            BY <1>1, <2>1, <3>1
        <3> QED BY <2>1, <3>1, <3>2 DEF WellFormed
    <2>2. CASE n = Len(k)
        <3>1. k[n] = a /\ a.cause \in Nat
            BY <1>1, <2>2 DEF Event
        <3>2. a.cause # 0 => k[a.cause] = l[a.cause]
            BY <1>1, <3>1 DEF Fits
        <3> QED BY <1>1, <2>2, <3>1, <3>2 DEF Fits
    <2> QED BY <1>1, <2>1, <2>2
<1>4. \A types \in {OpenTypes, EndTypes} : \A n, m \in 1..Len(k) :
         k[n].type \in types /\ k[m].type \in types /\ k[n].run = k[m].run => n = m
    <2> TAKE types \in {OpenTypes, EndTypes}
    <2> TAKE n, m \in 1..Len(k)
    <2>1. CASE n \in 1..Len(l) /\ m \in 1..Len(l)
        BY <1>1, <2>1 DEF WellFormed
    <2>2. CASE n = Len(k) /\ m \in 1..Len(l)
        BY <1>1, <2>2 DEF Fits
    <2>3. CASE n \in 1..Len(l) /\ m = Len(k)
        BY <1>1, <2>3 DEF Fits
    <2> QED BY <1>1, <2>1, <2>2, <2>3
<1> QED
    BY <1>3, <1>4 DEF WellFormed

LEMMA StillRemembers ==
    ASSUME NEW l \in Seq(Event), NEW a \in Event, NEW k, k = l \o <<a>>, NEW info,
           Remembers(l, info)
    PROVE  Remembers(k, info)
<1>1. /\ k \in Seq(Event) /\ Len(l) \in Nat /\ Len(k) = Len(l) + 1
      /\ \A n \in 1..Len(l) : n \in 1..Len(k) /\ k[n] = l[n]
    BY OneMore
<1> QED BY <1>1 DEF Remembers

(* How many events of some types there are. *)
Places(l, types) == {n \in 1..Len(l) : l[n].type \in types}

Appended(l, a, k) == k = l \o <<a>>

LEMMA CountOneMore ==
    ASSUME NEW l \in Seq(Event), NEW a \in Event, NEW k, Appended(l, a, k), NEW types
    PROVE  /\ Cardinality(Places(l, types)) \in Nat
           /\ a.type \in types =>
                 Cardinality(Places(k, types)) = Cardinality(Places(l, types)) + 1
           /\ a.type \notin types =>
                 Cardinality(Places(k, types)) = Cardinality(Places(l, types))
<1>1. /\ Len(l) \in Nat /\ Len(k) = Len(l) + 1
      /\ \A n \in 1..Len(l) : n \in 1..Len(k) /\ k[n] = l[n]
      /\ k[Len(k)] = a
      /\ \A n \in 1..Len(k) : n \in 1..Len(l) \/ n = Len(k)
    BY OneMore DEF Appended
<1>2. IsFiniteSet(Places(l, types)) /\ Cardinality(Places(l, types)) \in Nat
    <2>1. IsFiniteSet(1..Len(l)) /\ Places(l, types) \in SUBSET (1..Len(l))
        BY <1>1, FS_Interval DEF Places
    <2> QED BY <2>1, FS_Subset, FS_CardinalityType
<1>3. CASE a.type \in types
    <2>1. Places(k, types) = Places(l, types) \cup {Len(k)} /\ Len(k) \notin Places(l, types)
        BY <1>1, <1>3 DEF Places
    <2> QED BY <1>2, <1>3, <2>1, FS_AddElement
<1>4. CASE a.type \notin types
    <2>1. Places(k, types) = Places(l, types)
        BY <1>1, <1>4 DEF Places
    <2> QED BY <1>2, <1>4, <2>1
<1> QED BY <1>3, <1>4

LEMMA CountOpening ==
    ASSUME NEW l \in Seq(Event), NEW a \in Event, NEW k, Appended(l, a, k), a.type \in OpenTypes
    PROVE  /\ Cardinality(Places(l, OpenTypes)) \in Nat /\ Cardinality(Places(l, EndTypes)) \in Nat
           /\ Cardinality(Places(k, OpenTypes)) = Cardinality(Places(l, OpenTypes)) + 1
           /\ Cardinality(Places(k, EndTypes)) = Cardinality(Places(l, EndTypes)) + 0
<1>1. /\ Cardinality(Places(l, OpenTypes)) \in Nat
      /\ a.type \in OpenTypes =>
            Cardinality(Places(k, OpenTypes)) = Cardinality(Places(l, OpenTypes)) + 1
      /\ a.type \notin OpenTypes =>
            Cardinality(Places(k, OpenTypes)) = Cardinality(Places(l, OpenTypes))
    BY CountOneMore
<1>2. /\ Cardinality(Places(l, EndTypes)) \in Nat
      /\ a.type \in EndTypes =>
            Cardinality(Places(k, EndTypes)) = Cardinality(Places(l, EndTypes)) + 1
      /\ a.type \notin EndTypes =>
            Cardinality(Places(k, EndTypes)) = Cardinality(Places(l, EndTypes))
    BY CountOneMore
<1>3. /\ a.type \in OpenTypes <=> 1 = 1
      /\ a.type \in EndTypes <=> 0 = 1
    BY DEF OpenTypes, EndTypes
<1> QED BY <1>1, <1>2, <1>3

LEMMA CountEnding ==
    ASSUME NEW l \in Seq(Event), NEW a \in Event, NEW k, Appended(l, a, k), a.type \in EndTypes
    PROVE  /\ Cardinality(Places(l, OpenTypes)) \in Nat /\ Cardinality(Places(l, EndTypes)) \in Nat
           /\ Cardinality(Places(k, OpenTypes)) = Cardinality(Places(l, OpenTypes)) + 0
           /\ Cardinality(Places(k, EndTypes)) = Cardinality(Places(l, EndTypes)) + 1
<1>1. /\ Cardinality(Places(l, OpenTypes)) \in Nat
      /\ a.type \in OpenTypes =>
            Cardinality(Places(k, OpenTypes)) = Cardinality(Places(l, OpenTypes)) + 1
      /\ a.type \notin OpenTypes =>
            Cardinality(Places(k, OpenTypes)) = Cardinality(Places(l, OpenTypes))
    BY CountOneMore
<1>2. /\ Cardinality(Places(l, EndTypes)) \in Nat
      /\ a.type \in EndTypes =>
            Cardinality(Places(k, EndTypes)) = Cardinality(Places(l, EndTypes)) + 1
      /\ a.type \notin EndTypes =>
            Cardinality(Places(k, EndTypes)) = Cardinality(Places(l, EndTypes))
    BY CountOneMore
<1>3. /\ a.type \in OpenTypes <=> 0 = 1
      /\ a.type \in EndTypes <=> 1 = 1
    BY DEF OpenTypes, EndTypes
<1> QED BY <1>1, <1>2, <1>3

LEMMA CountOther ==
    ASSUME NEW l \in Seq(Event), NEW a \in Event, NEW k, Appended(l, a, k),
           a.type \notin OpenTypes \cup EndTypes
    PROVE  /\ Cardinality(Places(l, OpenTypes)) \in Nat /\ Cardinality(Places(l, EndTypes)) \in Nat
           /\ Cardinality(Places(k, OpenTypes)) = Cardinality(Places(l, OpenTypes)) + 0
           /\ Cardinality(Places(k, EndTypes)) = Cardinality(Places(l, EndTypes)) + 0
<1>1. /\ Cardinality(Places(l, OpenTypes)) \in Nat
      /\ a.type \in OpenTypes =>
            Cardinality(Places(k, OpenTypes)) = Cardinality(Places(l, OpenTypes)) + 1
      /\ a.type \notin OpenTypes =>
            Cardinality(Places(k, OpenTypes)) = Cardinality(Places(l, OpenTypes))
    BY CountOneMore
<1>2. /\ Cardinality(Places(l, EndTypes)) \in Nat
      /\ a.type \in EndTypes =>
            Cardinality(Places(k, EndTypes)) = Cardinality(Places(l, EndTypes)) + 1
      /\ a.type \notin EndTypes =>
            Cardinality(Places(k, EndTypes)) = Cardinality(Places(l, EndTypes))
    BY CountOneMore
<1>3. /\ a.type \in OpenTypes <=> 0 = 1
      /\ a.type \in EndTypes <=> 0 = 1
    BY DEF OpenTypes, EndTypes
<1> QED BY <1>1, <1>2, <1>3

-----------------------------------------------------------------------------
(* The table *)

LEMMA RemoveFacts ==
    ASSUME NEW S, NEW s \in Seq(S), NEW i \in 1..Len(s), NEW t, t = RemoveAt(s, i)
    PROVE  /\ t \in Seq(S) /\ Len(s) \in Nat /\ Len(t) = Len(s) - 1
           /\ \A j \in 1..Len(t) : \E m \in 1..Len(s) : m # i /\ t[j] = s[m]
                                      /\ m = IF j < i THEN j ELSE j + 1
<1> DEFINE front == SubSeq(s, 1, i - 1)
           back == SubSeq(s, i + 1, Len(s))
<1>1. i \in Nat /\ Len(s) \in Nat /\ 1 <= i /\ i <= Len(s)
    OBVIOUS
<1>2. \A n \in 1..(i - 1) : s[n] \in S
    BY <1>1
<1>3. \A n \in (i + 1)..Len(s) : s[n] \in S
    BY <1>1
<1>4. /\ front \in Seq(S) /\ Len(front) = i - 1
      /\ \A n \in 1..(i - 1) : front[n] = s[n]
    <2>1. 1 \in Int /\ i - 1 \in Int
        BY <1>1
    <2>2. /\ front \in Seq(S) /\ Len(front) = IF 1 <= i - 1 THEN (i - 1) - 1 + 1 ELSE 0
          /\ \A n \in 1..((i - 1) - 1 + 1) : front[n] = s[1 + n - 1]
        BY <1>2, <2>1, SubSeqProperties
    <2> QED BY <1>1, <2>2
<1>5. /\ back \in Seq(S) /\ Len(back) = Len(s) - i
      /\ \A n \in 1..(Len(s) - i) : back[n] = s[i + n]
    <2>1. i + 1 \in Int /\ Len(s) \in Int
        BY <1>1
    <2>2. /\ back \in Seq(S)
          /\ Len(back) = IF i + 1 <= Len(s) THEN Len(s) - (i + 1) + 1 ELSE 0
          /\ \A n \in 1..(Len(s) - (i + 1) + 1) : back[n] = s[(i + 1) + n - 1]
        BY <1>3, <2>1, SubSeqProperties
    <2> QED BY <1>1, <2>2
<1>6. t = front \o back
    BY DEF RemoveAt
<1> HIDE DEF front, back
<1>7. /\ t \in Seq(S) /\ Len(t) = Len(front) + Len(back)
      /\ \A n \in 1..(Len(front) + Len(back)) :
            t[n] = IF n <= Len(front) THEN front[n] ELSE back[n - Len(front)]
    <2>1. front \in Seq(S) /\ back \in Seq(S)
        BY <1>4, <1>5
    <2>2. /\ front \o back \in Seq(S) /\ Len(front \o back) = Len(front) + Len(back)
          /\ \A n \in 1..(Len(front) + Len(back)) :
                (front \o back)[n] = IF n <= Len(front) THEN front[n] ELSE back[n - Len(front)]
        BY ONLY <2>1, ConcatProperties
    <2> QED BY <1>6, <2>2
<1>8. Len(t) = Len(s) - 1
    BY <1>1, <1>4, <1>5, <1>7
<1>9. \A j \in 1..Len(t) : \E m \in 1..Len(s) : m # i /\ t[j] = s[m]
                              /\ m = IF j < i THEN j ELSE j + 1
    <2> TAKE j \in 1..Len(t)
    <2>1. CASE j < i
        <3>1. t[j] = s[j] /\ j \in 1..Len(s) /\ j # i
            BY <1>1, <1>4, <1>5, <1>7, <1>8, <2>1
        <3> QED BY <2>1, <3>1
    <2>2. CASE ~(j < i)
        <3>1. /\ j \in Nat /\ ~(j <= Len(front)) /\ j - Len(front) \in 1..(Len(s) - i)
              /\ i + (j - Len(front)) = j + 1
            BY <1>1, <1>4, <1>5, <1>7, <1>8, <2>2
        <3>2. t[j] = back[j - Len(front)] /\ back[j - Len(front)] = s[i + (j - Len(front))]
            BY <1>5, <1>7, <3>1
        <3>3. t[j] = s[j + 1] /\ j + 1 \in 1..Len(s) /\ j + 1 # i
            BY <1>1, <1>8, <2>2, <3>1, <3>2
        <3> QED BY <2>2, <3>3
    <2> QED BY <2>1, <2>2
<1> QED BY <1>1, <1>7, <1>8, <1>9

LEMMA PutFacts ==
    ASSUME table \in Seq(Info), evicted \in Nat, Len(table) <= MaxRuns,
           NEW info \in Info, Put(info),
           \A i, j \in 1..Len(table) : table[i].run = table[j].run => i = j,
           \A i \in 1..Len(table) : table[i].run # info.run
    PROVE  /\ table' \in Seq(Info) /\ evicted' \in Nat /\ Len(table') <= MaxRuns
           /\ Len(table') + evicted' = Len(table) + evicted + 1
           /\ \A i \in 1..Len(table') :
                 table'[i] = info \/ \E j \in 1..Len(table) : table'[i] = table[j]
           /\ \A i, j \in 1..Len(table') : table'[i].run = table'[j].run => i = j
<1> DEFINE t == Append(table, info)
<1>1. /\ t \in Seq(Info) /\ Len(t) = Len(table) + 1 /\ Len(table) \in Nat
      /\ \A i \in 1..Len(table) : i \in 1..Len(t) /\ t[i] = table[i]
      /\ t[Len(t)] = info
      /\ \A i \in 1..Len(t) : i \in 1..Len(table) \/ i = Len(t)
    OBVIOUS
<1>2. /\ Len(t) > MaxRuns => table' = Tail(t) /\ evicted' = evicted + 1
      /\ ~(Len(t) > MaxRuns) => table' = t /\ evicted' = evicted
    BY DEF Put
<1> HIDE DEF t
<1>3. \A i, j \in 1..Len(t) : t[i].run = t[j].run => i = j
    BY <1>1
<1>4. \A i \in 1..Len(t) : t[i] = info \/ \E j \in 1..Len(table) : t[i] = table[j]
    BY <1>1
<1>5. MaxRuns \in Nat
    BY InstrumentAssumption
<1>6. CASE ~(Len(t) > MaxRuns)
    <2>1. table' = t /\ evicted' = evicted
        BY <1>2, <1>6
    <2>2. Len(table') = Len(table) + 1 /\ Len(table') <= MaxRuns
        BY <1>1, <1>5, <1>6, <2>1
    <2>3. Len(table') + evicted' = Len(table) + evicted + 1
        BY <1>1, <2>1, <2>2
    <2> QED BY <1>1, <1>3, <1>4, <2>1, <2>2, <2>3
<1>7. CASE Len(t) > MaxRuns
    <2>1. table' = Tail(t) /\ evicted' = evicted + 1
        BY <1>2, <1>7
    <2>2. t # <<>>
        BY <1>1
    <2>3. /\ Tail(t) \in Seq(Info) /\ Len(Tail(t)) = Len(t) - 1
          /\ \A i \in 1..Len(Tail(t)) : Tail(t)[i] = t[i + 1]
        BY <1>1, <2>2, HeadTailProperties
    <2>4. \A i \in 1..Len(table') : i + 1 \in 1..Len(t) /\ table'[i] = t[i + 1]
        BY <1>1, <2>1, <2>3
    <2>5. \A i, j \in 1..Len(table') : table'[i].run = table'[j].run => i = j
        <3> TAKE i, j \in 1..Len(table')
        <3>1. table'[i].run = table'[j].run => i + 1 = j + 1
            BY <1>3, <2>4
        <3> QED BY <3>1
    <2>6. \A i \in 1..Len(table') :
             table'[i] = info \/ \E j \in 1..Len(table) : table'[i] = table[j]
        BY <1>4, <2>4
    <2>7. Len(table') = Len(table) /\ table' \in Seq(Info)
        BY <1>1, <2>1, <2>3
    <2>8. Len(table') + evicted' = Len(table) + evicted + 1 /\ evicted' \in Nat
        <3>1. Len(table) \in Nat /\ evicted \in Nat /\ evicted' = evicted + 1
            BY <1>1, <2>1
        <3>2. Len(table') = Len(table)
            BY <2>7
        <3> QED BY ONLY <3>1, <3>2
    <2>9. Len(table') <= MaxRuns
        BY <2>7
    <2> QED BY <2>5, <2>6, <2>7, <2>8, <2>9
<1> QED BY <1>6, <1>7

(* The entry of a tracked run. *)
LEMMA TrackedFacts ==
    ASSUME table \in Seq(Info), NEW r, Tracked(r)
    PROVE  PlaceOf(r) \in 1..Len(table) /\ InfoOf(r) = table[PlaceOf(r)] /\ InfoOf(r) \in Info
           /\ InfoOf(r).run = r
<1>1. DOMAIN table = 1..Len(table)
    OBVIOUS
<1>2. \E i \in DOMAIN table : table[i].run = r
    BY DEF Tracked
<1>3. PlaceOf(r) \in DOMAIN table /\ table[PlaceOf(r)].run = r
    BY <1>2 DEF PlaceOf
<1> QED BY <1>1, <1>3 DEF InfoOf

-----------------------------------------------------------------------------
(* The core: events, table and runs *)

CorePart ==
    /\ life \in [Runs -> {"new", "live", "over"}]
    /\ table \in Seq(Info) /\ evicted \in Nat /\ log \in Seq(Event)
    /\ WellFormed(log)
    /\ TableFollows
    /\ LogFollows
    /\ RunsAccounted

(* A run starts: perhaps an event of a hand-off, then the event that opens it. *)
LEMMA OpenKeeps ==
    ASSUME CorePart, NEW r \in Runs, life[r] = "new", life' = [life EXCEPT ![r] = "live"],
           NEW k \in Seq(Event), WellFormed(k),
           \A i \in 1..Len(table) : Remembers(k, table[i]),
           \A n \in 1..Len(k) : \/ k[n].run = r /\ k[n].type = "handoff.started"
                                \/ \E m \in 1..Len(log) : k[n] = log[m],
           \A types \in {OpenTypes, EndTypes} :
              Cardinality(Places(k, types)) = Cardinality(Places(log, types)),
           NEW a \in Event, a.run = r, a.type \in OpenTypes, a.cause <= Len(k),
           a.cause # 0 => k[a.cause].trace = a.trace, a.cause = 0 => a.trace = r,
           log' = k \o <<a>>,
           NEW info \in Info, info.run = r, Remembers(log', info), Put(info)
    PROVE  CorePart'
<1>1. /\ life \in [Runs -> {"new", "live", "over"}]
      /\ table \in Seq(Info) /\ evicted \in Nat /\ log \in Seq(Event)
    BY DEF CorePart
<1>2. /\ log' \in Seq(Event) /\ Len(k) \in Nat /\ Len(log') = Len(k) + 1
      /\ \A n \in 1..Len(k) : n \in 1..Len(log') /\ log'[n] = k[n]
      /\ log'[Len(log')] = a
      /\ \A n \in 1..Len(log') : n \in 1..Len(k) \/ n = Len(log')
    BY OneMore
<1>3. \A m \in 1..Len(log) : log[m].run # r /\ log[m].run \in Runs
    <2> TAKE m \in 1..Len(log)
    <2>1. log[m] \in Event
        BY <1>1
    <2> QED BY <2>1 DEF CorePart, LogFollows, Event
<1>4. \A n \in 1..Len(k) : k[n].type \in OpenTypes => k[n].run # r
    BY <1>3 DEF OpenTypes
<1>5. Fits(k, a)
    BY <1>4 DEF Fits, OpenTypes, EndTypes
<1>6. WellFormed(log')
    BY <1>5, StaysWellFormed
<1>7. /\ \A i, j \in 1..Len(table) : table[i].run = table[j].run => i = j
      /\ \A i \in 1..Len(table) : table[i].run # r /\ table[i].run \in Runs
                                  /\ life[table[i].run] # "new"
      /\ Len(table) <= MaxRuns
    <2>1. \A i \in 1..Len(table) : table[i] \in Info
        BY <1>1
    <2> QED BY <2>1 DEF CorePart, TableFollows, RunsAccounted, Info
<1>8. /\ table' \in Seq(Info) /\ evicted' \in Nat /\ Len(table') <= MaxRuns
      /\ Len(table') + evicted' = Len(table) + evicted + 1
      /\ \A i \in 1..Len(table') :
            table'[i] = info \/ \E j \in 1..Len(table) : table'[i] = table[j]
      /\ \A i, j \in 1..Len(table') : table'[i].run = table'[j].run => i = j
    BY <1>1, <1>7, PutFacts
<1>9. TableFollows'
    <2>1. \A j \in 1..Len(table) : Remembers(log', table[j]) /\ life'[table[j].run] # "new"
        BY <1>1, <1>7, StillRemembers
    <2>2. \A i \in 1..Len(table') : Remembers(log', table'[i]) /\ life'[table'[i].run] # "new"
        <3> TAKE i \in 1..Len(table')
        <3>1. CASE table'[i] = info
            BY <1>1, <3>1
        <3>2. CASE \E j \in 1..Len(table) : table'[i] = table[j]
            BY <2>1, <3>2
        <3> QED BY <1>8, <3>1, <3>2
    <2> QED BY <1>8, <2>2 DEF TableFollows
<1>10. LogFollows'
    <2>1. \A m \in 1..Len(log) : /\ life'[log[m].run] # "new"
                                 /\ log[m].type \in EndTypes => life'[log[m].run] = "over"
        BY <1>1, <1>3 DEF CorePart, LogFollows
    <2>2. \A n \in 1..Len(log') : /\ life'[log'[n].run] # "new"
                                  /\ log'[n].type \in EndTypes => life'[log'[n].run] = "over"
        <3> TAKE n \in 1..Len(log')
        <3>1. CASE n \in 1..Len(k)
            BY <1>1, <1>2, <2>1, <3>1 DEF EndTypes
        <3>2. CASE n = Len(log')
            BY <1>1, <1>2, <3>2 DEF OpenTypes, EndTypes
        <3> QED BY <1>2, <3>1, <3>2
    <2> QED BY <2>2 DEF LogFollows
<1>11. RunsAccounted'
    <2>1. /\ Cardinality(Places(log', OpenTypes)) = Cardinality(Places(k, OpenTypes)) + 1
          /\ Cardinality(Places(log', EndTypes)) = Cardinality(Places(k, EndTypes))
          /\ Cardinality(Places(k, OpenTypes)) \in Nat /\ Cardinality(Places(k, EndTypes)) \in Nat
        <3>1. Appended(k, a, log')
            BY DEF Appended
        <3> QED BY <3>1, CountOpening
    <2>2. Cardinality(Places(log, OpenTypes))
            = Cardinality(Places(log, EndTypes)) + Len(table) + evicted
        BY DEF CorePart, RunsAccounted, CountOf, Places
    <2>3. Cardinality(Places(log', OpenTypes))
            = Cardinality(Places(log', EndTypes)) + Len(table') + evicted'
        <3>1. /\ Len(table) \in Nat /\ Len(table') \in Nat /\ evicted \in Nat /\ evicted' \in Nat
              /\ Len(table') + evicted' = Len(table) + evicted + 1
            BY <1>1, <1>8
        <3>2. /\ Cardinality(Places(k, OpenTypes)) = Cardinality(Places(log, OpenTypes))
              /\ Cardinality(Places(k, EndTypes)) = Cardinality(Places(log, EndTypes))
            OBVIOUS
        <3>3. /\ Cardinality(Places(k, OpenTypes)) \in Nat /\ Cardinality(Places(k, EndTypes)) \in Nat
              /\ Cardinality(Places(k, OpenTypes))
                    = Cardinality(Places(k, EndTypes)) + Len(table) + evicted
            BY <2>1, <2>2, <3>2
        <3> DEFINE o == Cardinality(Places(k, OpenTypes))
                   e == Cardinality(Places(k, EndTypes))
                   l == Len(table)
                   m == Len(table')
                   x == evicted'
        <3>4. /\ o \in Nat /\ e \in Nat /\ l \in Nat /\ m \in Nat /\ evicted \in Nat /\ x \in Nat
              /\ o = e + l + evicted /\ m + x = l + evicted + 1
            BY ONLY <3>1, <3>3
        <3>5. o + 1 = e + m + x
            <4> HIDE DEF o, e, l, m, x
            <4> QED BY ONLY <3>4
        <3> QED BY ONLY <2>1, <3>5
    <2>4. CountOf(OpenTypes)' = Cardinality(Places(log', OpenTypes))
          /\ CountOf(EndTypes)' = Cardinality(Places(log', EndTypes))
        BY DEF CountOf, Places, OpenTypes, EndTypes
    <2>5. \A n, m \in 1..Len(log') : log'[n].type \in EndTypes /\ log'[m].type \in EndTypes
                                     /\ log'[n].run = log'[m].run => n = m
        BY <1>6 DEF WellFormed
    <2> QED BY <1>8, <2>3, <2>4, <2>5 DEF RunsAccounted, EndTypes
<1> QED
    BY <1>1, <1>2, <1>6, <1>8, <1>9, <1>10, <1>11 DEF CorePart

(* A run ends: the event that ends it, perhaps one of a hand-off. *)
LEMMA CloseKeeps ==
    ASSUME CorePart, NEW r \in Runs, Tracked(r), life[r] = "live",
           life' = [life EXCEPT ![r] = "over"],
           table' = Untracked(r), evicted' = evicted,
           log' \in Seq(Event), WellFormed(log'),
           \A i \in 1..Len(table) : Remembers(log', table[i]),
           \A n \in 1..Len(log') : (log'[n].run = r \/ \E m \in 1..Len(log) : log'[n] = log[m]),
           Cardinality(Places(log', OpenTypes)) = Cardinality(Places(log, OpenTypes)),
           Cardinality(Places(log', EndTypes)) = Cardinality(Places(log, EndTypes)) + 1,
           Cardinality(Places(log, EndTypes)) \in Nat
    PROVE  CorePart'
<1>1. /\ life \in [Runs -> {"new", "live", "over"}] /\ life' \in [Runs -> {"new", "live", "over"}]
      /\ table \in Seq(Info) /\ evicted \in Nat /\ log \in Seq(Event)
    BY DEF CorePart
<1>2. PlaceOf(r) \in 1..Len(table)
    BY <1>1, TrackedFacts
<1>3. /\ table' \in Seq(Info) /\ Len(table) \in Nat /\ Len(table') = Len(table) - 1
      /\ \A j \in 1..Len(table') : \E m \in 1..Len(table) : m # PlaceOf(r) /\ table'[j] = table[m]
                                    /\ m = IF j < PlaceOf(r) THEN j ELSE j + 1
    BY <1>1, <1>2, RemoveFacts DEF Untracked
<1>4. \A q \in Runs : life[q] # "new" => life'[q] # "new"
    BY <1>1
<1>5. TableFollows'
    <2>1. \A j \in 1..Len(table) : table[j].run \in Runs /\ life'[table[j].run] # "new"
        <3> TAKE j \in 1..Len(table)
        <3>1. table[j] \in Info
            BY <1>1
        <3> QED BY <1>4, <3>1 DEF CorePart, TableFollows, Info
    <2>2. \A i \in 1..Len(table') : Remembers(log', table'[i]) /\ life'[table'[i].run] # "new"
        <3> TAKE i \in 1..Len(table')
        <3>1. PICK m \in 1..Len(table) : table'[i] = table[m]
            BY <1>3
        <3> QED BY <2>1, <3>1
    <2>3. \A i, j \in 1..Len(table') : table'[i].run = table'[j].run => i = j
        <3> TAKE i, j \in 1..Len(table')
        <3>1. PICK m \in 1..Len(table) : table'[i] = table[m] /\ m = IF i < PlaceOf(r) THEN i ELSE i + 1
            BY <1>3
        <3>2. PICK n \in 1..Len(table) : table'[j] = table[n] /\ n = IF j < PlaceOf(r) THEN j ELSE j + 1
            BY <1>3
        <3>3. table'[i].run = table'[j].run => m = n
            BY <3>1, <3>2 DEF CorePart, TableFollows
        <3>4. m = n => i = j
            BY <1>2, <3>1, <3>2
        <3> QED BY <3>3, <3>4
    <2> QED BY <2>2, <2>3 DEF TableFollows
<1>6. LogFollows'
    <2>1. \A m \in 1..Len(log) : /\ life'[log[m].run] # "new"
                                 /\ log[m].type \in EndTypes => life'[log[m].run] = "over"
        <3> TAKE m \in 1..Len(log)
        <3>1. log[m] \in Event
            BY <1>1
        <3> QED BY <1>1, <3>1 DEF CorePart, LogFollows, Event
    <2>2. life'[r] = "over"
        BY <1>1
    <2>3. \A n \in 1..Len(log') : /\ life'[log'[n].run] # "new"
                                  /\ log'[n].type \in EndTypes => life'[log'[n].run] = "over"
        BY <2>1, <2>2
    <2> QED BY <2>3 DEF LogFollows, EndTypes
<1>7. RunsAccounted'
    <2>1. /\ Cardinality(Places(log, OpenTypes))
                = Cardinality(Places(log, EndTypes)) + Len(table) + evicted
          /\ Len(table) <= MaxRuns
        BY DEF CorePart, RunsAccounted, CountOf, Places
    <2>2. Cardinality(Places(log', OpenTypes))
            = Cardinality(Places(log', EndTypes)) + Len(table') + evicted'
        BY <1>1, <1>3, <2>1
    <2>3. CountOf(OpenTypes)' = Cardinality(Places(log', OpenTypes))
          /\ CountOf(EndTypes)' = Cardinality(Places(log', EndTypes))
        BY DEF CountOf, Places, OpenTypes, EndTypes
    <2>4. \A n, m \in 1..Len(log') : log'[n].type \in EndTypes /\ log'[m].type \in EndTypes
                                     /\ log'[n].run = log'[m].run => n = m
        BY DEF WellFormed
    <2>5. Len(table') <= MaxRuns
        BY <1>3, <2>1, InstrumentAssumption
    <2> QED BY <2>2, <2>3, <2>4, <2>5 DEF RunsAccounted, EndTypes
<1> QED
    BY <1>1, <1>3, <1>5, <1>6, <1>7 DEF CorePart

LEMMA ParentFacts ==
    ASSUME CorePart, NEW p, NEW parent \in Parent(p)
    PROVE  /\ parent \in Info
           /\ parent.open \in 1..Len(log) /\ log[parent.open].trace = parent.trace
<1>1. table \in Seq(Info)
    BY DEF CorePart
<1>2. Tracked(p) /\ parent = InfoOf(p)
    BY DEF Parent
<1>3. PlaceOf(p) \in 1..Len(table) /\ parent = table[PlaceOf(p)] /\ parent \in Info
    BY <1>1, <1>2, TrackedFacts
<1> QED BY <1>3 DEF CorePart, TableFollows, Remembers

(* Who opens only its own event. *)
LEMMA OpensAlone ==
    ASSUME CorePart, NEW r \in Runs, life[r] = "new", life' = [life EXCEPT ![r] = "live"],
           NEW a \in Event, a.run = r, a.type \in OpenTypes, a.cause <= Len(log),
           a.cause # 0 => log[a.cause].trace = a.trace, a.cause = 0 => a.trace = r,
           Emit(<<a>>),
           NEW info \in Info, info.run = r, info.open = Len(log) + 1, info.trace = a.trace,
           info.handoff = 0, Put(info)
    PROVE  CorePart'
<1>1. log \in Seq(Event) /\ WellFormed(log) /\ \A i \in 1..Len(table) : Remembers(log, table[i])
    BY DEF CorePart, TableFollows
<1>2. log' = log \o <<a>>
    BY DEF Emit
<1>3. Remembers(log', info)
    <2>1. Len(log) \in Nat /\ Len(log') = Len(log) + 1 /\ log'[Len(log')] = a
        BY <1>1, <1>2, OneMore
    <2> QED BY <2>1 DEF Remembers
<1>4. \A n \in 1..Len(log) : \/ log[n].run = r /\ log[n].type = "handoff.started"
                             \/ \E m \in 1..Len(log) : log[n] = log[m]
    OBVIOUS
<1> QED BY <1>1, <1>2, <1>3, <1>4, OpenKeeps

LEMMA AgentOpens ==
    ASSUME CorePart, NEW r \in Runs, NEW p \in Runs \cup {None}, life[r] = "new",
           life' = [life EXCEPT ![r] = "live"], OpenAgentRun(r, p)
    PROVE  CorePart'
<1>1. log \in Seq(Event) /\ WellFormed(log) /\ \A i \in 1..Len(table) : Remembers(log, table[i])
    BY DEF CorePart, TableFollows
<1>2. Len(log) \in Nat
    BY <1>1
<1>3. CASE Parent(p) = {}
    <2> DEFINE a == [type |-> "task.created", run |-> r, session |-> r, trace |-> r, cause |-> 0]
               info == [run |-> r, session |-> r, trace |-> r, open |-> Len(log) + 1,
                        handoff |-> 0, upper |-> None]
    <2>1. Emit(<<a>>) /\ Put(info)
        BY <1>3 DEF OpenAgentRun
    <2>2. a \in Event /\ a.run = r /\ a.type \in OpenTypes /\ a.cause = 0 /\ a.trace = r
        BY DEF Event, OpenTypes
    <2>3. info \in Info /\ info.run = r /\ info.open = Len(log) + 1 /\ info.trace = r
          /\ info.handoff = 0
        BY <1>2 DEF Info
    <2> HIDE DEF a, info
    <2>4. a.cause <= Len(log)
        BY <1>2, <2>2
    <2> QED BY <2>1, <2>2, <2>3, <2>4, OpensAlone
<1>4. CASE \E parent \in Parent(p) : TRUE
    <2>1. PICK parent \in Parent(p) :
             /\ Emit(<<[type |-> "handoff.started", run |-> r, session |-> parent.session,
                        trace |-> parent.trace, cause |-> parent.open],
                       [type |-> "task.created", run |-> r, session |-> r,
                        trace |-> parent.trace, cause |-> Len(log) + 1]>>)
             /\ Put([run |-> r, session |-> r, trace |-> parent.trace, open |-> Len(log) + 2,
                     handoff |-> Len(log) + 1, upper |-> parent.session])
        BY <1>4 DEF OpenAgentRun
    <2>2. /\ parent \in Info /\ parent.open \in 1..Len(log)
          /\ log[parent.open].trace = parent.trace
        BY ParentFacts
    <2>3. parent.session \in Runs /\ parent.trace \in Runs
        BY <2>2 DEF Info
    <2> DEFINE h == [type |-> "handoff.started", run |-> r, session |-> parent.session,
                     trace |-> parent.trace, cause |-> parent.open]
               a == [type |-> "task.created", run |-> r, session |-> r,
                     trace |-> parent.trace, cause |-> Len(log) + 1]
               info == [run |-> r, session |-> r, trace |-> parent.trace, open |-> Len(log) + 2,
                        handoff |-> Len(log) + 1, upper |-> parent.session]
               k == log \o <<h>>
    <2>4. Emit(<<h, a>>) /\ Put(info)
        BY <2>1
    <2>5. /\ h \in Event /\ h.run = r /\ h.type = "handoff.started" /\ h.cause = parent.open
          /\ h.trace = parent.trace /\ h.session = parent.session
        BY <1>2, <2>2, <2>3 DEF Event
    <2>6. /\ a \in Event /\ a.run = r /\ a.type = "task.created" /\ a.cause = Len(log) + 1
          /\ a.trace = parent.trace
        BY <1>2, <2>3 DEF Event, OpenTypes
    <2>7. /\ info \in Info /\ info.run = r /\ info.open = Len(log) + 2 /\ info.trace = parent.trace
          /\ info.handoff = Len(log) + 1 /\ info.upper = parent.session
        BY <1>2, <2>3 DEF Info
    <2>8. k = log \o <<h>>
        OBVIOUS
    <2> HIDE DEF h, a, info, k
    <2>9. log' = k \o <<a>>
        <3>1. log' = log \o <<h, a>>
            BY ONLY <2>4 DEF Emit
        <3>2. log \in Seq(Event)
            BY ONLY <1>1
        <3>3. h \in Event /\ a \in Event
            BY ONLY <2>5, <2>6
        <3>4. log \o <<h, a>> = (log \o <<h>>) \o <<a>>
            BY ONLY <3>2, <3>3, TwoMore
        <3> QED BY ONLY <2>8, <3>1, <3>4
    <2>10. /\ k \in Seq(Event) /\ Len(k) = Len(log) + 1
           /\ \A n \in 1..Len(log) : n \in 1..Len(k) /\ k[n] = log[n]
           /\ k[Len(k)] = h
           /\ \A n \in 1..Len(k) : n \in 1..Len(log) \/ n = Len(k)
        BY <1>1, <2>5, <2>8, OneMore
    <2>11. Fits(log, h)
        BY <1>2, <2>2, <2>5 DEF Fits, OpenTypes, EndTypes
    <2>12. WellFormed(k)
        BY <1>1, <2>5, <2>8, <2>11, StaysWellFormed
    <2>13. \A i \in 1..Len(table) : Remembers(k, table[i])
        BY <1>1, <2>5, <2>8, StillRemembers
    <2>14. \A n \in 1..Len(k) : \/ k[n].run = r /\ k[n].type = "handoff.started"
                                \/ \E m \in 1..Len(log) : k[n] = log[m]
        BY <2>5, <2>10
    <2>15. \A types \in {OpenTypes, EndTypes} :
             Cardinality(Places(k, types)) = Cardinality(Places(log, types))
        <3>1. h.type \notin OpenTypes \cup EndTypes /\ Appended(log, h, k)
            BY <2>5, <2>8 DEF OpenTypes, EndTypes, Appended
        <3>2. /\ Cardinality(Places(log, OpenTypes)) \in Nat /\ Cardinality(Places(log, EndTypes)) \in Nat
              /\ Cardinality(Places(k, OpenTypes)) = Cardinality(Places(log, OpenTypes)) + 0
              /\ Cardinality(Places(k, EndTypes)) = Cardinality(Places(log, EndTypes)) + 0
            BY <1>1, <2>5, <3>1, CountOther
        <3> QED BY <3>2
    <2>16. /\ a.type \in OpenTypes /\ a.cause <= Len(k) /\ k[a.cause].trace = a.trace
           /\ a.cause # 0
        BY <1>2, <2>5, <2>6, <2>10 DEF OpenTypes
    <2>17. Remembers(log', info)
        <3>1. /\ Len(log') = Len(k) + 1 /\ log'[Len(log')] = a
              /\ \A n \in 1..Len(k) : n \in 1..Len(log') /\ log'[n] = k[n]
            BY <2>6, <2>9, <2>10, OneMore
        <3>2. Len(k) \in 1..Len(k) /\ Len(log') \in 1..Len(log') /\ Len(log') = Len(log) + 2
            BY <1>2, <2>10, <3>1
        <3>3. log'[info.handoff] = h /\ info.handoff \in 1..Len(log')
            BY <2>7, <2>10, <3>1, <3>2
        <3>4. log'[info.open] = a /\ info.open \in 1..Len(log')
            BY <2>7, <3>1, <3>2
        <3> QED BY <2>5, <2>6, <2>7, <3>3, <3>4 DEF Remembers
    <2> QED BY <2>4, <2>6, <2>7, <2>9, <2>10, <2>12, <2>13, <2>14, <2>15, <2>16, <2>17, OpenKeeps
<1> QED BY <1>3, <1>4

LEMMA ToolOpens ==
    ASSUME CorePart, NEW r \in Runs, NEW p \in Runs \cup {None}, life[r] = "new",
           life' = [life EXCEPT ![r] = "live"], OpenToolRun(r, p)
    PROVE  CorePart'
<1>1. Len(log) \in Nat
    BY DEF CorePart
<1>2. CASE Parent(p) = {}
    <2> DEFINE a == [type |-> "tool.called", run |-> r, session |-> r, trace |-> r, cause |-> 0]
               info == [run |-> r, session |-> r, trace |-> r, open |-> Len(log) + 1,
                        handoff |-> 0, upper |-> None]
    <2>1. Emit(<<a>>) /\ Put(info)
        BY <1>2 DEF OpenToolRun
    <2>2. a \in Event /\ a.run = r /\ a.type \in OpenTypes /\ a.cause = 0 /\ a.trace = r
        BY DEF Event, OpenTypes
    <2>3. info \in Info /\ info.run = r /\ info.open = Len(log) + 1 /\ info.trace = r
          /\ info.handoff = 0
        BY <1>1 DEF Info
    <2> HIDE DEF a, info
    <2>4. a.cause <= Len(log)
        BY <1>1, <2>2
    <2> QED BY <2>1, <2>2, <2>3, <2>4, OpensAlone
<1>3. CASE \E parent \in Parent(p) : TRUE
    <2>1. PICK parent \in Parent(p) :
             /\ Emit(<<[type |-> "tool.called", run |-> r, session |-> parent.session,
                        trace |-> parent.trace, cause |-> parent.open]>>)
             /\ Put([run |-> r, session |-> parent.session, trace |-> parent.trace,
                     open |-> Len(log) + 1, handoff |-> 0, upper |-> parent.upper])
        BY <1>3 DEF OpenToolRun
    <2>2. /\ parent \in Info /\ parent.open \in 1..Len(log)
          /\ log[parent.open].trace = parent.trace
        BY ParentFacts
    <2>3. parent.session \in Runs /\ parent.trace \in Runs /\ parent.upper \in Runs \cup {None}
        BY <2>2 DEF Info
    <2> DEFINE a == [type |-> "tool.called", run |-> r, session |-> parent.session,
                     trace |-> parent.trace, cause |-> parent.open]
               info == [run |-> r, session |-> parent.session, trace |-> parent.trace,
                        open |-> Len(log) + 1, handoff |-> 0, upper |-> parent.upper]
    <2>4. Emit(<<a>>) /\ Put(info)
        BY <2>1
    <2>5. /\ a \in Event /\ a.run = r /\ a.type \in OpenTypes /\ a.cause = parent.open
          /\ a.trace = parent.trace
        BY <1>1, <2>2, <2>3 DEF Event, OpenTypes
    <2>6. /\ info \in Info /\ info.run = r /\ info.open = Len(log) + 1 /\ info.trace = parent.trace
          /\ info.handoff = 0
        BY <1>1, <2>3 DEF Info
    <2> HIDE DEF a, info
    <2>7. a.cause <= Len(log) /\ log[a.cause].trace = a.trace /\ a.cause # 0
        BY <1>1, <2>2, <2>5
    <2> QED BY <2>4, <2>5, <2>6, <2>7, OpensAlone
<1> QED BY <1>2, <1>3

(* The event that ends a tracked run. *)
LEMMA EndsWell ==
    ASSUME CorePart, NEW r \in Runs, Tracked(r), life[r] = "live",
           NEW a \in Event, a.run = r, a.type \in EndTypes, a.cause = InfoOf(r).open,
           a.trace = InfoOf(r).trace, NEW k, Appended(log, a, k)
    PROVE  /\ WellFormed(k) /\ k \in Seq(Event)
           /\ InfoOf(r) \in Info /\ InfoOf(r).run = r /\ Remembers(k, InfoOf(r))
           /\ \A i \in 1..Len(table) : Remembers(k, table[i])
           /\ \A n \in 1..Len(k) : (k[n].run = r \/ \E m \in 1..Len(log) : k[n] = log[m])
           /\ Cardinality(Places(k, OpenTypes)) = Cardinality(Places(log, OpenTypes))
           /\ Cardinality(Places(k, EndTypes)) = Cardinality(Places(log, EndTypes)) + 1
           /\ Cardinality(Places(log, OpenTypes)) \in Nat /\ Cardinality(Places(log, EndTypes)) \in Nat
<1>1. /\ table \in Seq(Info) /\ log \in Seq(Event) /\ WellFormed(log)
      /\ \A i \in 1..Len(table) : Remembers(log, table[i])
    BY DEF CorePart, TableFollows
<1>2. /\ PlaceOf(r) \in 1..Len(table) /\ InfoOf(r) = table[PlaceOf(r)] /\ InfoOf(r) \in Info
      /\ InfoOf(r).run = r
    BY <1>1, TrackedFacts
<1>3. a.cause \in 1..Len(log) /\ log[a.cause].trace = a.trace /\ Len(log) \in Nat
    BY <1>1, <1>2 DEF Remembers
<1>4. \A m \in 1..Len(log) : log[m].type \in EndTypes => log[m].run # r
    BY DEF CorePart, LogFollows
<1>5. Fits(log, a)
    BY <1>3, <1>4 DEF Fits, OpenTypes, EndTypes
<1>6. WellFormed(k)
    BY <1>1, <1>5, StaysWellFormed DEF Appended
<1>7. /\ k \in Seq(Event)
      /\ \A n \in 1..Len(log) : n \in 1..Len(k) /\ k[n] = log[n]
      /\ k[Len(k)] = a
      /\ \A n \in 1..Len(k) : n \in 1..Len(log) \/ n = Len(k)
    BY <1>1, OneMore DEF Appended
<1>8. \A i \in 1..Len(table) : Remembers(k, table[i])
    BY <1>1, StillRemembers DEF Appended
<1>9. /\ Cardinality(Places(log, OpenTypes)) \in Nat /\ Cardinality(Places(log, EndTypes)) \in Nat
      /\ Cardinality(Places(k, OpenTypes)) = Cardinality(Places(log, OpenTypes)) + 0
      /\ Cardinality(Places(k, EndTypes)) = Cardinality(Places(log, EndTypes)) + 1
    BY <1>1, CountEnding
<1>10. \A n \in 1..Len(k) : (k[n].run = r \/ \E m \in 1..Len(log) : k[n] = log[m])
    BY <1>7
<1>11. Remembers(k, InfoOf(r))
    BY <1>2, <1>8
<1>12. Cardinality(Places(k, OpenTypes)) = Cardinality(Places(log, OpenTypes))
    BY <1>9
<1> QED BY <1>2, <1>6, <1>7, <1>8, <1>9, <1>10, <1>11, <1>12

LEMMA ToolCloses ==
    ASSUME CorePart, NEW r \in Runs, Tracked(r), life[r] = "live",
           life' = [life EXCEPT ![r] = "over"], CloseToolRun(r)
    PROVE  CorePart'
<1> DEFINE info == InfoOf(r)
           a == [type |-> "tool.ended", run |-> r, session |-> info.session,
                 trace |-> info.trace, cause |-> info.open]
<1>1. Emit(<<a>>) /\ table' = Untracked(r) /\ evicted' = evicted
    BY DEF CloseToolRun
<1>2. info \in Info
    BY TrackedFacts DEF CorePart
<1>3. /\ a \in Event /\ a.run = r /\ a.type \in EndTypes /\ a.cause = InfoOf(r).open
      /\ a.trace = InfoOf(r).trace
    BY <1>2 DEF Info, Event, EndTypes
<1> HIDE DEF a, info
<1>4. Appended(log, a, log')
    BY <1>1 DEF Emit, Appended
<1>5. /\ WellFormed(log') /\ log' \in Seq(Event)
      /\ \A i \in 1..Len(table) : Remembers(log', table[i])
      /\ \A n \in 1..Len(log') : (log'[n].run = r \/ \E m \in 1..Len(log) : log'[n] = log[m])
      /\ Cardinality(Places(log', OpenTypes)) = Cardinality(Places(log, OpenTypes))
      /\ Cardinality(Places(log', EndTypes)) = Cardinality(Places(log, EndTypes)) + 1
      /\ Cardinality(Places(log, EndTypes)) \in Nat
    BY ONLY CorePart, r \in Runs, Tracked(r), life[r] = "live", <1>3, <1>4, EndsWell
<1> QED BY <1>1, <1>5, CloseKeeps

LEMMA AgentCloses ==
    ASSUME CorePart, NEW r \in Runs, Tracked(r), life[r] = "live",
           life' = [life EXCEPT ![r] = "over"], CloseAgentRun(r)
    PROVE  CorePart'
<1> DEFINE info == InfoOf(r)
           a == [type |-> "task.ended", run |-> r, session |-> info.session,
                 trace |-> info.trace, cause |-> info.open]
           b == [type |-> "handoff.completed", run |-> r, session |-> info.upper,
                 trace |-> info.trace, cause |-> info.handoff]
           k == log \o <<a>>
<1>1. /\ Emit(IF info.handoff = 0 THEN <<a>> ELSE <<a, b>>)
      /\ table' = Untracked(r) /\ evicted' = evicted
    BY DEF CloseAgentRun
<1>2. info \in Info
    BY TrackedFacts DEF CorePart
<1>3. /\ a \in Event /\ a.run = r /\ a.type \in EndTypes /\ a.cause = InfoOf(r).open
      /\ a.trace = InfoOf(r).trace
    BY <1>2 DEF Info, Event, EndTypes
<1>4. /\ b.type = "handoff.completed" /\ b.run = r /\ b.session = info.upper
      /\ b.trace = info.trace /\ b.cause = info.handoff
    OBVIOUS
<1>5. info.upper \in Runs => b \in Event
    BY <1>2 DEF Info, Event
<1>6. k = log \o <<a>>
    OBVIOUS
<1>7. info = InfoOf(r)
    OBVIOUS
<1> HIDE DEF a, b, k, info
<1>8. /\ WellFormed(k) /\ k \in Seq(Event)
      /\ info.run = r /\ Remembers(k, info)
      /\ \A i \in 1..Len(table) : Remembers(k, table[i])
      /\ \A n \in 1..Len(k) : (k[n].run = r \/ \E m \in 1..Len(log) : k[n] = log[m])
      /\ Cardinality(Places(k, OpenTypes)) = Cardinality(Places(log, OpenTypes))
      /\ Cardinality(Places(k, EndTypes)) = Cardinality(Places(log, EndTypes)) + 1
      /\ Cardinality(Places(log, OpenTypes)) \in Nat /\ Cardinality(Places(log, EndTypes)) \in Nat
    <2>1. Appended(log, a, k)
        BY <1>6 DEF Appended
    <2> QED BY ONLY CorePart, r \in Runs, Tracked(r), life[r] = "live", <1>3, <1>7, <2>1, EndsWell
<1>9. CASE info.handoff = 0
    <2>1. log' = k
        BY <1>1, <1>6, <1>9 DEF Emit
    <2> QED BY <1>1, <1>8, <2>1, CloseKeeps
<1>10. CASE info.handoff # 0
    <2>1. /\ info.handoff \in 1..Len(k) /\ k[info.handoff].type = "handoff.started"
          /\ k[info.handoff].run = r /\ k[info.handoff].trace = info.trace
          /\ k[info.handoff].session = info.upper
        BY <1>8, <1>10 DEF Remembers
    <2>2. k[info.handoff] \in Event
        BY <1>8, <2>1
    <2>3. b \in Event
        BY <1>5, <2>1, <2>2 DEF Event
    <2>4. log' = k \o <<b>>
        <3>1. log' = log \o <<a, b>>
            BY <1>1, <1>10 DEF Emit
        <3>2. log \in Seq(Event)
            BY DEF CorePart
        <3>3. a \in Event /\ b \in Event
            BY <1>3, <2>3
        <3>4. log \o <<a, b>> = (log \o <<a>>) \o <<b>>
            BY ONLY <3>2, <3>3, TwoMore
        <3> QED BY <1>6, <3>1, <3>4
    <2>5. Fits(k, b)
        BY <1>4, <1>8, <1>10, <2>1 DEF Fits, OpenTypes, EndTypes
    <2>6. WellFormed(log')
        BY <1>8, <2>3, <2>4, <2>5, StaysWellFormed
    <2>7. \A i \in 1..Len(table) : Remembers(log', table[i])
        BY <1>8, <2>3, <2>4, StillRemembers
    <2>8. /\ log' \in Seq(Event)
          /\ \A n \in 1..Len(k) : log'[n] = k[n]
          /\ log'[Len(log')] = b
          /\ \A n \in 1..Len(log') : n \in 1..Len(k) \/ n = Len(log')
        BY <1>8, <2>3, <2>4, OneMore
    <2>9. \A n \in 1..Len(log') : (log'[n].run = r \/ \E m \in 1..Len(log) : log'[n] = log[m])
        <3> TAKE n \in 1..Len(log')
        <3>1. CASE n \in 1..Len(k)
            BY <1>8, <2>8, <3>1
        <3>2. CASE n = Len(log')
            BY <1>4, <2>8, <3>2
        <3> QED BY <2>8, <3>1, <3>2
    <2>10. /\ Cardinality(Places(log', OpenTypes)) = Cardinality(Places(log, OpenTypes))
           /\ Cardinality(Places(log', EndTypes)) = Cardinality(Places(log, EndTypes)) + 1
        <3>1. b.type \notin OpenTypes \cup EndTypes /\ Appended(k, b, log')
            BY <1>4, <2>4 DEF OpenTypes, EndTypes, Appended
        <3>2. /\ Cardinality(Places(log', OpenTypes)) = Cardinality(Places(k, OpenTypes)) + 0
              /\ Cardinality(Places(log', EndTypes)) = Cardinality(Places(k, EndTypes)) + 0
            BY <1>8, <2>3, <3>1, CountOther
        <3> QED BY <1>8, <3>2
    <2> QED BY <1>1, <1>8, <2>6, <2>7, <2>8, <2>9, <2>10, CloseKeeps
<1> QED BY <1>9, <1>10

-----------------------------------------------------------------------------
(* The steps *)

(* What touches neither the events nor the table leaves the core in order,
   when runs only go on. *)
LEMMA CoreRests ==
    ASSUME CorePart, UNCHANGED coreVars, life' \in [Runs -> {"new", "live", "over"}],
           \A r \in Runs : /\ life[r] # "new" => life'[r] # "new"
                           /\ life[r] = "over" => life'[r] = "over"
    PROVE  CorePart'
<1>1. /\ table' = table /\ evicted' = evicted /\ log' = log
    BY DEF coreVars
<1>2. TableFollows'
    <2>1. \A i \in 1..Len(table) : Remembers(log, table[i]) /\ life'[table[i].run] # "new"
        <3> TAKE i \in 1..Len(table)
        <3>1. table[i] \in Info
            BY DEF CorePart
        <3>2. table[i].run \in Runs
            BY <3>1 DEF Info
        <3>3. Remembers(log, table[i]) /\ life[table[i].run] # "new"
            BY DEF CorePart, TableFollows
        <3> QED BY <3>2, <3>3
    <2> QED BY <1>1, <2>1 DEF CorePart, TableFollows
<1>3. LogFollows'
    <2>1. \A n \in 1..Len(log) : /\ life'[log[n].run] # "new"
                                 /\ log[n].type \in EndTypes => life'[log[n].run] = "over"
        <3> TAKE n \in 1..Len(log)
        <3>1. log[n] \in Event
            BY DEF CorePart
        <3>2. log[n].run \in Runs
            BY <3>1 DEF Event
        <3>3. life[log[n].run] # "new" /\ (log[n].type \in EndTypes => life[log[n].run] = "over")
            BY DEF CorePart, LogFollows
        <3> QED BY <3>2, <3>3
    <2> QED BY <1>1, <2>1 DEF LogFollows, EndTypes
<1>4. RunsAccounted'
    BY <1>1 DEF CorePart, RunsAccounted, CountOf, OpenTypes, EndTypes
<1> QED BY <1>1, <1>2, <1>3, <1>4 DEF CorePart

LEMMA CoreStep ==
    ASSUME CorePart, [Next]_vars
    PROVE  CorePart'
<1>1. life \in [Runs -> {"new", "live", "over"}]
    BY DEF CorePart
<1>2. ASSUME UNCHANGED <<life, coreVars>>  PROVE CorePart'
    BY <1>1, <1>2, CoreRests
<1>3. CASE Callback
    <2>1. PICK r \in Runs :
             \/ \E p \in Parents, node, hidden \in BOOLEAN : HandleChainStart(r, p, node, hidden)
             \/ \E p \in Parents : HandleToolStart(r, p)
             \/ HandleChainEnd(r)
             \/ HandleToolEnd(r)
        BY <1>3 DEF Callback
    <2>2. ASSUME NEW p \in Parents, Starts(r, "chain", p) \/ Starts(r, "tool", p)
          PROVE  /\ life[r] = "new" /\ life' = [life EXCEPT ![r] = "live"]
                 /\ UNCHANGED coreVars => CorePart'
        <3>1. life[r] = "new" /\ life' = [life EXCEPT ![r] = "live"]
            BY <2>2 DEF Starts
        <3> QED BY <1>1, <3>1, CoreRests
    <2>3. ASSUME Ends(r, "chain") \/ Ends(r, "tool")
          PROVE  /\ life[r] = "live" /\ life' = [life EXCEPT ![r] = "over"]
                 /\ UNCHANGED coreVars => CorePart'
        <3>1. life[r] = "live" /\ life' = [life EXCEPT ![r] = "over"]
            BY <2>3 DEF Ends
        <3> QED BY <1>1, <3>1, CoreRests
    <2>4. ASSUME NEW p \in Parents, NEW node \in BOOLEAN, NEW hidden \in BOOLEAN,
                 HandleChainStart(r, p, node, hidden)
          PROVE  CorePart'
        BY <2>2, <2>4, AgentOpens DEF HandleChainStart, Parents
    <2>5. ASSUME NEW p \in Parents, HandleToolStart(r, p)
          PROVE  CorePart'
        BY <2>2, <2>5, ToolOpens DEF HandleToolStart, Parents
    <2>6. CASE HandleChainEnd(r)
        BY <2>3, <2>6, AgentCloses DEF HandleChainEnd
    <2>7. CASE HandleToolEnd(r)
        BY <2>3, <2>7, ToolCloses DEF HandleToolEnd
    <2> QED BY <2>1, <2>4, <2>5, <2>6, <2>7
<1>4. CASE Exit
    BY <1>1, <1>4, CoreRests DEF Exit
<1>5. CASE Instrument \/ ImportFails \/ Uninstrument \/ \E c \in Cores : Installed(c)
    BY <1>2, <1>5 DEF Instrument, ImportFails, Uninstrument, Installed, frameVars
<1>6. CASE Network
    BY <1>2, <1>6 DEF Network, Arrive, Answer, TimeOut, frameVars
<1>7. CASE UNCHANGED vars
    BY <1>2, <1>7 DEF vars, frameVars
<1> QED BY <1>3, <1>4, <1>5, <1>6, <1>7 DEF Next

LEMMA CoreBegins ==
    ASSUME Init
    PROVE  CorePart
<1>1. life = [r \in Runs |-> "new"] /\ table = <<>> /\ evicted = 0 /\ log = <<>>
    BY DEF Init
<1>2. table \in Seq(Info) /\ log \in Seq(Event) /\ Len(table) = 0 /\ Len(log) = 0
    BY <1>1
<1>3. WellFormed(log) /\ TableFollows /\ LogFollows
    BY <1>2 DEF WellFormed, TableFollows, LogFollows
<1>4. RunsAccounted
    <2>1. CountOf(OpenTypes) = 0 /\ CountOf(EndTypes) = 0
        <3>1. \A types : {n \in 1..Len(log) : log[n].type \in types} = {}
            BY <1>2
        <3> QED BY <3>1, FS_EmptySet DEF CountOf
    <2>2. 0 <= MaxRuns
        BY InstrumentAssumption
    <2> QED BY <1>1, <1>2, <2>1, <2>2 DEF RunsAccounted
<1> QED BY <1>1, <1>2, <1>3, <1>4 DEF CorePart

THEOREM CoreInvariant == Spec => []CorePart
    BY CoreBegins, CoreStep, PTL DEF Spec

(* The events of every trace form one tree. *)
THEOREM EventsFormTrees == Spec => []TracesAreTrees
<1>1. CorePart => TracesAreTrees
    BY DEF CorePart, WellFormed, TracesAreTrees
<1> QED BY <1>1, CoreInvariant, PTL

(* Every opened run is ended, tracked or counted as evicted. *)
THEOREM RunsAreAccounted == Spec => []RunsAccounted
<1>1. CorePart => RunsAccounted
    BY DEF CorePart
<1> QED BY <1>1, CoreInvariant, PTL

(* No run is reported by two cores. *)
HeardOnce ==
    /\ DOMAIN hears = Runs /\ hears = [r \in Runs |-> hears[r]]
    /\ ReportedOnce

THEOREM RunsAreReportedOnce == Spec => []ReportedOnce
<1>1. Init => HeardOnce
    BY DEF Init, HeardOnce, ReportedOnce
<1>2. HeardOnce /\ [Next]_vars => HeardOnce'
    <2> SUFFICES ASSUME HeardOnce, [Next]_vars PROVE HeardOnce'
        OBVIOUS
    <2>1. ASSUME NEW r \in Runs, NEW p \in Parents, NEW k, Starts(r, k, p)
          PROVE  HeardOnce'
        <3>1. hears' = [hears EXCEPT ![r] = IF p = None THEN Injected ELSE hears[p]]
            BY <2>1 DEF Starts
        <3>2. Injected \subseteq {current} /\ \A c, d \in Injected : c = d
            BY DEF Injected
        <3> DEFINE new == IF p = None THEN Injected ELSE hears[p]
        <3>3. \A c, d \in new : c = d
            BY <3>2 DEF HeardOnce, ReportedOnce, Parents
        <3> HIDE DEF new
        <3>4. DOMAIN hears = Runs /\ hears' = [hears EXCEPT ![r] = new]
            BY <3>1 DEF HeardOnce, new
        <3>5. DOMAIN hears' = Runs /\ \A q \in Runs : hears'[q] = IF q = r THEN new ELSE hears[q]
            BY <3>4
        <3> QED BY <3>3, <3>4, <3>5 DEF HeardOnce, ReportedOnce
    <2>2. ASSUME UNCHANGED hears PROVE HeardOnce'
        BY <2>2 DEF HeardOnce, ReportedOnce
    <2> QED BY <2>1, <2>2 DEF Next, Callback, HandleChainStart, HandleToolStart, HandleChainEnd,
            HandleToolEnd, Ends, Exit, Instrument, ImportFails, Uninstrument, Installed, Network,
            Arrive, Answer, TimeOut, vars, frameVars
<1>3. HeardOnce => ReportedOnce
    BY DEF HeardOnce
<1> QED BY <1>1, <1>2, <1>3, PTL DEF Spec

-----------------------------------------------------------------------------
(* The emitter: what waits, in which order *)

Ordered(q, P, L, S, N) ==
    /\ q \in Seq(Nat) /\ \A i \in 1..Len(q) : q[i] \in 1..N
    /\ P \subseteq 1..N /\ L \subseteq 1..N /\ S \subseteq 1..N
    /\ \A n, m \in P : n = m
    /\ P = {} => q = <<>>
    /\ \A i, j \in 1..Len(q) : i < j => q[i] < q[j]
    /\ \A i \in 1..Len(q) : \A n \in P \cup L \cup S : n < q[i]
    /\ \A n \in P : \A m \in L \cup S : m <= n
    /\ P \cap L = {}

Waiting(q, P) == P \cup {q[i] : i \in 1..Len(q)}

LEMMA SubmitKeeps ==
    ASSUME NEW N \in Nat, NEW q, NEW P, NEW L, NEW S, Ordered(q, P, L, S, N),
           NEW s, s = Submitted([queue |-> q, posting |-> P], N + 1)
    PROVE  /\ s = [queue |-> s.queue, posting |-> s.posting]
           /\ Ordered(s.queue, s.posting, L, S, N + 1)
           /\ \/ Waiting(s.queue, s.posting) = Waiting(q, P)
              \/ Waiting(s.queue, s.posting) = Waiting(q, P) \cup {N + 1}
<1> DEFINE t == Append(q, N + 1)
<1>1. /\ q \in Seq(Nat) /\ Len(q) \in Nat /\ \A i \in 1..Len(q) : q[i] \in 1..N
    BY DEF Ordered
<1>2. /\ t \in Seq(Nat) /\ Len(t) = Len(q) + 1
      /\ \A i \in 1..Len(q) : i \in 1..Len(t) /\ t[i] = q[i]
      /\ t[Len(t)] = N + 1
      /\ \A i \in 1..Len(t) : i \in 1..Len(q) \/ i = Len(t)
    BY <1>1
<1>3. CASE Len(q) >= MaxQueue
    <2>1. s = [queue |-> q, posting |-> P]
        BY <1>3 DEF Submitted
    <2>2. s.queue = q /\ s.posting = P
        BY <2>1
    <2>3. Ordered(q, P, L, S, N + 1)
        BY DEF Ordered
    <2> QED BY <2>1, <2>2, <2>3
<1>4. CASE ~(Len(q) >= MaxQueue) /\ P # {}
    <2>1. s = [queue |-> t, posting |-> P]
        BY <1>4 DEF Submitted
    <2> HIDE DEF t
    <2>2. s.queue = t /\ s.posting = P
        BY <2>1
    <2>3. \A i \in 1..Len(t) : t[i] \in 1..(N + 1)
        BY <1>1, <1>2
    <2>4. \A i, j \in 1..Len(t) : i < j => t[i] < t[j]
        <3> TAKE i, j \in 1..Len(t)
        <3>1. CASE i \in 1..Len(q) /\ j \in 1..Len(q)
            BY <1>2, <3>1 DEF Ordered
        <3>2. CASE i \in 1..Len(q) /\ j = Len(t)
            BY <1>1, <1>2, <3>2
        <3>3. CASE i = Len(t)
            BY <1>1, <1>2, <3>3
        <3> QED BY <1>2, <3>1, <3>2, <3>3
    <2>5. \A i \in 1..Len(t) : \A n \in P \cup L \cup S : n < t[i]
        <3> TAKE i \in 1..Len(t)
        <3>1. CASE i \in 1..Len(q)
            BY <1>2, <3>1 DEF Ordered
        <3>2. CASE i = Len(t)
            BY <1>2, <3>2 DEF Ordered
        <3> QED BY <1>2, <3>1, <3>2
    <2>6. Ordered(t, P, L, S, N + 1)
        <3>1. /\ P \subseteq 1..(N + 1) /\ L \subseteq 1..(N + 1) /\ S \subseteq 1..(N + 1)
              /\ \A n, m \in P : n = m
              /\ \A n \in P : \A m \in L \cup S : m <= n
              /\ P \cap L = {}
            BY DEF Ordered
        <3>2. t \in Seq(Nat) /\ (P = {} => t = <<>>)
            BY <1>2, <1>4
        <3> QED BY <2>3, <2>4, <2>5, <3>1, <3>2 DEF Ordered
    <2>7. Waiting(t, P) = Waiting(q, P) \cup {N + 1}
        <3>1. \A i \in 1..Len(t) : t[i] \in {q[j] : j \in 1..Len(q)} \cup {N + 1}
            BY ONLY <1>1, <1>2
        <3>2. \A j \in 1..Len(q) : q[j] \in {t[i] : i \in 1..Len(t)}
            BY ONLY <1>2
        <3>3. N + 1 \in {t[i] : i \in 1..Len(t)}
            <4>1. Len(t) \in 1..Len(t)
                BY ONLY <1>1, <1>2
            <4> QED BY ONLY <1>2, <4>1
        <3> QED BY ONLY <3>1, <3>2, <3>3 DEF Waiting
    <2> QED BY <2>1, <2>2, <2>6, <2>7
<1>5. CASE ~(Len(q) >= MaxQueue) /\ P = {}
    <2>1. s = [queue |-> Tail(t), posting |-> {Head(t)}]
        BY <1>5 DEF Submitted
    <2>2. q = <<>> /\ t = <<N + 1>>
        BY <1>1, <1>5 DEF Ordered
    <2>3. Tail(t) = <<>> /\ Head(t) = N + 1
        BY <2>2
    <2>4. s.queue = <<>> /\ s.posting = {N + 1}
        <3>1. s = [queue |-> <<>>, posting |-> {N + 1}]
            BY <2>1, <2>3
        <3> QED BY ONLY <3>1
    <2>5. Ordered(<<>>, {N + 1}, L, S, N + 1)
        BY DEF Ordered
    <2>6. Waiting(<<>>, {N + 1}) = Waiting(q, P) \cup {N + 1}
        BY <1>5, <2>2 DEF Waiting
    <2> QED BY <2>1, <2>4, <2>5, <2>6
<1> QED BY <1>3, <1>4, <1>5

LEMMA DrainKeeps ==
    ASSUME NEW N \in Nat, NEW L, NEW S, Ordered(queue, posting, L, S, N),
           NEW n \in posting, Drain(n)
    PROVE  /\ Ordered(queue', posting', L, S, N)
           /\ Ordered(queue', posting', L \cup {n}, S, N)
           /\ n \notin Waiting(queue', posting')
           /\ Waiting(queue, posting) = Waiting(queue', posting') \cup {n}
           /\ \A m \in Waiting(queue, posting) : n <= m
<1>1. /\ queue \in Seq(Nat) /\ Len(queue) \in Nat /\ posting = {n} /\ n \in 1..N
    <2>1. posting \subseteq 1..N /\ \A m, o \in posting : m = o
        BY DEF Ordered
    <2>2. posting = {n}
        BY <2>1
    <2> QED BY <2>1, <2>2 DEF Ordered
<1>2. \A m \in Waiting(queue, posting) : n <= m
    BY <1>1 DEF Ordered, Waiting
<1>3. CASE queue = <<>>
    <2>1. queue' = <<>> /\ posting' = {}
        BY <1>1, <1>3 DEF Drain
    <2>2. Ordered(<<>>, {}, L, S, N) /\ Ordered(<<>>, {}, L \cup {n}, S, N)
        BY <1>1 DEF Ordered
    <2>3. Waiting(queue, posting) = {n} /\ Waiting(<<>>, {}) = {}
        BY <1>1, <1>3 DEF Waiting
    <2> QED BY <1>2, <2>1, <2>2, <2>3
<1>4. CASE queue # <<>>
    <2> DEFINE t == Tail(queue)
               h == Head(queue)
    <2>1. queue' = t /\ posting' = {h}
        BY <1>1, <1>4 DEF Drain
    <2>2. /\ t \in Seq(Nat) /\ Len(t) = Len(queue) - 1 /\ \A i \in 1..Len(t) : t[i] = queue[i + 1]
          /\ h = queue[1] /\ 1 \in 1..Len(queue)
        BY <1>1, <1>4, HeadTailProperties
    <2> HIDE DEF t, h
    <2>3. /\ \A i \in 1..Len(t) : i + 1 \in 1..Len(queue)
          /\ \A i \in 1..Len(queue) : i = 1 \/ (i - 1 \in 1..Len(t) /\ t[i - 1] = queue[i])
        <3>1. Len(queue) \in Nat /\ Len(t) = Len(queue) - 1 /\ \A i \in 1..Len(t) : t[i] = queue[i + 1]
            BY ONLY <1>1, <2>2
        <3>2. \A i \in 1..Len(t) : i + 1 \in 1..Len(queue)
            BY ONLY <3>1
        <3>3. ASSUME NEW i \in 1..Len(queue), i # 1
              PROVE  i - 1 \in 1..Len(t) /\ t[i - 1] = queue[i]
            <4>1. i - 1 \in 1..Len(t) /\ (i - 1) + 1 = i
                BY ONLY <3>1, <3>3
            <4>2. t[i - 1] = queue[(i - 1) + 1]
                BY ONLY <3>1, <4>1
            <4> QED BY ONLY <4>1, <4>2
        <3> QED BY ONLY <3>2, <3>3
    <2>4. \A i \in 1..Len(t) : t[i] \in 1..N /\ h < t[i]
        BY <2>2, <2>3 DEF Ordered
    <2>5. \A i, j \in 1..Len(t) : i < j => t[i] < t[j]
        <3> TAKE i, j \in 1..Len(t)
        <3>1. /\ t[i] = queue[i + 1] /\ t[j] = queue[j + 1]
              /\ i + 1 \in 1..Len(queue) /\ j + 1 \in 1..Len(queue)
            BY <2>2, <2>3
        <3>2. i < j => i + 1 < j + 1
            OBVIOUS
        <3> QED BY <3>1, <3>2 DEF Ordered
    <2>6. h \in 1..N /\ n < h /\ \A m \in L \cup S : m < h
        BY <2>2 DEF Ordered
    <2>7. \A i \in 1..Len(t) : \A m \in L \cup S \cup {n} : m < t[i]
        BY <2>2, <2>3 DEF Ordered
    <2>8. Ordered(t, {h}, L, S, N) /\ Ordered(t, {h}, L \cup {n}, S, N)
        <3>1. /\ L \subseteq 1..N /\ S \subseteq 1..N
            BY DEF Ordered
        <3>2. h \notin L \cup {n}
            BY <1>1, <2>6
        <3>3. /\ {h} \subseteq 1..N /\ L \cup {n} \subseteq 1..N
              /\ \A m, o \in {h} : m = o
              /\ {h} \cap L = {} /\ {h} \cap (L \cup {n}) = {}
              /\ {h} # {}
            BY <1>1, <2>6, <3>1, <3>2
        <3>4. /\ \A m \in {h} : \A o \in L \cup S : o <= m
              /\ \A m \in {h} : \A o \in (L \cup {n}) \cup S : o <= m
            BY <1>1, <2>6, <3>1
        <3>5. /\ \A i \in 1..Len(t) : \A m \in {h} \cup L \cup S : m < t[i]
              /\ \A i \in 1..Len(t) : \A m \in {h} \cup (L \cup {n}) \cup S : m < t[i]
            BY <2>4, <2>7
        <3>6. t \in Seq(Nat) /\ \A i \in 1..Len(t) : t[i] \in 1..N
            BY <2>2, <2>4
        <3>7. Ordered(t, {h}, L, S, N)
            BY <2>5, <3>1, <3>3, <3>4, <3>5, <3>6 DEF Ordered
        <3>8. Ordered(t, {h}, L \cup {n}, S, N)
            BY <2>5, <3>1, <3>3, <3>4, <3>5, <3>6 DEF Ordered
        <3> QED BY <3>7, <3>8
    <2>9. n \notin Waiting(t, {h})
        BY <1>1, <2>4, <2>6, <2>7 DEF Waiting
    <2>10. Waiting(queue, posting) = Waiting(t, {h}) \cup {n}
        <3>1. {queue[i] : i \in 1..Len(queue)} = {h} \cup {t[i] : i \in 1..Len(t)}
            <4>1. ASSUME NEW i \in 1..Len(queue)
                  PROVE  queue[i] = h \/ \E j \in 1..Len(t) : t[j] = queue[i]
                BY <2>2, <2>3
            <4>2. ASSUME NEW i \in 1..Len(t)
                  PROVE  \E j \in 1..Len(queue) : t[i] = queue[j]
                BY <2>2, <2>3
            <4>3. {queue[i] : i \in 1..Len(queue)} \subseteq {h} \cup {t[i] : i \in 1..Len(t)}
                BY <4>1
            <4>4. {t[i] : i \in 1..Len(t)} \subseteq {queue[i] : i \in 1..Len(queue)}
                BY <4>2
            <4>5. h \in {queue[i] : i \in 1..Len(queue)}
                BY <2>2
            <4> QED BY <4>3, <4>4, <4>5
        <3> QED BY <1>1, <3>1 DEF Waiting
    <2> QED BY <1>2, <2>1, <2>8, <2>9, <2>10
<1> QED BY <1>3, <1>4

EmitterPart ==
    /\ log \in Seq(Event)
    /\ Ordered(queue, posting, late, stored, Len(log))

\* The fate of an event, in terms of what waits.
FateOf(n, waiting) ==
    IF n \in stored THEN "received"
    ELSE IF n \in waiting THEN "pending"
    ELSE IF n \in late THEN "unknown"
    ELSE "lost"

fates == [n \in 1..Len(log) |-> FateOf(n, Waiting(queue, posting))]

LEMMA FatesFacts ==
    ASSUME EmitterPart
    PROVE  /\ [n \in 1..Len(log) |-> Fate(n)] = fates
           /\ QueueInOrder
<1>1. queue \in Seq(Nat) /\ DOMAIN queue = 1..Len(queue)
    BY DEF EmitterPart, Ordered
<1>2. posting \cup Range(queue) = Waiting(queue, posting)
    BY <1>1 DEF Range, Waiting
<1>3. \A n \in 1..Len(log) : Fate(n) = FateOf(n, Waiting(queue, posting))
    BY <1>2 DEF Fate, FateOf
<1>4. QueueInOrder
    BY <1>1 DEF EmitterPart, Ordered, QueueInOrder
<1> QED BY <1>3, <1>4 DEF fates

LEMMA FatesAfter ==
    ASSUME EmitterPart'
    PROVE  /\ [n \in 1..Len(log') |-> Fate(n)'] = fates'
           /\ QueueInOrder'
<1>1. queue' \in Seq(Nat) /\ DOMAIN queue' = 1..Len(queue')
    BY DEF EmitterPart, Ordered
<1>2. posting' \cup Range(queue') = Waiting(queue', posting')
    BY <1>1 DEF Range, Waiting
<1>3. \A n \in 1..Len(log') : Fate(n)' = FateOf(n, Waiting(queue, posting))'
    BY <1>2 DEF Fate, FateOf
<1>4. QueueInOrder'
    BY <1>1 DEF EmitterPart, Ordered, QueueInOrder
<1> QED BY <1>3, <1>4 DEF fates

(* One or two events are built. *)
LEMMA EmitKeeps ==
    ASSUME EmitterPart, NEW a, NEW b, NEW es, es = <<a>> \/ es = <<a, b>>, Emit(es),
           log' \in Seq(Event), UNCHANGED netVars
    PROVE  EmitterPart' /\ Channel!Offer
<1> DEFINE N == Len(log)
           one == Submitted([queue |-> queue, posting |-> posting], N + 1)
           two == Submitted(one, N + 2)
<1>1. N \in Nat /\ log \in Seq(Event) /\ Ordered(queue, posting, late, stored, N)
    BY DEF EmitterPart
<1>2. late' = late /\ stored' = stored
    BY DEF netVars
<1>3. /\ one = [queue |-> one.queue, posting |-> one.posting]
      /\ Ordered(one.queue, one.posting, late, stored, N + 1)
      /\ \/ Waiting(one.queue, one.posting) = Waiting(queue, posting)
         \/ Waiting(one.queue, one.posting) = Waiting(queue, posting) \cup {N + 1}
    <2> HIDE DEF N
    <2> QED BY <1>1, SubmitKeeps
<1>4. /\ Ordered(two.queue, two.posting, late, stored, N + 2)
      /\ \/ Waiting(two.queue, two.posting) = Waiting(one.queue, one.posting)
         \/ Waiting(two.queue, two.posting) = Waiting(one.queue, one.posting) \cup {N + 2}
    <2> DEFINE q == one.queue
               P == one.posting
    <2>1. two = Submitted([queue |-> q, posting |-> P], (N + 1) + 1)
        BY <1>1, <1>3
    <2>2. Ordered(q, P, late, stored, N + 1) /\ N + 1 \in Nat
        BY <1>1, <1>3
    <2> HIDE DEF one, two, q, P, N
    <2>3. /\ Ordered(two.queue, two.posting, late, stored, (N + 1) + 1)
          /\ \/ Waiting(two.queue, two.posting) = Waiting(q, P)
             \/ Waiting(two.queue, two.posting) = Waiting(q, P) \cup {(N + 1) + 1}
        BY <2>1, <2>2, SubmitKeeps
    <2>4. (N + 1) + 1 = N + 2
        BY <1>1
    <2> QED BY <2>3, <2>4 DEF q, P
<1>5. /\ \/ Len(log') = N + 1 /\ queue' = one.queue /\ posting' = one.posting
         \/ Len(log') = N + 2 /\ queue' = two.queue /\ posting' = two.posting
    <2> DEFINE E == Event \cup {a, b}
    <2>1. log \in Seq(E) /\ a \in E /\ b \in E
        BY <1>1
    <2> HIDE DEF E
    <2>2. CASE es = <<a>>
        <3>1. Len(es) = 1 /\ log' = log \o <<a>>
            BY <2>2 DEF Emit
        <3>2. queue' = one.queue /\ posting' = one.posting
            BY <3>1 DEF Emit
        <3>3. Len(log') = N + 1
            BY <2>1, <3>1, OneMore
        <3> QED BY <3>2, <3>3
    <2>3. CASE es = <<a, b>>
        <3>1. Len(es) = 2 /\ log' = log \o <<a, b>>
            BY <2>3 DEF Emit
        <3>2. queue' = two.queue /\ posting' = two.posting
            BY <3>1 DEF Emit
        <3>3. log' = (log \o <<a>>) \o <<b>>
            BY <2>1, <3>1, TwoMore
        <3>4. log \o <<a>> \in Seq(E) /\ Len(log \o <<a>>) = N + 1
            BY <2>1, OneMore
        <3>5. Len(log') = (N + 1) + 1
            BY <2>1, <3>3, <3>4, OneMore
        <3> QED BY <1>1, <3>2, <3>5
    <2> QED BY <2>2, <2>3
<1> HIDE DEF N, one, two
<1>6. /\ Ordered(queue', posting', late', stored', Len(log'))
      /\ Len(log') \in Nat /\ N < Len(log')
      /\ \A n \in 1..N : n \in Waiting(queue', posting') <=> n \in Waiting(queue, posting)
    BY <1>1, <1>2, <1>3, <1>4, <1>5
<1>7. EmitterPart'
    BY <1>6 DEF EmitterPart
<1>8. Channel!Offer
    <2>1. \A n \in 1..N : fates'[n] = fates[n] /\ n \in 1..Len(log')
        <3> TAKE n \in 1..N
        <3>1. n \in 1..Len(log') /\ n \in 1..Len(log)
            BY <1>1, <1>6 DEF N
        <3>2. /\ fates'[n] = FateOf(n, Waiting(queue, posting))'
              /\ fates[n] = FateOf(n, Waiting(queue, posting))
            BY <3>1 DEF fates
        <3>3. FateOf(n, Waiting(queue, posting))' = FateOf(n, Waiting(queue, posting))
            BY <1>2, <1>6 DEF FateOf
        <3> QED BY <3>1, <3>2, <3>3
    <2>2. \A n \in (1..Len(log')) \ (1..N) : fates'[n] \in {"pending", "lost"}
        <3> TAKE n \in (1..Len(log')) \ (1..N)
        <3>1. n \notin late /\ n \notin stored
            BY <1>1 DEF Ordered
        <3>2. fates'[n] = FateOf(n, Waiting(queue, posting))'
            BY DEF fates
        <3> QED BY <1>2, <3>1, <3>2 DEF FateOf
    <2>3. /\ fates' \in Seq(Channel!Fates) /\ Len(fates') = Len(log') /\ Len(fates) = N
          /\ DOMAIN fates' = 1..Len(log') /\ DOMAIN fates = 1..N
        <3>1. \A n \in 1..Len(log') : fates'[n] \in Channel!Fates
            BY DEF fates, FateOf, Channel!Fates
        <3>2. fates' \in Seq(Channel!Fates) /\ Len(fates') = Len(log') /\ DOMAIN fates' = 1..Len(log')
            BY <1>6, <3>1 DEF fates
        <3>3. \A n \in 1..N : fates[n] \in Channel!Fates
            BY DEF fates, FateOf, Channel!Fates, N
        <3>4. fates \in Seq(Channel!Fates) /\ Len(fates) = N /\ DOMAIN fates = 1..N
            BY <1>1, <3>3 DEF fates, N
        <3> QED BY <3>2, <3>4
    <2>4. [n \in 1..Len(log) |-> Fate(n)] = fates /\ [n \in 1..Len(log') |-> Fate(n)'] = fates'
        BY <1>7, FatesFacts, FatesAfter
    <2> QED BY <1>6, <2>1, <2>2, <2>3, <2>4 DEF Channel!Offer
<1> QED BY <1>7, <1>8

LEMMA EmitterRestsToo ==
    ASSUME EmitterPart, UNCHANGED <<log, queue, posting, late, stored>>
    PROVE  EmitterPart' /\ UNCHANGED fates
BY DEF EmitterPart, fates, FateOf

(* The oldest event that waits is settled, or had arrived before. *)
LEMMA SettleKeeps ==
    ASSUME EmitterPart, NEW n \in posting, Drain(n), UNCHANGED <<log, stored>>,
           late' = late \/ late' = late \cup {n}
    PROVE  EmitterPart' /\ (Channel!Settle(n) \/ UNCHANGED fates)
<1> DEFINE N == Len(log)
<1>1. N \in Nat /\ log \in Seq(Event) /\ Ordered(queue, posting, late, stored, N)
    BY DEF EmitterPart
<1>2. /\ Ordered(queue', posting', late, stored, N)
      /\ Ordered(queue', posting', late \cup {n}, stored, N)
      /\ n \notin Waiting(queue', posting')
      /\ Waiting(queue, posting) = Waiting(queue', posting') \cup {n}
      /\ \A m \in Waiting(queue, posting) : n <= m
    <2> HIDE DEF N
    <2> QED BY <1>1, DrainKeeps
<1>3. EmitterPart'
    BY <1>1, <1>2 DEF EmitterPart
<1>4. [m \in 1..N |-> Fate(m)] = fates /\ [m \in 1..Len(log') |-> Fate(m)'] = fates'
    BY <1>3, FatesFacts, FatesAfter
<1>5. n \in 1..N /\ n \notin late /\ Len(log') = N
    BY <1>1 DEF Ordered
<1>6. \A m \in 1..N : m # n => fates'[m] = fates[m]
    BY <1>2, <1>5 DEF fates, FateOf
<1>7. DOMAIN fates = 1..N /\ DOMAIN fates' = 1..N
    BY <1>5 DEF fates
<1>8. CASE n \in stored
    <2>1. fates'[n] = fates[n]
        BY <1>5, <1>8 DEF fates, FateOf
    <2>2. fates' = fates
        BY <1>5, <1>6, <2>1 DEF fates
    <2> QED BY <1>3, <2>2
<1>9. CASE n \notin stored
    <2>1. fates[n] = "pending"
        BY <1>2, <1>5, <1>9 DEF fates, FateOf
    <2>2. fates'[n] \in {"received", "unknown", "lost"}
        BY <1>2, <1>5, <1>9 DEF fates, FateOf
    <2>3. \A m \in 1..(n - 1) : fates[m] # "pending"
        <3> TAKE m \in 1..(n - 1)
        <3>1. m \in 1..N /\ ~(n <= m)
            BY <1>1, <1>5
        <3>2. m \notin Waiting(queue, posting)
            BY <1>2, <3>1
        <3> QED BY <3>1, <3>2 DEF fates, FateOf
    <2>4. fates' = [fates EXCEPT ![n] = fates'[n]]
        <3>1. fates' = [m \in 1..N |-> fates'[m]] /\ fates = [m \in 1..N |-> fates[m]]
            BY <1>5 DEF fates
        <3> QED BY <1>5, <1>6, <3>1
    <2>5. Channel!Settle(n)
        BY <1>4, <2>1, <2>2, <2>3, <2>4 DEF Channel!Settle
    <2> QED BY <1>3, <2>5
<1> QED BY <1>8, <1>9

LEMMA ArriveKeeps ==
    ASSUME EmitterPart, NEW n, Arrive(n)
    PROVE  EmitterPart' /\ (Channel!Settle(n) \/ Channel!ArriveLate(n))
<1> DEFINE N == Len(log)
<1>1. N \in Nat /\ log \in Seq(Event) /\ Ordered(queue, posting, late, stored, N)
    BY DEF EmitterPart
<1>2. /\ n \in posting \cup late /\ n \notin stored /\ n \in 1..N
      /\ log' = log /\ queue' = queue /\ posting' = posting /\ late' = late
      /\ stored' = stored \cup {n}
    BY <1>1 DEF Arrive, coreVars, Ordered
<1>3. Ordered(queue, posting, late, stored \cup {n}, N)
    <2>1. \A i \in 1..Len(queue) : \A m \in posting \cup late \cup (stored \cup {n}) : m < queue[i]
        BY <1>1, <1>2 DEF Ordered
    <2>2. \A o \in posting : \A m \in late \cup (stored \cup {n}) : m <= o
        BY <1>1, <1>2 DEF Ordered
    <2>3. stored \cup {n} \subseteq 1..N
        BY <1>1, <1>2 DEF Ordered
    <2> QED BY <1>1, <2>1, <2>2, <2>3 DEF Ordered
<1>4. EmitterPart'
    BY <1>1, <1>2, <1>3 DEF EmitterPart
<1>5. [m \in 1..N |-> Fate(m)] = fates /\ [m \in 1..Len(log') |-> Fate(m)'] = fates'
    BY <1>4, FatesFacts, FatesAfter
<1>6. \A m \in 1..N : m # n => fates'[m] = fates[m]
    BY <1>2 DEF fates, FateOf
<1>7. fates'[n] = "received"
    BY <1>2 DEF fates, FateOf
<1>8. fates' = [fates EXCEPT ![n] = "received"]
    <2>1. fates' = [m \in 1..N |-> fates'[m]] /\ fates = [m \in 1..N |-> fates[m]]
        BY <1>2 DEF fates
    <2> QED BY <1>2, <1>6, <1>7, <2>1
<1>9. CASE n \in posting
    <2>1. fates[n] = "pending"
        BY <1>2, <1>9 DEF fates, FateOf, Waiting
    <2>2. \A m \in 1..(n - 1) : fates[m] # "pending"
        <3> TAKE m \in 1..(n - 1)
        <3>1. m \in 1..N /\ m < n
            BY <1>1, <1>2
        <3>2. m \notin posting
            BY <1>1, <1>9, <3>1 DEF Ordered
        <3>3. \A i \in 1..Len(queue) : queue[i] # m
            BY <1>1, <1>2, <1>9, <3>1 DEF Ordered
        <3> QED BY <3>1, <3>2, <3>3 DEF fates, FateOf, Waiting
    <2>3. Channel!Settle(n)
        BY <1>5, <1>8, <2>1, <2>2 DEF Channel!Settle
    <2> QED BY <1>4, <2>3
<1>10. CASE n \in late
    <2>1. n \notin posting /\ \A i \in 1..Len(queue) : queue[i] # n
        BY <1>1, <1>2, <1>10 DEF Ordered
    <2>2. fates[n] = "unknown"
        BY <1>2, <1>10, <2>1 DEF fates, FateOf, Waiting
    <2>3. Channel!ArriveLate(n)
        BY <1>5, <1>8, <2>2 DEF Channel!ArriveLate
    <2> QED BY <1>4, <2>3
<1> QED BY <1>2, <1>9, <1>10

LEMMA ExitKeeps ==
    ASSUME EmitterPart, Exit
    PROVE  EmitterPart' /\ Channel!Stop
<1> DEFINE N == Len(log)
<1>1. N \in Nat /\ log \in Seq(Event) /\ Ordered(queue, posting, late, stored, N)
    BY DEF EmitterPart
<1>2. /\ log' = log /\ queue' = <<>> /\ posting' = {} /\ late' = late \cup posting
      /\ stored' = stored
    BY DEF Exit, coreVars
<1>3. Ordered(<<>>, {}, late \cup posting, stored, N)
    BY <1>1 DEF Ordered
<1>4. EmitterPart'
    BY <1>1, <1>2, <1>3 DEF EmitterPart
<1>5. [m \in 1..N |-> Fate(m)] = fates /\ [m \in 1..Len(log') |-> Fate(m)'] = fates'
    BY <1>4, FatesFacts, FatesAfter
<1>6. DOMAIN fates = 1..N /\ DOMAIN fates' = 1..N
    BY <1>2 DEF fates
<1>7. Waiting(queue', posting') = {}
    BY <1>2 DEF Waiting
<1>8. \A n \in 1..N : IF fates[n] = "pending" THEN fates'[n] \in {"unknown", "lost"}
                                              ELSE fates'[n] = fates[n]
    <2> TAKE n \in 1..N
    <2>1. /\ fates[n] = FateOf(n, Waiting(queue, posting))
          /\ fates'[n] = FateOf(n, Waiting(queue, posting))'
        BY <1>2 DEF fates
    <2>2. n \notin Waiting(queue, posting) => n \notin posting
        BY DEF Waiting
    <2> QED BY <1>2, <1>7, <2>1, <2>2 DEF FateOf
<1>9. Channel!Stop
    BY <1>5, <1>6, <1>8 DEF Channel!Stop
<1> QED BY <1>4, <1>9

LEMMA EmitterStep ==
    ASSUME CorePart', EmitterPart, [Next]_vars
    PROVE  EmitterPart' /\ (Channel!Next \/ UNCHANGED fates)
<1>1. /\ log \in Seq(Event) /\ log' \in Seq(Event)
      /\ [n \in 1..Len(log) |-> Fate(n)] = fates /\ DOMAIN fates = 1..Len(log)
    BY FatesFacts DEF CorePart, EmitterPart, fates
<1>2. ASSUME UNCHANGED <<log, queue, posting, late, stored>>
      PROVE  EmitterPart' /\ (Channel!Next \/ UNCHANGED fates)
    BY <1>2, EmitterRestsToo
<1>3. ASSUME NEW a, NEW b, NEW es, es = <<a>> \/ es = <<a, b>>, Emit(es), UNCHANGED netVars
      PROVE  EmitterPart' /\ (Channel!Next \/ UNCHANGED fates)
    BY <1>1, <1>3, EmitKeeps DEF Channel!Next
<1>4. CASE Callback
    <2>1. PICK r \in Runs :
             \/ \E p \in Parents, node, hidden \in BOOLEAN : HandleChainStart(r, p, node, hidden)
             \/ \E p \in Parents : HandleToolStart(r, p)
             \/ HandleChainEnd(r)
             \/ HandleToolEnd(r)
        BY <1>4 DEF Callback
    <2>2. UNCHANGED netVars
        BY <2>1 DEF HandleChainStart, HandleToolStart, HandleChainEnd, HandleToolEnd, Starts, Ends
    <2>3. ASSUME NEW p \in Parents, NEW node \in BOOLEAN, NEW hidden \in BOOLEAN,
                 HandleChainStart(r, p, node, hidden)
          PROVE  EmitterPart' /\ (Channel!Next \/ UNCHANGED fates)
        <3>1. CASE OpenAgentRun(r, p)
            BY <1>3, <2>2, <3>1 DEF OpenAgentRun
        <3>2. CASE UNCHANGED <<coreVars, queue, posting>>
            BY <1>2, <2>2, <3>2 DEF coreVars, netVars
        <3> QED BY <2>3, <3>1, <3>2 DEF HandleChainStart
    <2>4. ASSUME NEW p \in Parents, HandleToolStart(r, p)
          PROVE  EmitterPart' /\ (Channel!Next \/ UNCHANGED fates)
        <3>1. CASE OpenToolRun(r, p)
            BY <1>3, <2>2, <3>1 DEF OpenToolRun
        <3>2. CASE UNCHANGED <<coreVars, queue, posting>>
            BY <1>2, <2>2, <3>2 DEF coreVars, netVars
        <3> QED BY <2>4, <3>1, <3>2 DEF HandleToolStart
    <2>5. CASE HandleChainEnd(r)
        <3>1. CASE CloseAgentRun(r)
            BY <1>3, <2>2, <3>1 DEF CloseAgentRun
        <3>2. CASE UNCHANGED <<coreVars, queue, posting>>
            BY <1>2, <2>2, <3>2 DEF coreVars, netVars
        <3> QED BY <2>5, <3>1, <3>2 DEF HandleChainEnd
    <2>6. CASE HandleToolEnd(r)
        <3>1. CASE CloseToolRun(r)
            BY <1>3, <2>2, <3>1 DEF CloseToolRun
        <3>2. CASE UNCHANGED <<coreVars, queue, posting>>
            BY <1>2, <2>2, <3>2 DEF coreVars, netVars
        <3> QED BY <2>6, <3>1, <3>2 DEF HandleToolEnd
    <2> QED BY <2>1, <2>3, <2>4, <2>5, <2>6
<1>5. CASE Network
    <2>1. PICK n \in 1..Len(log) : Arrive(n) \/ Answer(n) \/ TimeOut(n)
        BY <1>5 DEF Network
    <2>2. CASE Arrive(n)
        BY <1>1, <2>1, <2>2, ArriveKeeps DEF Channel!Next
    <2>3. CASE Answer(n) \/ TimeOut(n)
        <3>1. /\ n \in posting /\ Drain(n) /\ UNCHANGED <<log, stored>>
              /\ late' = late \/ late' = late \cup {n}
            BY <2>3 DEF Answer, TimeOut, coreVars, netVars
        <3> QED BY <1>1, <2>1, <3>1, SettleKeeps DEF Channel!Next
    <2> QED BY <2>1, <2>2, <2>3
<1>6. CASE Exit
    BY <1>6, ExitKeeps DEF Channel!Next
<1>7. CASE Instrument \/ ImportFails \/ Uninstrument \/ \E c \in Cores : Installed(c)
    BY <1>2, <1>7 DEF Instrument, ImportFails, Uninstrument, Installed, coreVars, netVars
<1>8. CASE UNCHANGED vars
    BY <1>2, <1>8 DEF vars, coreVars, netVars
<1> QED BY <1>4, <1>5, <1>6, <1>7, <1>8 DEF Next

(* The emitter implements the channel. *)
THEOREM EmitterImplementsChannel == Spec => ImplementsChannel
<1>1. Init => Channel!Init /\ EmitterPart
    <2> SUFFICES ASSUME Init PROVE Channel!Init /\ EmitterPart
        OBVIOUS
    <2>1. log = <<>> /\ queue = <<>> /\ posting = {} /\ late = {} /\ stored = {}
        BY DEF Init
    <2>2. log \in Seq(Event) /\ Len(log) = 0
        BY <2>1
    <2>3. Ordered(<<>>, {}, {}, {}, 0)
        BY DEF Ordered
    <2>4. [n \in 1..Len(log) |-> Fate(n)] = <<>>
        BY <2>2
    <2> QED BY <2>1, <2>2, <2>3, <2>4 DEF EmitterPart, Channel!Init
<1>2. CorePart' /\ EmitterPart /\ [Next]_vars
        => EmitterPart' /\ [Channel!Next]_([n \in 1..Len(log) |-> Fate(n)])
    <2> SUFFICES ASSUME CorePart', EmitterPart, [Next]_vars
                 PROVE  EmitterPart' /\ (Channel!Next \/ UNCHANGED [n \in 1..Len(log) |-> Fate(n)])
        OBVIOUS
    <2>1. EmitterPart' /\ (Channel!Next \/ UNCHANGED fates)
        BY EmitterStep
    <2>2. [n \in 1..Len(log) |-> Fate(n)] = fates /\ [n \in 1..Len(log') |-> Fate(n)'] = fates'
        BY <2>1, FatesFacts, FatesAfter
    <2> QED BY <2>1, <2>2
<1> QED BY <1>1, <1>2, CoreInvariant, PTL DEF Spec, ImplementsChannel, Channel!Spec
=============================================================================
