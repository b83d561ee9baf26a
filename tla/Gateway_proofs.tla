--------------------------- MODULE Gateway_proofs ---------------------------
(* Theorems of Gateway, for every value of its constants. *)
EXTENDS Gateway, FiniteSetTheorems, WellFoundedInduction, TLAPS

(* The invariant in three parts, one for each group of variables. *)
SchemaPart ==
    /\ applied \subseteq Versions
    /\ ran \in [Versions -> Nat]
    /\ phase \in [Processes -> {"down", "started", "migrating", "listening", "draining"}]
    /\ seen \in [Processes -> SUBSET Versions]
    /\ SchemaBeforeTraffic
    /\ \A p \in Processes : seen[p] \subseteq applied

TicketPart ==
    /\ ticket \in [Tickets -> Callers \cup {None}]
    /\ past \subseteq Tickets /\ sold \subseteq Tickets
    /\ uses \in [Tickets -> Nat]
    /\ TicketsOnce
    /\ \A t \in Tickets \ sold : uses[t] = 0

HubPart ==
    /\ conn \in [Clients -> {"none", "open", "gone"}]
    /\ opener \in [Clients -> Callers \cup {None}]
    /\ slots \subseteq Tenants \X Clients
    /\ timers \subseteq Clients
    /\ HubAccounted
    /\ IsFiniteSet(slots)

LEMMA Parts == IInv <=> SchemaPart /\ TicketPart /\ HubPart
BY DEF IInv, TypeOK, SchemaPart, TicketPart, HubPart

-----------------------------------------------------------------------------
(* The schema *)

(* The next migration is one that the process has not seen. *)
LEMMA NextVersionIsPending ==
    ASSUME NEW p \in Processes, Pending(p) # {}
    PROVE  NextVersion(p) \in Pending(p)
<1>1. Pending(p) \subseteq Nat
    BY DEF Pending, Versions
<1>2. \E v \in Pending(p) : \A w \in Pending(p) : ~(<<w, v>> \in OpToRel(<, Nat))
    BY <1>1, NatLessThanWellFounded, WFMin
<1>3. PICK v \in Pending(p) : \A w \in Pending(p) : ~(<<w, v>> \in OpToRel(<, Nat))
    BY <1>2
<1>4. \A w \in Pending(p) : ~(w < v)
    BY <1>1, <1>3 DEF OpToRel
<1>5. \A w \in Pending(p) : v <= w
    BY <1>1, <1>4
<1> QED
    BY <1>5 DEF NextVersion

LEMMA LifecycleKeepsSchema ==
    ASSUME SchemaPart, NEW p \in Processes, Lifecycle(p)
    PROVE  SchemaPart'
<1> USE DEF SchemaPart, SchemaBeforeTraffic, schemaVars, ticketVars, hubVars
<1>1. CASE Start(p)
    BY <1>1 DEF Start
<1>2. CASE ReadApplied(p)
    BY <1>2 DEF ReadApplied
<1>3. CASE Migrate(p)
    <2> DEFINE v == NextVersion(p)
    <2>1. v \in Versions /\ v \notin applied
        BY <1>3, NextVersionIsPending DEF Migrate, Pending
    <2>2. /\ applied' = applied \cup {v} /\ ran' = [ran EXCEPT ![v] = @ + 1]
          /\ seen' = [seen EXCEPT ![p] = @ \cup {v}] /\ phase' = phase
        BY <1>3 DEF Migrate
    <2> HIDE DEF v
    <2>3. ran[v] = 0
        BY <2>1
    <2>4. \A q \in Processes : phase[q] \notin {"listening", "draining"}
        BY <2>1
    <2> QED BY <2>1, <2>2, <2>3, <2>4
<1>4. CASE MigrateFails(p)
    BY <1>4 DEF MigrateFails
<1>5. CASE Listen(p)
    <2>1. applied = Versions
        BY <1>5 DEF Listen, Pending
    <2> QED BY <1>5, <2>1 DEF Listen
<1>6. CASE Shutdown(p)
    BY <1>6 DEF Shutdown
<1>7. CASE Drained(p)
    BY <1>7 DEF Drained
<1>8. CASE Die(p)
    BY <1>8 DEF Die
<1> QED
    BY <1>1, <1>2, <1>3, <1>4, <1>5, <1>6, <1>7, <1>8 DEF Lifecycle

-----------------------------------------------------------------------------
(* Tickets *)

LEMMA LifecycleKeepsTickets ==
    ASSUME TicketPart, NEW p \in Processes, Lifecycle(p)
    PROVE  TicketPart'
<1>1. sold' = sold /\ uses' = uses
    BY DEF Lifecycle, Start, ReadApplied, Migrate, MigrateFails, Listen, Shutdown, Drained,
           Die, ticketVars
<1>2. \/ ticket' = ticket /\ past' = past
      \/ ticket' = [t \in Tickets |-> None] /\ past' = {}
    BY DEF Lifecycle, Start, ReadApplied, Migrate, MigrateFails, Listen, Shutdown, Drained,
           Die, Forget, ticketVars
<1> QED BY <1>1, <1>2 DEF TicketPart, TicketsOnce

LEMMA TicketStepsKeepTickets ==
    ASSUME TicketPart, NEW t \in Tickets,
           \/ Expire(t) \/ (\E caller \in Callers : IssueTicket(t, caller)) \/ SweepTickets
           \/ \E k \in Clients : ConnectWithTicket(k, t)
    PROVE  TicketPart'
<1> USE DEF TicketPart, TicketsOnce
<1>1. CASE Expire(t)
    BY <1>1 DEF Expire
<1>2. ASSUME NEW caller \in Callers, IssueTicket(t, caller)
      PROVE  TicketPart'
    BY <1>2, GatewayAssumption DEF IssueTicket
<1>3. CASE SweepTickets
    BY <1>3 DEF SweepTickets
<1>4. ASSUME NEW k \in Clients, ConnectWithTicket(k, t)
      PROVE  TicketPart'
    <2>1. /\ ticket' = [ticket EXCEPT ![t] = None] /\ past' = past \ {t} /\ sold' = sold
        BY <1>4 DEF ConnectWithTicket
    <2>2. \/ uses' = uses
          \/ ticket[t] # None /\ uses' = [uses EXCEPT ![t] = @ + 1]
        BY <1>4 DEF ConnectWithTicket
    <2>3. CASE uses' = uses
        BY <2>1, <2>3
    <2>4. CASE ticket[t] # None /\ uses' = [uses EXCEPT ![t] = @ + 1]
        <3>1. uses[t] = 0 /\ t \in sold
            BY <2>4
        <3> QED BY <2>1, <2>4, <3>1
    <2> QED BY <2>2, <2>3, <2>4
<1> QED
    BY <1>1, <1>2, <1>3, <1>4

-----------------------------------------------------------------------------
(* The hub *)

LEMMA LifecycleKeepsHub ==
    ASSUME HubPart, SchemaPart, NEW p \in Processes, Lifecycle(p)
    PROVE  HubPart'
<1> USE DEF HubPart, HubAccounted
<1>1. ASSUME UNCHANGED hubVars,
             phase[Me] \in {"listening", "draining"} => phase'[Me] \in {"listening", "draining"}
      PROVE  HubPart'
    BY <1>1 DEF hubVars, SlotsOf
<1>2. ASSUME Forget(Me)
      PROVE  HubPart'
    <2>1. /\ conn' = [k \in Clients |-> "none"] /\ opener' = [k \in Clients |-> None]
          /\ slots' = {} /\ timers' = {}
        BY <1>2 DEF Forget
    <2>2. Cardinality(slots') = 0 /\ IsFiniteSet(slots')
        BY <2>1, FS_EmptySet
    <2>3. \A x \in Tenants : Cardinality(SlotsOf(x, slots')) = 0
        <3> TAKE x \in Tenants
        <3>1. SlotsOf(x, slots') = {}
            BY <2>1 DEF SlotsOf
        <3> QED BY <3>1, FS_EmptySet
    <2> QED BY <2>1, <2>2, <2>3, GatewayAssumption
<1>3. CASE Start(p) \/ ReadApplied(p) \/ MigrateFails(p) \/ Listen(p) \/ Shutdown(p)
    <2>1. UNCHANGED hubVars
        BY <1>3 DEF Start, ReadApplied, MigrateFails, Listen, Shutdown
    <2>2. phase[Me] \in {"listening", "draining"} => phase'[Me] \in {"listening", "draining"}
        BY <1>3, GatewayAssumption
           DEF SchemaPart, Start, ReadApplied, MigrateFails, Listen, Shutdown
    <2> QED BY <1>1, <2>1, <2>2
<1>4. CASE Migrate(p)
    BY <1>1, <1>4 DEF Migrate
<1>5. CASE Drained(p) \/ Die(p)
    <2>1. CASE p = Me
        BY <1>2, <1>5, <2>1 DEF Drained, Die
    <2>2. CASE p # Me
        <3>1. UNCHANGED hubVars /\ phase'[Me] = phase[Me]
            BY <1>5, <2>2, GatewayAssumption DEF SchemaPart, Drained, Die, Forget
        <3> QED BY <1>1, <3>1
    <2> QED BY <2>1, <2>2
<1> QED
    BY <1>3, <1>4, <1>5 DEF Lifecycle

LEMMA AdmitKeepsHub ==
    ASSUME HubPart, NEW k \in Clients, NEW caller \in Callers,
           conn[k] = "none", phase[Me] = "listening", phase' = phase, Admit(k, caller)
    PROVE  HubPart'
<1> USE DEF HubPart, HubAccounted
<1>1. CASE Admitted(k, caller)
    <2> DEFINE x == Audience(caller)
    <2>1. x \in Tenants /\ caller # None
        BY GatewayAssumption DEF Audience, Callers
    <2>2. /\ slots' = slots \cup {<<x, k>>}
          /\ conn' = [conn EXCEPT ![k] = "open"] /\ opener' = [opener EXCEPT ![k] = caller]
          /\ timers' = timers \cup {k}
        BY <1>1 DEF Admit
    <2>3. Cardinality(slots') <= MaxConnections /\ IsFiniteSet(slots')
        BY <1>1, <2>2, FS_AddElement DEF Admitted
    <2>4. \A y \in Tenants : Cardinality(SlotsOf(y, slots')) <= MaxPerTenant
        <3> TAKE y \in Tenants
        <3>1. CASE y = x
            BY <1>1, <2>2, <3>1 DEF Admitted
        <3>2. CASE y # x
            <4>1. SlotsOf(y, slots') = SlotsOf(y, slots)
                BY <2>2, <3>2 DEF SlotsOf
            <4> QED BY <4>1
        <3> QED BY <3>1, <3>2
    <2>5. \A s \in slots : s \in Tenants \X Clients /\ s[2] \in Clients /\ s[2] # k
        OBVIOUS
    <2>6. \A j \in Clients : conn'[j] = "open" =>
             j \in timers' /\ \E s \in slots' : s[2] = j
        <3> TAKE j \in Clients
        <3>1. CASE j = k
            <4>1. <<x, k>> \in slots' /\ <<x, k>>[2] = k
                BY <2>2
            <4> QED BY <2>2, <3>1, <4>1
        <3>2. CASE j # k
            BY <2>2, <3>2
        <3> QED BY <3>1, <3>2
    <2>7. \A s \in slots' : conn'[s[2]] # "none" /\ opener'[s[2]] # None
                            /\ s[1] = Audience(opener'[s[2]])
        <3> TAKE s \in slots'
        <3>1. CASE s = <<x, k>>
            BY <2>1, <2>2, <3>1
        <3>2. CASE s \in slots
            <4>1. conn'[s[2]] = conn[s[2]] /\ opener'[s[2]] = opener[s[2]]
                BY <2>2, <2>5, <3>2
            <4> QED BY <3>2, <4>1
        <3> QED BY <2>2, <3>1, <3>2
    <2>8. slots' \subseteq Tenants \X Clients
        BY <2>1, <2>2
    <2> QED BY <2>1, <2>2, <2>3, <2>4, <2>6, <2>7, <2>8
<1>2. CASE ~Admitted(k, caller)
    BY <1>2 DEF Admit, hubVars, SlotsOf
<1> QED BY <1>1, <1>2

(* Fewer slots are within the limits as well. *)
LEMMA FewerSlots ==
    ASSUME HubPart, NEW T \in SUBSET slots
    PROVE  /\ IsFiniteSet(T) /\ Cardinality(T) <= MaxConnections
           /\ \A x \in Tenants : Cardinality(SlotsOf(x, T)) <= MaxPerTenant
<1>1. /\ IsFiniteSet(slots) /\ Cardinality(slots) <= MaxConnections /\ MaxConnections \in Nat
      /\ MaxPerTenant \in Nat
    BY GatewayAssumption DEF HubPart, HubAccounted
<1>2. IsFiniteSet(T) /\ Cardinality(T) <= MaxConnections
    <2>1. Cardinality(T) \in Nat /\ Cardinality(slots) \in Nat
        BY <1>1, FS_Subset, FS_CardinalityType
    <2> QED BY <1>1, <2>1, FS_Subset
<1>3. \A x \in Tenants : Cardinality(SlotsOf(x, T)) <= MaxPerTenant
    <2> TAKE x \in Tenants
    <2>1. SlotsOf(x, T) \subseteq SlotsOf(x, slots) /\ SlotsOf(x, slots) \subseteq slots
        BY DEF SlotsOf
    <2>2. IsFiniteSet(SlotsOf(x, slots)) /\ IsFiniteSet(SlotsOf(x, T))
        BY <1>1, <2>1, FS_Subset
    <2>3. Cardinality(SlotsOf(x, T)) <= Cardinality(SlotsOf(x, slots))
        BY <2>1, <2>2, FS_Subset
    <2>4. Cardinality(SlotsOf(x, T)) \in Nat /\ Cardinality(SlotsOf(x, slots)) \in Nat
        BY <2>2, FS_CardinalityType
    <2>5. Cardinality(SlotsOf(x, slots)) <= MaxPerTenant
        BY DEF HubPart, HubAccounted
    <2> QED BY <1>1, <2>3, <2>4, <2>5
<1> QED BY <1>2, <1>3

LEMMA StreamStepsKeepHub ==
    ASSUME HubPart, NEW k \in Clients, Disconnect(k) \/ HeartbeatFails(k) \/ HandleClose(k)
    PROVE  HubPart'
<1> USE DEF HubPart, HubAccounted
<1>1. CASE Disconnect(k)
    BY <1>1 DEF Disconnect, SlotsOf
<1>2. CASE HeartbeatFails(k)
    <2>1. slots' \in SUBSET slots
        BY <1>2 DEF HeartbeatFails, Without
    <2>2. /\ IsFiniteSet(slots') /\ Cardinality(slots') <= MaxConnections
          /\ \A x \in Tenants : Cardinality(SlotsOf(x, slots')) <= MaxPerTenant
        BY <2>1, FewerSlots
    <2>3. conn[k] = "gone" /\ conn' = conn /\ opener' = opener /\ timers' = timers \ {k}
          /\ phase' = phase
        BY <1>2 DEF HeartbeatFails
    <2>4. \A s \in slots : s[2] # k => s \in slots'
        BY <1>2 DEF HeartbeatFails, Without
    <2> QED BY <2>1, <2>2, <2>3, <2>4
<1>3. CASE HandleClose(k)
    <2>1. slots' \in SUBSET slots /\ \A s \in slots' : s[2] # k
        BY <1>3 DEF HandleClose, Without
    <2>2. /\ IsFiniteSet(slots') /\ Cardinality(slots') <= MaxConnections
          /\ \A x \in Tenants : Cardinality(SlotsOf(x, slots')) <= MaxPerTenant
        BY <2>1, FewerSlots
    <2>3. /\ conn[k] = "gone" /\ conn' = [conn EXCEPT ![k] = "none"]
          /\ opener' = [opener EXCEPT ![k] = None] /\ timers' = timers \ {k} /\ phase' = phase
        BY <1>3 DEF HandleClose
    <2>4. \A s \in slots : s[2] # k => s \in slots'
        BY <1>3 DEF HandleClose, Without
    <2>5. \A s \in slots' : s[2] \in Clients /\ conn'[s[2]] = conn[s[2]]
                            /\ opener'[s[2]] = opener[s[2]]
        BY <2>1, <2>3
    <2> QED BY <2>1, <2>2, <2>3, <2>4, <2>5
<1> QED BY <1>1, <1>2, <1>3

LEMMA BroadcastKeepsHub ==
    ASSUME HubPart, NEW x \in Tenants, Broadcast(x)
    PROVE  HubPart'
<1> USE DEF HubPart, HubAccounted
<1>1. PICK K \in SUBSET {k \in Clients : conn[k] = "gone"} : slots' = Without(K)
    BY DEF Broadcast
<1>2. slots' \in SUBSET slots /\ \A s \in slots : s[2] \notin K => s \in slots'
    BY <1>1 DEF Without
<1>3. /\ IsFiniteSet(slots') /\ Cardinality(slots') <= MaxConnections
      /\ \A y \in Tenants : Cardinality(SlotsOf(y, slots')) <= MaxPerTenant
    BY <1>2, FewerSlots
<1>4. conn' = conn /\ opener' = opener /\ timers' = timers /\ phase' = phase
    BY DEF Broadcast
<1> QED BY <1>1, <1>2, <1>3, <1>4

-----------------------------------------------------------------------------
(* The invariant *)

LEMMA InitIInv == Init => IInv
<1> SUFFICES ASSUME Init PROVE SchemaPart /\ TicketPart /\ HubPart
    BY Parts
<1>1. SchemaPart /\ TicketPart
    BY DEF Init, SchemaPart, SchemaBeforeTraffic, TicketPart, TicketsOnce
<1>2. \A x \in Tenants : Cardinality(SlotsOf(x, slots)) = 0
    <2> TAKE x \in Tenants
    <2>1. SlotsOf(x, slots) = {}
        BY DEF Init, SlotsOf
    <2> QED BY <2>1, FS_EmptySet
<1>3. HubPart
    BY <1>2, FS_EmptySet, GatewayAssumption DEF Init, HubPart, HubAccounted
<1> QED BY <1>1, <1>3

LEMMA NextIInv == IInv /\ [Next]_vars => IInv'
<1> SUFFICES ASSUME SchemaPart, TicketPart, HubPart, [Next]_vars
             PROVE  SchemaPart' /\ TicketPart' /\ HubPart'
    BY DEF IInv, TypeOK, SchemaPart, TicketPart, HubPart
<1>1. ASSUME UNCHANGED <<phase, schemaVars>>
      PROVE  SchemaPart'
    BY <1>1 DEF SchemaPart, SchemaBeforeTraffic, schemaVars
<1>2. ASSUME UNCHANGED ticketVars
      PROVE  TicketPart'
    BY <1>2 DEF TicketPart, TicketsOnce, ticketVars
<1>3. ASSUME UNCHANGED <<phase, hubVars>>
      PROVE  HubPart'
    BY <1>3 DEF HubPart, HubAccounted, SlotsOf, hubVars
<1>4. ASSUME NEW p \in Processes, Lifecycle(p)
      PROVE  SchemaPart' /\ TicketPart' /\ HubPart'
    BY <1>4, LifecycleKeepsSchema, LifecycleKeepsTickets, LifecycleKeepsHub
<1>5. ASSUME NEW t \in Tickets,
             Expire(t) \/ \E caller \in Callers : IssueTicket(t, caller)
      PROVE  SchemaPart' /\ TicketPart' /\ HubPart'
    <2>1. UNCHANGED <<phase, schemaVars, hubVars>>
        BY <1>5 DEF Expire, IssueTicket
    <2> QED BY <1>1, <1>3, <1>5, <2>1, TicketStepsKeepTickets
<1>6. CASE SweepTickets
    <2>1. UNCHANGED <<phase, schemaVars, hubVars>>
        BY <1>6 DEF SweepTickets
    <2>2. TicketPart'
        BY <1>6 DEF SweepTickets, TicketPart, TicketsOnce
    <2> QED BY <1>1, <1>3, <2>1, <2>2
<1>7. ASSUME NEW k \in Clients, NEW caller \in Callers, ConnectWithKey(k, caller)
      PROVE  SchemaPart' /\ TicketPart' /\ HubPart'
    BY <1>1, <1>2, <1>7, AdmitKeepsHub DEF ConnectWithKey
<1>8. ASSUME NEW k \in Clients, NEW t \in Tickets, ConnectWithTicket(k, t)
      PROVE  SchemaPart' /\ TicketPart' /\ HubPart'
    <2>1. UNCHANGED <<phase, schemaVars>>
        BY <1>8 DEF ConnectWithTicket
    <2>2. TicketPart'
        BY <1>8, TicketStepsKeepTickets
    <2>3. HubPart'
        <3>1. CASE ticket[t] = None \/ t \in past
            BY <1>3, <1>8, <2>1, <3>1 DEF ConnectWithTicket
        <3>2. CASE ~(ticket[t] = None \/ t \in past)
            <4>1. ticket[t] \in Callers
                BY <3>2 DEF TicketPart
            <4> QED BY <1>8, <2>1, <3>2, <4>1, AdmitKeepsHub DEF ConnectWithTicket
        <3> QED BY <3>1, <3>2
    <2> QED BY <1>1, <2>1, <2>2, <2>3
<1>9. ASSUME NEW k \in Clients, Disconnect(k) \/ HeartbeatFails(k) \/ HandleClose(k)
      PROVE  SchemaPart' /\ TicketPart' /\ HubPart'
    <2>1. UNCHANGED <<phase, schemaVars, ticketVars>>
        BY <1>9 DEF Disconnect, HeartbeatFails, HandleClose
    <2> QED BY <1>1, <1>2, <1>9, <2>1, StreamStepsKeepHub
<1>10. ASSUME NEW x \in Tenants, Broadcast(x)
       PROVE  SchemaPart' /\ TicketPart' /\ HubPart'
    <2>1. UNCHANGED <<phase, schemaVars, ticketVars>>
        BY <1>10 DEF Broadcast
    <2> QED BY <1>1, <1>2, <1>10, <2>1, BroadcastKeepsHub
<1>11. CASE UNCHANGED vars
    BY <1>1, <1>2, <1>3, <1>11 DEF vars
<1> QED
    BY <1>4, <1>5, <1>6, <1>7, <1>8, <1>9, <1>10, <1>11 DEF Next

LEMMA GatewayInvariant == Spec => []IInv
<1> QED BY InitIInv, NextIInv, PTL DEF Spec

(* For any number of processes and migrations: nobody serves on an incomplete *)
(* schema, and no migration is committed twice.                               *)
THEOREM SchemaComesFirst == Spec => []SchemaBeforeTraffic
<1>1. IInv => SchemaBeforeTraffic
    BY DEF IInv
<1> QED BY <1>1, GatewayInvariant, PTL

(* For any limits: the hub's slots are within them, and are those of the      *)
(* connections that have not been closed, each under its opener's tenant.     *)
THEOREM HubIsAccounted == Spec => []HubAccounted
<1>1. IInv => HubAccounted
    BY DEF IInv
<1> QED BY <1>1, GatewayInvariant, PTL

(* A ticket lets in one stream, however it is presented, expires or is swept. *)
THEOREM TicketsAreUsedOnce == Spec => []TicketsOnce
<1>1. IInv => TicketsOnce
    BY DEF IInv
<1> QED BY <1>1, GatewayInvariant, PTL
=============================================================================
