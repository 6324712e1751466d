------------------------ MODULE FaultController_proofs ------------------------
(* Proofs about FaultController, for every value of its constants.          *)
EXTENDS FaultController, FiniteSetTheorems, SequenceTheorems, WellFoundedInduction, TLAPS

(***************************************************************************)
(* A nonempty set of positions of a sequence has a last one: the CHOOSE in *)
(* RegisterFaults denotes the definition that add_fault() keeps.           *)
(***************************************************************************)
LEMMA LastPosition ==
  ASSUME NEW n \in Nat, NEW K \in SUBSET (1..n), K # {}
  PROVE  \E k \in K : \A j \in K : j <= k
<1> DEFINE T == {n - k : k \in K}
           R == OpToRel(<, Nat)
<1>1. \A j \in K : j \in 1..n /\ n - j \in Nat /\ n - j \in T
  OBVIOUS
<1>2. T \subseteq Nat /\ T # {}
  <2>1. PICK j \in K : TRUE
    OBVIOUS
  <2>2. T # {}
    BY <1>1, <2>1
  <2> QED BY <1>1, <2>2
<1>3. \A x, y \in Nat : y < x => <<y, x>> \in R
  BY DEF OpToRel
<1>4. IsWellFoundedOn(R, Nat)
  BY NatLessThanWellFounded
<1> HIDE DEF R, T
<1>5. PICK x \in T : \A y \in T : ~(<<y, x>> \in R)
  BY <1>2, <1>4, WFMin
<1>6. \A y \in T : x \in Nat /\ y \in Nat /\ x <= y
  <2> SUFFICES ASSUME NEW y \in T PROVE x \in Nat /\ y \in Nat /\ x <= y
    OBVIOUS
  <2>1. x \in Nat /\ y \in Nat
    BY <1>2
  <2>2. ~(y < x)
    BY <1>3, <1>5, <2>1
  <2> QED BY <2>1, <2>2
<1>7. PICK k \in K : x = n - k
  BY DEF T
<1>8. \A j \in K : j <= k
  BY <1>1, <1>6, <1>7
<1> QED BY <1>8

-----------------------------------------------------------------------------
(* What loading a scenario computes.                                        *)

\* The faults of a scenario are a finite sequence of definitions.
LEMMA ScenarioFaults ==
  ASSUME NEW s \in ScenarioConfig
  PROVE  /\ s.injectors \subseteq Injector
         /\ Len(s.faults) \in Nat
         /\ DOMAIN s.faults = 1..Len(s.faults)
         /\ \A k \in DOMAIN s.faults : s.faults[k] \in FaultConfig
<1>1. s.faults \in Seq(FaultConfig) /\ s.injectors \subseteq Injector
  BY DEF ScenarioConfig
<1> QED BY <1>1, LenProperties, ElementOfSeq

\* register_faults() registers exactly the ids that have a targeted definition.
LEMMA RegisterFaultsResult ==
  ASSUME NEW s \in ScenarioConfig, NEW injectors
  PROVE  /\ RegisterFaults(s, injectors, NoFaults)
              \in [InjectorIds -> [FaultIds -> Configs \cup {NoConfig}]]
         /\ \A i \in InjectorIds, f \in FaultIds :
              RegisterFaults(s, injectors, NoFaults)[i][f] # NoConfig
                <=> Definitions(s, injectors, i, f) # {}
<1> DEFINE Kept(i, f) == CHOOSE k \in Definitions(s, injectors, i, f) :
                           \A j \in Definitions(s, injectors, i, f) : j <= k
<1>1. ASSUME NEW i \in InjectorIds, NEW f \in FaultIds,
             Definitions(s, injectors, i, f) # {}
      PROVE  s.faults[Kept(i, f)].config \in Configs
  <2>1. Definitions(s, injectors, i, f) \in SUBSET (1..Len(s.faults))
    BY ScenarioFaults DEF Definitions, Targeted
  <2>2. Kept(i, f) \in Definitions(s, injectors, i, f)
    BY <1>1, <2>1, ScenarioFaults, LastPosition
  <2>3. s.faults[Kept(i, f)] \in FaultConfig
    BY <2>1, <2>2, ScenarioFaults
  <2> QED BY <2>3 DEF FaultConfig
<1>2. NoConfig \notin Configs
  BY ConstantsAssumption
<1> QED BY <1>1, <1>2 DEF RegisterFaults, NoFaults

\* The faults activated at once are registered ones, of the right type.
LEMMA StartupActiveResult ==
  ASSUME NEW s \in ScenarioConfig, NEW injectors
  PROVE  /\ StartupActive(s, injectors) \in [InjectorIds -> SUBSET FaultIds]
         /\ \A i \in InjectorIds, f \in FaultIds :
              f \in StartupActive(s, injectors)[i] =>
                Definitions(s, injectors, i, f) # {}
<1>1. \A k \in Targeted(s, injectors) : s.faults[k].id \in FaultIds
  BY ScenarioFaults DEF Targeted, FaultConfig
<1> QED BY <1>1 DEF StartupActive, StartupIndices, Definitions

\* Every wall timer schedule() makes is due at a time of the clock.
LEMMA ArmTimersType ==
  ASSUME NEW s \in ScenarioConfig, NEW injectors, NEW t \in Nat, NEW g \in Nat
  PROVE  ArmTimers(s, injectors, t, g) \subseteq Timer
<1>1. \A d \in Int : Clamp(d) \in Nat
  BY DEF Clamp
<1>2. ASSUME NEW k \in DOMAIN s.faults, NEW due \in Nat, NEW kind \in {"start", "stop"}
      PROVE  TimerOf(s, k, kind, due, g) \in Timer
  <2>1. s.faults[k] \in FaultConfig /\ k \in Nat
    BY ScenarioFaults
  <2> QED BY <2>1 DEF TimerOf, Timer, FaultConfig
<1>3. StartTimers(s, injectors, t, g) \subseteq Timer
  <2> SUFFICES ASSUME NEW k \in Targeted(s, injectors), s.faults[k].start # NoTime
               PROVE  TimerOf(s, k, "start", t + Clamp(s.faults[k].start), g) \in Timer
    BY DEF StartTimers
  <2>1. k \in DOMAIN s.faults /\ s.faults[k].start \in Int
    BY ScenarioFaults DEF Targeted, FaultConfig
  <2>2. t + Clamp(s.faults[k].start) \in Nat
    BY <1>1, <2>1
  <2> QED BY <1>2, <2>1, <2>2
<1>4. StopTimers(s, injectors, t, g) \subseteq Timer
  <2> SUFFICES ASSUME NEW k \in Targeted(s, injectors), s.faults[k].duration # NoTime,
                      InitiallyActive(s, k) \/ s.faults[k].start # NoTime
               PROVE  TimerOf(s, k, "stop", t + StopDelay(s, k), g) \in Timer
    BY DEF StopTimers
  <2>1. /\ k \in DOMAIN s.faults /\ s.faults[k].duration \in Int
        /\ s.faults[k].start \in Int \cup {NoTime}
    BY ScenarioFaults DEF Targeted, FaultConfig
  <2>2. StopDelay(s, k) \in Nat
    BY <1>1, <2>1 DEF StopDelay
  <2>3. t + StopDelay(s, k) \in Nat
    BY <2>2
  <2> QED BY <1>2, <2>1, <2>3
<1> QED BY <1>3, <1>4 DEF ArmTimers

\* The events of a load all say "active", and they are about exactly the
\* faults that the load activates.
LEMMA StartupEventsResult ==
  ASSUME NEW s \in ScenarioConfig, NEW injectors,
         NEW q \in StartupOrders(s, injectors)
  PROVE  /\ StartupEvents(s, q) \in Seq(Event)
         /\ \A a \in 1..Len(StartupEvents(s, q)) : StartupEvents(s, q)[a].state = "active"
         /\ \A i \in InjectorIds, f \in FaultIds :
              f \in StartupActive(s, injectors)[i] <=>
                \E a \in 1..Len(StartupEvents(s, q)) :
                  /\ StartupEvents(s, q)[a].injector = i
                  /\ StartupEvents(s, q)[a].fault = f
<1> DEFINE K == StartupIndices(s, injectors)
           n == Cardinality(K)
           E == StartupEvents(s, q)
<1>1. K \in SUBSET (1..Len(s.faults)) /\ Len(s.faults) \in Nat
  BY ScenarioFaults DEF StartupIndices, Targeted
<1>2. n \in Nat
  <2>1. IsFiniteSet(1..Len(s.faults))
    BY <1>1, FS_Interval
  <2>2. IsFiniteSet(K)
    BY <1>1, <2>1, FS_Subset
  <2> QED BY <2>2, FS_CardinalityType
<1>3. q \in [1..n -> K] /\ \A k \in K : \E a \in 1..n : q[a] = k
  BY DEF StartupOrders
<1>4. ASSUME NEW a \in 1..n
      PROVE  /\ q[a] \in K
             /\ E[a].state = "active"
             /\ E[a].injector = s.faults[q[a]].injector
             /\ E[a].fault = s.faults[q[a]].id
             /\ E[a] \in Event
  <2>1. q[a] \in K /\ E[a] = EventOf(s.faults[q[a]], "active", "startup")
    BY <1>3 DEF StartupEvents
  <2>2. s.faults[q[a]] \in FaultConfig
    BY <1>1, <2>1, ScenarioFaults
  <2>3. EventOf(s.faults[q[a]], "active", "startup") \in Event
    BY <2>2 DEF EventOf, Event, FaultConfig
  <2>4. /\ E[a].state = "active"
        /\ E[a].injector = s.faults[q[a]].injector
        /\ E[a].fault = s.faults[q[a]].id
    BY <2>1 DEF EventOf
  <2> QED BY <2>1, <2>3, <2>4
<1>5. E \in [1..n -> Event]
  <2>1. DOMAIN E = 1..n /\ E = [a \in 1..n |-> E[a]]
    BY <1>3 DEF StartupEvents
  <2> QED BY <1>4, <2>1
<1>6. E \in Seq(Event)
  BY <1>2, <1>5, SeqDef
<1>7. Len(E) = n
  BY <1>2, <1>5, <1>6, LenProperties
<1>8. \A a \in 1..n : E[a].state = "active"
  BY <1>4
<1>9. ASSUME NEW i \in InjectorIds, NEW f \in FaultIds
      PROVE  f \in StartupActive(s, injectors)[i] <=>
               \E a \in 1..n : E[a].injector = i /\ E[a].fault = f
  <2>1. f \in StartupActive(s, injectors)[i] <=>
          \E k \in K : s.faults[k].injector = i /\ s.faults[k].id = f
    BY DEF StartupActive
  <2> QED BY <1>3, <1>4, <2>1
<1> QED BY <1>6, <1>7, <1>8, <1>9

-----------------------------------------------------------------------------
(* The timeline.                                                            *)

\* One more event decides the timeline of the fault it is about, if it is a
\* lifecycle event, and leaves every other timeline alone.
LEMMA AppendTimeline ==
  ASSUME NEW e \in Event, events \in Seq(Event), mark \in 0..Len(events),
         events' = Append(events, e), mark' = mark,
         NEW i \in InjectorIds, NEW f \in FaultIds
  PROVE  IF e.injector = i /\ e.fault = f /\ e.state # "config_updated"
         THEN TimelineActive(i, f)' <=> e.state = "active"
         ELSE TimelineActive(i, f)' <=> TimelineActive(i, f)
<1> DEFINE n == Len(events)
<1>1. /\ n \in Nat /\ mark \in Nat /\ mark <= n /\ Len(events') = n + 1
      /\ events'[n + 1] = e
      /\ \A k \in 1..n : events'[k] = events[k]
  BY LenProperties, AppendProperties
<1>2. e.state \in {"active", "inactive", "config_updated"}
  BY DEF Event
<1>3. CASE e.injector = i /\ e.fault = f /\ e.state # "config_updated"
  <2>1. Lifecycle(i, f)' = Lifecycle(i, f) \cup {n + 1}
    BY <1>1, <1>2, <1>3 DEF Lifecycle
  <2>2. \A k \in Lifecycle(i, f) : k \in 1..n
    BY <1>1 DEF Lifecycle
  <2>3. e.state = "active" => TimelineActive(i, f)'
    BY <1>1, <2>1, <2>2 DEF TimelineActive
  <2>4. TimelineActive(i, f)' => e.state = "active"
    BY <1>1, <2>1, <2>2 DEF TimelineActive
  <2> QED BY <1>3, <2>3, <2>4
<1>4. CASE ~(e.injector = i /\ e.fault = f /\ e.state # "config_updated")
  <2>1. Lifecycle(i, f)' = Lifecycle(i, f)
    BY <1>1, <1>2, <1>4 DEF Lifecycle
  <2>2. \A k \in Lifecycle(i, f) : k \in 1..n /\ events'[k] = events[k]
    BY <1>1 DEF Lifecycle
  <2>3. TimelineActive(i, f)' <=> TimelineActive(i, f)
    BY <2>1, <2>2 DEF TimelineActive
  <2> QED BY <1>4, <2>3
<1> QED BY <1>3, <1>4

\* When a load appends only "active" events and marks where they begin, the
\* timeline of a fault is active exactly when one of them is about it.
LEMMA LoadTimeline ==
  ASSUME NEW E \in Seq(Event), \A a \in 1..Len(E) : E[a].state = "active",
         events \in Seq(Event), events' = events \o E, mark' = Len(events),
         NEW i \in InjectorIds, NEW f \in FaultIds
  PROVE  TimelineActive(i, f)' <=>
           \E a \in 1..Len(E) : E[a].injector = i /\ E[a].fault = f
<1> DEFINE n == Len(events)
<1>1. /\ n \in Nat /\ Len(E) \in Nat /\ Len(events') = n + Len(E)
      /\ \A a \in 1..Len(E) : events'[n + a] = E[a]
  <2>1. /\ n \in Nat /\ Len(E) \in Nat /\ Len(events') = n + Len(E)
        /\ \A k \in 1..(n + Len(E)) :
             events'[k] = IF k <= n THEN events[k] ELSE E[k - n]
    BY LenProperties, ConcatProperties
  <2>2. ASSUME NEW a \in 1..Len(E) PROVE events'[n + a] = E[a]
    <3>1. n + a \in 1..(n + Len(E)) /\ ~(n + a <= n) /\ (n + a) - n = a
      BY <2>1
    <3> QED BY <2>1, <3>1
  <2> QED BY <2>1, <2>2
<1>2. \A k \in (n + 1)..Len(events') : k - n \in 1..Len(E) /\ k = n + (k - n)
  BY <1>1
<1>3. \A k \in Lifecycle(i, f)' : /\ events'[k].state = "active"
                                  /\ k - n \in 1..Len(E)
                                  /\ E[k - n].injector = i /\ E[k - n].fault = f
  BY <1>1, <1>2 DEF Lifecycle
<1>4. \A a \in 1..Len(E) : E[a].injector = i /\ E[a].fault = f => n + a \in Lifecycle(i, f)'
  BY <1>1 DEF Lifecycle
<1>5. TimelineActive(i, f)' => \E a \in 1..Len(E) : E[a].injector = i /\ E[a].fault = f
  BY <1>3 DEF TimelineActive
<1>6. ASSUME NEW a \in 1..Len(E), E[a].injector = i, E[a].fault = f
      PROVE  TimelineActive(i, f)'
  BY <1>3, <1>4, <1>6 DEF TimelineActive
<1> QED BY <1>5, <1>6

-----------------------------------------------------------------------------
(* The inductive invariant.  A reload is compared with the scenario it      *)
(* replaces by COUNTING injectors, so the invariant also says that they are *)
(* finitely many.                                                           *)

IInv ==
  /\ TypeOK
  /\ IsFiniteSet(scenario.injectors)
  /\ InjectorsMatchScenario
  /\ RegistryMatchesScenario
  /\ TimelineMatchesState

\* The constructor establishes the invariant.
LEMMA InitIInv == Init => IInv
<1> SUFFICES ASSUME Init PROVE IInv
  OBVIOUS
<1>0. PICK s \in InitialScenarios : \E q \in StartupOrders(s, CreateInjectors(s)) :
        /\ scenario = s
        /\ built = CreateInjectors(s)
        /\ registry = RegisterFaults(s, CreateInjectors(s), NoFaults)
        /\ active = StartupActive(s, CreateInjectors(s))
        /\ timers = ArmTimers(s, CreateInjectors(s), 0, 0)
        /\ generation = 0
        /\ events = StartupEvents(s, q)
        /\ mark = 0 /\ now = 0 /\ calls = 0
  BY DEF Init
<1>1. PICK q \in StartupOrders(s, CreateInjectors(s)) :
        /\ scenario = s
        /\ built = CreateInjectors(s)
        /\ registry = RegisterFaults(s, CreateInjectors(s), NoFaults)
        /\ active = StartupActive(s, CreateInjectors(s))
        /\ timers = ArmTimers(s, CreateInjectors(s), 0, 0)
        /\ generation = 0
        /\ events = StartupEvents(s, q)
        /\ mark = 0 /\ now = 0 /\ calls = 0
  BY <1>0
<1>2. s \in ScenarioConfig /\ IsFiniteSet(s.injectors)
  BY ConstantsAssumption
<1>3. TypeOK
  <2>1. built \subseteq Injector
    BY <1>1, <1>2, ScenarioFaults DEF CreateInjectors
  <2>2. registry \in [InjectorIds -> [FaultIds -> Configs \cup {NoConfig}]]
    BY <1>1, <1>2, RegisterFaultsResult
  <2>3. active \in [InjectorIds -> SUBSET FaultIds]
    BY <1>1, <1>2, StartupActiveResult
  <2>4. timers \subseteq Timer
    BY <1>1, <1>2, ArmTimersType
  <2>5. events \in Seq(Event) /\ mark \in 0..Len(events)
    BY <1>1, <1>2, StartupEventsResult, LenProperties
  <2>6. calls \in 0..MaxCalls
    BY <1>1, ConstantsAssumption
  <2> QED BY <1>1, <1>2, <2>1, <2>2, <2>3, <2>4, <2>5, <2>6 DEF TypeOK
<1>4. InjectorsMatchScenario
  BY <1>1 DEF InjectorsMatchScenario
<1>5. RegistryMatchesScenario
  BY <1>1, <1>2, RegisterFaultsResult, StartupActiveResult
     DEF RegistryMatchesScenario, Registered
<1>6. TimelineMatchesState
  <2> SUFFICES ASSUME NEW i \in InjectorIds, NEW f \in FaultIds
               PROVE  f \in active[i] <=> TimelineActive(i, f)
    BY DEF TimelineMatchesState
  <2>1. /\ events \in Seq(Event)
        /\ \A a \in 1..Len(events) : events[a].state = "active"
        /\ f \in active[i] <=>
             \E a \in 1..Len(events) : events[a].injector = i /\ events[a].fault = f
    BY <1>1, <1>2, StartupEventsResult
  <2>2. TimelineActive(i, f) <=>
          \E a \in 1..Len(events) : events[a].injector = i /\ events[a].fault = f
    BY <1>1, <2>1 DEF TimelineActive, Lifecycle
  <2> QED BY <2>1, <2>2
<1> QED BY <1>1, <1>2, <1>3, <1>4, <1>5, <1>6 DEF IInv

\* activate_fault() and deactivate_fault() only touch the fault they name.
LEMMA SwitchFaultResult ==
  ASSUME TypeOK, RegistryMatchesScenario, NEW i \in InjectorIds, NEW f \in FaultIds,
         NEW state \in {"active", "inactive"}
  PROVE  /\ SwitchFault(i, f, state) \in [InjectorIds -> SUBSET FaultIds]
         /\ \A j \in InjectorIds, g \in FaultIds :
              g \in SwitchFault(i, f, state)[j] =>
                Registered(j, g)
         /\ \A j \in InjectorIds, g \in FaultIds :
              Registered(j, g) =>
                (g \in SwitchFault(i, f, state)[j] <=>
                   IF j = i /\ g = f THEN state = "active" ELSE g \in active[j])
<1>1. CASE ~Registered(i, f)
  BY <1>1 DEF SwitchFault, TypeOK, RegistryMatchesScenario
<1>2. CASE Registered(i, f)
  <2>1. CASE state = "active"
    BY <1>2, <2>1 DEF SwitchFault, TypeOK, RegistryMatchesScenario
  <2>2. CASE state = "inactive"
    BY <1>2, <2>2 DEF SwitchFault, TypeOK, RegistryMatchesScenario
  <2> QED BY <2>1, <2>2
<1> QED BY <1>1, <1>2

\* A step that switches one fault and records the matching event, with the
\* registrations unchanged, keeps the registry and the timeline right.
LEMMA SwitchAndRecord ==
  ASSUME IInv, NEW e \in Event, e.state # "config_updated",
         active' = SwitchFault(e.injector, e.fault, e.state),
         events' = Append(events, e), mark' = mark,
         scenario' = scenario, built' = built, registry' = registry
  PROVE  /\ active' \in [InjectorIds -> SUBSET FaultIds]
         /\ events' \in Seq(Event) /\ mark' \in 0..Len(events')
         /\ RegistryMatchesScenario'
         /\ TimelineMatchesState'
<1>1. /\ TypeOK /\ RegistryMatchesScenario /\ TimelineMatchesState
      /\ e.injector \in InjectorIds /\ e.fault \in FaultIds
      /\ e.state \in {"active", "inactive"}
  BY DEF IInv, Event
<1>2. /\ active' \in [InjectorIds -> SUBSET FaultIds]
      /\ \A j \in InjectorIds, g \in FaultIds : g \in active'[j] => Registered(j, g)
      /\ \A j \in InjectorIds, g \in FaultIds :
           Registered(j, g) =>
             (g \in active'[j] <=>
                IF j = e.injector /\ g = e.fault THEN e.state = "active"
                ELSE g \in active[j])
  BY <1>1, SwitchFaultResult
<1>3. events \in Seq(Event) /\ mark \in 0..Len(events)
  BY <1>1 DEF TypeOK
<1>4. events' \in Seq(Event) /\ mark' \in 0..Len(events')
  BY <1>3, AppendProperties, LenProperties
<1>5. RegistryMatchesScenario'
  BY <1>1, <1>2 DEF RegistryMatchesScenario, Registered
<1>6. TimelineMatchesState'
  <2> SUFFICES ASSUME NEW j \in InjectorIds, NEW g \in FaultIds, Registered(j, g)'
               PROVE  g \in active'[j] <=> TimelineActive(j, g)'
    BY DEF TimelineMatchesState
  <2>1. Registered(j, g) /\ (g \in active[j] <=> TimelineActive(j, g))
    BY <1>1 DEF Registered, TimelineMatchesState
  <2>2. IF e.injector = j /\ e.fault = g
        THEN TimelineActive(j, g)' <=> e.state = "active"
        ELSE TimelineActive(j, g)' <=> TimelineActive(j, g)
    BY <1>3, AppendTimeline
  <2> QED BY <1>2, <2>1, <2>2
<1> QED BY <1>2, <1>4, <1>5, <1>6

-----------------------------------------------------------------------------
(* One lemma per action.                                                    *)

LEMMA FireTimerStep ==
  ASSUME IInv, NEW t \in timers, FireStart(t) \/ FireStop(t)
  PROVE  IInv'
<1> DEFINE e == [injector |-> t.injector, fault |-> t.fault,
                 state |-> IF t.kind = "start" THEN "active" ELSE "inactive",
                 source |-> "scheduled", config |-> t.config]
<1>1. TypeOK /\ t \in Timer
  BY DEF IInv, TypeOK
<1>2. e \in Event /\ e.state # "config_updated"
  BY <1>1 DEF Timer, Event
<1>3. /\ active' = SwitchFault(e.injector, e.fault, e.state)
      /\ events' = Append(events, e)
      /\ timers' = timers \ {t}
      /\ UNCHANGED <<scenario, built, registry, generation, mark, now, calls>>
  BY DEF FireStart, FireStop
<1> HIDE DEF e
<1>4. /\ active' \in [InjectorIds -> SUBSET FaultIds]
      /\ events' \in Seq(Event) /\ mark' \in 0..Len(events')
      /\ RegistryMatchesScenario' /\ TimelineMatchesState'
  BY <1>2, <1>3, SwitchAndRecord
<1>5. TypeOK'
  BY <1>1, <1>3, <1>4 DEF TypeOK
<1> QED BY <1>3, <1>4, <1>5 DEF IInv, InjectorsMatchScenario

LEMMA SetFaultStateStep ==
  ASSUME IInv, NEW i \in InjectorIds, NEW f \in FaultIds,
         NEW state \in {"active", "inactive"}, SetFaultState(i, f, state)
  PROVE  IInv'
<1> DEFINE e == [injector |-> i, fault |-> f, state |-> state, source |-> "manual",
                 config |-> registry[i][f]]
<1>1. TypeOK /\ registry[i][f] \in Configs
  BY DEF IInv, TypeOK, SetFaultState, FindInjectorForFault, Registered
<1>2. e \in Event /\ e.state # "config_updated"
  BY <1>1 DEF Event
<1>3. /\ active' = SwitchFault(e.injector, e.fault, e.state)
      /\ events' = Append(events, e)
      /\ calls' = calls + 1 /\ calls < MaxCalls
      /\ UNCHANGED <<scenario, built, registry, timers, generation, mark, now>>
  BY DEF SetFaultState
<1> HIDE DEF e
<1>4. /\ active' \in [InjectorIds -> SUBSET FaultIds]
      /\ events' \in Seq(Event) /\ mark' \in 0..Len(events')
      /\ RegistryMatchesScenario' /\ TimelineMatchesState'
  BY <1>2, <1>3, SwitchAndRecord
<1>5. TypeOK'
  BY <1>1, <1>3, <1>4, ConstantsAssumption DEF TypeOK
<1> QED BY <1>3, <1>4, <1>5 DEF IInv, InjectorsMatchScenario

\* A config update changes the config of a fault that stays registered, and
\* its event is no lifecycle event.
LEMMA SetFaultConfigStep ==
  ASSUME IInv, NEW i \in InjectorIds, NEW f \in FaultIds, NEW c \in Configs,
         SetFaultConfig(i, f, c)
  PROVE  IInv'
<1> DEFINE e == [injector |-> i, fault |-> f, state |-> "config_updated",
                 source |-> "manual", config |-> c]
<1>1. /\ TypeOK /\ RegistryMatchesScenario /\ TimelineMatchesState
      /\ Registered(i, f)
  BY DEF IInv, SetFaultConfig, FindInjectorForFault
<1>2. e \in Event /\ e.state = "config_updated"
  BY DEF Event
<1>3. /\ registry' = [registry EXCEPT ![i][f] = c]
      /\ events' = Append(events, e)
      /\ calls' = calls + 1 /\ calls < MaxCalls
      /\ UNCHANGED <<scenario, built, active, timers, generation, mark, now>>
  BY DEF SetFaultConfig
<1> HIDE DEF e
<1>4. /\ registry' \in [InjectorIds -> [FaultIds -> Configs \cup {NoConfig}]]
      /\ \A j \in InjectorIds, g \in FaultIds : Registered(j, g)' <=> Registered(j, g)
  BY <1>1, <1>3, ConstantsAssumption DEF TypeOK, Registered
<1>5. events \in Seq(Event) /\ mark \in 0..Len(events)
  BY <1>1 DEF TypeOK
<1>6. events' \in Seq(Event) /\ mark' \in 0..Len(events')
  BY <1>2, <1>3, <1>5, AppendProperties, LenProperties
<1>7. TypeOK'
  BY <1>1, <1>3, <1>4, <1>6, ConstantsAssumption DEF TypeOK
<1>8. RegistryMatchesScenario'
  BY <1>1, <1>3, <1>4 DEF RegistryMatchesScenario
<1>9. TimelineMatchesState'
  <2> SUFFICES ASSUME NEW j \in InjectorIds, NEW g \in FaultIds, Registered(j, g)'
               PROVE  g \in active'[j] <=> TimelineActive(j, g)'
    BY DEF TimelineMatchesState
  <2>1. TimelineActive(j, g)' <=> TimelineActive(j, g)
    BY <1>2, <1>3, <1>5, AppendTimeline
  <2> QED BY <1>1, <1>3, <1>4, <2>1 DEF TimelineMatchesState
<1> QED BY <1>3, <1>7, <1>8, <1>9 DEF IInv, InjectorsMatchScenario

\* A compatible reload has the injectors of the scenario it replaces: it
\* repeats each of them and has no more of them.
LEMMA CompatibleInjectors ==
  ASSUME NEW current \in ScenarioConfig, NEW new \in ScenarioConfig,
         IsFiniteSet(new.injectors), ReloadCompatible(current, new)
  PROVE  new.injectors = current.injectors
<1>1. new.injectors \subseteq Injector /\ current.injectors \subseteq Injector
  BY ScenarioFaults
<1>2. current.injectors \subseteq new.injectors
  <2> SUFFICES ASSUME NEW c \in current.injectors PROVE c \in new.injectors
    OBVIOUS
  <2>1. PICK u \in new.injectors : u.id = c.id /\ u.shape = c.shape
    BY DEF ReloadCompatible
  <2>2. u = c
    BY <1>1, <2>1 DEF Injector
  <2> QED BY <2>2
<1>3. Cardinality(new.injectors) = Cardinality(current.injectors)
  BY DEF ReloadCompatible
<1> QED BY <1>2, <1>3, FS_Subset

LEMMA ReloadScenarioStep ==
  ASSUME IInv, NEW s \in Files, ReloadScenario(s)
  PROVE  IInv'
<1>1. /\ s \in ScenarioConfig /\ IsFiniteSet(s.injectors)
      /\ ReloadCompatible(scenario, s)
  BY ConstantsAssumption DEF ReloadScenario
<1>2. PICK q \in StartupOrders(s, built) : events' = events \o StartupEvents(s, q)
  BY DEF ReloadScenario
<1>3. TypeOK
  BY DEF IInv
<1>4. s.injectors = scenario.injectors
  BY <1>1, <1>3, CompatibleInjectors DEF TypeOK
<1>5. events' \in Seq(Event) /\ mark' \in 0..Len(events')
  BY <1>1, <1>2, <1>3, StartupEventsResult, ConcatProperties, LenProperties
     DEF TypeOK, ReloadScenario
<1>6. TypeOK'
  <2>1. registry' \in [InjectorIds -> [FaultIds -> Configs \cup {NoConfig}]]
    BY <1>1, RegisterFaultsResult DEF ReloadScenario, FaultsAfterClear
  <2>2. active' \in [InjectorIds -> SUBSET FaultIds]
    BY <1>1, StartupActiveResult DEF ReloadScenario
  <2>3. generation' \in Nat
    BY <1>3 DEF ReloadScenario, TypeOK
  <2>4. timers' \subseteq Timer
    BY <1>1, <1>3, <2>3, ArmTimersType DEF ReloadScenario, TimersAfterClear, TypeOK
  <2>5. calls' \in 0..MaxCalls
    BY <1>3, ConstantsAssumption DEF ReloadScenario, TypeOK
  <2>6. scenario' \in ScenarioConfig /\ built' = built /\ now' = now
    BY <1>1 DEF ReloadScenario
  <2> QED BY <1>3, <1>5, <2>1, <2>2, <2>3, <2>4, <2>5, <2>6 DEF TypeOK
<1>7. InjectorsMatchScenario'
  BY <1>4 DEF ReloadScenario, IInv, InjectorsMatchScenario, CreateInjectors
<1>8. RegistryMatchesScenario'
  BY <1>1, RegisterFaultsResult, StartupActiveResult
     DEF ReloadScenario, FaultsAfterClear, RegistryMatchesScenario, Registered
<1>9. TimelineMatchesState'
  <2> SUFFICES ASSUME NEW i \in InjectorIds, NEW f \in FaultIds
               PROVE  f \in active'[i] <=> TimelineActive(i, f)'
    BY DEF TimelineMatchesState
  <2> DEFINE E == StartupEvents(s, q)
  <2>1. /\ E \in Seq(Event)
        /\ \A a \in 1..Len(E) : E[a].state = "active"
        /\ f \in StartupActive(s, built)[i] <=>
             \E a \in 1..Len(E) : E[a].injector = i /\ E[a].fault = f
    BY <1>1, StartupEventsResult
  <2> HIDE DEF E
  <2>2. events \in Seq(Event) /\ events' = events \o E /\ mark' = Len(events)
    BY <1>2, <1>3 DEF ReloadScenario, TypeOK, E
  <2>3. TimelineActive(i, f)' <=>
          \E a \in 1..Len(E) : E[a].injector = i /\ E[a].fault = f
    BY <2>1, <2>2, LoadTimeline
  <2> QED BY <2>1, <2>3 DEF ReloadScenario
<1>10. IsFiniteSet(scenario'.injectors)
  BY <1>1 DEF ReloadScenario
<1> QED BY <1>6, <1>7, <1>8, <1>9, <1>10 DEF IInv

\* Steps that change none of what the invariant talks about except the clock.
LEMMA QuietStep ==
  ASSUME IInv, Tick \/ UNCHANGED vars
  PROVE  IInv'
<1>1. /\ UNCHANGED <<scenario, built, registry, active, timers, generation, events,
                     mark, calls>>
      /\ now' \in Nat
  BY DEF IInv, TypeOK, Tick, vars
<1> QED BY <1>1 DEF IInv, TypeOK, InjectorsMatchScenario, RegistryMatchesScenario,
                    TimelineMatchesState, Registered, TimelineActive, Lifecycle

LEMMA NextIInv == IInv /\ [Next]_vars => IInv'
<1> SUFFICES ASSUME IInv, [Next]_vars PROVE IInv'
  OBVIOUS
<1>1. CASE Tick \/ UNCHANGED vars \/ RejectRequest
  BY <1>1, QuietStep DEF RejectRequest
<1>2. CASE \E t \in timers : FireStart(t) \/ FireStop(t)
  BY <1>2, FireTimerStep
<1>3. CASE \E i \in InjectorIds, f \in FaultIds, state \in {"active", "inactive"} :
             SetFaultState(i, f, state)
  BY <1>3, SetFaultStateStep
<1>4. CASE \E i \in InjectorIds, f \in FaultIds, c \in Configs : SetFaultConfig(i, f, c)
  BY <1>4, SetFaultConfigStep
<1>5. CASE \E s \in Files : ReloadScenario(s)
  BY <1>5, ReloadScenarioStep
<1> QED BY <1>1, <1>2, <1>3, <1>4, <1>5 DEF Next

-----------------------------------------------------------------------------
\* The inductive invariant holds in every reachable state.
LEMMA SpecIInv == Spec => []IInv
<1> QED BY InitIInv, NextIInv, PTL DEF Spec

\* Every variable of the controller keeps its type, for all scenarios, files,
\* latenesses and numbers of service calls.
THEOREM TypeCorrect == Spec => []TypeOK
<1>1. IInv => TypeOK
  BY DEF IInv
<1> QED BY SpecIInv, <1>1, PTL

\* No reload, and no series of reloads, makes the running injectors and the
\* running scenario disagree.
THEOREM InjectorsAlwaysMatch == Spec => []InjectorsMatchScenario
<1>1. IInv => InjectorsMatchScenario
  BY DEF IInv
<1> QED BY SpecIInv, <1>1, PTL

\* faults_ always holds exactly the faults of the running scenario, and active_
\* only some of those: nothing survives a reload in the injectors.
THEOREM RegistryAlwaysMatches == Spec => []RegistryMatchesScenario
<1>1. IInv => RegistryMatchesScenario
  BY DEF IInv
<1> QED BY SpecIInv, <1>1, PTL

\* What the recorded timeline says of a registered fault is always true of the
\* injector, timers that outlive a reload included.
THEOREM TimelineAlwaysMatches == Spec => []TimelineMatchesState
<1>1. IInv => TimelineMatchesState
  BY DEF IInv
<1> QED BY SpecIInv, <1>1, PTL

-----------------------------------------------------------------------------
(* The schedule of the scenario the node was launched with.  What the       *)
(* invariant adds is which timers are left, and that the executor keeps up  *)
(* with them.                                                               *)

LaunchTimers ==
  /\ mark = 0
  /\ \A t \in timers : t \in ArmTimers(scenario, built, 0, 0) /\ now <= t.due + MaxLate

StartOf(k) == TimerOf(scenario, k, "start", StartDue(k), 0)
StopOf(k) == TimerOf(scenario, k, "stop", StopDue(k), 0)

Window(i, f, k) ==
  HasWindow(i, f, k) /\ Separated(k) /\ Registered(i, f) /\ Untouched(i, f)

\* A fault with a window waits for its start, then for its stop, then is over.
Phases ==
  \A i \in InjectorIds, f \in FaultIds : \A k \in DOMAIN scenario.faults :
    Window(i, f, k) =>
      \/ StartOf(k) \in timers /\ StopOf(k) \in timers /\ f \notin active[i]
      \/ /\ StartOf(k) \notin timers /\ StopOf(k) \in timers
         /\ f \in active[i] /\ StartDue(k) <= now
      \/ /\ StartOf(k) \notin timers /\ StopOf(k) \notin timers
         /\ f \notin active[i] /\ StopDue(k) <= now

SInv == generation = 0 => LaunchTimers /\ Phases /\ ManualOnlyStaysInactive

\* What a window is: one definition, with numbers for start and duration.
LEMMA WindowResult ==
  ASSUME TypeOK, NEW i, NEW f, NEW k \in DOMAIN scenario.faults, HasWindow(i, f, k)
  PROVE  /\ scenario.faults[k].id = f /\ scenario.faults[k].injector = i
         /\ \A j \in DOMAIN scenario.faults : scenario.faults[j].id = f => j = k
         /\ StartDue(k) \in Nat /\ StopDue(k) \in Nat
         /\ ~InitiallyActive(scenario, k)
<1>1. scenario \in ScenarioConfig
  BY DEF TypeOK
<1>2. scenario.faults[k] \in FaultConfig
  BY <1>1, ScenarioFaults
<1>3. scenario.faults[k].start \in Int /\ scenario.faults[k].duration \in Int
  BY <1>2 DEF FaultConfig, HasWindow
<1>4. /\ scenario.faults[k].id = f /\ scenario.faults[k].injector = i
      /\ \A j \in DOMAIN scenario.faults : scenario.faults[j].id = f => j = k
      /\ ~scenario.faults[k].startup
  BY DEF HasWindow
<1>5. StartDue(k) \in Nat /\ StopDue(k) \in Nat
  BY <1>3 DEF StartDue, StopDue, Clamp
<1> QED BY <1>4, <1>5 DEF InitiallyActive

\* The timers of a fault with a window are its start and its stop.
LEMMA WindowTimers ==
  ASSUME TypeOK, LaunchTimers, NEW i, NEW f, NEW k \in DOMAIN scenario.faults,
         HasWindow(i, f, k), NEW t \in timers, t.fault = f
  PROVE  t = StartOf(k) \/ t = StopOf(k)
<1>1. t \in ArmTimers(scenario, built, 0, 0)
  BY DEF LaunchTimers
<1>2. /\ \A j \in DOMAIN scenario.faults : scenario.faults[j].id = f => j = k
      /\ StartDue(k) \in Nat /\ StopDue(k) \in Nat /\ ~InitiallyActive(scenario, k)
  BY WindowResult
<1>3. CASE t \in StartTimers(scenario, built, 0, 0)
  <2>1. PICK j \in DOMAIN scenario.faults :
          t = TimerOf(scenario, j, "start", 0 + Clamp(scenario.faults[j].start), 0)
    BY <1>3 DEF StartTimers, Targeted
  <2>2. j = k
    BY <1>2, <2>1 DEF TimerOf
  <2>3. 0 + Clamp(scenario.faults[k].start) = StartDue(k)
    BY <1>2 DEF StartDue
  <2> QED BY <2>1, <2>2, <2>3 DEF StartOf
<1>4. CASE t \in StopTimers(scenario, built, 0, 0)
  <2>1. PICK j \in DOMAIN scenario.faults :
          t = TimerOf(scenario, j, "stop", 0 + StopDelay(scenario, j), 0)
    BY <1>4 DEF StopTimers, Targeted
  <2>2. j = k
    BY <1>2, <2>1 DEF TimerOf
  <2>3. 0 + StopDelay(scenario, k) = StopDue(k)
    BY <1>2 DEF StopDue, StopDelay
  <2> QED BY <2>1, <2>2, <2>3 DEF StopOf
<1> QED BY <1>1, <1>3, <1>4 DEF ArmTimers

LEMMA StartIsNotStop ==
  ASSUME NEW k
  PROVE  /\ StartOf(k) # StopOf(k)
         /\ StartOf(k).kind = "start" /\ StopOf(k).kind = "stop"
         /\ StartOf(k).due = StartDue(k) /\ StopOf(k).due = StopDue(k)
BY DEF StartOf, StopOf, TimerOf

\* The constructor arms both timers of every window.
LEMMA InitSInv == Init => SInv
<1> SUFFICES ASSUME Init PROVE LaunchTimers /\ Phases /\ ManualOnlyStaysInactive
  BY DEF SInv
<1>0. IInv
  BY InitIInv
<1>1. /\ scenario \in ScenarioConfig /\ built = CreateInjectors(scenario)
      /\ active = StartupActive(scenario, built)
      /\ timers = ArmTimers(scenario, built, 0, 0)
      /\ mark = 0 /\ now = 0
  BY <1>0 DEF Init, IInv, TypeOK
<1>2. TypeOK /\ RegistryMatchesScenario
  BY <1>0 DEF IInv
<1>3. LaunchTimers
  <2>1. \A t \in timers : t.due \in Nat
    BY <1>2 DEF TypeOK, Timer
  <2> QED BY <1>1, <2>1, ConstantsAssumption DEF LaunchTimers
<1>4. \A i \in InjectorIds, f \in FaultIds : f \in active[i] =>
        \E j \in DOMAIN scenario.faults :
          scenario.faults[j].id = f /\ scenario.faults[j].startup
  BY <1>1 DEF StartupActive, StartupIndices, InitiallyActive
<1>5. Phases
  <2> SUFFICES ASSUME NEW i \in InjectorIds, NEW f \in FaultIds,
                      NEW k \in DOMAIN scenario.faults, Window(i, f, k)
               PROVE  StartOf(k) \in timers /\ StopOf(k) \in timers /\ f \notin active[i]
    BY DEF Phases
  <2>1. HasWindow(i, f, k) /\ Registered(i, f)
    BY DEF Window
  <2>2. /\ \A j \in DOMAIN scenario.faults : scenario.faults[j].id = f => j = k
        /\ StartDue(k) \in Nat /\ StopDue(k) \in Nat /\ ~InitiallyActive(scenario, k)
    BY <1>2, <2>1, WindowResult
  <2>3. k \in Targeted(scenario, built)
    <3>1. PICK j \in Definitions(scenario, built, i, f) : TRUE
      BY <1>2, <2>1 DEF RegistryMatchesScenario
    <3>2. j \in Targeted(scenario, built) /\ scenario.faults[j].id = f
      BY <3>1 DEF Definitions
    <3> QED BY <2>2, <3>2 DEF Targeted
  <2>4. StartOf(k) \in timers
    <3>1. 0 + Clamp(scenario.faults[k].start) = StartDue(k)
      BY <2>2 DEF StartDue
    <3>2. StartOf(k) \in StartTimers(scenario, built, 0, 0)
      BY <2>1, <2>2, <2>3, <3>1 DEF StartTimers, StartOf, HasWindow
    <3> QED BY <1>1, <3>2 DEF ArmTimers
  <2>5. StopOf(k) \in timers
    <3>1. 0 + StopDelay(scenario, k) = StopDue(k)
      BY <2>2 DEF StopDue, StopDelay
    <3>2. StopOf(k) \in StopTimers(scenario, built, 0, 0)
      BY <2>1, <2>3, <3>1 DEF StopTimers, StopOf, HasWindow
    <3> QED BY <1>1, <3>2 DEF ArmTimers
  <2>6. f \notin active[i]
    BY <1>4, <2>1, <2>2 DEF HasWindow
  <2> QED BY <2>4, <2>5, <2>6
<1>6. ManualOnlyStaysInactive
  BY <1>4 DEF ManualOnlyStaysInactive
<1> QED BY <1>3, <1>5, <1>6

LEMMA TickSchedule == IInv /\ SInv /\ Tick => SInv'
<1> SUFFICES ASSUME IInv, SInv, Tick, generation = 0
             PROVE  (LaunchTimers /\ Phases /\ ManualOnlyStaysInactive)'
  BY DEF SInv, Tick
<1>1. /\ LaunchTimers /\ Phases /\ ManualOnlyStaysInactive
      /\ TypeOK /\ now \in Nat /\ now' = now + 1
      /\ UNCHANGED <<scenario, built, registry, active, timers, generation, events, mark>>
  BY DEF SInv, Tick, IInv, TypeOK
<1>2. LaunchTimers'
  <2>1. \A t \in timers : t.due \in Nat /\ now < t.due + MaxLate
    BY <1>1 DEF TypeOK, Timer, Tick
  <2> QED BY <1>1, <2>1, ConstantsAssumption DEF LaunchTimers
<1>3. Phases'
  <2> SUFFICES ASSUME NEW i \in InjectorIds, NEW f \in FaultIds,
                      NEW k \in DOMAIN scenario.faults, Window(i, f, k)
               PROVE  /\ StartDue(k) <= now => StartDue(k) <= now + 1
                      /\ StopDue(k) <= now => StopDue(k) <= now + 1
    BY <1>1 DEF Phases, Window, HasWindow, Separated, Registered, Untouched, StartOf,
                StopOf, StartDue, StopDue
  <2>1. StartDue(k) \in Nat /\ StopDue(k) \in Nat
    BY <1>1, WindowResult DEF Window
  <2> QED BY <1>1, <2>1
<1>4. ManualOnlyStaysInactive'
  BY <1>1 DEF ManualOnlyStaysInactive
<1> QED BY <1>2, <1>3, <1>4

\* A recorded event leaves what was recorded before in place, so a fault that no
\* call has touched by now was not touched before either.
LEMMA AppendKeeps ==
  ASSUME TypeOK, NEW e \in Event, events' = Append(events, e), mark' = mark,
         NEW i, NEW f
  PROVE  /\ Len(events') = Len(events) + 1 /\ Len(events) \in Nat /\ mark \in Nat
         /\ mark <= Len(events)
         /\ events'[Len(events) + 1] = e
         /\ \A k \in 1..Len(events) : events'[k] = events[k]
         /\ Untouched(i, f)' =>
              Untouched(i, f) /\ ~(e.injector = i /\ e.fault = f /\ e.source = "manual")
<1> DEFINE n == Len(events)
<1>1. events \in Seq(Event) /\ mark \in 0..n
  BY DEF TypeOK
<1>2. /\ n \in Nat /\ Len(events') = n + 1 /\ events'[n + 1] = e
      /\ \A k \in 1..n : events'[k] = events[k]
      /\ DOMAIN events = 1..n
  BY <1>1, LenProperties, AppendProperties
<1>3. DOMAIN events' = 1..(n + 1)
  BY <1>1, <1>2, AppendProperties, LenProperties
<1>4. ASSUME Untouched(i, f)'
      PROVE  Untouched(i, f) /\ ~(e.injector = i /\ e.fault = f /\ e.source = "manual")
  <2>1. \A k \in 1..(n + 1) : events'[k].injector = i /\ events'[k].fault = f
                                => events'[k].source # "manual"
    BY <1>3, <1>4 DEF Untouched
  <2>2. n + 1 \in 1..(n + 1) /\ \A k \in 1..n : k \in 1..(n + 1)
    BY <1>2
  <2> QED BY <1>2, <2>1, <2>2 DEF Untouched
<1> QED BY <1>1, <1>2, <1>4

\* A fault without a start is switched on by a call, or was on before.
LEMMA ManualStep ==
  ASSUME IInv, LaunchTimers, ManualOnlyStaysInactive, NEW e \in Event,
         events' = Append(events, e), mark' = mark, scenario' = scenario,
         \A i \in InjectorIds, f \in FaultIds : f \in active'[i] /\ f \notin active[i] =>
           /\ e.injector = i /\ e.fault = f /\ e.state = "active"
           /\ \/ e.source = "manual"
              \/ \E j \in DOMAIN scenario.faults :
                   scenario.faults[j].id = f /\ scenario.faults[j].start # NoTime
  PROVE  ManualOnlyStaysInactive'
<1> SUFFICES \A i \in InjectorIds, f \in FaultIds :
      /\ f \in active'[i]
      /\ \A k \in DOMAIN scenario'.faults : scenario'.faults[k].id = f =>
           ~scenario'.faults[k].startup /\ scenario'.faults[k].start = NoTime
      => \E k \in (mark' + 1)..Len(events') :
           /\ events'[k].injector = i /\ events'[k].fault = f
           /\ events'[k].state = "active" /\ events'[k].source = "manual"
  BY Zenon DEF ManualOnlyStaysInactive
<1> TAKE i \in InjectorIds, f \in FaultIds
<1> HAVE /\ f \in active'[i]
         /\ \A k \in DOMAIN scenario'.faults : scenario'.faults[k].id = f =>
              ~scenario'.faults[k].startup /\ scenario'.faults[k].start = NoTime
<1>0. \A k \in DOMAIN scenario.faults : scenario.faults[k].id = f =>
        ~scenario.faults[k].startup /\ scenario.faults[k].start = NoTime
  OBVIOUS
<1>1. /\ Len(events') = Len(events) + 1 /\ Len(events) \in Nat /\ mark \in Nat
      /\ mark <= Len(events)
      /\ events'[Len(events) + 1] = e
      /\ \A k \in 1..Len(events) : events'[k] = events[k]
  BY AppendKeeps DEF IInv
<1>2. CASE f \in active[i]
  <2>1. PICK k \in (mark + 1)..Len(events) :
          /\ events[k].injector = i /\ events[k].fault = f
          /\ events[k].state = "active" /\ events[k].source = "manual"
    BY <1>0, <1>2 DEF ManualOnlyStaysInactive
  <2>2. k \in (mark' + 1)..Len(events') /\ events'[k] = events[k]
    BY <1>1
  <2> QED BY <2>1, <2>2
<1>3. CASE f \notin active[i]
  <2>1. e.injector = i /\ e.fault = f /\ e.state = "active" /\ e.source = "manual"
    BY <1>0, <1>3
  <2>2. Len(events) + 1 \in (mark' + 1)..Len(events')
    BY <1>1
  <2> QED BY <1>1, <2>1, <2>2
<1> QED BY <1>2, <1>3

LEMMA FireSchedule ==
  ASSUME IInv, SInv, NEW t \in timers, FireStart(t) \/ FireStop(t)
  PROVE  SInv'
<1> DEFINE e == [injector |-> t.injector, fault |-> t.fault,
                 state |-> IF t.kind = "start" THEN "active" ELSE "inactive",
                 source |-> "scheduled", config |-> t.config]
<1> SUFFICES ASSUME generation = 0
             PROVE  (LaunchTimers /\ Phases /\ ManualOnlyStaysInactive)'
  BY DEF SInv, FireStart, FireStop
<1>1. /\ LaunchTimers /\ Phases /\ ManualOnlyStaysInactive
      /\ TypeOK /\ RegistryMatchesScenario /\ t \in Timer /\ now \in Nat
      /\ t \in ArmTimers(scenario, built, 0, 0)
  BY DEF SInv, IInv, TypeOK, LaunchTimers
<1>2. /\ e \in Event /\ e.injector = t.injector /\ e.fault = t.fault
      /\ e.source = "scheduled"
      /\ e.state = IF t.kind = "start" THEN "active" ELSE "inactive"
      /\ t.injector \in InjectorIds /\ t.fault \in FaultIds
      /\ t.kind \in {"start", "stop"}
  BY <1>1 DEF Timer, Event
<1>3. /\ active' = SwitchFault(t.injector, t.fault, e.state)
      /\ events' = Append(events, e)
      /\ timers' = timers \ {t} /\ t.due <= now
      /\ UNCHANGED <<scenario, built, registry, generation, mark, now, calls>>
  BY DEF FireStart, FireStop
<1> HIDE DEF e
<1>4. /\ \A i \in InjectorIds, f \in FaultIds : ~(i = t.injector /\ f = t.fault) =>
           (f \in active'[i] <=> f \in active[i])
      /\ t.fault \in active'[t.injector] =>
           t.fault \in active[t.injector] \/ e.state = "active"
      /\ Registered(t.injector, t.fault) =>
           (t.fault \in active'[t.injector] <=> e.state = "active")
  BY <1>1, <1>2, <1>3 DEF SwitchFault, TypeOK
<1>5. LaunchTimers'
  BY <1>1, <1>3 DEF LaunchTimers
<1>6. Phases'
  <2> SUFFICES ASSUME NEW i \in InjectorIds, NEW f \in FaultIds,
                      NEW k \in DOMAIN scenario.faults, Window(i, f, k)'
               PROVE  \/ StartOf(k) \in timers' /\ StopOf(k) \in timers' /\ f \notin active'[i]
                      \/ /\ StartOf(k) \notin timers' /\ StopOf(k) \in timers'
                         /\ f \in active'[i] /\ StartDue(k) <= now
                      \/ /\ StartOf(k) \notin timers' /\ StopOf(k) \notin timers'
                         /\ f \notin active'[i] /\ StopDue(k) <= now
    BY <1>3 DEF Phases, StartOf, StopOf, StartDue, StopDue
  <2>1. Window(i, f, k)
    <3>1. Untouched(i, f)
      BY <1>1, <1>2, <1>3, AppendKeeps DEF Window
    <3> QED BY <1>3, <3>1 DEF Window, HasWindow, Separated, StopDue, StartDue, Registered
  <2>2. /\ HasWindow(i, f, k) /\ Registered(i, f)
        /\ StartDue(k) \in Nat /\ StopDue(k) \in Nat
        /\ StopDue(k) - StartDue(k) > MaxLate
        /\ scenario.faults[k].id = f /\ scenario.faults[k].injector = i
    <3>1. HasWindow(i, f, k) /\ Registered(i, f) /\ Separated(k)
      BY <2>1 DEF Window
    <3>2. /\ StartDue(k) \in Nat /\ StopDue(k) \in Nat
          /\ scenario.faults[k].id = f /\ scenario.faults[k].injector = i
      BY <1>1, <3>1, WindowResult
    <3>3. StopDue(k) - StartDue(k) > MaxLate
      BY <3>1 DEF Separated, HasWindow
    <3> QED BY <3>1, <3>2, <3>3
  <2>3. \/ StartOf(k) \in timers /\ StopOf(k) \in timers /\ f \notin active[i]
        \/ /\ StartOf(k) \notin timers /\ StopOf(k) \in timers
           /\ f \in active[i] /\ StartDue(k) <= now
        \/ /\ StartOf(k) \notin timers /\ StopOf(k) \notin timers
           /\ f \notin active[i] /\ StopDue(k) <= now
    BY <1>1, <2>1 DEF Phases
  <2>4. CASE t = StartOf(k)
    <3>1. t.injector = i /\ t.fault = f /\ t.kind = "start" /\ t.due = StartDue(k)
      BY <2>2, <2>4 DEF StartOf, TimerOf
    <3> QED BY <1>2, <1>3, <1>4, <2>2, <2>3, <2>4, <3>1, StartIsNotStop
  <2>5. CASE t = StopOf(k)
    <3>1. t.injector = i /\ t.fault = f /\ t.kind = "stop" /\ t.due = StopDue(k)
      BY <2>2, <2>5 DEF StopOf, TimerOf
    <3>2. StartOf(k) \notin timers
      <4> SUFFICES ASSUME StartOf(k) \in timers PROVE FALSE
        OBVIOUS
      <4>1. now <= StartDue(k) + MaxLate
        BY <1>1, StartIsNotStop DEF LaunchTimers
      <4> QED BY <1>1, <1>3, <2>2, <3>1, <4>1, ConstantsAssumption
    <3> QED BY <1>2, <1>3, <1>4, <2>2, <2>3, <2>5, <3>1, <3>2
  <2>6. CASE t # StartOf(k) /\ t # StopOf(k)
    <3>1. t.fault # f
      BY <1>1, <2>2, <2>6, WindowTimers
    <3> QED BY <1>3, <1>4, <2>3, <2>6, <3>1
  <2> QED BY <2>4, <2>5, <2>6
<1>7. ManualOnlyStaysInactive'
  <2>1. ASSUME t.kind = "start"
        PROVE  \E j \in DOMAIN scenario.faults :
                 scenario.faults[j].id = t.fault /\ scenario.faults[j].start # NoTime
    <3>1. t \in StartTimers(scenario, built, 0, 0)
      BY <1>1, <2>1 DEF ArmTimers, StopTimers, TimerOf
    <3> QED BY <3>1 DEF StartTimers, TimerOf, Targeted
  <2>2. \A i \in InjectorIds, f \in FaultIds : f \in active'[i] /\ f \notin active[i] =>
           /\ e.injector = i /\ e.fault = f /\ e.state = "active"
           /\ \E j \in DOMAIN scenario.faults :
                scenario.faults[j].id = f /\ scenario.faults[j].start # NoTime
    BY <1>2, <1>4, <2>1
  <2> QED BY <1>1, <1>2, <1>3, <2>2, ManualStep
<1> QED BY <1>5, <1>6, <1>7

\* A call touches one fault, and leaves the others and every timer alone.
LEMMA CallSchedule ==
  ASSUME IInv, SInv, NEW i \in InjectorIds, NEW f \in FaultIds, NEW e \in Event,
         e.injector = i, e.fault = f, e.source = "manual",
         events' = Append(events, e),
         UNCHANGED <<scenario, built, timers, generation, mark, now>>,
         \A j \in InjectorIds, g \in FaultIds : Registered(j, g)' => Registered(j, g),
         \A j \in InjectorIds, g \in FaultIds : ~(j = i /\ g = f) =>
           (g \in active'[j] <=> g \in active[j]),
         f \in active'[i] => f \in active[i] \/ e.state = "active"
  PROVE  SInv'
<1> SUFFICES ASSUME generation = 0
             PROVE  (LaunchTimers /\ Phases /\ ManualOnlyStaysInactive)'
  BY DEF SInv
<1>1. LaunchTimers /\ Phases /\ ManualOnlyStaysInactive /\ TypeOK
  BY DEF SInv, IInv
<1>2. LaunchTimers'
  BY <1>1 DEF LaunchTimers
<1>3. Phases'
  <2> SUFFICES ASSUME NEW j \in InjectorIds, NEW g \in FaultIds,
                      NEW k \in DOMAIN scenario.faults, Window(j, g, k)'
               PROVE  Window(j, g, k) /\ (g \in active'[j] <=> g \in active[j])
    BY <1>1 DEF Phases, StartOf, StopOf, StartDue, StopDue
  <2>1. Untouched(j, g) /\ ~(j = i /\ g = f)
    BY <1>1, AppendKeeps DEF Window
  <2> QED BY <2>1 DEF Window, HasWindow, Separated, StopDue, StartDue
<1>4. ManualOnlyStaysInactive'
  BY <1>1, ManualStep
<1> QED BY <1>2, <1>3, <1>4

LEMMA SetFaultStateSchedule ==
  ASSUME IInv, SInv, NEW i \in InjectorIds, NEW f \in FaultIds,
         NEW state \in {"active", "inactive"}, SetFaultState(i, f, state)
  PROVE  SInv'
<1> DEFINE e == [injector |-> i, fault |-> f, state |-> state, source |-> "manual",
                 config |-> registry[i][f]]
<1>1. TypeOK /\ Registered(i, f) /\ registry[i][f] \in Configs
  BY DEF IInv, TypeOK, SetFaultState, FindInjectorForFault, Registered
<1>2. /\ e \in Event /\ e.injector = i /\ e.fault = f /\ e.source = "manual"
      /\ e.state = state
  BY <1>1 DEF Event
<1>3. /\ active' = SwitchFault(i, f, state)
      /\ events' = Append(events, e)
      /\ UNCHANGED <<scenario, built, registry, timers, generation, mark, now>>
  BY DEF SetFaultState
<1> HIDE DEF e
<1>4. /\ \A j \in InjectorIds, g \in FaultIds : ~(j = i /\ g = f) =>
           (g \in active'[j] <=> g \in active[j])
      /\ f \in active'[i] => f \in active[i] \/ e.state = "active"
  BY <1>1, <1>2, <1>3 DEF SwitchFault, TypeOK
<1>5. \A j \in InjectorIds, g \in FaultIds : Registered(j, g)' => Registered(j, g)
  BY <1>3 DEF Registered
<1> QED BY <1>2, <1>3, <1>4, <1>5, CallSchedule

LEMMA SetFaultConfigSchedule ==
  ASSUME IInv, SInv, NEW i \in InjectorIds, NEW f \in FaultIds, NEW c \in Configs,
         SetFaultConfig(i, f, c)
  PROVE  SInv'
<1> DEFINE e == [injector |-> i, fault |-> f, state |-> "config_updated",
                 source |-> "manual", config |-> c]
<1>1. TypeOK /\ Registered(i, f)
  BY DEF IInv, SetFaultConfig, FindInjectorForFault
<1>2. e \in Event /\ e.injector = i /\ e.fault = f /\ e.source = "manual"
  BY DEF Event
<1>3. /\ registry' = [registry EXCEPT ![i][f] = c]
      /\ events' = Append(events, e)
      /\ UNCHANGED <<scenario, built, active, timers, generation, mark, now>>
  BY DEF SetFaultConfig
<1> HIDE DEF e
<1>4. \A j \in InjectorIds, g \in FaultIds : Registered(j, g)' => Registered(j, g)
  BY <1>1, <1>3, ConstantsAssumption DEF TypeOK, Registered
<1> QED BY <1>2, <1>3, <1>4, CallSchedule

LEMMA NextSInv == IInv /\ SInv /\ [Next]_vars => SInv'
<1> SUFFICES ASSUME IInv, SInv, [Next]_vars PROVE SInv'
  OBVIOUS
<1>1. CASE Tick
  BY <1>1, TickSchedule
<1>2. CASE \E t \in timers : FireStart(t) \/ FireStop(t)
  BY <1>2, FireSchedule
<1>3. CASE \E i \in InjectorIds, f \in FaultIds, state \in {"active", "inactive"} :
             SetFaultState(i, f, state)
  BY <1>3, SetFaultStateSchedule
<1>4. CASE \E i \in InjectorIds, f \in FaultIds, c \in Configs : SetFaultConfig(i, f, c)
  BY <1>4, SetFaultConfigSchedule
<1>5. CASE \E s \in Files : ReloadScenario(s)
  <2>1. generation \in Nat /\ generation' = generation + 1
    BY <1>5 DEF IInv, TypeOK, ReloadScenario
  <2> QED BY <2>1 DEF SInv
<1>6. CASE UNCHANGED vars \/ RejectRequest
  BY <1>6 DEF RejectRequest, vars, SInv, LaunchTimers, Phases, ManualOnlyStaysInactive,
              Window, HasWindow, Separated, Registered, Untouched, StartOf, StopOf,
              StartDue, StopDue
<1> QED BY <1>1, <1>2, <1>3, <1>4, <1>5, <1>6 DEF Next

\* Until a reload leaves stale timers, a fault with a window longer than the
\* executor is ever late is active in that window and at no other time, and a
\* fault with no start is activated by calls only: for every scenario, lateness
\* and series of calls on other faults.
THEOREM ScheduleAlwaysHonoured == Spec => []ScheduleHonoured
<1>1. Spec => [](IInv /\ SInv)
  BY InitIInv, InitSInv, NextIInv, NextSInv, PTL DEF Spec
<1>2. IInv /\ SInv => ScheduleHonoured
  <2> SUFFICES ASSUME IInv, SInv, generation = 0 PROVE ActiveInWindow /\ ManualOnlyStaysInactive
    BY DEF ScheduleHonoured
  <2>1. LaunchTimers /\ Phases /\ ManualOnlyStaysInactive /\ TypeOK /\ now \in Nat
    BY DEF SInv, IInv, TypeOK
  <2>2. ActiveInWindow
    <3> SUFFICES ASSUME NEW i \in InjectorIds, NEW f \in FaultIds,
                        NEW k \in DOMAIN scenario.faults, Window(i, f, k)
                 PROVE  /\ f \in active[i] => StartDue(k) <= now /\ now <= StopDue(k) + MaxLate
                        /\ StartDue(k) + MaxLate < now /\ now < StopDue(k) => f \in active[i]
      BY DEF ActiveInWindow, Window
    <3>1. StartDue(k) \in Nat /\ StopDue(k) \in Nat
      BY <2>1, WindowResult DEF Window
    <3>2. /\ StartOf(k) \in timers => now <= StartDue(k) + MaxLate
          /\ StopOf(k) \in timers => now <= StopDue(k) + MaxLate
      BY <2>1, StartIsNotStop DEF LaunchTimers
    <3> QED BY <2>1, <3>1, <3>2, ConstantsAssumption DEF Phases
  <2> QED BY <2>1, <2>2
<1> QED BY <1>1, <1>2, PTL
=============================================================================
