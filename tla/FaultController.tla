--------------------------- MODULE FaultController ---------------------------
(***************************************************************************)
(* The fault registry, the schedule and the reload path of one running     *)
(* fault_injector_node: FaultController, FaultScheduler, the registry part *)
(* of FaultInjectorBase, the state-changing handlers of FaultServiceManager*)
(* and FaultEventRecorder.                                                 *)
(*                                                                         *)
(* main() spins a single-threaded executor, so every callback (a timer, a  *)
(* service request) is one atomic step.  rclcpp promises no order between  *)
(* two timers that are both ready, and a callback that blocks makes the    *)
(* executor late; MaxLate bounds that lateness.  One unit of time is one   *)
(* millisecond, the scheduler's clamp.                                     *)
(***************************************************************************)
EXTENDS Integers, Sequences, FiniteSets

CONSTANTS
  InjectorIds,       \* injector ids a scenario may use
  FaultIds,          \* fault ids a scenario may use
  Rank,              \* iteration order of the injectors_ unordered_map
  Shapes,            \* type, seed, endpoints and QoS of an injector, as one value
  LoadableShapes,    \* shapes whose type FaultInjectorFactory can create
  Configs,           \* valid values of a fault's config map
  NoConfig,          \* "this fault id is not in faults_"
  NoTime,            \* an absent std::optional start or duration
  InitialScenarios,  \* scenarios the node may be launched with
  Files,             \* contents the scenario file may have when it is reloaded
  BadFile,           \* a file that cannot be loaded or fails a schema check
  MaxTime,           \* bound on the clock
  MaxLate,           \* how late the executor may run a ready timer
  MaxCalls           \* bound on successful service calls

Injector == [id : InjectorIds, shape : Shapes]

FaultConfig == [id : FaultIds, injector : InjectorIds, config : Configs,
                startup : BOOLEAN,
                start : Int \cup {NoTime}, duration : Int \cup {NoTime}]

ScenarioConfig == [injectors : SUBSET Injector, faults : Seq(FaultConfig)]

Event == [injector : InjectorIds, fault : FaultIds,
          state : {"active", "inactive", "config_updated"},
          source : {"startup", "scheduled", "manual"},
          config : Configs]

Timer == [injector : InjectorIds, fault : FaultIds, config : Configs,
          kind : {"start", "stop"}, due : Nat, index : Nat, generation : Nat]

ASSUME ConstantsAssumption ==
  /\ Rank \in [InjectorIds -> Nat]
  /\ \A i, j \in InjectorIds : Rank[i] = Rank[j] => i = j
  /\ LoadableShapes \subseteq Shapes
  /\ NoConfig \notin Configs
  /\ NoTime \notin Int
  /\ InitialScenarios \subseteq ScenarioConfig
  /\ Files \subseteq ScenarioConfig \cup {BadFile}
  /\ BadFile \notin ScenarioConfig
  /\ \A s \in InitialScenarios \cup (Files \ {BadFile}) : IsFiniteSet(s.injectors)
  /\ MaxTime \in Nat /\ MaxLate \in Nat /\ MaxCalls \in Nat

VARIABLES
  scenario,    \* scenario_
  built,       \* the injectors create_injectors() put in injectors_
  registry,    \* faults_ of every injector: fault id -> its config
  active,      \* active_ of every injector: the fault ids that are true
  timers,      \* wall timers that have not fired
  generation,  \* how many times a scenario was loaded into the scheduler
  events,      \* what FaultEventRecorder recorded, which is what was published
  mark,        \* history: Len(events) when the current scenario was loaded
  now,         \* the steady clock, from construction
  calls        \* service calls made, for the bound MaxCalls

vars == <<scenario, built, registry, active, timers, generation, events, mark,
          now, calls>>

-----------------------------------------------------------------------------
(* What the code reads from a scenario.                                    *)

Clamp(delay) == IF delay < 1 THEN 1 ELSE delay

\* active_on_startup puts the fault's ID in initially_active_faults, so every
\* definition with that id, whatever its injector, is initially active.
InitiallyActive(s, k) ==
  \E j \in DOMAIN s.faults : s.faults[j].id = s.faults[k].id /\ s.faults[j].startup

\* validate_scenario(): duplicate injector ids and dangling injector_ids are
\* errors, duplicate fault ids are not.
ValidScenario(s) ==
  /\ \A a, b \in s.injectors : a.id = b.id => a = b
  /\ \A k \in DOMAIN s.faults :
       LET f == s.faults[k] IN
       /\ \E a \in s.injectors : a.id = f.injector
       /\ f.start # NoTime => f.start >= 0
       /\ f.duration # NoTime => f.duration >= 0

\* (mutant: without the comparison of the numbers of injectors)
CompatibleIgnoringCount(current, new) ==
  \A c \in current.injectors :
    \E u \in new.injectors : u.id = c.id /\ u.shape = c.shape

\* validate_reload_compatible(): same number of injectors, and every running
\* one reappears with the same id and the same shape.
ReloadCompatible(current, new) ==
  /\ Cardinality(new.injectors) = Cardinality(current.injectors)
  /\ \A c \in current.injectors :
       \E u \in new.injectors : u.id = c.id /\ u.shape = c.shape

\* create_injectors() skips a type the factory does not know.
CreateInjectors(s) == {a \in s.injectors : a.shape \in LoadableShapes}

\* The definitions whose injector exists; register_faults() and
\* schedule_faults() pass over the others.
Targeted(s, injectors) ==
  {k \in DOMAIN s.faults : \E a \in injectors : a.id = s.faults[k].injector}

Definitions(s, injectors, i, f) ==
  {k \in Targeted(s, injectors) : s.faults[k].injector = i /\ s.faults[k].id = f}

NoFaults == [i \in InjectorIds |-> [f \in FaultIds |-> NoConfig]]

\* register_faults(): add_fault() in file order into the injectors' faults_,
\* so the last definition of an id replaces the earlier ones.
RegisterFaults(s, injectors, faults) ==
  [i \in InjectorIds |-> [f \in FaultIds |->
     LET K == Definitions(s, injectors, i, f) IN
     IF K = {} THEN faults[i][f]
     ELSE s.faults[CHOOSE k \in K : \A j \in K : j <= k].config]]

StartupIndices(s, injectors) == {k \in Targeted(s, injectors) : InitiallyActive(s, k)}

\* schedule(): the faults it activates at once, per injector.
StartupActive(s, injectors) ==
  [i \in InjectorIds |->
     {s.faults[k].id : k \in {j \in StartupIndices(s, injectors) : s.faults[j].injector = i}}]

\* (mutant: state and source swapped)
EventOfSwapped(f, state, source) ==
  [injector |-> f.injector, fault |-> f.id, state |-> source, source |-> state,
   config |-> f.config]

EventOf(f, state, source) ==
  [injector |-> f.injector, fault |-> f.id, state |-> state, source |-> source,
   config |-> f.config]

\* schedule_faults() walks injectors_ and, within one injector, the file.
ScheduledBefore(s, j, k) ==
  LET a == s.faults[j].injector  b == s.faults[k].injector IN
  Rank[a] < Rank[b] \/ (a = b /\ j < k)

\* The one enumeration of StartupIndices in that order.
StartupOrders(s, injectors) ==
  LET K == StartupIndices(s, injectors)
      n == Cardinality(K)
  IN {q \in [1..n -> K] :
        /\ \A k \in K : \E a \in 1..n : q[a] = k
        /\ \A a, b \in 1..n : a < b => ScheduledBefore(s, q[a], q[b])}

StartupEvents(s, q) ==
  [a \in DOMAIN q |-> EventOf(s.faults[q[a]], "active", "startup")]

TimerOf(s, k, kind, due, g) ==
  [injector |-> s.faults[k].injector, fault |-> s.faults[k].id,
   config |-> s.faults[k].config, kind |-> kind, due |-> due, index |-> k,
   generation |-> g]

\* schedule_start(): only for a fault that is not initially active.
StartTimers(s, injectors, t, g) ==
  {TimerOf(s, k, "start", t + Clamp(s.faults[k].start), g) :
     k \in {j \in Targeted(s, injectors) :
              ~InitiallyActive(s, j) /\ s.faults[j].start # NoTime}}

\* (mutant: the stop of a scheduled fault counted from the load)
StopDelayWithoutStart(s, k) == Clamp(s.faults[k].duration)

\* schedule_stop_after(duration) for a fault activated at startup, and
\* schedule_stop(): start + duration for one that waits for its start.
StopDelay(s, k) ==
  IF InitiallyActive(s, k) THEN Clamp(s.faults[k].duration)
  ELSE Clamp(s.faults[k].start + s.faults[k].duration)

\* (mutant: no stop for a fault activated at startup)
StopTimersOfScheduled(s, injectors, t, g) ==
  {TimerOf(s, k, "stop", t + StopDelay(s, k), g) :
     k \in {j \in Targeted(s, injectors) :
              /\ s.faults[j].duration # NoTime
              /\ ~InitiallyActive(s, j) /\ s.faults[j].start # NoTime}}

StopTimers(s, injectors, t, g) ==
  {TimerOf(s, k, "stop", t + StopDelay(s, k), g) :
     k \in {j \in Targeted(s, injectors) :
              /\ s.faults[j].duration # NoTime
              /\ InitiallyActive(s, j) \/ s.faults[j].start # NoTime}}

ArmTimers(s, injectors, t, g) ==
  StartTimers(s, injectors, t, g) \cup StopTimers(s, injectors, t, g)

\* FaultScheduler::clear() empties the vector of handles timers_.  Each
\* timer's callback owns timer_holder, which owns the timer, so the timer
\* outlives its handle and stays in the executor.
TimersAfterClear == timers

\* (mutant: reload without clear_faults())
FaultsKept == registry

\* clear_faults() of every injector.
FaultsAfterClear == NoFaults

-----------------------------------------------------------------------------
Registered(i, f) == registry[i][f] # NoConfig

\* find_injector_for_fault(): the first injector of the map that has the id.
FindInjectorForFault(i, f) ==
  /\ Registered(i, f)
  /\ \A j \in InjectorIds : Registered(j, f) => Rank[i] <= Rank[j]

\* (mutant: deactivate_fault() sets the flag)
SwitchFaultOn(i, f, state) ==
  IF ~Registered(i, f) THEN active ELSE [active EXCEPT ![i] = @ \cup {f}]

\* activate_fault() and deactivate_fault() do nothing for an unknown id.
SwitchFault(i, f, state) ==
  IF ~Registered(i, f) THEN active
  ELSE [active EXCEPT ![i] = IF state = "active" THEN @ \cup {f} ELSE @ \ {f}]

\* The constructor, after main() has loaded and validated the scenario.
Init ==
  \E s \in {x \in InitialScenarios : ValidScenario(x)} :
  \E q \in StartupOrders(s, CreateInjectors(s)) :
    /\ scenario = s
    /\ built = CreateInjectors(s)
    /\ registry = RegisterFaults(s, CreateInjectors(s), NoFaults)
    /\ active = StartupActive(s, CreateInjectors(s))
    /\ timers = ArmTimers(s, CreateInjectors(s), 0, 0)
    /\ generation = 0
    /\ events = StartupEvents(s, q)
    /\ mark = 0
    /\ now = 0
    /\ calls = 0

\* Time passes; the executor runs a ready timer at most MaxLate late.
Tick ==
  /\ now < MaxTime
  /\ \A t \in timers : now < t.due + MaxLate
  /\ now' = now + 1
  /\ UNCHANGED <<scenario, built, registry, active, timers, generation, events,
                 mark, calls>>

\* The callbacks of schedule_start() and schedule_stop_after().  The event is
\* published and recorded whether or not the injector knew the fault, with the
\* fault definition captured when the timer was made.
FireStart(t) ==
  /\ t.kind = "start" /\ t.due <= now
  /\ timers' = timers \ {t}
  /\ active' = SwitchFault(t.injector, t.fault, "active")
  /\ events' = Append(events, [injector |-> t.injector, fault |-> t.fault,
                               state |-> "active", source |-> "scheduled",
                               config |-> t.config])
  /\ UNCHANGED <<scenario, built, registry, generation, mark, now, calls>>

FireStop(t) ==
  /\ t.kind = "stop" /\ t.due <= now
  /\ timers' = timers \ {t}
  /\ active' = SwitchFault(t.injector, t.fault, "inactive")
  /\ events' = Append(events, [injector |-> t.injector, fault |-> t.fault,
                               state |-> "inactive", source |-> "scheduled",
                               config |-> t.config])
  /\ UNCHANGED <<scenario, built, registry, generation, mark, now, calls>>

\* handle_set_fault_state() for a known fault.
SetFaultState(i, f, state) ==
  /\ calls < MaxCalls
  /\ FindInjectorForFault(i, f)
  /\ calls' = calls + 1
  /\ active' = SwitchFault(i, f, state)
  /\ events' = Append(events, [injector |-> i, fault |-> f, state |-> state,
                               source |-> "manual", config |-> registry[i][f]])
  /\ UNCHANGED <<scenario, built, registry, timers, generation, mark, now>>

\* handle_set_fault_config() for a known fault, key and valid value.
SetFaultConfig(i, f, c) ==
  /\ calls < MaxCalls
  /\ FindInjectorForFault(i, f)
  /\ calls' = calls + 1
  /\ registry' = [registry EXCEPT ![i][f] = c]
  /\ events' = Append(events, [injector |-> i, fault |-> f,
                               state |-> "config_updated", source |-> "manual",
                               config |-> c])
  /\ UNCHANGED <<scenario, built, active, timers, generation, mark, now>>

\* Every request that is answered with success = false: an empty or unknown
\* fault id, an invalid key or value, a file that does not load.
RejectRequest == UNCHANGED vars

\* reload_scenario() when the file loads, validates and is compatible: clear
\* the scheduler and every injector, replace scenario_, register and schedule.
\* No event says that the faults that were active no longer are.
ReloadScenario(s) ==
  /\ calls < MaxCalls
  /\ s # BadFile /\ ValidScenario(s) /\ ReloadCompatible(scenario, s)
  /\ calls' = calls + 1
  /\ scenario' = s
  /\ generation' = generation + 1
  /\ registry' = RegisterFaults(s, built, FaultsAfterClear)
  /\ active' = StartupActive(s, built)
  /\ timers' = TimersAfterClear \cup ArmTimers(s, built, now, generation + 1)
  /\ \E q \in StartupOrders(s, built) : events' = events \o StartupEvents(s, q)
  /\ mark' = Len(events)
  /\ UNCHANGED <<built, now>>

FireTimer == \E t \in timers : FireStart(t) \/ FireStop(t)

Next ==
  \/ Tick
  \/ \E t \in timers : FireStart(t)
  \/ \E t \in timers : FireStop(t)
  \/ \E i \in InjectorIds, f \in FaultIds, state \in {"active", "inactive"} :
       SetFaultState(i, f, state)
  \/ \E i \in InjectorIds, f \in FaultIds, c \in Configs : SetFaultConfig(i, f, c)
  \/ \E s \in Files : ReloadScenario(s)
  \/ RejectRequest

Spec == Init /\ [][Next]_vars

\* The executor spins and the clock advances: ready timers do run.
FairSpec == Spec /\ WF_vars(Tick) /\ WF_vars(FireTimer)

-----------------------------------------------------------------------------
(* Properties.                                                             *)

\* Every variable stays in its type, and the recorder never shrinks below the
\* point where the current scenario was loaded.
TypeOK ==
  /\ scenario \in ScenarioConfig
  /\ built \subseteq Injector
  /\ registry \in [InjectorIds -> [FaultIds -> Configs \cup {NoConfig}]]
  /\ active \in [InjectorIds -> SUBSET FaultIds]
  /\ timers \subseteq Timer
  /\ generation \in Nat
  /\ events \in Seq(Event)
  /\ mark \in 0..Len(events)
  /\ now \in Nat
  /\ calls \in 0..MaxCalls

\* The lifecycle events of fault f of injector i since the scenario was loaded.
Lifecycle(i, f) ==
  {k \in (mark + 1)..Len(events) :
     /\ events[k].injector = i /\ events[k].fault = f
     /\ events[k].state \in {"active", "inactive"}}

\* The last of them says "active".
TimelineActive(i, f) ==
  \E k \in Lifecycle(i, f) :
    /\ events[k].state = "active"
    /\ \A m \in Lifecycle(i, f) : m > k => events[m].state = "active"

\* The timeline a report prints agrees with the injectors: of a registered
\* fault, active_ is true exactly when the last lifecycle event recorded since
\* its scenario was loaded says so, whatever mix of startup, timers (stale ones
\* included), service calls and config updates came between.
TimelineMatchesState ==
  \A i \in InjectorIds, f \in FaultIds :
    Registered(i, f) => (f \in active[i] <=> TimelineActive(i, f))

\* The injectors made at construction are those the scenario now in scenario_
\* describes, with the same shapes, after any series of reloads: each reload is
\* only compared with the scenario before it (validate_reload_compatible).
InjectorsMatchScenario == built = CreateInjectors(scenario)

\* Exactly the faults of scenario_ that target an existing injector are
\* registered, and only registered faults are active: a reload leaves nothing
\* of the previous scenario in faults_ and active_.
RegistryMatchesScenario ==
  \A i \in InjectorIds, f \in FaultIds :
    /\ Registered(i, f) <=> Definitions(scenario, built, i, f) # {}
    /\ f \in active[i] => Registered(i, f)

\* No service call has touched fault f of injector i.
Untouched(i, f) ==
  \A k \in DOMAIN events :
    events[k].injector = i /\ events[k].fault = f => events[k].source # "manual"

\* The scenario defines f of i once, with a start and a duration.
HasWindow(i, f, k) ==
  /\ {j \in DOMAIN scenario.faults : scenario.faults[j].id = f} = {k}
  /\ scenario.faults[k].injector = i
  /\ scenario.faults[k].start # NoTime /\ scenario.faults[k].duration # NoTime
  /\ ~scenario.faults[k].startup

\* When the start timer and the stop timer of definition k are due.
StartDue(k) == Clamp(scenario.faults[k].start)
StopDue(k) == Clamp(scenario.faults[k].start + scenario.faults[k].duration)

\* The two are so far apart that the executor cannot run the stop first, which
\* would leave the fault active for ever.
Separated(k) ==
  scenario.faults[k].start # NoTime /\ scenario.faults[k].duration # NoTime =>
    StopDue(k) - StartDue(k) > MaxLate

\* FaultScheduler's promise for a fault no one touches by hand, with a window
\* longer than the executor is ever late: it is active between its start and its
\* start plus its duration, and at no other time, give or take that lateness.
ActiveInWindow ==
  \A i \in InjectorIds, f \in FaultIds : \A k \in DOMAIN scenario.faults :
    HasWindow(i, f, k) /\ Separated(k) /\ Registered(i, f) /\ Untouched(i, f) =>
      /\ f \in active[i] => StartDue(k) <= now /\ now <= StopDue(k) + MaxLate
      /\ StartDue(k) + MaxLate < now /\ now < StopDue(k) => f \in active[i]

\* A fault whose definitions have neither active_on_startup nor start is only
\* ever activated by a service call (docs/fault_configuration.md, "remain
\* inactive until manually activated").
ManualOnlyStaysInactive ==
  \A i \in InjectorIds, f \in FaultIds :
    /\ f \in active[i]
    /\ \A k \in DOMAIN scenario.faults :
         scenario.faults[k].id = f =>
           ~scenario.faults[k].startup /\ scenario.faults[k].start = NoTime
    => \E k \in (mark + 1)..Len(events) :
         /\ events[k].injector = i /\ events[k].fault = f
         /\ events[k].state = "active" /\ events[k].source = "manual"

\* The schedule of the scenario the node was launched with is kept, whatever
\* service calls do to other faults, as long as no reload leaves stale timers.
ScheduleHonoured == generation = 0 => ActiveInWindow /\ ManualOnlyStaysInactive

\* A startup fault with a duration, or a scheduled one with a long enough window,
\* that no call and no reload touches does not stay active.
ActivationEnds ==
  \A i \in InjectorIds, f \in FaultIds :
    ( /\ generation = 0 /\ f \in active[i] /\ Untouched(i, f)
      /\ \A k \in DOMAIN scenario.faults :
           scenario.faults[k].id = f =>
           scenario.faults[k].duration # NoTime /\ Separated(k) )
    ~> (generation > 0 \/ f \notin active[i] \/ ~Untouched(i, f))
=============================================================================
