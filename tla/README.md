# TLA+ models of ros2_fault_injection

This directory holds TLA+ modules that model the core of `ros2_fault_injection`, TLC
configurations that check them, and TLAPS proofs about them.  Paths below are relative to
the repository (`src/core/...` is the C++ source of the package).

## 1. The system

`ros2_fault_injection` is a ROS 2 node that sits between producers and consumers of topics
and services.  A *scenario file* names injectors (one per topic, TF tree or service), faults
(what an injector does to the data, and when) and assertions (what should come of it).

| Part | State | Operations | Talks to |
| --- | --- | --- | --- |
| `FaultController` | `scenario_`, `injectors_`, owned parts | construction, `reload_scenario` | everything below |
| `FaultScheduler` | `timers_` (handles), the timers themselves | `schedule`, `clear`, timer callbacks | injectors, event publisher, recorder |
| `FaultInjectorBase` | `faults_`, `active_` | `add_fault`, `clear_faults`, `activate_fault`, `deactivate_fault`, `set_fault_config_value`, aggregation of active values | called by all three sources of change |
| `FaultServiceManager` | none of its own | nine services, three of them change state | controller, injectors, publisher, recorder |
| `FaultEventPublisher`, `FaultEventRecorder` | the events of the run | `publish`, `record` | event topic, report |
| topic injectors (odom, scan, IMU, joint state, point cloud, twist) | `delayed_`; twist also `last_command_` | subscription callback, `flush_delayed` | input and output topic |
| TF injector | none | `on_message` | `/tf_raw`, `/tf` |
| trigger service injector | none | `on_request` | proxy and target service |
| `FaultAssertionRunner`, `fault_event`, `topic_hz`, `twist_stopped` | results, message times, pending messages | event and message callbacks, 100 ms `update` | event topic, monitored topics, `assertion_events` |
| `ScenarioMonitor` | none | `publish` | `scenario_status` |
| `FaultScenarioRunner` | start time | `run` | spins the node, reads the results |
| campaign runner (`fault_campaign_runner_node`) | the campaign, `result`, whatever earlier runs left on the node | loading, one run per repeat, variant and value, the report | base scenario file, `FaultScenarioRunner` |
| schemas, validator, parsers | none | `static_config_schema`, `validate_config_value`, `validate_scenario`, the central key tables | files, `set_fault_config` |
| report creator | none | formatting | files |

The three sources of change (timers, services, reloads) and the data path meet in the
injectors.  The assertion runner listens to the events the first group publishes and to the
output of the data path.

What is hard about it:

- *Timers own themselves.* The callback of a scheduler timer captures the pointer that owns
  the timer; `clear()` drops handles only, so timers of a replaced scenario still run.
- *Three writers, two records.* Startup, timers and services each write `active_` and the
  event record in separate statements, and a reload writes only one of them.
- *Two clamped deadlines.* Start and stop of a fault are separate one-shot timers, each at
  least 1 ms away, run by an executor that promises no order among ready timers.
- *Queues that outlive their cause.* `delayed_` and `last_command_` survive deactivation and
  reload; faults may change between any two messages.
- *Many readers of one text.* A config value is a string.  The validator, the services and the
  injectors each parse it, with different functions (`from_chars`, `stod`, `stoi`) and each with
  its own idea of a key table.
- *Late observers.* Assertions see events and messages through separate subscriptions of
  finite depth, their deadlines are evaluated by a periodic timer, and the run loop takes one
  message per subscription every 20 ms.

What makes each part correct is stated as the properties in section 4.  The hazards, one
by one and at their lines, are listed in `PROJECT.json`.

## 2. Modules

    FaultController          DelayedForwarding         AssertionRunner         TwistStopped
      MCFaultController        MCDelayedForwarding       MCAssertionRunner       MCTwistStopped
      FaultController_proofs   DelayedForwarding_proofs  AssertionRunner_proofs  TwistStopped_proofs
                                 ^ implemented by
                             TwistInjector             TriggerServiceInjector
                               MCTwistInjector           MCTriggerServiceInjector
                               TwistInjector_proofs      TriggerServiceInjector_proofs

    FaultConfigSchema  <-  ConfiguredInjector         <-  CampaignRunner
                             MCConfiguredInjector           MCCampaignRunner
                             ConfiguredInjector_proofs      CampaignRunner_proofs

`<-` reads "is used by": `ConfiguredInjector` and `CampaignRunner` extend the rules of
`FaultConfigSchema`, and `CampaignRunner` instantiates `ConfiguredInjector` for the injector of
the run under way.

Time is an integer wherever it matters.  A callback is one action, since `fault_injector_node`
and `FaultScenarioRunner` both spin a single-threaded executor.  The exception is
`TriggerServiceInjector`, whose callback is cut wherever it blocks.

**FaultController** is one running node as far as faults are concerned.

| Model | Code |
| --- | --- |
| `scenario`, `built`, `registry`, `active` | `scenario_`, the keys of `injectors_`, `faults_` and `active_` of every injector |
| `timers` | every wall timer of the scheduler that has not fired, whether `timers_` still holds its handle or not |
| `events`, `mark` | `FaultEventRecorder`; where the events of the current scenario begin (history) |
| `Init` | the constructor: `create_injectors`, `register_faults`, `schedule_faults` |
| `FireStart`, `FireStop` | the two timer lambdas of `fault_scheduler.cpp` |
| `SetFaultState`, `SetFaultConfig`, `RejectRequest` | the handlers of `fault_service_manager.cpp` and their early returns |
| `ReloadScenario` | `FaultController::reload_scenario`, with validation and the compatibility check |
| `Tick` | the clock; it may not leave a ready timer behind by more than `MaxLate` |

A time unit is a millisecond, so `Clamp` is the scheduler's `std::max` with 1 ms.
`injectors_` is an unordered map; `Rank` is its iteration order, any injective one.  The map
is filled once, so the order is fixed for the life of the process.
A fault's config map is one value: no operation of this module looks inside.  A
file that does not load or fails a schema check is `BadFile`.

**DelayedForwarding** is the data path that odom, scan, IMU, joint state and point cloud
injectors have in common: drop, hold or publish; a timer that flushes the front of the queue.
A message is its arrival number; since faults change at any time, each message
may find any delay and any drop decision.  It is also the abstract specification of the
twist injector.

**TwistInjector** is `twist_fault_injector.cpp` with the registry of `FaultInjectorBase`
underneath: activation, deactivation, config updates and reloads interleave with commands.
Aggregation follows the code (a maximum that starts at the fallback, a product, the first
active fault in an unordered map).  It carries `Forwarding == INSTANCE DelayedForwarding`
with a refinement mapping (`Queue`, `Output`) that forgets the payload.  `IntMax` is the largest
`int`, which bounds every number of milliseconds.

**AssertionRunner** is a scenario run: the loop of `FaultScenarioRunner::run` (`SpinSome`,
then one `OnFaultEvent`, `ObserveMessage`, `Update` per ready callback in any order, then
`Check`), the two assertion types that share deadlines, and the scenario status.
`queue` and `backlog` are the KeepLast histories of the subscriptions.  `times` is the set of the
stamps a rate assertion was given; equal stamps are numbered, and old ones are filtered at each
update, where the code erases them.

**TwistStopped** is `twist_stopped_assertion.cpp`.  The record `assertion` is the object,
with the members' names; `UpdateAt`, `ObserveMessage` and `ObserveActivation` are its three
methods as functions on that record.  Events and commands arrive independently; `trace` is
the history against which verdicts are judged.

**TriggerServiceInjector** is `on_request` of `trigger_service_fault_injector.cpp`, with one
action for each stretch between two blocking calls: `TakeRequest` up to `sleep_for`, `LookUp` up
to `wait_for_service`, `SendRequest` up to `future.wait_for`, and one action per way to return.
`workers` is the number of threads of the executor: one for `rclcpp::spin`, two for the unit
tests.  `FreeWorker` is what the two callback groups of the constructor allow: another callback runs
beside `on_request` if there is a thread for it.  The client's map of promises (`pending`)
and its response handler (`TakeAnswer`) are modelled from their use.  The target is
environment: it answers late or never, crashes and comes back.

**FaultConfigSchema** has no variables: the field tables of the eight built-in injector types,
`validate_config_value` for a field and a text, the checks of one fault in `scenario_validator.cpp`,
and the central tables (`AllowedKeys`, `ValidByKey`) that repeat them by key.  A config value is one
of a few texts that separate the parsers: integers, a fraction, angles around the rear seam, NaN,
the infinities, a subnormal and 1e300.  `Value` is the number a text denotes, in twentieths;
`DoubleTexts`, `IntTexts` and `StodTexts` are what `from_chars` and `std::stod` accept.

**ConfiguredInjector** is one injector from its file to its output: `Load` (parse, validate,
construct, each with its way to fail), `SetFaultConfig`, `ActivateFault`, `DeactivateFault`, and a
message that is published, dropped, or brings the callback to throw or to loop.  `Outputs` is
what the odom, scan, IMU, joint state, point cloud and TF injectors make of a reading, with one
operator per helper of the source.  Arithmetic is exact, with IEEE rules for NaN and infinities; a
normal distribution is its centre and one sample on either side.  A beam comes with its angle,
infinite ones included, and the `angle_increment` of its scan: where that is 0 the code reads no
sector (`Sectors`).  A point comes with what its cloud lacks: without float32 x, y and z only its
intensity can change (`Moved`), and there may be none (`Scaled`).  Entries of a covariance are any
numbers, since the code scales and floors the ones off the diagonal too.  `output` keeps the
reading of a callback that hangs, so that `StopsOnlyOnExtremeNumbers` can speak of it.

**CampaignRunner** is `fault_campaign_runner_node`: loading, the override of the timeout, the
nested loops over repeats, variants and values (`Plan`), `apply_campaign_value`, every way a run
fails, the counters and the exit code.  The base file is read for every run and may be edited in
between.  A run is any outcome `AssertionRunner` can have; what a message does to its injector is
`Injector!`, an instance of `ConfiguredInjector` that is sent `Messages`.  A base file whose
endpoint block is of the other kind passes the validation, and what its constructor makes of the
absent endpoint is an exception, hence a failed run (`FailToRun`), or the end of the process
(`MissingEndpoint`).  `leftover` holds the timers of earlier runs:
they capture the pointer that owns them and stay on the shared node, and what they do on
destroyed objects is any of nothing, a switch in the present run, or a crash.

## 3. Reading the specifications

`MaxTime`, `MaxCalls`, `MaxChanges`, `MaxMessages`, `MaxEvents`, `MaxEntries` and `MaxEdits` bound
counters that the program does not bound; `IntMax` and `MaxMilliseconds` are the largest `int` and
`std::int64_t`, and bound what the program does.  `MaxLate` is an assumption on the executor: how
late a ready timer may run.  The code has no such bound; it says how long a callback may block, and
the timing properties hold up to that lateness.  `Horizon`, `Done` and `RejectRequest` leave all
variables unchanged, so that in the modules with a clock a state in which the program could neither
run a callback nor let time pass is reported as a deadlock.  The runs `config`, `campaign` and
`leftover` do not check for deadlock: there the process really ends (rejected, terminated, exited,
crashed) or hangs in a callback, and the properties say when.

## 4. Runs

Passing runs:

| Run | Question | Bounds, and why they suffice |
| --- | --- | --- |
| `reload` | Do registry, active flags, injectors and timeline stay consistent under timers, services and reloads, and is the schedule kept until the first reload? | Two injectors, two faults, four launch scenarios (two long windows in one injector; a startup fault with a duration beside a manual one; an injector whose plugin cannot be loaded; one injector only) and eight files to reload: compatible ones with and without windows, one with an id in two injectors and twice in one, one with another shape, one with duplicate and dangling ids, one that does not load. Two calls give two reloads, or a reload and a switch, with timers of the first scenario between and after them; an executor one unit late; `MaxTime` beyond the last stop. |
| `forwarding` | Is the delayed path lossless, ordered and on time? | Delays zero, below and above the flush period; four messages so that a held one can be followed by two shorter ones and a direct one; a late executor; time for two flushes and a rest. |
| `twist` | Does the twist injector implement that path, and does it replay, clamp and stop as it should? | Two scenarios that switch on every key between them; one change of the faults at any point; durations of replay below and above the fallback; three commands, because a replay of a replay needs three. |
| `assertions` | Are verdicts earned, announced once and reflected in status, outcome and report; does every run end? | Four scenarios: deadlines for all, for none (one of them NaN), mixed, and one the validator refuses; subscriptions of depth two, with up to three startup events, two later ones and three messages, so that both overflow; a loop that oversleeps. |
| `twist_stopped` | Does the assertion pass and fail exactly on what the documentation calls a good stop? | A hold longer than the gap; four commands against a buffer of two, so it overflows; events delivered at any time, also from before the start; updates at any time. |
| `trigger` | Is every call of the proxy answered, and truthfully, whatever the target does? | Two calls, so that the answer to a first that timed out comes during the second; waits of one (discovery) and two units (answer), so that things happen before, at and after a deadline; two changes of faults or target at any point; a horizon beyond two calls that wait as long as they may. |
| `config` | Do file, service, key tables and injectors agree on every value, and what do the active faults do to a message? | Every type with every set of endpoint blocks; two interchangeable faults (symmetry); files and updates with every kind of text that two parsers treat differently; up to three config entries, so that two faults can combine on one key while a second key is set; beams on both sides of the rear seam, of infinite and undefined angle, and of scans without an increment; points with and without coordinates and intensity. |
| `campaign` | Is every planned run recorded once, with its own value, and does the campaign end? | Six campaigns: two variants, two repeats, a value that is refused, one that hangs the injector, one `stod` cannot read, no repeats, no variants, a timeout of NaN and one below a millisecond; five overrides, among them one at the limit of `std::int64_t`, which is 10 here; base scenarios with duplicate ids, an unusable topic, another endpoint or none, other faults, or not readable; beams with and without an increment; one edit and one shutdown at any point; up to four runs. |

What they show, property by property (each property has a mutant of the code in
`PROJECT.json` that it refutes):

- `TypeOK` in each module also bounds the buffers, or relates ids: active ids are registered,
  no buffer exceeds its limit, the timer is never overdue by more than `MaxLate`.
- `TimelineMatchesState`: of every registered fault, `active_` is what the last lifecycle event
  since the load says, stale timers included.  `InjectorsMatchScenario`: reloads are compared
  pairwise only, and yet never drift away from the injectors made at construction.
  `RegistryMatchesScenario`: a reload leaves nothing behind in the injectors.
- `ScheduleHonoured` (of `ActiveInWindow` and `ManualOnlyStaysInactive`), `ActivationEnds`: the
  meaning of `start`, `duration` and manual-only faults, until a reload leaves stale timers.
- `ExactlyOnce`, `InOrder`, `NeverEarly`, `NotMuchLater`, `EveryHeldIsPublished`: the path
  loses, duplicates and reorders nothing it holds.  A message with no delay does overtake held
  ones, and `InOrder` says precisely that.
- `ImplementsForwarding`: the twist injector does the same, with liveness.
  `ReplaysLatestForwarded`: a dropped command never comes back, nor one before the newest.
  `FaultsApply`: stop and clamp win over scale and replay, nothing is replayed unless an active
  fault enables it, and a replay does not prolong itself: the command's age counts from its own
  arrival and stays within the longest active duration or, if that is longer, the fallback.
  That a configured duration is the maximum, as documented, is the violation `short_replay`.
- `AnnouncedOnce`, `VerdictsJustified`, `RateWasMeasured`: each verdict is earned and announced
  once.  `VerdictsAgree`: scenario status, outcome of `run()` and final result of the report,
  derived at different times, never contradict one another.  `RunEnds`: with or without
  deadlines.
- `VerdictIsRight`, `Decided`: the verdict against a definition of a good stop
  that mentions only the commands and their times.
- `SuccessIsGenuine`, `TwoThreadsForward`, `EveryCallAnswered`: a late answer is never taken for
  another call's and a forced failure never becomes a success, two callback groups and two
  threads suffice to forward, and the proxy always answers.
- `UpdatesStayLoadable`: any series of accepted `set_fault_config` calls leaves configs that a
  file could have given, and that the central tables accept; three places hold these rules.
  `StopsOnlyOnExtremeNumbers`: values that pass every check still kill or hang the node, and
  exactly these do: a number `std::stod` finds too small, an endpoint block of the other kind, and,
  on a scan with an `angle_increment`, a sector bound or a beam that is infinite or huge.
- `UnconfiguredIsUntouched`, `OutputsKeepBounds`, `SectorIsArc`: what reaches the output, for
  any combination of active faults; see the comments for the NaN cases they except.  `SectorIsArc`
  has both sides of `angle_increment`: sectors are arcs where it is not 0, and replace nothing
  where it is.
- `RateWasMeasured` speaks of the stamps of observation, which is what the code keeps: messages
  that were delayed and arrive in a burst count as that rate.  `SuccessIsGenuine` excludes a
  success while a failure is forced all along; one switched on or off during the call may go
  either way.
- `RecordsMatchPlan`, `ExitZeroMeansAllPassed`, `RunIsBaseWithOneValue`, `CampaignEnds`: the
  report is about the runs that were planned, each on a fresh base, and exit code 0 means what a
  CI job takes it to mean.

Runs that are expected to find a violation, each a disagreement of code and documentation:

| Run | What TLC finds |
| --- | --- |
| `stale_start` | A scheduled start of the old scenario activates a fault the new scenario leaves to manual control. |
| `short_replay` | With a `stale_replay_duration_ms` below 500 a command older than the documented maximum age is replayed. |
| `one_thread` | On the node's own executor, a call that the target answers at once is reported as timed out. |
| `leftover` | A timer that is still armed when its run ends fires in the next run, on destroyed objects, and can end the campaign. |

Each uses the same specification as the passing runs, with scenarios that isolate the case.
`stale_start` checks a part of `ScheduleHonoured` beyond the first reload, and `short_replay` what
remains of the age bound in `FaultsApply` when the fallback is left out of it.

### What the models take from the code as it is

The properties are stated so that they hold, and some of them are weaker than a reader of the
documentation might expect.  They allow for the following:

- Start and stop of a fault are each at least 1 ms away, and ready timers run in any order: with
  start 0 and a duration of at most 1 ms the stop may come first and the fault stays on
  (`Separated` in `ActiveInWindow`).
- 500 is the start value of a maximum, so a `stale_replay_duration_ms` below it is ignored
  (`duration` in `FaultsApply`; the run `short_replay` shows the disagreement with the
  documentation).  The same holds of `dust_min_range` below 0.2 and covariance scales
  below 1 (`DustMin`, `Covariance`).
- `sector_value: .inf`, as the documentation writes it, is refused; `inf` is accepted.  The
  frames of a TF fault are required, though documented as optional (`HasRequired`).
- All startup events are published in the constructor, before anything spins, and the subscription
  keeps ten: with more faults active on startup the oldest events are lost, and an assertion on one
  never passes (`Enqueue`), although README.md:342 says that it passes when the fault publishes the
  state.  `VerdictsJustified` and `RunEnds` hold all the same, with such a loss among the startups.
- A key outside the schema earns a warning in a file and is refused by `set_fault_config`
  (`MatchesSchema`, `ValidUpdate`).
- NaN passes every comparison with a minimum or a maximum (`Less`).  An infinite covariance
  scale makes a zero entry NaN (`OutputsKeepBounds`).
- A number below the smallest normal double passes `from_chars` and makes `std::stod` throw in
  the callback, which nothing catches: the node terminates.  In a campaign it is a failed run.
- A topic injector whose file has a `trigger_service` block, or the reverse, dereferences an empty
  `optional` in its constructor (`Load`; in a campaign `MissingEndpoint` and `FailToRun`).
- A sector whose bounds are the same direction, such as 0 to 360, is a single direction, and a
  beam at the rear seam may be taken for -180 or 180 (`SectorIsArc` leaves both out); infinite
  or huge bounds, and beams of a scan whose `angle_min` is, never leave `normalize_degrees`
  (`NeverNormal`).  A scan whose `angle_increment` is 0, such as one of a single beam, loses
  nothing to a sector (`Sectors`).
- A campaign timeout below a millisecond becomes zero, and is one failed record (`RefuseTimeout`).
  With duplicate fault ids a campaign changes the first definition, and the injector uses the
  last one (`Applied`, `InjectedConfigs`).

### Fairness

Fairness is weak, and only on what the code's scheduling provides: time passes (`Tick`), and a
ready callback is run (`FireTimer`, `FlushDelayed`, `Update`, `Handle`, `TakeAnswer`), because
the executor spins for the life of the node and none of its callbacks blocks for ever.  For a
run (`Loop`) it is the `while` loop itself, and for a campaign (`Work`, `TimeOut`) the loops of
`run_campaign` and the deadline of a run; not for a process that crashed or hangs, which
`CampaignEnds` names.  Nothing is assumed of messages, service calls, events, reloads, or the
delivery of events to an assertion.

## 5. Proofs

Every safety property of the passing runs (32 invariants and the action property `FaultsApply`) is
a theorem, and so is the safety part of the refinement.  Each proof starts from the assumptions its
module makes of its constants, which TLC evaluates on the runs of the module, and from nothing else.

`FaultController_proofs` proves, for every set of ids, scenarios, files and every bound,

- `TypeCorrect`: `Spec => []TypeOK`;
- `InjectorsAlwaysMatch`, `RegistryAlwaysMatches`, `TimelineAlwaysMatches`: what holds through
  any number of reloads;
- `ScheduleAlwaysHonoured` (`ScheduleHonoured`): what holds until the first.

The only assumption is `ConstantsAssumption` of `FaultController`; TLC evaluates it on every
run of the module.  The inductive invariant `IInv` is the conjunction of the first four and of
the finiteness of `scenario.injectors`.  That last part is what makes
`InjectorsMatchScenario` inductive: compatibility compares *numbers* of injectors, and a
finite set with a subset of its own size is that subset (`CompatibleInjectors`).  The
timeline needs the registry (a timer for an unregistered fault records an event
but switches nothing), hence they are proved together.  The lemmas below the invariant say
what loading a scenario computes (`RegisterFaultsResult`, `StartupActiveResult`,
`ArmTimersType`, `StartupEventsResult`) and what one more event or one more load does to the
timeline (`AppendTimeline`, `LoadTimeline`); then there is one lemma per action.

The schedule has an invariant of its own, `SInv`, on top of `IInv`: the timers left are some of
those the launch armed and none is overdue by more than `MaxLate` (`LaunchTimers`), and a fault with
a window that nobody switched is in one of three phases, before its start, before its stop, or
after it (`Phases`).  The phases are what makes `ActiveInWindow` inductive: it speaks of the clock,
and only the timers say what the clock must not pass.  `WindowTimers` and `StartIsNotStop` say that
the two timers of a window exist and are not mistaken for one another.

`DelayedForwarding_proofs` proves, from `ForwardingAssumption` alone,

- `ForwardingTypeCorrect`: `Spec => []TypeOK`, for any delays, periods and latenesses;
- `NothingLostOrDuplicated` (`ExactlyOnce`), `HeldInOrder` (`InOrder`), `NoneReleasedEarly`
  (`NeverEarly`) and `NoneReleasedMuchLater` (`NotMuchLater`): every safety invariant of the
  run `forwarding`.

The inductive invariant is the conjunction of the first four and of `Punctual`: the next flush
is at most a period away, and less than a period after the release of some message at or
before each position of the queue.  `NotMuchLater` follows from it, but is not inductive
itself: it does not mention the timer, and the step that endangers it is the clock's.
Order rests on `ExactlyOnce` (numbers are given out once, so an appended one is larger), and a
flush on `FlushResult`, which says by position what moves from the queue to the output; below
that, `DueResult` shows that the `CHOOSE` in `Due` denotes the length of the due prefix of
any queue, and `NextCallResult` that a timer is re-armed at most one period ahead.

`TwistInjector_proofs` proves, from `TwistAssumption`,

- `InjectorForwards`: `Spec => Forwarding!Spec`.  Every step of the velocity injector is a step
  of `DelayedForwarding` or leaves its queue, output and clock alone, so the five theorems above
  hold of it through the mapping.  The invariant `IInv` says that queue and output are sequences
  and that what the active faults hold was accepted (`Registered`); with it `DelayResult` shows
  that `active_delay()` is a delay of the abstract module, for which `MaxResult` needs `IntMax`:
  a set of `int`s has a largest one.  `QueueAppend`, `OutputAppend` and `FlushForwarding` say
  that the mapping commutes with holding, publishing and flushing.
- `ReplayIsLatest` (`ReplaysLatestForwarded`), which says which command is replayed and
  nothing of its age.  The strengthening is `Latest`: `last_command_`
  is the newest message accepted as itself, with the time it arrived.  `AcceptStep` is the heart
  of it: a replay leaves `last_command_` and its time alone, so the age of the next replay is
  still measured from the arrival of the command.

- `TypeCorrect` (`TypeOK`) and `FaultsAlwaysApply` (`FaultsApply`).  Both rest on what
  `ActiveProduct` folds: `ProductResult` shows, for any finite set of faults in any order, that the
  product of the natural numbers they hold is one.  `MutatedResult` then bounds what a command
  becomes, and `NextApplied` says it of each command at the step that accepts it, whether it is
  held, published or a replay.  The age in `FaultsApply` needs `Latest` too, since the code
  compares with `last_command_time_` and the property with the arrival of the command replayed.

`AssertionRunner_proofs` proves, from `RunnerAssumption`, every safety property of the run
`assertions`: `RunnerTypeCorrect` (`TypeOK`), `VerdictsAnnouncedOnce` (`AnnouncedOnce`),
`VerdictsAreJustified` (`VerdictsJustified`), `RatesWereMeasured` (`RateWasMeasured`) and
`StatusOutcomeReportAgree` (`VerdictsAgree`). The inductive invariant adds that `last_` is what
the runner last saw of each result (`LastIsResult`), that what is queued was sent
(`QueueWasSent`), which callbacks may be ready in which phase (`ReadyHolds`), that the outcome
is set when the loop is left (`OutcomeAtEnd`), and that stamps are finitely many
(`StampsFinite`), so that counting them means something.

`TriggerServiceInjector_proofs` proves, from `TriggerAssumption`, every safety property of the
runs of `TriggerServiceInjector`: `ProxyInOrder` (`TypeOK`), `SuccessIsAlwaysGenuine`
(`SuccessIsGenuine`) and `TwoThreadsAlwaysForward` (`TwoThreadsForward`), for any number of
threads, calls, crashes and timeouts. The inductive invariant adds `Exchange` (the target sees a
call once and answers it once, which is why the future of the request sent last can only be
fulfilled by the answer to it) and `Waits`: what `on_request()` knows at each of its waits.
`TwoThreadsForward` rests on the last conjunct of `Waits`: with a thread to spare an answer is
taken before time passes, so a wait that ends has not been answered, or only now.  `RespondStep`
is the one lemma of the four ways to return.

`TwistStopped_proofs` proves, from `StoppedAssumption`, `TypeCorrect` (`TypeOK`) and
`VerdictAlwaysRight` (`VerdictIsRight`), for any limits, commands and deliveries.  A verdict is
given long before the trace is complete, so the invariant `Right` says what it means for every
continuation: a passed assertion is `Settled` (no command to come can undo the stop), a failed one
`Doomed` (too late, invalid or broken, and nothing to come can mend it); a pending one either
`Waits` for the first zero or `Holds` since it.  `Right` takes a number n and speaks of the first n
commands: n is all of them between two callbacks, and counts up while `observe_fault_event()`
replays what it kept (`ReplayRight`, by induction on the number replayed).  `Kept` says that every
command so far is kept as long as the activation is not known.

`CampaignRunner_proofs` proves, from `CampaignAssumption`, `ScenarioAssumption` (`None` is not a
scenario) and `NumberAssumption`, every invariant of the run `campaign`, for any campaign, base
files, messages and edits: `TypeCorrect`, `RecordsAlwaysMatch`, `ExitZeroIsAllPassed` and
`RunsAreBaseWithOneValue`.  `TypeCorrect` gives every variable its type: the form of the records,
the counters, where the scenario of a run comes from, and whose timers are armed and left over
(`AppliedIds`, `ArmedIds`: putting a value in leaves the ids of a scenario as they are).  The
invariant `Recorded` ties the records to the plan in every phase;
when the loops are over they are `Complete`, `CutShort` by a shutdown, or a `Refused` timeout.
`ExitZeroIsEveryValue` draws the conclusion a reader of the exit code wants: every value of every
variant has a passed record for each repeat.  It needs `PlanResult`: the nested loops reach every
combination and nothing else, which is shown of `FlattenSeq` by induction on the number of
sequences (`FlattenFunction`, `FlattenResult`).  `RunsAreBaseWithOneValue` has a second invariant,
`RunsOneValue`; `ValueInjected` shows that with distinct ids the definition that
`apply_campaign_value` changes is the one the injector uses.

`ConfiguredInjector_proofs` proves, from `NumberAssumption` (NaN and `None` are not integers) and
`InjectorAssumption` (finitely many faults, typed readings, `RangeMin` up to `RangeMax`), every
invariant of the run `config`.

- `UpdatesAlwaysLoadable` (`UpdatesStayLoadable`) rests on one lemma for each of the eight types,
  `OdomConsistent` to `TfConsistent`: its schema and its central table have the same keys and say
  the same of every text.  `UpdateValid` also needs that a schema names a key once
  (`FieldsOnePerKey`).
- `OnlyExtremeNumbersStop` (`StopsOnlyOnExtremeNumbers`): `UnreadableResult` and `HangResult` name
  the fields that `stod` and `normalize_degrees` read.
- `UnconfiguredAlwaysUntouched`, `OutputsAlwaysKeepBounds`: what the active faults make of a
  reading.  `FoldingExists` and the lemmas `MaxFold` to `TfFold` give each aggregation of
  `FaultInjectorBase` its meaning for any finite set of faults, by induction on the set
  (`SetInduction`); then there is a lemma per type and helper (`RangedBounds`, `CovarianceBounds`,
  `DustBounds`).
- `SectorAlwaysArc` (`SectorIsArc`): `NormalizeResult` and `ArcResult` show, for all integers, that
  comparing normalized bounds selects the arc.  Where `angle_increment` is 0, `Sectors` is empty
  and only the disturbances of the range are left.

Induction is not taken from the library, whose theorems have an operator as a parameter: the
lemmas `Induction` and `SetInduction` state it for *sets*, of numbers and of sets, and prove it
from the well-foundedness of `<` on the naturals.  What a fold computes is first shown to be the
value of a function (`FoldingExists`, `FlattenFunction`), since that can be quantified over.

Only model-checked are the liveness properties, which are out of the prover's reach:
`ActivationEnds`, `EveryHeldIsPublished`, `RunEnds`, `Decided`, `EveryCallAnswered`,
`CampaignEnds`, and the fairness part of `ImplementsForwarding`.  The rules of `FaultConfigSchema`
are proved about as they stand: every string is a value, but only the texts that the module names
denote numbers (section 2).

## 6. Not modelled

- *The delay of the TF injector*: it sleeps inside the callback, so it delays every other
  callback of the node.  The models know it as the lateness of the executor (`MaxLate`).
- *Reading YAML*, `parse_seed`, and the conversion of `start` and `duration` from seconds to
  milliseconds, which is undefined for numbers outside `int64_t`: files are records here, and
  times are small.
- *Rounding*: the arithmetic of payloads is exact, so nothing here is about the last bits of a
  double, the shape of a distribution, or the seeds.  A noise of standard deviation zero draws
  nothing.
- *The order of points, beams and joints* in a message: a message is one reading.
- *Read-only services*, *output conflict warnings*, *fault descriptions*, *the text of
  reports*: no state of their own.
- *Parameters of the `main` functions* other than the campaign's timeout, *launch files, RViz
  panel, CI tools*: deployment and user interface.
- *Duplicate publishers, QoS mismatches, namespaces*: the models start from topics that match.
- *Real threads*: `mutex_` in the injectors guards against an executor the program never
  creates.  The node in `TriggerServiceInjector` may have two threads, as in the tests, but only
  one call is handled at a time: the service's callback group is mutually exclusive.
- *Reloads during a scenario run*: `FaultController` and `AssertionRunner` are not composed.  The
  assertion runner takes its scenario once and never looks at the controller's again; that it goes
  on with the first file's assertions after a reload is listed as a hazard.

## 7. Plan

What decides whether a fault is on, what an injector does to the data, what decides whether a
scenario passes, the service proxy, the configs and the campaign are modelled.  Left:

1. `ScenarioRun`: `FaultController` composed with `AssertionRunner`, so that the events of
   the one are the startups of the other, and a reload comes during a run.
2. An abstract specification of a fault's timetable that `FaultController` without reloads
   implements, in place of `ActiveInWindow`, and its proof.
