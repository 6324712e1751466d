--------------------------- MODULE CampaignRunner ---------------------------
(***************************************************************************)
(* fault_campaign_runner_node: it loads a campaign file, and for each      *)
(* repeat, variant and value loads the base scenario, puts the value in    *)
(* one fault's config and runs the scenario on the one node of the process *)
(* until its assertions finish or the timeout expires.  What a message     *)
(* does to a run is ConfiguredInjector's; the verdict of a run is          *)
(* AssertionRunner's and is any of its outcomes here.                      *)
(***************************************************************************)
EXTENDS FaultConfigSchema, FiniteSets, SequencesExt

CONSTANTS
  Campaigns,   \* campaign files: name no more than what the runner uses
  Scenarios,   \* scenarios the base file may hold
  BadFile,     \* a base file that does not load
  Overrides,   \* values of timeout_override, in microseconds
  MaxMilliseconds,  \* the largest std::int64_t
  Messages,    \* readings that reach the injector of a run
  MaxEdits     \* bound: how often the base file changes

ASSUME CampaignAssumption ==
  /\ Campaigns \subseteq
       [variants : Seq([fault : STRING, key : STRING, values : Seq(STRING)]),
        repeats : Int, timeout : Int \cup {NaN}]
  /\ Overrides \subseteq Int \cup {NaN} /\ MaxMilliseconds \in Nat
  /\ \A s \in Scenarios :
       /\ {"type", "blocks", "constructible", "decides", "faults"} \subseteq DOMAIN s
       /\ Len(s.faults) \in Nat
       /\ DOMAIN s.faults = 1 .. Len(s.faults)
       /\ \A i \in DOMAIN s.faults : {"id", "config"} \subseteq DOMAIN s.faults[i]
  /\ BadFile \notin Scenarios /\ MaxEdits \in Nat

VARIABLES
  campaign,   \* the campaign file
  phase,      \* "starting", "between", "running", "reporting", or how it ended:
              \* "exited", "crashed", "stuck"
  ok,         \* rclcpp::ok()
  base,       \* the base scenario file on disk
  edits,      \* how often it has changed
  timeout,    \* the timeout of a run, in milliseconds
  next,       \* the number of the run to do or under way
  scenario,   \* the scenario of the run under way
  active,     \* its active faults
  armed,      \* its timers
  leftover,   \* timers of earlier runs: each owns itself and stays in the node
  records,    \* result.runs
  counts,     \* result.total_runs, passed_runs, failed_runs
  exit        \* the exit code

vars == <<campaign, phase, ok, base, edits, timeout, next, scenario, active, armed,
          leftover, records, counts, exit>>

run == <<scenario, active, armed, leftover>>
result == <<records, counts>>

-----------------------------------------------------------------------------
(* The plan: every repeat runs every value of every variant.               *)

VariantRuns(c, v, repeat) ==
  [i \in DOMAIN c.variants[v].values |->
     [repeat |-> repeat, variant |-> v, fault |-> c.variants[v].fault,
      key |-> c.variants[v].key, value |-> c.variants[v].values[i]]]

Sweep(c, repeat) ==
  FlattenSeq([v \in DOMAIN c.variants |-> VariantRuns(c, v, repeat)])

Plan(c) == FlattenSeq([repeat \in 1 .. c.repeats |-> Sweep(c, repeat)])

-----------------------------------------------------------------------------
(* The scenario of a run.                                                  *)

Holders(s, id) == {i \in DOMAIN s.faults : s.faults[i].id = id}

WithEntry(config, key, text) ==
  [k \in DOMAIN config \cup {key} |-> IF k = key THEN text ELSE config[k]]

\* apply_campaign_value: the first fault with the id.
Applied(s, r) ==
  [s EXCEPT !.faults[Min(Holders(s, r.fault))].config = WithEntry(@, r.key, r.value)]

\* No scenario is None, with a value changed either.
ASSUME ScenarioAssumption ==
  \A s \in Scenarios, c \in Campaigns : \A n \in 1 .. Len(Plan(c)) :
    Holders(s, Plan(c)[n].fault) # {} => Applied(s, Plan(c)[n]) # None

ValidScenario(s) == \A i \in DOMAIN s.faults : ValidFault(s.type, s.faults[i].config)

Ids(s) == {s.faults[i].id : i \in DOMAIN s.faults}

\* The injector keeps the last definition of an id.
InjectedConfigs(s) == [id \in Ids(s) |-> s.faults[Max(Holders(s, id))].config]

StartupActive(s) == {id \in Ids(s) : \E i \in Holders(s, id) : s.faults[i].active}

\* Each definition of a fault arms its timers; what starts at once only stops.
Timers(s) ==
  LET Scheduled == {i \in DOMAIN s.faults :
                      s.faults[i].start /\ s.faults[i].id \notin StartupActive(s)}
      Started == Scheduled \cup UNION {Holders(s, id) : id \in StartupActive(s)}
  IN {[fault |-> s.faults[i].id, state |-> "active"] : i \in Scheduled}
     \cup {[fault |-> s.faults[i].id, state |-> "inactive"] :
              i \in {j \in Started : s.faults[j].duration}}

Switched(on, timer) ==
  IF timer.state = "active" THEN on \cup {timer.fault} ELSE on \ {timer.fault}

\* How the callback of the run's injector handles a message.
Injector == INSTANCE ConfiguredInjector
  WITH Faults <- UNION {Ids(s) : s \in Scenarios},
       Files <- {}, Entries <- {}, Readings <- Messages,
       RangeMin <- 0, RangeMax <- 0, MaxEntries <- 0,
       type <- scenario.type, blocks <- scenario.blocks, config <- InjectedConfigs(scenario),
       process <- "running", output <- None

ASSUME MessageAssumption == Messages \subseteq Injector!SomeReading

-----------------------------------------------------------------------------
Init ==
  /\ campaign \in Campaigns
  /\ phase = "starting"
  /\ ok = TRUE
  /\ base \in Scenarios \cup {BadFile}
  /\ edits = 0
  /\ timeout = 0
  /\ next = 1
  /\ scenario = None
  /\ active = {} /\ armed = {} /\ leftover = {}
  /\ records = <<>>
  /\ counts = [total |-> 0, passed |-> 0, failed |-> 0]
  /\ exit = None

\* load_campaign_config: a timeout that is not a number passes its check.
Loads(c) ==
  /\ c.repeats > 0
  /\ c.timeout = NaN \/ c.timeout > 0
  /\ c.variants # <<>>
  /\ \A v \in DOMAIN c.variants : c.variants[v].values # <<>>

\* main: the file, timeout_override and the timeout in whole milliseconds.
Start(override) ==
  /\ phase = "starting"
  /\ LET seconds == IF Less(0, override) THEN override ELSE campaign.timeout
         good == /\ Loads(campaign)
                 /\ seconds \notin {NaN, Inf} /\ seconds > 0
                 /\ seconds < MaxMilliseconds * 1000
                 /\ override \notin {NaN, Inf} /\ override >= 0
     IN IF good
        THEN /\ phase' = "between"
             /\ timeout' = seconds \div 1000
             /\ UNCHANGED exit
        ELSE /\ phase' = "exited"
             /\ exit' = 1
             /\ UNCHANGED timeout
  /\ UNCHANGED <<campaign, ok, base, edits, next, run, result>>

Counted(success) ==
  [counts EXCEPT !.total = @ + 1, !.passed = @ + (IF success THEN 1 ELSE 0),
                 !.failed = @ + (IF success THEN 0 ELSE 1)]

\* record_run.
Record(r, outcome) ==
  /\ records' = Append(records, [run |-> r, outcome |-> outcome])
  /\ counts' = Counted(outcome = "passed")

\* (mutant: a shutdown ends the campaign without a record)
RecordNothing == UNCHANGED result

RecordShutdown == Record(Plan(campaign)[next], "interrupted")

\* A timeout below a millisecond is refused by run() itself, as one failed run.
RefuseTimeout ==
  /\ phase = "between" /\ timeout = 0
  /\ Record(None, "failed")
  /\ phase' = "reporting"
  /\ UNCHANGED <<campaign, ok, base, edits, timeout, next, run, exit>>

AfterShutdown ==
  /\ phase = "between" /\ timeout > 0
  /\ next <= Len(Plan(campaign))
  /\ ~ok
  /\ RecordShutdown
  /\ phase' = "reporting"
  /\ UNCHANGED <<campaign, ok, base, edits, timeout, next, run, exit>>

\* The file loads, has the fault, and is valid with the run's value in it.
Generates(r) ==
  /\ base # BadFile
  /\ Injector!Endpoint(base.type, base.blocks) # None
  /\ Holders(base, r.fault) # {}
  /\ ValidScenario(Applied(base, r))

HasOwnEndpoint(s) == Injector!Endpoint(s.type, s.blocks) = Injector!OwnEndpoint(s.type)

CanRun(r) == Generates(r) /\ HasOwnEndpoint(base) /\ base.constructible

\* (mutant: a run that cannot start is skipped)
FailUnrecorded ==
  /\ phase = "between" /\ timeout > 0
  /\ next <= Len(Plan(campaign))
  /\ ok
  /\ ~CanRun(Plan(campaign)[next])
  /\ next' = next + 1
  /\ UNCHANGED <<campaign, phase, ok, base, edits, timeout, run, result, exit>>

\* A scenario that does not load, lacks the fault, fails the validation or makes
\* a constructor throw is a failed run, and the campaign goes on.  What a
\* constructor reads of an absent endpoint may make it throw too.
FailToRun ==
  /\ phase = "between" /\ timeout > 0
  /\ next <= Len(Plan(campaign))
  /\ ok
  /\ ~CanRun(Plan(campaign)[next])
  /\ Record(Plan(campaign)[next], "failed")
  /\ next' = next + 1
  /\ UNCHANGED <<campaign, phase, ok, base, edits, timeout, run, exit>>

\* A constructor that dereferences the absent endpoint of its type may as well
\* take the process with it.
MissingEndpoint ==
  /\ phase = "between" /\ timeout > 0
  /\ next <= Len(Plan(campaign))
  /\ ok
  /\ Generates(Plan(campaign)[next]) /\ ~HasOwnEndpoint(base)
  /\ phase' = "crashed"
  /\ scenario' = Applied(base, Plan(campaign)[next])
  /\ UNCHANGED <<campaign, ok, base, edits, timeout, next, active, armed, leftover,
                 result, exit>>

\* (mutant: the value is written into the base scenario)
BeginRunInPlace ==
  /\ phase = "between" /\ timeout > 0
  /\ next <= Len(Plan(campaign))
  /\ ok
  /\ CanRun(Plan(campaign)[next])
  /\ phase' = "running"
  /\ scenario' = Applied(base, Plan(campaign)[next])
  /\ base' = scenario'
  /\ active' = StartupActive(scenario')
  /\ armed' = Timers(scenario')
  /\ UNCHANGED <<campaign, ok, edits, timeout, next, leftover, result, exit>>

BeginRun ==
  /\ phase = "between" /\ timeout > 0
  /\ next <= Len(Plan(campaign))
  /\ ok
  /\ CanRun(Plan(campaign)[next])
  /\ phase' = "running"
  /\ scenario' = Applied(base, Plan(campaign)[next])
  /\ active' = StartupActive(scenario')
  /\ armed' = Timers(scenario')
  /\ UNCHANGED <<campaign, ok, base, edits, timeout, next, leftover, result, exit>>

FireTimer ==
  /\ phase = "running"
  /\ \E timer \in armed : /\ active' = Switched(active, timer)
                          /\ armed' = armed \ {timer}
  /\ UNCHANGED <<campaign, phase, ok, base, edits, timeout, next, scenario, leftover,
                 result, exit>>

\* (mutant: a fault id the injector does not know is switched all the same)
FireLeftoverUnchecked ==
  /\ phase = "running"
  /\ \E timer \in leftover : /\ active' = Switched(active, timer)
                             /\ leftover' = leftover \ {timer}
  /\ UNCHANGED <<campaign, phase, ok, base, edits, timeout, next, scenario, armed,
                 result, exit>>

\* The callback of a finished run uses its injector and its scheduler after they
\* are gone: nothing is seen of it, it finds the objects of this run at their
\* addresses, or the process dies.
FireLeftover ==
  /\ phase = "running"
  /\ \E timer \in leftover :
       /\ leftover' = leftover \ {timer}
       /\ \/ UNCHANGED <<phase, active>>
          \/ /\ timer.fault \in Ids(scenario)
             /\ active' = Switched(active, timer)
             /\ UNCHANGED phase
          \/ phase' = "crashed" /\ UNCHANGED active
  /\ UNCHANGED <<campaign, ok, base, edits, timeout, next, scenario, armed, result, exit>>

\* Handling a message changes nothing else of the campaign.
MessageHangs ==
  /\ phase = "running"
  /\ ~Injector!DropThrows /\ Injector!MayKeepMessage
  /\ \E r \in Messages :
       r.type = scenario.type /\ ~Injector!ApplyThrows(r) /\ Injector!ApplyHangs(r)
  /\ phase' = "stuck"
  /\ UNCHANGED <<campaign, ok, base, edits, timeout, next, run, result, exit>>

EndRun(outcome) ==
  /\ phase = "running"
  /\ Record(Plan(campaign)[next], outcome)
  /\ next' = next + 1
  /\ phase' = "between"
  /\ scenario' = None
  /\ active' = {} /\ armed' = {}
  /\ leftover' = leftover \cup armed
  /\ UNCHANGED <<campaign, ok, base, edits, timeout, exit>>

\* The catch around the run takes what a callback throws.
CallbackThrows ==
  /\ phase = "running"
  /\ \E r \in Messages :
       /\ r.type = scenario.type
       /\ Injector!DropThrows \/ (Injector!MayKeepMessage /\ Injector!ApplyThrows(r))
  /\ EndRun("failed")

AssertionsFinish ==
  /\ phase = "running"
  /\ scenario.decides
  /\ \E outcome \in {"passed", "failed"} : EndRun(outcome)

\* (mutant: the deadline is only looked at once the assertions can finish)
TimeOutDecided == phase = "running" /\ scenario.decides /\ EndRun("timeout")

TimeOut == EndRun("timeout")

Interrupted == ~ok /\ EndRun("interrupted")

AllDone ==
  /\ phase = "between" /\ timeout > 0
  /\ next > Len(Plan(campaign))
  /\ phase' = "reporting"
  /\ UNCHANGED <<campaign, ok, base, edits, timeout, next, run, result, exit>>

Success == counts.total > 0 /\ counts.failed = 0

\* Writing the report may fail.
Report ==
  /\ phase = "reporting"
  /\ phase' = "exited"
  /\ exit' \in {1, IF Success THEN 0 ELSE 1}
  /\ UNCHANGED <<campaign, ok, base, edits, timeout, next, run, result>>

-----------------------------------------------------------------------------
(* The world around the process.                                           *)

Shutdown ==
  /\ ok /\ phase \in {"between", "running"}
  /\ ok' = FALSE
  /\ UNCHANGED <<campaign, phase, base, edits, timeout, next, run, result, exit>>

EditBase ==
  /\ edits < MaxEdits /\ phase \in {"between", "running"}
  /\ base' \in (Scenarios \cup {BadFile}) \ {base}
  /\ edits' = edits + 1
  /\ UNCHANGED <<campaign, phase, ok, timeout, next, run, result, exit>>

Work ==
  \/ \E override \in Overrides : Start(override)
  \/ RefuseTimeout \/ AfterShutdown \/ FailToRun \/ MissingEndpoint \/ BeginRun
  \/ AllDone \/ Report

Next ==
  \/ Work
  \/ FireTimer \/ FireLeftover \/ MessageHangs \/ CallbackThrows
  \/ AssertionsFinish \/ TimeOut \/ Interrupted
  \/ Shutdown \/ EditBase

Spec == Init /\ [][Next]_vars

\* The process goes on while it can, and the clock reaches every deadline.
FairSpec == Spec /\ WF_vars(Work) /\ WF_vars(TimeOut)

-----------------------------------------------------------------------------
(* Properties.                                                             *)

PlannedRun == [repeat : Int, variant : Nat, fault : STRING, key : STRING, value : STRING]

Outcomes == {"passed", "failed", "timeout", "interrupted"}

RunRecord == [run : PlannedRun \cup {None}, outcome : Outcomes]

Timer(ids) == [fault : ids, state : {"active", "inactive"}]

\* Every variable has its type: records and counters are such, a scenario is
\* there from the start of a run to its end, one of the base file's with a
\* planned value in it, the run's active faults and timers are faults of this
\* scenario, and the leftover timers are of faults that some base file had.
TypeOK ==
  /\ campaign \in Campaigns
  /\ phase \in {"starting", "between", "running", "reporting", "exited", "crashed", "stuck"}
  /\ ok \in BOOLEAN
  /\ base \in Scenarios \cup {BadFile}
  /\ edits \in 0 .. MaxEdits /\ timeout \in 0 .. MaxMilliseconds
  /\ next \in 1 .. Len(Plan(campaign)) + 1
  /\ scenario = None <=> phase \notin {"running", "crashed", "stuck"}
  /\ IF scenario = None
     THEN active = {} /\ armed = {}
     ELSE /\ \E s \in Scenarios, n \in 1 .. Len(Plan(campaign)) :
               /\ Holders(s, Plan(campaign)[n].fault) # {}
               /\ scenario = Applied(s, Plan(campaign)[n])
          /\ active \subseteq Ids(scenario) /\ armed \subseteq Timer(Ids(scenario))
  /\ leftover \subseteq Timer(UNION {Ids(s) : s \in Scenarios})
  /\ records \in Seq(RunRecord)
  /\ counts \in [total : Nat, passed : Nat, failed : Nat]
  /\ exit \in {None, 0, 1}

\* The records are the planned runs in their order, each once, with failures,
\* edits of the base file and timers of earlier runs in between; only a shutdown
\* cuts them short, with one interrupted run as the last, and a refused timeout
\* leaves a single failed record.  The counters are those of the records.
RecordsMatchPlan ==
  LET plan == Plan(campaign)
      passed == {i \in DOMAIN records : records[i].outcome = "passed"}
  IN /\ \/ \A i \in DOMAIN records : i <= Len(plan) /\ records[i].run = plan[i]
        \/ timeout = 0 /\ records = <<[run |-> None, outcome |-> "failed"]>>
     /\ phase = "reporting" /\ ok => Len(records) = (IF timeout = 0 THEN 1 ELSE Len(plan))
     /\ counts = [total |-> Len(records), passed |-> Cardinality(passed),
                  failed |-> Len(records) - Cardinality(passed)]

\* Exit code 0 means that every value of every variant ran in every repeat and
\* passed, whatever was interrupted, edited or refused.
ExitZeroMeansAllPassed ==
  exit = 0 => /\ Len(records) = Len(Plan(campaign))
              /\ \A i \in DOMAIN records : records[i].outcome = "passed"

\* A run's scenario is some content of the base file with one value changed: no
\* value of an earlier run is left in it, and when ids are distinct the injector
\* has exactly the value that the record names.
RunIsBaseWithOneValue ==
  phase = "running" =>
    LET r == Plan(campaign)[next]
    IN /\ ValidScenario(scenario)
       /\ \E s \in Scenarios : \E i \in Holders(s, r.fault) :
            scenario = [s EXCEPT !.faults[i].config = WithEntry(@, r.key, r.value)]
       /\ Cardinality(Ids(scenario)) = Len(scenario.faults) =>
            InjectedConfigs(scenario)[r.fault][r.key] = r.value

\* A sector bound that normalize_degrees cannot handle.
HangingBound ==
  \E i \in DOMAIN scenario.faults :
    \E key \in DOMAIN scenario.faults[i].config \cap {"sector_min_deg", "sector_max_deg"} :
      scenario.faults[i].config[key] \in {"inf", "-inf", "1e300"}

HangingBeam == \E r \in Messages : r.type = "scan" /\ Injector!NeverNormal(r.angle)

\* A campaign ends, with scenarios that never decide their assertions too,
\* unless a run's injector met an angle normalize_degrees cannot handle, or the
\* process died of a timer of an earlier run or of an endpoint block of the
\* other kind.
CampaignEnds ==
  phase = "starting" ~>
    \/ phase = "exited"
    \/ phase = "crashed" /\ (records # <<>> \/ ~HasOwnEndpoint(scenario))
    \/ phase = "stuck" /\ scenario.type = "scan" /\ (HangingBound \/ HangingBeam)

\* README: "Failures are recorded and subsequent runs continue."  A run never
\* takes the campaign down.
SubsequentRunsContinue == phase # "crashed"
=============================================================================
