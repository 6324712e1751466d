--------------------------- MODULE AssertionRunner ---------------------------
(***************************************************************************)
(* A scenario run: FaultAssertionRunner with its fault_event and topic_hz  *)
(* assertions, ScenarioMonitor, and the loop of FaultScenarioRunner that   *)
(* spins the node and decides the outcome.                                 *)
(*                                                                         *)
(* spin_some() looks once at what is ready and runs each ready callback    *)
(* once: the update timer, and one message of each subscription.  The      *)
(* fault events come from the controller of the same node through a        *)
(* KeepLast subscription, as do the messages of the monitored topics.      *)
(* twist_stopped assertions have a module of their own.                    *)
(***************************************************************************)
EXTENDS Integers, Sequences, FiniteSets

CONSTANTS
  Assertions,   \* assertion ids
  Configs,      \* what the assertions of a scenario may be
  Startups,     \* sequences of events the controller publishes as it starts
  FaultIds,
  NoTime,       \* an absent within
  NaN,          \* a within that compares with nothing
  Depth,        \* history depth of the subscriptions
  Period,       \* of the update timer
  Sleep,        \* of the run loop between two spins
  MaxLate,      \* how late the loop may wake up
  Timeout,      \* timeout_
  MaxTime,      \* bound on the clock
  MaxEvents,    \* bound on fault events after startup
  MaxMessages   \* bound on messages of the monitored topics

Event == [fault : FaultIds, state : {"active", "inactive", "config_updated"}]

\* What a file may say of an assertion.
Within == Int \cup {NoTime, NaN}
EventAssertion == [type : {"fault_event"}, fault : FaultIds, state : STRING, within : Within]
HzAssertion == [type : {"topic_hz"}, window : Int, count : Int, within : Within]

\* validate_assertions(): a within that is not a number passes its check.
ValidAssertion(c) ==
  /\ c.type = "fault_event" => c.state \in {"active", "inactive"}
  /\ c.type = "topic_hz" => c.window > 0 /\ c.count > 0
  /\ c.within \in {NoTime, NaN} \/ c.within >= 0

ASSUME RunnerAssumption ==
  /\ Configs \subseteq [Assertions -> EventAssertion \cup HzAssertion]
  /\ Startups \subseteq Seq(Event)
  /\ NoTime \notin Int /\ NaN \notin Int /\ NoTime # NaN
  /\ {"timer", "events"} \cap Assertions = {}
  /\ {Depth, Period, Sleep} \subseteq Nat \ {0}
  /\ {MaxLate, Timeout, MaxTime, MaxEvents, MaxMessages} \subseteq Nat
  /\ Timeout + Sleep + MaxLate < MaxTime

VARIABLES
  config,     \* config_ of every assertion
  result,     \* result_.state of every assertion
  last,       \* last_published_states_
  announced,  \* history: the states published on assertion_events, per assertion
  status,     \* state of the last ScenarioStatus, "none" before the first
  times,      \* message_times_ of the topic_hz assertions: their stamps
  queue,      \* fault events waiting in the subscription
  backlog,    \* messages waiting in the subscription of a topic_hz assertion
  sent,       \* history: the fault events published
  phase,      \* where the run loop is
  ready,      \* callbacks of this spin_some() that have not run
  wake,       \* end of the current sleep
  timerDue,   \* next call of the update timer
  now,
  outcome,    \* of the run
  made        \* events and messages published so far, for the bounds

runner == <<result, last, announced, status, times>>
channels == <<queue, backlog, sent, made>>
loop == <<phase, ready, wake, timerDue, now, outcome>>
vars == <<config, runner, channels, loop>>

-----------------------------------------------------------------------------
EventIds == {a \in Assertions : config[a].type = "fault_event"}
HzIds == {a \in Assertions : config[a].type = "topic_hz"}

\* (mutant: KeepAll)
EnqueueAll(q, e) == Append(q, e)

\* A KeepLast(Depth) history: the oldest goes first.
Enqueue(q, e) ==
  LET all == Append(q, e) IN
  IF Len(all) > Depth THEN Tail(all) ELSE all

\* What remains of the events published before anything spins.
Kept(q) == IF Len(q) > Depth THEN SubSeq(q, Len(q) - Depth + 1, Len(q)) ELSE q

Matches(a, e) == config[a].fault = e.fault /\ config[a].state = e.state

\* FaultEventAssertion::observe().
Observe(e) ==
  [a \in Assertions |->
     IF a \in EventIds /\ result[a] = "pending" /\ Matches(a, e) THEN "passed"
     ELSE result[a]]

\* (mutant: >= for >)
OverdueAtDeadline(a) == config[a].within \notin {NoTime, NaN} /\ now >= config[a].within

Overdue(a) == config[a].within \notin {NoTime, NaN} /\ now > config[a].within

\* (mutant: the whole history counts)
AllTimes(a) == times[a]

\* What remove_if() leaves in message_times_.
Recent(a) == {m \in times[a] : now - m.at <= config[a].window}

\* The stamp push_back() adds; a second one of the same time is a second member.
Stamp(a) == [at |-> now, n |-> Cardinality({m \in times[a] : m.at = now})]

\* FaultEventAssertion::update() and TopicHzAssertion::update().
Updated ==
  [a \in Assertions |->
     IF result[a] # "pending" THEN result[a]
     ELSE IF a \in HzIds /\ Cardinality(Recent(a)) >= config[a].count THEN "passed"
     ELSE IF Overdue(a) THEN "failed"
     ELSE "pending"]

\* (mutant: last_published_states_ not consulted)
NewsAlways(r) == {a \in Assertions : r[a] # "pending"}

\* publish_assertion_event() publishes the terminal results that are new.
News(r) == {a \in Assertions : r[a] # "pending" /\ last[a] # r[a]}

PublishAssertionEvents(r) ==
  /\ last' = [a \in Assertions |-> IF a \in News(r) THEN r[a] ELSE last[a]]
  /\ announced' = [a \in Assertions |-> IF a \in News(r) THEN Append(announced[a], r[a])
                                        ELSE announced[a]]

\* scenario_state_from_counts().
ScenarioState(r) ==
  IF \E a \in Assertions : r[a] = "failed" THEN "failed"
  ELSE IF \E a \in Assertions : r[a] = "pending" THEN "running"
  ELSE "passed"

\* (mutant: all_of() not passed, for none_of() pending)
CompleteWhenAnyDecided(r) == \E a \in Assertions : r[a] # "pending"

\* (mutant: the loop has no timeout)
NeverOutOfTime == FALSE

OutOfTime == now > Timeout

AssertionsComplete(r) == \A a \in Assertions : r[a] # "pending"
AssertionsPassed(r) == \A a \in Assertions : r[a] = "passed"

\* The final_result of the report written after a run.
FinalResult(r) ==
  IF \E a \in Assertions : r[a] = "failed" THEN "failed"
  ELSE IF \E a \in Assertions : r[a] = "pending" THEN "pending"
  ELSE "passed"

\* rcl_timer_call(): one period on, or the first multiple not in the past.
NextCall(due) ==
  IF due + Period >= now THEN due + Period ELSE now + ((due - now) % Period)

-----------------------------------------------------------------------------
Init ==
  /\ config \in {c \in Configs : \A a \in Assertions : ValidAssertion(c[a])}
  /\ result = [a \in Assertions |-> "pending"]
  /\ last = [a \in Assertions |-> "pending"]
  /\ announced = [a \in Assertions |-> <<>>]
  /\ status = "none"
  /\ times = [a \in Assertions |-> {}]
  /\ \E s \in Startups :
       queue = Kept(s) /\ sent = {s[k] : k \in DOMAIN s}
  /\ backlog = [a \in Assertions |-> 0]
  /\ made = [events |-> 0, messages |-> 0]
  /\ phase = "sleeping" /\ ready = {} /\ wake = 0
  /\ timerDue = Period
  /\ now = 0
  /\ outcome = "running"

Tick ==
  /\ phase = "sleeping" /\ now < wake + MaxLate
  /\ now < MaxTime
  /\ now' = now + 1
  /\ UNCHANGED <<config, runner, channels, phase, ready, wake, timerDue, outcome>>

\* The controller, a service or a timer publishes a fault event.
PublishEvent(e) ==
  /\ phase # "done"
  /\ made.events < MaxEvents
  /\ made' = [made EXCEPT !.events = @ + 1]
  /\ queue' = Enqueue(queue, e)
  /\ sent' = sent \cup {e}
  /\ UNCHANGED <<config, runner, backlog, loop>>

\* A message on a monitored topic.
PublishMessage(a) ==
  /\ phase # "done"
  /\ a \in HzIds
  /\ made.messages < MaxMessages
  /\ made' = [made EXCEPT !.messages = @ + 1]
  /\ backlog' = [backlog EXCEPT ![a] = IF @ < Depth THEN @ + 1 ELSE @]
  /\ UNCHANGED <<config, runner, queue, sent, loop>>

\* FaultScenarioRunner::run(): rclcpp::ok() fails, or spin_some() begins.
Interrupted ==
  /\ phase = "sleeping" /\ wake <= now
  /\ phase' = "done"
  /\ outcome' = "interrupted"
  /\ UNCHANGED <<config, runner, channels, ready, wake, timerDue, now>>

SpinSome ==
  /\ phase = "sleeping" /\ wake <= now
  /\ phase' = "spinning"
  /\ ready' = {c \in {"timer"} : timerDue <= now} \cup
              {c \in {"events"} : queue # <<>>} \cup
              {a \in HzIds : backlog[a] > 0}
  /\ UNCHANGED <<config, runner, channels, wake, timerDue, now, outcome>>

Run(callback) ==
  /\ phase = "spinning" /\ callback \in ready
  /\ ready' = ready \ {callback}
  /\ UNCHANGED <<config, phase, wake, now, outcome, sent, made>>

\* FaultAssertionRunner::on_fault_event().
OnFaultEvent ==
  /\ Run("events")
  /\ queue' = Tail(queue)
  /\ result' = Observe(Head(queue))
  /\ PublishAssertionEvents(Observe(Head(queue)))
  /\ UNCHANGED <<status, times, backlog, timerDue>>

\* TopicHzAssertion::observe_message().
ObserveMessage(a) ==
  /\ Run(a)
  /\ a \in HzIds
  /\ backlog' = [backlog EXCEPT ![a] = @ - 1]
  /\ times' = [times EXCEPT ![a] = @ \cup {Stamp(a)}]
  /\ UNCHANGED <<result, last, announced, status, queue, timerDue>>

\* FaultAssertionRunner::update().
Update ==
  /\ Run("timer")
  /\ timerDue' = NextCall(timerDue)
  /\ times' = [a \in Assertions |->
                 IF a \in HzIds /\ result[a] = "pending" THEN Recent(a) ELSE times[a]]
  /\ result' = Updated
  /\ PublishAssertionEvents(Updated)
  /\ status' = ScenarioState(Updated)
  /\ UNCHANGED <<queue, backlog>>

\* The rest of the loop's body: complete, out of time, or sleep.
Check ==
  /\ phase = "spinning" /\ ready = {}
  /\ \/ /\ AssertionsComplete(result)
        /\ outcome' = IF AssertionsPassed(result) THEN "passed" ELSE "failed"
        /\ phase' = "done"
        /\ UNCHANGED wake
     \/ /\ ~AssertionsComplete(result)
        /\ OutOfTime
        /\ outcome' = "timeout"
        /\ phase' = "done"
        /\ UNCHANGED wake
     \/ /\ ~AssertionsComplete(result)
        /\ ~OutOfTime
        /\ phase' = "sleeping"
        /\ wake' = now + Sleep
        /\ UNCHANGED outcome
  /\ UNCHANGED <<config, runner, channels, ready, timerDue, now>>

\* The process has its result and exits.
Done == phase = "done" /\ UNCHANGED vars

Next ==
  \/ Tick
  \/ \E e \in Event : PublishEvent(e)
  \/ \E a \in Assertions : PublishMessage(a)
  \/ Interrupted
  \/ SpinSome
  \/ OnFaultEvent
  \/ \E a \in Assertions : ObserveMessage(a)
  \/ Update
  \/ Check
  \/ Done

Spec == Init /\ [][Next]_vars

\* The loop runs; nothing is assumed of events and messages.
Loop == SpinSome \/ OnFaultEvent \/ Update \/ Check \/ \E a \in Assertions : ObserveMessage(a)
FairSpec == Spec /\ WF_vars(Tick) /\ WF_vars(Loop)

-----------------------------------------------------------------------------
(* Properties.                                                             *)

Verdict == {"pending", "passed", "failed"}

TypeOK ==
  /\ config \in Configs
  /\ result \in [Assertions -> Verdict]
  /\ last \in [Assertions -> Verdict]
  /\ announced \in [Assertions -> Seq({"passed", "failed"})]
  /\ status \in {"none", "running", "passed", "failed"}
  /\ times \in [Assertions -> SUBSET [at : 0..now, n : Nat]]
  /\ queue \in Seq(Event) /\ Len(queue) <= Depth
  /\ backlog \in [Assertions -> 0..Depth]
  /\ sent \subseteq Event
  /\ phase \in {"sleeping", "spinning", "done"}
  /\ ready \subseteq {"timer", "events"} \cup Assertions
  /\ {wake, timerDue, now} \subseteq Nat
  /\ outcome \in {"running", "passed", "failed", "timeout", "interrupted"}

\* assertion_events is edge-triggered: every verdict is published once, when it
\* is reached, and no other ever is, however often the results are walked.
AnnouncedOnce ==
  \A a \in Assertions :
    announced[a] = IF result[a] = "pending" THEN <<>> ELSE <<result[a]>>

\* An event assertion passes only on an event that was published, and no
\* assertion fails before its deadline is over.
VerdictsJustified ==
  \A a \in Assertions :
    /\ a \in EventIds /\ result[a] = "passed" => \E e \in sent : Matches(a, e)
    /\ result[a] = "failed" => /\ config[a].within \notin {NoTime, NaN}
                              /\ config[a].within < now

\* A topic_hz assertion passes only if count messages were observed within one
\* window; old messages never add up to a rate.
RateWasMeasured ==
  \A a \in HzIds : result[a] = "passed" =>
    \E measured \in SUBSET times[a] :
      /\ Cardinality(measured) >= config[a].count
      /\ \A m, o \in measured : m.at - o.at <= config[a].window

\* Status, outcome and report are derived from the assertions at different times:
\* the monitor never reports a run better or worse than it is, a verdict of the
\* loop is the report's final result, and a timeout leaves an assertion open.
VerdictsAgree ==
  /\ status = "passed" => FinalResult(result) = "passed"
  /\ status = "failed" => FinalResult(result) = "failed"
  /\ outcome \in {"passed", "failed"} => FinalResult(result) = outcome
  /\ outcome = "timeout" => \E a \in Assertions : result[a] = "pending"

\* Every run ends, with or without deadlines, whatever is published.
RunEnds == <>(outcome # "running")
=============================================================================
