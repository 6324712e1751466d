---------------------------- MODULE TwistInjector ----------------------------
(***************************************************************************)
(* TwistFaultInjector: the faults it holds (FaultInjectorBase), what they  *)
(* do to a velocity command on /cmd_vel, stale replay, and the delayed     *)
(* queue of DelayedForwarding, which it implements.                        *)
(*                                                                         *)
(* A command is its linear.x, an integer; angular.z goes the same way.     *)
(* drop_probability is in percent.  mutex_ and the single-threaded         *)
(* executor make every callback one step.                                  *)
(***************************************************************************)
EXTENDS Integers, Sequences, FiniteSets, FiniteSetsExt

CONSTANTS
  Speeds,          \* linear.x of the commands that arrive
  Scenarios,       \* faults a scenario may give the injector: id -> config map
  Values,          \* key -> values validate_config_value() accepts
  ReplayFallback,  \* 500, the fallback of stale_replay_duration_ms
  NoCommand,       \* last_command_ is std::nullopt
  IntMax,          \* the largest int, hence number of milliseconds
  MaxChanges,      \* bound on changes of the faults
  Delays, FlushPeriod, MaxLate, MaxTime, MaxMessages  \* as in DelayedForwarding

Keys == {"drop_probability", "delay_ms", "linear_x_scale", "max_linear_x",
         "force_stop", "stale_replay_enabled", "stale_replay_duration_ms"}

ASSUME TwistAssumption ==
  /\ Speeds \subseteq Int
  /\ DOMAIN Values = Keys
  /\ \A s \in Scenarios :
       /\ IsFiniteSet(DOMAIN s)
       /\ \A f \in DOMAIN s :
            /\ DOMAIN s[f] \subseteq Keys
            /\ \A key \in DOMAIN s[f] : s[f][key] \in Values[key]
  /\ Values["linear_x_scale"] \cup Values["max_linear_x"] \subseteq Nat
  /\ Values["delay_ms"] \cup {0} \subseteq Delays
  /\ Delays \cup Values["stale_replay_duration_ms"] \cup {ReplayFallback} \subseteq 0..IntMax
  /\ FlushPeriod \in Nat \ {0}
  /\ NoCommand \notin [source : Nat, x : Int, at : Nat]
  /\ {IntMax, MaxChanges, MaxLate, MaxTime, MaxMessages} \subseteq Nat

VARIABLES
  faults,     \* faults_: id -> config map
  active,     \* active_: the ids that are true
  last,       \* last_command_ and last_command_time_
  inputs,     \* history: the commands that arrived, with their time
  changes,    \* changes of the faults, for the bound MaxChanges
  now, dropped, delayed, published, flushDue  \* as in DelayedForwarding

arrived == Len(inputs)

registry == <<faults, active, changes>>
vars == <<faults, active, last, inputs, changes, now, dropped, delayed,
          published, flushDue>>

\* The data path without the payload.
Bare(m) == [n |-> m.n, release |-> m.release]
BarePublished(m) == [n |-> m.n, release |-> m.release, at |-> m.at, via |-> m.via]

Queue == [j \in DOMAIN delayed |-> Bare(delayed[j])]
Output == [j \in DOMAIN published |-> BarePublished(published[j])]

Forwarding == INSTANCE DelayedForwarding WITH delayed <- Queue, published <- Output

-----------------------------------------------------------------------------
(* The aggregation of FaultInjectorBase over the active faults.            *)

With(key) == {f \in active : key \in DOMAIN faults[f]}

\* The running maximum starts at the fallback.
ActiveMax(key, fallback) == Max({fallback} \cup {faults[f][key] : f \in With(key)})

ActiveProduct(key) ==
  FoldSet(LAMBDA f, product : product * faults[f][key], 1, With(key))

\* The first active fault that has the key decides; active_ is unordered.
ActiveBool(key) ==
  IF With(key) = {} THEN {FALSE} ELSE {faults[f][key] : f \in With(key)}

ShouldDrop ==
  LET p == ActiveMax("drop_probability", 0) IN
  IF p <= 0 THEN {FALSE} ELSE IF p >= 100 THEN {TRUE} ELSE {TRUE, FALSE}

ActiveDelay == ActiveMax("delay_ms", 0)

Scaled(x) == x * ActiveProduct("linear_x_scale")

Clamped(x) ==
  LET limit == ActiveMax("max_linear_x", -1) IN
  IF limit < 0 THEN x ELSE Max({-limit, Min({limit, x})})

\* (mutant: apply_clamp() before apply_scale())
ClampThenScale(x, stop) == IF stop THEN 0 ELSE Scaled(Clamped(x))

\* apply_scale(), apply_clamp(), apply_force_stop().
Mutated(x, stop) == IF stop THEN 0 ELSE Clamped(Scaled(x))

\* last_command_ is replayed in place of the newest one.
Replays(stale) ==
  /\ stale /\ last # NoCommand
  /\ now - last.at <= ActiveMax("stale_replay_duration_ms", ReplayFallback)

Newest(x) == [source |-> arrived + 1, x |-> x, at |-> now]

Chosen(x, stale) == IF Replays(stale) THEN last ELSE Newest(x)

LastCommand(x, stale) == Chosen(x, stale)

\* What becomes of command x: the message, with its arrival number and the
\* number of the command it carries.
Message(x, stale, stop, delay) ==
  [n |-> arrived + 1, source |-> Chosen(x, stale).source,
   x |-> Mutated(Chosen(x, stale).x, stop), release |-> now + delay]

Publish(m, via) ==
  [n |-> m.n, source |-> m.source, x |-> m.x, release |-> m.release,
   at |-> now, via |-> via]

-----------------------------------------------------------------------------
Init ==
  /\ faults \in Scenarios
  /\ active \in SUBSET DOMAIN faults
  /\ last = NoCommand
  /\ inputs = <<>>
  /\ changes = 0
  /\ now = 0
  /\ dropped = {}
  /\ delayed = <<>>
  /\ published = <<>>
  /\ flushDue = FlushPeriod

Tick ==
  /\ now < MaxTime
  /\ now < flushDue + MaxLate
  /\ now' = now + 1
  /\ UNCHANGED <<registry, last, inputs, dropped, delayed, published, flushDue>>

\* on_twist(), by its three exits.  Command x arrives.
Arrive(x) ==
  /\ arrived < MaxMessages
  /\ inputs' = Append(inputs, [x |-> x, at |-> now])
  /\ UNCHANGED <<registry, now, flushDue>>

\* (mutant: the command remembered before the drop)
DropRemembered(x) ==
  /\ Arrive(x)
  /\ TRUE \in ShouldDrop
  /\ dropped' = dropped \cup {arrived + 1}
  /\ last' = Newest(x)
  /\ UNCHANGED <<delayed, published>>

Drop(x) ==
  /\ Arrive(x)
  /\ TRUE \in ShouldDrop
  /\ dropped' = dropped \cup {arrived + 1}
  /\ UNCHANGED <<last, delayed, published>>

\* (mutant: no return after push_back())
DelayAndForward(x, stale, stop) ==
  /\ Arrive(x)
  /\ FALSE \in ShouldDrop /\ ActiveDelay > 0
  /\ last' = LastCommand(x, stale)
  /\ delayed' = Append(delayed, Message(x, stale, stop, ActiveDelay))
  /\ published' = Append(published, Publish(Message(x, stale, stop, 0), "callback"))
  /\ UNCHANGED dropped

Delay(x, stale, stop) ==
  /\ Arrive(x)
  /\ FALSE \in ShouldDrop /\ ActiveDelay > 0
  /\ last' = LastCommand(x, stale)
  /\ delayed' = Append(delayed, Message(x, stale, stop, ActiveDelay))
  /\ UNCHANGED <<dropped, published>>

Forward(x, stale, stop) ==
  /\ Arrive(x)
  /\ FALSE \in ShouldDrop /\ ActiveDelay <= 0
  /\ last' = LastCommand(x, stale)
  /\ published' = Append(published, Publish(Message(x, stale, stop, 0), "callback"))
  /\ UNCHANGED <<dropped, delayed>>

FlushDelayed ==
  LET k == Forwarding!Due(Queue, now) IN
  /\ flushDue <= now
  /\ published' = published \o [j \in 1..k |-> Publish(delayed[j], "flush")]
  /\ delayed' = Forwarding!Rest(delayed, k)
  /\ flushDue' = Forwarding!NextCall(flushDue, now)
  /\ UNCHANGED <<registry, last, inputs, now, dropped>>

\* What the scheduler, the services and a reload do to the faults.  A reload
\* clears neither delayed_ nor last_command_.
Change ==
  /\ changes < MaxChanges
  /\ changes' = changes + 1
  /\ UNCHANGED <<last, inputs, now, dropped, delayed, published, flushDue>>

ActivateFault(f) ==
  /\ Change
  /\ active' = active \cup {f}
  /\ UNCHANGED faults

DeactivateFault(f) ==
  /\ Change
  /\ active' = active \ {f}
  /\ UNCHANGED faults

SetFaultConfigValue(f, key, value) ==
  /\ Change
  /\ faults' = [faults EXCEPT ![f] = [k \in DOMAIN @ \cup {key} |->
                                        IF k = key THEN value ELSE @[k]]]
  /\ UNCHANGED active

\* (mutant: reload without active_.clear())
ReloadKeepsActive(s, startup) ==
  /\ Change
  /\ faults' = s
  /\ active' = active \cup startup

Reload(s, startup) ==
  /\ Change
  /\ faults' = s
  /\ active' = startup

\* The end of the bounded behaviour.
Horizon == now = MaxTime /\ UNCHANGED vars

Next ==
  \/ Tick
  \/ \E x \in Speeds : Drop(x)
  \/ \E x \in Speeds : \E stale \in ActiveBool("stale_replay_enabled") :
     \E stop \in ActiveBool("force_stop") : Delay(x, stale, stop)
  \/ \E x \in Speeds : \E stale \in ActiveBool("stale_replay_enabled") :
     \E stop \in ActiveBool("force_stop") : Forward(x, stale, stop)
  \/ FlushDelayed
  \/ \E f \in DOMAIN faults : ActivateFault(f)
  \/ \E f \in DOMAIN faults : DeactivateFault(f)
  \/ \E f \in DOMAIN faults : \E key \in Keys : \E value \in Values[key] :
       SetFaultConfigValue(f, key, value)
  \/ \E s \in Scenarios : \E startup \in SUBSET DOMAIN s : Reload(s, startup)
  \/ Horizon

Spec == Init /\ [][Next]_vars

FairSpec == Spec /\ WF_vars(Tick) /\ WF_vars(FlushDelayed)

-----------------------------------------------------------------------------
(* Properties.                                                             *)

Command == [n : Nat, source : Nat, x : Int, release : Nat]

\* Types; the ids that are active are registered, and active_ has no others.
TypeOK ==
  /\ active \subseteq DOMAIN faults
  /\ \A f \in DOMAIN faults : \A key \in DOMAIN faults[f] : faults[f][key] \in Values[key]
  /\ last # NoCommand => last \in [source : 1..arrived, x : Speeds, at : 0..now]
  /\ inputs \in Seq([x : Speeds, at : 0..now])
  /\ changes \in 0..MaxChanges
  /\ delayed \in Seq(Command)
  /\ Forwarding!TypeOK

\* Replay, mutation and changes of the faults never disturb the data path:
\* nothing is lost, duplicated, early or out of order, and what is held is
\* published (DelayedForwarding, with its fairness).
ImplementsForwarding == Forwarding!FairSpec

\* The messages past the drop, queued or published.
Accepted ==
  {delayed[j] : j \in DOMAIN delayed} \cup {published[j] : j \in DOMAIN published}

\* What is replayed is the most recent command that was forwarded as itself: a
\* command should_drop() discarded never comes back, nor does an older one, and
\* a replay, though it is forwarded too, is never what a later replay repeats.
ReplaysLatestForwarded ==
  \A m \in Accepted : m.source # m.n =>
    /\ m.source < m.n
    /\ \E o \in Accepted : o.n = m.source /\ o.source = o.n
    /\ \A o \in Accepted : o.source = o.n /\ o.n < m.n => o.n <= m.source

\* The age of the command that message m carries, when m arrived.
Age(m) == inputs[m.n].at - inputs[m.source].at

\* What the faults of the moment do to a message accepted in this step.  While
\* every active fault with force_stop sets it the message is zero, and it never
\* exceeds the clamp, replayed or scaled as it may be.  An older command takes its
\* place only while an active fault enables replay, and counted from its own
\* arrival, however often it was replayed since, that command is no older than the
\* longest duration now configured, or the fallback when that is longer.  Without
\* an active fault a message passes at once and unchanged.
FaultsApply ==
  [][\A m \in Accepted' : m.n > arrived =>
       LET limit == ActiveMax("max_linear_x", -1)
           duration == ActiveMax("stale_replay_duration_ms", ReplayFallback) IN
       /\ ActiveBool("force_stop") = {TRUE} => m.x = 0
       /\ limit >= 0 => -limit <= m.x /\ m.x <= limit
       /\ m.source # m.n => /\ \E on \in ActiveBool("stale_replay_enabled") : on
                            /\ Age(m)' <= duration
       /\ active = {} => /\ m.source = m.n /\ m.x = inputs'[m.n].x
                         /\ m.release = now /\ delayed' = delayed]_vars

\* The documented meaning of stale_replay_duration_ms, "Maximum age of the stored
\* command that may be replayed": where an active fault configures it, a command
\* replayed in this step is no older than the longest duration configured.
ReplayWithinConfiguredAge ==
  [][\A m \in Accepted' : m.n > arrived /\ m.source # m.n =>
       LET key == "stale_replay_duration_ms" IN
       With(key) # {} => \E f \in With(key) : Age(m)' <= faults[f][key]]_vars
=============================================================================
