---------------------------- MODULE TwistStopped ----------------------------
(***************************************************************************)
(* TwistStoppedAssertion: after its fault activates, a zero command must   *)
(* arrive within Within and zero commands must go on for Duration with no  *)
(* gap above MaxGap.  The activation arrives as an event on another        *)
(* subscription, so commands may be observed before the event that makes   *)
(* them count; they are kept and replayed.                                 *)
(*                                                                         *)
(* A Twist is what is_zero() and is_finite() make of it.  Its stamp is the *)
(* time it was observed; the event's is the time it was published.  The    *)
(* assertion starts at time 0.                                             *)
(***************************************************************************)
EXTENDS Integers, Sequences

CONSTANTS
  TriggerWithin, Within, Duration, MaxGap,  \* of the AssertionConfig
  MaxPendingMessages,  \* kMaxPendingMessages
  NoTime,              \* std::nullopt
  MaxTime,             \* bound on the clock
  MaxMessages,         \* bound on the Twist messages
  MaxEvents            \* bound on the activations of the fault

\* validate_assertions(): finite, positive, and the gap below the duration.
ValidAssertion ==
  /\ {TriggerWithin, Within, Duration, MaxGap} \subseteq Nat \ {0}
  /\ MaxGap < Duration

ASSUME StoppedAssumption ==
  /\ ValidAssertion
  /\ {MaxPendingMessages, MaxTime, MaxMessages, MaxEvents} \subseteq Nat
  /\ NoTime \notin Int

VARIABLES
  assertion,  \* the object: its members, by their names in the code
  channel,    \* stamps of the activation events under way
  events,     \* how many activations there were
  trace,      \* history: every Twist observed
  now

vars == <<assertion, channel, events, trace, now>>

Twist == [kind : {"zero", "moving", "nonfinite"}, stamp : Nat]

-----------------------------------------------------------------------------
Fail(s) == [s EXCEPT !.state = "failed", !.pending_messages = <<>>]

\* (mutant: no deadline for the activation)
UpdateActiveOnly(s, t) ==
  LET held == t - s.first_zero_stamp
      gap == IF held >= Duration
             THEN Duration - (s.last_zero_stamp - s.first_zero_stamp)
             ELSE t - s.last_zero_stamp
  IN
  IF s.state # "pending" \/ ~s.fault_active THEN s
  ELSE IF s.first_zero_stamp = NoTime
       THEN IF t - s.fault_activation_stamp > Within THEN Fail(s) ELSE s
  ELSE IF gap > MaxGap THEN Fail(s)
  ELSE IF held >= Duration THEN [s EXCEPT !.state = "passed"] ELSE s

\* (mutant: the gap counted up to now even past the hold deadline)
UpdateGapToNow(s, t) ==
  IF s.state # "pending" THEN s
  ELSE IF ~s.fault_active
       THEN IF t > TriggerWithin + Within THEN Fail(s) ELSE s
  ELSE IF s.first_zero_stamp = NoTime
       THEN IF t - s.fault_activation_stamp > Within THEN Fail(s) ELSE s
  ELSE IF t - s.last_zero_stamp > MaxGap THEN Fail(s)
  ELSE IF t - s.first_zero_stamp >= Duration THEN [s EXCEPT !.state = "passed"] ELSE s

\* update().
UpdateAt(s, t) ==
  LET held == t - s.first_zero_stamp
      gap == IF held >= Duration
             THEN Duration - (s.last_zero_stamp - s.first_zero_stamp)
             ELSE t - s.last_zero_stamp
  IN
  IF s.state # "pending" THEN s
  ELSE IF ~s.fault_active
       THEN IF t > TriggerWithin + Within THEN Fail(s) ELSE s
  ELSE IF s.first_zero_stamp = NoTime
       THEN IF t - s.fault_activation_stamp > Within THEN Fail(s) ELSE s
  ELSE IF gap > MaxGap THEN Fail(s)
  ELSE IF held >= Duration THEN [s EXCEPT !.state = "passed"] ELSE s

\* A command that ends the check, once the fault is active.
Offends(s, m) ==
  \/ m.kind = "nonfinite"
  \/ s.first_zero_stamp = NoTime /\ m.stamp - s.fault_activation_stamp > Within
  \/ s.first_zero_stamp # NoTime /\ m.kind = "moving"
  \/ s.first_zero_stamp # NoTime /\ m.stamp - s.last_zero_stamp > MaxGap

\* observe_message() with the fault active.
Judge(s, m) ==
  LET u == IF s.first_zero_stamp # NoTime THEN UpdateAt(s, m.stamp) ELSE s IN
  IF u.state # "pending" THEN u
  ELSE IF Offends(u, m) THEN Fail(u)
  ELSE IF m.kind = "zero"
       THEN [u EXCEPT !.last_zero_stamp = m.stamp,
                      !.first_zero_stamp = IF @ = NoTime THEN m.stamp ELSE @]
  ELSE u

\* (mutant: > for >=)
KeepOneMore(s, m) ==
  IF Len(s.pending_messages) > MaxPendingMessages THEN Fail(s)
  ELSE [s EXCEPT !.pending_messages = Append(@, m)]

\* observe_message() before the fault is known to be active.
Keep(s, m) ==
  IF Len(s.pending_messages) >= MaxPendingMessages THEN Fail(s)
  ELSE [s EXCEPT !.pending_messages = Append(@, m)]

ObserveMessage(s, m) ==
  IF s.state # "pending" THEN s
  ELSE IF s.fault_active THEN Judge(s, m) ELSE Keep(s, m)

\* The loop over the kept messages: those older than the activation are
\* skipped, and after a verdict observe_message() returns at once.
Replay(s, messages) ==
  LET after[k \in 0..Len(messages)] ==
        IF k = 0 THEN s
        ELSE IF messages[k].stamp < s.fault_activation_stamp THEN after[k - 1]
        ELSE ObserveMessage(after[k - 1], messages[k])
  IN after[Len(messages)]

\* observe_fault_event() for an activation of the fault.
ObserveActivation(s, stamp) ==
  IF s.state # "pending" \/ s.fault_active THEN s
  ELSE IF stamp < 0 \/ stamp > TriggerWithin THEN Fail(s)
  ELSE Replay([s EXCEPT !.fault_active = TRUE, !.fault_activation_stamp = stamp,
                        !.pending_messages = <<>>], s.pending_messages)

-----------------------------------------------------------------------------
\* An event from before the start may still be under way.
Init ==
  /\ assertion = [state |-> "pending", fault_active |-> FALSE,
                  fault_activation_stamp |-> NoTime, first_zero_stamp |-> NoTime,
                  last_zero_stamp |-> NoTime, pending_messages |-> <<>>]
  /\ channel \in {<<>>, <<-1>>}
  /\ events = 0
  /\ trace = <<>>
  /\ now = 0

Tick ==
  /\ now < MaxTime
  /\ now' = now + 1
  /\ UNCHANGED <<assertion, channel, events, trace>>

ActivateFault ==
  /\ events < MaxEvents
  /\ events' = events + 1
  /\ channel' = Append(channel, now)
  /\ UNCHANGED <<assertion, trace, now>>

\* FaultAssertionRunner::on_fault_event(), whenever the event gets there.
DeliverEvent ==
  /\ channel # <<>>
  /\ assertion' = ObserveActivation(assertion, Head(channel))
  /\ channel' = Tail(channel)
  /\ UNCHANGED <<events, trace, now>>

\* The subscription callback of the runner.
DeliverTwist(kind) ==
  LET m == [kind |-> kind, stamp |-> now] IN
  /\ Len(trace) < MaxMessages
  /\ assertion' = ObserveMessage(assertion, m)
  /\ trace' = Append(trace, m)
  /\ UNCHANGED <<channel, events, now>>

\* The runner's update timer; how late it is does not matter.
Update ==
  /\ assertion' = UpdateAt(assertion, now)
  /\ UNCHANGED <<channel, events, trace, now>>

Next ==
  \/ Tick
  \/ ActivateFault
  \/ DeliverEvent
  \/ \E kind \in {"zero", "moving", "nonfinite"} : DeliverTwist(kind)
  \/ Update

Spec == Init /\ [][Next]_vars

\* The clock advances and the update timer runs.
FairSpec == Spec /\ WF_vars(Tick) /\ WF_vars(Update)

-----------------------------------------------------------------------------
(* Properties.                                                             *)

\* The members of the object; a stamp is never ahead of the clock.
Assertion ==
  LET Stamp == 0..now \cup {NoTime} IN
  [state : {"pending", "passed", "failed"}, fault_active : BOOLEAN,
   fault_activation_stamp : Stamp, first_zero_stamp : Stamp, last_zero_stamp : Stamp,
   pending_messages : Seq(Twist)]

\* The members keep their types, and the queue of kept commands its limit.
TypeOK ==
  /\ assertion \in Assertion
  /\ Len(assertion.pending_messages) <= MaxPendingMessages
  /\ trace \in Seq(Twist)
  /\ now \in Nat

\* What the documentation promises, read off the commands alone: the first zero
\* command since time a, at position i, came within Within, after nothing but
\* finite motion; from there to the end of the hold there were only zero
\* commands, each followed by another, or by the end, within MaxGap.
StopsFrom(commands, a, i) ==
  LET end == commands[i].stamp + Duration
      InHold(k) == k \in i..Len(commands) /\ commands[k].stamp < end
      Followed(k) == InHold(k + 1) /\ commands[k + 1].stamp - commands[k].stamp <= MaxGap
  IN /\ commands[i].kind = "zero" /\ a <= commands[i].stamp
     /\ \A k \in 1..(i - 1) : a <= commands[k].stamp => commands[k].kind = "moving"
     /\ commands[i].stamp - a <= Within
     /\ \A k \in DOMAIN commands : InHold(k) =>
          /\ commands[k].kind = "zero"
          /\ end - commands[k].stamp <= MaxGap \/ Followed(k)

GoodStop(commands, a) == \E i \in DOMAIN commands : StopsFrom(commands, a, i)

\* However late the event, the updates and the replay were, a pass is earned by a
\* good stop, and an assertion that knows of the activation never fails on
\* commands that are, or go on to be, a good stop.
VerdictIsRight ==
  /\ assertion.state = "passed" =>
       /\ assertion.fault_activation_stamp <= TriggerWithin
       /\ GoodStop(trace, assertion.fault_activation_stamp)
  /\ assertion.state = "failed" /\ assertion.fault_active =>
       ~GoodStop(trace, assertion.fault_activation_stamp)

\* The assertion reaches a verdict if the clock and the timer go on, whatever
\* commands and events do or do not arrive.
Decided == <>(assertion.state # "pending")
=============================================================================
