-------------------------- MODULE DelayedForwarding --------------------------
(***************************************************************************)
(* The data path every topic injector but TF shares: a message is dropped, *)
(* published at once, or held in delayed_ until its release time, and a    *)
(* wall timer of FlushPeriod publishes what is due from the front of       *)
(* delayed_.  OdomFaultInjector, ScanFaultInjector, ImuFaultInjector,      *)
(* JointStateFaultInjector and PointCloudFaultInjector are this module;    *)
(* TwistInjector implements it and adds the fault registry.                *)
(*                                                                         *)
(* Faults come and go between two messages, so each message may find any   *)
(* drop probability and any active_delay().  What a fault does to the      *)
(* payload does not concern this module: a message is its arrival number.  *)
(***************************************************************************)
EXTENDS Integers, Sequences

CONSTANTS
  Delays,       \* values active_delay() may have
  FlushPeriod,  \* period of timer_
  MaxLate,      \* how late the executor may run a ready timer
  MaxTime,      \* bound on the clock
  MaxMessages   \* bound on the messages that arrive

ASSUME ForwardingAssumption ==
  /\ Delays \subseteq Nat
  /\ FlushPeriod \in Nat \ {0}
  /\ MaxLate \in Nat /\ MaxTime \in Nat /\ MaxMessages \in Nat

VARIABLES
  now,        \* the node's clock
  arrived,    \* history: how many messages the subscription delivered
  dropped,    \* history: the messages should_drop() discarded
  delayed,    \* delayed_
  published,  \* history: what pub_ published, with the time it was published
  flushDue    \* next call of timer_

vars == <<now, arrived, dropped, delayed, published, flushDue>>

Held == [n : Nat, release : Nat]
Published == [n : Nat, release : Nat, at : Nat, via : {"callback", "flush"}]

-----------------------------------------------------------------------------
\* (mutant: the front item goes, due or not)
DueOrFirst(queue, t) == IF Len(queue) > 0 THEN 1 ELSE 0

\* (mutant: if for while)
DueAtMostOne(queue, t) == IF Len(queue) > 0 /\ queue[1].release <= t THEN 1 ELSE 0

\* (mutant: < for <=)
DueStrictly(queue, t) ==
  CHOOSE k \in 0..Len(queue) :
    /\ \A j \in 1..k : queue[j].release < t
    /\ k < Len(queue) => t <= queue[k + 1].release

\* How many items flush_delayed() takes: it stops at the first one that is not
\* due, whatever lies behind it.
Due(queue, t) ==
  CHOOSE k \in 0..Len(queue) :
    /\ \A j \in 1..k : queue[j].release <= t
    /\ k < Len(queue) => t < queue[k + 1].release

\* (mutant: no pop_front())
RestKeepsFront(queue, k) == queue

\* delayed_ after k calls of pop_front().
Rest(queue, k) == SubSeq(queue, k + 1, Len(queue))

\* (mutant: push_front() for push_back())
HoldInFront(queue, m) == <<m>> \o queue

Hold(queue, m) == Append(queue, m)

\* (mutant: how late it is for the time)
PublishLateness(m, t, via) ==
  [n |-> m.n, release |-> m.release, at |-> m.release - t, via |-> via]

Publish(m, t, via) == [n |-> m.n, release |-> m.release, at |-> t, via |-> via]

\* rcl_timer_call(): one period on, or the first multiple not in the past.
NextCall(due, t) ==
  IF due + FlushPeriod >= t THEN due + FlushPeriod
  ELSE t + ((due - t) % FlushPeriod)

-----------------------------------------------------------------------------
Init ==
  /\ now = 0
  /\ arrived = 0
  /\ dropped = {}
  /\ delayed = <<>>
  /\ published = <<>>
  /\ flushDue = FlushPeriod

Tick ==
  /\ now < MaxTime
  /\ now < flushDue + MaxLate
  /\ now' = now + 1
  /\ UNCHANGED <<arrived, dropped, delayed, published, flushDue>>

\* The subscription callback (on_odom() and its like), by its three exits.
Drop ==
  /\ arrived < MaxMessages
  /\ arrived' = arrived + 1
  /\ dropped' = dropped \cup {arrived + 1}
  /\ UNCHANGED <<now, delayed, published, flushDue>>

Delay(d) ==
  /\ arrived < MaxMessages
  /\ d > 0
  /\ arrived' = arrived + 1
  /\ delayed' = Hold(delayed, [n |-> arrived + 1, release |-> now + d])
  /\ UNCHANGED <<now, dropped, published, flushDue>>

Forward ==
  /\ arrived < MaxMessages
  /\ arrived' = arrived + 1
  /\ published' = Append(published,
                         Publish([n |-> arrived + 1, release |-> now], now, "callback"))
  /\ UNCHANGED <<now, dropped, delayed, flushDue>>

FlushDelayed ==
  LET k == Due(delayed, now) IN
  /\ flushDue <= now
  /\ published' = published \o [j \in 1..k |-> Publish(delayed[j], now, "flush")]
  /\ delayed' = Rest(delayed, k)
  /\ flushDue' = NextCall(flushDue, now)
  /\ UNCHANGED <<now, arrived, dropped>>

\* The end of the bounded behaviour: nothing but the clock stops it.
Horizon == now = MaxTime /\ UNCHANGED vars

Next ==
  \/ Tick
  \/ Drop
  \/ \E d \in Delays : Delay(d)
  \/ Forward
  \/ FlushDelayed
  \/ Horizon

Spec == Init /\ [][Next]_vars

FairSpec == Spec /\ WF_vars(Tick) /\ WF_vars(FlushDelayed)

-----------------------------------------------------------------------------
(* Properties.                                                             *)

\* Types, and the clock is never further than MaxLate past the timer.
TypeOK ==
  /\ now \in Nat
  /\ arrived \in 0..MaxMessages
  /\ dropped \subseteq 1..arrived
  /\ delayed \in Seq(Held)
  /\ published \in Seq(Published)
  /\ flushDue \in Nat
  /\ now <= flushDue + MaxLate

\* Where message n is: dropped, at a position of the queue, or at one of the
\* output.
InQueue(n) == {j \in DOMAIN delayed : delayed[j].n = n}
InOutput(n) == {j \in DOMAIN published : published[j].n = n}

\* No loss and no duplicate: each message that arrived is in exactly one of the
\* three places, once, and nothing else was ever published.
ExactlyOnce ==
  /\ \A j \in DOMAIN delayed : delayed[j].n \in 1..arrived
  /\ \A j \in DOMAIN published : published[j].n \in 1..arrived
  /\ \A j, k \in DOMAIN delayed : delayed[j].n = delayed[k].n => j = k
  /\ \A j, k \in DOMAIN published : published[j].n = published[k].n => j = k
  /\ \A n \in 1..arrived :
       /\ n \in dropped \/ InQueue(n) # {} \/ InOutput(n) # {}
       /\ n \in dropped => InQueue(n) = {} /\ InOutput(n) = {}
       /\ InQueue(n) # {} => InOutput(n) = {}

\* Held messages leave in the order they came.  Only a message that was not
\* held, because its delay was zero, overtakes an older one.
InOrder ==
  /\ \A j, k \in DOMAIN delayed : j < k => delayed[j].n < delayed[k].n
  /\ \A j, k \in DOMAIN published :
       j < k /\ published[j].via = "flush" => published[j].n < published[k].n
  /\ \A j \in DOMAIN published : \A k \in DOMAIN delayed :
       published[j].via = "flush" => published[j].n < delayed[k].n

\* delay_ms is a lower bound, also when the flush is late.
NeverEarly == \A j \in DOMAIN published : published[j].release <= published[j].at

\* And nearly an upper one.  A message waits for those queued before it, and
\* then for at most one period and the executor's lateness.
NotMuchLater ==
  \A k \in DOMAIN delayed :
    \E j \in 1..k : now < delayed[j].release + FlushPeriod + MaxLate

\* What is held is published, whatever arrives in the meantime, if the clock
\* reaches its time and one more period.
EveryHeldIsPublished ==
  \A n \in 1..MaxMessages :
    ( \E k \in DOMAIN delayed :
        /\ delayed[k].n = n
        /\ \A j \in 1..k : delayed[j].release + FlushPeriod + MaxLate <= MaxTime )
    ~> InOutput(n) # {}
=============================================================================
