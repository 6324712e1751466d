------------------------ MODULE TriggerServiceInjector ------------------------
(***************************************************************************)
(* TriggerServiceFaultInjector: a proxy service that delays a call, fails  *)
(* it, or calls the target service and waits for the answer.  It waits     *)
(* inside its own callback, while the answer is a callback of the same     *)
(* executor; the service and the client have a callback group each, so it  *)
(* matters how many threads the executor has.                              *)
(*                                                                         *)
(* A call is its number.  Threads are prompt: time does not pass while a   *)
(* callback can go on or a thread is free for one that is ready.  The      *)
(* client's request and the target are environment; the target may be      *)
(* slow, fail, crash and come back.                                        *)
(***************************************************************************)
EXTENDS Integers, Sequences

CONSTANTS
  WorkerCounts,      \* threads of the executor: 1 for rclcpp::spin()
  Delays,            \* values active_delay() may have
  DiscoveryTimeout,  \* of wait_for_service(), 100 ms
  AnswerTimeout,     \* of future.wait_for(), 2 s
  NoAnswer,          \* the future is not ready
  MaxTime,           \* bound on the clock
  MaxCalls,          \* bound on calls of the proxy
  MaxChanges         \* bound on changes of the faults and of the target

ASSUME TriggerAssumption ==
  /\ WorkerCounts \subseteq Nat \ {0}
  /\ Delays \subseteq Nat
  /\ {DiscoveryTimeout, AnswerTimeout, MaxTime, MaxCalls, MaxChanges} \subseteq Nat
  /\ NoAnswer \notin BOOLEAN

Calls == 1..MaxCalls

VARIABLES
  workers,   \* threads of the executor the node is spun by
  faults,    \* what active_delay() and active_bool("force_failure") return
  waiting,   \* calls proxy_service has not taken
  handler,   \* where on_request() is
  future,    \* the future of the request sent last
  pending,   \* requests client_ holds a promise for
  up,        \* the target service exists
  inbox,     \* requests the target has and has not answered
  answers,   \* answers no callback has taken
  replied,   \* history: the target's answers, with their time
  log,       \* history: the responses of the proxy
  now,
  changes    \* changes made, for the bound MaxChanges

external == <<up, inbox, answers, replied>>
vars == <<workers, faults, waiting, handler, future, pending, external, log, now,
          changes>>

\* The locals of on_request(): the deadline of the wait it is in, and, for the
\* properties, whether force_failure was on all along.
Handler == [step : {"delay", "discover", "answer"}, call : Calls, until : Nat,
            forced : BOOLEAN]
Idle == [step |-> "idle", forced |-> FALSE]

-----------------------------------------------------------------------------
\* (mutant: the service and the client share a callback group)
OneGroup == handler.step = "idle"

\* A thread is free for another callback.
FreeWorker == workers > 1 \/ handler.step = "idle"

Expired == handler.until <= now

\* (mutant: no return after the response is filled in)
RespondAndGoOn(success, message) ==
  /\ log' = Append(log, [call |-> handler.call, success |-> success,
                         message |-> message, at |-> now,
                         forced |-> handler.forced])
  /\ UNCHANGED handler

\* on_request() returns.
Respond(success, message) ==
  /\ log' = Append(log, [call |-> handler.call, success |-> success,
                         message |-> message, at |-> now,
                         forced |-> handler.forced])
  /\ handler' = Idle

GoTo(step, until) == handler' = [handler EXCEPT !.step = step, !.until = until]

Init ==
  /\ workers \in WorkerCounts
  /\ faults \in [delay : Delays, force : BOOLEAN]
  /\ waiting = <<>>
  /\ handler = Idle
  /\ future = NoAnswer
  /\ pending = {}
  /\ up \in BOOLEAN
  /\ inbox = {} /\ answers = {}
  /\ replied = {}
  /\ log = <<>>
  /\ now = 0
  /\ changes = 0

\* A callback can go on, or one is ready and a thread is free.
Ready ==
  \/ handler.step = "idle" /\ waiting # <<>>
  \/ handler.step # "idle" /\ Expired
  \/ handler.step = "discover" /\ up
  \/ handler.step = "answer" /\ future # NoAnswer
  \/ answers # {} /\ FreeWorker

Tick ==
  /\ now < MaxTime /\ ~Ready
  /\ now' = now + 1
  /\ UNCHANGED <<workers, faults, waiting, handler, future, pending, external, log,
                 changes>>

\* Someone calls proxy_service.
Call ==
  LET made == Len(log) + Len(waiting) + (IF handler.step = "idle" THEN 0 ELSE 1) IN
  /\ made < MaxCalls
  /\ waiting' = Append(waiting, made + 1)
  /\ UNCHANGED <<workers, faults, handler, future, pending, external, log, now, changes>>

\* on_request(), up to its sleep.
TakeRequest ==
  /\ handler.step = "idle" /\ waiting # <<>>
  /\ handler' = [step |-> "delay", call |-> Head(waiting),
                 until |-> now + faults.delay, forced |-> faults.force]
  /\ waiting' = Tail(waiting)
  /\ UNCHANGED <<workers, faults, future, pending, external, log, now, changes>>

\* After the sleep: fail the call, or look for the target.
ForceFailure ==
  /\ handler.step = "delay" /\ Expired
  /\ faults.force
  /\ Respond(FALSE, "failure_message")
  /\ UNCHANGED <<workers, faults, waiting, future, pending, external, now, changes>>

\* (mutant: force_failure not looked at)
LookUpAlways ==
  /\ handler.step = "delay" /\ Expired
  /\ GoTo("discover", now + DiscoveryTimeout)
  /\ UNCHANGED <<workers, faults, waiting, future, pending, external, log, now, changes>>

LookUp ==
  /\ handler.step = "delay" /\ Expired
  /\ ~faults.force
  /\ GoTo("discover", now + DiscoveryTimeout)
  /\ UNCHANGED <<workers, faults, waiting, future, pending, external, log, now, changes>>

\* (mutant: wait() for wait_for())
SendRequestWaitForever ==
  /\ handler.step = "discover" /\ up
  /\ GoTo("answer", now + MaxTime + 1)
  /\ future' = NoAnswer
  /\ pending' = pending \cup {handler.call}
  /\ inbox' = inbox \cup {handler.call}
  /\ UNCHANGED <<workers, faults, waiting, up, answers, replied, log, now, changes>>

\* wait_for_service() succeeds and async_send_request() sends.
SendRequest ==
  /\ handler.step = "discover" /\ up
  /\ GoTo("answer", now + AnswerTimeout)
  /\ future' = NoAnswer
  /\ pending' = pending \cup {handler.call}
  /\ inbox' = inbox \cup {handler.call}
  /\ UNCHANGED <<workers, faults, waiting, up, answers, replied, log, now, changes>>

Unavailable ==
  /\ handler.step = "discover" /\ ~up /\ Expired
  /\ Respond(FALSE, "unavailable")
  /\ UNCHANGED <<workers, faults, waiting, future, pending, external, now, changes>>

\* future.get(), or the wait is over.
ReturnAnswer ==
  /\ handler.step = "answer" /\ future # NoAnswer
  /\ Respond(future, "answer")
  /\ UNCHANGED <<workers, faults, waiting, future, pending, external, now, changes>>

\* The promise stays in client_.
TimeOut ==
  /\ handler.step = "answer" /\ future = NoAnswer /\ Expired
  /\ Respond(FALSE, "timeout")
  /\ UNCHANGED <<workers, faults, waiting, future, pending, external, now, changes>>

\* The executor hands an answer to client_, which fulfils the promise of that
\* request; only the request sent last has its future looked at.
TakeAnswer(a) ==
  /\ FreeWorker
  /\ answers' = answers \ {a}
  /\ pending' = pending \ {a.call}
  /\ future' = IF handler.step = "answer" /\ handler.call = a.call
               THEN a.success ELSE future
  /\ UNCHANGED <<workers, faults, waiting, handler, up, inbox, replied, log, now, changes>>

\* A timer or service of the node changes the faults.
ChangeFaults(f) ==
  /\ FreeWorker
  /\ changes < MaxChanges
  /\ changes' = changes + 1
  /\ faults' = f
  /\ handler' = [handler EXCEPT !.forced = @ /\ f.force]
  /\ UNCHANGED <<workers, waiting, future, pending, external, log, now>>

\* The target answers, crashes with what it has, and comes back.
Reply(n, success) ==
  /\ up /\ n \in inbox
  /\ inbox' = inbox \ {n}
  /\ answers' = answers \cup {[call |-> n, success |-> success]}
  /\ replied' = replied \cup {[call |-> n, success |-> success, at |-> now]}
  /\ UNCHANGED <<workers, faults, waiting, handler, future, pending, up, log, now, changes>>

SwitchTarget ==
  /\ changes < MaxChanges
  /\ changes' = changes + 1
  /\ up' = ~up
  /\ inbox' = {}
  /\ UNCHANGED <<workers, faults, waiting, handler, future, pending, answers, replied,
                 log, now>>

\* The end of the bounded behaviour.
Horizon == now = MaxTime /\ UNCHANGED vars

Handle ==
  \/ TakeRequest
  \/ ForceFailure
  \/ LookUp
  \/ SendRequest
  \/ Unavailable
  \/ ReturnAnswer
  \/ TimeOut

Next ==
  \/ Tick
  \/ Call
  \/ Handle
  \/ \E a \in answers : TakeAnswer(a)
  \/ \E f \in [delay : Delays, force : BOOLEAN] : ChangeFaults(f)
  \/ \E n \in inbox, success \in BOOLEAN : Reply(n, success)
  \/ SwitchTarget
  \/ Horizon

Spec == Init /\ [][Next]_vars

\* The clock and the threads go on; the target need not answer.
FairSpec ==
  /\ Spec
  /\ WF_vars(Tick) /\ WF_vars(Handle) /\ WF_vars(\E a \in answers : TakeAnswer(a))

-----------------------------------------------------------------------------
(* Properties.                                                             *)

\* Types; a call is in one place, and calls are taken in order.
TypeOK ==
  /\ workers \in WorkerCounts
  /\ faults \in [delay : Delays, force : BOOLEAN]
  /\ handler \in Handler \cup {Idle}
  /\ future \in BOOLEAN \cup {NoAnswer}
  /\ pending \subseteq Calls /\ inbox \subseteq pending
  /\ answers \subseteq [call : pending, success : BOOLEAN]
  /\ up \in BOOLEAN
  /\ LET started == Len(log) + (IF handler.step = "idle" THEN 0 ELSE 1) IN
     /\ \A k \in DOMAIN log : log[k].call = k
     /\ handler.step # "idle" => handler.call = Len(log) + 1
     /\ \A k \in DOMAIN waiting : waiting[k] = started + k
     /\ pending \subseteq 1..started

\* The proxy reports success only if the target did, to that very call and while
\* the proxy was waiting: a late answer to an earlier call that timed out is
\* never taken for the answer to a later one.  And never of a call during which
\* force_failure was on all along, from when it was taken to when it was answered.
SuccessIsGenuine ==
  \A k \in DOMAIN log : log[k].success =>
    /\ ~log[k].forced
    /\ \E r \in replied : /\ r.call = log[k].call /\ r.success
                          /\ r.at <= log[k].at /\ log[k].at <= r.at + AnswerTimeout

\* No call is reported as timed out that the target answered in time.
NoFalseTimeout ==
  \A k \in DOMAIN log : log[k].message = "timeout" =>
    \A r \in replied : r.call = log[k].call => log[k].at <= r.at

\* That much the two callback groups achieve, given two threads.
TwoThreadsForward == workers > 1 => NoFalseTimeout

\* Every call is answered, in the time its own waits and those of the calls before
\* it may take, whatever the target does.
Longest == DiscoveryTimeout + AnswerTimeout + CHOOSE d \in Delays : \A e \in Delays : e <= d

EveryCallAnswered ==
  \A n \in Calls :
    ( \E k \in DOMAIN waiting : /\ waiting[k] = n
                                /\ now + (k + 1) * Longest <= MaxTime )
    ~> Len(log) >= n
=============================================================================
