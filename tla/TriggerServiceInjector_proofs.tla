--------------------- MODULE TriggerServiceInjector_proofs ---------------------
(* Proofs about TriggerServiceInjector, for every value of its constants:    *)
(* any number of threads, calls, timeouts, and changes of faults and target. *)
EXTENDS TriggerServiceInjector, SequenceTheorems, TLAPS

-----------------------------------------------------------------------------
(* The inductive invariant.                                                 *)

Messages == {"failure_message", "unavailable", "answer", "timeout"}
Response == [call : Nat, success : BOOLEAN, message : Messages, at : Nat, forced : BOOLEAN]
Answer == [call : Nat, success : BOOLEAN, at : Nat]

\* Calls that were taken.
Started == Len(log) + (IF handler.step = "idle" THEN 0 ELSE 1)

Typed ==
  /\ log \in Seq(Response) /\ waiting \in Seq(Nat)
  /\ now \in Nat /\ changes \in Nat
  /\ replied \subseteq Answer
  /\ Started + Len(waiting) <= MaxCalls

\* The target sees a call once and answers it once, and no answer is older than
\* its request.
Exchange ==
  /\ \A r \in replied : r.call \in 1..Started /\ r.call \notin inbox /\ r.at <= now
  /\ \A a \in answers : \E r \in replied : r.call = a.call /\ r.success = a.success
  /\ \A a, b \in answers : a.call = b.call => a = b
  /\ handler.step \in {"delay", "discover"} =>
       /\ handler.call \notin pending
       /\ \A r \in replied : r.call # handler.call

\* What on_request() knows where it waits.  With a thread to spare the answer is
\* taken before time passes.
Waits ==
  /\ handler.step = "delay" /\ handler.forced => faults.force
  /\ handler.step \in {"discover", "answer"} => ~handler.forced
  /\ handler.step = "answer" =>
       /\ now <= handler.until /\ handler.until <= now + AnswerTimeout
       /\ \A r \in replied : r.call = handler.call => handler.until <= r.at + AnswerTimeout
       /\ future # NoAnswer =>
            \E r \in replied : r.call = handler.call /\ r.success = future
       /\ workers > 1 =>
            \A r \in replied : r.call = handler.call =>
              \/ future # NoAnswer
              \/ r.at = now /\ [call |-> r.call, success |-> r.success] \in answers

Past == \A k \in DOMAIN log : log[k].at <= now

IInv == TypeOK /\ Typed /\ Exchange /\ Waits /\ Past /\ SuccessIsGenuine /\ TwoThreadsForward

LEMMA Steps ==
  ASSUME TypeOK
  PROVE  /\ handler.step \in {"idle", "delay", "discover", "answer"}
         /\ handler.forced \in BOOLEAN
         /\ handler.step # "idle" =>
              handler \in Handler /\ handler.call \in Nat /\ handler.until \in Nat
<1>1. handler = Idle \/ handler \in Handler
  BY DEF TypeOK
<1>2. CASE handler = Idle
  BY <1>2 DEF Idle
<1>3. CASE handler \in Handler
  BY <1>3, TriggerAssumption DEF Handler, Calls
<1> QED BY <1>1, <1>2, <1>3

LEMMA Lengths ==
  ASSUME Typed
  PROVE  /\ Len(log) \in Nat /\ DOMAIN log = 1..Len(log) /\ Started \in Nat
         /\ Len(waiting) \in Nat /\ DOMAIN waiting = 1..Len(waiting)
         /\ \A k \in DOMAIN log : log[k] \in Response
<1>1. log \in Seq(Response) /\ waiting \in Seq(Nat)
  BY DEF Typed
<1>2. /\ Len(log) \in Nat /\ DOMAIN log = 1..Len(log)
      /\ Len(waiting) \in Nat /\ DOMAIN waiting = 1..Len(waiting)
      /\ \A k \in 1..Len(log) : log[k] \in Response
  BY <1>1, LenProperties, ElementOfSeq
<1>3. Started \in Nat
  BY <1>2 DEF Started
<1> QED BY <1>2, <1>3

LEMMA InitIInv == Init => IInv
<1> SUFFICES ASSUME Init PROVE IInv
  OBVIOUS
<1>1. /\ log = <<>> /\ waiting = <<>> /\ Len(<<>>) = 0
      /\ <<>> \in Seq(Response) /\ <<>> \in Seq(Nat)
  BY EmptySeq DEF Init
<1>2. DOMAIN <<>> = {}
  BY <1>1, LenProperties
<1>3. handler = Idle /\ handler.step = "idle" /\ handler.forced = FALSE
  BY DEF Init, Idle
<1>4. TypeOK
  BY <1>1, <1>2, <1>3 DEF Init, TypeOK
<1>5. Typed
  BY <1>1, <1>3, TriggerAssumption DEF Init, Typed, Started
<1>6. Exchange /\ Waits /\ Past
  BY <1>1, <1>2, <1>3 DEF Init, Exchange, Waits, Past
<1>7. SuccessIsGenuine /\ TwoThreadsForward
  BY <1>1, <1>2 DEF SuccessIsGenuine, TwoThreadsForward, NoFalseTimeout
<1> QED BY <1>4, <1>5, <1>6, <1>7 DEF IInv

-----------------------------------------------------------------------------
(* One lemma per action.                                                    *)

LEMMA TickStep == IInv /\ Tick => IInv'
<1> SUFFICES ASSUME IInv, Tick PROVE IInv'
  OBVIOUS
<1>1. TypeOK /\ Typed /\ Exchange /\ Waits /\ Past
  BY DEF IInv
<1>2. /\ now \in Nat /\ now' = now + 1 /\ ~Ready
      /\ UNCHANGED <<workers, faults, waiting, handler, future, pending, up, inbox, answers,
                     replied, log, changes>>
  BY <1>1 DEF Tick, Typed, external
<1>3. TypeOK' /\ Typed'
  BY <1>1, <1>2 DEF TypeOK, Typed, Started
<1>4. \A r \in replied : r \in Answer /\ r.at \in Nat /\ r.at <= now
  BY <1>1 DEF Typed, Exchange, Answer
<1>5. Exchange'
  BY <1>1, <1>2, <1>4 DEF Exchange, Started
<1>6. Waits'
  <2>1. ASSUME handler.step = "answer"
        PROVE  /\ now + 1 <= handler.until
               /\ handler.until <= (now + 1) + AnswerTimeout
               /\ workers > 1 => \A r \in replied : r.call # handler.call
    <3>1. handler.until \in Nat /\ AnswerTimeout \in Nat
      BY <1>1, <2>1, Steps, TriggerAssumption
    <3>2. now < handler.until /\ future = NoAnswer
      BY <1>2, <2>1, <3>1 DEF Ready, Expired
    <3>3. handler.until <= now + AnswerTimeout
      BY <1>1, <2>1 DEF Waits
    <3>4. ASSUME workers > 1, NEW r \in replied, r.call = handler.call PROVE FALSE
      <4>1. answers = {}
        BY <1>2, <3>4 DEF Ready, FreeWorker
      <4> QED BY <1>1, <2>1, <3>2, <3>4, <4>1 DEF Waits
    <3> QED BY <1>2, <3>1, <3>2, <3>3, <3>4
  <2> QED BY <1>1, <1>2, <2>1 DEF Waits
<1>7. Past'
  <2>1. \A k \in DOMAIN log : log[k].at \in Nat /\ log[k].at <= now
    BY <1>1, Lengths DEF Past, Response
  <2> QED BY <1>2, <2>1 DEF Past
<1>8. SuccessIsGenuine' /\ TwoThreadsForward'
  BY <1>2 DEF IInv, SuccessIsGenuine, TwoThreadsForward, NoFalseTimeout
<1> QED BY <1>3, <1>5, <1>6, <1>7, <1>8 DEF IInv

LEMMA CallStep == IInv /\ Call => IInv'
<1> SUFFICES ASSUME IInv, Call PROVE IInv'
  OBVIOUS
<1> DEFINE w == Len(waiting)
<1>1. TypeOK /\ Typed /\ Exchange /\ Waits /\ Past
  BY DEF IInv
<1>2. /\ w \in Nat /\ DOMAIN waiting = 1..w /\ Len(log) \in Nat /\ Started \in Nat
      /\ waiting \in Seq(Nat)
  BY <1>1, Lengths DEF Typed
<1>3. /\ Started + w < MaxCalls /\ waiting' = Append(waiting, (Started + w) + 1)
      /\ UNCHANGED <<workers, faults, handler, future, pending, up, inbox, answers,
                     replied, log, now, changes>>
  <2>1. Len(log) + w + (IF handler.step = "idle" THEN 0 ELSE 1) = Started + w
    BY <1>2 DEF Started
  <2> QED BY <2>1 DEF Call, external
<1>4. /\ waiting' \in Seq(Nat) /\ Len(waiting') = w + 1 /\ DOMAIN waiting' = 1..(w + 1)
      /\ \A k \in 1..w : waiting'[k] = waiting[k]
      /\ waiting'[w + 1] = (Started + w) + 1
  <2>1. (Started + w) + 1 \in Nat
    BY <1>2
  <2>2. waiting' \in Seq(Nat)
    BY <1>2, <1>3, <2>1, AppendProperties
  <2>3. DOMAIN waiting' = 1..Len(waiting')
    BY <2>2, LenProperties
  <2> QED BY <1>2, <1>3, <2>1, <2>2, <2>3, AppendProperties
<1>5. Started' = Started
  BY <1>3 DEF Started
<1>6. TypeOK'
  <2>1. \A k \in DOMAIN waiting' : waiting'[k] = Started + k
    <3>1. \A k \in 1..w : waiting[k] = Started + k
      BY <1>1, <1>2 DEF TypeOK, Started
    <3>2. \A k \in 1..(w + 1) : k \in 1..w \/ k = w + 1
      BY <1>2
    <3>3. waiting'[w + 1] = Started + (w + 1)
      BY <1>2, <1>4
    <3>4. \A k \in 1..w : waiting'[k] = Started + k
      BY <1>4, <3>1
    <3> QED BY <1>4, <3>2, <3>3, <3>4
  <2> QED BY <1>1, <1>3, <2>1 DEF TypeOK, Started
<1>7. Typed'
  BY <1>1, <1>2, <1>3, <1>4, <1>5, TriggerAssumption DEF Typed
<1>8. Exchange' /\ Waits' /\ Past'
  BY <1>1, <1>3, <1>5 DEF Exchange, Waits, Past
<1>9. SuccessIsGenuine' /\ TwoThreadsForward'
  BY <1>3 DEF IInv, SuccessIsGenuine, TwoThreadsForward, NoFalseTimeout
<1> QED BY <1>6, <1>7, <1>8, <1>9 DEF IInv

LEMMA TakeRequestStep == IInv /\ TakeRequest => IInv'
<1> SUFFICES ASSUME IInv, TakeRequest PROVE IInv'
  OBVIOUS
<1> DEFINE w == Len(waiting)
<1>1. TypeOK /\ Typed /\ Exchange /\ Waits /\ Past
  BY DEF IInv
<1>2. /\ w \in Nat /\ DOMAIN waiting = 1..w /\ Len(log) \in Nat
      /\ waiting \in Seq(Nat) /\ now \in Nat
  BY <1>1, Lengths DEF Typed
<1>3. /\ handler.step = "idle" /\ waiting # <<>>
      /\ handler' = [step |-> "delay", call |-> Head(waiting),
                     until |-> now + faults.delay, forced |-> faults.force]
      /\ waiting' = Tail(waiting)
      /\ UNCHANGED <<workers, faults, future, pending, up, inbox, answers,
                     replied, log, now, changes>>
  BY DEF TakeRequest, external
<1>4. /\ w > 0 /\ waiting' \in Seq(Nat) /\ Len(waiting') = w - 1
      /\ DOMAIN waiting' = 1..(w - 1) /\ \A k \in 1..(w - 1) : waiting'[k] = waiting[k + 1]
  <2>1. waiting' \in Seq(Nat) /\ Len(waiting') = w - 1
        /\ \A k \in 1..Len(waiting') : waiting'[k] = waiting[k + 1]
    BY <1>2, <1>3, HeadTailProperties
  <2>2. w > 0
    BY <1>2, <1>3, EmptySeq
  <2>3. DOMAIN waiting' = 1..Len(waiting')
    BY <2>1, LenProperties
  <2> QED BY <2>1, <2>2, <2>3
<1>5. /\ Started = Len(log) /\ \A k \in 1..w : waiting[k] = Len(log) + k
      /\ Len(log) + w <= MaxCalls /\ pending \subseteq 1..Len(log)
  <2>1. Started = Len(log)
    BY <1>2, <1>3 DEF Started
  <2>2. \A k \in 1..w : waiting[k] = Started + k
    BY <1>1, <1>2 DEF TypeOK, Started
  <2>3. pending \subseteq 1..Started
    BY <1>1 DEF TypeOK, Started
  <2> QED BY <1>1, <2>1, <2>2, <2>3 DEF Typed
<1>6. Head(waiting) = Len(log) + 1
  <2>1. Head(waiting) = waiting[1]
    OBVIOUS
  <2> QED BY <1>2, <1>4, <1>5, <2>1
<1>7. Started' = Len(log) + 1 /\ handler'.step = "delay" /\ handler'.call = Len(log) + 1
  BY <1>3, <1>6 DEF Started
<1>8. handler' \in Handler
  <2>1. faults.delay \in Nat /\ faults.force \in BOOLEAN
    BY <1>1, TriggerAssumption DEF TypeOK
  <2>2. Head(waiting) \in Calls
    BY <1>2, <1>4, <1>5, <1>6, TriggerAssumption DEF Calls
  <2> QED BY <1>2, <1>3, <2>1, <2>2 DEF Handler
<1>9. TypeOK'
  <2>1. \A k \in DOMAIN waiting' : waiting'[k] = (Len(log) + 1) + k
    <3> SUFFICES ASSUME NEW k \in 1..(w - 1) PROVE waiting[k + 1] = (Len(log) + 1) + k
      BY <1>4
    <3>1. k + 1 \in 1..w
      BY <1>2, <1>4
    <3>2. waiting[k + 1] = Len(log) + (k + 1)
      BY <1>5, <3>1
    <3> QED BY <1>2, <3>2
  <2>2. pending \subseteq 1..(Len(log) + 1)
    BY <1>2, <1>5
  <2>3. Len(log') + (IF handler'.step = "idle" THEN 0 ELSE 1) = Len(log) + 1
    BY <1>3, <1>7
  <2>4. \A k \in DOMAIN log : log[k].call = k
    BY <1>1 DEF TypeOK
  <2> QED BY <1>1, <1>3, <1>7, <1>8, <2>1, <2>2, <2>3, <2>4 DEF TypeOK
<1>10. Typed'
  BY <1>1, <1>2, <1>3, <1>4, <1>5, <1>7, TriggerAssumption DEF Typed
<1>11. Exchange'
  <2>1. \A r \in replied : r.call \in 1..Len(log) /\ r.call \notin inbox /\ r.at <= now
    BY <1>1, <1>5 DEF Exchange
  <2>2. \A r \in replied : r.call \in 1..(Len(log) + 1) /\ r.call # Len(log) + 1
    BY <1>2, <2>1
  <2>3. Len(log) + 1 \notin pending
    BY <1>2, <1>5
  <2> QED BY <1>1, <1>3, <1>7, <2>1, <2>2, <2>3 DEF Exchange
<1>12. Waits' /\ Past'
  BY <1>1, <1>3, <1>7 DEF Waits, Past
<1>13. SuccessIsGenuine' /\ TwoThreadsForward'
  BY <1>3 DEF IInv, SuccessIsGenuine, TwoThreadsForward, NoFalseTimeout
<1> QED BY <1>9, <1>10, <1>11, <1>12, <1>13 DEF IInv

\* on_request() returns, with a response that is right.
LEMMA RespondStep ==
  ASSUME NEW success \in BOOLEAN, NEW message \in Messages,
         IInv, handler.step # "idle", Respond(success, message),
         UNCHANGED <<workers, faults, waiting, future, pending, external, now, changes>>,
         success => /\ ~handler.forced
                    /\ \E r \in replied : /\ r.call = handler.call /\ r.success
                                          /\ r.at <= now /\ now <= r.at + AnswerTimeout,
         message = "timeout" /\ workers > 1 =>
           \A r \in replied : r.call = handler.call => now <= r.at
  PROVE  IInv'
<1> DEFINE response == [call |-> handler.call, success |-> success, message |-> message,
                        at |-> now, forced |-> handler.forced]
<1> DEFINE m == Len(log)
<1>1. TypeOK /\ Typed /\ Exchange /\ Waits /\ Past
  BY DEF IInv
<1>2. /\ m \in Nat /\ DOMAIN log = 1..m /\ log \in Seq(Response) /\ now \in Nat
      /\ \A k \in DOMAIN log : log[k] \in Response
  BY <1>1, Lengths DEF Typed
<1>3. /\ log' = Append(log, response) /\ handler' = Idle
      /\ handler'.step = "idle" /\ handler'.forced = FALSE
      /\ UNCHANGED <<workers, faults, waiting, future, pending, up, inbox, answers,
                     replied, now, changes>>
  BY DEF Respond, Idle, external
<1>4. response \in Response /\ response.call = m + 1
  <2>1. handler.call = m + 1
    BY <1>1 DEF TypeOK
  <2>2. handler.forced \in BOOLEAN
    BY <1>1, Steps
  <2> QED BY <1>2, <2>1, <2>2 DEF Response
<1>5. /\ log' \in Seq(Response) /\ Len(log') = m + 1
      /\ \A k \in 1..m : log'[k] = log[k]
      /\ log'[m + 1] = response
  <2>1. response \in Response /\ log \in Seq(Response) /\ log' = Append(log, response)
    BY <1>2, <1>3, <1>4
  <2> HIDE DEF response
  <2>2. Len(log') = m + 1 /\ log'[m + 1] = response
    BY <2>1, AppendProperties
  <2>3. log' \in Seq(Response) /\ \A k \in 1..m : log'[k] = log[k]
    BY <2>1, AppendProperties
  <2> QED BY <2>2, <2>3
<1>6. \A k \in DOMAIN log' : \/ k \in DOMAIN log /\ log'[k] = log[k]
                             \/ k = m + 1 /\ log'[k] = response
  <2>1. DOMAIN log' = 1..(m + 1)
    BY <1>5, LenProperties
  <2> QED BY <1>2, <1>5, <2>1
<1>7. Started = m + 1 /\ Started' = Started
  BY <1>2, <1>3, <1>5 DEF Started
<1>8. TypeOK'
  <2>1. \A k \in DOMAIN log' : log'[k].call = k
    BY <1>1, <1>4, <1>6 DEF TypeOK
  <2>2. Len(log') + (IF handler'.step = "idle" THEN 0 ELSE 1) = Started
    BY <1>2, <1>3, <1>5, <1>7
  <2>3. (\A k \in DOMAIN waiting : waiting[k] = Started + k) /\ pending \subseteq 1..Started
    BY <1>1 DEF TypeOK, Started
  <2> QED BY <1>1, <1>3, <2>1, <2>2, <2>3 DEF TypeOK
<1>9. Typed'
  BY <1>1, <1>3, <1>5, <1>7 DEF Typed
<1>10. Exchange' /\ Waits'
  BY <1>1, <1>3, <1>7 DEF Exchange, Waits
<1>11. Past'
  BY <1>1, <1>2, <1>3, <1>6 DEF Past
<1>12. SuccessIsGenuine'
  <2>1. SuccessIsGenuine
    BY DEF IInv
  <2> QED BY <1>3, <1>6, <2>1 DEF SuccessIsGenuine
<1>13. TwoThreadsForward'
  <2>1. TwoThreadsForward
    BY DEF IInv
  <2> QED BY <1>3, <1>6, <2>1 DEF TwoThreadsForward, NoFalseTimeout
<1> QED BY <1>8, <1>9, <1>10, <1>11, <1>12, <1>13 DEF IInv

LEMMA RespondSteps ==
  IInv /\ (ForceFailure \/ Unavailable \/ ReturnAnswer \/ TimeOut) => IInv'
<1>1. ASSUME IInv, ForceFailure PROVE IInv'
  BY <1>1, RespondStep DEF ForceFailure, Messages
<1>2. ASSUME IInv, Unavailable PROVE IInv'
  BY <1>2, RespondStep DEF Unavailable, Messages
<1>3. ASSUME IInv, ReturnAnswer PROVE IInv'
  <2>1. TypeOK /\ Typed /\ Exchange /\ Waits
    BY <1>3 DEF IInv
  <2>2. /\ handler.step = "answer" /\ future # NoAnswer /\ Respond(future, "answer")
        /\ UNCHANGED <<workers, faults, waiting, future, pending, external, now, changes>>
    BY <1>3 DEF ReturnAnswer
  <2>3. future \in BOOLEAN
    BY <2>1, <2>2 DEF TypeOK
  <2>4. ASSUME future
        PROVE  /\ ~handler.forced
               /\ \E r \in replied : /\ r.call = handler.call /\ r.success
                                     /\ r.at <= now /\ now <= r.at + AnswerTimeout
    <3>1. PICK r \in replied : r.call = handler.call /\ r.success = future
      BY <2>1, <2>2 DEF Waits
    <3>2. r.at <= now
      BY <2>1 DEF Exchange
    <3>3. now <= handler.until /\ handler.until <= r.at + AnswerTimeout
      BY <2>1, <2>2, <3>1 DEF Waits
    <3>4. now \in Nat /\ handler.until \in Nat /\ r.at \in Nat /\ AnswerTimeout \in Nat
      BY <2>1, <2>2, Steps, TriggerAssumption DEF Typed, Answer
    <3>5. now <= r.at + AnswerTimeout
      BY <3>3, <3>4
    <3>6. ~handler.forced
      BY <2>1, <2>2 DEF Waits
    <3> QED BY <2>4, <3>1, <3>2, <3>5, <3>6
  <2> QED BY <1>3, <2>2, <2>3, <2>4, RespondStep DEF Messages
<1>4. ASSUME IInv, TimeOut PROVE IInv'
  <2>1. /\ handler.step = "answer" /\ future = NoAnswer /\ Respond(FALSE, "timeout")
        /\ UNCHANGED <<workers, faults, waiting, future, pending, external, now, changes>>
    BY <1>4 DEF TimeOut
  <2>2. Waits /\ now \in Nat
    BY <1>4 DEF IInv, Typed
  <2>3. workers > 1 => \A r \in replied : r.call = handler.call => now <= r.at
    <3> SUFFICES ASSUME workers > 1, NEW r \in replied, r.call = handler.call
                 PROVE  now <= r.at
      OBVIOUS
    <3>1. r.at = now
      BY <2>1, <2>2 DEF Waits
    <3> QED BY <2>2, <3>1
  <2> QED BY <1>4, <2>1, <2>3, RespondStep DEF Messages
<1> QED BY <1>1, <1>2, <1>3, <1>4

\* The handler goes on to its next wait.
LEMMA GoToTyped ==
  ASSUME TypeOK, handler.step # "idle", NEW until \in Nat,
         NEW step \in {"delay", "discover", "answer"}, GoTo(step, until)
  PROVE  /\ handler' \in Handler /\ handler'.step = step /\ handler'.until = until
         /\ handler'.call = handler.call /\ handler'.forced = handler.forced
BY Steps DEF GoTo, Handler

LEMMA LookUpStep == IInv /\ LookUp => IInv'
<1> SUFFICES ASSUME IInv, LookUp PROVE IInv'
  OBVIOUS
<1>1. TypeOK /\ Typed /\ Exchange /\ Waits /\ Past
  BY DEF IInv
<1>2. /\ handler.step = "delay" /\ ~faults.force /\ GoTo("discover", now + DiscoveryTimeout)
      /\ UNCHANGED <<workers, faults, waiting, future, pending, up, inbox, answers,
                     replied, log, now, changes>>
  BY DEF LookUp, external
<1>3. /\ handler' \in Handler /\ handler'.step = "discover"
      /\ handler'.call = handler.call /\ handler'.forced = handler.forced
  <2>1. now + DiscoveryTimeout \in Nat
    BY <1>1, TriggerAssumption DEF Typed
  <2> QED BY <1>1, <1>2, <2>1, GoToTyped
<1>4. Started' = Started
  BY <1>2, <1>3 DEF Started
<1>5. ~handler.forced
  BY <1>1, <1>2 DEF Waits
<1>6. TypeOK' /\ Typed'
  BY <1>1, <1>2, <1>3, <1>4 DEF TypeOK, Typed
<1>7. Exchange' /\ Waits' /\ Past'
  BY <1>1, <1>2, <1>3, <1>4, <1>5 DEF Exchange, Waits, Past
<1>8. SuccessIsGenuine' /\ TwoThreadsForward'
  BY <1>2 DEF IInv, SuccessIsGenuine, TwoThreadsForward, NoFalseTimeout
<1> QED BY <1>6, <1>7, <1>8 DEF IInv

LEMMA SendRequestStep == IInv /\ SendRequest => IInv'
<1> SUFFICES ASSUME IInv, SendRequest PROVE IInv'
  OBVIOUS
<1>1. TypeOK /\ Typed /\ Exchange /\ Waits /\ Past
  BY DEF IInv
<1>2. /\ handler.step = "discover" /\ GoTo("answer", now + AnswerTimeout)
      /\ future' = NoAnswer
      /\ pending' = pending \cup {handler.call} /\ inbox' = inbox \cup {handler.call}
      /\ UNCHANGED <<workers, faults, waiting, up, answers, replied, log, now, changes>>
  BY DEF SendRequest
<1>3. now \in Nat /\ AnswerTimeout \in Nat /\ Len(log) \in Nat
  BY <1>1, Lengths, TriggerAssumption DEF Typed
<1>4. /\ handler' \in Handler /\ handler'.step = "answer"
      /\ handler'.call = handler.call /\ handler'.forced = handler.forced
      /\ handler'.until = now + AnswerTimeout
  <2>1. now + AnswerTimeout \in Nat
    BY <1>3
  <2> QED BY <1>1, <1>2, <2>1, GoToTyped
<1>5. handler.call \in Calls /\ handler.call = Len(log) + 1 /\ Started = Len(log) + 1
  BY <1>1, <1>2, Steps DEF TypeOK, Handler, Started
<1>6. Started' = Started
  BY <1>2, <1>4 DEF Started
<1>7. /\ \A r \in replied : r.call # handler.call
      /\ ~handler.forced
  BY <1>1, <1>2 DEF Exchange, Waits
<1>8. TypeOK'
  <2>1. pending' \subseteq Calls /\ inbox' \subseteq pending'
    BY <1>1, <1>2, <1>5 DEF TypeOK
  <2>2. answers' \subseteq [call : pending', success : BOOLEAN]
    BY <1>1, <1>2 DEF TypeOK
  <2>3. pending' \subseteq 1..Started
    <3>1. pending \subseteq 1..Started
      BY <1>1 DEF TypeOK, Started
    <3>2. handler.call \in 1..Started
      <4>1. Len(log) + 1 \in 1..(Len(log) + 1)
        BY <1>3
      <4> QED BY <1>5, <4>1
    <3> QED BY <1>2, <3>1, <3>2
  <2>4. Len(log') + (IF handler'.step = "idle" THEN 0 ELSE 1) = Started
    BY <1>6 DEF Started
  <2>5. (\A k \in DOMAIN waiting : waiting[k] = Started + k)
        /\ (\A k \in DOMAIN log : log[k].call = k)
    BY <1>1 DEF TypeOK, Started
  <2> QED BY <1>1, <1>2, <1>4, <1>5, <2>1, <2>2, <2>3, <2>4, <2>5 DEF TypeOK
<1>9. Typed' /\ Past'
  BY <1>1, <1>2, <1>6 DEF Typed, Past
<1>10. Exchange'
  BY <1>1, <1>2, <1>4, <1>6, <1>7 DEF Exchange
<1>11. Waits'
  BY <1>2, <1>3, <1>4, <1>7 DEF Waits
<1>12. SuccessIsGenuine' /\ TwoThreadsForward'
  BY <1>2 DEF IInv, SuccessIsGenuine, TwoThreadsForward, NoFalseTimeout
<1> QED BY <1>8, <1>9, <1>10, <1>11, <1>12 DEF IInv

LEMMA TakeAnswerStep == ASSUME NEW a \in answers, IInv, TakeAnswer(a) PROVE IInv'
<1>1. TypeOK /\ Typed /\ Exchange /\ Waits /\ Past
  BY DEF IInv
<1>2. /\ answers' = answers \ {a} /\ pending' = pending \ {a.call}
      /\ future' = IF handler.step = "answer" /\ handler.call = a.call
                   THEN a.success ELSE future
      /\ UNCHANGED <<workers, faults, waiting, handler, up, inbox, replied, log, now, changes>>
  BY DEF TakeAnswer
<1>3. a.call \in pending /\ a.success \in BOOLEAN /\ a.success # NoAnswer
  BY <1>1, TriggerAssumption DEF TypeOK
<1>4. PICK ra \in replied : ra.call = a.call /\ ra.success = a.success
  BY <1>1 DEF Exchange
<1>5. Started' = Started
  BY <1>2 DEF Started
<1>6. TypeOK'
  <2>1. \A b \in answers' : b \in [call : pending', success : BOOLEAN]
    <3> SUFFICES ASSUME NEW b \in answers, b # a
                 PROVE  b \in [call : pending \ {a.call}, success : BOOLEAN]
      BY <1>2
    <3>1. b \in [call : pending, success : BOOLEAN]
      BY <1>1 DEF TypeOK
    <3>2. b.call # a.call
      BY <1>1 DEF Exchange
    <3> QED BY <3>1, <3>2
  <2>2. inbox' \subseteq pending'
    <3>1. a.call \notin inbox
      BY <1>1, <1>4 DEF Exchange
    <3> QED BY <1>1, <1>2, <3>1 DEF TypeOK
  <2>3. pending' \subseteq pending
    BY <1>2
  <2>4. future' \in BOOLEAN \cup {NoAnswer}
    BY <1>1, <1>2, <1>3 DEF TypeOK
  <2>5. pending' \subseteq 1..Started /\ pending' \subseteq Calls
    BY <1>1, <2>3 DEF TypeOK, Started
  <2> QED BY <1>1, <1>2, <2>1, <2>2, <2>4, <2>5 DEF TypeOK, Started
<1>7. Typed' /\ Past'
  BY <1>1, <1>2, <1>5 DEF Typed, Past
<1>8. Exchange'
  BY <1>1, <1>2, <1>5 DEF Exchange
<1>9. Waits'
  <2>1. CASE handler.step = "answer" /\ handler.call = a.call
    BY <1>1, <1>2, <1>3, <1>4, <2>1 DEF Waits
  <2>2. CASE ~(handler.step = "answer" /\ handler.call = a.call)
    <3>1. future' = future
      BY <1>2, <2>2
    <3>2. ASSUME handler.step = "answer", NEW r \in replied, r.call = handler.call,
                 [call |-> r.call, success |-> r.success] \in answers
          PROVE  [call |-> r.call, success |-> r.success] \in answers'
      BY <1>2, <2>2, <3>2
    <3> QED BY <1>1, <1>2, <3>1, <3>2 DEF Waits
  <2> QED BY <2>1, <2>2
<1>10. SuccessIsGenuine' /\ TwoThreadsForward'
  BY <1>2 DEF IInv, SuccessIsGenuine, TwoThreadsForward, NoFalseTimeout
<1> QED BY <1>6, <1>7, <1>8, <1>9, <1>10 DEF IInv

LEMMA ChangeFaultsStep ==
  ASSUME NEW f \in [delay : Delays, force : BOOLEAN], IInv, ChangeFaults(f) PROVE IInv'
<1>1. TypeOK /\ Typed /\ Exchange /\ Waits /\ Past
  BY DEF IInv
<1>2. /\ changes' = changes + 1 /\ faults' = f /\ f.force \in BOOLEAN
      /\ handler' = [handler EXCEPT !.forced = @ /\ f.force]
      /\ UNCHANGED <<workers, waiting, future, pending, up, inbox, answers, replied, log,
                     now>>
  BY DEF ChangeFaults, external
<1>3. /\ handler' \in Handler \cup {Idle}
      /\ handler'.step = handler.step
      /\ handler'.forced <=> (handler.forced /\ f.force)
      /\ handler.step # "idle" => /\ handler'.call = handler.call
                                  /\ handler'.until = handler.until
  <2>1. CASE handler = Idle
    BY <1>2, <2>1 DEF Idle
  <2>2. CASE handler \in Handler
    BY <1>2, <2>2 DEF Handler
  <2> QED BY <1>1, <2>1, <2>2 DEF TypeOK
<1>4. Started' = Started
  BY <1>2, <1>3 DEF Started
<1>5. TypeOK' /\ Typed'
  BY <1>1, <1>2, <1>3, <1>4 DEF TypeOK, Typed
<1>6. Exchange' /\ Waits' /\ Past'
  BY <1>1, <1>2, <1>3, <1>4 DEF Exchange, Waits, Past
<1>7. SuccessIsGenuine' /\ TwoThreadsForward'
  BY <1>2 DEF IInv, SuccessIsGenuine, TwoThreadsForward, NoFalseTimeout
<1> QED BY <1>5, <1>6, <1>7 DEF IInv

LEMMA ReplyStep ==
  ASSUME NEW n \in inbox, NEW success \in BOOLEAN, IInv, Reply(n, success) PROVE IInv'
<1> DEFINE reply == [call |-> n, success |-> success, at |-> now]
<1>1. TypeOK /\ Typed /\ Exchange /\ Waits /\ Past
  BY DEF IInv
<1>2. /\ inbox' = inbox \ {n}
      /\ answers' = answers \cup {[call |-> n, success |-> success]}
      /\ replied' = replied \cup {reply}
      /\ UNCHANGED <<workers, faults, waiting, handler, future, pending, up, log, now,
                     changes>>
  BY DEF Reply
<1>3. /\ n \in pending /\ n \in 1..Started /\ n \in Nat /\ now \in Nat
      /\ Started \in Nat
  <2>1. n \in pending /\ pending \subseteq 1..Started
    BY <1>1 DEF TypeOK, Started
  <2> QED BY <1>1, <2>1, Lengths DEF Typed
<1>4. Started' = Started
  BY <1>2 DEF Started
<1>5. \A r \in replied : r.call # n
  BY <1>1 DEF Exchange
<1>6. TypeOK'
  BY <1>1, <1>2, <1>3 DEF TypeOK
<1>7. Typed'
  BY <1>1, <1>2, <1>3, <1>4 DEF Typed, Answer
<1>8. Exchange'
  <2>1. \A r \in replied' : r.call \in 1..Started /\ r.call \notin inbox' /\ r.at <= now
    BY <1>1, <1>2, <1>3, <1>5 DEF Exchange
  <2>2. \A b \in answers' : \E r \in replied' : r.call = b.call /\ r.success = b.success
    <3> SUFFICES ASSUME NEW b \in answers'
                 PROVE  \E r \in replied' : r.call = b.call /\ r.success = b.success
      OBVIOUS
    <3>1. CASE b \in answers
      BY <1>1, <1>2, <3>1 DEF Exchange
    <3>2. CASE b = [call |-> n, success |-> success]
      <4>1. reply \in replied' /\ reply.call = b.call /\ reply.success = b.success
        BY <1>2, <3>2
      <4> QED BY <4>1
    <3> QED BY <1>2, <3>1, <3>2
  <2>3. \A b \in answers : b.call # n
    BY <1>1, <1>5 DEF Exchange
  <2>4. \A b, c \in answers' : b.call = c.call => b = c
    BY <1>1, <1>2, <2>3 DEF Exchange
  <2>5. handler.step \in {"delay", "discover"} =>
          handler.call \notin pending /\ \A r \in replied' : r.call # handler.call
    BY <1>1, <1>2, <1>3 DEF Exchange
  <2> QED BY <1>2, <1>4, <2>1, <2>2, <2>4, <2>5 DEF Exchange
<1>9. Waits'
  <2>1. ASSUME handler.step = "answer", NEW r \in replied', r.call = handler.call
        PROVE  /\ handler.until <= r.at + AnswerTimeout
               /\ workers > 1 =>
                    \/ future # NoAnswer
                    \/ r.at = now /\ [call |-> r.call, success |-> r.success] \in answers'
    BY <1>1, <1>2, <2>1 DEF Waits
  <2>2. handler.step = "answer" /\ future # NoAnswer =>
          \E r \in replied' : r.call = handler.call /\ r.success = future
    BY <1>1, <1>2 DEF Waits
  <2> QED BY <1>1, <1>2, <2>1, <2>2 DEF Waits
<1>10. Past' /\ SuccessIsGenuine'
  BY <1>1, <1>2 DEF IInv, Past, SuccessIsGenuine
<1>11. TwoThreadsForward'
  BY <1>1, <1>2 DEF IInv, Past, TwoThreadsForward, NoFalseTimeout
<1> QED BY <1>6, <1>7, <1>8, <1>9, <1>10, <1>11 DEF IInv

LEMMA SwitchTargetStep == IInv /\ SwitchTarget => IInv'
<1> SUFFICES ASSUME IInv, SwitchTarget PROVE IInv'
  OBVIOUS
<1>1. TypeOK /\ Typed /\ Exchange /\ Waits /\ Past
  BY DEF IInv
<1>2. /\ changes' = changes + 1 /\ up' = ~up /\ inbox' = {}
      /\ UNCHANGED <<workers, faults, waiting, handler, future, pending, answers,
                     replied, log, now>>
  BY DEF SwitchTarget
<1>3. TypeOK' /\ Typed'
  BY <1>1, <1>2 DEF TypeOK, Typed, Started
<1>4. Exchange' /\ Waits' /\ Past'
  BY <1>1, <1>2 DEF Exchange, Waits, Past, Started
<1>5. SuccessIsGenuine' /\ TwoThreadsForward'
  BY <1>2 DEF IInv, SuccessIsGenuine, TwoThreadsForward, NoFalseTimeout
<1> QED BY <1>3, <1>4, <1>5 DEF IInv

LEMMA StutterStep == IInv /\ UNCHANGED vars => IInv'
BY DEF IInv, vars, external, TypeOK, Typed, Started, Exchange, Waits, Past,
       SuccessIsGenuine, TwoThreadsForward, NoFalseTimeout, FreeWorker

-----------------------------------------------------------------------------
(* The theorems.                                                            *)

LEMMA NextIInv == IInv /\ [Next]_vars => IInv'
<1> SUFFICES ASSUME IInv, [Next]_vars PROVE IInv'
  OBVIOUS
<1>1. CASE Tick
  BY <1>1, TickStep
<1>2. CASE Call
  BY <1>2, CallStep
<1>3. CASE Handle
  BY <1>3, TakeRequestStep, RespondSteps, LookUpStep, SendRequestStep DEF Handle
<1>4. CASE \E a \in answers : TakeAnswer(a)
  BY <1>4, TakeAnswerStep
<1>5. CASE \E f \in [delay : Delays, force : BOOLEAN] : ChangeFaults(f)
  BY <1>5, ChangeFaultsStep
<1>6. CASE \E n \in inbox, success \in BOOLEAN : Reply(n, success)
  BY <1>6, ReplyStep
<1>7. CASE SwitchTarget
  BY <1>7, SwitchTargetStep
<1>8. CASE Horizon \/ UNCHANGED vars
  BY <1>8, StutterStep DEF Horizon
<1> QED BY <1>1, <1>2, <1>3, <1>4, <1>5, <1>6, <1>7, <1>8 DEF Next

LEMMA SpecIInv == Spec => []IInv
BY InitIInv, NextIInv, PTL DEF Spec

\* A call is in one place, calls are taken and answered in the order they were
\* made, each once, and the node waits for no answer the target was not asked for.
THEOREM ProxyInOrder == Spec => []TypeOK
<1>1. IInv => TypeOK
  BY DEF IInv
<1> QED BY <1>1, SpecIInv, PTL

\* on_request() reports success only for a call the target answered with success
\* no longer than the answer timeout ago, and for no call that force_failure
\* covered from start to end, however many answers come late.
THEOREM SuccessIsAlwaysGenuine == Spec => []SuccessIsGenuine
<1>1. IInv => SuccessIsGenuine
  BY DEF IInv
<1> QED BY <1>1, SpecIInv, PTL

\* With a second thread for the client's callback group, no call the target
\* answered before the timeout is reported as timed out.
THEOREM TwoThreadsAlwaysForward == Spec => []TwoThreadsForward
<1>1. IInv => TwoThreadsForward
  BY DEF IInv
<1> QED BY <1>1, SpecIInv, PTL
=============================================================================
