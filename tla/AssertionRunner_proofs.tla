------------------------ MODULE AssertionRunner_proofs ------------------------
(* Proofs about AssertionRunner, for every value of its constants.          *)
EXTENDS AssertionRunner, FiniteSetTheorems, SequenceTheorems, TLAPS

-----------------------------------------------------------------------------
(* The inductive invariant.  Announcements follow results through           *)
(* last_published_states_; an event assertion is judged on events that went *)
(* through the subscription; and a callback of this spin_some() still finds *)
(* the event or message it was made ready for.                              *)

LastIsResult == last = result

QueueWasSent == \A k \in DOMAIN queue : queue[k] \in sent

ReadyHolds ==
  /\ "events" \in ready => queue # <<>>
  /\ \A a \in HzIds : a \in ready => backlog[a] > 0

OutcomeAtEnd == outcome = "running" <=> phase # "done"

StampsFinite == \A a \in Assertions : IsFiniteSet(times[a])

IInv ==
  /\ TypeOK /\ LastIsResult /\ QueueWasSent /\ ReadyHolds /\ OutcomeAtEnd
  /\ StampsFinite /\ AnnouncedOnce /\ VerdictsJustified /\ RateWasMeasured /\ VerdictsAgree

-----------------------------------------------------------------------------
(* What the helpers return.                                                 *)

\* A within that is a number is an integer.
LEMMA WithinType ==
  ASSUME config \in Configs, NEW a \in Assertions
  PROVE  config[a].within \in Within
<1>1. config[a] \in EventAssertion \cup HzAssertion
  BY RunnerAssumption
<1> QED BY <1>1 DEF EventAssertion, HzAssertion

\* A KeepLast history stays within its depth, holds what it held or what came,
\* and is never empty after something came.
LEMMA EnqueueResult ==
  ASSUME NEW q \in Seq(Event), Len(q) <= Depth, NEW e \in Event
  PROVE  /\ Enqueue(q, e) \in Seq(Event)
         /\ Len(Enqueue(q, e)) <= Depth
         /\ Enqueue(q, e) # <<>>
         /\ \A k \in DOMAIN Enqueue(q, e) :
              Enqueue(q, e)[k] = e \/ \E j \in DOMAIN q : Enqueue(q, e)[k] = q[j]
<1> DEFINE all == Append(q, e)
<1>1. /\ all \in Seq(Event) /\ Len(all) = Len(q) + 1 /\ all # <<>>
      /\ \A k \in 1..Len(q) : all[k] = q[k]
      /\ all[Len(q) + 1] = e
      /\ Len(q) \in Nat /\ DOMAIN q = 1..Len(q)
  BY AppendProperties, LenProperties
<1>2. \A k \in 1..Len(all) : all[k] = e \/ \E j \in DOMAIN q : all[k] = q[j]
  BY <1>1
<1>3. Depth \in Nat \ {0}
  BY RunnerAssumption
<1>4. CASE Len(all) > Depth
  <2>1. /\ Tail(all) \in Seq(Event) /\ Len(Tail(all)) = Len(q)
        /\ \A k \in 1..Len(q) : Tail(all)[k] = all[k + 1]
    BY <1>1, HeadTailProperties
  <2>2. DOMAIN Tail(all) = 1..Len(q) /\ Tail(all) # <<>>
    BY <1>1, <1>3, <1>4, <2>1, LenProperties
  <2>3. Enqueue(q, e) = Tail(all)
    BY <1>4 DEF Enqueue
  <2>4. \A k \in 1..Len(q) : Tail(all)[k] = e \/ \E j \in DOMAIN q : Tail(all)[k] = q[j]
    BY <1>1, <1>2, <2>1
  <2> HIDE DEF all
  <2> QED BY <2>1, <2>2, <2>3, <2>4
<1>5. CASE ~(Len(all) > Depth)
  <2>1. Enqueue(q, e) = all
    BY <1>5 DEF Enqueue
  <2>2. DOMAIN all = 1..Len(all)
    BY <1>1, LenProperties
  <2> HIDE DEF all
  <2> QED BY <1>1, <1>2, <1>3, <1>5, <2>1, <2>2
<1> QED BY <1>4, <1>5

\* The update timer is called again later, and not in the past.
LEMMA NextCallType ==
  ASSUME NEW due \in Nat, now \in Nat
  PROVE  NextCall(due) \in Nat
<1>1. Period \in Nat \ {0}
  BY RunnerAssumption
<1>2. (due - now) % Period \in Nat
  BY <1>1
<1> QED BY <1>1, <1>2 DEF NextCall

-----------------------------------------------------------------------------
(* Verdicts.                                                                *)

\* r gives every assertion a verdict and changes none that was reached.
Settles(r) ==
  /\ r \in [Assertions -> Verdict]
  /\ \A a \in Assertions : result[a] # "pending" => r[a] = result[a]

LEMMA ObserveSettles ==
  ASSUME TypeOK, NEW e
  PROVE  /\ Settles(Observe(e))
         /\ \A a \in Assertions : Observe(e)[a] # result[a] =>
              a \in EventIds /\ Observe(e)[a] = "passed" /\ Matches(a, e)
<1>1. result \in [Assertions -> Verdict]
  BY DEF TypeOK
<1>2. /\ Observe(e) = [a \in Assertions |-> Observe(e)[a]]
      /\ \A a \in Assertions :
           Observe(e)[a] = IF a \in EventIds /\ result[a] = "pending" /\ Matches(a, e)
                           THEN "passed" ELSE result[a]
  BY DEF Observe
<1>3. \A a \in Assertions : Observe(e)[a] \in Verdict
  BY <1>1, <1>2 DEF Verdict
<1>4. Observe(e) \in [Assertions -> Verdict]
  BY <1>2, <1>3
<1> QED BY <1>2, <1>4 DEF Settles

LEMMA UpdatedSettles ==
  ASSUME TypeOK
  PROVE  /\ Settles(Updated)
         /\ \A a \in Assertions : Updated[a] # result[a] =>
              /\ result[a] = "pending"
              /\ \/ /\ a \in HzIds /\ Updated[a] = "passed"
                    /\ Cardinality(Recent(a)) >= config[a].count
                 \/ Updated[a] = "failed" /\ Overdue(a)
<1>1. result \in [Assertions -> Verdict]
  BY DEF TypeOK
<1>2. /\ Updated = [a \in Assertions |-> Updated[a]]
      /\ \A a \in Assertions :
           Updated[a] = IF result[a] # "pending" THEN result[a]
                        ELSE IF a \in HzIds /\ Cardinality(Recent(a)) >= config[a].count
                        THEN "passed"
                        ELSE IF Overdue(a) THEN "failed" ELSE "pending"
  BY DEF Updated
<1>3. \A a \in Assertions : Updated[a] \in Verdict
  BY <1>1, <1>2 DEF Verdict
<1>4. Updated \in [Assertions -> Verdict]
  BY <1>2, <1>3
<1> QED BY <1>2, <1>4 DEF Settles

\* Publishing what is new announces each verdict once, as it is reached.
LEMMA PublishResult ==
  ASSUME TypeOK, LastIsResult, AnnouncedOnce,
         NEW r, Settles(r), result' = r, PublishAssertionEvents(r)
  PROVE  /\ last' \in [Assertions -> Verdict]
         /\ announced' \in [Assertions -> Seq({"passed", "failed"})]
         /\ LastIsResult' /\ AnnouncedOnce'
<1>1. /\ result \in [Assertions -> Verdict] /\ last \in [Assertions -> Verdict]
      /\ announced \in [Assertions -> Seq({"passed", "failed"})]
      /\ r \in [Assertions -> Verdict]
  BY DEF TypeOK, Settles
<1>2. last' = [a \in Assertions |-> IF a \in News(r) THEN r[a] ELSE last[a]]
  BY DEF PublishAssertionEvents
<1>3. announced' = [a \in Assertions |-> IF a \in News(r) THEN Append(announced[a], r[a])
                                         ELSE announced[a]]
  BY DEF PublishAssertionEvents
<1>4. \A a \in Assertions : last'[a] = r[a]
  BY <1>1, <1>2 DEF News, Settles, LastIsResult
<1>5. last' = r
  BY <1>1, <1>2, <1>4
<1>6. ASSUME NEW a \in Assertions
      PROVE  announced'[a] = IF r[a] = "pending" THEN <<>> ELSE <<r[a]>>
  <2>1. announced[a] = IF result[a] = "pending" THEN <<>> ELSE <<result[a]>>
    BY DEF AnnouncedOnce
  <2>2. CASE a \in News(r)
    <3>1. announced[a] = <<>> /\ r[a] # "pending"
      BY <1>1, <2>1, <2>2 DEF News, Settles, LastIsResult
    <3>2. announced'[a] = Append(<<>>, r[a])
      BY <1>3, <2>2, <3>1
    <3> QED BY <3>1, <3>2
  <2>3. CASE a \notin News(r)
    <3>1. announced'[a] = announced[a] /\ r[a] = result[a]
      BY <1>1, <1>3, <2>3 DEF News, Settles, LastIsResult
    <3> QED BY <2>1, <3>1
  <2> QED BY <2>2, <2>3
<1>7. \A a \in Assertions : announced'[a] \in Seq({"passed", "failed"})
  <2>1. <<>> \in Seq({"passed", "failed"})
    BY EmptySeq
  <2>2. <<"passed">> \in Seq({"passed", "failed"}) /\ <<"failed">> \in Seq({"passed", "failed"})
    OBVIOUS
  <2>3. \A a \in Assertions : r[a] = "pending" \/ r[a] = "passed" \/ r[a] = "failed"
    BY <1>1 DEF Verdict
  <2>4. \A a \in Assertions : \/ announced'[a] = <<>>
                              \/ announced'[a] = <<"passed">>
                              \/ announced'[a] = <<"failed">>
    BY <1>6, <2>3
  <2> QED BY <2>1, <2>2, <2>4
<1>8. announced' \in [Assertions -> Seq({"passed", "failed"})]
  BY <1>3, <1>7
<1> QED BY <1>1, <1>5, <1>6, <1>8 DEF LastIsResult, AnnouncedOnce

\* While the run goes on, what was said of it stays true as verdicts settle.
LEMMA AgreeResult ==
  ASSUME TypeOK, VerdictsAgree, outcome = "running", outcome' = outcome,
         NEW r, Settles(r), result' = r,
         status' = status \/ status' = ScenarioState(r)
  PROVE  VerdictsAgree'
<1>1. result \in [Assertions -> Verdict] /\ r \in [Assertions -> Verdict]
  BY DEF TypeOK, Settles
<1>2. FinalResult(result)' = FinalResult(r)
  BY DEF FinalResult
<1>3. status' = status /\ status \in {"passed", "failed"} => FinalResult(r) = status
  BY <1>1 DEF FinalResult, Settles, VerdictsAgree, Verdict
<1>4. status' = ScenarioState(r) /\ status' \in {"passed", "failed"} => FinalResult(r) = status'
  BY <1>1 DEF FinalResult, ScenarioState, Verdict
<1> QED BY <1>2, <1>3, <1>4 DEF VerdictsAgree

-----------------------------------------------------------------------------
(* One lemma per action.                                                    *)

\* Of the startup events the subscription keeps the last ones.
LEMMA KeptResult ==
  ASSUME NEW s \in Seq(Event)
  PROVE  /\ Kept(s) \in Seq(Event) /\ Len(Kept(s)) <= Depth
         /\ \A k \in DOMAIN Kept(s) : \E j \in DOMAIN s : Kept(s)[k] = s[j]
<1>1. Len(s) \in Nat /\ DOMAIN s = 1..Len(s) /\ Depth \in Nat \ {0}
  BY LenProperties, RunnerAssumption
<1>2. CASE Len(s) > Depth
  <2> DEFINE first == Len(s) - Depth + 1
             tail == SubSeq(s, first, Len(s))
  <2>1. first \in Nat /\ 1 <= first /\ first <= Len(s) + 1
    BY <1>1, <1>2
  <2>2. /\ tail \in Seq(Event) /\ Len(tail) = Depth
        /\ \A k \in 1..Depth : tail[k] = s[first + k - 1]
    <3>1. \A i \in first..Len(s) : s[i] \in Event
      BY <1>1, <2>1, ElementOfSeq
    <3> QED BY <1>1, <1>2, <2>1, <3>1, SubSeqProperties
  <2>3. DOMAIN tail = 1..Depth
    BY <2>2, LenProperties
  <2>4. \A k \in 1..Depth : first + k - 1 \in DOMAIN s
    BY <1>1, <1>2
  <2>5. Kept(s) = tail
    BY <1>2 DEF Kept
  <2> HIDE DEF first, tail
  <2> QED BY <1>1, <2>2, <2>3, <2>4, <2>5
<1>3. CASE ~(Len(s) > Depth)
  BY <1>1, <1>3 DEF Kept
<1> QED BY <1>2, <1>3

LEMMA InitIInv == Init => IInv
<1> SUFFICES ASSUME Init PROVE IInv
  OBVIOUS
<1>1. PICK s \in Startups : queue = Kept(s) /\ sent = {s[k] : k \in DOMAIN s}
  BY DEF Init
<1>2. s \in Seq(Event)
  BY RunnerAssumption
<1>3. queue \in Seq(Event) /\ Len(queue) <= Depth /\ QueueWasSent
  BY <1>1, <1>2, KeptResult DEF QueueWasSent
<1>4. sent \subseteq Event
  BY <1>1, <1>2, LenProperties, ElementOfSeq
<1>5. announced \in [Assertions -> Seq({"passed", "failed"})]
  BY EmptySeq DEF Init
<1>6. TypeOK
  BY <1>3, <1>4, <1>5, RunnerAssumption DEF Init, TypeOK, Verdict
<1>7. LastIsResult /\ ReadyHolds /\ OutcomeAtEnd /\ StampsFinite /\ AnnouncedOnce
  BY FS_EmptySet DEF Init, LastIsResult, ReadyHolds, OutcomeAtEnd, StampsFinite, AnnouncedOnce
<1>8. VerdictsJustified /\ RateWasMeasured /\ VerdictsAgree
  BY DEF Init, VerdictsJustified, RateWasMeasured, VerdictsAgree, HzIds
<1> QED BY <1>3, <1>6, <1>7, <1>8 DEF IInv

\* As the clock advances, stamps and deadlines stay behind it.
LEMMA TickStep == IInv /\ Tick => IInv'
<1> SUFFICES ASSUME IInv, Tick PROVE IInv'
  OBVIOUS
<1>1. /\ now \in Nat /\ now' = now + 1
      /\ UNCHANGED <<config, runner, channels, phase, ready, wake, timerDue, outcome>>
  BY DEF IInv, TypeOK, Tick
<1>2. TypeOK'
  <2>1. [at : 0..now, n : Nat] \subseteq [at : 0..now', n : Nat]
    BY <1>1
  <2>2. times' \in [Assertions -> SUBSET [at : 0..now', n : Nat]]
    BY <1>1, <2>1 DEF IInv, TypeOK, runner
  <2> QED BY <1>1, <2>2 DEF IInv, TypeOK, runner, channels
<1>3. VerdictsJustified'
  <2> SUFFICES ASSUME NEW a \in Assertions
               PROVE  /\ (a \in EventIds)' /\ result'[a] = "passed" =>
                           (\E e \in sent : Matches(a, e))'
                      /\ result'[a] = "failed" =>
                           config'[a].within \notin {NoTime, NaN} /\ config'[a].within < now'
    BY DEF VerdictsJustified
  <2>1. config[a].within \in Within
    BY WithinType DEF IInv, TypeOK
  <2> QED BY <1>1, <2>1 DEF IInv, VerdictsJustified, runner, channels, EventIds, Matches, Within
<1>4. /\ LastIsResult' /\ QueueWasSent' /\ ReadyHolds' /\ OutcomeAtEnd'
      /\ AnnouncedOnce' /\ RateWasMeasured' /\ VerdictsAgree' /\ StampsFinite'
  BY <1>1 DEF IInv, StampsFinite, LastIsResult, QueueWasSent, ReadyHolds, OutcomeAtEnd,
     AnnouncedOnce, RateWasMeasured, VerdictsAgree, FinalResult, HzIds, runner, channels
<1> QED BY <1>2, <1>3, <1>4 DEF IInv

LEMMA PublishEventStep == \A e \in Event : IInv /\ PublishEvent(e) => IInv'
<1> SUFFICES ASSUME NEW e \in Event, IInv, PublishEvent(e) PROVE IInv'
  OBVIOUS
<1>1. /\ queue' = Enqueue(queue, e) /\ sent' = sent \cup {e}
      /\ UNCHANGED <<config, runner, backlog, loop>>
  BY DEF PublishEvent
<1>2. queue \in Seq(Event) /\ Len(queue) <= Depth
  BY DEF IInv, TypeOK
<1>3. /\ queue' \in Seq(Event) /\ Len(queue') <= Depth /\ queue' # <<>>
      /\ \A k \in DOMAIN queue' : queue'[k] = e \/ \E j \in DOMAIN queue : queue'[k] = queue[j]
  BY <1>1, <1>2, EnqueueResult
<1>4. TypeOK'
  BY <1>1, <1>3 DEF IInv, TypeOK, runner, loop
<1>5. QueueWasSent'
  BY <1>1, <1>3 DEF IInv, QueueWasSent
<1>6. VerdictsJustified'
  BY <1>1 DEF IInv, VerdictsJustified, EventIds, Matches, runner, loop
<1>7. /\ LastIsResult' /\ ReadyHolds' /\ OutcomeAtEnd'
      /\ AnnouncedOnce' /\ RateWasMeasured' /\ VerdictsAgree' /\ StampsFinite'
  BY <1>1, <1>3 DEF IInv, StampsFinite, LastIsResult, ReadyHolds, OutcomeAtEnd, AnnouncedOnce,
     RateWasMeasured, VerdictsAgree, FinalResult, HzIds, runner, loop
<1> QED BY <1>4, <1>5, <1>6, <1>7 DEF IInv

LEMMA PublishMessageStep == \A a \in Assertions : IInv /\ PublishMessage(a) => IInv'
<1> SUFFICES ASSUME NEW a \in Assertions, IInv, PublishMessage(a) PROVE IInv'
  OBVIOUS
<1>1. /\ backlog' = [backlog EXCEPT ![a] = IF @ < Depth THEN @ + 1 ELSE @]
      /\ UNCHANGED <<config, runner, queue, sent, loop>>
  BY DEF PublishMessage
<1>2. backlog \in [Assertions -> 0..Depth] /\ Depth \in Nat
  BY RunnerAssumption DEF IInv, TypeOK
<1>3. /\ backlog' \in [Assertions -> 0..Depth]
      /\ \A b \in Assertions : backlog[b] > 0 => backlog'[b] > 0
  BY <1>1, <1>2
<1>4. TypeOK'
  BY <1>1, <1>3 DEF IInv, TypeOK, runner, loop
<1>5. ReadyHolds'
  BY <1>1, <1>3 DEF IInv, ReadyHolds, HzIds, loop
<1>6. /\ LastIsResult' /\ QueueWasSent' /\ OutcomeAtEnd' /\ AnnouncedOnce'
      /\ VerdictsJustified' /\ RateWasMeasured' /\ VerdictsAgree' /\ StampsFinite'
  BY <1>1 DEF IInv, StampsFinite, LastIsResult, QueueWasSent, OutcomeAtEnd, AnnouncedOnce,
     VerdictsJustified, RateWasMeasured, VerdictsAgree, FinalResult, EventIds, HzIds, Matches,
     runner, loop
<1> QED BY <1>4, <1>5, <1>6 DEF IInv

\* The steps of the loop that touch neither events, messages nor verdicts.
LEMMA LoopStep == IInv /\ (Interrupted \/ SpinSome) => IInv'
<1> SUFFICES ASSUME IInv, Interrupted \/ SpinSome PROVE IInv'
  OBVIOUS
<1>1. UNCHANGED <<config, runner, channels, wake, timerDue, now>>
  BY DEF Interrupted, SpinSome
<1>2. TypeOK' /\ OutcomeAtEnd'
  <2>1. CASE Interrupted
    BY <1>1, <2>1 DEF IInv, TypeOK, OutcomeAtEnd, Interrupted, runner, channels
  <2>2. CASE SpinSome
    <3>1. ready' \subseteq {"timer", "events"} \cup Assertions
      BY <2>2 DEF SpinSome, HzIds
    <3> QED BY <1>1, <2>2, <3>1 DEF IInv, TypeOK, OutcomeAtEnd, SpinSome, runner, channels
  <2> QED BY <2>1, <2>2
<1>3. ReadyHolds'
  <2>1. CASE Interrupted
    BY <1>1, <2>1 DEF IInv, ReadyHolds, Interrupted, HzIds, channels
  <2>2. CASE SpinSome
    BY <1>1, <2>2, RunnerAssumption DEF ReadyHolds, SpinSome, HzIds, channels
  <2> QED BY <2>1, <2>2
<1>4. VerdictsAgree'
  BY <1>1 DEF IInv, OutcomeAtEnd, Interrupted, SpinSome, VerdictsAgree, FinalResult, runner
<1>5. /\ LastIsResult' /\ QueueWasSent' /\ AnnouncedOnce'
      /\ VerdictsJustified' /\ RateWasMeasured' /\ StampsFinite'
  BY <1>1 DEF IInv, StampsFinite, LastIsResult, QueueWasSent, AnnouncedOnce, VerdictsJustified,
     RateWasMeasured, EventIds, HzIds, Matches, runner, channels
<1> QED BY <1>2, <1>3, <1>4, <1>5 DEF IInv

\* The event at the front decides the pending assertions it matches.
LEMMA OnFaultEventStep == IInv /\ OnFaultEvent => IInv'
<1> SUFFICES ASSUME IInv, OnFaultEvent PROVE IInv'
  OBVIOUS
<1> DEFINE e == Head(queue)
           r == Observe(e)
<1>1. /\ phase = "spinning" /\ "events" \in ready /\ ready' = ready \ {"events"}
      /\ queue' = Tail(queue) /\ result' = r /\ PublishAssertionEvents(r)
      /\ UNCHANGED <<config, phase, wake, now, outcome, sent, made, status, times, backlog,
                     timerDue>>
  BY DEF OnFaultEvent, Run
<1>2. /\ TypeOK /\ queue \in Seq(Event) /\ queue # <<>>
      /\ outcome = "running" /\ result \in [Assertions -> Verdict]
  BY <1>1 DEF IInv, TypeOK, ReadyHolds, OutcomeAtEnd
<1>3. /\ e = queue[1] /\ 1 \in DOMAIN queue
      /\ queue' \in Seq(Event) /\ Len(queue') = Len(queue) - 1
      /\ \A k \in DOMAIN queue' : k + 1 \in DOMAIN queue /\ queue'[k] = queue[k + 1]
  <2>1. Len(queue) \in Nat \ {0} /\ DOMAIN queue = 1..Len(queue)
    BY <1>2, EmptySeq, LenProperties
  <2>2. /\ Tail(queue) \in Seq(Event) /\ Len(Tail(queue)) = Len(queue) - 1
        /\ \A k \in 1..Len(Tail(queue)) : Tail(queue)[k] = queue[k + 1]
    BY <1>2, HeadTailProperties
  <2>3. DOMAIN Tail(queue) = 1..(Len(queue) - 1)
    BY <2>2, LenProperties
  <2>4. Head(queue) = queue[1]
    BY <1>2 
  <2> QED BY <1>1, <2>1, <2>2, <2>3, <2>4
<1>4. e \in sent
  BY <1>3 DEF IInv, QueueWasSent
<1>5. /\ Settles(r)
      /\ \A a \in Assertions : r[a] # result[a] =>
           a \in EventIds /\ r[a] = "passed" /\ Matches(a, e)
  BY <1>2, ObserveSettles
<1> HIDE DEF e, r
<1>6. /\ last' \in [Assertions -> Verdict]
      /\ announced' \in [Assertions -> Seq({"passed", "failed"})]
      /\ LastIsResult' /\ AnnouncedOnce'
  BY <1>1, <1>2, <1>5, PublishResult DEF IInv
<1>7. TypeOK'
  <2>1. result' \in [Assertions -> Verdict]
    BY <1>1, <1>5 DEF Settles
  <2>2. Len(queue') <= Depth
    BY <1>2, <1>3, LenProperties, RunnerAssumption DEF TypeOK
  <2> QED BY <1>1, <1>2, <1>3, <1>6, <2>1, <2>2 DEF TypeOK
<1>8. QueueWasSent'
  BY <1>1, <1>3 DEF IInv, QueueWasSent
<1>9. ReadyHolds' /\ OutcomeAtEnd' /\ StampsFinite'
  BY <1>1 DEF IInv, ReadyHolds, OutcomeAtEnd, StampsFinite, HzIds
<1>10. VerdictsJustified'
  <2> SUFFICES ASSUME NEW a \in Assertions
               PROVE  /\ a \in EventIds /\ r[a] = "passed" => \E f \in sent : Matches(a, f)
                      /\ r[a] = "failed" =>
                           config[a].within \notin {NoTime, NaN} /\ config[a].within < now
    BY <1>1 DEF VerdictsJustified, EventIds, Matches
  <2>1. CASE r[a] = result[a]
    BY <2>1 DEF IInv, VerdictsJustified
  <2>2. CASE r[a] # result[a]
    BY <1>4, <1>5, <2>2
  <2> QED BY <2>1, <2>2
<1>11. RateWasMeasured'
  <2>1. \A a \in HzIds : a \in Assertions /\ a \notin EventIds
    BY DEF HzIds, EventIds
  <2>2. \A a \in HzIds : r[a] = result[a]
    BY <1>5, <2>1
  <2> QED BY <1>1, <2>2 DEF IInv, RateWasMeasured, HzIds
<1>12. VerdictsAgree'
  BY <1>1, <1>2, <1>5, AgreeResult DEF IInv
<1> QED BY <1>6, <1>7, <1>8, <1>9, <1>10, <1>11, <1>12 DEF IInv

\* A message adds one stamp; the stamps a rate was measured on stay.
LEMMA ObserveMessageStep == \A a \in Assertions : IInv /\ ObserveMessage(a) => IInv'
<1> SUFFICES ASSUME NEW a \in Assertions, IInv, ObserveMessage(a) PROVE IInv'
  OBVIOUS
<1>1. /\ phase = "spinning" /\ a \in ready /\ ready' = ready \ {a} /\ a \in HzIds
      /\ backlog' = [backlog EXCEPT ![a] = @ - 1]
      /\ times' = [times EXCEPT ![a] = @ \cup {Stamp(a)}]
      /\ UNCHANGED <<config, phase, wake, now, outcome, sent, made, result, last, announced,
                     status, queue, timerDue>>
  BY DEF ObserveMessage, Run
<1>2. /\ backlog \in [Assertions -> 0..Depth] /\ backlog[a] > 0 /\ Depth \in Nat
      /\ times \in [Assertions -> SUBSET [at : 0..now, n : Nat]] /\ now \in Nat
  BY <1>1, RunnerAssumption DEF IInv, TypeOK, ReadyHolds
<1>3. /\ backlog' \in [Assertions -> 0..Depth]
      /\ \A b \in Assertions : b # a => backlog'[b] = backlog[b]
  BY <1>1, <1>2
<1>4. Stamp(a) \in [at : 0..now, n : Nat]
  <2>1. Cardinality({m \in times[a] : m.at = now}) \in Nat
    <3>1. IsFiniteSet(times[a])
      BY DEF IInv, StampsFinite
    <3>2. IsFiniteSet({m \in times[a] : m.at = now})
      BY <3>1, FS_Subset
    <3> QED BY <3>2, FS_CardinalityType
  <2> QED BY <1>2, <2>1 DEF Stamp
<1>5. /\ times' \in [Assertions -> SUBSET [at : 0..now, n : Nat]]
      /\ times'[a] = times[a] \cup {Stamp(a)}
      /\ \A b \in Assertions : b # a => times'[b] = times[b]
  BY <1>1, <1>2, <1>4
<1>6. TypeOK'
  BY <1>1, <1>3, <1>5 DEF IInv, TypeOK
<1>7. StampsFinite'
  <2>1. IsFiniteSet(times[a] \cup {Stamp(a)})
    BY FS_AddElement DEF IInv, StampsFinite
  <2> QED BY <1>5, <2>1 DEF IInv, StampsFinite
<1>8. ReadyHolds'
  BY <1>1, <1>3, RunnerAssumption DEF IInv, ReadyHolds, HzIds
<1>9. RateWasMeasured'
  <2>1. \A b \in HzIds : times[b] \subseteq times'[b]
    BY <1>5 DEF HzIds
  <2> QED BY <1>1, <2>1 DEF IInv, RateWasMeasured, HzIds
<1>10. /\ LastIsResult' /\ QueueWasSent' /\ OutcomeAtEnd' /\ AnnouncedOnce'
       /\ VerdictsJustified' /\ VerdictsAgree'
  BY <1>1 DEF IInv, LastIsResult, QueueWasSent, OutcomeAtEnd, AnnouncedOnce, VerdictsJustified,
     VerdictsAgree, FinalResult, EventIds, Matches
<1> QED BY <1>6, <1>7, <1>8, <1>9, <1>10 DEF IInv

\* The stamps update() leaves lie within one window of each other, so that
\* enough of them make a rate.
LEMMA UpdateStep == IInv /\ Update => IInv'
<1> SUFFICES ASSUME IInv, Update PROVE IInv'
  OBVIOUS
<1> DEFINE r == Updated
<1>1. /\ phase = "spinning" /\ ready' = ready \ {"timer"}
      /\ timerDue' = NextCall(timerDue)
      /\ times' = [a \in Assertions |->
                     IF a \in HzIds /\ result[a] = "pending" THEN Recent(a) ELSE times[a]]
      /\ result' = r /\ PublishAssertionEvents(r) /\ status' = ScenarioState(r)
      /\ UNCHANGED <<config, phase, wake, now, outcome, sent, made, queue, backlog>>
  BY DEF Update, Run
<1>2. /\ TypeOK /\ outcome = "running" /\ result \in [Assertions -> Verdict]
      /\ times \in [Assertions -> SUBSET [at : 0..now, n : Nat]] /\ now \in Nat
  BY <1>1 DEF IInv, TypeOK, OutcomeAtEnd
<1>3. /\ Settles(r)
      /\ \A a \in Assertions : r[a] # result[a] =>
           /\ result[a] = "pending"
           /\ \/ /\ a \in HzIds /\ r[a] = "passed"
                 /\ Cardinality(Recent(a)) >= config[a].count
              \/ r[a] = "failed" /\ Overdue(a)
  BY <1>2, UpdatedSettles
<1> HIDE DEF r
<1>4. /\ last' \in [Assertions -> Verdict]
      /\ announced' \in [Assertions -> Seq({"passed", "failed"})]
      /\ LastIsResult' /\ AnnouncedOnce'
  BY <1>1, <1>2, <1>3, PublishResult DEF IInv
<1>5. \A a \in Assertions : Recent(a) \subseteq times[a] /\ times'[a] \subseteq times[a]
  BY <1>1 DEF Recent
<1>6. TypeOK'
  <2>1. result' \in [Assertions -> Verdict]
    BY <1>1, <1>3 DEF Settles
  <2>2. times' \in [Assertions -> SUBSET [at : 0..now, n : Nat]]
    BY <1>1, <1>2, <1>5
  <2>3. timerDue' \in Nat
    BY <1>1, <1>2, NextCallType DEF TypeOK
  <2>4. status' \in {"none", "running", "passed", "failed"}
    BY <1>1 DEF ScenarioState
  <2> QED BY <1>1, <1>2, <1>4, <2>1, <2>2, <2>3, <2>4 DEF TypeOK
<1>7. StampsFinite'
  BY <1>5, FS_Subset DEF IInv, StampsFinite
<1>8. QueueWasSent' /\ ReadyHolds' /\ OutcomeAtEnd'
  BY <1>1 DEF IInv, QueueWasSent, ReadyHolds, OutcomeAtEnd, HzIds
<1>9. VerdictsJustified'
  <2> SUFFICES ASSUME NEW a \in Assertions
               PROVE  /\ a \in EventIds /\ r[a] = "passed" => \E f \in sent : Matches(a, f)
                      /\ r[a] = "failed" =>
                           config[a].within \notin {NoTime, NaN} /\ config[a].within < now
    BY <1>1 DEF VerdictsJustified, EventIds, Matches
  <2>1. CASE r[a] = result[a]
    BY <2>1 DEF IInv, VerdictsJustified
  <2>2. CASE r[a] # result[a]
    <3>1. a \in EventIds => a \notin HzIds
      BY DEF EventIds, HzIds
    <3>2. Overdue(a) => config[a].within \notin {NoTime, NaN} /\ config[a].within < now
      <4>1. config[a].within \in Within
        BY <1>2, WithinType DEF TypeOK
      <4> QED BY <1>2, <4>1 DEF Overdue, Within
    <3> QED BY <1>3, <2>2, <3>1, <3>2
  <2> QED BY <2>1, <2>2
<1>10. RateWasMeasured'
  <2> SUFFICES ASSUME NEW a \in HzIds, r[a] = "passed"
               PROVE  \E measured \in SUBSET times'[a] :
                        /\ Cardinality(measured) >= config[a].count
                        /\ \A m, o \in measured : m.at - o.at <= config[a].window
    BY <1>1 DEF RateWasMeasured, HzIds
  <2>1. a \in Assertions
    BY DEF HzIds
  <2>2. CASE result[a] # "pending"
    <3>1. times'[a] = times[a] /\ result[a] = "passed"
      BY <1>1, <1>3, <2>1, <2>2 DEF Settles
    <3> QED BY <3>1 DEF IInv, RateWasMeasured
  <2>3. CASE result[a] = "pending"
    <3>1. times'[a] = Recent(a)
      BY <1>1, <2>1, <2>3
    <3>2. Cardinality(Recent(a)) >= config[a].count
      BY <1>3, <2>1, <2>3
    <3>3. ASSUME NEW m \in Recent(a), NEW o \in Recent(a)
          PROVE  m.at - o.at <= config[a].window
      <4>1. m.at \in 0..now /\ o.at \in 0..now /\ now - o.at <= config[a].window
        BY <1>2, <2>1 DEF Recent
      <4>2. config[a].window \in Int
        <5>1. config[a] \in EventAssertion \cup HzAssertion
          BY <1>2, <2>1, RunnerAssumption DEF TypeOK
        <5> QED BY <5>1 DEF EventAssertion, HzAssertion, HzIds
      <4> QED BY <1>2, <4>1, <4>2
    <3> QED BY <3>1, <3>2, <3>3
  <2> QED BY <2>2, <2>3
<1>11. VerdictsAgree'
  BY <1>1, <1>2, <1>3, AgreeResult DEF IInv
<1> QED BY <1>4, <1>6, <1>7, <1>8, <1>9, <1>10, <1>11 DEF IInv

\* The verdict of the loop is the one a report would give.
LEMMA CheckStep == IInv /\ Check => IInv'
<1> SUFFICES ASSUME IInv, Check PROVE IInv'
  OBVIOUS
<1>1. UNCHANGED <<config, runner, channels, ready, timerDue, now>>
  BY DEF Check
<1>2. TypeOK' /\ OutcomeAtEnd'
  <2>1. wake' \in Nat
    BY RunnerAssumption DEF IInv, TypeOK, Check
  <2>2. /\ phase' \in {"sleeping", "done"}
        /\ outcome' \in {"running", "passed", "failed", "timeout"}
        /\ outcome' = "running" <=> phase' # "done"
    BY DEF IInv, TypeOK, OutcomeAtEnd, Check
  <2> QED BY <1>1, <2>1, <2>2 DEF IInv, TypeOK, OutcomeAtEnd, runner, channels
<1>3. VerdictsAgree'
  <2>1. result' = result /\ status' = status /\ result \in [Assertions -> Verdict]
    BY <1>1 DEF IInv, TypeOK, runner
  <2>2. FinalResult(result)' = FinalResult(result)
    BY <2>1 DEF FinalResult
  <2>3. outcome = "running"
    BY DEF IInv, OutcomeAtEnd, Check
  <2>4. CASE /\ AssertionsComplete(result)
             /\ outcome' = IF AssertionsPassed(result) THEN "passed" ELSE "failed"
    BY <2>1, <2>2, <2>4 DEF IInv, VerdictsAgree, FinalResult, AssertionsComplete,
       AssertionsPassed, Verdict
  <2>5. CASE ~AssertionsComplete(result) /\ outcome' = "timeout"
    BY <2>1, <2>2, <2>5 DEF IInv, VerdictsAgree, AssertionsComplete
  <2>6. CASE outcome' = outcome
    BY <2>1, <2>2, <2>3, <2>6 DEF IInv, VerdictsAgree
  <2> QED BY <2>4, <2>5, <2>6 DEF Check
<1>4. /\ LastIsResult' /\ QueueWasSent' /\ ReadyHolds' /\ AnnouncedOnce'
      /\ VerdictsJustified' /\ RateWasMeasured' /\ StampsFinite'
  BY <1>1 DEF IInv, LastIsResult, QueueWasSent, ReadyHolds, AnnouncedOnce, VerdictsJustified,
     RateWasMeasured, StampsFinite, EventIds, HzIds, Matches, runner, channels
<1> QED BY <1>2, <1>3, <1>4 DEF IInv

-----------------------------------------------------------------------------
LEMMA NextIInv == IInv /\ [Next]_vars => IInv'
<1> SUFFICES ASSUME IInv, [Next]_vars PROVE IInv'
  OBVIOUS
<1>1. CASE Tick
  BY <1>1, TickStep
<1>2. CASE \E e \in Event : PublishEvent(e)
  BY <1>2, PublishEventStep
<1>3. CASE \E a \in Assertions : PublishMessage(a)
  BY <1>3, PublishMessageStep
<1>4. CASE Interrupted \/ SpinSome
  BY <1>4, LoopStep
<1>5. CASE OnFaultEvent
  BY <1>5, OnFaultEventStep
<1>6. CASE \E a \in Assertions : ObserveMessage(a)
  BY <1>6, ObserveMessageStep
<1>7. CASE Update
  BY <1>7, UpdateStep
<1>8. CASE Check
  BY <1>8, CheckStep
<1>9. CASE Done \/ UNCHANGED vars
  <2>1. UNCHANGED <<config, runner, channels, loop>>
    BY <1>9 DEF Done, vars
  <2>2. TypeOK' /\ LastIsResult' /\ QueueWasSent' /\ ReadyHolds' /\ OutcomeAtEnd' /\ StampsFinite'
    BY <2>1 DEF IInv, TypeOK, LastIsResult, QueueWasSent, ReadyHolds, OutcomeAtEnd, StampsFinite,
       HzIds, runner, channels, loop
  <2>3. AnnouncedOnce' /\ VerdictsJustified' /\ RateWasMeasured' /\ VerdictsAgree'
    BY <2>1 DEF IInv, AnnouncedOnce, VerdictsJustified, RateWasMeasured, VerdictsAgree,
       FinalResult, EventIds, HzIds, Matches, runner, channels, loop
  <2> QED BY <2>2, <2>3 DEF IInv
<1> QED BY <1>1, <1>2, <1>3, <1>4, <1>5, <1>6, <1>7, <1>8, <1>9 DEF Next

\* The inductive invariant holds in every reachable state.
LEMMA SpecIInv == Spec => []IInv
<1> QED BY InitIInv, NextIInv, PTL DEF Spec

\* Queues stay within their depth and every variable keeps its type, for any
\* assertions, events, deadlines and lateness of the loop.
THEOREM RunnerTypeCorrect == Spec => []TypeOK
<1>1. IInv => TypeOK
  BY DEF IInv
<1> QED BY SpecIInv, <1>1, PTL

\* Every verdict is published once, as it is reached, and no other is.
THEOREM VerdictsAnnouncedOnce == Spec => []AnnouncedOnce
<1>1. IInv => AnnouncedOnce
  BY DEF IInv
<1> QED BY SpecIInv, <1>1, PTL

\* No event assertion passes without its event, and none fails before its
\* deadline is over.
THEOREM VerdictsAreJustified == Spec => []VerdictsJustified
<1>1. IInv => VerdictsJustified
  BY DEF IInv
<1> QED BY SpecIInv, <1>1, PTL

\* A rate assertion passes only on enough messages within one window.
THEOREM RatesWereMeasured == Spec => []RateWasMeasured
<1>1. IInv => RateWasMeasured
  BY DEF IInv
<1> QED BY SpecIInv, <1>1, PTL

\* Status, outcome and report never contradict each other.
THEOREM StatusOutcomeReportAgree == Spec => []VerdictsAgree
<1>1. IInv => VerdictsAgree
  BY DEF IInv
<1> QED BY SpecIInv, <1>1, PTL
=============================================================================
