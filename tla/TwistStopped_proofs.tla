------------------------- MODULE TwistStopped_proofs -------------------------
(* Proofs about TwistStopped.                                              *)
EXTENDS TwistStopped, SequenceTheorems, WellFoundedInduction, TLAPS

(***************************************************************************)
(* The inductive invariant.  What a command means for the verdict depends  *)
(* on the commands before it, so the invariant says it of the first n of   *)
(* all the commands observed: n is all of them between two callbacks, and  *)
(* the number already replayed inside observe_fault_event().               *)
(***************************************************************************)
InOrder(commands, t) ==
  \A k \in 1..Len(commands) :
    /\ commands[k].stamp <= t
    /\ \A j \in k..Len(commands) : commands[k].stamp <= commands[j].stamp

\* Command i is the first that stops the robot after the activation at time a.
FirstZero(commands, a, i) ==
  /\ commands[i].kind = "zero" /\ a <= commands[i].stamp
  /\ \A k \in 1..(i - 1) : a <= commands[k].stamp => commands[k].kind = "moving"

\* The hold so far: first_zero_stamp and last_zero_stamp are its ends.
Holds(s, commands, n, i) ==
  /\ FirstZero(commands, s.fault_activation_stamp, i)
  /\ s.first_zero_stamp = commands[i].stamp
  /\ s.last_zero_stamp = commands[n].stamp
  /\ commands[i].stamp - s.fault_activation_stamp <= Within
  /\ \A k \in i..n : /\ commands[k].kind = "zero"
                     /\ commands[k].stamp < commands[i].stamp + Duration
  /\ \A k \in i..(n - 1) : commands[k + 1].stamp - commands[k].stamp <= MaxGap

Waits(s, commands, n) ==
  /\ s.first_zero_stamp = NoTime
  /\ \A k \in 1..n :
       s.fault_activation_stamp <= commands[k].stamp => commands[k].kind = "moving"

\* A good stop that the commands to come cannot undo.
Settled(commands, a, t) ==
  \E i \in 1..Len(commands) :
    StopsFrom(commands, a, i) /\ commands[i].stamp + Duration <= t

\* Three reasons why no commands to come can make a good stop.
TooLate(commands, a, t) ==
  /\ a + Within < t
  /\ \A k \in 1..Len(commands) :
       a <= commands[k].stamp /\ commands[k].stamp <= a + Within
         => commands[k].kind # "zero"

Invalid(commands, a) ==
  \E k \in 1..Len(commands) :
    /\ commands[k].kind = "nonfinite" /\ a <= commands[k].stamp
    /\ \A j \in 1..(k - 1) : a <= commands[j].stamp => commands[j].kind = "moving"

Lapses(commands, end, k, t) ==
  /\ MaxGap < end - commands[k].stamp
  /\ MaxGap < t - commands[k].stamp
  /\ k + 1 \in 1..Len(commands) => MaxGap < commands[k + 1].stamp - commands[k].stamp

Broken(commands, a, t) ==
  \E i \in 1..Len(commands) :
    /\ FirstZero(commands, a, i)
    /\ \E k \in i..Len(commands) :
         /\ commands[k].stamp < commands[i].stamp + Duration
         /\ \/ commands[k].kind # "zero"
            \/ Lapses(commands, commands[i].stamp + Duration, k, t)

Doomed(commands, a, t) ==
  TooLate(commands, a, t) \/ Invalid(commands, a) \/ Broken(commands, a, t)

Right(s, commands, n, t) ==
  /\ s.state = "pending" /\ s.fault_active =>
       /\ s.fault_activation_stamp \in 0..TriggerWithin
       /\ \/ Waits(s, commands, n)
          \/ \E i \in 1..n : Holds(s, commands, n, i)
  /\ s.state = "passed" =>
       /\ s.fault_activation_stamp \in 0..TriggerWithin
       /\ Settled(commands, s.fault_activation_stamp, t)
  /\ s.state = "failed" /\ s.fault_active =>
       /\ s.fault_activation_stamp \in 0..TriggerWithin
       /\ Doomed(commands, s.fault_activation_stamp, t)

\* Before the activation is known, every command observed is kept.
Kept ==
  assertion.state = "pending" /\ ~assertion.fault_active =>
    /\ assertion.pending_messages = trace
    /\ assertion.fault_activation_stamp = NoTime
    /\ assertion.first_zero_stamp = NoTime
    /\ assertion.last_zero_stamp = NoTime

IInv ==
  /\ TypeOK
  /\ channel \in Seq(-1..now)
  /\ InOrder(trace, now)
  /\ Kept
  /\ Right(assertion, trace, Len(trace), now)

-----------------------------------------------------------------------------
(* What the verdicts mean.                                                  *)

\* The limits of the assertion are numbers.
LEMMA Limits ==
  /\ TriggerWithin \in Nat /\ Within \in Nat /\ Duration \in Nat \ {0} /\ MaxGap \in Nat
  /\ MaxPendingMessages \in Nat /\ NoTime \notin Int
BY StoppedAssumption DEF ValidAssertion

LEMMA Commands ==
  ASSUME NEW commands \in Seq(Twist)
  PROVE  /\ Len(commands) \in Nat /\ DOMAIN commands = 1..Len(commands)
         /\ \A k \in 1..Len(commands) :
              /\ commands[k] \in Twist /\ commands[k].stamp \in Nat
              /\ commands[k].kind \in {"zero", "moving", "nonfinite"}
<1>1. Len(commands) \in Nat /\ DOMAIN commands = 1..Len(commands)
  BY LenProperties
<1>2. \A k \in 1..Len(commands) : commands[k] \in Twist
  BY ElementOfSeq
<1> QED BY <1>1, <1>2 DEF Twist

\* What StopsFrom says of a position, with its abbreviations expanded.
LEMMA StopsFromResult ==
  ASSUME NEW commands \in Seq(Twist), NEW a, NEW i \in 1..Len(commands),
         StopsFrom(commands, a, i)
  PROVE  LET end == commands[i].stamp + Duration IN
         /\ commands[i].kind = "zero" /\ a <= commands[i].stamp
         /\ \A k \in 1..(i - 1) : a <= commands[k].stamp => commands[k].kind = "moving"
         /\ commands[i].stamp - a <= Within
         /\ \A k \in i..Len(commands) : commands[k].stamp < end =>
              /\ commands[k].kind = "zero"
              /\ \/ end - commands[k].stamp <= MaxGap
                 \/ /\ k + 1 \in i..Len(commands) /\ commands[k + 1].stamp < end
                    /\ commands[k + 1].stamp - commands[k].stamp <= MaxGap
<1> DEFINE end == commands[i].stamp + Duration
<1>1. DOMAIN commands = 1..Len(commands) /\ \A k \in i..Len(commands) : k \in 1..Len(commands)
  BY Commands
<1> HIDE DEF end
<1>2. /\ commands[i].kind = "zero" /\ a <= commands[i].stamp
      /\ \A k \in 1..(i - 1) : a <= commands[k].stamp => commands[k].kind = "moving"
      /\ commands[i].stamp - a <= Within
  BY DEF StopsFrom
<1>3. ASSUME NEW k \in i..Len(commands), commands[k].stamp < end
      PROVE  /\ commands[k].kind = "zero"
             /\ \/ end - commands[k].stamp <= MaxGap
                \/ /\ k + 1 \in i..Len(commands) /\ commands[k + 1].stamp < end
                   /\ commands[k + 1].stamp - commands[k].stamp <= MaxGap
  <2>1. k \in DOMAIN commands
    BY <1>1
  <2> QED BY <1>3, <2>1 DEF StopsFrom, end
<1> QED BY <1>2, <1>3 DEF end

\* Each of the three reasons excludes a good stop.
LEMMA DoomedMeansNoStop ==
  ASSUME NEW commands \in Seq(Twist), NEW a \in Nat, NEW t \in Nat,
         Doomed(commands, a, t)
  PROVE  ~GoodStop(commands, a)
<1> SUFFICES ASSUME NEW i \in 1..Len(commands), StopsFrom(commands, a, i)
             PROVE  FALSE
  BY Commands DEF GoodStop
<1> DEFINE end == commands[i].stamp + Duration
<1>1. /\ commands[i].kind = "zero" /\ a <= commands[i].stamp
      /\ commands[i].stamp - a <= Within
      /\ \A k \in i..Len(commands) : commands[k].stamp < end =>
           /\ commands[k].kind = "zero"
           /\ \/ end - commands[k].stamp <= MaxGap
              \/ /\ k + 1 \in i..Len(commands)
                 /\ commands[k + 1].stamp - commands[k].stamp <= MaxGap
  BY StopsFromResult
<1>2. commands[i].stamp \in Nat /\ Len(commands) \in Nat
  BY Commands
<1>3. FirstZero(commands, a, i)
  BY DEF StopsFrom, FirstZero
<1>4. CASE TooLate(commands, a, t)
  BY <1>1, <1>2, <1>4, Limits DEF TooLate
<1>5. CASE Invalid(commands, a)
  <2>1. PICK k \in 1..Len(commands) :
          /\ commands[k].kind = "nonfinite" /\ a <= commands[k].stamp
          /\ \A j \in 1..(k - 1) : a <= commands[j].stamp => commands[j].kind = "moving"
    BY <1>5 DEF Invalid
  <2>2. ~(i < k)
    <3>1. i < k => i \in 1..(k - 1)
      OBVIOUS
    <3>2. commands[i].kind = "zero" /\ a <= commands[i].stamp
      BY <1>3 DEF FirstZero
    <3> QED BY <2>1, <3>1, <3>2
  <2>3. ~(k < i)
    <3>1. k < i => k \in 1..(i - 1)
      OBVIOUS
    <3>2. \A j \in 1..(i - 1) : a <= commands[j].stamp => commands[j].kind = "moving"
      BY <1>3 DEF FirstZero
    <3> QED BY <2>1, <3>1, <3>2
  <2>4. k # i
    BY <1>1, <2>1
  <2> QED BY <2>2, <2>3, <2>4
<1>6. CASE Broken(commands, a, t)
  <2>1. PICK i0 \in 1..Len(commands) :
          /\ FirstZero(commands, a, i0)
          /\ \E k \in i0..Len(commands) :
               /\ commands[k].stamp < commands[i0].stamp + Duration
               /\ commands[k].kind # "zero" \/ Lapses(commands, commands[i0].stamp + Duration, k, t)
    BY <1>6 DEF Broken
  <2>2. i0 = i
    <3>1. i < i0 => i \in 1..(i0 - 1)
      OBVIOUS
    <3>2. i0 < i => i0 \in 1..(i - 1)
      OBVIOUS
    <3> QED BY <1>1, <1>3, <2>1, <3>1, <3>2 DEF FirstZero
  <2>3. PICK k \in i..Len(commands) :
          /\ commands[k].stamp < end
          /\ commands[k].kind # "zero" \/ Lapses(commands, end, k, t)
    BY <2>1, <2>2
  <2>4. /\ k \in 1..Len(commands) /\ commands[k].stamp \in Nat
        /\ commands[k].kind = "zero"
        /\ \/ end - commands[k].stamp <= MaxGap
           \/ /\ k + 1 \in i..Len(commands)
              /\ commands[k + 1].stamp - commands[k].stamp <= MaxGap
    BY <1>1, <1>2, <2>3, Commands
  <2>5. Lapses(commands, end, k, t)
    BY <2>3, <2>4
  <2>6. k + 1 \in i..Len(commands) =>
          k + 1 \in 1..Len(commands) /\ commands[k + 1].stamp \in Nat
    BY <2>4, Commands
  <2>7. end \in Nat
    BY <1>2, Limits
  <2> HIDE DEF end
  <2>8. /\ MaxGap < end - commands[k].stamp
        /\ k + 1 \in 1..Len(commands) => MaxGap < commands[k + 1].stamp - commands[k].stamp
    BY <2>5 DEF Lapses
  <2> QED BY <2>4, <2>6, <2>7, <2>8, Limits
<1> QED BY <1>4, <1>5, <1>6 DEF Doomed

\* The invariant gives the verdicts' meaning.
LEMMA RightVerdict == IInv => VerdictIsRight
<1> SUFFICES ASSUME IInv PROVE VerdictIsRight
  OBVIOUS
<1> DEFINE a == assertion.fault_activation_stamp
<1>1. trace \in Seq(Twist) /\ now \in Nat /\ Right(assertion, trace, Len(trace), now)
  BY DEF IInv, TypeOK
<1>2. assertion.state = "passed" => a <= TriggerWithin /\ GoodStop(trace, a)
  BY <1>1, Commands, Limits DEF Right, Settled, GoodStop
<1>3. assertion.state = "failed" /\ assertion.fault_active => ~GoodStop(trace, a)
  BY <1>1, DoomedMeansNoStop DEF Right
<1> QED BY <1>2, <1>3 DEF VerdictIsRight

-----------------------------------------------------------------------------
(* One update, and one command.                                             *)

LEMMA FailResult ==
  ASSUME NEW s \in Assertion
  PROVE  /\ Fail(s) \in Assertion
         /\ Fail(s).state = "failed" /\ Fail(s).fault_active = s.fault_active
         /\ Fail(s).fault_activation_stamp = s.fault_activation_stamp
         /\ Fail(s).pending_messages = <<>>
BY EmptySeq DEF Fail, Assertion

LEMMA UpdateType ==
  ASSUME NEW s \in Assertion, NEW t
  PROVE  /\ UpdateAt(s, t) \in Assertion
         /\ UpdateAt(s, t).fault_active = s.fault_active
         /\ UpdateAt(s, t).fault_activation_stamp = s.fault_activation_stamp
         /\ UpdateAt(s, t).state # "pending" \/ UpdateAt(s, t) = s
         /\ UpdateAt(s, t).pending_messages \in {<<>>, s.pending_messages}
<1>1. [s EXCEPT !.state = "passed"] \in Assertion
  BY DEF Assertion
<1>2. UpdateAt(s, t) \in {s, Fail(s), [s EXCEPT !.state = "passed"]}
  BY DEF UpdateAt
<1>3. [s EXCEPT !.state = "passed"].state = "passed"
      /\ [s EXCEPT !.state = "passed"].fault_active = s.fault_active
      /\ [s EXCEPT !.state = "passed"].fault_activation_stamp = s.fault_activation_stamp
      /\ [s EXCEPT !.state = "passed"].pending_messages = s.pending_messages
  BY DEF Assertion
<1> QED BY <1>1, <1>2, <1>3, FailResult

\* The reasons of a failure that the reasons above stand for.
LEMMA FailIsRight ==
  ASSUME NEW s \in Assertion, NEW commands, NEW n, NEW t,
         s.fault_activation_stamp \in 0..TriggerWithin,
         Doomed(commands, s.fault_activation_stamp, t)
  PROVE  Right(Fail(s), commands, n, t)
BY FailResult DEF Right

\* An update that finds no zero command in time is right to fail.
LEMMA WaitsTooLong ==
  ASSUME NEW s \in Assertion, NEW commands \in Seq(Twist), NEW n \in 0..Len(commands),
         NEW t \in 0..now, now \in Nat, s.fault_activation_stamp \in 0..TriggerWithin,
         Waits(s, commands, n), t - s.fault_activation_stamp > Within,
         \A k \in (n + 1)..Len(commands) : t <= commands[k].stamp
  PROVE  Doomed(commands, s.fault_activation_stamp, now)
<1> DEFINE a == s.fault_activation_stamp
<1>1. a \in Nat /\ a + Within < t /\ a + Within < now /\ Within \in Nat
  BY Limits
<1>2. ASSUME NEW k \in 1..Len(commands), a <= commands[k].stamp,
             commands[k].stamp <= a + Within
      PROVE  commands[k].kind # "zero"
  <2>1. commands[k].stamp \in Nat /\ Len(commands) \in Nat
    BY Commands
  <2>2. k \in 1..n
    <3>1. k \in 1..n \/ k \in (n + 1)..Len(commands)
      BY <2>1
    <3> QED BY <1>1, <1>2, <2>1, <3>1
  <2> QED BY <1>2, <2>2 DEF Waits
<1> QED BY <1>1, <1>2 DEF Doomed, TooLate

\* A hold with a gap is broken, and one long enough without a gap is settled.
LEMMA HoldEnds ==
  ASSUME NEW s \in Assertion, NEW commands \in Seq(Twist), NEW n \in 0..Len(commands),
         NEW t \in 0..now, now \in Nat, s.fault_activation_stamp \in 0..TriggerWithin,
         NEW i \in 1..n, Holds(s, commands, n, i),
         InOrder(commands, now),
         \A k \in (n + 1)..Len(commands) : t <= commands[k].stamp
  PROVE  LET end == commands[i].stamp + Duration
             a == s.fault_activation_stamp IN
         /\ s.first_zero_stamp \in Nat /\ s.last_zero_stamp \in Nat
         /\ commands[n].stamp < end
         /\ end - s.last_zero_stamp > MaxGap /\ t - s.last_zero_stamp > MaxGap
              => Doomed(commands, a, now)
         /\ end - s.last_zero_stamp <= MaxGap /\ end <= t
              => Settled(commands, a, now)
<1> DEFINE a == s.fault_activation_stamp
           end == commands[i].stamp + Duration
<1>1. /\ Len(commands) \in Nat /\ n \in 1..Len(commands) /\ i \in 1..Len(commands)
      /\ i \in i..n /\ n \in i..n /\ n \in i..Len(commands)
      /\ \A k \in 1..Len(commands) : commands[k].stamp \in Nat
      /\ \A k \in i..n : k \in i..Len(commands)
      /\ a \in Nat
  BY Commands, Limits
<1>2. /\ FirstZero(commands, a, i)
      /\ s.first_zero_stamp = commands[i].stamp
      /\ s.last_zero_stamp = commands[n].stamp
      /\ commands[i].stamp - a <= Within
      /\ \A k \in i..n : commands[k].kind = "zero" /\ commands[k].stamp < end
      /\ \A k \in i..(n - 1) : commands[k + 1].stamp - commands[k].stamp <= MaxGap
  BY DEF Holds
<1>3. s.first_zero_stamp \in Nat /\ s.last_zero_stamp \in Nat
  BY <1>1, <1>2
<1>4. commands[n].stamp < end
  BY <1>1, <1>2
<1>5. end \in Nat
  BY <1>1, Limits
<1>6. ASSUME end - s.last_zero_stamp > MaxGap, t - s.last_zero_stamp > MaxGap
      PROVE  Doomed(commands, a, now)
  <2>1. Lapses(commands, end, n, now)
    <3>1. n + 1 \in 1..Len(commands) => n + 1 \in (n + 1)..Len(commands)
      BY <1>1
    <3>2. n + 1 \in 1..Len(commands) => commands[n + 1].stamp \in Nat
      BY <1>1
    <3>3. end - commands[n].stamp > MaxGap /\ t - commands[n].stamp > MaxGap
      BY <1>2, <1>6
    <3>4. commands[n].stamp \in Nat
      BY <1>1
    <3>5. n + 1 \in 1..Len(commands) => t <= commands[n + 1].stamp
      BY <3>1
    <3> DEFINE x == commands[n].stamp
               y == commands[n + 1].stamp
    <3> HIDE DEF end, x, y
    <3>6. x \in Nat /\ MaxGap \in Nat /\ end - x > MaxGap /\ t - x > MaxGap
      BY <3>3, <3>4, Limits DEF x
    <3>7. MaxGap < end - x /\ MaxGap < now - x
      BY <1>5, <3>6
    <3>8. n + 1 \in 1..Len(commands) => MaxGap < y - x
      <4> SUFFICES ASSUME n + 1 \in 1..Len(commands) PROVE MaxGap < y - x
        OBVIOUS
      <4>1. y \in Nat /\ t <= y
        BY <3>2, <3>5 DEF y
      <4> QED BY <3>6, <4>1
    <3> QED BY <3>7, <3>8 DEF Lapses, x, y
  <2> QED BY <1>1, <1>2, <1>4, <2>1 DEF Doomed, Broken
<1>7. ASSUME end - s.last_zero_stamp <= MaxGap, end <= t
      PROVE  Settled(commands, a, now)
  <2>1. ASSUME NEW k \in i..Len(commands), commands[k].stamp < end
        PROVE  k \in i..n
    <3> SUFFICES ASSUME ~(k \in i..n) PROVE FALSE
      OBVIOUS
    <3>1. k \in (n + 1)..Len(commands) /\ k \in 1..Len(commands)
      BY <1>1
    <3>2. t <= commands[k].stamp /\ commands[k].stamp \in Nat
      BY <1>1, <3>1
    <3> HIDE DEF end
    <3> QED BY <1>5, <1>7, <2>1, <3>2
  <2>2. ASSUME NEW k \in i..n
        PROVE  /\ commands[k].kind = "zero"
               /\ \/ end - commands[k].stamp <= MaxGap
                  \/ /\ k + 1 \in i..Len(commands) /\ commands[k + 1].stamp < end
                     /\ commands[k + 1].stamp - commands[k].stamp <= MaxGap
    <3>1. CASE k = n
      BY <1>2, <1>7, <3>1
    <3>2. CASE k # n
      <4>1. k \in i..(n - 1) /\ k + 1 \in i..n /\ k + 1 \in i..Len(commands)
        BY <1>1, <3>2
      <4> QED BY <1>2, <4>1
    <3> QED BY <3>1, <3>2
  <2>3. StopsFrom(commands, a, i)
    BY <1>2, <2>1, <2>2 DEF StopsFrom, FirstZero
  <2>4. end <= now
    <3> HIDE DEF end
    <3> QED BY <1>5, <1>7
  <2> QED BY <1>1, <2>3, <2>4 DEF Settled
<1> QED BY <1>3, <1>4, <1>6, <1>7

\* update() at a time between the commands so far and those to come is right,
\* and if it leaves the assertion pending the hold is not over.
LEMMA UpdateRight ==
  ASSUME NEW s \in Assertion, NEW commands \in Seq(Twist), NEW n \in 0..Len(commands),
         NEW t \in 0..now, now \in Nat, InOrder(commands, now),
         \A k \in (n + 1)..Len(commands) : t <= commands[k].stamp,
         Right(s, commands, n, now)
  PROVE  /\ Right(UpdateAt(s, t), commands, n, now)
         /\ UpdateAt(s, t).state = "pending" /\ s.fault_active
            /\ s.first_zero_stamp # NoTime =>
              t < s.first_zero_stamp + Duration /\ t - s.last_zero_stamp <= MaxGap
<1> DEFINE a == s.fault_activation_stamp
           u == UpdateAt(s, t)
<1>1. CASE s.state # "pending"
  BY <1>1 DEF UpdateAt
<1>2. CASE s.state = "pending" /\ ~s.fault_active
  <2>1. u = s \/ u = Fail(s)
    BY <1>2 DEF UpdateAt
  <2>2. Right(Fail(s), commands, n, now)
    BY <1>2, FailResult DEF Right
  <2> QED BY <1>2, <2>1, <2>2
<1>3. CASE s.state = "pending" /\ s.fault_active /\ s.first_zero_stamp = NoTime
  <2>1. u = IF t - a > Within THEN Fail(s) ELSE s
    BY <1>3 DEF UpdateAt
  <2>2. a \in 0..TriggerWithin
    BY <1>3 DEF Right
  <2>3. Waits(s, commands, n)
    <3> SUFFICES ASSUME NEW i \in 1..n, Holds(s, commands, n, i) PROVE FALSE
      BY <1>3 DEF Right
    <3>1. s.first_zero_stamp \in Nat
      BY <2>2, HoldEnds
    <3> QED BY <1>3, <3>1, Limits
  <2>4. t - a > Within => Right(Fail(s), commands, n, now)
    BY <2>2, <2>3, WaitsTooLong, FailIsRight
  <2> QED BY <1>3, <2>1, <2>4
<1>4. CASE s.state = "pending" /\ s.fault_active /\ s.first_zero_stamp # NoTime
  <2>1. a \in 0..TriggerWithin
    BY <1>4 DEF Right
  <2>2. PICK i \in 1..n : Holds(s, commands, n, i)
    BY <1>4 DEF Right, Waits
  <2> DEFINE end == commands[i].stamp + Duration
             last == s.last_zero_stamp
  <2>3. /\ s.first_zero_stamp \in Nat /\ last \in Nat
        /\ end - last > MaxGap /\ t - last > MaxGap => Doomed(commands, a, now)
        /\ end - last <= MaxGap /\ end <= t => Settled(commands, a, now)
    BY <2>1, <2>2, HoldEnds
  <2>4. s.first_zero_stamp = commands[i].stamp
    BY <2>2 DEF Holds
  <2>5. CASE end <= t
    <3>1. t - s.first_zero_stamp >= Duration
      BY <2>3, <2>4, <2>5, Limits
    <3>2. Duration - (last - s.first_zero_stamp) = end - last
      BY <2>3, <2>4, Limits
    <3>3. u = IF end - last > MaxGap THEN Fail(s) ELSE [s EXCEPT !.state = "passed"]
      BY <1>4, <3>1, <3>2 DEF UpdateAt
    <3>4. CASE end - last > MaxGap
      <4>1. t - last > MaxGap
        <5>1. end \in Nat
          BY <2>3, <2>4, Limits
        <5>2. t \in Nat /\ last \in Nat /\ MaxGap \in Nat
          BY <2>3, Limits
        <5> HIDE DEF end, last
        <5> QED BY <2>5, <3>4, <5>1, <5>2
      <4>2. Right(Fail(s), commands, n, now)
        BY <2>1, <2>3, <3>4, <4>1, FailIsRight
      <4> QED BY <3>3, <3>4, <4>2, FailResult
    <3>5. CASE ~(end - last > MaxGap)
      <4>1. Settled(commands, a, now)
        BY <2>3, <2>4, <2>5, <3>5, Limits
      <4>2. u = [s EXCEPT !.state = "passed"]
        BY <3>3, <3>5
      <4>3. u.state = "passed" /\ u.fault_activation_stamp = a
        BY <4>2 DEF Assertion
      <4> QED BY <2>1, <4>1, <4>3 DEF Right
    <3> QED BY <3>4, <3>5
  <2>6. CASE t < end
    <3>1. ~(t - s.first_zero_stamp >= Duration)
      BY <2>3, <2>4, <2>6, Limits
    <3>2. u = IF t - last > MaxGap THEN Fail(s) ELSE s
      BY <1>4, <3>1 DEF UpdateAt
    <3>3. CASE t - last > MaxGap
      <4>1. end - last > MaxGap
        BY <2>3, <2>4, <2>6, <3>3, Limits
      <4>2. Right(Fail(s), commands, n, now)
        BY <2>1, <2>3, <3>3, <4>1, FailIsRight
      <4> QED BY <3>2, <3>3, <4>2, FailResult
    <3>4. CASE ~(t - last > MaxGap)
      BY <2>3, <2>4, <2>6, <3>2, <3>4, Limits
    <3> QED BY <3>3, <3>4
  <2>7. end \in Int
    BY <2>3, <2>4, Limits
  <2> QED BY <2>5, <2>6, <2>7
<1> QED BY <1>1, <1>2, <1>3, <1>4 DEF Assertion

\* What is kept of an assertion by a command that is judged.
LEMMA JudgeType ==
  ASSUME NEW s \in Assertion, NEW m \in Twist, m.stamp <= now, now \in Nat
  PROVE  /\ Judge(s, m) \in Assertion
         /\ Judge(s, m).fault_active = s.fault_active
         /\ Judge(s, m).fault_activation_stamp = s.fault_activation_stamp
         /\ Judge(s, m).pending_messages \in {<<>>, s.pending_messages}
<1> DEFINE u == IF s.first_zero_stamp # NoTime THEN UpdateAt(s, m.stamp) ELSE s
           z == [u EXCEPT !.last_zero_stamp = m.stamp,
                          !.first_zero_stamp = IF @ = NoTime THEN m.stamp ELSE @]
<1>1. /\ u \in Assertion /\ u.fault_active = s.fault_active
      /\ u.fault_activation_stamp = s.fault_activation_stamp
      /\ u.pending_messages \in {<<>>, s.pending_messages}
  BY UpdateType
<1>2. m.stamp \in 0..now
  BY DEF Twist
<1>3. Judge(s, m) \in {u, Fail(u), z}
  BY DEF Judge
<1> HIDE DEF u
<1>4. /\ z \in Assertion /\ z.fault_active = u.fault_active
      /\ z.fault_activation_stamp = u.fault_activation_stamp
      /\ z.pending_messages = u.pending_messages
  BY <1>1, <1>2 DEF Assertion
<1>5. /\ Fail(u) \in Assertion /\ Fail(u).fault_active = u.fault_active
      /\ Fail(u).fault_activation_stamp = u.fault_activation_stamp
      /\ Fail(u).pending_messages = <<>>
  BY <1>1, FailResult
<1> QED BY <1>1, <1>3, <1>4, <1>5

\* A command observed after the activation at s.fault_activation_stamp is judged
\* right.
LEMMA ObserveRight ==
  ASSUME NEW s \in Assertion, NEW commands \in Seq(Twist), NEW n \in 0..Len(commands),
         n + 1 \in 1..Len(commands), now \in Nat, InOrder(commands, now),
         s.state = "pending" => s.fault_active,
         s.state = "pending" => s.fault_activation_stamp <= commands[n + 1].stamp,
         Right(s, commands, n, now)
  PROVE  Right(ObserveMessage(s, commands[n + 1]), commands, n + 1, now)
<1> DEFINE a == s.fault_activation_stamp
           m == commands[n + 1]
           t == m.stamp
           u == UpdateAt(s, t)
<1>1. /\ Len(commands) \in Nat /\ m \in Twist /\ t \in Nat /\ t <= now /\ t \in 0..now
      /\ m.kind \in {"zero", "moving", "nonfinite"}
      /\ \A k \in 1..Len(commands) : commands[k].stamp \in Nat
  BY Commands DEF InOrder
<1>2. \A k \in (n + 1)..Len(commands) : t <= commands[k].stamp
  BY DEF InOrder
<1>3. CASE s.state # "pending"
  BY <1>3 DEF ObserveMessage, Right
<1>4. CASE s.state = "pending" /\ s.first_zero_stamp = NoTime
  <2>1. /\ a \in 0..TriggerWithin /\ a \in Nat /\ s.fault_active /\ a <= t
        /\ ObserveMessage(s, m) = Judge(s, m)
    BY <1>4, Limits DEF Right, ObserveMessage
  <2>2. Waits(s, commands, n)
    <3> SUFFICES ASSUME NEW i \in 1..n, Holds(s, commands, n, i) PROVE FALSE
      BY <1>4, <2>1 DEF Right
    <3>1. s.first_zero_stamp \in Nat
      BY <1>1, <1>2, <2>1, HoldEnds
    <3> QED BY <1>4, <3>1, Limits
  <2>3. CASE m.kind = "nonfinite" \/ t - a > Within
    <3>1. Judge(s, m) = Fail(s)
      BY <1>4, <2>3 DEF Judge, Offends
    <3>2. Doomed(commands, a, now)
      <4>1. CASE m.kind = "nonfinite"
        <5>1. \A j \in 1..n : a <= commands[j].stamp => commands[j].kind = "moving"
          BY <2>2 DEF Waits
        <5> QED BY <2>1, <4>1, <5>1 DEF Doomed, Invalid
      <4>2. CASE t - a > Within
        BY <1>1, <1>2, <2>1, <2>2, <4>2, WaitsTooLong
      <4> QED BY <2>3, <4>1, <4>2
    <3> QED BY <2>1, <3>1, <3>2, FailIsRight
  <2>4. CASE m.kind # "nonfinite" /\ ~(t - a > Within) /\ m.kind = "zero"
    <3> DEFINE z == [s EXCEPT !.last_zero_stamp = t, !.first_zero_stamp = t]
    <3>1. Judge(s, m) = [s EXCEPT !.last_zero_stamp = t,
                                  !.first_zero_stamp = IF @ = NoTime THEN t ELSE @]
      BY <1>4, <2>4 DEF Judge, Offends
    <3>2. Judge(s, m) = z
      BY <1>4, <3>1
    <3>3. /\ z.state = "pending" /\ z.fault_active /\ z.fault_activation_stamp = a
          /\ z.first_zero_stamp = t /\ z.last_zero_stamp = t
      BY <1>4, <2>1 DEF Assertion
    <3> HIDE DEF z
    <3>4. FirstZero(commands, a, n + 1)
      BY <2>1, <2>2, <2>4 DEF FirstZero, Waits
    <3>5. Holds(z, commands, n + 1, n + 1)
      <4>1. \A k \in (n + 1)..(n + 1) : k = n + 1
        BY <1>1
      <4>2. t < t + Duration
        BY <1>1, Limits
      <4>3. \A k \in (n + 1)..((n + 1) - 1) : FALSE
        BY <1>1
      <4>4. t - a <= Within
        BY <1>1, <2>1, <2>4, Limits
      <4> QED BY <2>4, <3>3, <3>4, <4>1, <4>2, <4>3, <4>4 DEF Holds
    <3>6. n + 1 \in 1..(n + 1)
      BY <1>1
    <3> QED BY <2>1, <3>2, <3>3, <3>5, <3>6 DEF Right
  <2>5. CASE m.kind # "nonfinite" /\ ~(t - a > Within) /\ m.kind # "zero"
    <3>1. Judge(s, m) = s
      BY <1>4, <2>5 DEF Judge, Offends
    <3>2. m.kind = "moving"
      BY <1>1, <2>5
    <3>3. \A k \in 1..(n + 1) : k \in 1..n \/ k = n + 1
      BY <1>1
    <3>4. Waits(s, commands, n + 1)
      BY <2>2, <3>2, <3>3 DEF Waits
    <3> QED BY <1>4, <2>1, <3>1, <3>4 DEF Right
  <2> QED BY <2>3, <2>4, <2>5
<1>5. CASE s.state = "pending" /\ s.first_zero_stamp # NoTime
  <2>1. /\ a \in 0..TriggerWithin /\ a \in Nat /\ s.fault_active
        /\ ObserveMessage(s, m) = Judge(s, m)
    BY <1>5, Limits DEF Right, ObserveMessage
  <2>2. PICK i \in 1..n : Holds(s, commands, n, i)
    BY <1>5, <2>1 DEF Right, Waits
  <2> DEFINE end == commands[i].stamp + Duration
  <2>3. /\ FirstZero(commands, a, i)
        /\ s.first_zero_stamp = commands[i].stamp
        /\ s.last_zero_stamp = commands[n].stamp
        /\ commands[i].stamp - a <= Within
        /\ \A k \in i..n : commands[k].kind = "zero" /\ commands[k].stamp < end
        /\ \A k \in i..(n - 1) : commands[k + 1].stamp - commands[k].stamp <= MaxGap
    BY <2>2 DEF Holds
  <2>4. /\ Right(u, commands, n, now)
        /\ u.state = "pending" => t < end /\ t - s.last_zero_stamp <= MaxGap
        /\ u.state = "pending" => u = s
    BY <1>1, <1>2, <1>5, <2>1, <2>3, UpdateRight, UpdateType
  <2>5. CASE u.state # "pending"
    <3>1. Judge(s, m) = u
      BY <1>5, <2>5 DEF Judge
    <3> QED BY <2>1, <2>4, <2>5, <3>1 DEF Right
  <2>6. CASE u.state = "pending" /\ m.kind # "zero"
    <3>1. Offends(s, m)
      BY <1>1, <1>5, <2>6 DEF Offends
    <3>2. Judge(s, m) = Fail(s)
      BY <1>5, <2>4, <2>6, <3>1 DEF Judge
    <3>3. Broken(commands, a, now)
      <4>1. n + 1 \in i..Len(commands) /\ i \in 1..Len(commands)
        BY <1>1
      <4> QED BY <2>3, <2>4, <2>6, <4>1 DEF Broken
    <3> QED BY <2>1, <3>2, <3>3, FailIsRight DEF Doomed
  <2>7. CASE u.state = "pending" /\ m.kind = "zero"
    <3> DEFINE z == [s EXCEPT !.last_zero_stamp = t]
    <3>1. ~Offends(s, m)
      <4>1. ~(t - s.last_zero_stamp > MaxGap)
        <5>1. s.last_zero_stamp \in Nat
          BY <1>1, <2>3
        <5> QED BY <1>1, <2>4, <2>7, <5>1, Limits
      <4> QED BY <1>5, <2>7, <4>1 DEF Offends
    <3>2. Judge(s, m) = [s EXCEPT !.last_zero_stamp = t,
                                  !.first_zero_stamp = IF @ = NoTime THEN t ELSE @]
      BY <1>5, <2>4, <2>7, <3>1 DEF Judge
    <3>3. Judge(s, m) = z
      BY <1>5, <3>2 DEF Assertion
    <3>4. /\ z.state = "pending" /\ z.fault_active /\ z.fault_activation_stamp = a
          /\ z.first_zero_stamp = commands[i].stamp /\ z.last_zero_stamp = t
      BY <1>5, <2>1, <2>3 DEF Assertion
    <3> HIDE DEF z
    <3>5. ASSUME NEW k \in i..(n + 1)
          PROVE  commands[k].kind = "zero" /\ commands[k].stamp < end
      <4>1. k \in i..n \/ k = n + 1
        BY <1>1
      <4> QED BY <2>3, <2>4, <2>7, <4>1
    <3>6. ASSUME NEW k \in i..((n + 1) - 1)
          PROVE  commands[k + 1].stamp - commands[k].stamp <= MaxGap
      <4>1. k \in i..(n - 1) \/ k = n
        BY <1>1
      <4> QED BY <2>3, <2>4, <2>7, <4>1
    <3>7. Holds(z, commands, n + 1, i)
      BY <2>3, <3>4, <3>5, <3>6 DEF Holds
    <3>8. i \in 1..(n + 1)
      BY <1>1
    <3> QED BY <2>1, <3>3, <3>4, <3>7, <3>8 DEF Right
  <2> QED BY <2>5, <2>6, <2>7
<1> QED BY <1>3, <1>4, <1>5

-----------------------------------------------------------------------------
(* The replay.                                                              *)

\* Induction over the numbers, for a set.
LEMMA Induction ==
  ASSUME NEW S, 0 \in S, \A n \in Nat : n \in S => n + 1 \in S
  PROVE  Nat \subseteq S
<1> DEFINE T == Nat \ S
           R == OpToRel(<, Nat)
<1> SUFFICES ASSUME T # {} PROVE FALSE
  OBVIOUS
<1>1. \A x, y \in Nat : y < x => <<y, x>> \in R
  BY DEF OpToRel
<1>2. IsWellFoundedOn(R, Nat)
  BY NatLessThanWellFounded
<1>3. T \subseteq Nat
  OBVIOUS
<1> HIDE DEF R
<1>4. PICK x \in T : \A y \in T : ~(<<y, x>> \in R)
  <2> HIDE DEF T
  <2> QED BY <1>2, <1>3, WFMin
<1>5. x \in Nat /\ x \notin S /\ x # 0
  OBVIOUS
<1>6. x - 1 \in Nat /\ x - 1 < x /\ (x - 1) + 1 = x
  BY <1>5
<1>7. x - 1 \in T
  BY <1>5, <1>6
<1> QED BY <1>1, <1>4, <1>5, <1>6, <1>7

\* Replay() is the last value of the function it defines, and that exists.
LEMMA ReplayResult ==
  ASSUME NEW s, NEW messages, Len(messages) \in Nat
  PROVE  \E after :
           /\ after[0] = s
           /\ \A k \in 1..Len(messages) :
                after[k] = IF messages[k].stamp < s.fault_activation_stamp THEN after[k - 1]
                           ELSE ObserveMessage(after[k - 1], messages[k])
           /\ Replay(s, messages) = after[Len(messages)]
<1> DEFINE Step(x, k) == IF messages[k].stamp < s.fault_activation_stamp THEN x
                         ELSE ObserveMessage(x, messages[k])
           Body(f, k) == IF k = 0 THEN s
                         ELSE IF messages[k].stamp < s.fault_activation_stamp THEN f[k - 1]
                         ELSE ObserveMessage(f[k - 1], messages[k])
           Solves(f, n) == f = [k \in 0..n |-> Body(f, k)]
           S == {n \in Nat : \E f : Solves(f, n)}
           N == Len(messages)
<1>1. \A f, k : k # 0 => Body(f, k) = Step(f[k - 1], k)
  OBVIOUS
<1>2. \A f : Body(f, 0) = s
  OBVIOUS
<1> HIDE DEF Step, Body
<1>3. 0 \in S
  <2> DEFINE f0 == [k \in 0..0 |-> s]
  <2>1. Solves(f0, 0)
    BY <1>2
  <2> QED BY <2>1
<1>4. ASSUME NEW n \in Nat, n \in S
      PROVE  n + 1 \in S
  <2>1. PICK f : Solves(f, n)
    BY <1>4
  <2> DEFINE g == [k \in 0..(n + 1) |-> IF k = n + 1 THEN Step(f[n], n + 1) ELSE f[k]]
  <2>2. ASSUME NEW k \in 0..(n + 1)
        PROVE  g[k] = Body(g, k)
    <3>1. CASE k = 0
      <4>1. g[k] = f[0] /\ 0 \in 0..n
        BY <3>1
      <4>2. f[0] = Body(f, 0)
        BY <2>1, <4>1
      <4> QED BY <1>2, <3>1, <4>1, <4>2
    <3>2. CASE k = n + 1
      <4>1. g[k] = Step(f[n], n + 1) /\ k # 0 /\ k - 1 = n /\ n \in 0..(n + 1) /\ n # n + 1
        BY <3>2
      <4>2. g[n] = f[n]
        BY <4>1
      <4> QED BY <1>1, <3>2, <4>1, <4>2
    <3>3. CASE k # 0 /\ k # n + 1
      <4>1. /\ k \in 0..n /\ k - 1 \in 0..n /\ k - 1 \in 0..(n + 1) /\ k - 1 # n + 1
        BY <3>3
      <4>2. g[k] = f[k] /\ g[k - 1] = f[k - 1]
        BY <3>3, <4>1
      <4>3. f[k] = Body(f, k)
        BY <2>1, <4>1
      <4> QED BY <1>1, <3>3, <4>2, <4>3
    <3> QED BY <3>1, <3>2, <3>3
  <2>3. Solves(g, n + 1)
    <3>1. g = [k \in 0..(n + 1) |-> g[k]]
      OBVIOUS
    <3> HIDE DEF g
    <3> QED BY <2>2, <3>1
  <2>4. n + 1 \in Nat /\ \E f1 : Solves(f1, n + 1)
    <3> HIDE DEF g, Solves
    <3> QED BY <2>3
  <2> HIDE DEF Solves
  <2> QED BY <2>4
<1>5. N \in S
  <2> HIDE DEF S
  <2> QED BY <1>3, <1>4, Induction
<1> DEFINE after == CHOOSE f : Solves(f, N)
<1>6. Solves(after, N)
  BY <1>5
<1>7. Replay(s, messages) = after[N]
  BY DEF Replay, Body
<1>8. \A k \in 0..N : after[k] = Body(after, k)
  <2> HIDE DEF after
  <2> QED BY <1>6
<1>9. after[0] = s /\ \A k \in 1..N : after[k] = Step(after[k - 1], k)
  <2> HIDE DEF after
  <2>1. 0 \in 0..N /\ \A k \in 1..N : k \in 0..N /\ k # 0
    OBVIOUS
  <2> QED BY <1>1, <1>2, <1>8, <2>1
<1> QED BY <1>7, <1>9 DEF Step

\* Every kept command that counts is judged right, in its order.
LEMMA ReplayRight ==
  ASSUME NEW s \in Assertion, NEW commands \in Seq(Twist), now \in Nat,
         InOrder(commands, now), s.state = "pending", s.fault_active,
         s.first_zero_stamp = NoTime, s.pending_messages = <<>>,
         s.fault_activation_stamp \in 0..TriggerWithin
  PROVE  /\ Replay(s, commands) \in Assertion
         /\ Right(Replay(s, commands), commands, Len(commands), now)
         /\ Replay(s, commands).fault_active
         /\ Replay(s, commands).pending_messages = <<>>
<1> DEFINE a == s.fault_activation_stamp
           N == Len(commands)
           Fine(r, k) == /\ r \in Assertion /\ r.fault_active
                         /\ r.fault_activation_stamp = a
                         /\ r.pending_messages = <<>>
                         /\ Right(r, commands, k, now)
<1>1. N \in Nat /\ a \in Nat
      /\ \A k \in 1..N : commands[k] \in Twist /\ commands[k].stamp \in Nat
  BY Commands, Limits
<1>2. PICK after :
        /\ after[0] = s
        /\ \A k \in 1..N :
             after[k] = IF commands[k].stamp < a THEN after[k - 1]
                        ELSE ObserveMessage(after[k - 1], commands[k])
        /\ Replay(s, commands) = after[N]
  BY <1>1, ReplayResult
<1>3. Fine(after[0], 0)
  <2>1. Waits(s, commands, 0)
    BY DEF Waits
  <2> QED BY <1>2, <2>1 DEF Right
<1>4. ASSUME NEW n \in Nat, n + 1 \in 1..N, Fine(after[n], n)
      PROVE  Fine(after[n + 1], n + 1)
  <2> DEFINE r == after[n]
             m == commands[n + 1]
  <2>1. /\ n \in 0..N /\ (n + 1) - 1 = n /\ m \in Twist /\ m.stamp \in Nat
        /\ m.stamp <= now
    BY <1>1, <1>4 DEF InOrder
  <2>2. CASE m.stamp < a
    <3>1. after[n + 1] = r
      BY <1>2, <1>4, <2>1, <2>2
    <3>2. Right(r, commands, n + 1, now)
      <4>1. CASE r.state # "pending"
        BY <1>4, <4>1 DEF Right
      <4>2. CASE r.state = "pending"
        <5>1. Waits(r, commands, n)
          <6> SUFFICES ASSUME NEW i \in 1..n, Holds(r, commands, n, i) PROVE FALSE
            BY <1>4, <4>2 DEF Right
          <6>1. a <= commands[i].stamp /\ i \in 1..N /\ n + 1 \in i..N
            BY <1>4, <2>1 DEF Holds, FirstZero
          <6>2. commands[i].stamp <= m.stamp
            BY <6>1 DEF InOrder
          <6> QED BY <1>1, <2>1, <2>2, <6>1, <6>2
        <5>2. \A k \in 1..(n + 1) : k \in 1..n \/ k = n + 1
          OBVIOUS
        <5>3. ~(a <= m.stamp)
          BY <1>1, <2>1, <2>2
        <5>4. Waits(r, commands, n + 1)
          BY <1>4, <5>1, <5>2, <5>3 DEF Waits
        <5> QED BY <1>4, <4>2, <5>4 DEF Right
      <4> QED BY <4>1, <4>2
    <3> QED BY <1>4, <3>1, <3>2
  <2>3. CASE ~(m.stamp < a)
    <3>1. after[n + 1] = ObserveMessage(r, m)
      BY <1>2, <1>4, <2>1, <2>3
    <3>2. a <= m.stamp
      BY <1>1, <2>1, <2>3
    <3>3. Right(ObserveMessage(r, m), commands, n + 1, now)
      BY <1>4, <2>1, <3>2, ObserveRight
    <3>4. ObserveMessage(r, m) = r \/ ObserveMessage(r, m) = Judge(r, m)
      BY <1>4 DEF ObserveMessage
    <3>5. /\ Judge(r, m) \in Assertion /\ Judge(r, m).fault_active
          /\ Judge(r, m).fault_activation_stamp = a
          /\ Judge(r, m).pending_messages = <<>>
      BY <1>4, <2>1, JudgeType
    <3> QED BY <1>4, <3>1, <3>3, <3>4, <3>5
  <2> QED BY <2>2, <2>3
<1>5. Fine(after[N], N)
  <2> DEFINE S == {k \in Nat : k \in 0..N => Fine(after[k], k)}
  <2> HIDE DEF Fine
  <2>1. 0 \in S
    BY <1>3
  <2>2. ASSUME NEW n \in Nat, n \in S PROVE n + 1 \in S
    <3> SUFFICES ASSUME n + 1 \in 0..N PROVE Fine(after[n + 1], n + 1)
      OBVIOUS
    <3>1. n \in 0..N /\ n + 1 \in 1..N
      BY <1>1
    <3>2. Fine(after[n], n)
      BY <2>2, <3>1
    <3> QED BY <1>4, <3>1, <3>2
  <2>3. Nat \subseteq S
    <3> HIDE DEF S
    <3> QED BY <2>1, <2>2, Induction
  <2> QED BY <1>1, <2>3
<1> QED BY <1>2, <1>5

-----------------------------------------------------------------------------
(* The steps.                                                               *)

LEMMA InitIInv == Init => IInv
<1> SUFFICES ASSUME Init PROVE IInv
  OBVIOUS
<1>1. TypeOK
  BY EmptySeq, Limits DEF Init, TypeOK, Assertion
<1>2. channel \in Seq(-1..now)
  <2>1. now = 0 /\ -1 \in -1..now
    BY DEF Init
  <2>2. <<>> \in Seq(-1..now) /\ <<-1>> \in Seq(-1..now)
    BY <2>1
  <2> QED BY <2>2 DEF Init
<1>3. Len(trace) = 0
  BY DEF Init
<1>4. InOrder(trace, now)
  BY <1>3 DEF InOrder
<1>5. Kept
  BY DEF Init, Kept
<1>6. Right(assertion, trace, Len(trace), now)
  BY DEF Init, Right
<1> QED BY <1>1, <1>2, <1>4, <1>5, <1>6 DEF IInv

\* Time passes, and later is no better for a good stop.
LEMMA TickIInv == IInv /\ Tick => IInv'
<1> SUFFICES ASSUME IInv, Tick PROVE IInv'
  OBVIOUS
<1>1. /\ now \in Nat /\ now' = now + 1 /\ UNCHANGED <<assertion, channel, events, trace>>
      /\ TypeOK /\ trace \in Seq(Twist)
  BY DEF IInv, TypeOK, Tick
<1>2. TypeOK'
  BY <1>1 DEF TypeOK, Assertion
<1>3. channel' \in Seq(-1..now')
  <2>1. -1..now \subseteq -1..now'
    BY <1>1
  <2> QED BY <1>1, <2>1, SeqMonotonic DEF IInv
<1>4. \A k \in 1..Len(trace) : trace[k].stamp \in Nat
  BY <1>1, Commands
<1>5. InOrder(trace', now')
  BY <1>1, <1>4 DEF IInv, InOrder
<1>6. Kept'
  BY <1>1 DEF IInv, Kept
<1>7. ASSUME NEW a \in 0..TriggerWithin
      PROVE  /\ Settled(trace, a, now) => Settled(trace, a, now')
             /\ Doomed(trace, a, now) => Doomed(trace, a, now')
  <2>1. a \in Nat /\ Duration \in Nat /\ MaxGap \in Nat /\ Within \in Nat
    BY Limits
  <2>2. Settled(trace, a, now) => Settled(trace, a, now')
    BY <1>1, <1>4, <2>1 DEF Settled
  <2>3. TooLate(trace, a, now) => TooLate(trace, a, now')
    BY <1>1, <2>1 DEF TooLate
  <2>4. Broken(trace, a, now) => Broken(trace, a, now')
    <3>1. \A end : \A k \in 1..Len(trace) :
            Lapses(trace, end, k, now) => Lapses(trace, end, k, now')
      BY <1>1, <1>4, <2>1 DEF Lapses
    <3>2. \A i \in 1..Len(trace) : \A k \in i..Len(trace) : k \in 1..Len(trace)
      BY <1>1, Commands
    <3> QED BY <3>1, <3>2 DEF Broken
  <2> QED BY <2>2, <2>3, <2>4 DEF Doomed
<1>8. Right(assertion, trace, Len(trace), now)'
  BY <1>1, <1>7 DEF IInv, Right
<1> QED BY <1>2, <1>3, <1>5, <1>6, <1>8 DEF IInv

LEMMA ActivateFaultIInv == IInv /\ ActivateFault => IInv'
<1> SUFFICES ASSUME IInv, ActivateFault PROVE IInv'
  OBVIOUS
<1>1. now \in Nat /\ channel' = Append(channel, now) /\ UNCHANGED <<assertion, trace, now>>
  BY DEF IInv, TypeOK, ActivateFault
<1>2. channel' \in Seq(-1..now')
  BY <1>1, AppendProperties DEF IInv
<1> QED BY <1>1, <1>2 DEF IInv, TypeOK, Assertion, Kept, Right, InOrder

LEMMA DeliverEventIInv == IInv /\ DeliverEvent => IInv'
<1> SUFFICES ASSUME IInv, DeliverEvent PROVE IInv'
  OBVIOUS
<1> DEFINE stamp == Head(channel)
           s == [assertion EXCEPT !.fault_active = TRUE, !.fault_activation_stamp = stamp,
                                  !.pending_messages = <<>>]
<1>1. /\ now \in Nat /\ channel' = Tail(channel) /\ UNCHANGED <<events, trace, now>>
      /\ assertion' = ObserveActivation(assertion, stamp)
      /\ assertion \in Assertion /\ trace \in Seq(Twist)
      /\ Len(assertion.pending_messages) <= MaxPendingMessages
      /\ InOrder(trace, now) /\ Kept /\ Right(assertion, trace, Len(trace), now)
  BY DEF IInv, TypeOK, DeliverEvent
<1>2. stamp \in -1..now /\ channel' \in Seq(-1..now)
  BY <1>1, HeadTailProperties DEF IInv, DeliverEvent
<1>3. SUFFICES /\ assertion' \in Assertion
               /\ Len(assertion'.pending_messages) <= MaxPendingMessages
               /\ assertion'.state = "pending" => assertion'.fault_active \/ assertion' = assertion
               /\ Right(assertion', trace, Len(trace), now)
  BY <1>1, <1>2 DEF IInv, TypeOK, Assertion, Kept, Right, InOrder
<1>4. CASE assertion.state # "pending" \/ assertion.fault_active
  BY <1>1, <1>4 DEF ObserveActivation
<1>5. CASE assertion.state = "pending" /\ ~assertion.fault_active
           /\ (stamp < 0 \/ stamp > TriggerWithin)
  <2>1. assertion' = Fail(assertion)
    BY <1>1, <1>5 DEF ObserveActivation
  <2> QED BY <1>1, <1>5, <2>1, FailResult, Limits DEF Right
<1>6. CASE assertion.state = "pending" /\ ~assertion.fault_active
           /\ ~(stamp < 0 \/ stamp > TriggerWithin)
  <2>1. assertion' = Replay(s, trace)
    BY <1>1, <1>6 DEF ObserveActivation, Kept
  <2>2. stamp \in 0..now /\ stamp \in 0..TriggerWithin
    BY <1>1, <1>2, <1>6, Limits
  <2>3. /\ s \in Assertion /\ s.state = "pending" /\ s.fault_active
        /\ s.first_zero_stamp = NoTime /\ s.pending_messages = <<>>
        /\ s.fault_activation_stamp = stamp
    BY <1>1, <1>6, <2>2, EmptySeq DEF Kept, Assertion
  <2> HIDE DEF s, stamp
  <2>4. /\ Replay(s, trace) \in Assertion
        /\ Right(Replay(s, trace), trace, Len(trace), now)
        /\ Replay(s, trace).fault_active
        /\ Replay(s, trace).pending_messages = <<>>
    BY <1>1, <2>2, <2>3, ReplayRight
  <2>5. Len(<<>>) = 0
    OBVIOUS
  <2> QED BY <2>1, <2>4, <2>5, Limits
<1> QED BY <1>4, <1>5, <1>6

\* A command more, at the end: what was decided stays decided.
LEMMA DecisionsLast ==
  ASSUME NEW commands \in Seq(Twist), NEW m \in Twist, m.stamp = now, now \in Nat,
         InOrder(commands, now), NEW a \in 0..TriggerWithin,
         NEW longer, Len(longer) = Len(commands) + 1, longer[Len(commands) + 1] = m,
         \A k \in 1..Len(commands) : longer[k] = commands[k]
  PROVE  /\ Settled(commands, a, now) => Settled(longer, a, now)
         /\ Doomed(commands, a, now) => Doomed(longer, a, now)
<1> DEFINE N == Len(commands)
<1>1. /\ N \in Nat /\ Len(longer) = N + 1 /\ longer[N + 1] = m
      /\ \A k \in 1..N : longer[k] = commands[k] /\ commands[k].stamp \in Nat
      /\ a \in Nat
  BY Commands, Limits
<1>2. /\ \A k \in 1..(N + 1) : k \in 1..N \/ k = N + 1
      /\ \A k \in 1..N : k \in 1..(N + 1)
      /\ \A i \in 1..N : \A k \in 1..(i - 1) : k \in 1..N
      /\ \A i \in 1..N : \A k \in i..N : k \in i..(N + 1) /\ k \in 1..N
  BY <1>1
<1>3. \A i \in 1..N : FirstZero(commands, a, i) => FirstZero(longer, a, i)
  BY <1>1, <1>2 DEF FirstZero
<1>4. ASSUME Settled(commands, a, now)
      PROVE  Settled(longer, a, now)
  <2>1. PICK i \in 1..N : StopsFrom(commands, a, i) /\ commands[i].stamp + Duration <= now
    BY <1>4 DEF Settled
  <2> DEFINE end == commands[i].stamp + Duration
  <2>2. /\ commands[i].kind = "zero" /\ a <= commands[i].stamp
        /\ \A k \in 1..(i - 1) : a <= commands[k].stamp => commands[k].kind = "moving"
        /\ commands[i].stamp - a <= Within
        /\ \A k \in i..N : commands[k].stamp < end =>
             /\ commands[k].kind = "zero"
             /\ \/ end - commands[k].stamp <= MaxGap
                \/ /\ k + 1 \in i..N /\ commands[k + 1].stamp < end
                   /\ commands[k + 1].stamp - commands[k].stamp <= MaxGap
    BY <1>1, <2>1, StopsFromResult
  <2>3. longer[i] = commands[i] /\ \A k \in 1..(i - 1) : longer[k] = commands[k]
    BY <1>1, <1>2
  <2>4. ASSUME NEW k \in i..(N + 1), longer[k].stamp < end
        PROVE  /\ longer[k].kind = "zero"
               /\ \/ end - longer[k].stamp <= MaxGap
                  \/ /\ k + 1 \in i..(N + 1) /\ longer[k + 1].stamp < end
                     /\ longer[k + 1].stamp - longer[k].stamp <= MaxGap
    <3>1. k # N + 1
      BY <1>1, <2>1, <2>4, Limits
    <3>2. k \in i..N /\ longer[k] = commands[k]
      BY <1>1, <3>1
    <3>3. k + 1 \in i..N => longer[k + 1] = commands[k + 1] /\ k + 1 \in i..(N + 1)
      BY <1>1
    <3> HIDE DEF end
    <3> QED BY <2>2, <2>4, <3>2, <3>3
  <2>5. StopsFrom(longer, a, i)
    BY <1>1, <2>2, <2>3, <2>4 DEF StopsFrom
  <2> QED BY <1>1, <1>2, <2>1, <2>3, <2>5 DEF Settled
<1>5. ASSUME Doomed(commands, a, now)
      PROVE  Doomed(longer, a, now)
  <2>1. CASE TooLate(commands, a, now)
    <3>1. a + Within < now /\ ~(m.stamp <= a + Within)
      BY <1>1, <2>1, Limits DEF TooLate
    <3>2. \A k \in 1..(N + 1) :
            a <= longer[k].stamp /\ longer[k].stamp <= a + Within => longer[k].kind # "zero"
      BY <1>1, <1>2, <2>1, <3>1 DEF TooLate
    <3> QED BY <1>1, <3>1, <3>2 DEF Doomed, TooLate
  <2>2. CASE Invalid(commands, a)
    BY <1>1, <1>2, <2>2 DEF Doomed, Invalid
  <2>3. CASE Broken(commands, a, now)
    <3>0. PICK i \in 1..N :
            /\ FirstZero(commands, a, i)
            /\ \E k \in i..N :
                 /\ commands[k].stamp < commands[i].stamp + Duration
                 /\ \/ commands[k].kind # "zero"
                    \/ Lapses(commands, commands[i].stamp + Duration, k, now)
      BY <2>3 DEF Broken
    <3>1. PICK k \in i..N :
            /\ commands[k].stamp < commands[i].stamp + Duration
            /\ \/ commands[k].kind # "zero"
               \/ Lapses(commands, commands[i].stamp + Duration, k, now)
      BY <3>0
    <3>2. /\ i \in 1..(N + 1) /\ k \in i..(N + 1) /\ k \in 1..N
          /\ longer[i] = commands[i] /\ longer[k] = commands[k]
      BY <1>1, <1>2
    <3>3. ASSUME Lapses(commands, commands[i].stamp + Duration, k, now)
          PROVE  Lapses(longer, longer[i].stamp + Duration, k, now)
      <4>1. k + 1 \in 1..(N + 1) => k + 1 \in 1..N \/ k + 1 = N + 1
        BY <1>1, <3>2
      <4>2. MaxGap < now - commands[k].stamp
        BY <3>3 DEF Lapses
      <4>3. k + 1 \in 1..Len(longer) => MaxGap < longer[k + 1].stamp - longer[k].stamp
        <5>1. CASE k + 1 \in 1..N
          BY <1>1, <3>2, <3>3, <5>1 DEF Lapses
        <5>2. CASE k + 1 = N + 1
          BY <1>1, <3>2, <4>2, <5>2
        <5> QED BY <1>1, <4>1, <5>1, <5>2
      <4> QED BY <3>2, <3>3, <4>3 DEF Lapses
    <3> QED BY <1>1, <1>3, <3>0, <3>1, <3>2, <3>3 DEF Doomed, Broken
  <2> QED BY <1>5, <2>1, <2>2, <2>3 DEF Doomed
<1> QED BY <1>4, <1>5

LEMMA DeliverTwistIInv ==
  ASSUME IInv, NEW kind \in {"zero", "moving", "nonfinite"}, DeliverTwist(kind)
  PROVE  IInv'
<1> DEFINE m == [kind |-> kind, stamp |-> now]
           N == Len(trace)
           s == assertion
<1>1. /\ now \in Nat /\ UNCHANGED <<channel, events, now>>
      /\ assertion' = ObserveMessage(s, m) /\ trace' = Append(trace, m)
      /\ s \in Assertion /\ trace \in Seq(Twist)
      /\ Len(s.pending_messages) <= MaxPendingMessages
      /\ InOrder(trace, now) /\ Kept /\ Right(s, trace, N, now)
      /\ channel \in Seq(-1..now)
  BY DEF IInv, TypeOK, DeliverTwist
<1>2. m \in Twist /\ m.stamp = now
  BY <1>1 DEF Twist
<1> HIDE DEF m
<1>3. /\ N \in Nat /\ trace' \in Seq(Twist) /\ Len(trace') = N + 1 /\ trace'[N + 1] = m
      /\ \A k \in 1..N : trace'[k] = trace[k] /\ trace[k].stamp \in Nat
  BY <1>1, <1>2, Commands, LenProperties, AppendProperties
<1>4. InOrder(trace', now)
  <2>1. \A k \in 1..(N + 1) : k \in 1..N \/ k = N + 1
    BY <1>3
  <2>2. \A k \in 1..(N + 1) : \A j \in k..(N + 1) : j \in k..N \/ j = N + 1
    BY <1>3
  <2>3. \A k \in 1..N : \A j \in k..N : j \in 1..N
    BY <1>3
  <2>4. \A k \in 1..(N + 1) : trace'[k].stamp <= now
    BY <1>1, <1>2, <1>3, <2>1 DEF InOrder
  <2>5. ASSUME NEW k \in 1..(N + 1), NEW j \in k..(N + 1)
        PROVE  trace'[k].stamp <= trace'[j].stamp
    <3>1. CASE j = N + 1
      BY <1>2, <1>3, <2>4, <3>1
    <3>2. CASE j \in k..N
      <4>1. k \in 1..N /\ j \in 1..N
        BY <1>3, <3>2
      <4> QED BY <1>1, <1>3, <3>2, <4>1 DEF InOrder
    <3> QED BY <2>2, <3>1, <3>2
  <2> QED BY <1>3, <2>4, <2>5 DEF InOrder
<1>5. Right(s, trace', N, now)
  <2> DEFINE a == s.fault_activation_stamp
  <2>1. a \in 0..TriggerWithin =>
          /\ Settled(trace, a, now) => Settled(trace', a, now)
          /\ Doomed(trace, a, now) => Doomed(trace', a, now)
    BY <1>1, <1>2, <1>3, DecisionsLast
  <2>2. Waits(s, trace, N) => Waits(s, trace', N)
    BY <1>3 DEF Waits
  <2>3. ASSUME NEW i \in 1..N, Holds(s, trace, N, i)
        PROVE  Holds(s, trace', N, i)
    <3>1. /\ \A k \in 1..(i - 1) : k \in 1..N
          /\ \A k \in i..N : k \in 1..N
          /\ \A k \in i..(N - 1) : k \in 1..N /\ k + 1 \in 1..N
          /\ N \in 1..N
      BY <1>3
    <3> QED BY <1>3, <2>3, <3>1 DEF Holds, FirstZero
  <2> QED BY <1>1, <2>1, <2>2, <2>3 DEF Right
<1>6. SUFFICES /\ assertion' \in Assertion
               /\ Len(assertion'.pending_messages) <= MaxPendingMessages
               /\ assertion'.state = "pending" /\ ~assertion'.fault_active =>
                    /\ assertion'.pending_messages = trace'
                    /\ assertion'.fault_activation_stamp = NoTime
                    /\ assertion'.first_zero_stamp = NoTime
                    /\ assertion'.last_zero_stamp = NoTime
               /\ Right(assertion', trace', N + 1, now)
  BY <1>1, <1>3, <1>4 DEF IInv, TypeOK, Assertion, Kept, Right, InOrder
<1>7. CASE s.state # "pending"
  BY <1>1, <1>5, <1>7 DEF ObserveMessage, Right
<1>8. CASE s.state = "pending" /\ ~s.fault_active
  <2>1. assertion' = Keep(s, m)
    BY <1>1, <1>8 DEF ObserveMessage
  <2>2. CASE Len(s.pending_messages) >= MaxPendingMessages
    <3>1. assertion' = Fail(s)
      BY <2>1, <2>2 DEF Keep
    <3> QED BY <1>1, <1>8, <3>1, FailResult, Limits DEF Right
  <2>3. CASE ~(Len(s.pending_messages) >= MaxPendingMessages)
    <3> DEFINE p == Append(s.pending_messages, m)
    <3>1. assertion' = [s EXCEPT !.pending_messages = p]
      BY <2>1, <2>3 DEF Keep
    <3>2. p = trace' /\ p \in Seq(Twist) /\ Len(p) = N + 1 /\ N = Len(s.pending_messages)
      BY <1>1, <1>3, <1>8 DEF Kept
    <3> HIDE DEF p
    <3>3. /\ assertion' \in Assertion /\ assertion'.pending_messages = p
          /\ assertion'.state = "pending" /\ ~assertion'.fault_active
          /\ assertion'.fault_activation_stamp = s.fault_activation_stamp
          /\ assertion'.first_zero_stamp = s.first_zero_stamp
          /\ assertion'.last_zero_stamp = s.last_zero_stamp
      BY <1>1, <1>8, <3>1, <3>2 DEF Assertion
    <3>4. Len(p) <= MaxPendingMessages
      BY <1>3, <2>3, <3>2, Limits
    <3> QED BY <1>1, <1>8, <3>2, <3>3, <3>4 DEF Kept, Right
  <2> QED BY <2>2, <2>3
<1>9. CASE s.state = "pending" /\ s.fault_active
  <2>1. assertion' = Judge(s, m)
    BY <1>1, <1>9 DEF ObserveMessage
  <2>2. s.fault_activation_stamp <= trace'[N + 1].stamp
    <3>1. s.fault_activation_stamp \in 0..TriggerWithin
      BY <1>1, <1>9 DEF Right
    <3>2. s.fault_activation_stamp \in 0..now
      BY <1>1, <3>1, Limits DEF Assertion
    <3> QED BY <1>1, <1>2, <1>3, <3>2
  <2>3. Right(assertion', trace', N + 1, now)
    <3>1. N \in 0..Len(trace') /\ N + 1 \in 1..Len(trace')
      BY <1>3
    <3> QED BY <1>1, <1>3, <1>4, <1>5, <1>9, <2>2, <3>1, ObserveRight
  <2>4. /\ assertion' \in Assertion /\ assertion'.fault_active
        /\ assertion'.pending_messages \in {<<>>, s.pending_messages}
    BY <1>1, <1>2, <1>9, <2>1, JudgeType
  <2>5. Len(<<>>) = 0
    OBVIOUS
  <2> QED BY <1>1, <2>3, <2>4, <2>5, Limits
<1> QED BY <1>7, <1>8, <1>9 DEF Assertion

LEMMA UpdateIInv == IInv /\ Update => IInv'
<1> SUFFICES ASSUME IInv, Update PROVE IInv'
  OBVIOUS
<1> DEFINE N == Len(trace)
<1>1. /\ now \in Nat /\ UNCHANGED <<channel, events, trace, now>>
      /\ assertion' = UpdateAt(assertion, now)
      /\ assertion \in Assertion /\ trace \in Seq(Twist)
      /\ Len(assertion.pending_messages) <= MaxPendingMessages
      /\ InOrder(trace, now) /\ Kept /\ Right(assertion, trace, N, now)
      /\ channel \in Seq(-1..now)
  BY DEF IInv, TypeOK, Update
<1>2. N \in Nat /\ N \in 0..N /\ now \in 0..now
      /\ \A k \in (N + 1)..N : now <= trace[k].stamp
  BY <1>1, Commands
<1>3. Right(assertion', trace, N, now)
  BY <1>1, <1>2, UpdateRight
<1>4. /\ assertion' \in Assertion
      /\ assertion'.state # "pending" \/ assertion' = assertion
      /\ assertion'.pending_messages \in {<<>>, assertion.pending_messages}
  BY <1>1, UpdateType
<1>5. Len(assertion'.pending_messages) <= MaxPendingMessages
  <2>1. Len(<<>>) = 0
    OBVIOUS
  <2> QED BY <1>1, <1>4, <2>1, Limits
<1> QED BY <1>1, <1>3, <1>4, <1>5 DEF IInv, TypeOK, Assertion, Kept, Right, InOrder

LEMMA NextIInv == IInv /\ [Next]_vars => IInv'
<1> SUFFICES ASSUME IInv, [Next]_vars PROVE IInv'
  OBVIOUS
<1>1. CASE Tick
  BY <1>1, TickIInv
<1>2. CASE ActivateFault
  BY <1>2, ActivateFaultIInv
<1>3. CASE DeliverEvent
  BY <1>3, DeliverEventIInv
<1>4. CASE \E kind \in {"zero", "moving", "nonfinite"} : DeliverTwist(kind)
  BY <1>4, DeliverTwistIInv
<1>5. CASE Update
  BY <1>5, UpdateIInv
<1>6. CASE UNCHANGED vars
  BY <1>6 DEF vars, IInv, TypeOK, Assertion, Kept, Right, InOrder
<1> QED BY <1>1, <1>2, <1>3, <1>4, <1>5, <1>6 DEF Next

-----------------------------------------------------------------------------
LEMMA SpecIInv == Spec => []IInv
<1> QED BY InitIInv, NextIInv, PTL DEF Spec

\* The members of the assertion keep their types, no stamp of it is ahead of the
\* clock, and pending_messages_ never grows beyond kMaxPendingMessages.
THEOREM TypeCorrect == Spec => []TypeOK
<1>1. IInv => TypeOK
  BY DEF IInv
<1> QED BY SpecIInv, <1>1, PTL

\* For all limits, and however many commands and activations come in whatever
\* order and as late as they like: twist_stopped passes only on a good stop and,
\* once it knows of the activation, never fails on one.
THEOREM VerdictAlwaysRight == Spec => []VerdictIsRight
<1> QED BY SpecIInv, RightVerdict, PTL
=============================================================================
