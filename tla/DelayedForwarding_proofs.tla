----------------------- MODULE DelayedForwarding_proofs -----------------------
(* Proofs about DelayedForwarding, for every value of its constants.        *)
EXTENDS DelayedForwarding, SequenceTheorems, WellFoundedInduction, TLAPS

-----------------------------------------------------------------------------
(* What the helpers return.                                                 *)

\* A nonempty set of positions has a first one.
LEMMA FirstPosition ==
  ASSUME NEW K \in SUBSET Nat, K # {}
  PROVE  \E k \in K : \A j \in K : k <= j
<1> DEFINE R == OpToRel(<, Nat)
<1>1. IsWellFoundedOn(R, Nat)
  BY NatLessThanWellFounded
<1>2. \A x, y \in Nat : y < x => <<y, x>> \in R
  BY DEF OpToRel
<1> HIDE DEF R
<1>3. PICK k \in K : \A j \in K : ~(<<j, k>> \in R)
  BY <1>1, WFMin
<1>4. \A j \in K : k <= j
  <2> SUFFICES ASSUME NEW j \in K PROVE k <= j
    OBVIOUS
  <2>1. j \in Nat /\ k \in Nat /\ ~(j < k)
    BY <1>2, <1>3
  <2> QED BY <2>1
<1> QED BY <1>4

\* flush_delayed() has a well-defined number of items to take, for any queue:
\* the due ones in front of the first that is not due.
LEMMA DueResult ==
  ASSUME NEW queue \in Seq(Held), NEW t \in Nat
  PROVE  /\ Due(queue, t) \in 0..Len(queue)
         /\ \A j \in 1..Due(queue, t) : queue[j].release <= t
         /\ Due(queue, t) < Len(queue) => t < queue[Due(queue, t) + 1].release
<1> DEFINE P(k) == /\ \A j \in 1..k : queue[j].release <= t
                   /\ k < Len(queue) => t < queue[k + 1].release
           Waiting == {j \in 1..Len(queue) : t < queue[j].release}
<1>1. Len(queue) \in Nat /\ \A j \in 1..Len(queue) : queue[j].release \in Nat
  <2>1. Len(queue) \in Nat
    BY LenProperties
  <2>2. \A j \in 1..Len(queue) : queue[j] \in Held
    BY ElementOfSeq
  <2> QED BY <2>1, <2>2 DEF Held
<1>2. \E k \in 0..Len(queue) : P(k)
  <2>1. CASE Waiting = {}
    <3>1. P(Len(queue))
      BY <1>1, <2>1
    <3> QED BY <1>1, <3>1
  <2>2. CASE Waiting # {}
    <3>1. PICK m \in Waiting : \A j \in Waiting : m <= j
      <4>1. Waiting \in SUBSET Nat
        BY <1>1
      <4> HIDE DEF Waiting
      <4> QED BY <2>2, <4>1, FirstPosition
    <3>2. m \in 1..Len(queue) /\ m - 1 \in 0..Len(queue) /\ (m - 1) + 1 = m
      BY <1>1
    <3>3. \A j \in 1..(m - 1) : j \in 1..Len(queue) /\ j \notin Waiting
      BY <1>1, <3>1, <3>2
    <3>4. P(m - 1)
      BY <1>1, <3>2, <3>3
    <3> QED BY <3>2, <3>4
  <2> QED BY <2>1, <2>2
<1>3. Due(queue, t) = CHOOSE k \in 0..Len(queue) : P(k)
  BY DEF Due
<1>4. Due(queue, t) \in 0..Len(queue) /\ P(Due(queue, t))
  <2> HIDE DEF P
  <2> QED BY <1>2, <1>3
<1> QED BY <1>4

\* The next call of the flush timer is at most a period after the call that
\* sets it, and not before.
LEMMA NextCallResult ==
  ASSUME NEW due \in Nat, NEW t \in Nat, due <= t
  PROVE  NextCall(due, t) \in t..(t + FlushPeriod)
<1>1. FlushPeriod \in Nat \ {0}
  BY ForwardingAssumption
<1>2. (due - t) % FlushPeriod \in 0..FlushPeriod
  BY <1>1
<1> QED BY <1>1, <1>2 DEF NextCall

-----------------------------------------------------------------------------
(* The inductive invariant.  Order needs to know that numbers are given out  *)
(* in order, which ExactlyOnce says, and that a message is in one place.     *)
(* That no message is much too late needs the timer: its next call is at     *)
(* most a period away, and less than a period after the release of a message *)
(* at or before each position of the queue.                                  *)

Punctual ==
  /\ flushDue <= now + FlushPeriod
  /\ \A k \in DOMAIN delayed : \E j \in 1..k : flushDue < delayed[j].release + FlushPeriod

IInv == TypeOK /\ ExactlyOnce /\ InOrder /\ NeverEarly /\ Punctual

LEMMA InitIInv == Init => IInv
<1> SUFFICES ASSUME Init PROVE IInv
  OBVIOUS
<1>1. /\ delayed = <<>> /\ delayed \in Seq(Held) /\ DOMAIN delayed = {}
      /\ published = <<>> /\ published \in Seq(Published) /\ DOMAIN published = {}
  BY DEF Init
<1>2. TypeOK
  BY <1>1, ForwardingAssumption DEF Init, TypeOK
<1>3. ExactlyOnce /\ InOrder /\ NeverEarly
  BY <1>1 DEF Init, ExactlyOnce, InOrder, NeverEarly
<1>4. Punctual
  BY <1>1, ForwardingAssumption DEF Init, Punctual
<1> QED BY <1>2, <1>3, <1>4 DEF IInv

-----------------------------------------------------------------------------
(* One lemma per action.                                                    *)

\* The facts of the invariant about positions, with their ranges.
LEMMA Positions ==
  ASSUME TypeOK
  PROVE  /\ Len(delayed) \in Nat /\ DOMAIN delayed = 1..Len(delayed)
         /\ Len(published) \in Nat /\ DOMAIN published = 1..Len(published)
         /\ \A j \in 1..Len(delayed) : delayed[j] \in Held
         /\ \A j \in 1..Len(published) : published[j] \in Published
<1>1. delayed \in Seq(Held) /\ published \in Seq(Published)
  BY DEF TypeOK
<1> QED BY <1>1, LenProperties, ElementOfSeq

LEMMA TickStep == IInv /\ Tick => IInv'
<1> SUFFICES ASSUME IInv, Tick PROVE IInv'
  OBVIOUS
<1>1. TypeOK'
  BY ForwardingAssumption DEF IInv, TypeOK, Tick
<1>2. ExactlyOnce' /\ InOrder' /\ NeverEarly'
  BY DEF IInv, Tick, ExactlyOnce, InOrder, NeverEarly, InQueue, InOutput
<1>3. Punctual'
  BY ForwardingAssumption DEF IInv, TypeOK, Tick, Punctual
<1> QED BY <1>1, <1>2, <1>3 DEF IInv

LEMMA DropStep == IInv /\ Drop => IInv'
<1> SUFFICES ASSUME IInv, Drop PROVE IInv'
  OBVIOUS
<1>1. TypeOK /\ ExactlyOnce
  BY DEF IInv
<1>2. TypeOK'
  BY <1>1, ForwardingAssumption DEF TypeOK, Drop
<1>3. InOrder' /\ NeverEarly' /\ Punctual'
  BY DEF IInv, Drop, InOrder, NeverEarly, Punctual
<1>4. ExactlyOnce'
  <2>1. arrived \in Nat /\ arrived' = arrived + 1
    BY <1>1, ForwardingAssumption DEF TypeOK, Drop
  <2>2. \A n : InQueue(n)' = InQueue(n) /\ InOutput(n)' = InOutput(n)
    BY DEF Drop, InQueue, InOutput
  <2>3. InQueue(arrived + 1) = {} /\ InOutput(arrived + 1) = {}
    BY <1>1, <2>1 DEF ExactlyOnce, InQueue, InOutput
  <2> QED BY <1>1, <2>1, <2>2, <2>3 DEF ExactlyOnce, Drop
<1> QED BY <1>2, <1>3, <1>4 DEF IInv

\* A message that is held has a new number and goes behind all the others.
LEMMA DelayStep == \A d \in Delays : IInv /\ Delay(d) => IInv'
<1> SUFFICES ASSUME NEW d \in Delays, IInv, Delay(d) PROVE IInv'
  OBVIOUS
<1> DEFINE m == [n |-> arrived + 1, release |-> now + d]
           q == Len(delayed)
<1>1. TypeOK /\ ExactlyOnce /\ InOrder /\ NeverEarly /\ Punctual
  BY DEF IInv
<1>2. arrived \in Nat /\ arrived' = arrived + 1 /\ arrived' \in 0..MaxMessages
  BY <1>1, ForwardingAssumption DEF TypeOK, Delay
<1>3. m \in Held /\ m.n = arrived + 1 /\ now < m.release
  BY <1>1, <1>2, ForwardingAssumption DEF TypeOK, Held, Delay
<1>4. delayed' = Append(delayed, m) /\ UNCHANGED <<now, dropped, published, flushDue>>
  BY DEF Delay, Hold
<1> HIDE DEF m
<1>5. /\ delayed' \in Seq(Held) /\ Len(delayed') = q + 1 /\ DOMAIN delayed' = 1..(q + 1)
      /\ \A j \in 1..q : delayed'[j] = delayed[j]
      /\ delayed'[q + 1] = m
  BY <1>1, <1>3, <1>4, AppendProperties, LenProperties DEF TypeOK
<1>6. /\ q \in Nat /\ DOMAIN delayed = 1..q
      /\ \A j \in 1..q : delayed[j].n \in 1..arrived
      /\ \A j \in DOMAIN published : published[j].n \in 1..arrived
  BY <1>1, Positions DEF ExactlyOnce
<1>7. TypeOK'
  BY <1>1, <1>2, <1>4, <1>5 DEF TypeOK
<1>8. InOrder'
  BY <1>1, <1>2, <1>3, <1>4, <1>5, <1>6 DEF InOrder
<1>9. NeverEarly'
  BY <1>1, <1>4 DEF NeverEarly
<1>10. ExactlyOnce'
  <2>1. \A n \in 1..arrived : (InQueue(n)' # {} <=> InQueue(n) # {})
    BY <1>2, <1>3, <1>5, <1>6 DEF InQueue
  <2>2. \A n : InOutput(n)' = InOutput(n)
    BY <1>4 DEF InOutput
  <2>3. \A n : n = arrived + 1 => q + 1 \in InQueue(n)'
    BY <1>3, <1>5, <1>6 DEF InQueue
  <2>7. \A n : n = arrived + 1 => InOutput(n) = {}
    BY <1>2, <1>6 DEF InOutput
  <2>8. arrived + 1 \notin dropped
    BY <1>1, <1>2 DEF TypeOK
  <2>4. \A j \in DOMAIN delayed' : delayed'[j].n \in 1..(arrived + 1)
    BY <1>2, <1>3, <1>5, <1>6
  <2>5. \A j, k \in DOMAIN delayed' : delayed'[j].n = delayed'[k].n => j = k
    BY <1>1, <1>2, <1>3, <1>5, <1>6 DEF ExactlyOnce
  <2>6. \A n \in 1..(arrived + 1) : n \in 1..arrived \/ n = arrived + 1
    BY <1>2
  <2>9. ASSUME NEW n \in 1..arrived'
        PROVE  /\ n \in dropped' \/ InQueue(n)' # {} \/ InOutput(n)' # {}
               /\ n \in dropped' => InQueue(n)' = {} /\ InOutput(n)' = {}
               /\ InQueue(n)' # {} => InOutput(n)' = {}
    <3>1. CASE n \in 1..arrived
      BY <1>1, <1>4, <2>1, <2>2, <3>1 DEF ExactlyOnce
    <3>2. CASE n = arrived + 1
      BY <1>4, <2>2, <2>3, <2>7, <2>8, <3>2
    <3> QED BY <1>2, <2>6, <3>1, <3>2
  <2>10. /\ \A j \in DOMAIN published' : published'[j].n \in 1..arrived'
         /\ \A j, k \in DOMAIN published' : published'[j].n = published'[k].n => j = k
    BY <1>1, <1>2, <1>4, <1>6 DEF ExactlyOnce
  <2> QED BY <1>2, <2>4, <2>5, <2>9, <2>10 DEF ExactlyOnce
<1>11. Punctual'
  <2>1. now \in Nat /\ flushDue \in Nat /\ FlushPeriod \in Nat /\ m.release \in Nat
    BY <1>1, <1>3, ForwardingAssumption DEF TypeOK, Held
  <2>2. flushDue < m.release + FlushPeriod
    BY <1>1, <1>3, <2>1 DEF Punctual
  <2>3. ASSUME NEW k \in 1..(q + 1)
        PROVE  \E j \in 1..k : flushDue < delayed'[j].release + FlushPeriod
    <3>1. CASE k \in 1..q
      <4>1. PICK j \in 1..k : flushDue < delayed[j].release + FlushPeriod
        BY <1>1, <1>6, <3>1 DEF Punctual
      <4>2. j \in 1..q
        BY <1>6, <3>1
      <4> QED BY <1>5, <4>1, <4>2
    <3>2. CASE k = q + 1
      BY <1>5, <1>6, <2>2, <3>2
    <3> QED BY <1>6, <3>1, <3>2
  <2> QED BY <1>1, <1>4, <1>5, <2>3 DEF Punctual
<1> QED BY <1>7, <1>8, <1>9, <1>10, <1>11 DEF IInv

\* A message that is forwarded at once has a new number and is due now.
LEMMA ForwardStep == IInv /\ Forward => IInv'
<1> SUFFICES ASSUME IInv, Forward PROVE IInv'
  OBVIOUS
<1> DEFINE m == Publish([n |-> arrived + 1, release |-> now], now, "callback")
           p == Len(published)
<1>1. TypeOK /\ ExactlyOnce /\ InOrder /\ NeverEarly /\ Punctual
  BY DEF IInv
<1>2. arrived \in Nat /\ arrived' = arrived + 1 /\ arrived' \in 0..MaxMessages
  BY <1>1, ForwardingAssumption DEF TypeOK, Forward
<1>3. /\ m \in Published /\ m.n = arrived + 1 /\ m.release = now /\ m.at = now
      /\ m.via = "callback" /\ now \in Nat
  BY <1>1, <1>2 DEF TypeOK, Published, Publish
<1>4. published' = Append(published, m) /\ UNCHANGED <<now, dropped, delayed, flushDue>>
  BY DEF Forward
<1> HIDE DEF m
<1>5. /\ published' \in Seq(Published) /\ Len(published') = p + 1
      /\ DOMAIN published' = 1..(p + 1)
      /\ \A j \in 1..p : published'[j] = published[j]
      /\ published'[p + 1] = m
  BY <1>1, <1>3, <1>4, AppendProperties, LenProperties DEF TypeOK
<1>6. /\ p \in Nat /\ DOMAIN published = 1..p
      /\ \A j \in 1..p : published[j].n \in 1..arrived
      /\ \A j \in DOMAIN delayed : delayed[j].n \in 1..arrived
  BY <1>1, Positions DEF ExactlyOnce
<1>7. TypeOK'
  BY <1>1, <1>2, <1>4, <1>5 DEF TypeOK
<1>8. InOrder'
  BY <1>1, <1>2, <1>3, <1>4, <1>5, <1>6 DEF InOrder
<1>9. NeverEarly'
  BY <1>1, <1>3, <1>5, <1>6 DEF NeverEarly
<1>10. ExactlyOnce'
  <2>1. \A n \in 1..arrived : (InOutput(n)' # {} <=> InOutput(n) # {})
    BY <1>2, <1>3, <1>5, <1>6 DEF InOutput
  <2>2. \A n : InQueue(n)' = InQueue(n)
    BY <1>4 DEF InQueue
  <2>3. \A n : n = arrived + 1 => p + 1 \in InOutput(n)'
    BY <1>3, <1>5, <1>6 DEF InOutput
  <2>7. \A n : n = arrived + 1 => InQueue(n) = {}
    BY <1>2, <1>6 DEF InQueue
  <2>8. arrived + 1 \notin dropped
    BY <1>1, <1>2 DEF TypeOK
  <2>4. \A j \in DOMAIN published' : published'[j].n \in 1..(arrived + 1)
    BY <1>2, <1>3, <1>5, <1>6
  <2>5. \A j, k \in DOMAIN published' : published'[j].n = published'[k].n => j = k
    BY <1>1, <1>2, <1>3, <1>5, <1>6 DEF ExactlyOnce
  <2>6. \A n \in 1..(arrived + 1) : n \in 1..arrived \/ n = arrived + 1
    BY <1>2
  <2>9. ASSUME NEW n \in 1..arrived'
        PROVE  /\ n \in dropped' \/ InQueue(n)' # {} \/ InOutput(n)' # {}
               /\ n \in dropped' => InQueue(n)' = {} /\ InOutput(n)' = {}
               /\ InQueue(n)' # {} => InOutput(n)' = {}
    <3>1. CASE n \in 1..arrived
      BY <1>1, <1>4, <2>1, <2>2, <3>1 DEF ExactlyOnce
    <3>2. CASE n = arrived + 1
      BY <1>4, <2>2, <2>3, <2>7, <2>8, <3>2
    <3> QED BY <1>2, <2>6, <3>1, <3>2
  <2>10. /\ \A j \in DOMAIN delayed' : delayed'[j].n \in 1..arrived'
         /\ \A j, k \in DOMAIN delayed' : delayed'[j].n = delayed'[k].n => j = k
    BY <1>1, <1>2, <1>4, <1>6 DEF ExactlyOnce
  <2> QED BY <1>2, <2>4, <2>5, <2>9, <2>10 DEF ExactlyOnce
<1>11. Punctual'
  BY <1>1, <1>4 DEF Punctual
<1> QED BY <1>7, <1>8, <1>9, <1>10, <1>11 DEF IInv

\* What flush_delayed() does to the queue and the output, by position: the
\* first k items of the one become the last k of the other.
LEMMA FlushResult ==
  ASSUME TypeOK, FlushDelayed
  PROVE  \E k \in 0..Len(delayed) :
           /\ \A j \in 1..k : delayed[j].release <= now
           /\ k < Len(delayed) => now < delayed[k + 1].release
           /\ published' \in Seq(Published) /\ delayed' \in Seq(Held)
           /\ Len(published') = Len(published) + k
           /\ Len(delayed') = Len(delayed) - k
           /\ \A j \in 1..Len(published) : published'[j] = published[j]
           /\ \A j \in 1..k :
                published'[Len(published) + j] = Publish(delayed[j], now, "flush")
           /\ \A j \in 1..(Len(delayed) - k) : delayed'[j] = delayed[k + j]
<1> DEFINE k == Due(delayed, now)
           p == Len(published)
           out == [j \in 1..k |-> Publish(delayed[j], now, "flush")]
<1>1. /\ delayed \in Seq(Held) /\ published \in Seq(Published) /\ now \in Nat
      /\ published' = published \o out /\ delayed' = SubSeq(delayed, k + 1, Len(delayed))
  BY DEF TypeOK, FlushDelayed, Rest
<1>2. /\ k \in 0..Len(delayed) /\ \A j \in 1..k : delayed[j].release <= now
      /\ k < Len(delayed) => now < delayed[k + 1].release
  BY <1>1, DueResult
<1> HIDE DEF k
<1>3. /\ Len(delayed) \in Nat /\ p \in Nat
      /\ \A j \in 1..Len(delayed) : delayed[j] \in Held
  BY Positions
<1>4. out \in Seq(Published) /\ Len(out) = k
  <2>1. \A j \in 1..k : Publish(delayed[j], now, "flush") \in Published
    <3> SUFFICES ASSUME NEW j \in 1..k PROVE Publish(delayed[j], now, "flush") \in Published
      OBVIOUS
    <3>1. delayed[j] \in Held
      BY <1>2, <1>3
    <3> QED BY <1>1, <3>1 DEF Publish, Published, Held
  <2>2. k \in Nat
    BY <1>2, <1>3
  <2>3. out \in Seq(Published)
    <3>1. out \in [1..k -> Published]
      BY <2>1
    <3> QED BY <2>2, <3>1, SeqDef
  <2>4. DOMAIN out = 1..Len(out) /\ DOMAIN out = 1..k /\ Len(out) \in Nat
    BY <2>3, LenProperties
  <2> QED BY <2>2, <2>3, <2>4
<1>5. \A j \in 1..k : out[j] = Publish(delayed[j], now, "flush")
  OBVIOUS
<1> HIDE DEF out
<1>6. /\ published' \in Seq(Published) /\ Len(published') = p + k
      /\ \A j \in 1..(p + k) : published'[j] = IF j <= p THEN published[j] ELSE out[j - p]
  BY <1>1, <1>4, ConcatProperties
<1>7. \A j \in 1..p : published'[j] = published[j]
  <2> SUFFICES ASSUME NEW j \in 1..p PROVE published'[j] = published[j]
    OBVIOUS
  <2>1. j \in 1..(p + k) /\ j <= p
    BY <1>2, <1>3
  <2> QED BY <1>6, <2>1
<1>8. \A j \in 1..k : published'[p + j] = Publish(delayed[j], now, "flush")
  <2> SUFFICES ASSUME NEW j \in 1..k
               PROVE  published'[p + j] = Publish(delayed[j], now, "flush")
    OBVIOUS
  <2>1. p + j \in 1..(p + k) /\ ~(p + j <= p) /\ (p + j) - p = j
    BY <1>2, <1>3
  <2>2. published'[p + j] = out[j]
    BY <1>6, <2>1
  <2> QED BY <1>5, <2>2
<1>9. /\ delayed' \in Seq(Held) /\ Len(delayed') = Len(delayed) - k
      /\ \A j \in 1..(Len(delayed) - k) : delayed'[j] = delayed[k + j]
  <2>1. k + 1 \in Int /\ Len(delayed) \in Int
        /\ \A j \in (k + 1)..Len(delayed) : delayed[j] \in Held
    BY <1>2, <1>3
  <2>2. /\ SubSeq(delayed, k + 1, Len(delayed)) \in Seq(Held)
        /\ Len(SubSeq(delayed, k + 1, Len(delayed))) =
             IF k + 1 <= Len(delayed) THEN Len(delayed) - (k + 1) + 1 ELSE 0
        /\ \A j \in 1..(Len(delayed) - (k + 1) + 1) :
             SubSeq(delayed, k + 1, Len(delayed))[j] = delayed[(k + 1) + j - 1]
    BY <2>1, SubSeqProperties
  <2>3. /\ \A j \in Int : (k + 1) + j - 1 = k + j
        /\ Len(delayed) - (k + 1) + 1 = Len(delayed) - k
        /\ (IF k + 1 <= Len(delayed) THEN Len(delayed) - (k + 1) + 1 ELSE 0)
             = Len(delayed) - k
    BY <1>2, <1>3
  <2>4. delayed' \in Seq(Held) /\ Len(delayed') = Len(delayed) - k
    BY <1>1, <2>2, <2>3
  <2>5. ASSUME NEW j \in 1..(Len(delayed) - k) PROVE delayed'[j] = delayed[k + j]
    <3>1. j \in Int /\ j \in 1..(Len(delayed) - (k + 1) + 1)
      BY <1>2, <1>3
    <3>2. delayed'[j] = delayed[(k + 1) + j - 1]
      BY <1>1, <2>2, <3>1
    <3> QED BY <2>3, <3>1, <3>2
  <2> QED BY <2>4, <2>5
<1> QED BY <1>2, <1>6, <1>7, <1>8, <1>9

LEMMA FlushStep == IInv /\ FlushDelayed => IInv'
<1> SUFFICES ASSUME IInv, FlushDelayed PROVE IInv'
  OBVIOUS
<1> DEFINE q == Len(delayed)
           p == Len(published)
<1>1. TypeOK /\ ExactlyOnce /\ InOrder /\ NeverEarly /\ Punctual
  BY DEF IInv
<1>2. PICK k \in 0..q :
        /\ \A j \in 1..k : delayed[j].release <= now
        /\ k < q => now < delayed[k + 1].release
        /\ published' \in Seq(Published) /\ delayed' \in Seq(Held)
        /\ Len(published') = p + k
        /\ Len(delayed') = q - k
        /\ \A j \in 1..p : published'[j] = published[j]
        /\ \A j \in 1..k : published'[p + j] = Publish(delayed[j], now, "flush")
        /\ \A j \in 1..(q - k) : delayed'[j] = delayed[k + j]
  BY <1>1, FlushResult
<1>3. /\ q \in Nat /\ DOMAIN delayed = 1..q
      /\ p \in Nat /\ DOMAIN published = 1..p
  BY <1>1, Positions
<1>4. DOMAIN published' = 1..(p + k) /\ DOMAIN delayed' = 1..(q - k)
  BY <1>2, LenProperties
<1>5. /\ now \in Nat /\ flushDue' \in now..(now + FlushPeriod) /\ FlushPeriod \in Nat
      /\ UNCHANGED <<now, arrived, dropped>>
  BY <1>1, NextCallResult, ForwardingAssumption DEF TypeOK, FlushDelayed
<1>6. TypeOK'
  <2>1. flushDue' \in Nat /\ now <= flushDue'
    BY <1>5
  <2>2. now' <= flushDue' + MaxLate
    <3>1. MaxLate \in Nat /\ now' = now /\ now \in Nat
      BY <1>5, ForwardingAssumption
    <3>2. \A d \in Nat : now <= d => now <= d + MaxLate
      BY <3>1
    <3> QED BY <2>1, <3>1, <3>2
  <2> QED BY <1>1, <1>2, <1>5, <2>1, <2>2 DEF TypeOK
<1>7. \A j \in 1..k : /\ published'[p + j].n = delayed[j].n
                      /\ published'[p + j].release = delayed[j].release
                      /\ published'[p + j].at = now
                      /\ published'[p + j].via = "flush"
  <2> SUFFICES ASSUME NEW j \in 1..k
               PROVE  /\ published'[p + j].n = delayed[j].n
                      /\ published'[p + j].release = delayed[j].release
                      /\ published'[p + j].at = now
                      /\ published'[p + j].via = "flush"
    OBVIOUS
  <2>1. published'[p + j] = Publish(delayed[j], now, "flush")
    BY <1>2
  <2> QED BY <2>1 DEF Publish
\* Every position of the output is an old one or the new place of an item.
<1>8. \A j \in 1..(p + k) : j \in 1..p \/ \E i \in 1..k : j = p + i
  <2> SUFFICES ASSUME NEW j \in 1..(p + k), j \notin 1..p PROVE \E i \in 1..k : j = p + i
    OBVIOUS
  <2>1. j - p \in 1..k /\ j = p + (j - p)
    BY <1>2, <1>3
  <2> QED BY <2>1
<1>9. \A j \in 1..(q - k) : k + j \in 1..q /\ k < k + j
  BY <1>2, <1>3
<1>10. \A j \in 1..k : j \in 1..q
  BY <1>2, <1>3
<1>11. NeverEarly'
  <2> SUFFICES ASSUME NEW j \in 1..(p + k) PROVE published'[j].release <= published'[j].at
    BY <1>4 DEF NeverEarly
  <2>1. CASE j \in 1..p
    BY <1>1, <1>2, <1>3, <2>1 DEF NeverEarly
  <2>2. CASE \E i \in 1..k : j = p + i
    BY <1>2, <1>7, <2>2
  <2> QED BY <1>8, <2>1, <2>2
<1>12. InOrder'
  <2>1. \A i, j \in 1..(q - k) : i < j => delayed'[i].n < delayed'[j].n
    <3> SUFFICES ASSUME NEW i \in 1..(q - k), NEW j \in 1..(q - k), i < j
                 PROVE  delayed'[i].n < delayed'[j].n
      OBVIOUS
    <3>1. k + i \in 1..q /\ k + j \in 1..q /\ k + i < k + j
      BY <1>2, <1>3, <1>9
    <3>2. delayed[k + i].n < delayed[k + j].n
      BY <1>1, <1>3, <3>1 DEF InOrder
    <3>3. delayed'[i] = delayed[k + i] /\ delayed'[j] = delayed[k + j]
      BY <1>2
    <3> QED BY <3>2, <3>3
  <2>2. ASSUME NEW i \in 1..(p + k), NEW j \in 1..(p + k), i < j,
               published'[i].via = "flush"
        PROVE  published'[i].n < published'[j].n
    <3>1. CASE i \in 1..p /\ j \in 1..p
      BY <1>1, <1>2, <1>3, <2>2, <3>1 DEF InOrder
    <3>2. CASE i \in 1..p /\ \E b \in 1..k : j = p + b
      <4>1. PICK b \in 1..k : j = p + b
        BY <3>2
      <4>2. published[i].via = "flush" /\ b \in 1..q
        BY <1>2, <1>10, <2>2, <3>2
      <4>3. published[i].n < delayed[b].n
        BY <1>1, <1>3, <3>2, <4>2 DEF InOrder
      <4> QED BY <1>2, <1>7, <3>2, <4>1, <4>3
    <3>3. CASE (\E a \in 1..k : i = p + a) /\ j \in 1..p
      BY <1>2, <1>3, <2>2, <3>3
    <3>4. CASE (\E a \in 1..k : i = p + a) /\ (\E b \in 1..k : j = p + b)
      <4>1. PICK a \in 1..k, b \in 1..k : i = p + a /\ j = p + b
        BY <3>4
      <4>2. a \in 1..q /\ b \in 1..q /\ a < b
        BY <1>2, <1>3, <1>10, <2>2, <4>1
      <4>3. delayed[a].n < delayed[b].n
        BY <1>1, <1>3, <4>2 DEF InOrder
      <4>4. published'[i].n = delayed[a].n /\ published'[j].n = delayed[b].n
        BY <1>7, <4>1
      <4> QED BY <4>3, <4>4
    <3> QED BY <1>8, <3>1, <3>2, <3>3, <3>4
  <2>3. ASSUME NEW i \in 1..(p + k), NEW j \in 1..(q - k), published'[i].via = "flush"
        PROVE  published'[i].n < delayed'[j].n
    <3>1. k + j \in 1..q /\ delayed'[j] = delayed[k + j]
      BY <1>2, <1>9
    <3>2. CASE i \in 1..p
      BY <1>1, <1>2, <1>3, <2>3, <3>1, <3>2 DEF InOrder
    <3>3. CASE \E a \in 1..k : i = p + a
      <4>1. PICK a \in 1..k : i = p + a
        BY <3>3
      <4>2. a \in 1..q /\ a < k + j
        BY <1>2, <1>3, <1>10
      <4> QED BY <1>1, <1>3, <1>7, <3>1, <4>1, <4>2 DEF InOrder
    <3> QED BY <1>8, <3>2, <3>3
  <2> QED BY <1>4, <2>1, <2>2, <2>3 DEF InOrder
<1>13. ExactlyOnce'
  <2>1. \A j \in 1..(q - k) : delayed'[j].n \in 1..arrived
    BY <1>1, <1>2, <1>3, <1>9 DEF ExactlyOnce
  <2>2. ASSUME NEW j \in 1..(p + k) PROVE published'[j].n \in 1..arrived
    <3>1. CASE j \in 1..p
      BY <1>1, <1>2, <1>3, <3>1 DEF ExactlyOnce
    <3>2. CASE \E i \in 1..k : j = p + i
      <4>1. PICK i \in 1..k : j = p + i
        BY <3>2
      <4>2. i \in 1..q /\ published'[j].n = delayed[i].n
        BY <1>7, <1>10, <4>1
      <4> QED BY <1>1, <1>3, <4>2 DEF ExactlyOnce
    <3> QED BY <1>8, <3>1, <3>2
  <2>3. ASSUME NEW i \in 1..(q - k), NEW j \in 1..(q - k), delayed'[i].n = delayed'[j].n
        PROVE  i = j
    <3>1. k + i \in 1..q /\ k + j \in 1..q /\ delayed[k + i].n = delayed[k + j].n
      BY <1>2, <1>9, <2>3
    <3>2. k + i = k + j
      BY <1>1, <1>3, <3>1 DEF ExactlyOnce
    <3> QED BY <1>2, <1>3, <3>2
  <2>4. ASSUME NEW n \in 1..arrived, NEW i \in 1..q, delayed[i].n = n
        PROVE  n \notin dropped /\ \A j \in 1..p : published[j].n # n
    <3>1. i \in InQueue(n)
      BY <1>3, <2>4 DEF InQueue
    <3>2. n \notin dropped /\ InOutput(n) = {}
      BY <1>1, <3>1 DEF ExactlyOnce
    <3> QED BY <1>3, <3>2 DEF InOutput
  <2>5. ASSUME NEW i \in 1..(p + k), NEW j \in 1..(p + k),
               published'[i].n = published'[j].n
        PROVE  i = j
    <3>1. CASE i \in 1..p /\ j \in 1..p
      BY <1>1, <1>2, <1>3, <2>5, <3>1 DEF ExactlyOnce
    <3>2. ASSUME NEW a \in 1..p, NEW b \in 1..k
          PROVE  published'[a].n # published'[p + b].n
      <4>1. b \in 1..q /\ delayed[b].n \in 1..arrived
        BY <1>1, <1>3, <1>10 DEF ExactlyOnce
      <4> QED BY <1>2, <1>7, <2>4, <4>1
    <3>3. CASE (\E a \in 1..k : i = p + a) /\ (\E b \in 1..k : j = p + b)
      <4>1. PICK a \in 1..k, b \in 1..k : i = p + a /\ j = p + b
        BY <3>3
      <4>2. a \in 1..q /\ b \in 1..q /\ delayed[a].n = delayed[b].n
        BY <1>7, <1>10, <2>5, <4>1
      <4>3. a = b
        BY <1>1, <1>3, <4>2 DEF ExactlyOnce
      <4> QED BY <4>1, <4>3
    <3> QED BY <1>8, <2>5, <3>1, <3>2, <3>3
  <2>6. ASSUME NEW n \in 1..arrived
        PROVE  /\ n \in dropped \/ InQueue(n)' # {} \/ InOutput(n)' # {}
               /\ n \in dropped => InQueue(n)' = {} /\ InOutput(n)' = {}
               /\ InQueue(n)' # {} => InOutput(n)' = {}
    \* Where the positions of n after the flush come from.
    <3>1. \A j \in InQueue(n)' : k + j \in 1..q /\ delayed[k + j].n = n /\ j \in Nat
      BY <1>2, <1>3, <1>4, <1>9 DEF InQueue
    <3>2. \A j \in InOutput(n)' : \/ j \in 1..p /\ published[j].n = n
                                  \/ \E i \in 1..k : delayed[i].n = n
      <4> SUFFICES ASSUME NEW j \in InOutput(n)'
                   PROVE  \/ j \in 1..p /\ published[j].n = n
                          \/ \E i \in 1..k : delayed[i].n = n
        OBVIOUS
      <4>1. j \in 1..(p + k) /\ published'[j].n = n
        BY <1>4 DEF InOutput
      <4>2. CASE j \in 1..p
        BY <1>2, <4>1, <4>2
      <4>3. CASE \E i \in 1..k : j = p + i
        BY <1>7, <4>1, <4>3
      <4> QED BY <1>8, <4>1, <4>2, <4>3
    <3>3. CASE n \in dropped
      <4>1. \A j \in 1..q : delayed[j].n # n
        BY <2>4, <3>3
      <4>2. \A j \in 1..p : published[j].n # n
        BY <1>1, <1>3, <3>3 DEF ExactlyOnce, InOutput
      <4> QED BY <1>10, <3>1, <3>2, <3>3, <4>1, <4>2
    <3>4. CASE \E i \in 1..q : delayed[i].n = n
      <4>1. PICK i \in 1..q : delayed[i].n = n
        BY <3>4
      <4>2. n \notin dropped /\ \A j \in 1..p : published[j].n # n
        BY <2>4, <4>1
      <4>3. \A j \in 1..q : delayed[j].n = n => j = i
        BY <1>1, <1>3, <4>1 DEF ExactlyOnce
      <4>4. CASE i \in 1..k
        <5>1. p + i \in InOutput(n)'
          <6>1. p + i \in 1..(p + k)
            <7>1. k \in Nat /\ p \in Nat
              BY <1>2, <1>3
            <7> QED BY <4>4, <7>1
          <6>2. published'[p + i].n = delayed[i].n
            BY <1>7, <4>4
          <6>3. published'[p + i].n = n
            BY <4>1, <6>2
          <6> QED BY <1>4, <6>1, <6>3 DEF InOutput
        <5>2. InQueue(n)' = {}
          <6> SUFFICES ASSUME NEW j \in InQueue(n)' PROVE FALSE
            OBVIOUS
          <6>1. k + j = i /\ j \in Nat /\ j \in 1..(q - k)
            BY <1>4, <3>1, <4>3 DEF InQueue
          <6> QED BY <1>2, <1>3, <4>4, <6>1
        <5> QED BY <4>2, <5>1, <5>2
      <4>5. CASE i \notin 1..k
        <5>1. i - k \in 1..(q - k) /\ k + (i - k) = i
          BY <1>2, <1>3, <4>5
        <5>2. i - k \in InQueue(n)'
          <6>1. delayed'[i - k] = delayed[i]
            BY <1>2, <5>1
          <6> QED BY <1>4, <4>1, <5>1, <6>1 DEF InQueue
        <5>3. InOutput(n)' = {}
          BY <1>10, <3>2, <4>2, <4>3, <4>5
        <5> QED BY <4>2, <5>2, <5>3
      <4> QED BY <4>4, <4>5
    <3>5. CASE n \notin dropped /\ \A i \in 1..q : delayed[i].n # n
      <4>1. InQueue(n) = {} /\ InQueue(n)' = {}
        BY <1>3, <3>1, <3>5 DEF InQueue
      <4>2. InOutput(n) # {}
        BY <1>1, <3>5, <4>1 DEF ExactlyOnce
      <4>3. PICK j \in 1..p : published[j].n = n
        BY <1>3, <4>2 DEF InOutput
      <4>4. j \in InOutput(n)'
        BY <1>2, <1>3, <1>4, <4>3 DEF InOutput
      <4> QED BY <3>5, <4>1, <4>4
    <3> QED BY <3>3, <3>4, <3>5
  <2> QED BY <1>4, <1>5, <2>1, <2>2, <2>3, <2>5, <2>6 DEF ExactlyOnce
<1>14. Punctual'
  <2> SUFFICES ASSUME NEW i \in 1..(q - k)
               PROVE  \E j \in 1..i : flushDue' < delayed'[j].release + FlushPeriod
    BY <1>4, <1>5 DEF Punctual
  <2>1. 1 \in 1..i /\ 1 \in 1..(q - k) /\ k < q /\ k + 1 \in 1..q
    BY <1>2, <1>3
  <2>2. delayed'[1] = delayed[k + 1] /\ now < delayed[k + 1].release
    BY <1>2, <2>1
  <2>3. delayed[k + 1].release \in Nat
    BY <1>1, <2>1, Positions DEF Held
  <2>4. flushDue' < delayed'[1].release + FlushPeriod
    BY <1>5, <2>2, <2>3
  <2> QED BY <2>1, <2>4
<1> QED BY <1>6, <1>11, <1>12, <1>13, <1>14 DEF IInv

-----------------------------------------------------------------------------
LEMMA NextIInv == IInv /\ [Next]_vars => IInv'
<1> SUFFICES ASSUME IInv, [Next]_vars PROVE IInv'
  OBVIOUS
<1>1. CASE Tick
  BY <1>1, TickStep
<1>2. CASE Drop
  BY <1>2, DropStep
<1>3. CASE \E d \in Delays : Delay(d)
  BY <1>3, DelayStep
<1>4. CASE Forward
  BY <1>4, ForwardStep
<1>5. CASE FlushDelayed
  BY <1>5, FlushStep
<1>6. CASE Horizon \/ UNCHANGED vars
  <2>1. UNCHANGED <<now, arrived, dropped, delayed, published, flushDue>>
    BY <1>6 DEF Horizon, vars
  <2>2. TypeOK'
    BY <2>1 DEF IInv, TypeOK
  <2>3. ExactlyOnce' /\ InOrder' /\ NeverEarly' /\ Punctual'
    BY <2>1 DEF IInv, ExactlyOnce, InOrder, NeverEarly, InQueue, InOutput, Punctual
  <2> QED BY <2>2, <2>3 DEF IInv
<1> QED BY <1>1, <1>2, <1>3, <1>4, <1>5, <1>6 DEF Next

\* The inductive invariant holds in every reachable state.
LEMMA SpecIInv == Spec => []IInv
<1> QED BY InitIInv, NextIInv, PTL DEF Spec

\* The injectors' queue, output and timer keep their types, and the timer is
\* never overdue by more than the executor is late.
THEOREM ForwardingTypeCorrect == Spec => []TypeOK
<1>1. IInv => TypeOK
  BY DEF IInv
<1> QED BY SpecIInv, <1>1, PTL

\* No injector loses or duplicates a message, for any faults, delays, flush
\* period and number of messages.
THEOREM NothingLostOrDuplicated == Spec => []ExactlyOnce
<1>1. IInv => ExactlyOnce
  BY DEF IInv
<1> QED BY SpecIInv, <1>1, PTL

\* Held messages leave an injector in the order they came.
THEOREM HeldInOrder == Spec => []InOrder
<1>1. IInv => InOrder
  BY DEF IInv
<1> QED BY SpecIInv, <1>1, PTL

\* delay_ms is a lower bound on the time every message is held.
THEOREM NoneReleasedEarly == Spec => []NeverEarly
<1>1. IInv => NeverEarly
  BY DEF IInv
<1> QED BY SpecIInv, <1>1, PTL

\* And nearly an upper bound: a message waits for those queued before it, and
\* then less than a flush period and the executor's lateness.
THEOREM NoneReleasedMuchLater == Spec => []NotMuchLater
<1>1. IInv => NotMuchLater
  <2> SUFFICES ASSUME IInv, NEW k \in DOMAIN delayed
               PROVE  \E j \in 1..k : now < delayed[j].release + FlushPeriod + MaxLate
    BY DEF NotMuchLater
  <2>1. TypeOK /\ Punctual
    BY DEF IInv
  <2>2. PICK j \in 1..k : flushDue < delayed[j].release + FlushPeriod
    BY <2>1 DEF Punctual
  <2>3. j \in 1..Len(delayed) /\ delayed[j].release \in Nat
    BY <2>1, Positions DEF Held
  <2>4. now < delayed[j].release + FlushPeriod + MaxLate
    BY <2>1, <2>2, <2>3, ForwardingAssumption DEF TypeOK
  <2> QED BY <2>4
<1> QED BY SpecIInv, <1>1, PTL
=============================================================================
