------------------------- MODULE TwistInjector_proofs -------------------------
(* TwistInjector implements DelayedForwarding, and what follows, for every  *)
(* value of the constants.                                                  *)
EXTENDS TwistInjector, FiniteSetTheorems, SequenceTheorems, WellFoundedInduction, TLAPS

-----------------------------------------------------------------------------
(* What the helpers return.                                                 *)

\* A nonempty set of ints that are not negative has a largest one.
LEMMA MaxResult ==
  ASSUME NEW S \in SUBSET (0..IntMax), S # {}
  PROVE  Max(S) \in S /\ \A n \in S : n <= Max(S)
<1>1. IntMax \in Nat
  BY TwistAssumption
<1> DEFINE R == OpToRel(<, Nat)
           Below == {k \in Nat : k <= IntMax /\ IntMax - k \in S}
<1>2. Below \in SUBSET Nat /\ Below # {}
  <2>1. PICK n \in S : TRUE
    OBVIOUS
  <2>2. n \in 0..IntMax /\ IntMax - n \in Nat /\ IntMax - (IntMax - n) = n
    BY <1>1
  <2>3. IntMax - n \in Below
    BY <1>1, <2>2
  <2> QED BY <2>3
<1>3. IsWellFoundedOn(R, Nat) /\ \A x, y \in Nat : y < x => <<y, x>> \in R
  BY NatLessThanWellFounded DEF OpToRel
<1> HIDE DEF R
<1>4. PICK k \in Below : \A j \in Below : ~(<<j, k>> \in R)
  <2> HIDE DEF Below
  <2> QED BY <1>2, <1>3, WFMin
<1>5. k \in Nat /\ IntMax - k \in S
  OBVIOUS
<1>6. \A n \in S : IntMax - k >= n
  <2> SUFFICES ASSUME NEW n \in S PROVE IntMax - k >= n
    OBVIOUS
  <2>1. n \in 0..IntMax /\ IntMax - n \in Below
    BY <1>1
  <2>2. ~(IntMax - n < k)
    BY <1>1, <1>3, <1>4, <1>5, <2>1
  <2> QED BY <1>1, <1>5, <2>1, <2>2
<1>7. Max(S) \in S /\ \A n \in S : Max(S) >= n
  BY <1>5, <1>6 DEF Max
<1> QED
  <2>1. \A n \in S : n \in Int
    BY <1>1
  <2>2. Max(S) \in Int
    BY <1>7, <2>1
  <2> QED BY <1>7, <2>1, <2>2

\* A value that can be appended to is a sequence of something.
IsSequence(s) == \E S : s \in Seq(S)

LEMMA SequenceResult ==
  ASSUME NEW s, IsSequence(s)
  PROVE  Len(s) \in Nat /\ DOMAIN s = 1..Len(s)
<1>1. PICK S : s \in Seq(S)
  BY DEF IsSequence
<1> QED BY <1>1, LenProperties

LEMMA AppendResult ==
  ASSUME NEW s, IsSequence(s), NEW e
  PROVE  /\ IsSequence(Append(s, e))
         /\ Len(Append(s, e)) = Len(s) + 1
         /\ DOMAIN Append(s, e) = 1..(Len(s) + 1)
         /\ \A j \in 1..Len(s) : Append(s, e)[j] = s[j]
         /\ Append(s, e)[Len(s) + 1] = e
<1>1. PICK S : s \in Seq(S)
  BY DEF IsSequence
<1> DEFINE T == S \cup {e}
<1>2. s \in Seq(T) /\ e \in T
  <2>1. Len(s) \in Nat /\ s \in [1..Len(s) -> S]
    BY <1>1, LenProperties
  <2>2. s \in [1..Len(s) -> T]
    BY <2>1
  <2> QED BY <2>1, <2>2, SeqDef
<1>3. /\ Append(s, e) \in Seq(T) /\ Len(Append(s, e)) = Len(s) + 1
      /\ \A j \in 1..Len(s) : Append(s, e)[j] = s[j]
      /\ Append(s, e)[Len(s) + 1] = e
  <2> HIDE DEF T
  <2> QED BY <1>2, AppendProperties
<1>4. DOMAIN Append(s, e) = 1..(Len(s) + 1)
  BY <1>3, LenProperties
<1> QED BY <1>3, <1>4 DEF IsSequence

\* So is a function on 1..k.
LEMMA FunctionResult ==
  ASSUME NEW k \in Nat, NEW g, g = [j \in 1..k |-> g[j]]
  PROVE  IsSequence(g) /\ Len(g) = k
<1> DEFINE T == {g[j] : j \in 1..k}
<1>1. g \in Seq(T)
  <2>1. g \in [1..k -> T]
    OBVIOUS
  <2> HIDE DEF T
  <2> QED BY <2>1, SeqDef
<1>2. DOMAIN g = 1..Len(g) /\ DOMAIN g = 1..k /\ Len(g) \in Nat
  <2> HIDE DEF T
  <2> QED BY <1>1, LenProperties
<1>3. Len(g) = k
  BY <1>2
<1> QED BY <1>1, <1>3 DEF IsSequence

\* Two sequences are over a common set.
LEMMA CommonSet ==
  ASSUME NEW s, NEW t, IsSequence(s), IsSequence(t)
  PROVE  \E S : s \in Seq(S) /\ t \in Seq(S)
<1>1. PICK S, T : s \in Seq(S) /\ t \in Seq(T)
  BY DEF IsSequence
<1>2. s \in Seq(S \cup T) /\ t \in Seq(S \cup T)
  BY <1>1, SeqMonotonic
<1> QED BY <1>2

LEMMA ConcatResult ==
  ASSUME NEW s, NEW t, IsSequence(s), IsSequence(t)
  PROVE  /\ IsSequence(s \o t)
         /\ Len(s \o t) = Len(s) + Len(t)
         /\ \A j \in 1..Len(s) : (s \o t)[j] = s[j]
         /\ \A j \in 1..Len(t) : (s \o t)[Len(s) + j] = t[j]
<1>1. PICK S : s \in Seq(S) /\ t \in Seq(S)
  BY CommonSet
<1>2. Len(s) \in Nat /\ Len(t) \in Nat
  BY <1>1, LenProperties
<1>3. /\ s \o t \in Seq(S) /\ Len(s \o t) = Len(s) + Len(t)
      /\ \A j \in 1..(Len(s) + Len(t)) :
           (s \o t)[j] = IF j <= Len(s) THEN s[j] ELSE t[j - Len(s)]
  BY <1>1, ConcatProperties
<1>4. \A j \in 1..Len(s) : (s \o t)[j] = s[j]
  BY <1>2, <1>3
<1>5. ASSUME NEW j \in 1..Len(t) PROVE (s \o t)[Len(s) + j] = t[j]
  <2>1. /\ Len(s) + j \in 1..(Len(s) + Len(t))
        /\ ~(Len(s) + j <= Len(s)) /\ (Len(s) + j) - Len(s) = j
    BY <1>2
  <2> QED BY <1>3, <2>1
<1> QED BY <1>3, <1>4, <1>5 DEF IsSequence

LEMMA RestResult ==
  ASSUME NEW s, IsSequence(s), NEW k \in 0..Len(s)
  PROVE  /\ IsSequence(SubSeq(s, k + 1, Len(s)))
         /\ Len(SubSeq(s, k + 1, Len(s))) = Len(s) - k
         /\ \A j \in 1..(Len(s) - k) : SubSeq(s, k + 1, Len(s))[j] = s[k + j]
<1>1. PICK S : s \in Seq(S)
  BY DEF IsSequence
<1>2. Len(s) \in Nat /\ \A j \in 1..Len(s) : s[j] \in S
  BY <1>1, LenProperties, ElementOfSeq
<1>3. k + 1 \in Int /\ Len(s) \in Int /\ \A j \in (k + 1)..Len(s) : s[j] \in S
  BY <1>2
<1>4. /\ SubSeq(s, k + 1, Len(s)) \in Seq(S)
      /\ Len(SubSeq(s, k + 1, Len(s))) =
           IF k + 1 <= Len(s) THEN Len(s) - (k + 1) + 1 ELSE 0
      /\ \A j \in 1..(Len(s) - (k + 1) + 1) :
           SubSeq(s, k + 1, Len(s))[j] = s[(k + 1) + j - 1]
  BY <1>3, SubSeqProperties
<1>5. /\ \A j \in Int : (k + 1) + j - 1 = k + j
      /\ Len(s) - (k + 1) + 1 = Len(s) - k
      /\ (IF k + 1 <= Len(s) THEN Len(s) - (k + 1) + 1 ELSE 0) = Len(s) - k
  BY <1>2
<1>6. ASSUME NEW j \in 1..(Len(s) - k) PROVE SubSeq(s, k + 1, Len(s))[j] = s[k + j]
  <2>1. j \in Int /\ j \in 1..(Len(s) - (k + 1) + 1)
    BY <1>2
  <2> QED BY <1>4, <1>5, <2>1
<1> QED BY <1>4, <1>5, <1>6 DEF IsSequence

\* Sequences with the same elements at the same positions are equal.
LEMMA SameSequence ==
  ASSUME NEW s, NEW t, IsSequence(s), IsSequence(t), Len(s) = Len(t),
         \A j \in 1..Len(s) : s[j] = t[j]
  PROVE  s = t
<1>1. PICK S : s \in Seq(S) /\ t \in Seq(S)
  BY CommonSet
<1> QED BY <1>1, SeqEqual

-----------------------------------------------------------------------------
(* The queue and the output of the data path, and what a flush takes.       *)

\* The parts of the type invariant the rest needs.
Shape ==
  /\ now \in Nat
  /\ IsSequence(inputs) /\ IsSequence(delayed) /\ IsSequence(published)
  /\ \A j \in 1..Len(delayed) : delayed[j].release \in Nat

\* The data path of a queue and of an output.
QueueOf(s) == [j \in DOMAIN s |-> Bare(s[j])]
OutputOf(s) == [j \in DOMAIN s |-> BarePublished(s[j])]

LEMMA QueueResult ==
  ASSUME NEW s, IsSequence(s)
  PROVE  /\ IsSequence(QueueOf(s)) /\ Len(QueueOf(s)) = Len(s)
         /\ \A j \in 1..Len(s) : QueueOf(s)[j] = Bare(s[j])
<1>1. Len(s) \in Nat /\ DOMAIN s = 1..Len(s)
  BY SequenceResult
<1>2. /\ QueueOf(s) = [j \in 1..Len(s) |-> QueueOf(s)[j]]
      /\ \A j \in 1..Len(s) : QueueOf(s)[j] = Bare(s[j])
  BY <1>1 DEF QueueOf
<1> QED BY <1>1, <1>2, FunctionResult

LEMMA OutputResult ==
  ASSUME NEW s, IsSequence(s)
  PROVE  /\ IsSequence(OutputOf(s)) /\ Len(OutputOf(s)) = Len(s)
         /\ \A j \in 1..Len(s) : OutputOf(s)[j] = BarePublished(s[j])
<1>1. Len(s) \in Nat /\ DOMAIN s = 1..Len(s)
  BY SequenceResult
<1>2. /\ OutputOf(s) = [j \in 1..Len(s) |-> OutputOf(s)[j]]
      /\ \A j \in 1..Len(s) : OutputOf(s)[j] = BarePublished(s[j])
  BY <1>1 DEF OutputOf
<1> QED BY <1>1, <1>2, FunctionResult

\* A nonempty set of positions has a first one.
LEMMA FirstPosition ==
  ASSUME NEW K \in SUBSET Nat, K # {}
  PROVE  \E k \in K : \A j \in K : k <= j
<1> DEFINE R == OpToRel(<, Nat)
<1>1. IsWellFoundedOn(R, Nat) /\ \A x, y \in Nat : y < x => <<y, x>> \in R
  BY NatLessThanWellFounded DEF OpToRel
<1> HIDE DEF R
<1>2. PICK k \in K : \A j \in K : ~(<<j, k>> \in R)
  BY <1>1, WFMin
<1>3. ASSUME NEW j \in K PROVE k <= j
  <2>1. j \in Nat /\ k \in Nat /\ ~(j < k)
    BY <1>1, <1>2
  <2> QED BY <2>1
<1> QED BY <1>3

\* flush_delayed() takes some number of items from the front.
LEMMA DueResult ==
  ASSUME Shape
  PROVE  Forwarding!Due(Queue, now) \in 0..Len(delayed)
<1> DEFINE q == Len(Queue)
           P(k) == /\ \A j \in 1..k : Queue[j].release <= now
                   /\ k < q => now < Queue[k + 1].release
           Waiting == {j \in 1..q : now < Queue[j].release}
<1>1. /\ q = Len(delayed) /\ q \in Nat /\ now \in Nat
      /\ \A j \in 1..q : Queue[j].release \in Nat
  <2>1. /\ IsSequence(delayed) /\ now \in Nat
        /\ \A j \in 1..Len(delayed) : delayed[j].release \in Nat
    BY DEF Shape
  <2>2. q = Len(delayed) /\ \A j \in 1..Len(delayed) : Queue[j] = Bare(delayed[j])
    BY <2>1, QueueResult DEF Queue, QueueOf
  <2>3. q \in Nat
    BY <2>1, <2>2, SequenceResult
  <2>4. ASSUME NEW j \in 1..q PROVE Queue[j].release \in Nat
    <3>1. Queue[j] = Bare(delayed[j]) /\ delayed[j].release \in Nat
      BY <2>1, <2>2
    <3> QED BY <3>1 DEF Bare
  <2> QED BY <2>1, <2>2, <2>3, <2>4
<1>2. \E k \in 0..q : P(k)
  <2>1. CASE Waiting = {}
    <3>1. P(q)
      BY <1>1, <2>1
    <3> QED BY <1>1, <3>1
  <2>2. CASE Waiting # {}
    <3>1. PICK m \in Waiting : \A j \in Waiting : m <= j
      <4>1. Waiting \in SUBSET Nat
        BY <1>1
      <4> HIDE DEF Waiting
      <4> QED BY <2>2, <4>1, FirstPosition
    <3>2. m \in 1..q /\ m - 1 \in 0..q /\ (m - 1) + 1 = m
      BY <1>1
    <3>3. \A j \in 1..(m - 1) : j \in 1..q /\ j \notin Waiting
      BY <1>1, <3>1, <3>2
    <3>4. P(m - 1)
      BY <1>1, <3>2, <3>3
    <3> QED BY <3>2, <3>4
  <2> QED BY <2>1, <2>2
<1>3. Forwarding!Due(Queue, now) = CHOOSE k \in 0..q : P(k)
  BY DEF Forwarding!Due
<1>4. Forwarding!Due(Queue, now) \in 0..q
  <2> HIDE DEF P, q
  <2> QED BY <1>2, <1>3
<1> QED BY <1>1, <1>4

\* What a flush does to the queue and the output, by position.
LEMMA FlushResult ==
  ASSUME Shape, FlushDelayed
  PROVE  LET k == Forwarding!Due(Queue, now) IN
         /\ k \in 0..Len(delayed)
         /\ IsSequence(delayed') /\ Len(delayed') = Len(delayed) - k
         /\ \A j \in 1..(Len(delayed) - k) : delayed'[j] = delayed[k + j]
         /\ IsSequence(published') /\ Len(published') = Len(published) + k
         /\ \A j \in 1..Len(published) : published'[j] = published[j]
         /\ \A j \in 1..k : published'[Len(published) + j] = Publish(delayed[j], "flush")
<1> DEFINE k == Forwarding!Due(Queue, now)
           out == [j \in 1..k |-> Publish(delayed[j], "flush")]
<1>1. /\ IsSequence(delayed) /\ IsSequence(published)
      /\ published' = published \o out /\ delayed' = SubSeq(delayed, k + 1, Len(delayed))
  BY DEF Shape, FlushDelayed, Forwarding!Rest
<1>2. k \in 0..Len(delayed) /\ Len(delayed) \in Nat /\ k \in Nat
  BY <1>1, DueResult, SequenceResult
<1> HIDE DEF k
<1>3. out = [j \in 1..k |-> out[j]] /\ \A j \in 1..k : out[j] = Publish(delayed[j], "flush")
  OBVIOUS
<1> HIDE DEF out
<1>4. IsSequence(out) /\ Len(out) = k
  BY <1>2, <1>3, FunctionResult
<1>5. /\ IsSequence(published') /\ Len(published') = Len(published) + k
      /\ \A j \in 1..Len(published) : published'[j] = published[j]
      /\ \A j \in 1..k : published'[Len(published) + j] = Publish(delayed[j], "flush")
  <2>1. /\ IsSequence(published \o out) /\ Len(published \o out) = Len(published) + k
        /\ \A j \in 1..Len(published) : (published \o out)[j] = published[j]
        /\ \A j \in 1..k : (published \o out)[Len(published) + j] = out[j]
    BY <1>1, <1>4, ConcatResult
  <2> QED BY <1>1, <1>3, <2>1
<1>6. /\ IsSequence(delayed') /\ Len(delayed') = Len(delayed) - k
      /\ \A j \in 1..(Len(delayed) - k) : delayed'[j] = delayed[k + j]
  BY <1>1, <1>2, RestResult
<1> QED BY <1>2, <1>5, <1>6 DEF k

-----------------------------------------------------------------------------
(* The faults: every value an active fault holds was accepted, so delays    *)
(* are bounded.                                                             *)

Registered ==
  /\ active \subseteq DOMAIN faults
  /\ \A f \in DOMAIN faults : \A key \in DOMAIN faults[f] : faults[f][key] \in Values[key]

IInv == Shape /\ Registered

LEMMA DelayResult ==
  ASSUME Registered
  PROVE  ActiveDelay \in Delays
<1> DEFINE S == {0} \cup {faults[f]["delay_ms"] : f \in With("delay_ms")}
<1>1. S \subseteq Values["delay_ms"] \cup {0}
  BY DEF Registered, With
<1>2. S \subseteq Delays /\ S \in SUBSET (0..IntMax) /\ S # {}
  BY <1>1, TwistAssumption
<1>3. ActiveDelay = Max(S)
  BY DEF ActiveDelay, ActiveMax
<1> QED
  <2> HIDE DEF S
  <2> QED BY <1>2, <1>3, MaxResult

LEMMA InitIInv == Init => IInv
<1> SUFFICES ASSUME Init PROVE IInv
  OBVIOUS
<1>1. IsSequence(<<>>) /\ Len(<<>>) = 0
  BY EmptySeq DEF IsSequence
<1>2. Shape
  BY <1>1 DEF Init, Shape
<1>3. Registered
  <2>1. faults \in Scenarios /\ active \subseteq DOMAIN faults
    BY DEF Init
  <2> QED BY <2>1, TwistAssumption DEF Registered
<1> QED BY <1>2, <1>3 DEF IInv

\* What an arrival does to the history.
LEMMA ArriveResult ==
  ASSUME Shape, NEW x \in Speeds, Arrive(x)
  PROVE  /\ arrived \in Nat /\ arrived' = arrived + 1 /\ arrived < MaxMessages
         /\ IsSequence(inputs')
         /\ \A n \in 1..arrived : inputs'[n] = inputs[n]
         /\ inputs'[arrived + 1] = [x |-> x, at |-> now]
<1>1. IsSequence(inputs) /\ inputs' = Append(inputs, [x |-> x, at |-> now])
  BY DEF Shape, Arrive
<1>2. arrived \in Nat /\ arrived < MaxMessages
  BY <1>1, SequenceResult DEF Arrive, arrived
<1> QED BY <1>1, <1>2, AppendResult DEF arrived

\* A command that arrives keeps the invariant, whatever becomes of it.
LEMMA ArriveStep ==
  ASSUME IInv, NEW x \in Speeds, Arrive(x),
         \/ delayed' = delayed
         \/ \E stale, stop :
              delayed' = Append(delayed, Message(x, stale, stop, ActiveDelay)),
         \/ published' = published
         \/ \E e : published' = Append(published, e)
  PROVE  IInv'
<1>1. Shape /\ Registered
  BY DEF IInv
<1>2. Registered'
  BY <1>1 DEF Arrive, registry, Registered
<1>3. now' \in Nat /\ IsSequence(inputs')
  BY <1>1, ArriveResult DEF Arrive, Shape
<1>4. IsSequence(published')
  <2>1. IsSequence(published)
    BY <1>1 DEF Shape
  <2>2. \A e : IsSequence(Append(published, e))
    BY <2>1, AppendResult
  <2> QED BY <2>1, <2>2
<1>5. IsSequence(delayed') /\ \A j \in 1..Len(delayed') : delayed'[j].release \in Nat
  <2>1. CASE delayed' = delayed
    BY <1>1, <2>1 DEF Shape
  <2>2. ASSUME NEW stale, NEW stop,
               delayed' = Append(delayed, Message(x, stale, stop, ActiveDelay))
        PROVE  IsSequence(delayed') /\ \A j \in 1..Len(delayed') : delayed'[j].release \in Nat
    <3> DEFINE m == Message(x, stale, stop, ActiveDelay)
    <3>1. m.release = now + ActiveDelay
      BY DEF Message
    <3>2. m.release \in Nat
      <4>1. ActiveDelay \in Nat /\ now \in Nat
        BY <1>1, DelayResult, TwistAssumption DEF Shape
      <4> QED BY <3>1, <4>1
    <3> HIDE DEF m
    <3>3. /\ IsSequence(delayed') /\ Len(delayed') = Len(delayed) + 1 /\ Len(delayed) \in Nat
          /\ \A j \in 1..Len(delayed) : delayed'[j] = delayed[j]
          /\ delayed'[Len(delayed) + 1] = m
      BY <1>1, <2>2, AppendResult, SequenceResult DEF Shape, m
    <3>4. ASSUME NEW j \in 1..Len(delayed') PROVE delayed'[j].release \in Nat
      <4>1. j \in 1..Len(delayed) \/ j = Len(delayed) + 1
        BY <3>3
      <4> QED BY <1>1, <3>2, <3>3, <4>1 DEF Shape
    <3> QED BY <3>3, <3>4
  <2> QED BY <2>1, <2>2
<1> QED BY <1>2, <1>3, <1>4, <1>5 DEF IInv, Shape

LEMMA FlushStep ==
  ASSUME IInv, FlushDelayed
  PROVE  IInv'
<1> DEFINE k == Forwarding!Due(Queue, now)
           q == Len(delayed)
<1>1. Shape /\ Registered
  BY DEF IInv
<1>2. /\ k \in 0..q /\ q \in Nat
      /\ IsSequence(delayed') /\ Len(delayed') = q - k
      /\ \A j \in 1..(q - k) : delayed'[j] = delayed[k + j]
      /\ IsSequence(published')
  BY <1>1, FlushResult, SequenceResult DEF Shape
<1> HIDE DEF k
<1>3. ASSUME NEW j \in 1..Len(delayed') PROVE delayed'[j].release \in Nat
  <2>1. k + j \in 1..q /\ delayed'[j] = delayed[k + j]
    BY <1>2
  <2> QED BY <1>1, <2>1 DEF Shape
<1>4. Shape'
  BY <1>1, <1>2, <1>3 DEF Shape, FlushDelayed
<1>5. Registered'
  BY <1>1 DEF Registered, FlushDelayed, registry
<1> QED BY <1>4, <1>5 DEF IInv

\* The faults change; the data path does not.
LEMMA ChangeStep ==
  ASSUME IInv, Change, Registered'
  PROVE  IInv'
BY DEF IInv, Shape, Change

LEMMA SetStep ==
  ASSUME Registered, NEW f \in DOMAIN faults, NEW key \in Keys, NEW value \in Values[key],
         SetFaultConfigValue(f, key, value)
  PROVE  Registered'
<1>1. DOMAIN faults' = DOMAIN faults /\ active' = active
  BY DEF SetFaultConfigValue
<1>2. ASSUME NEW g \in DOMAIN faults', NEW k \in DOMAIN faults'[g]
      PROVE  faults'[g][k] \in Values[k]
  <2>1. CASE g = f
    <3>1. faults'[g] = [i \in DOMAIN faults[f] \cup {key} |->
                          IF i = key THEN value ELSE faults[f][i]]
      BY <1>1, <2>1 DEF SetFaultConfigValue
    <3> QED BY <3>1 DEF Registered
  <2>2. CASE g # f
    <3>1. faults'[g] = faults[g]
      BY <1>1, <2>2 DEF SetFaultConfigValue
    <3> QED BY <1>1, <3>1 DEF Registered
  <2> QED BY <2>1, <2>2
<1> QED BY <1>1, <1>2 DEF Registered

LEMMA ReloadStep ==
  ASSUME NEW s \in Scenarios, NEW startup \in SUBSET DOMAIN s, Reload(s, startup)
  PROVE  Registered'
<1>1. faults' = s /\ active' = startup
  BY DEF Reload
<1> QED BY <1>1, TwistAssumption DEF Registered

LEMMA NextIInv == IInv /\ [Next]_vars => IInv'
<1> SUFFICES ASSUME IInv, [Next]_vars PROVE IInv'
  OBVIOUS
<1>1. CASE Tick
  BY <1>1 DEF IInv, Shape, Registered, Tick, registry
<1>2. ASSUME NEW x \in Speeds, Drop(x) PROVE IInv'
  BY <1>2, ArriveStep DEF Drop
<1>3. ASSUME NEW x \in Speeds, NEW stale, NEW stop, Delay(x, stale, stop) PROVE IInv'
  BY <1>3, ArriveStep DEF Delay
<1>4. ASSUME NEW x \in Speeds, NEW stale, NEW stop, Forward(x, stale, stop) PROVE IInv'
  BY <1>4, ArriveStep DEF Forward
<1>5. CASE FlushDelayed
  BY <1>5, FlushStep
<1>6. ASSUME NEW f \in DOMAIN faults, ActivateFault(f) \/ DeactivateFault(f) PROVE IInv'
  BY <1>6, ChangeStep DEF IInv, Registered, ActivateFault, DeactivateFault
<1>7. ASSUME NEW f \in DOMAIN faults, NEW key \in Keys, NEW value \in Values[key],
             SetFaultConfigValue(f, key, value)
      PROVE  IInv'
  BY <1>7, SetStep, ChangeStep DEF IInv, SetFaultConfigValue
<1>8. ASSUME NEW s \in Scenarios, NEW startup \in SUBSET DOMAIN s, Reload(s, startup)
      PROVE  IInv'
  BY <1>8, ReloadStep, ChangeStep DEF Reload
<1>9. CASE UNCHANGED vars
  BY <1>9 DEF IInv, Shape, Registered, vars
<1> QED BY <1>1, <1>2, <1>3, <1>4, <1>5, <1>6, <1>7, <1>8, <1>9 DEF Next, Horizon

LEMMA SpecIInv == Spec => []IInv
<1> QED BY InitIInv, NextIInv, PTL DEF Spec

-----------------------------------------------------------------------------
(* TwistInjector implements DelayedForwarding: every step of an injector is  *)
(* a step of its data path, or changes the faults and leaves the path alone. *)

\* An element is added to the queue or to the output.
LEMMA QueueAppend ==
  ASSUME NEW s, IsSequence(s), NEW m
  PROVE  QueueOf(Append(s, m)) = Append(QueueOf(s), Bare(m))
<1> DEFINE u == Append(s, m)
           v == Append(QueueOf(s), Bare(m))
<1>1. /\ IsSequence(QueueOf(s)) /\ Len(QueueOf(s)) = Len(s) /\ Len(s) \in Nat
      /\ \A j \in 1..Len(s) : QueueOf(s)[j] = Bare(s[j])
  BY QueueResult, SequenceResult
<1>2. /\ IsSequence(u) /\ Len(u) = Len(s) + 1 /\ u[Len(s) + 1] = m
      /\ \A j \in 1..Len(s) : u[j] = s[j]
  BY AppendResult
<1>3. /\ IsSequence(v) /\ Len(v) = Len(s) + 1 /\ v[Len(s) + 1] = Bare(m)
      /\ \A j \in 1..Len(s) : v[j] = Bare(s[j])
  BY <1>1, AppendResult
<1> HIDE DEF u, v
<1>4. /\ IsSequence(QueueOf(u)) /\ Len(QueueOf(u)) = Len(s) + 1
      /\ \A j \in 1..(Len(s) + 1) : QueueOf(u)[j] = Bare(u[j])
  BY <1>2, QueueResult
<1>5. ASSUME NEW j \in 1..(Len(s) + 1) PROVE QueueOf(u)[j] = v[j]
  <2>1. j \in 1..Len(s) \/ j = Len(s) + 1
    BY <1>1
  <2> QED BY <1>2, <1>3, <1>4, <2>1
<1>6. QueueOf(u) = v
  BY <1>3, <1>4, <1>5, SameSequence
<1> QED BY <1>6 DEF u, v

LEMMA OutputAppend ==
  ASSUME NEW s, IsSequence(s), NEW m
  PROVE  OutputOf(Append(s, m)) = Append(OutputOf(s), BarePublished(m))
<1> DEFINE u == Append(s, m)
           v == Append(OutputOf(s), BarePublished(m))
<1>1. /\ IsSequence(OutputOf(s)) /\ Len(OutputOf(s)) = Len(s) /\ Len(s) \in Nat
      /\ \A j \in 1..Len(s) : OutputOf(s)[j] = BarePublished(s[j])
  BY OutputResult, SequenceResult
<1>2. /\ IsSequence(u) /\ Len(u) = Len(s) + 1 /\ u[Len(s) + 1] = m
      /\ \A j \in 1..Len(s) : u[j] = s[j]
  BY AppendResult
<1>3. /\ IsSequence(v) /\ Len(v) = Len(s) + 1 /\ v[Len(s) + 1] = BarePublished(m)
      /\ \A j \in 1..Len(s) : v[j] = BarePublished(s[j])
  BY <1>1, AppendResult
<1> HIDE DEF u, v
<1>4. /\ IsSequence(OutputOf(u)) /\ Len(OutputOf(u)) = Len(s) + 1
      /\ \A j \in 1..(Len(s) + 1) : OutputOf(u)[j] = BarePublished(u[j])
  BY <1>2, OutputResult
<1>5. ASSUME NEW j \in 1..(Len(s) + 1) PROVE OutputOf(u)[j] = v[j]
  <2>1. j \in 1..Len(s) \/ j = Len(s) + 1
    BY <1>1
  <2> QED BY <1>2, <1>3, <1>4, <2>1
<1>6. OutputOf(u) = v
  BY <1>3, <1>4, <1>5, SameSequence
<1> QED BY <1>6 DEF u, v

\* A message published by this module is, without its payload, one published
\* by the data path.
LEMMA PublishResult ==
  ASSUME NEW m, NEW via
  PROVE  BarePublished(Publish(m, via)) = Forwarding!Publish(Bare(m), now, via)
BY DEF BarePublished, Publish, Forwarding!Publish, Bare

LEMMA FlushForwarding ==
  ASSUME Shape, FlushDelayed
  PROVE  Forwarding!FlushDelayed
<1> DEFINE k == Forwarding!Due(Queue, now)
           q == Len(delayed)
           p == Len(published)
           out == [j \in 1..k |-> Forwarding!Publish(Queue[j], now, "flush")]
<1>1. /\ k \in 0..q
      /\ IsSequence(delayed') /\ Len(delayed') = q - k
      /\ \A j \in 1..(q - k) : delayed'[j] = delayed[k + j]
      /\ IsSequence(published') /\ Len(published') = p + k
      /\ \A j \in 1..p : published'[j] = published[j]
      /\ \A j \in 1..k : published'[p + j] = Publish(delayed[j], "flush")
  BY FlushResult
<1>2. /\ IsSequence(delayed) /\ IsSequence(published)
      /\ q \in Nat /\ p \in Nat /\ k \in Nat
  BY <1>1, SequenceResult DEF Shape
<1>3. /\ IsSequence(Queue) /\ Len(Queue) = q
      /\ \A j \in 1..q : Queue[j] = Bare(delayed[j])
  BY <1>2, QueueResult DEF Queue, QueueOf
<1>4. /\ IsSequence(Output) /\ Len(Output) = p
      /\ \A j \in 1..p : Output[j] = BarePublished(published[j])
  BY <1>2, OutputResult DEF Output, OutputOf
<1>5. /\ IsSequence(Queue') /\ Len(Queue') = q - k
      /\ \A j \in 1..(q - k) : Queue'[j] = Bare(delayed'[j])
  <2>1. Queue' = QueueOf(delayed')
    BY DEF Queue, QueueOf
  <2> HIDE DEF k
  <2> QED BY <1>1, <2>1, QueueResult
<1>6. /\ IsSequence(Output') /\ Len(Output') = p + k
      /\ \A j \in 1..(p + k) : Output'[j] = BarePublished(published'[j])
  <2>1. Output' = OutputOf(published')
    BY DEF Output, OutputOf
  <2> HIDE DEF k
  <2> QED BY <1>1, <2>1, OutputResult
<1>7. Queue' = Forwarding!Rest(Queue, k)
  <2> DEFINE r == SubSeq(Queue, k + 1, Len(Queue))
  <2> HIDE DEF k
  <2>1. /\ IsSequence(r) /\ Len(r) = q - k
        /\ \A j \in 1..(q - k) : r[j] = Queue[k + j]
    BY <1>1, <1>3, RestResult
  <2> HIDE DEF r
  <2>2. ASSUME NEW j \in 1..(q - k) PROVE Queue'[j] = r[j]
    <3>1. k + j \in 1..q
      BY <1>1, <1>2
    <3> QED BY <1>1, <1>3, <1>5, <2>1, <3>1
  <2>3. Queue' = r
    BY <1>5, <2>1, <2>2, SameSequence
  <2> QED BY <2>3 DEF r, Forwarding!Rest
<1>8. Output' = Output \o out
  <2> HIDE DEF k
  <2>1. out = [j \in 1..k |-> out[j]]
        /\ \A j \in 1..k : out[j] = Forwarding!Publish(Queue[j], now, "flush")
    OBVIOUS
  <2> HIDE DEF out
  <2>2. IsSequence(out) /\ Len(out) = k
    BY <1>2, <2>1, FunctionResult
  <2> DEFINE v == Output \o out
  <2>3. /\ IsSequence(v) /\ Len(v) = p + k
        /\ \A j \in 1..p : v[j] = Output[j]
        /\ \A j \in 1..k : v[p + j] = out[j]
    BY <1>4, <2>2, ConcatResult
  <2> HIDE DEF v
  <2>4. ASSUME NEW j \in 1..(p + k) PROVE Output'[j] = v[j]
    <3>1. CASE j \in 1..p
      BY <1>1, <1>4, <1>6, <2>3, <3>1
    <3>2. CASE j \notin 1..p
      <4>1. j - p \in 1..k /\ p + (j - p) = j /\ j - p \in 1..q
        BY <1>1, <1>2, <3>2
      <4>2. published'[j] = Publish(delayed[j - p], "flush")
        BY <1>1, <4>1
      <4>3. v[j] = Forwarding!Publish(Bare(delayed[j - p]), now, "flush")
        BY <1>3, <2>1, <2>3, <4>1
      <4> QED BY <1>6, <4>2, <4>3, PublishResult
    <3> QED BY <3>1, <3>2
  <2>5. Output' = v
    BY <1>6, <2>3, <2>4, SameSequence
  <2> QED BY <2>5 DEF v
<1> QED BY <1>7, <1>8 DEF FlushDelayed, Forwarding!FlushDelayed, arrived

LEMMA InitForwarding == Init => Forwarding!Init
<1> SUFFICES ASSUME Init PROVE Forwarding!Init
  OBVIOUS
<1>1. IsSequence(<<>>) /\ Len(<<>>) = 0
  BY EmptySeq DEF IsSequence
<1>2. Queue = <<>> /\ Output = <<>>
  <2>1. QueueOf(<<>>) = <<>> /\ OutputOf(<<>>) = <<>>
    BY <1>1, QueueResult, OutputResult, SameSequence
  <2> QED BY <2>1 DEF Init, Queue, Output, QueueOf, OutputOf
<1> QED BY <1>1, <1>2 DEF Init, Forwarding!Init, arrived

LEMMA NextForwarding == IInv /\ [Next]_vars => [Forwarding!Next]_Forwarding!vars
<1> SUFFICES ASSUME IInv, [Next]_vars PROVE [Forwarding!Next]_Forwarding!vars
  OBVIOUS
<1>1. Shape /\ Registered
  BY DEF IInv
<1>2. delayed' = delayed => Queue' = Queue
  BY DEF Queue
<1>3. published' = published => Output' = Output
  BY DEF Output
<1>4. inputs' = inputs => arrived' = arrived
  BY DEF arrived
<1>5. CASE Tick
  BY <1>2, <1>3, <1>4, <1>5 DEF Tick, Forwarding!Next, Forwarding!Tick
<1>6. ASSUME NEW x \in Speeds, Drop(x) PROVE Forwarding!Drop
  BY <1>1, <1>2, <1>3, <1>6, ArriveResult DEF Drop, Arrive, Forwarding!Drop
<1>7. ASSUME NEW x \in Speeds, NEW stale, NEW stop, Delay(x, stale, stop)
      PROVE  ActiveDelay \in Delays /\ Forwarding!Delay(ActiveDelay)
  <2> DEFINE m == Message(x, stale, stop, ActiveDelay)
  <2>1. Bare(m) = [n |-> arrived + 1, release |-> now + ActiveDelay]
    BY DEF Bare, Message
  <2>2. Queue' = Append(Queue, Bare(m))
    BY <1>1, <1>7, QueueAppend DEF Delay, Shape, Queue, QueueOf
  <2>3. /\ arrived < MaxMessages /\ arrived' = arrived + 1
        /\ ActiveDelay > 0 /\ UNCHANGED <<now, dropped, Output, flushDue>>
    BY <1>1, <1>3, <1>7, ArriveResult DEF Delay, Arrive
  <2> HIDE DEF m
  <2> QED BY <1>1, <2>1, <2>2, <2>3, DelayResult DEF Forwarding!Delay, Forwarding!Hold
<1>8. ASSUME NEW x \in Speeds, NEW stale, NEW stop, Forward(x, stale, stop)
      PROVE  Forwarding!Forward
  <2> DEFINE m == Message(x, stale, stop, 0)
  <2>1. Bare(m) = [n |-> arrived + 1, release |-> now]
    BY <1>1 DEF Bare, Message, Shape
  <2>2. Output' = Append(Output, BarePublished(Publish(m, "callback")))
    BY <1>1, <1>8, OutputAppend DEF Forward, Shape, Output, OutputOf
  <2>3. /\ arrived < MaxMessages /\ arrived' = arrived + 1
        /\ UNCHANGED <<now, dropped, Queue, flushDue>>
    BY <1>1, <1>2, <1>8, ArriveResult DEF Forward, Arrive
  <2> HIDE DEF m
  <2> QED BY <2>1, <2>2, <2>3, PublishResult DEF Forwarding!Forward
<1>9. CASE FlushDelayed
  BY <1>1, <1>9, FlushForwarding DEF Forwarding!Next
<1>10. ASSUME Change PROVE UNCHANGED Forwarding!vars
  BY <1>2, <1>3, <1>4, <1>10 DEF Change, Forwarding!vars
<1>11. CASE UNCHANGED vars
  BY <1>2, <1>3, <1>4, <1>11 DEF vars, Forwarding!vars
<1>12. CASE Next
  BY <1>5, <1>6, <1>7, <1>8, <1>9, <1>10, <1>11, <1>12
     DEF Next, Forwarding!Next, ActivateFault, DeactivateFault, SetFaultConfigValue,
         Reload, Horizon
<1> QED BY <1>11, <1>12

\* A velocity injector is a data path: whatever the scheduler, the services and
\* reloads do to its faults, and whatever it replays, every step is one of
\* DelayedForwarding, whose theorems hold of it.
THEOREM InjectorForwards == Spec => Forwarding!Spec
<1> QED BY SpecIInv, InitForwarding, NextForwarding, PTL DEF Spec, Forwarding!Spec

-----------------------------------------------------------------------------
(* Replay.  What is remembered is the newest command that was forwarded as   *)
(* itself, and it keeps the time it arrived; a flush only moves messages.    *)

Latest ==
  /\ \A m \in Accepted : m.n \in 1..arrived
  /\ last = NoCommand => Accepted = {}
  /\ last # NoCommand =>
       /\ last.source \in 1..arrived
       /\ last.at \in Nat /\ last.at = inputs[last.source].at
       /\ \E o \in Accepted : o.n = last.source /\ o.source = o.n
       /\ \A o \in Accepted : o.source = o.n => o.n <= last.source

Sources == \A m \in Accepted : m.source \in 1..m.n

RInv == IInv /\ Latest /\ Sources /\ ReplaysLatestForwarded

LEMMA InitRInv == Init => RInv
<1> SUFFICES ASSUME Init PROVE RInv
  OBVIOUS
<1>1. IsSequence(<<>>) /\ Len(<<>>) = 0
  BY EmptySeq DEF IsSequence
<1>2. DOMAIN <<>> = {}
  BY <1>1, SequenceResult
<1>3. Accepted = {}
  BY <1>2 DEF Init, Accepted
<1> QED BY <1>3, InitIInv DEF Init, RInv, Latest, Sources, ReplaysLatestForwarded

\* What Append() adds to the messages that were accepted.
LEMMA AppendRange ==
  ASSUME NEW s, IsSequence(s), NEW e
  PROVE  {Append(s, e)[j] : j \in DOMAIN Append(s, e)} = {s[j] : j \in DOMAIN s} \cup {e}
<1>1. DOMAIN s = 1..Len(s) /\ Len(s) \in Nat
  BY SequenceResult
<1>2. /\ DOMAIN Append(s, e) = 1..(Len(s) + 1)
      /\ \A j \in 1..Len(s) : Append(s, e)[j] = s[j]
      /\ Append(s, e)[Len(s) + 1] = e
  BY AppendResult
<1>3. 1..(Len(s) + 1) = (1..Len(s)) \cup {Len(s) + 1}
  BY <1>1
<1> QED BY <1>1, <1>2, <1>3

\* A command is accepted, queued or forwarded.
LEMMA AcceptStep ==
  ASSUME RInv, IInv', NEW x \in Speeds, NEW stale, Arrive(x), last' = LastCommand(x, stale),
         NEW new, new.n = arrived + 1, new.source = Chosen(x, stale).source,
         Accepted' = Accepted \cup {new}
  PROVE  RInv'
<1>1. Shape /\ Registered /\ Latest /\ Sources /\ ReplaysLatestForwarded
  BY DEF RInv, IInv
<1>2. /\ arrived \in Nat /\ arrived' = arrived + 1
      /\ \A n \in 1..arrived : inputs'[n] = inputs[n]
      /\ inputs'[arrived + 1].at = now
  <2>1. /\ arrived \in Nat /\ arrived' = arrived + 1
        /\ \A n \in 1..arrived : inputs'[n] = inputs[n]
        /\ inputs'[arrived + 1] = [x |-> x, at |-> now]
    BY <1>1, ArriveResult
  <2> QED BY <2>1
<1>3. now \in Nat /\ \A m \in Accepted : m.n \in 1..arrived /\ m.source \in 1..m.n
  BY <1>1 DEF Shape, Latest, Sources
<1>4. /\ \A m \in Accepted : m \in Accepted' /\ m.n \in Int /\ m.n <= arrived
      /\ new \in Accepted' /\ new.n = arrived + 1
      /\ \A m \in Accepted' : m.n \in 1..arrived'
  BY <1>2, <1>3
<1>5. CASE Replays(stale)
  <2>1. last # NoCommand /\ last' = last /\ new.source = last.source
    BY <1>5 DEF Replays, LastCommand, Chosen
  <2>2. /\ last.source \in 1..arrived
        /\ last.at \in Nat /\ last.at = inputs[last.source].at
    BY <1>1, <2>1 DEF Latest
  <2>3. PICK own \in Accepted : own.n = last.source /\ own.source = own.n
    BY <1>1, <2>1 DEF Latest
  <2>4. \A o \in Accepted : o.source = o.n => o.n <= last.source
    BY <1>1, <2>1 DEF Latest
  <2>5. new.source # new.n /\ new.source \in 1..new.n /\ new.source < new.n
    BY <1>2, <2>1, <2>2
  <2>6. Latest'
    <3>1. last'.source \in 1..arrived' /\ last'.at = inputs'[last'.source].at
      BY <1>2, <2>1, <2>2
    <3>2. \E o \in Accepted' : o.n = last'.source /\ o.source = o.n
      BY <2>1, <2>3
    <3>3. \A o \in Accepted' : o.source = o.n => o.n <= last'.source
      BY <2>1, <2>4, <2>5
    <3> QED BY <1>4, <2>1, <2>2, <3>1, <3>2, <3>3 DEF Latest
  <2>7. Sources'
    BY <1>3, <2>5 DEF Sources
  <2>8. ReplaysLatestForwarded'
    <3>1. ASSUME NEW m \in Accepted', m.source # m.n
          PROVE  /\ m.source < m.n
                 /\ \E o \in Accepted' : o.n = m.source /\ o.source = o.n
                 /\ \A o \in Accepted' : o.source = o.n /\ o.n < m.n => o.n <= m.source
      <4>1. CASE m = new
        BY <2>1, <2>3, <2>4, <2>5, <4>1
      <4>2. CASE m \in Accepted
        <5>1. /\ m.source < m.n
              /\ \E o \in Accepted : o.n = m.source /\ o.source = o.n
              /\ \A o \in Accepted : o.source = o.n /\ o.n < m.n => o.n <= m.source
          BY <1>1, <3>1, <4>2 DEF ReplaysLatestForwarded
        <5> QED BY <2>5, <5>1
      <4> QED BY <4>1, <4>2
    <3> QED BY <3>1 DEF ReplaysLatestForwarded
  <2> QED BY <2>6, <2>7, <2>8 DEF RInv
<1>6. CASE ~Replays(stale)
  <2>1. last' = Newest(x) /\ new.source = arrived + 1
    BY <1>6 DEF LastCommand, Chosen, Newest
  <2>2. last'.source = arrived + 1 /\ last'.at = now /\ last' # NoCommand
    <3>1. arrived + 1 \in Nat /\ x \in Int
      BY <1>2, TwistAssumption
    <3> QED BY <1>3, <2>1, <3>1, TwistAssumption DEF Newest
  <2>3. Latest'
    <3>1. last'.source \in 1..arrived' /\ last'.at = inputs'[last'.source].at
      BY <1>2, <2>2
    <3>2. \E o \in Accepted' : o.n = last'.source /\ o.source = o.n
      BY <1>4, <2>1, <2>2
    <3>3. \A o \in Accepted' : o.n <= last'.source
      BY <1>2, <1>4, <2>2
    <3> QED BY <1>3, <1>4, <2>2, <3>1, <3>2, <3>3 DEF Latest
  <2>4. Sources'
    BY <1>2, <1>3, <2>1 DEF Sources
  <2>5. ReplaysLatestForwarded'
    <3>1. ASSUME NEW m \in Accepted', m.source # m.n
          PROVE  /\ m.source < m.n
                 /\ \E o \in Accepted' : o.n = m.source /\ o.source = o.n
                 /\ \A o \in Accepted' : o.source = o.n /\ o.n < m.n => o.n <= m.source
      <4>1. m \in Accepted
        BY <2>1, <3>1
      <4>2. /\ m.source < m.n
            /\ \E o \in Accepted : o.n = m.source /\ o.source = o.n
            /\ \A o \in Accepted : o.source = o.n /\ o.n < m.n => o.n <= m.source
        BY <1>1, <3>1, <4>1 DEF ReplaysLatestForwarded
      <4>3. ~(new.n < m.n)
        BY <1>2, <1>4, <4>1
      <4> QED BY <4>2, <4>3
    <3> QED BY <3>1 DEF ReplaysLatestForwarded
  <2> QED BY <2>3, <2>4, <2>5 DEF RInv
<1> QED BY <1>5, <1>6

\* A flush moves messages, and invents none.
LEMMA FlushKeeps ==
  ASSUME Shape, FlushDelayed
  PROVE  /\ \A m \in Accepted : \E o \in Accepted' : o.n = m.n /\ o.source = m.source
         /\ \A m \in Accepted' : \E o \in Accepted : o.n = m.n /\ o.source = m.source
<1> DEFINE k == Forwarding!Due(Queue, now)
           q == Len(delayed)
           p == Len(published)
<1>1. /\ k \in 0..q
      /\ IsSequence(delayed') /\ Len(delayed') = q - k
      /\ \A j \in 1..(q - k) : delayed'[j] = delayed[k + j]
      /\ IsSequence(published') /\ Len(published') = p + k
      /\ \A j \in 1..p : published'[j] = published[j]
      /\ \A j \in 1..k : published'[p + j] = Publish(delayed[j], "flush")
  BY FlushResult
<1> HIDE DEF k
<1>2. /\ q \in Nat /\ p \in Nat /\ k \in Nat
      /\ DOMAIN delayed = 1..q /\ DOMAIN published = 1..p
      /\ DOMAIN delayed' = 1..(q - k) /\ DOMAIN published' = 1..(p + k)
  BY <1>1, SequenceResult DEF Shape
<1>3. \A j \in 1..k : /\ published'[p + j].n = delayed[j].n
                      /\ published'[p + j].source = delayed[j].source
  <2>1. \A m : /\ Publish(m, "flush").n = m.n
               /\ Publish(m, "flush").source = m.source
    BY DEF Publish
  <2> QED BY <1>1, <2>1
<1>4. ASSUME NEW m \in Accepted
      PROVE  \E o \in Accepted' : o.n = m.n /\ o.source = m.source
  <2>1. CASE \E j \in 1..p : m = published[j]
    <3>1. PICK j \in 1..p : m = published[j]
      BY <2>1
    <3>2. j \in DOMAIN published' /\ published'[j] = m
      BY <1>1, <1>2, <3>1
    <3> QED BY <3>2 DEF Accepted
  <2>2. CASE \E j \in 1..q : m = delayed[j]
    <3>1. PICK j \in 1..q : m = delayed[j]
      BY <2>2
    <3>2. CASE j \in 1..k
      <4>1. p + j \in DOMAIN published'
        BY <1>2, <3>2
      <4> QED BY <1>3, <3>1, <3>2, <4>1 DEF Accepted
    <3>3. CASE j \notin 1..k
      <4>1. j - k \in 1..(q - k) /\ k + (j - k) = j
        BY <1>2, <3>3
      <4>2. j - k \in DOMAIN delayed' /\ delayed'[j - k] = m
        BY <1>1, <1>2, <3>1, <4>1
      <4> QED BY <4>2 DEF Accepted
    <3> QED BY <3>2, <3>3
  <2> QED BY <1>2, <2>1, <2>2 DEF Accepted
<1>5. ASSUME NEW m \in Accepted'
      PROVE  \E o \in Accepted : o.n = m.n /\ o.source = m.source
  <2>1. CASE \E j \in 1..(q - k) : m = delayed'[j]
    <3>1. PICK j \in 1..(q - k) : m = delayed'[j]
      BY <2>1
    <3>2. k + j \in DOMAIN delayed /\ delayed[k + j] = m
      BY <1>1, <1>2, <3>1
    <3> QED BY <3>2 DEF Accepted
  <2>2. CASE \E j \in 1..(p + k) : m = published'[j]
    <3>1. PICK j \in 1..(p + k) : m = published'[j]
      BY <2>2
    <3>2. CASE j \in 1..p
      <4>1. j \in DOMAIN published /\ published[j] = m
        BY <1>1, <1>2, <3>1, <3>2
      <4> QED BY <4>1 DEF Accepted
    <3>3. CASE j \notin 1..p
      <4>1. j - p \in 1..k /\ p + (j - p) = j /\ j - p \in DOMAIN delayed
        BY <1>1, <1>2, <3>3
      <4>2. m.n = delayed[j - p].n /\ m.source = delayed[j - p].source
        BY <1>3, <3>1, <4>1
      <4> QED BY <4>1, <4>2 DEF Accepted
    <3> QED BY <3>2, <3>3
  <2> QED BY <1>2, <2>1, <2>2 DEF Accepted
<1> QED BY <1>4, <1>5

LEMMA FlushReplay ==
  ASSUME RInv, IInv', FlushDelayed
  PROVE  RInv'
<1>1. Shape /\ Latest /\ Sources /\ ReplaysLatestForwarded
  BY DEF RInv, IInv
<1>2. /\ \A m \in Accepted : \E o \in Accepted' : o.n = m.n /\ o.source = m.source
      /\ \A m \in Accepted' : \E o \in Accepted : o.n = m.n /\ o.source = m.source
  BY <1>1, FlushKeeps
<1>3. last' = last /\ inputs' = inputs /\ arrived' = arrived
  BY DEF FlushDelayed, arrived
<1>4. Latest'
  <2>1. \A m \in Accepted' : m.n \in 1..arrived
    BY <1>1, <1>2 DEF Latest
  <2>2. last = NoCommand => Accepted' = {}
    BY <1>1, <1>2 DEF Latest
  <2>3. ASSUME last # NoCommand
        PROVE  /\ last.source \in 1..arrived
               /\ last.at \in Nat /\ last.at = inputs[last.source].at
               /\ \E o \in Accepted' : o.n = last.source /\ o.source = o.n
               /\ \A o \in Accepted' : o.source = o.n => o.n <= last.source
    <3>1. PICK own \in Accepted : own.n = last.source /\ own.source = own.n
      BY <1>1, <2>3 DEF Latest
    <3>2. PICK o \in Accepted' : o.n = own.n /\ o.source = own.source
      BY <1>2
    <3>3. \A m \in Accepted' : m.source = m.n => m.n <= last.source
      BY <1>1, <1>2, <2>3 DEF Latest
    <3> QED BY <1>1, <2>3, <3>1, <3>2, <3>3 DEF Latest
  <2> QED BY <1>3, <2>1, <2>2, <2>3 DEF Latest
<1>5. Sources'
  BY <1>1, <1>2 DEF Sources
<1>6. ReplaysLatestForwarded'
  <2>1. ASSUME NEW m \in Accepted', m.source # m.n
        PROVE  /\ m.source < m.n
               /\ \E o \in Accepted' : o.n = m.source /\ o.source = o.n
               /\ \A o \in Accepted' : o.source = o.n /\ o.n < m.n => o.n <= m.source
    <3>1. PICK old \in Accepted : old.n = m.n /\ old.source = m.source
      BY <1>2
    <3>2. /\ m.source < m.n
          /\ \E o \in Accepted : o.n = m.source /\ o.source = o.n
          /\ \A o \in Accepted : o.source = o.n /\ o.n < m.n => o.n <= m.source
      BY <1>1, <2>1, <3>1 DEF ReplaysLatestForwarded
    <3>3. PICK own \in Accepted : own.n = m.source /\ own.source = own.n
      BY <3>2
    <3>4. \E o \in Accepted' : o.n = m.source /\ o.source = o.n
      BY <1>2, <3>3
    <3>5. ASSUME NEW o \in Accepted', o.source = o.n, o.n < m.n PROVE o.n <= m.source
      BY <1>2, <3>2, <3>5
    <3> QED BY <3>2, <3>4, <3>5
  <2> QED BY <2>1 DEF ReplaysLatestForwarded
<1> QED BY <1>4, <1>5, <1>6 DEF RInv

\* Nothing is accepted, and the rest of the history stays as it is, but for
\* the commands that arrived and were dropped.
LEMMA QuietReplay ==
  ASSUME RInv, IInv', UNCHANGED <<last, delayed, published>>,
         inputs' = inputs \/ \E x \in Speeds : Arrive(x)
  PROVE  RInv'
<1>1. Shape /\ Latest /\ Sources /\ ReplaysLatestForwarded
  BY DEF RInv, IInv
<1>2. Accepted' = Accepted
  BY DEF Accepted
<1>3. /\ arrived \in Nat /\ arrived' \in Nat /\ arrived <= arrived'
      /\ \A n \in 1..arrived : inputs'[n] = inputs[n]
  <2>1. CASE inputs' = inputs
    BY <1>1, <2>1, SequenceResult DEF arrived, Shape
  <2>2. ASSUME NEW x \in Speeds, Arrive(x)
        PROVE  /\ arrived \in Nat /\ arrived' \in Nat /\ arrived <= arrived'
               /\ \A n \in 1..arrived : inputs'[n] = inputs[n]
    <3>1. /\ arrived \in Nat /\ arrived' = arrived + 1
          /\ \A n \in 1..arrived : inputs'[n] = inputs[n]
      BY <1>1, <2>2, ArriveResult
    <3> QED BY <3>1
  <2> QED BY <2>1, <2>2
<1>4. 1..arrived \subseteq 1..arrived'
  BY <1>3
<1>5. Latest'
  BY <1>1, <1>2, <1>3, <1>4 DEF Latest
<1>6. Sources'
  BY <1>1, <1>2 DEF Sources
<1>7. ReplaysLatestForwarded'
  BY <1>1, <1>2 DEF ReplaysLatestForwarded
<1> QED BY <1>5, <1>6, <1>7 DEF RInv

LEMMA NextRInv == RInv /\ [Next]_vars => RInv'
<1> SUFFICES ASSUME RInv, [Next]_vars PROVE RInv'
  OBVIOUS
<1>1. IInv' /\ Shape
  BY NextIInv DEF RInv, IInv
<1>2. ASSUME NEW x \in Speeds, Drop(x) PROVE RInv'
  BY <1>1, <1>2, QuietReplay DEF Drop
<1>3. ASSUME NEW x \in Speeds, NEW stale, NEW stop, Delay(x, stale, stop) PROVE RInv'
  <2> DEFINE m == Message(x, stale, stop, ActiveDelay)
  <2>1. Accepted' = Accepted \cup {m}
    <3>1. delayed' = Append(delayed, m) /\ published' = published /\ IsSequence(delayed)
      BY <1>1, <1>3 DEF Delay, Shape
    <3> HIDE DEF m
    <3> QED BY <3>1, AppendRange DEF Accepted
  <2>2. m.n = arrived + 1 /\ m.source = Chosen(x, stale).source
    BY DEF Message
  <2> HIDE DEF m
  <2> QED BY <1>1, <1>3, <2>1, <2>2, AcceptStep DEF Delay
<1>4. ASSUME NEW x \in Speeds, NEW stale, NEW stop, Forward(x, stale, stop) PROVE RInv'
  <2> DEFINE m == Publish(Message(x, stale, stop, 0), "callback")
  <2>1. Accepted' = Accepted \cup {m}
    <3>1. published' = Append(published, m) /\ delayed' = delayed /\ IsSequence(published)
      BY <1>1, <1>4 DEF Forward, Shape
    <3> HIDE DEF m
    <3> QED BY <3>1, AppendRange DEF Accepted
  <2>2. m.n = arrived + 1 /\ m.source = Chosen(x, stale).source
    BY DEF Message, Publish
  <2> HIDE DEF m
  <2> QED BY <1>1, <1>4, <2>1, <2>2, AcceptStep DEF Forward
<1>5. CASE FlushDelayed
  BY <1>1, <1>5, FlushReplay
<1>6. CASE Tick \/ Change \/ UNCHANGED vars
  <2>1. UNCHANGED <<last, delayed, published, inputs>>
    BY <1>6 DEF Tick, Change, vars
  <2> QED BY <1>1, <2>1, QuietReplay
<1>7. CASE Next
  BY <1>2, <1>3, <1>4, <1>5, <1>6, <1>7
     DEF Next, ActivateFault, DeactivateFault, SetFaultConfigValue, Reload, Horizon
<1> QED BY <1>6, <1>7

\* A replayed command is the newest one that was forwarded as itself: never one
\* should_drop() discarded, and never an older one.
THEOREM ReplayIsLatest == Spec => []ReplaysLatestForwarded
<1>1. RInv => ReplaysLatestForwarded
  BY DEF RInv
<1> QED BY InitRInv, NextRInv, <1>1, PTL DEF Spec

-----------------------------------------------------------------------------
(* What the faults do to a command: the numbers that the clamp and the scale *)
(* are computed from.                                                        *)

\* Induction over the numbers, for a set.
LEMMA Induction ==
  ASSUME NEW S, 0 \in S, \A n \in Nat : n \in S => n + 1 \in S
  PROVE  Nat \subseteq S
<1> SUFFICES ASSUME Nat \ S # {} PROVE FALSE
  OBVIOUS
<1>1. PICK x \in Nat \ S : \A y \in Nat \ S : x <= y
  <2> DEFINE K == Nat \ S
  <2>1. K \in SUBSET Nat /\ K # {}
    OBVIOUS
  <2> HIDE DEF K
  <2>2. \E x \in K : \A y \in K : x <= y
    BY <2>1, FirstPosition
  <2> QED BY <2>2 DEF K
<1>2. x - 1 \in Nat /\ (x - 1) + 1 = x
  OBVIOUS
<1>3. x - 1 \in Nat \ S
  BY <1>2
<1> QED BY <1>1, <1>2, <1>3

\* Taking an element out of a finite set.
LEMMA Smaller ==
  ASSUME NEW S, IsFiniteSet(S), NEW T \in SUBSET S
  PROVE  /\ IsFiniteSet(T) /\ Cardinality(T) \in Nat /\ Cardinality(T) <= Cardinality(S)
         /\ Cardinality(T) = 0 <=> T = {}
         /\ \A x \in T : Cardinality(T \ {x}) = Cardinality(T) - 1
BY FS_Subset, FS_CardinalityType, FS_EmptySet, FS_RemoveElement

\* A nonempty finite set of numbers has a largest one.
LEMMA FiniteMax ==
  ASSUME NEW S \in SUBSET Int, IsFiniteSet(S), S # {}
  PROVE  Max(S) \in S /\ \A n \in S : n <= Max(S)
<1> DEFINE Largest(T, m) == m \in T /\ \A n \in T : n <= m
           K == {n \in Nat : \A T \in SUBSET S :
                   Cardinality(T) = n + 1 => \E m \in T : Largest(T, m)}
<1>1. 0 \in K
  <2> SUFFICES ASSUME NEW T \in SUBSET S, Cardinality(T) = 1
               PROVE  \E m \in T : Largest(T, m)
    OBVIOUS
  <2>1. T # {} /\ \A x \in T : Cardinality(T \ {x}) = 0
    <3>1. /\ Cardinality(T) = 0 <=> T = {}
          /\ \A x \in T : Cardinality(T \ {x}) = Cardinality(T) - 1
      BY Smaller
    <3> QED BY <3>1
  <2>2. PICK x \in T : TRUE
    BY <2>1
  <2>3. T \ {x} \in SUBSET S
    OBVIOUS
  <2>4. T \ {x} = {}
    BY <2>1, <2>3, Smaller
  <2>5. x \in Int /\ \A n \in T : n = x
    BY <2>4
  <2> QED BY <2>5
<1>2. ASSUME NEW n \in Nat, n \in K
      PROVE  n + 1 \in K
  <2> SUFFICES ASSUME NEW T \in SUBSET S, Cardinality(T) = n + 2
               PROVE  \E m \in T : Largest(T, m)
    OBVIOUS
  <2>0. T # {} /\ \A x \in T : Cardinality(T \ {x}) = n + 1
    <3>1. /\ Cardinality(T) = 0 <=> T = {}
          /\ \A x \in T : Cardinality(T \ {x}) = Cardinality(T) - 1
      BY Smaller
    <3> QED BY <3>1
  <2>1. PICK x \in T : TRUE
    BY <2>0
  <2>2. T \ {x} \in SUBSET S /\ Cardinality(T \ {x}) = n + 1
    BY <2>0
  <2>3. PICK m \in T \ {x} : Largest(T \ {x}, m)
    BY <1>2, <2>2
  <2>4. Largest(T, IF x <= m THEN m ELSE x)
    <3>1. x \in Int /\ m \in Int /\ \A n1 \in T : n1 \in Int
      OBVIOUS
    <3> QED BY <2>3, <3>1
  <2> QED BY <2>4
<1>3. \E m \in S : Largest(S, m)
  <2>1. Nat \subseteq K
    <3> HIDE DEF K
    <3> QED BY <1>1, <1>2, Induction
  <2>2. Cardinality(S) - 1 \in Nat /\ (Cardinality(S) - 1) + 1 = Cardinality(S)
    BY Smaller, S \in SUBSET S
  <2>3. Cardinality(S) - 1 \in K
    BY <2>1, <2>2
  <2> QED BY <2>2, <2>3, S \in SUBSET S
<1>4. \E m \in S : \A n \in S : m >= n
  BY <1>3
<1>5. Max(S) \in S /\ \A n \in S : Max(S) >= n
  BY <1>4 DEF Max
<1> QED BY <1>5

\* The product over a finite set of numbers is a number, and 1 over none.
LEMMA ProductResult ==
  ASSUME NEW key, NEW S, S = With(key), IsFiniteSet(S), \A f \in S : faults[f][key] \in Int
  PROVE  /\ ActiveProduct(key) \in Int
         /\ S = {} => ActiveProduct(key) = 1
<1> DEFINE Body(g, T) == IF T = {} THEN 1
                         ELSE g[T \ {CHOOSE x \in T : TRUE}]
                              * faults[CHOOSE x \in T : TRUE][key]
           Solves(g, D) == g = [T \in D |-> Body(g, T)]
           iter == CHOOSE g : Solves(g, SUBSET S)
<1>1. ActiveProduct(key) = iter[S]
  BY DEF ActiveProduct, FoldSet, MapThenFoldSet
<1> HIDE DEF Body
<1> DEFINE D(n) == {T \in SUBSET S : Cardinality(T) <= n}
           N == Cardinality(S)
           Exists == {n \in Nat : \E g : Solves(g, D(n))}
           Number == {n \in Nat : \A T \in D(n) : iter[T] \in Int}
<1>2. /\ N \in Nat /\ D(N) = SUBSET S
      /\ \A n \in Nat : \A T \in D(n + 1) : T # {} =>
           T \ {CHOOSE x \in T : TRUE} \in D(n) /\ (CHOOSE x \in T : TRUE) \in T
      /\ \A T \in D(0) : T = {}
  <2>1. N \in Nat /\ D(N) = SUBSET S
    BY Smaller, S \in SUBSET S
  <2>2. ASSUME NEW n \in Nat, NEW T \in D(n + 1), T # {}
        PROVE  T \ {CHOOSE x \in T : TRUE} \in D(n) /\ (CHOOSE x \in T : TRUE) \in T
    <3> DEFINE x == CHOOSE y \in T : TRUE
    <3>1. x \in T
      BY <2>2
    <3> HIDE DEF x
    <3>2. T \ {x} \in SUBSET S /\ Cardinality(T \ {x}) <= n
      BY <3>1, Smaller
    <3> QED BY <3>1, <3>2 DEF x
  <2>3. ASSUME NEW T \in D(0) PROVE T = {}
    BY Smaller
  <2> QED BY <2>1, <2>2, <2>3
<1>3. \A g, h, T : (T # {} => g[T \ {CHOOSE x \in T : TRUE}] = h[T \ {CHOOSE x \in T : TRUE}])
                   => Body(g, T) = Body(h, T)
  BY DEF Body
<1>4. \A g : Body(g, {}) = 1
  BY DEF Body
<1>5. \E g : Solves(g, SUBSET S)
  <2>1. 0 \in Exists
    <3> DEFINE g == [T \in D(0) |-> 1]
    <3>1. Solves(g, D(0))
      <4> HIDE DEF D
      <4> QED BY <1>2, <1>4
    <3> QED BY <3>1
  <2>2. ASSUME NEW n \in Nat, n \in Exists
        PROVE  n + 1 \in Exists
    <3>1. PICK g : Solves(g, D(n))
      BY <2>2
    <3> DEFINE h == [T \in D(n + 1) |-> IF T \in D(n) THEN g[T] ELSE Body(g, T)]
    <3>2. \A T \in D(n) : T \in D(n + 1) /\ h[T] = g[T] /\ g[T] = Body(g, T)
      <4>1. \A T \in D(n) : T \in D(n + 1)
        BY Smaller
      <4> HIDE DEF D
      <4> QED BY <3>1, <4>1
    <3>3. ASSUME NEW T \in D(n + 1) PROVE h[T] = Body(h, T)
      <4>1. Body(h, T) = Body(g, T)
        <5> DEFINE r == T \ {CHOOSE x \in T : TRUE}
        <5>1. T # {} => r \in D(n)
          BY <1>2
        <5>2. T # {} => h[r] = g[r]
          <6> HIDE DEF D, h, r
          <6> QED BY <3>2, <5>1
        <5> HIDE DEF D, h
        <5> QED BY <1>3, <5>2
      <4>2. h[T] = IF T \in D(n) THEN g[T] ELSE Body(g, T)
        <5> HIDE DEF D
        <5> QED OBVIOUS
      <4> HIDE DEF D, h
      <4> QED BY <3>2, <4>1, <4>2
    <3>4. Solves(h, D(n + 1))
      <4>1. h = [T \in D(n + 1) |-> h[T]]
        <5> HIDE DEF D
        <5> QED OBVIOUS
      <4> HIDE DEF D, h
      <4> QED BY <3>3, <4>1
    <3>5. \E g1 : Solves(g1, D(n + 1))
      <4> HIDE DEF h, Solves, D
      <4> QED BY <3>4
    <3> HIDE DEF Solves, D
    <3> QED BY <3>5
  <2>3. N \in Exists
    <3> HIDE DEF Exists
    <3> QED BY <1>2, <2>1, <2>2, Induction
  <2>4. \E g : Solves(g, D(N))
    <3> HIDE DEF Solves, D
    <3> QED BY <2>3
  <2> HIDE DEF Solves, D
  <2> QED BY <1>2, <2>4
<1>6. Solves(iter, SUBSET S)
  <2> HIDE DEF Solves
  <2> QED BY <1>5
<1> HIDE DEF iter
<1>7. \A T \in SUBSET S : iter[T] = Body(iter, T)
  BY <1>6
<1>8. N \in Number
  <2>1. 0 \in Number
    <3> SUFFICES ASSUME NEW T \in D(0) PROVE iter[T] \in Int
      OBVIOUS
    <3>1. T = {} /\ T \in SUBSET S
      BY <1>2
    <3>2. iter[T] = Body(iter, T) /\ Body(iter, T) = 1
      BY <1>4, <1>7, <3>1
    <3> QED BY <3>2
  <2>2. ASSUME NEW n \in Nat, n \in Number
        PROVE  n + 1 \in Number
    <3> SUFFICES ASSUME NEW T \in D(n + 1) PROVE iter[T] \in Int
      OBVIOUS
    <3>1. CASE T = {}
      BY <1>4, <1>7, <3>1
    <3>2. CASE T # {}
      <4> DEFINE x == CHOOSE y \in T : TRUE
      <4>1. x \in T /\ T \ {x} \in D(n)
        BY <1>2, <3>2
      <4>2. iter[T] = iter[T \ {x}] * faults[x][key]
        BY <1>7, <3>2 DEF Body
      <4> HIDE DEF x
      <4>3. iter[T \ {x}] \in Int /\ faults[x][key] \in Int
        BY <2>2, <4>1
      <4> QED BY <4>2, <4>3
    <3> QED BY <3>1, <3>2
  <2> HIDE DEF Number
  <2> QED BY <1>2, <2>1, <2>2, Induction
<1>9. iter[S] \in Int
  <2>1. S \in D(N)
    BY <1>2
  <2> HIDE DEF D
  <2> QED BY <1>8, <2>1
<1>10. S = {} => iter[S] = 1
  BY <1>4, <1>7
<1> QED BY <1>1, <1>9, <1>10

\* Two numbers, and the larger or smaller of them.
LEMMA TwoNumbers ==
  ASSUME NEW a \in Int, NEW b \in Int
  PROVE  /\ Max({a, b}) \in {a, b} /\ a <= Max({a, b}) /\ b <= Max({a, b})
         /\ Min({a, b}) \in {a, b} /\ Min({a, b}) <= a /\ Min({a, b}) <= b
<1>1. (\E x \in {a, b} : \A y \in {a, b} : x >= y) /\ (\E x \in {a, b} : \A y \in {a, b} : x <= y)
  <2>1. CASE a <= b
    BY <2>1
  <2>2. CASE b <= a
    BY <2>2
  <2> QED BY <2>1, <2>2
<1>2. Max({a, b}) \in {a, b} /\ \A y \in {a, b} : Max({a, b}) >= y
  BY <1>1 DEF Max
<1>3. Min({a, b}) \in {a, b} /\ \A y \in {a, b} : Min({a, b}) <= y
  BY <1>1 DEF Min
<1> QED BY <1>2, <1>3

\* What one active fault after the other says is a number if each of them is.
LEMMA ActiveMaxResult ==
  ASSUME Registered, IsFiniteSet(DOMAIN faults), NEW key \in Keys, Values[key] \subseteq Int,
         NEW fallback \in Int
  PROVE  /\ ActiveMax(key, fallback) \in Int
         /\ active = {} => ActiveMax(key, fallback) = fallback
<1> DEFINE T == {faults[f][key] : f \in With(key)}
           S == {fallback} \cup T
<1>1. With(key) \subseteq DOMAIN faults /\ \A f \in With(key) : faults[f][key] \in Int
  BY DEF With, Registered
<1>2. IsFiniteSet(T)
  <2> DEFINE g == [f \in With(key) |-> faults[f][key]]
  <2>1. IsFiniteSet(With(key))
    BY <1>1, FS_Subset
  <2>2. g \in [With(key) -> T] /\ \A t \in T : \E f \in With(key) : g[f] = t
    OBVIOUS
  <2>3. g \in Surjection(With(key), T)
    <3> HIDE DEF g, T
    <3> QED BY <2>2 DEF Surjection
  <2> HIDE DEF g, T
  <2> QED BY <2>1, <2>3, FS_Surjection
<1>3. S \in SUBSET Int /\ S # {}
  BY <1>1
<1>4. IsFiniteSet(S)
  <2>1. IsFiniteSet(T \cup {fallback})
    <3> HIDE DEF T
    <3> QED BY <1>2, FS_AddElement
  <2>2. S = T \cup {fallback}
    OBVIOUS
  <2> QED BY <2>1, <2>2
<1>5. ActiveMax(key, fallback) = Max(S)
  BY DEF ActiveMax
<1>6. Max(S) \in S
  <2> HIDE DEF S
  <2> QED BY <1>3, <1>4, FiniteMax
<1>7. active = {} => S = {fallback}
  BY DEF With
<1> QED
  <2>1. Max(S) \in Int
    <3> HIDE DEF S
    <3> QED BY <1>3, <1>6
  <2>2. active = {} => Max(S) = fallback
    <3> HIDE DEF S
    <3> QED BY <1>6, <1>7
  <2> HIDE DEF S
  <2> QED BY <1>5, <2>1, <2>2

\* apply_scale(), apply_clamp() and apply_force_stop() make a number of a
\* number, keep it within the clamp, and leave it alone without active faults.
LEMMA MutatedResult ==
  ASSUME Registered, IsFiniteSet(DOMAIN faults), NEW y \in Int, NEW stop
  PROVE  LET limit == ActiveMax("max_linear_x", -1) IN
         /\ Mutated(y, stop) \in Int
         /\ stop => Mutated(y, stop) = 0
         /\ limit >= 0 => -limit <= Mutated(y, stop) /\ Mutated(y, stop) <= limit
         /\ active = {} /\ ~stop => Mutated(y, stop) = y
<1> DEFINE limit == ActiveMax("max_linear_x", -1)
           z == Scaled(y)
<1>1. limit \in Int /\ (active = {} => limit = -1)
  <2>1. "max_linear_x" \in Keys /\ Values["max_linear_x"] \subseteq Int /\ -1 \in Int
    BY TwistAssumption DEF Keys
  <2> QED BY <2>1, ActiveMaxResult
<1>2. z \in Int /\ (active = {} => z = y)
  <2> DEFINE key == "linear_x_scale"
  <2>1. /\ With(key) \subseteq DOMAIN faults
        /\ \A f \in With(key) : faults[f][key] \in Int
        /\ active = {} => With(key) = {}
    BY TwistAssumption DEF With, Registered
  <2>2. IsFiniteSet(With(key))
    BY <2>1, FS_Subset
  <2> HIDE DEF key
  <2>3. ActiveProduct(key) \in Int /\ (With(key) = {} => ActiveProduct(key) = 1)
    BY <2>1, <2>2, ProductResult
  <2>4. z = y * ActiveProduct(key)
    BY DEF Scaled, key
  <2> HIDE DEF z
  <2>5. ActiveProduct(key) = 1 => z = y
    BY <2>4
  <2>6. z \in Int
    BY <2>3, <2>4
  <2> QED BY <2>1, <2>3, <2>5, <2>6
<1> HIDE DEF z, limit
<1>3. Clamped(z) = IF limit < 0 THEN z ELSE Max({-limit, Min({limit, z})})
  BY DEF Clamped, limit
<1>4. /\ Clamped(z) \in Int
      /\ limit >= 0 => -limit <= Clamped(z) /\ Clamped(z) <= limit
      /\ limit < 0 => Clamped(z) = z
  <2>1. Min({limit, z}) \in Int /\ Min({limit, z}) <= limit
    BY <1>1, <1>2, TwoNumbers
  <2>2. -limit \in Int
    BY <1>1
  <2>3. /\ Max({-limit, Min({limit, z})}) \in {-limit, Min({limit, z})}
        /\ -limit <= Max({-limit, Min({limit, z})})
    BY <2>1, <2>2, TwoNumbers
  <2> QED BY <1>1, <1>2, <1>3, <2>1, <2>2, <2>3
<1>5. Mutated(y, stop) = IF stop THEN 0 ELSE Clamped(z)
  BY DEF Mutated, z
<1>6. limit >= 0 => -limit <= 0 /\ 0 <= limit
  BY <1>1
<1>7. active = {} => limit < 0
  BY <1>1
<1> QED BY <1>2, <1>4, <1>5, <1>6, <1>7 DEF limit

-----------------------------------------------------------------------------
(* Types.  That a command stays a number needs the faults to be finitely     *)
(* many, which no operation changes.                                         *)

Sent == [n : Nat, source : Nat, x : Int, release : Nat, at : Nat, via : {"callback", "flush"}]

Typed ==
  /\ IsFiniteSet(DOMAIN faults)
  /\ last # NoCommand => last \in [source : 1..arrived, x : Speeds, at : 0..now]
  /\ inputs \in Seq([x : Speeds, at : 0..now])
  /\ changes \in 0..MaxChanges
  /\ arrived <= MaxMessages /\ dropped \subseteq 1..arrived
  /\ delayed \in Seq(Command) /\ published \in Seq(Sent)
  /\ flushDue \in Nat /\ now <= flushDue + MaxLate

TInv == IInv /\ Typed

LEMMA TypedGivesTypeOK == TInv => TypeOK
<1> SUFFICES ASSUME TInv PROVE TypeOK
  OBVIOUS
<1>1. Shape /\ Registered /\ Typed
  BY DEF TInv, IInv
<1>2. Queue \in Seq(Forwarding!Held)
  <2>1. /\ Len(delayed) \in Nat /\ DOMAIN delayed = 1..Len(delayed)
        /\ \A j \in 1..Len(delayed) : delayed[j] \in Command
    BY <1>1, LenProperties, ElementOfSeq DEF Typed
  <2>2. \A j \in 1..Len(delayed) : Bare(delayed[j]) \in Forwarding!Held
    BY <2>1 DEF Bare, Forwarding!Held, Command
  <2>3. Queue \in [1..Len(delayed) -> Forwarding!Held]
    BY <2>1, <2>2 DEF Queue
  <2> QED BY <2>1, <2>3, SeqDef
<1>3. Output \in Seq(Forwarding!Published)
  <2>1. /\ Len(published) \in Nat /\ DOMAIN published = 1..Len(published)
        /\ \A j \in 1..Len(published) : published[j] \in Sent
    BY <1>1, LenProperties, ElementOfSeq DEF Typed
  <2>2. \A j \in 1..Len(published) : BarePublished(published[j]) \in Forwarding!Published
    BY <2>1 DEF BarePublished, Forwarding!Published, Sent
  <2>3. Output \in [1..Len(published) -> Forwarding!Published]
    BY <2>1, <2>2 DEF Output
  <2> QED BY <2>1, <2>3, SeqDef
<1>4. arrived \in 0..MaxMessages
  <2>1. arrived \in Nat /\ MaxMessages \in Nat
    BY <1>1, SequenceResult, TwistAssumption DEF Shape, arrived
  <2> QED BY <1>1, <2>1 DEF Typed
<1>5. Forwarding!TypeOK
  BY <1>1, <1>2, <1>3, <1>4 DEF Forwarding!TypeOK, Typed, Shape
<1> QED BY <1>1, <1>5 DEF TypeOK, Typed, Registered

LEMMA InitTyped == Init => TInv
<1> SUFFICES ASSUME Init PROVE TInv
  OBVIOUS
<1>1. /\ inputs = <<>> /\ delayed = <<>> /\ published = <<>> /\ last = NoCommand
      /\ now = 0 /\ changes = 0 /\ dropped = {} /\ flushDue = FlushPeriod
      /\ IsFiniteSet(DOMAIN faults)
  BY TwistAssumption DEF Init
<1>2. arrived = 0
  BY <1>1 DEF arrived
<1>3. {FlushPeriod, MaxMessages, MaxChanges, MaxLate} \subseteq Nat
  BY TwistAssumption
<1> QED BY <1>1, <1>2, <1>3, InitIInv, EmptySeq DEF TInv, Typed

\* What the command chosen is: one that arrived, now or before.
LEMMA ChosenResult ==
  ASSUME TInv, NEW x \in Speeds, NEW stale, Arrive(x)
  PROVE  /\ Chosen(x, stale) \in [source : 1..(arrived + 1), x : Speeds, at : 0..now]
         /\ arrived' = arrived + 1 /\ arrived \in Nat /\ now \in Nat
<1>1. Shape /\ Typed
  BY DEF TInv, IInv
<1>2. arrived' = arrived + 1 /\ arrived \in Nat /\ now \in Nat
  BY <1>1, ArriveResult DEF Shape
<1>3. Newest(x) \in [source : 1..(arrived + 1), x : Speeds, at : 0..now]
  BY <1>2 DEF Newest
<1>4. last # NoCommand => last \in [source : 1..(arrived + 1), x : Speeds, at : 0..now]
  <2>1. 1..arrived \subseteq 1..(arrived + 1)
    BY <1>2
  <2> QED BY <1>1, <2>1 DEF Typed
<1> QED BY <1>2, <1>3, <1>4 DEF Chosen, Replays

\* The message made of a command.
LEMMA MessageResult ==
  ASSUME TInv, NEW x \in Speeds, NEW stale, NEW stop, Arrive(x), NEW delay \in Nat
  PROVE  Message(x, stale, stop, delay) \in Command
<1>1. /\ Registered /\ IsFiniteSet(DOMAIN faults)
      /\ arrived \in Nat /\ now \in Nat
      /\ Chosen(x, stale).source \in Nat /\ Chosen(x, stale).x \in Int
  <2>1. /\ Chosen(x, stale) \in [source : 1..(arrived + 1), x : Speeds, at : 0..now]
        /\ arrived \in Nat /\ now \in Nat
    BY ChosenResult
  <2>2. Speeds \subseteq Int /\ 1..(arrived + 1) \subseteq Nat
    BY <2>1, TwistAssumption
  <2> QED BY <2>1, <2>2 DEF TInv, IInv, Typed
<1>2. Mutated(Chosen(x, stale).x, stop) \in Int
  BY <1>1, MutatedResult
<1> QED BY <1>1, <1>2 DEF Message, Command

\* A command arrives: the history grows by one.
LEMMA ArriveTyped ==
  ASSUME TInv, IInv', NEW x \in Speeds, Arrive(x),
         last' = last \/ \E stale : last' = LastCommand(x, stale),
         dropped' \subseteq dropped \cup {arrived + 1},
         delayed' \in Seq(Command), published' \in Seq(Sent)
  PROVE  TInv'
<1>1. Shape /\ Typed
  BY DEF TInv, IInv
<1>2. /\ arrived' = arrived + 1 /\ arrived \in Nat /\ now \in Nat /\ arrived < MaxMessages
      /\ inputs' = Append(inputs, [x |-> x, at |-> now])
      /\ UNCHANGED <<faults, changes, now, flushDue>>
  BY <1>1, ArriveResult DEF Shape, Arrive, registry
<1>3. inputs' \in Seq([x : Speeds, at : 0..now'])
  <2>1. [x |-> x, at |-> now] \in [x : Speeds, at : 0..now]
    BY <1>2
  <2> QED BY <1>1, <1>2, <2>1, AppendProperties DEF Typed
<1>4. last' # NoCommand => last' \in [source : 1..arrived', x : Speeds, at : 0..now']
  <2>1. CASE last' = last
    <3>1. 1..arrived \subseteq 1..arrived'
      BY <1>2
    <3> QED BY <1>1, <1>2, <2>1, <3>1 DEF Typed
  <2>2. ASSUME NEW stale, last' = LastCommand(x, stale)
        PROVE  last' \in [source : 1..arrived', x : Speeds, at : 0..now']
    BY <1>2, <2>2, ChosenResult DEF LastCommand
  <2> QED BY <2>1, <2>2
<1>5. arrived' <= MaxMessages /\ dropped' \subseteq 1..arrived'
  <2>1. dropped \subseteq 1..arrived /\ MaxMessages \in Nat
    BY <1>1, TwistAssumption DEF Typed
  <2> QED BY <1>2, <2>1
<1> QED BY <1>1, <1>2, <1>3, <1>4, <1>5 DEF TInv, Typed

LEMMA FlushTyped ==
  ASSUME TInv, IInv', FlushDelayed
  PROVE  TInv'
<1> DEFINE k == Forwarding!Due(Queue, now)
           out == [j \in 1..k |-> Publish(delayed[j], "flush")]
<1>1. Shape /\ Typed /\ delayed \in Seq(Command) /\ published \in Seq(Sent)
  BY DEF TInv, IInv, Typed
<1>2. /\ UNCHANGED <<registry, last, inputs, now, dropped>>
      /\ published' = published \o out
      /\ delayed' = SubSeq(delayed, k + 1, Len(delayed))
      /\ flushDue' = Forwarding!NextCall(flushDue, now) /\ flushDue <= now
  BY DEF FlushDelayed, Forwarding!Rest
<1>3. k \in 0..Len(delayed) /\ now \in Nat /\ flushDue \in Nat /\ Len(delayed) \in Nat
  BY <1>1, FlushResult, LenProperties DEF Shape, Typed
<1> HIDE DEF k
<1>4. published' \in Seq(Sent)
  <2>1. ASSUME NEW j \in 1..k PROVE Publish(delayed[j], "flush") \in Sent
    <3>1. delayed[j] \in Command
      <4>1. j \in 1..Len(delayed)
        BY <1>3
      <4> QED BY <1>1, <4>1, ElementOfSeq
    <3> QED BY <1>3, <3>1 DEF Publish, Sent, Command
  <2>2. out \in Seq(Sent)
    <3>1. out \in [1..k -> Sent] /\ k \in Nat
      BY <1>3, <2>1
    <3> QED BY <3>1, SeqDef
  <2> HIDE DEF out
  <2> QED BY <1>1, <1>2, <2>2, ConcatProperties
<1>5. delayed' \in Seq(Command)
  <2>1. \A j \in (k + 1)..Len(delayed) : delayed[j] \in Command
    <3> SUFFICES ASSUME NEW j \in (k + 1)..Len(delayed) PROVE delayed[j] \in Command
      OBVIOUS
    <3>1. j \in 1..Len(delayed)
      BY <1>3
    <3> QED BY <1>1, <3>1, ElementOfSeq
  <2> QED BY <1>1, <1>2, <1>3, <2>1, SubSeqProperties
<1>6. flushDue' \in Nat /\ now <= flushDue' + MaxLate
  <2>1. FlushPeriod \in Nat \ {0} /\ MaxLate \in Nat
    BY TwistAssumption
  <2>2. (flushDue - now) % FlushPeriod \in 0..FlushPeriod
    BY <1>3, <2>1
  <2>3. flushDue' \in now..(now + FlushPeriod)
    BY <1>2, <1>3, <2>1, <2>2 DEF Forwarding!NextCall
  <2>4. flushDue' \in Nat /\ now <= flushDue'
    BY <1>3, <2>1, <2>3
  <2>5. \A d \in Nat : now <= d => now <= d + MaxLate
    BY <1>3, <2>1
  <2> QED BY <2>4, <2>5
<1> QED BY <1>1, <1>2, <1>4, <1>5, <1>6 DEF TInv, Typed, registry, arrived

\* The faults change: they stay finitely many.
LEMMA ChangeTyped ==
  ASSUME TInv, IInv', Change, IsFiniteSet(DOMAIN faults')
  PROVE  TInv'
<1>1. changes' \in 0..MaxChanges
  <2>1. MaxChanges \in Nat /\ changes \in 0..MaxChanges
    BY TwistAssumption DEF TInv, Typed
  <2> QED BY <2>1 DEF Change
<1> QED BY <1>1 DEF TInv, Typed, Change, arrived

LEMMA NextTyped == TInv /\ [Next]_vars => TInv'
<1> SUFFICES ASSUME TInv, [Next]_vars PROVE TInv'
  OBVIOUS
<1>1. IInv' /\ Shape /\ Registered /\ Typed
  BY NextIInv DEF TInv, IInv
<1>2. CASE Tick
  <2>1. /\ now \in Nat /\ now' = now + 1 /\ now < flushDue + MaxLate
        /\ UNCHANGED <<registry, last, inputs, dropped, delayed, published, flushDue>>
    BY <1>1, <1>2 DEF Tick, Shape
  <2>2. 0..now \subseteq 0..now'
    BY <2>1
  <2>3. inputs' \in Seq([x : Speeds, at : 0..now'])
    <3>1. [x : Speeds, at : 0..now] \subseteq [x : Speeds, at : 0..now']
      BY <2>2
    <3>2. inputs \in Seq([x : Speeds, at : 0..now]) /\ inputs' = inputs
      BY <1>1, <2>1 DEF Typed
    <3>3. inputs \in Seq([x : Speeds, at : 0..now'])
      BY <3>1, <3>2, SeqMonotonic
    <3> QED BY <3>2, <3>3
  <2>4. last' # NoCommand => last' \in [source : 1..arrived', x : Speeds, at : 0..now']
    BY <1>1, <2>1, <2>2 DEF Typed, arrived
  <2>5. now' <= flushDue' + MaxLate
    <3>1. flushDue \in Nat /\ MaxLate \in Nat
      BY <1>1, TwistAssumption DEF Typed
    <3> QED BY <2>1, <3>1
  <2> QED BY <1>1, <2>1, <2>3, <2>4, <2>5 DEF TInv, Typed, registry, arrived
<1>3. ASSUME NEW x \in Speeds, Drop(x) PROVE TInv'
  BY <1>1, <1>3, ArriveTyped DEF Drop, Typed
<1>4. ASSUME NEW x \in Speeds, NEW stale, NEW stop, Delay(x, stale, stop) PROVE TInv'
  <2> DEFINE m == Message(x, stale, stop, ActiveDelay)
  <2>1. ActiveDelay \in Nat
    BY <1>1, DelayResult, TwistAssumption
  <2>2. m \in Command
    BY <1>4, <2>1, MessageResult DEF Delay
  <2> HIDE DEF m
  <2>3. delayed' \in Seq(Command)
    BY <1>1, <1>4, <2>2, AppendProperties DEF Delay, Typed, m
  <2> QED BY <1>1, <1>4, <2>3, ArriveTyped DEF Delay, Typed
<1>5. ASSUME NEW x \in Speeds, NEW stale, NEW stop, Forward(x, stale, stop) PROVE TInv'
  <2> DEFINE m == Message(x, stale, stop, 0)
             e == Publish(m, "callback")
  <2>1. m \in Command
    BY <1>5, MessageResult DEF Forward
  <2> HIDE DEF m
  <2>2. e \in Sent
    BY <1>1, <2>1 DEF Publish, Sent, Command, Shape
  <2> HIDE DEF e
  <2>3. published' \in Seq(Sent)
    BY <1>1, <1>5, <2>2, AppendProperties DEF Forward, Typed, m, e
  <2> QED BY <1>1, <1>5, <2>3, ArriveTyped DEF Forward, Typed
<1>6. CASE FlushDelayed
  BY <1>1, <1>6, FlushTyped
<1>7. ASSUME NEW f \in DOMAIN faults, ActivateFault(f) \/ DeactivateFault(f) PROVE TInv'
  BY <1>1, <1>7, ChangeTyped DEF ActivateFault, DeactivateFault, Typed
<1>8. ASSUME NEW f \in DOMAIN faults, NEW key \in Keys, NEW value \in Values[key],
             SetFaultConfigValue(f, key, value)
      PROVE  TInv'
  <2>1. DOMAIN faults' = DOMAIN faults
    BY <1>8 DEF SetFaultConfigValue
  <2> QED BY <1>1, <1>8, <2>1, ChangeTyped DEF SetFaultConfigValue, Typed
<1>9. ASSUME NEW s \in Scenarios, NEW startup \in SUBSET DOMAIN s, Reload(s, startup)
      PROVE  TInv'
  BY <1>1, <1>9, ChangeTyped, TwistAssumption DEF Reload
<1>10. CASE UNCHANGED vars
  BY <1>1, <1>10 DEF TInv, Typed, vars, arrived
<1> QED BY <1>2, <1>3, <1>4, <1>5, <1>6, <1>7, <1>8, <1>9, <1>10 DEF Next, Horizon

\* Types; only registered faults are active, and nothing the faults hold can
\* turn a command into something that is not one.
THEOREM TypeCorrect == Spec => []TypeOK
<1> QED BY InitTyped, NextTyped, TypedGivesTypeOK, PTL DEF Spec

-----------------------------------------------------------------------------
(* The faults apply to what is accepted, whatever else goes on: a message is *)
(* new in the step of its arrival only, and every way a command goes mutates *)
(* it by the faults of that moment.                                          *)

Applied(m) ==
  LET limit == ActiveMax("max_linear_x", -1)
      duration == ActiveMax("stale_replay_duration_ms", ReplayFallback) IN
  /\ ActiveBool("force_stop") = {TRUE} => m.x = 0
  /\ limit >= 0 => -limit <= m.x /\ m.x <= limit
  /\ m.source # m.n => /\ \E on \in ActiveBool("stale_replay_enabled") : on
                       /\ Age(m)' <= duration
  /\ active = {} => /\ m.source = m.n /\ m.x = inputs'[m.n].x
                    /\ m.release = now /\ delayed' = delayed

\* What arrives and is accepted.
LEMMA AppliedResult ==
  ASSUME RInv, TInv, NEW x \in Speeds, NEW stale \in ActiveBool("stale_replay_enabled"),
         NEW stop \in ActiveBool("force_stop"), Arrive(x),
         NEW m, m.n = arrived + 1, m.source = Chosen(x, stale).source,
         m.x = Mutated(Chosen(x, stale).x, stop),
         active = {} => m.release = now /\ delayed' = delayed
  PROVE  Applied(m)
<1> DEFINE limit == ActiveMax("max_linear_x", -1)
           y == Chosen(x, stale).x
<1>1. Registered /\ IsFiniteSet(DOMAIN faults) /\ Shape
  BY DEF TInv, IInv, Typed
<1>2. y \in Int
  <2>1. Chosen(x, stale) \in [source : 1..(arrived + 1), x : Speeds, at : 0..now]
    BY ChosenResult
  <2> QED BY <2>1, TwistAssumption
<1>3. /\ stop => Mutated(y, stop) = 0
      /\ limit >= 0 => -limit <= Mutated(y, stop) /\ Mutated(y, stop) <= limit
      /\ active = {} /\ ~stop => Mutated(y, stop) = y
  <2> HIDE DEF y
  <2> QED BY <1>1, <1>2, MutatedResult
<1>4. ASSUME ActiveBool("force_stop") = {TRUE} PROVE m.x = 0
  <2>1. stop
    BY <1>4
  <2> QED BY <1>3, <2>1
<1>5. ASSUME active = {}
      PROVE  m.source = m.n /\ m.x = inputs'[m.n].x
  <2>1. stale = FALSE /\ stop = FALSE
    BY <1>5 DEF ActiveBool, With
  <2>2. Chosen(x, stale) = Newest(x)
    BY <2>1 DEF Chosen, Replays
  <2>3. m.source = arrived + 1 /\ y = x
    BY <2>2 DEF Newest
  <2>4. m.x = x
    BY <1>3, <1>5, <2>1, <2>3
  <2>5. inputs'[arrived + 1] = [x |-> x, at |-> now]
    BY <1>1, ArriveResult
  <2> QED BY <2>3, <2>4, <2>5
<1>6. ASSUME m.source # m.n
      PROVE  /\ \E on \in ActiveBool("stale_replay_enabled") : on
             /\ Age(m)' <= ActiveMax("stale_replay_duration_ms", ReplayFallback)
  <2>1. Replays(stale) /\ m.source = last.source
    BY <1>6 DEF Chosen, Newest
  <2>2. /\ last.source \in 1..arrived /\ last.at = inputs[last.source].at
        /\ inputs'[last.source] = inputs[last.source]
        /\ inputs'[arrived + 1].at = now
    <3>1. last.source \in 1..arrived /\ last.at = inputs[last.source].at
      BY <2>1 DEF Replays, RInv, Latest
    <3>2. /\ inputs'[last.source] = inputs[last.source]
          /\ inputs'[arrived + 1] = [x |-> x, at |-> now]
      BY <1>1, <3>1, ArriveResult
    <3> QED BY <3>1, <3>2
  <2>3. Age(m)' = now - last.at
    BY <2>1, <2>2 DEF Age
  <2> QED BY <2>1, <2>3 DEF Replays
<1> HIDE DEF y
<1> QED BY <1>3, <1>4, <1>5, <1>6 DEF Applied, y

\* What was accepted before arrived before.
LEMMA AcceptedBefore ==
  ASSUME RInv, NEW m \in Accepted PROVE m.n \in Nat /\ ~(m.n > arrived)
<1>1. arrived \in Nat
  BY SequenceResult DEF RInv, IInv, Shape, arrived
<1> QED BY <1>1 DEF RInv, Latest

LEMMA NextApplied ==
  ASSUME RInv, TInv, [Next]_vars, NEW m \in Accepted', m.n > arrived
  PROVE  Applied(m)
<1>1. Shape /\ Registered
  BY DEF TInv, IInv
<1>2. CASE m \in Accepted
  BY <1>2, AcceptedBefore
<1>3. ASSUME UNCHANGED <<delayed, published>> PROVE FALSE
  <2>1. m \in Accepted
    BY <1>3 DEF Accepted
  <2> QED BY <2>1, AcceptedBefore
<1>4. ASSUME NEW x \in Speeds, NEW stale \in ActiveBool("stale_replay_enabled"),
             NEW stop \in ActiveBool("force_stop"), Delay(x, stale, stop)
      PROVE  Applied(m)
  <2> DEFINE new == Message(x, stale, stop, ActiveDelay)
  <2>1. Accepted' = Accepted \cup {new}
    <3>1. delayed' = Append(delayed, new) /\ published' = published /\ IsSequence(delayed)
      BY <1>1, <1>4 DEF Delay, Shape
    <3> HIDE DEF new
    <3> QED BY <3>1, AppendRange DEF Accepted
  <2>2. /\ new.n = arrived + 1 /\ new.source = Chosen(x, stale).source
        /\ new.x = Mutated(Chosen(x, stale).x, stop)
    BY DEF Message
  <2>3. active # {}
    <3>1. ActiveDelay > 0 /\ (active = {} => ActiveDelay = 0)
      <4>1. /\ "delay_ms" \in Keys /\ Values["delay_ms"] \subseteq Int /\ 0 \in Int
            /\ IsFiniteSet(DOMAIN faults)
        BY TwistAssumption DEF Keys, TInv, Typed
      <4> QED BY <1>1, <1>4, <4>1, ActiveMaxResult DEF Delay, ActiveDelay
    <3> QED BY <3>1
  <2> HIDE DEF new
  <2>4. Applied(new)
    BY <1>4, <2>2, <2>3, AppliedResult DEF Delay
  <2> QED BY <1>2, <2>1, <2>4
<1>5. ASSUME NEW x \in Speeds, NEW stale \in ActiveBool("stale_replay_enabled"),
             NEW stop \in ActiveBool("force_stop"), Forward(x, stale, stop)
      PROVE  Applied(m)
  <2> DEFINE new == Publish(Message(x, stale, stop, 0), "callback")
  <2>1. Accepted' = Accepted \cup {new}
    <3>1. published' = Append(published, new) /\ delayed' = delayed /\ IsSequence(published)
      BY <1>1, <1>5 DEF Forward, Shape
    <3> HIDE DEF new
    <3> QED BY <3>1, AppendRange DEF Accepted
  <2>2. /\ new.n = arrived + 1 /\ new.source = Chosen(x, stale).source
        /\ new.x = Mutated(Chosen(x, stale).x, stop) /\ new.release = now
    BY <1>1 DEF Message, Publish, Shape
  <2> HIDE DEF new
  <2>3. Applied(new)
    BY <1>5, <2>2, AppliedResult DEF Forward
  <2> QED BY <1>2, <2>1, <2>3
<1>6. ASSUME FlushDelayed PROVE FALSE
  <2>1. PICK o \in Accepted : o.n = m.n
    BY <1>1, <1>6, FlushKeeps
  <2>2. arrived' = arrived
    BY <1>6 DEF FlushDelayed, arrived
  <2> QED BY <2>1, AcceptedBefore
<1>7. CASE Tick \/ Change \/ (\E x \in Speeds : Drop(x)) \/ UNCHANGED vars
  BY <1>3, <1>7 DEF Tick, Change, Drop, vars
<1> QED BY <1>4, <1>5, <1>6, <1>7
        DEF Next, ActivateFault, DeactivateFault, SetFaultConfigValue, Reload, Horizon

\* A message accepted while every active fault with force_stop sets it is zero,
\* none is beyond the clamp, replayed and scaled as it may be, a command is only
\* replayed while a fault enables it and no later than the longest active duration
\* or the fallback after its own arrival, and without an active fault a message
\* passes at once and unchanged.
THEOREM FaultsAlwaysApply == Spec => FaultsApply
<1>1. RInv /\ TInv /\ [Next]_vars =>
        [\A m \in Accepted' : m.n > arrived =>
           LET limit == ActiveMax("max_linear_x", -1)
               duration == ActiveMax("stale_replay_duration_ms", ReplayFallback) IN
           /\ ActiveBool("force_stop") = {TRUE} => m.x = 0
           /\ limit >= 0 => -limit <= m.x /\ m.x <= limit
           /\ m.source # m.n => /\ \E on \in ActiveBool("stale_replay_enabled") : on
                                /\ Age(m)' <= duration
           /\ active = {} => /\ m.source = m.n /\ m.x = inputs'[m.n].x
                             /\ m.release = now /\ delayed' = delayed]_vars
  BY NextApplied DEF Applied
<1> QED BY InitRInv, NextRInv, InitTyped, NextTyped, <1>1, PTL DEF Spec, FaultsApply
=============================================================================
