------------------------ MODULE CampaignRunner_proofs ------------------------
(* Proofs about CampaignRunner.                                              *)
EXTENDS CampaignRunner, SequenceTheorems, FiniteSetTheorems, WellFoundedInduction, TLAPS

(***************************************************************************)
(* The inductive invariant.  Between two runs and during one there is a    *)
(* record of each run before; a campaign that is over has all of them, or  *)
(* one more that was interrupted, or a refused timeout.                    *)
(***************************************************************************)
Passed(rs) == {i \in DOMAIN rs : rs[i].outcome = "passed"}

Counts(rs) == [total |-> Len(rs), passed |-> Cardinality(Passed(rs)),
               failed |-> Len(rs) - Cardinality(Passed(rs))]

InPlan ==
  \A i \in 1 .. Len(records) : i <= Len(Plan(campaign)) /\ records[i].run = Plan(campaign)[i]

Refused == timeout = 0 /\ records = <<[run |-> None, outcome |-> "failed"]>>

Complete == timeout > 0 /\ InPlan /\ Len(records) = Len(Plan(campaign))

CutShort ==
  /\ timeout > 0 /\ InPlan /\ ~ok
  /\ Len(records) > 0 /\ records[Len(records)].outcome = "interrupted"

Recorded ==
  /\ counts = Counts(records)
  /\ phase = "starting" => records = <<>> /\ timeout = 0 /\ next = 1
  /\ phase \in {"between", "running", "crashed", "stuck"} =>
       InPlan /\ Len(records) = next - 1 /\ (timeout = 0 => next = 1)
  /\ phase \in {"running", "crashed", "stuck"} =>
       timeout > 0 /\ next <= Len(Plan(campaign))
  /\ phase = "reporting" => Refused \/ Complete \/ CutShort
  /\ phase = "exited" => \/ exit = 1 /\ records = <<>>
                         \/ Refused \/ Complete \/ CutShort
  /\ phase # "exited" => exit = None
  /\ exit = 0 => Success /\ phase = "exited"

IInv == TypeOK /\ Recorded

-----------------------------------------------------------------------------
(* The plan is a sequence of runs, and every value of every variant is in it *)
(* once for each repeat: what FlattenSeq makes of sequences, by induction on *)
(* their number.                                                             *)

LEMMA Induction ==
  ASSUME NEW S, 0 \in S, \A n \in Nat : n \in S => n + 1 \in S
  PROVE  Nat \subseteq S
<1> DEFINE T == Nat \ S
           R == OpToRel(<, Nat)
<1> SUFFICES ASSUME T # {} PROVE FALSE
  OBVIOUS
<1>1. \A x, y \in Nat : y < x => <<y, x>> \in R
  BY DEF OpToRel
<1>2. IsWellFoundedOn(R, Nat)
  BY NatLessThanWellFounded
<1>3. T \subseteq Nat
  OBVIOUS
<1> HIDE DEF R
<1>4. PICK x \in T : \A y \in T : ~(<<y, x>> \in R)
  <2> HIDE DEF T
  <2> QED BY <1>2, <1>3, WFMin
<1>5. x \in Nat /\ x \notin S /\ x # 0
  OBVIOUS
<1>6. x - 1 \in Nat /\ x - 1 < x /\ (x - 1) + 1 = x
  BY <1>5
<1>7. x - 1 \in T
  BY <1>5, <1>6
<1> QED BY <1>1, <1>4, <1>5, <1>6, <1>7

\* The function FlattenSeq defines exists.
LEMMA FlattenFunction ==
  ASSUME NEW seqs, Len(seqs) \in Nat, Len(seqs) > 0
  PROVE  \E f : /\ FlattenSeq(seqs) = f[Len(seqs)]
                /\ f[1] = seqs[1]
                /\ \A n \in 1 .. Len(seqs) : n # 1 => f[n] = f[n - 1] \o seqs[n]
<1> DEFINE Body(f, i) == IF i = 1 THEN seqs[i] ELSE f[i - 1] \o seqs[i]
           Solves(f, n) == f = [i \in 1 .. n |-> Body(f, i)]
           S == {n \in Nat : \E f : Solves(f, n)}
           N == Len(seqs)
           flatten == CHOOSE f : Solves(f, N)
<1>1. FlattenSeq(seqs) = flatten[N]
  BY DEF FlattenSeq
<1>2. \A f : Body(f, 1) = seqs[1]
  OBVIOUS
<1>3. \A f, i : i # 1 => Body(f, i) = f[i - 1] \o seqs[i]
  OBVIOUS
<1> HIDE DEF Body
<1>4. 0 \in S
  <2>1. Solves([i \in 1 .. 0 |-> i], 0)
    OBVIOUS
  <2> HIDE DEF Solves
  <2> QED BY <2>1
<1>5. ASSUME NEW n \in Nat, n \in S
      PROVE  n + 1 \in S
  <2>1. PICK f : Solves(f, n)
    BY <1>5
  <2> DEFINE g == [i \in 1 .. (n + 1) |-> IF i = n + 1 THEN Body(f, i) ELSE f[i]]
  <2>2. ASSUME NEW i \in 1 .. (n + 1)
        PROVE  g[i] = Body(g, i)
    <3>1. CASE i = 1 /\ i = n + 1
      BY <1>2, <3>1
    <3>2. CASE i = 1 /\ i # n + 1
      <4>1. i \in 1 .. n /\ g[i] = f[i]
        BY <3>2
      <4>2. f[i] = Body(f, i)
        BY <2>1, <4>1
      <4> QED BY <1>2, <3>2, <4>1, <4>2
    <3>3. CASE i # 1
      <4>1. i - 1 \in 1 .. (n + 1) /\ i - 1 # n + 1 /\ i \in Nat
        BY <3>3
      <4>2. g[i - 1] = f[i - 1]
        BY <4>1
      <4>3. g[i] = Body(f, i)
        <5>1. CASE i = n + 1
          BY <5>1
        <5>2. CASE i # n + 1
          <6>1. i \in 1 .. n /\ g[i] = f[i]
            BY <5>2
          <6> QED BY <2>1, <6>1
        <5> QED BY <5>1, <5>2
      <4> QED BY <1>3, <3>3, <4>2, <4>3
    <3> QED BY <3>1, <3>2, <3>3
  <2>3. Solves(g, n + 1)
    <3>1. g = [i \in 1 .. (n + 1) |-> g[i]]
      OBVIOUS
    <3> HIDE DEF g
    <3> QED BY <2>2, <3>1
  <2>4. n + 1 \in Nat /\ \E h : Solves(h, n + 1)
    <3> HIDE DEF g, Solves
    <3> QED BY <2>3
  <2> HIDE DEF Solves
  <2> QED BY <2>4
<1>6. N \in S
  <2> HIDE DEF S
  <2> QED BY <1>4, <1>5, Induction
<1>7. Solves(flatten, N)
  BY <1>6
<1> HIDE DEF flatten
<1>8. \A i \in 1 .. N : flatten[i] = Body(flatten, i)
  BY <1>7
<1>9. flatten[1] = seqs[1] /\ \A n \in 1 .. N : n # 1 => flatten[n] = flatten[n - 1] \o seqs[n]
  <2>1. 1 \in 1 .. N
    OBVIOUS
  <2> QED BY <1>2, <1>3, <1>8, <2>1
<1> QED BY <1>1, <1>9

\* Sequences flatten to a sequence that has every element of each of them.
LEMMA FlattenResult ==
  ASSUME NEW T, NEW seqs \in Seq(Seq(T))
  PROVE  /\ FlattenSeq(seqs) \in Seq(T)
         /\ \A i \in 1 .. Len(seqs) : \A j \in 1 .. Len(seqs[i]) :
              \E n \in 1 .. Len(FlattenSeq(seqs)) : FlattenSeq(seqs)[n] = seqs[i][j]
<1> DEFINE N == Len(seqs)
<1>1. N \in Nat /\ \A i \in 1 .. N : seqs[i] \in Seq(T)
  BY LenProperties, ElementOfSeq
<1>2. CASE N = 0
  <2>1. FlattenSeq(seqs) = seqs /\ seqs = <<>>
    BY <1>2, EmptySeq DEF FlattenSeq
  <2> QED BY <1>2, <2>1, EmptySeq
<1>3. CASE N > 0
  <2>1. PICK f : /\ FlattenSeq(seqs) = f[N]
                 /\ f[1] = seqs[1]
                 /\ \A n \in 1 .. N : n # 1 => f[n] = f[n - 1] \o seqs[n]
    BY <1>1, <1>3, FlattenFunction
  <2> DEFINE Has(s, t) == \A j \in 1 .. Len(t) : \E n \in 1 .. Len(s) : s[n] = t[j]
             Good(n) == f[n] \in Seq(T) /\ \A i \in 1 .. n : Has(f[n], seqs[i])
             S == {n \in Nat : n + 1 \in 1 .. N => Good(n + 1)}
  <2>2. 0 \in S
    <3>1. \A i \in 1 .. 1 : i = 1
      OBVIOUS
    <3>2. f[1] \in Seq(T) /\ f[1] = seqs[1]
      BY <1>1, <1>3, <2>1
    <3> QED BY <3>1, <3>2
  <2>3. ASSUME NEW n \in Nat, n \in S
        PROVE  n + 1 \in S
    <3> SUFFICES ASSUME (n + 1) + 1 \in 1 .. N PROVE Good((n + 1) + 1)
      OBVIOUS
    <3> DEFINE k == n + 1
               a == f[k]
               b == seqs[k + 1]
    <3>1. k \in 1 .. N /\ k + 1 # 1 /\ (k + 1) - 1 = k /\ k + 1 \in 1 .. N
      BY <1>1
    <3>2. Good(k)
      BY <2>3, <3>1
    <3>3. f[k + 1] = a \o b /\ a \in Seq(T) /\ b \in Seq(T)
      BY <1>1, <2>1, <3>1, <3>2
    <3> HIDE DEF a, b
    <3>4. /\ a \o b \in Seq(T) /\ Len(a \o b) = Len(a) + Len(b)
          /\ Len(a) \in Nat /\ Len(b) \in Nat
          /\ \A i \in 1 .. Len(a \o b) :
               (a \o b)[i] = IF i <= Len(a) THEN a[i] ELSE b[i - Len(a)]
      BY <3>3, ConcatProperties, LenProperties
    <3>5. Has(a \o b, b)
      <4> SUFFICES ASSUME NEW j \in 1 .. Len(b)
                   PROVE  \E m \in 1 .. Len(a \o b) : (a \o b)[m] = b[j]
        OBVIOUS
      <4> DEFINE m == Len(a) + j
      <4>1. m \in 1 .. Len(a \o b) /\ ~(m <= Len(a)) /\ m - Len(a) = j
        BY <3>4
      <4>2. (a \o b)[m] = b[j]
        BY <3>4, <4>1
      <4> QED BY <4>1, <4>2
    <3>6. ASSUME NEW i \in 1 .. k
          PROVE  Has(a \o b, seqs[i])
      <4> SUFFICES ASSUME NEW j \in 1 .. Len(seqs[i])
                   PROVE  \E m \in 1 .. Len(a \o b) : (a \o b)[m] = seqs[i][j]
        OBVIOUS
      <4>1. PICK m \in 1 .. Len(a) : a[m] = seqs[i][j]
        BY <3>2 DEF a
      <4>2. m \in 1 .. Len(a \o b) /\ m <= Len(a)
        BY <3>4
      <4> QED BY <3>4, <4>1, <4>2
    <3>7. \A i \in 1 .. (k + 1) : i \in 1 .. k \/ i = k + 1
      OBVIOUS
    <3>8. \A i \in 1 .. (k + 1) : Has(a \o b, seqs[i])
      <4> HIDE DEF Has, k
      <4> QED BY <3>5, <3>6, <3>7 DEF b
    <3>9. Good(k + 1)
      <4> HIDE DEF Has, k
      <4> QED BY <3>3, <3>4, <3>8
    <3> QED BY <3>9
  <2>4. Nat \subseteq S
    <3> HIDE DEF S
    <3> QED BY <2>2, <2>3, Induction
  <2>5. N - 1 \in Nat /\ (N - 1) + 1 = N /\ N \in 1 .. N
    BY <1>1, <1>3
  <2>6. Good(N)
    <3> HIDE DEF Good
    <3> QED BY <2>4, <2>5
  <2> QED BY <2>1, <2>6
<1> QED BY <1>1, <1>2, <1>3

Planned(c, repeat, v, i) ==
  [repeat |-> repeat, variant |-> v, fault |-> c.variants[v].fault,
   key |-> c.variants[v].key, value |-> c.variants[v].values[i]]

\* The plan of a campaign file: it is a sequence of runs, and every value of
\* every variant is in it for every repeat.
LEMMA PlanResult ==
  ASSUME NEW c \in Campaigns
  PROVE  /\ Plan(c) \in Seq(PlannedRun) /\ Len(Plan(c)) \in Nat
         /\ \A repeat \in 1 .. c.repeats : \A v \in DOMAIN c.variants :
            \A i \in DOMAIN c.variants[v].values :
              \E n \in 1 .. Len(Plan(c)) : Plan(c)[n] = Planned(c, repeat, v, i)
<1> DEFINE R == c.repeats
           V == Len(c.variants)
           Values(v) == c.variants[v].values
<1>1. /\ R \in Int
      /\ c.variants \in Seq([fault : STRING, key : STRING, values : Seq(STRING)])
  BY CampaignAssumption
<1>2. /\ V \in Nat /\ DOMAIN c.variants = 1 .. V
      /\ \A v \in 1 .. V : c.variants[v] \in [fault : STRING, key : STRING, values : Seq(STRING)]
  BY <1>1, LenProperties, ElementOfSeq
<1>3. ASSUME NEW v \in 1 .. V
      PROVE  /\ Len(Values(v)) \in Nat /\ DOMAIN Values(v) = 1 .. Len(Values(v))
             /\ \A i \in 1 .. Len(Values(v)) : Values(v)[i] \in STRING
  <2>1. Values(v) \in Seq(STRING)
    BY <1>2
  <2> QED BY <2>1, LenProperties, ElementOfSeq
<1>4. ASSUME NEW v \in 1 .. V, NEW repeat \in Int
      PROVE  /\ VariantRuns(c, v, repeat) \in Seq(PlannedRun)
             /\ Len(VariantRuns(c, v, repeat)) = Len(Values(v))
             /\ \A i \in 1 .. Len(Values(v)) :
                  VariantRuns(c, v, repeat)[i] = Planned(c, repeat, v, i)
  <2> DEFINE s == VariantRuns(c, v, repeat)
             n == Len(Values(v))
  <2>1. /\ s = [i \in 1 .. n |-> Planned(c, repeat, v, i)]
        /\ n \in Nat
    BY <1>3 DEF VariantRuns, Planned
  <2>2. \A i \in 1 .. n : Planned(c, repeat, v, i) \in PlannedRun
    <3>1. c.variants[v] \in [fault : STRING, key : STRING, values : Seq(STRING)] /\ v \in Nat
      BY <1>2
    <3> QED BY <1>3, <3>1 DEF Planned, PlannedRun
  <2>3. s \in [1 .. n -> PlannedRun]
    <3> HIDE DEF s, n
    <3> QED BY <2>1, <2>2
  <2> HIDE DEF s, n
  <2>4. s \in Seq(PlannedRun)
    BY <2>1, <2>3, SeqDef
  <2>5. Len(s) = n
    BY <2>1, <2>3, <2>4, LenProperties
  <2> QED BY <2>1, <2>4, <2>5 DEF s, n
<1>5. ASSUME NEW repeat \in Int
      PROVE  /\ Sweep(c, repeat) \in Seq(PlannedRun)
             /\ \A v \in 1 .. V : \A i \in 1 .. Len(Values(v)) :
                  \E n \in 1 .. Len(Sweep(c, repeat)) :
                    Sweep(c, repeat)[n] = Planned(c, repeat, v, i)
  <2> DEFINE seqs == [v \in 1 .. V |-> VariantRuns(c, v, repeat)]
  <2>1. Sweep(c, repeat) = FlattenSeq(seqs)
    BY <1>2 DEF Sweep
  <2>2. seqs \in [1 .. V -> Seq(PlannedRun)]
    <3>1. \A v \in 1 .. V : VariantRuns(c, v, repeat) \in Seq(PlannedRun)
      BY <1>4
    <3> HIDE DEF V
    <3> QED BY <3>1
  <2>3. \A v \in 1 .. V : seqs[v] = VariantRuns(c, v, repeat)
    OBVIOUS
  <2> HIDE DEF seqs, V, Values
  <2>4. seqs \in Seq(Seq(PlannedRun)) /\ Len(seqs) = V
    <3>1. seqs \in Seq(Seq(PlannedRun))
      BY <1>2, <2>2, SeqDef
    <3>2. DOMAIN seqs = 1 .. V
      BY <2>2
    <3> QED BY <1>2, <3>1, <3>2, LenProperties
  <2>5. /\ FlattenSeq(seqs) \in Seq(PlannedRun)
        /\ \A v \in 1 .. V : \A i \in 1 .. Len(seqs[v]) :
             \E n \in 1 .. Len(FlattenSeq(seqs)) : FlattenSeq(seqs)[n] = seqs[v][i]
    <3>1. seqs \in Seq(Seq(PlannedRun))
      BY <2>4
    <3>2. /\ FlattenSeq(seqs) \in Seq(PlannedRun)
          /\ \A v \in 1 .. Len(seqs) : \A i \in 1 .. Len(seqs[v]) :
               \E n \in 1 .. Len(FlattenSeq(seqs)) : FlattenSeq(seqs)[n] = seqs[v][i]
      BY <3>1, FlattenResult
    <3> QED BY <2>4, <3>2
  <2>6. ASSUME NEW v \in 1 .. V, NEW i \in 1 .. Len(Values(v))
        PROVE  \E n \in 1 .. Len(Sweep(c, repeat)) : Sweep(c, repeat)[n] = Planned(c, repeat, v, i)
    <3>1. /\ i \in 1 .. Len(seqs[v])
          /\ seqs[v][i] = Planned(c, repeat, v, i)
      BY <1>4, <2>3
    <3> QED BY <2>1, <2>5, <3>1
  <2> QED BY <2>1, <2>5, <2>6
<1>6. /\ Plan(c) \in Seq(PlannedRun)
      /\ \A repeat \in 1 .. R : \A v \in 1 .. V : \A i \in 1 .. Len(Values(v)) :
           \E n \in 1 .. Len(Plan(c)) : Plan(c)[n] = Planned(c, repeat, v, i)
  <2> DEFINE seqs == [repeat \in 1 .. R |-> Sweep(c, repeat)]
             N == IF R < 0 THEN 0 ELSE R
  <2>1. Plan(c) = FlattenSeq(seqs)
    BY DEF Plan
  <2>2. N \in Nat /\ 1 .. R = 1 .. N
    BY <1>1
  <2>3. \A repeat \in 1 .. R : seqs[repeat] = Sweep(c, repeat) /\ repeat \in Int
    BY <1>1
  <2>4. seqs \in [1 .. N -> Seq(PlannedRun)]
    BY <1>5, <2>2, <2>3
  <2> HIDE DEF seqs, V, Values, R, N
  <2>5. seqs \in Seq(Seq(PlannedRun)) /\ Len(seqs) = N
    <3>1. seqs \in Seq(Seq(PlannedRun))
      BY <2>2, <2>4, SeqDef
    <3>2. DOMAIN seqs = 1 .. N
      BY <2>4
    <3> QED BY <2>2, <3>1, <3>2, LenProperties
  <2>6. /\ FlattenSeq(seqs) \in Seq(PlannedRun)
        /\ \A repeat \in 1 .. N : \A j \in 1 .. Len(seqs[repeat]) :
             \E n \in 1 .. Len(FlattenSeq(seqs)) : FlattenSeq(seqs)[n] = seqs[repeat][j]
    <3>1. seqs \in Seq(Seq(PlannedRun))
      BY <2>5
    <3>2. /\ FlattenSeq(seqs) \in Seq(PlannedRun)
          /\ \A repeat \in 1 .. Len(seqs) : \A j \in 1 .. Len(seqs[repeat]) :
               \E n \in 1 .. Len(FlattenSeq(seqs)) : FlattenSeq(seqs)[n] = seqs[repeat][j]
      BY <3>1, FlattenResult
    <3> QED BY <2>5, <3>2
  <2>7. ASSUME NEW repeat \in 1 .. R, NEW v \in 1 .. V, NEW i \in 1 .. Len(Values(v))
        PROVE  \E n \in 1 .. Len(Plan(c)) : Plan(c)[n] = Planned(c, repeat, v, i)
    <3>1. seqs[repeat] = Sweep(c, repeat) /\ repeat \in Int /\ repeat \in 1 .. N
      BY <2>2, <2>3
    <3>2. PICK j \in 1 .. Len(Sweep(c, repeat)) :
            Sweep(c, repeat)[j] = Planned(c, repeat, v, i)
      BY <1>5, <3>1
    <3>3. PICK n \in 1 .. Len(FlattenSeq(seqs)) : FlattenSeq(seqs)[n] = seqs[repeat][j]
      BY <2>6, <3>1
    <3> QED BY <2>1, <3>1, <3>2, <3>3
  <2> QED BY <2>1, <2>6, <2>7
<1> QED BY <1>2, <1>3, <1>6, LenProperties

-----------------------------------------------------------------------------
(* Records and counters.                                                     *)

Counters == [total : Nat, passed : Nat, failed : Nat]

\* The numbers up to n are n.
LEMMA UpTo ==
  ASSUME NEW n \in Nat
  PROVE  IsFiniteSet(1 .. n) /\ Cardinality(1 .. n) = n
<1>1. /\ IsFiniteSet(1 .. n)
      /\ Cardinality(1 .. n) = IF 1 > n THEN 0 ELSE n - 1 + 1
  BY FS_Interval
<1>2. (IF 1 > n THEN 0 ELSE n - 1 + 1) = n
  OBVIOUS
<1> QED BY <1>1, <1>2

LEMMA CountsResult ==
  ASSUME NEW rs \in Seq(RunRecord)
  PROVE  Counts(rs) \in Counters
<1>1. Len(rs) \in Nat /\ DOMAIN rs = 1 .. Len(rs)
  BY LenProperties
<1>2. /\ IsFiniteSet(1 .. Len(rs)) /\ Cardinality(1 .. Len(rs)) = Len(rs)
      /\ Passed(rs) \in SUBSET (1 .. Len(rs))
  <2>1. IsFiniteSet(1 .. Len(rs)) /\ Cardinality(1 .. Len(rs)) = Len(rs)
    BY <1>1, UpTo
  <2>2. Passed(rs) \in SUBSET (1 .. Len(rs))
    BY <1>1 DEF Passed
  <2> QED BY <2>1, <2>2
<1>3. Cardinality(Passed(rs)) \in Nat /\ Cardinality(Passed(rs)) <= Len(rs)
  BY <1>2, FS_Subset, FS_CardinalityType
<1> QED BY <1>1, <1>3 DEF Counts, Counters

\* record_run keeps the counters those of the records.
LEMMA RecordResult ==
  ASSUME records \in Seq(RunRecord), counts = Counts(records),
         NEW r \in PlannedRun \cup {None}, NEW outcome \in Outcomes, Record(r, outcome)
  PROVE  /\ records' \in Seq(RunRecord) /\ counts' = Counts(records')
         /\ counts' \in Counters
         /\ Len(records) \in Nat /\ Len(records') = Len(records) + 1
         /\ \A i \in 1 .. Len(records) : records'[i] = records[i]
         /\ records'[Len(records) + 1] = [run |-> r, outcome |-> outcome]
<1> DEFINE e == [run |-> r, outcome |-> outcome]
           n == Len(records)
<1>1. e \in RunRecord
  BY DEF RunRecord
<1>2. records' = Append(records, e) /\ counts' = Counted(outcome = "passed")
  BY DEF Record
<1>3. e.outcome = outcome
  OBVIOUS
<1> HIDE DEF e
<1>4. /\ n \in Nat /\ DOMAIN records = 1 .. n
      /\ records' \in Seq(RunRecord) /\ Len(records') = n + 1
      /\ \A i \in 1 .. n : records'[i] = records[i]
      /\ records'[n + 1] = e
  BY <1>1, <1>2, AppendProperties, LenProperties
<1>5. DOMAIN records' = 1 .. (n + 1)
  BY <1>4, LenProperties
<1> HIDE DEF n
<1>6. IsFiniteSet(Passed(records)) /\ Cardinality(Passed(records)) \in Nat
  <2>1. IsFiniteSet(1 .. n) /\ Passed(records) \in SUBSET (1 .. n)
    BY <1>4, UpTo DEF Passed
  <2> QED BY <2>1, FS_Subset, FS_CardinalityType
<1>7. 1 .. (n + 1) = (1 .. n) \cup {n + 1} /\ n + 1 \notin 1 .. n
  BY <1>4
<1>8. CASE outcome = "passed"
  <2>1. Passed(records') = Passed(records) \cup {n + 1} /\ n + 1 \notin Passed(records)
    BY <1>3, <1>4, <1>5, <1>7, <1>8 DEF Passed
  <2>2. Cardinality(Passed(records')) = Cardinality(Passed(records)) + 1
    BY <1>6, <2>1, FS_AddElement
  <2>3. counts' = [total |-> n + 1, passed |-> Cardinality(Passed(records)) + 1,
                   failed |-> (n - Cardinality(Passed(records))) + 0]
    BY <1>2, <1>8 DEF Counted, Counts, n
  <2>4. counts' = Counts(records')
    BY <1>4, <1>6, <2>2, <2>3 DEF Counts
  <2> QED BY <1>4, <2>4, CountsResult DEF e, n
<1>9. CASE outcome # "passed"
  <2>1. Passed(records') = Passed(records)
    BY <1>3, <1>4, <1>5, <1>7, <1>9 DEF Passed
  <2>2. counts' = [total |-> n + 1, passed |-> Cardinality(Passed(records)) + 0,
                   failed |-> (n - Cardinality(Passed(records))) + 1]
    BY <1>2, <1>9 DEF Counted, Counts, n
  <2>3. counts' = Counts(records')
    BY <1>4, <1>6, <2>1, <2>2 DEF Counts
  <2> QED BY <1>4, <2>3, CountsResult DEF e, n
<1> QED BY <1>8, <1>9

\* A campaign is a success when it has records and all of them passed.
LEMMA SuccessResult ==
  ASSUME records \in Seq(RunRecord), counts = Counts(records), Success
  PROVE  /\ Len(records) \in Nat /\ Len(records) > 0
         /\ \A i \in 1 .. Len(records) : records[i].outcome = "passed"
<1> DEFINE n == Len(records)
<1>1. n \in Nat /\ DOMAIN records = 1 .. n
  BY LenProperties
<1>2. IsFiniteSet(1 .. n) /\ Cardinality(1 .. n) = n
  BY <1>1, UpTo
<1>3. Passed(records) \in SUBSET (1 .. n)
  BY <1>1 DEF Passed
<1>4. Cardinality(Passed(records)) \in Nat
  BY <1>2, <1>3, FS_Subset, FS_CardinalityType
<1>5. n > 0 /\ n - Cardinality(Passed(records)) = 0
  BY DEF Success, Counts
<1>6. Cardinality(1 .. n) = Cardinality(Passed(records))
  BY <1>1, <1>2, <1>4, <1>5
<1>7. 1 .. n = Passed(records)
  BY <1>2, <1>3, <1>6, FS_Subset
<1> QED BY <1>1, <1>5, <1>7 DEF Passed

-----------------------------------------------------------------------------
(* The faults a scenario switches are its own.                               *)

LEMMA StartIds ==
  ASSUME NEW s
  PROVE  StartupActive(s) \subseteq Ids(s) /\ Timers(s) \subseteq Timer(Ids(s))
<1>1. StartupActive(s) \subseteq Ids(s)
  BY DEF StartupActive
<1>2. \A i \in DOMAIN s.faults : s.faults[i].id \in Ids(s)
  BY DEF Ids
<1>3. \A id : Holders(s, id) \subseteq DOMAIN s.faults
  BY DEF Holders
<1>4. ASSUME NEW timer \in Timers(s)
      PROVE  \E i \in DOMAIN s.faults : \E state \in {"active", "inactive"} :
               timer = [fault |-> s.faults[i].id, state |-> state]
  BY <1>3, <1>4 DEF Timers
<1> QED BY <1>1, <1>2, <1>4 DEF Timer

LEMMA SwitchedResult ==
  ASSUME NEW on, NEW timer PROVE Switched(on, timer) \subseteq on \cup {timer.fault}
BY DEF Switched

BaseIds == UNION {Ids(s) : s \in Scenarios}

\* A run has the faults of a base file: a value changes the config of one of them.
LEMMA AppliedIds ==
  ASSUME NEW s \in Scenarios, NEW r, Holders(s, r.fault) # {}
  PROVE  Ids(Applied(s, r)) \subseteq BaseIds
<1> DEFINE i == Min(Holders(s, r.fault))
           a == [s EXCEPT !.faults[i].config = WithEntry(@, r.key, r.value)]
<1>1. /\ "faults" \in DOMAIN s /\ DOMAIN s.faults = 1 .. Len(s.faults)
      /\ \A j \in DOMAIN s.faults : {"id", "config"} \subseteq DOMAIN s.faults[j]
  BY CampaignAssumption
<1>2. Applied(s, r) = a
  BY DEF Applied
<1> HIDE DEF i
<1>3. /\ DOMAIN a.faults = DOMAIN s.faults
      /\ \A j \in DOMAIN s.faults : a.faults[j].id = s.faults[j].id
  BY <1>1
<1> HIDE DEF a
<1>4. Ids(a) = Ids(s)
  BY <1>3 DEF Ids
<1> QED BY <1>2, <1>4 DEF BaseIds

-----------------------------------------------------------------------------
(* The steps.                                                                *)

PlanLength == Len(Plan(campaign))

\* What the invariant says of the numbers, and of the run under way.
LEMMA State ==
  ASSUME IInv
  PROVE  /\ PlanLength \in Nat /\ Len(records) \in Nat /\ timeout \in Nat
         /\ next \in Nat /\ next > 0 /\ next <= PlanLength + 1
         /\ next <= PlanLength => Plan(campaign)[next] \in PlannedRun
         /\ records \in Seq(RunRecord)
<1>1. Plan(campaign) \in Seq(PlannedRun) /\ PlanLength \in Nat
  BY PlanResult DEF IInv, TypeOK, PlanLength
<1>2. Len(records) \in Nat /\ timeout \in Nat /\ records \in Seq(RunRecord)
  BY LenProperties, CampaignAssumption DEF IInv, TypeOK
<1>3. next \in 1 .. PlanLength + 1
  BY DEF IInv, TypeOK, PlanLength
<1>4. ASSUME next <= PlanLength PROVE Plan(campaign)[next] \in PlannedRun
  <2>1. next \in 1 .. PlanLength
    BY <1>1, <1>3, <1>4
  <2> QED BY <1>1, <2>1, ElementOfSeq DEF PlanLength
<1> QED BY <1>1, <1>2, <1>3, <1>4

LEMMA InitIInv == Init => IInv
<1> SUFFICES ASSUME Init PROVE IInv
  OBVIOUS
<1>1. Len(Plan(campaign)) \in Nat
  BY PlanResult DEF Init
<1>2. TypeOK
  <2>1. 1 \in 1 .. Len(Plan(campaign)) + 1
    BY <1>1
  <2>2. 0 \in 0 .. MaxEdits /\ 0 \in 0 .. MaxMilliseconds
    BY CampaignAssumption
  <2>3. records \in Seq(RunRecord)
    BY EmptySeq DEF Init
  <2> QED BY <2>1, <2>2, <2>3 DEF Init, TypeOK
<1>3. Recorded
  <2>1. records = <<>> /\ records \in Seq(RunRecord) /\ Len(records) = 0 /\ DOMAIN records = {}
    BY EmptySeq DEF Init
  <2>2. Passed(records) = {} /\ Cardinality(Passed(records)) = 0
    BY <2>1, FS_EmptySet DEF Passed
  <2>3. counts = Counts(records)
    BY <2>1, <2>2 DEF Init, Counts
  <2> QED BY <2>1, <2>3, NumberAssumption DEF Init, Recorded
<1> QED BY <1>2, <1>3 DEF IInv

\* The record of the next planned run, whatever it came to.
LEMMA NextRecord ==
  ASSUME IInv, phase \in {"between", "running"}, timeout > 0, next <= PlanLength,
         NEW outcome \in Outcomes, Record(Plan(campaign)[next], outcome),
         UNCHANGED <<campaign, timeout>>
  PROVE  /\ records' \in Seq(RunRecord) /\ counts' = Counts(records')
         /\ counts' \in Counters
         /\ Len(records') = next /\ InPlan'
         /\ records'[next].outcome = outcome
<1>1. /\ PlanLength \in Nat /\ Len(records) \in Nat /\ next \in Nat /\ next > 0
      /\ Plan(campaign)[next] \in PlannedRun
  BY State
<1>2. /\ records \in Seq(RunRecord) /\ counts = Counts(records)
      /\ InPlan /\ Len(records) = next - 1
  BY State DEF IInv, Recorded
<1>3. /\ records' \in Seq(RunRecord) /\ counts' = Counts(records')
      /\ counts' \in Counters
      /\ Len(records') = Len(records) + 1
      /\ \A i \in 1 .. Len(records) : records'[i] = records[i]
      /\ records'[Len(records) + 1] = [run |-> Plan(campaign)[next], outcome |-> outcome]
  BY <1>1, <1>2, RecordResult
<1>4. Len(records') = next /\ Len(records) + 1 = next
  BY <1>1, <1>2, <1>3
<1>5. records'[next].run = Plan(campaign)[next] /\ records'[next].outcome = outcome
  BY <1>3, <1>4
<1>6. InPlan'
  <2> SUFFICES ASSUME NEW i \in 1 .. Len(records')
               PROVE  /\ i <= Len(Plan(campaign'))
                      /\ records'[i].run = Plan(campaign')[i]
    BY DEF InPlan
  <2>1. Plan(campaign') = Plan(campaign)
    OBVIOUS
  <2>2. i \in 1 .. Len(records) \/ i = next
    BY <1>1, <1>2, <1>4
  <2> QED BY <1>2, <1>3, <1>5, <2>1, <2>2 DEF InPlan, PlanLength
<1> QED BY <1>3, <1>4, <1>5, <1>6

\* The timers of a run are of faults of a base file.
LEMMA ArmedIds ==
  ASSUME IInv, phase = "running"
  PROVE  armed \subseteq Timer(BaseIds)
<1>1. scenario # None /\ armed \subseteq Timer(Ids(scenario))
  BY DEF IInv, TypeOK
<1>2. PICK s \in Scenarios, n \in 1 .. Len(Plan(campaign)) :
        Holders(s, Plan(campaign)[n].fault) # {} /\ scenario = Applied(s, Plan(campaign)[n])
  BY <1>1 DEF IInv, TypeOK
<1>3. Ids(scenario) \subseteq BaseIds
  BY <1>2, AppliedIds
<1> QED BY <1>1, <1>3 DEF Timer

\* A run is over.
LEMMA EndRunStep ==
  ASSUME IInv, NEW outcome \in Outcomes, EndRun(outcome)
  PROVE  IInv'
<1>1. /\ PlanLength \in Nat /\ next \in Nat /\ next > 0 /\ timeout \in Nat
      /\ timeout > 0 /\ next <= PlanLength /\ exit = None
  BY State DEF EndRun, IInv, Recorded, PlanLength
<1>2. /\ phase' = "between" /\ next' = next + 1 /\ scenario' = None
      /\ active' = {} /\ armed' = {}
      /\ leftover' = leftover \cup armed
      /\ UNCHANGED <<campaign, ok, base, edits, timeout, exit>>
  BY DEF EndRun
<1>3. /\ records' \in Seq(RunRecord) /\ counts' = Counts(records')
      /\ counts' \in Counters
      /\ Len(records') = next /\ InPlan'
  BY <1>1, <1>2, NextRecord DEF EndRun
<1>4. TypeOK'
  <2>1. next' \in 1 .. Len(Plan(campaign')) + 1
    BY <1>1, <1>2 DEF PlanLength
  <2>2. leftover' \subseteq Timer(BaseIds)
    <3>1. armed \subseteq Timer(BaseIds)
      BY ArmedIds DEF EndRun
    <3>2. leftover \subseteq Timer(BaseIds)
      BY DEF IInv, TypeOK, BaseIds
    <3> QED BY <1>2, <3>1, <3>2
  <2> QED BY <1>2, <1>3, <2>1, <2>2 DEF IInv, TypeOK, Counters, BaseIds
<1>5. Recorded'
  <2>1. Len(records') = next' - 1
    BY <1>1, <1>2, <1>3
  <2> QED BY <1>1, <1>2, <1>3, <2>1, NumberAssumption DEF Recorded
<1> QED BY <1>4, <1>5 DEF IInv

\* Nothing is recorded and the campaign goes on.
LEMMA QuietStep ==
  ASSUME IInv, TypeOK', UNCHANGED <<campaign, timeout, next, result, exit>>,
         phase \in {"between", "running"},
         phase' \in {"between", "running", "crashed", "stuck"},
         phase' # "between" => timeout > 0 /\ next <= PlanLength
  PROVE  IInv'
BY DEF IInv, Recorded, InPlan, result, PlanLength, Refused, Complete, CutShort

\* The scenario that a run generates.
LEMMA GeneratedScenario ==
  ASSUME IInv, next <= PlanLength, Generates(Plan(campaign)[next]),
         scenario' = Applied(base, Plan(campaign)[next]), UNCHANGED campaign
  PROVE  /\ scenario' # None
         /\ \E s \in Scenarios, n \in 1 .. Len(Plan(campaign')) :
              /\ Holders(s, Plan(campaign')[n].fault) # {}
              /\ scenario' = Applied(s, Plan(campaign')[n])
<1>1. base \in Scenarios /\ campaign \in Campaigns /\ Holders(base, Plan(campaign)[next].fault) # {}
  BY DEF Generates, IInv, TypeOK
<1>2. next \in 1 .. Len(Plan(campaign))
  BY State DEF PlanLength
<1> QED BY <1>1, <1>2, ScenarioAssumption

\* A run begins, or its process ends: its scenario is one, and its faults are its own.
LEMMA BeginRunStep ==
  ASSUME IInv, BeginRun \/ MissingEndpoint
  PROVE  IInv'
<1> DEFINE r == Plan(campaign)[next]
<1>1. /\ PlanLength \in Nat /\ next \in Nat /\ next > 0 /\ timeout > 0 /\ next <= PlanLength
  BY State DEF BeginRun, MissingEndpoint, PlanLength
<1>2. /\ phase = "between" /\ Generates(r) /\ scenario' = Applied(base, r)
      /\ UNCHANGED <<campaign, ok, base, edits, timeout, next, leftover, result, exit>>
      /\ \/ phase' = "running" /\ active' = StartupActive(scenario') /\ armed' = Timers(scenario')
         \/ phase' = "crashed" /\ UNCHANGED <<active, armed>>
  BY DEF BeginRun, MissingEndpoint, CanRun
<1>3. /\ scenario' # None
      /\ \E s \in Scenarios, n \in 1 .. Len(Plan(campaign')) :
           /\ Holders(s, Plan(campaign')[n].fault) # {}
           /\ scenario' = Applied(s, Plan(campaign')[n])
  BY <1>1, <1>2, GeneratedScenario
<1>4. active' \subseteq Ids(scenario') /\ armed' \subseteq Timer(Ids(scenario'))
  <2>1. active = {} /\ armed = {}
    BY <1>2 DEF IInv, TypeOK
  <2> QED BY <1>2, <2>1, StartIds
<1> HIDE DEF r
<1>5. TypeOK'
  BY <1>2, <1>3, <1>4 DEF IInv, TypeOK, result
<1> QED BY <1>1, <1>2, <1>5, QuietStep

\* What happens to the faults and the timers during a run.
LEMMA DuringRun ==
  ASSUME IInv, phase = "running", phase' \in {"running", "crashed", "stuck"},
         active' \subseteq Ids(scenario), armed' \subseteq armed, leftover' \subseteq leftover,
         UNCHANGED <<campaign, ok, base, edits, timeout, next, scenario, result, exit>>
  PROVE  IInv'
<1>1. timeout > 0 /\ next <= PlanLength
  BY DEF IInv, Recorded, PlanLength
<1>2. TypeOK'
  BY DEF IInv, TypeOK, result
<1> QED BY <1>1, <1>2, QuietStep

LEMMA NextIInv == IInv /\ [Next]_vars => IInv'
<1> SUFFICES ASSUME IInv, [Next]_vars PROVE IInv'
  OBVIOUS
<1>1. /\ PlanLength \in Nat /\ Len(records) \in Nat /\ timeout \in Nat
      /\ next \in Nat /\ next > 0 /\ next <= PlanLength + 1
  BY State
<1>2. TypeOK /\ Recorded
  BY DEF IInv
<1>3. phase = "running" => /\ active \subseteq Ids(scenario)
                           /\ \A timer \in armed : timer.fault \in Ids(scenario)
  BY <1>2 DEF TypeOK, Timer
<1>4. ASSUME NEW override \in Overrides, Start(override) PROVE IInv'
  <2> DEFINE seconds == IF Less(0, override) THEN override ELSE campaign.timeout
  <2>1. /\ phase = "starting" /\ records = <<>> /\ next = 1 /\ Len(records) = 0
        /\ UNCHANGED <<campaign, ok, base, edits, next, run, result>>
    BY <1>2, <1>4, EmptySeq DEF Start, Recorded
  <2>2. \/ phase' = "between" /\ timeout' = seconds \div 1000 /\ exit' = exit
           /\ seconds # NaN /\ seconds > 0 /\ seconds < MaxMilliseconds * 1000
        \/ phase' = "exited" /\ exit' = 1 /\ timeout' = timeout
    BY <1>4 DEF Start
  <2>3. timeout' \in 0 .. MaxMilliseconds
    <3>1. seconds \in Int \cup {NaN} /\ MaxMilliseconds \in Nat
      BY <1>2, CampaignAssumption DEF TypeOK
    <3> HIDE DEF seconds
    <3>2. CASE phase' = "between"
      BY <2>2, <3>1, <3>2
    <3>3. CASE phase' # "between"
      BY <1>2, <2>2, <3>3 DEF TypeOK
    <3> QED BY <3>2, <3>3
  <2>4. TypeOK'
    <3>1. phase' \in {"between", "exited"} /\ exit' \in {None, 0, 1}
      BY <1>2, <2>2 DEF TypeOK
    <3> QED BY <1>2, <2>1, <2>3, <3>1 DEF TypeOK, run, result
  <2>5. /\ records' = <<>> /\ records' = records /\ counts' = counts
        /\ next' = 1 /\ Len(records') = 0 /\ exit = None
    BY <1>2, <2>1 DEF Recorded, result
  <2>6. /\ records' \in Seq(RunRecord) /\ counts' = Counts(records')
        /\ Len(records') = next' - 1 /\ InPlan'
    BY <1>2, <2>5 DEF TypeOK, Recorded, InPlan
  <2>7. \/ phase' = "between" /\ exit' = None
        \/ phase' = "exited" /\ exit' = 1
    BY <2>2, <2>5
  <2>8. Recorded'
    BY <2>5, <2>6, <2>7, NumberAssumption DEF Recorded
  <2> QED BY <2>4, <2>8 DEF IInv
<1>5. CASE RefuseTimeout
  <2>1. /\ phase = "between" /\ timeout = 0 /\ phase' = "reporting" /\ Record(None, "failed")
        /\ UNCHANGED <<campaign, ok, base, edits, timeout, next, run, exit>>
    BY <1>5 DEF RefuseTimeout
  <2>2. Len(records) = 0 /\ records = <<>>
    BY <1>1, <1>2, <2>1, EmptySeq DEF Recorded
  <2>3. /\ records' \in Seq(RunRecord) /\ counts' = Counts(records') /\ counts' \in Counters
    BY <1>2, <2>1, RecordResult DEF TypeOK, Recorded, Outcomes
  <2>4. records' = <<[run |-> None, outcome |-> "failed"]>>
    BY <2>1, <2>2 DEF Record
  <2>5. TypeOK'
    BY <1>2, <2>1, <2>3 DEF TypeOK, run, Counters
  <2> QED BY <1>2, <2>1, <2>3, <2>4, <2>5, NumberAssumption DEF IInv, Recorded, Refused
<1>6. CASE AfterShutdown
  <2>1. /\ phase = "between" /\ timeout > 0 /\ phase' = "reporting" /\ ~ok
        /\ Record(Plan(campaign)[next], "interrupted") /\ next <= PlanLength
        /\ UNCHANGED <<campaign, ok, base, edits, timeout, next, run, exit>>
    BY <1>6 DEF AfterShutdown, RecordShutdown, PlanLength
  <2>2. /\ records' \in Seq(RunRecord) /\ counts' = Counts(records') /\ counts' \in Counters
        /\ Len(records') = next /\ InPlan'
        /\ records'[next].outcome = "interrupted"
    BY <2>1, NextRecord DEF Outcomes
  <2>3. CutShort'
    BY <1>1, <2>1, <2>2 DEF CutShort
  <2>4. TypeOK'
    BY <1>2, <2>1, <2>2 DEF TypeOK, run, Counters
  <2> QED BY <1>2, <2>1, <2>2, <2>3, <2>4, NumberAssumption DEF IInv, Recorded
<1>7. CASE FailToRun
  <2>1. /\ phase = "between" /\ timeout > 0 /\ phase' = "between" /\ next' = next + 1
        /\ Record(Plan(campaign)[next], "failed") /\ next <= PlanLength
        /\ UNCHANGED <<campaign, ok, base, edits, timeout, run, exit>>
    BY <1>7 DEF FailToRun, PlanLength
  <2>2. /\ records' \in Seq(RunRecord) /\ counts' = Counts(records') /\ counts' \in Counters
        /\ Len(records') = next /\ InPlan'
    BY <2>1, NextRecord DEF Outcomes
  <2>3. TypeOK'
    <3>1. next' \in 1 .. Len(Plan(campaign')) + 1
      BY <1>1, <2>1 DEF PlanLength
    <3> QED BY <1>2, <2>1, <2>2, <3>1 DEF TypeOK, run, Counters
  <2>4. Len(records') = next' - 1
    BY <1>1, <2>1, <2>2
  <2> QED BY <1>1, <1>2, <2>1, <2>2, <2>3, <2>4, NumberAssumption DEF IInv, Recorded
<1>8. CASE BeginRun \/ MissingEndpoint
  BY <1>8, BeginRunStep
<1>9. CASE AllDone
  <2>1. /\ phase = "between" /\ timeout > 0 /\ phase' = "reporting" /\ next > PlanLength
        /\ UNCHANGED <<campaign, ok, base, edits, timeout, next, run, result, exit>>
    BY <1>9 DEF AllDone, PlanLength
  <2>2. InPlan /\ Len(records) = next - 1
    BY <1>2, <2>1 DEF Recorded
  <2>3. Complete'
    BY <1>1, <2>1, <2>2 DEF Complete, InPlan, result, PlanLength
  <2>4. TypeOK'
    BY <1>2, <2>1 DEF TypeOK, run, result
  <2> QED BY <1>2, <2>1, <2>3, <2>4, NumberAssumption DEF IInv, Recorded, result
<1>10. CASE Report
  <2>1. /\ phase = "reporting" /\ phase' = "exited" /\ exit' \in {1, IF Success THEN 0 ELSE 1}
        /\ UNCHANGED <<campaign, ok, base, edits, timeout, next, run, result>>
    BY <1>10 DEF Report
  <2>2. (Refused \/ Complete \/ CutShort)'
    BY <1>2, <2>1 DEF Recorded, Refused, Complete, CutShort, InPlan, result
  <2>3. exit' \in {0, 1} /\ (exit' = 0 => Success')
    BY <2>1 DEF Success, result
  <2>4. TypeOK'
    BY <1>2, <2>1, <2>3 DEF TypeOK, run, result
  <2> QED BY <1>2, <2>1, <2>2, <2>3, <2>4 DEF IInv, Recorded, result
<1>11. CASE FireTimer
  <2>1. PICK timer \in armed : active' = Switched(active, timer) /\ armed' = armed \ {timer}
    BY <1>11 DEF FireTimer
  <2>2. /\ phase = "running" /\ phase' = "running"
        /\ UNCHANGED <<campaign, ok, base, edits, timeout, next, scenario, leftover, result, exit>>
    BY <1>11 DEF FireTimer
  <2>3. active' \subseteq Ids(scenario)
    BY <1>3, <2>1, <2>2, SwitchedResult
  <2> QED BY <2>1, <2>2, <2>3, DuringRun
<1>12. CASE FireLeftover
  <2>1. PICK timer \in leftover :
          /\ leftover' = leftover \ {timer}
          /\ \/ UNCHANGED <<phase, active>>
             \/ /\ timer.fault \in Ids(scenario)
                /\ active' = Switched(active, timer)
                /\ UNCHANGED phase
             \/ phase' = "crashed" /\ UNCHANGED active
    BY <1>12 DEF FireLeftover
  <2>2. /\ phase = "running" /\ phase' \in {"running", "crashed"} /\ armed' = armed
        /\ UNCHANGED <<campaign, ok, base, edits, timeout, next, scenario, result, exit>>
    BY <1>12, <2>1 DEF FireLeftover
  <2>3. active' \subseteq Ids(scenario)
    BY <1>3, <2>1, <2>2, SwitchedResult
  <2> QED BY <2>1, <2>2, <2>3, DuringRun
<1>13. CASE MessageHangs
  <2>1. /\ phase = "running" /\ phase' = "stuck"
        /\ UNCHANGED <<campaign, ok, base, edits, timeout, next, run, result, exit>>
    BY <1>13 DEF MessageHangs
  <2> QED BY <1>3, <2>1, DuringRun DEF run
<1>14. CASE CallbackThrows \/ AssertionsFinish \/ TimeOut \/ Interrupted
  <2>1. \E outcome \in Outcomes : EndRun(outcome)
    BY <1>14 DEF CallbackThrows, AssertionsFinish, TimeOut, Interrupted, Outcomes
  <2> QED BY <2>1, EndRunStep
<1>15. CASE Shutdown \/ EditBase
  <2>1. /\ phase \in {"between", "running"} /\ phase' = phase
        /\ UNCHANGED <<campaign, timeout, next, run, result, exit>>
    BY <1>15 DEF Shutdown, EditBase
  <2>2. TypeOK'
    <3>1. /\ ok' \in BOOLEAN /\ base' \in Scenarios \cup {BadFile} /\ edits' \in 0 .. MaxEdits
      <4>1. edits \in 0 .. MaxEdits /\ MaxEdits \in Nat
        BY <1>2, CampaignAssumption DEF TypeOK
      <4>2. CASE Shutdown
        BY <1>2, <4>2 DEF Shutdown, TypeOK
      <4>3. CASE EditBase
        <5>1. edits' \in 0 .. MaxEdits
          BY <4>1, <4>3 DEF EditBase
        <5> QED BY <1>2, <4>3, <5>1 DEF EditBase, TypeOK
      <4> QED BY <1>15, <4>2, <4>3
    <3> QED BY <1>2, <2>1, <3>1 DEF TypeOK, run, result
  <2>3. phase = "running" => timeout > 0 /\ next <= PlanLength
    BY <1>2 DEF Recorded, PlanLength
  <2> QED BY <2>1, <2>2, <2>3, QuietStep
<1>16. CASE UNCHANGED vars
  <2>1. TypeOK'
    BY <1>2, <1>16 DEF TypeOK, vars
  <2>2. Recorded'
    BY <1>2, <1>16 DEF Recorded, Refused, Complete, CutShort, InPlan, Success, vars
  <2> QED BY <2>1, <2>2 DEF IInv
<1> QED BY <1>4, <1>5, <1>6, <1>7, <1>8, <1>9, <1>10, <1>11, <1>12, <1>13, <1>14, <1>15, <1>16
        DEF Next, Work

-----------------------------------------------------------------------------
(* What follows from the invariant.                                          *)

\* Every record is of a planned run or of none, with one of the four outcomes,
\* and the counters are natural numbers; the scenario of a run is one of the base
\* file's with a planned value, its active faults and its timers are of faults of
\* this scenario, whatever timers earlier runs left behind, and those are of
\* faults of the base files.
THEOREM TypeCorrect == Spec => []TypeOK
<1>1. IInv => TypeOK
  BY DEF IInv
<1> QED BY InitIInv, NextIInv, <1>1, PTL DEF Spec

LEMMA RecordedMatches == IInv => RecordsMatchPlan
<1> SUFFICES ASSUME IInv PROVE RecordsMatchPlan
  OBVIOUS
<1> DEFINE plan == Plan(campaign)
           passed == {i \in DOMAIN records : records[i].outcome = "passed"}
<1>1. TypeOK /\ Recorded
  BY DEF IInv
<1>2. /\ Len(records) \in Nat /\ DOMAIN records = 1 .. Len(records) /\ timeout \in Nat
  BY <1>1, LenProperties, CampaignAssumption DEF TypeOK
<1>3. InPlan => \A i \in DOMAIN records : i <= Len(plan) /\ records[i].run = plan[i]
  BY <1>2 DEF InPlan
<1>4. \/ InPlan
      \/ timeout = 0 /\ records = <<[run |-> None, outcome |-> "failed"]>>
  <2>1. records = <<>> => InPlan
    BY EmptySeq DEF InPlan
  <2> QED BY <1>1, <2>1 DEF Recorded, TypeOK, Refused, Complete, CutShort
<1>5. phase = "reporting" /\ ok =>
        Len(records) = (IF timeout = 0 THEN 1 ELSE Len(plan))
  <2>1. Refused => timeout = 0 /\ Len(records) = 1
    BY DEF Refused
  <2>2. Complete => timeout # 0 /\ Len(records) = Len(plan)
    BY <1>2 DEF Complete
  <2>3. CutShort => ~ok
    BY DEF CutShort
  <2> QED BY <1>1, <2>1, <2>2, <2>3 DEF Recorded
<1>6. counts = [total |-> Len(records), passed |-> Cardinality(passed),
                failed |-> Len(records) - Cardinality(passed)]
  BY <1>1 DEF Recorded, Counts, Passed
<1> HIDE DEF plan, passed
<1> QED BY <1>3, <1>4, <1>5, <1>6 DEF RecordsMatchPlan, plan, passed

\* The records are the planned runs in their order, each once and none left out
\* but by a shutdown or a refused timeout, and the counters are those of the
\* records: failures, edits of the base file and left-over timers change nothing.
THEOREM RecordsAlwaysMatch == Spec => []RecordsMatchPlan
<1> QED BY InitIInv, NextIInv, RecordedMatches, PTL DEF Spec

LEMMA ExitZeroComplete ==
  ASSUME IInv, exit = 0
  PROVE  Complete /\ \A i \in 1 .. Len(records) : records[i].outcome = "passed"
<1>1. Recorded /\ Success /\ phase = "exited"
  BY DEF IInv, Recorded
<1>2. /\ Len(records) \in Nat /\ Len(records) > 0
      /\ \A i \in 1 .. Len(records) : records[i].outcome = "passed"
  BY <1>1, SuccessResult DEF IInv, TypeOK, Recorded
<1>3. records # <<>>
  BY <1>2, EmptySeq
<1>4. ~Refused
  BY <1>2 DEF Refused
<1>5. ~CutShort
  BY <1>2 DEF CutShort
<1> QED BY <1>1, <1>2, <1>3, <1>4, <1>5 DEF Recorded

\* Exit code 0 means that the whole plan ran and passed.
THEOREM ExitZeroIsAllPassed == Spec => []ExitZeroMeansAllPassed
<1>1. IInv => ExitZeroMeansAllPassed
  <2> SUFFICES ASSUME IInv, exit = 0
               PROVE  /\ Len(records) = Len(Plan(campaign))
                      /\ \A i \in DOMAIN records : records[i].outcome = "passed"
    BY DEF ExitZeroMeansAllPassed
  <2>1. DOMAIN records = 1 .. Len(records)
    BY LenProperties DEF IInv, TypeOK
  <2> QED BY <2>1, ExitZeroComplete DEF Complete
<1> QED BY InitIInv, NextIInv, <1>1, PTL DEF Spec

\* And that is every value of every variant of the campaign file, in every
\* repeat: each of them has a record that says it passed.
EveryValuePassed ==
  \A repeat \in 1 .. campaign.repeats : \A v \in DOMAIN campaign.variants :
  \A i \in DOMAIN campaign.variants[v].values :
    \E n \in 1 .. Len(records) :
      /\ records[n].run = Planned(campaign, repeat, v, i)
      /\ records[n].outcome = "passed"

THEOREM ExitZeroIsEveryValue == Spec => [](exit = 0 => EveryValuePassed)
<1>1. IInv => (exit = 0 => EveryValuePassed)
  <2> SUFFICES ASSUME IInv, exit = 0,
                      NEW repeat \in 1 .. campaign.repeats, NEW v \in DOMAIN campaign.variants,
                      NEW i \in DOMAIN campaign.variants[v].values
               PROVE  \E n \in 1 .. Len(records) :
                        /\ records[n].run = Planned(campaign, repeat, v, i)
                        /\ records[n].outcome = "passed"
    BY DEF EveryValuePassed
  <2>1. campaign \in Campaigns
    BY DEF IInv, TypeOK
  <2>2. PICK n \in 1 .. Len(Plan(campaign)) : Plan(campaign)[n] = Planned(campaign, repeat, v, i)
    BY <2>1, PlanResult
  <2>3. /\ Len(records) = Len(Plan(campaign)) /\ InPlan
        /\ \A j \in 1 .. Len(records) : records[j].outcome = "passed"
    BY ExitZeroComplete DEF Complete
  <2> QED BY <2>2, <2>3 DEF InPlan
<1> QED BY InitIInv, NextIInv, <1>1, PTL DEF Spec

-----------------------------------------------------------------------------
(* The scenario of a run.                                                    *)

OneValue(s, r) ==
  /\ ValidScenario(s)
  /\ \E b \in Scenarios : \E i \in Holders(b, r.fault) :
       s = [b EXCEPT !.faults[i].config = WithEntry(@, r.key, r.value)]

RunsOneValue == phase = "running" => OneValue(scenario, Plan(campaign)[next])

\* The length of a sequence is its last position.
LEMMA LenDomain ==
  ASSUME NEW s, NEW n \in Nat, DOMAIN s = 1 .. n, s = [j \in 1 .. n |-> s[j]]
  PROVE  Len(s) = n
<1>1. s \in Seq({s[j] : j \in 1 .. n})
  BY SeqDef
<1>2. Len(s) \in Nat /\ 1 .. Len(s) = 1 .. n
  BY <1>1, LenProperties
<1> QED BY <1>2

\* A nonempty set of positions has a first one.
LEMMA LeastNumber ==
  ASSUME NEW n \in Nat, NEW S \in SUBSET (1 .. n), S # {}
  PROVE  Min(S) \in S
<1> DEFINE T == {m \in Nat : (\E x \in S : x <= m) => \E x \in S : \A y \in S : x <= y}
<1>1. 0 \in T
  OBVIOUS
<1>2. ASSUME NEW m \in Nat, m \in T
      PROVE  m + 1 \in T
  <2> SUFFICES ASSUME NEW x \in S, x <= m + 1
               PROVE  \E z \in S : \A y \in S : z <= y
    OBVIOUS
  <2>1. CASE \E y \in S : y <= m
    BY <1>2, <2>1
  <2>2. CASE \A y \in S : ~(y <= m)
    <3>1. \A y \in S : y \in Nat /\ x \in Nat
      OBVIOUS
    <3> QED BY <2>2, <3>1
  <2> QED BY <2>1, <2>2
<1>3. Nat \subseteq T
  <2> HIDE DEF T
  <2> QED BY <1>1, <1>2, Induction
<1>4. n \in T
  <2> HIDE DEF T
  <2> QED BY <1>3
<1>5. \E x \in S : x <= n
  <2>1. PICK x \in S : TRUE
    OBVIOUS
  <2>2. x \in 1 .. n
    OBVIOUS
  <2> QED BY <2>1, <2>2
<1>6. \E x \in S : \A y \in S : x <= y
  BY <1>4, <1>5
<1> QED BY <1>6 DEF Min

\* With distinct ids, the injector has the value of the run.
LEMMA ValueInjected ==
  ASSUME NEW s, NEW r, OneValue(s, r), Cardinality(Ids(s)) = Len(s.faults)
  PROVE  InjectedConfigs(s)[r.fault][r.key] = r.value
<1>1. PICK b \in Scenarios : \E i \in Holders(b, r.fault) :
        s = [b EXCEPT !.faults[i].config = WithEntry(@, r.key, r.value)]
  BY DEF OneValue
<1>2. PICK i \in Holders(b, r.fault) :
        s = [b EXCEPT !.faults[i].config = WithEntry(@, r.key, r.value)]
  BY <1>1
<1> DEFINE N == Len(b.faults)
           id == [j \in 1 .. N |-> s.faults[j].id]
<1>3. /\ "faults" \in DOMAIN b /\ N \in Nat /\ DOMAIN b.faults = 1 .. N
      /\ {"id", "config"} \subseteq DOMAIN b.faults[i]
      /\ i \in 1 .. N /\ b.faults[i].id = r.fault
  BY CampaignAssumption DEF Holders
<1>4. /\ DOMAIN s.faults = 1 .. N
      /\ \A j \in 1 .. N : s.faults[j].id = b.faults[j].id
      /\ s.faults[i].config = WithEntry(b.faults[i].config, r.key, r.value)
  BY <1>2, <1>3
<1> HIDE DEF N
<1>5. Len(s.faults) = N
  BY <1>2, <1>3, <1>4, LenDomain
<1>6. Holders(s, r.fault) = {i}
  <2>1. IsFiniteSet(1 .. N) /\ Cardinality(1 .. N) = N
    BY <1>3, UpTo
  <2>2. Ids(s) = {s.faults[j].id : j \in 1 .. N}
    BY <1>4 DEF Ids
  <2>3. id \in Surjection(1 .. N, Ids(s))
    BY <2>2 DEF Surjection
  <2>4. id \in Injection(1 .. N, Ids(s))
    <3> HIDE DEF id
    <3> QED BY <1>5, <2>1, <2>3, FS_Surjection
  <2>5. \A j \in 1 .. N : s.faults[j].id = s.faults[i].id => j = i
    BY <1>3, <2>4 DEF Injection, IsInjective
  <2> QED BY <1>3, <1>4, <2>5 DEF Holders
<1>7. Max(Holders(s, r.fault)) = i /\ r.fault \in Ids(s)
  <2>1. Max({i}) = i
    BY <1>3 DEF Max
  <2> QED BY <1>3, <1>4, <1>6, <2>1 DEF Ids
<1>8. InjectedConfigs(s)[r.fault] = WithEntry(b.faults[i].config, r.key, r.value)
  BY <1>4, <1>7 DEF InjectedConfigs
<1> QED BY <1>8 DEF WithEntry

LEMMA NextOneValue == IInv /\ RunsOneValue /\ [Next]_vars => RunsOneValue'
<1> SUFFICES ASSUME IInv, RunsOneValue, [Next]_vars, phase' = "running"
             PROVE  OneValue(scenario, Plan(campaign)[next])'
  BY DEF RunsOneValue
<1>1. CASE BeginRun
  <2> DEFINE r == Plan(campaign)[next]
             i == Min(Holders(base, r.fault))
  <2>1. /\ CanRun(r) /\ scenario' = Applied(base, r)
        /\ UNCHANGED <<campaign, base, next>>
    BY <1>1 DEF BeginRun
  <2>2. base \in Scenarios /\ ValidScenario(Applied(base, r)) /\ Holders(base, r.fault) # {}
    BY <2>1 DEF CanRun, Generates, IInv, TypeOK
  <2>3. i \in Holders(base, r.fault)
    <3>1. Len(base.faults) \in Nat /\ Holders(base, r.fault) \in SUBSET (1 .. Len(base.faults))
      BY <2>2, CampaignAssumption DEF Holders
    <3> QED BY <2>2, <3>1, LeastNumber
  <2>4. Applied(base, r) = [base EXCEPT !.faults[i].config = WithEntry(@, r.key, r.value)]
    BY DEF Applied
  <2>5. OneValue(Applied(base, r), r)
    <3> HIDE DEF r, i
    <3> QED BY <2>2, <2>3, <2>4 DEF OneValue
  <2> QED BY <2>1, <2>5 DEF OneValue, ValidScenario
<1>2. CASE FireTimer \/ FireLeftover \/ Shutdown \/ EditBase \/ UNCHANGED vars
  <2>1. phase = "running" /\ UNCHANGED <<campaign, next, scenario>>
    BY <1>2 DEF FireTimer, FireLeftover, Shutdown, EditBase, vars, run
  <2> QED BY <2>1 DEF RunsOneValue, OneValue, ValidScenario
<1>3. ~MessageHangs /\ ~AllDone /\ ~Report /\ ~RefuseTimeout /\ ~AfterShutdown
  BY DEF MessageHangs, AllDone, Report, RefuseTimeout, AfterShutdown
<1>4. ~FailToRun /\ ~MissingEndpoint /\ \A override \in Overrides : ~Start(override)
  BY DEF FailToRun, MissingEndpoint, Start
<1>5. ~CallbackThrows /\ ~AssertionsFinish /\ ~TimeOut /\ ~Interrupted
  BY DEF CallbackThrows, AssertionsFinish, TimeOut, Interrupted, EndRun
<1> QED BY <1>1, <1>2, <1>3, <1>4, <1>5 DEF Next, Work

\* No run sees a value of an earlier one: its scenario is a content of the base
\* file with the one value changed, and with distinct fault ids the injector
\* gets the value that the record names.
THEOREM RunsAreBaseWithOneValue == Spec => []RunIsBaseWithOneValue
<1>1. Init => RunsOneValue
  BY DEF Init, RunsOneValue
<1>2. RunsOneValue => RunIsBaseWithOneValue
  <2> SUFFICES ASSUME phase = "running", OneValue(scenario, Plan(campaign)[next])
               PROVE  RunIsBaseWithOneValue
    BY DEF RunsOneValue, RunIsBaseWithOneValue
  <2> DEFINE r == Plan(campaign)[next]
  <2>1. Cardinality(Ids(scenario)) = Len(scenario.faults) =>
          InjectedConfigs(scenario)[r.fault][r.key] = r.value
    BY ValueInjected
  <2> QED BY <2>1 DEF RunIsBaseWithOneValue, OneValue
<1> QED BY InitIInv, NextIInv, <1>1, <1>2, NextOneValue, PTL DEF Spec
=============================================================================
