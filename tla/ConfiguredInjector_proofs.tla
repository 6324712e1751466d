---------------------- MODULE ConfiguredInjector_proofs ----------------------
(***************************************************************************)
(* Proofs about ConfiguredInjector and the tables of FaultConfigSchema: for *)
(* any faults, files, updates and readings, the injector's type, the rules  *)
(* its configs keep, what stops it and what it publishes.                   *)
(***************************************************************************)
EXTENDS ConfiguredInjector, FiniteSetTheorems, WellFoundedInduction, TLAPS

-----------------------------------------------------------------------------
(* The tables.  An injector's own schema and the central tables know the     *)
(* same keys, and a value the schema takes the central tables take too.      *)

Agrees(t, field) ==
  /\ field.key \in AllowedKeys(t)
  /\ \A text : ValidValue(field, text) => ValidByKey(t, field.key, text)

KeysIn(fields) == {field.key : field \in fields}

LEMMA FieldResult ==
  ASSUME NEW t, NEW min, NEW max, NEW keys
  PROVE  /\ KeysIn(Fields(t, min, max, keys)) = keys
         /\ \A field \in Fields(t, min, max, keys) :
              field.key \in keys /\ field.type = t /\ field.min = min /\ field.max = max
<1> DEFINE F == Fields(t, min, max, keys)
<1>1. \A field \in F :
        field.key \in keys /\ field.type = t /\ field.min = min /\ field.max = max
  BY DEF Fields
<1>2. \A k \in keys : \E field \in F : field.key = k
  <2> SUFFICES ASSUME NEW k \in keys PROVE \E field \in F : field.key = k
    OBVIOUS
  <2> DEFINE field == [key |-> k, type |-> t, min |-> min, max |-> max]
  <2>1. field \in F /\ field.key = k
    BY DEF Fields
  <2> QED BY <2>1
<1> HIDE DEF F
<1>3. KeysIn(F) = keys
  BY <1>1, <1>2 DEF KeysIn
<1> QED BY <1>1, <1>3 DEF F

OnePerKey(fields) == \A a, b \in fields : a.key = b.key => a = b

LEMMA FieldsOnePerKey ==
  ASSUME NEW t, NEW min, NEW max, NEW keys
  PROVE  OnePerKey(Fields(t, min, max, keys))
BY DEF OnePerKey, Fields

LEMMA ProbabilityAgrees ==
  ASSUME NEW t, NEW keys \in SUBSET AllowedKeys(t), NEW field \in Probability(keys),
         keys \subseteq {"drop_probability"} \cup NonNegativeNumberKeys
  PROVE  Agrees(t, field)
<1>1. field.key \in keys /\ field.type = "double" /\ field.min = 0 /\ field.max = Unit
  BY FieldResult DEF Probability
<1>2. 0 # None /\ Unit # None
  BY NumberAssumption DEF Unit
<1>3. \A text : ValidValue(field, text) =>
        text \in DoubleTexts /\ ~Less(Value(text), 0) /\ ~Less(Unit, Value(text))
  BY <1>1, <1>2 DEF ValidValue, WithinBounds
<1>4. CASE field.key = "drop_probability"
  BY <1>1, <1>3, <1>4 DEF Agrees, ValidByKey, NumberKeys, NonNegativeNumberKeys
<1>5. CASE field.key \in NonNegativeNumberKeys
  BY <1>1, <1>3, <1>5 DEF Agrees, ValidByKey, NonNegativeNumberKeys
<1> QED BY <1>1, <1>4, <1>5

LEMMA NonNegativeAgrees ==
  ASSUME NEW t, NEW keys \in SUBSET AllowedKeys(t), NEW field \in NonNegative(keys),
         keys \subseteq NonNegativeNumberKeys \cup NumberKeys
  PROVE  Agrees(t, field)
<1>1. field.key \in keys /\ field.type = "double" /\ field.min = 0 /\ field.max = None
  BY FieldResult DEF NonNegative
<1>2. 0 # None
  BY NumberAssumption
<1>3. \A text : ValidValue(field, text) => text \in DoubleTexts /\ ~Less(Value(text), 0)
  BY <1>1, <1>2 DEF ValidValue, WithinBounds
<1>4. CASE field.key \in NonNegativeNumberKeys
  BY <1>1, <1>3, <1>4 DEF Agrees, ValidByKey, NonNegativeNumberKeys
<1>5. CASE field.key \in NumberKeys
  BY <1>1, <1>3, <1>5 DEF Agrees, ValidByKey, NumberKeys, NonNegativeNumberKeys
<1> QED BY <1>1, <1>4, <1>5

LEMMA NumberAgrees ==
  ASSUME NEW t, NEW keys \in SUBSET AllowedKeys(t), NEW field \in Number(keys),
         keys \subseteq NumberKeys
  PROVE  Agrees(t, field)
<1>1. field.key \in keys /\ field.type = "double" /\ field.min = None /\ field.max = None
  BY FieldResult DEF Number
<1>2. \A text : ValidValue(field, text) => text \in DoubleTexts
  BY <1>1 DEF ValidValue, WithinBounds
<1> QED BY <1>1, <1>2 DEF Agrees, ValidByKey, NumberKeys, NonNegativeNumberKeys

LEMMA MillisecondsAgrees ==
  ASSUME NEW t, NEW keys \in SUBSET AllowedKeys(t), NEW field \in Milliseconds(keys),
         keys \subseteq {"delay_ms", "stale_replay_duration_ms"}
  PROVE  Agrees(t, field)
<1>1. field.key \in keys /\ field.type = "int" /\ field.min = 0 /\ field.max = None
  BY FieldResult DEF Milliseconds
<1>2. 0 # None
  BY NumberAssumption
<1>3. \A text : ValidValue(field, text) => text \in IntTexts /\ ~Less(Value(text), 0)
  BY <1>1, <1>2 DEF ValidValue, WithinBounds
<1>4. CASE field.key = "delay_ms"
  BY <1>1, <1>3, <1>4 DEF Agrees, ValidByKey, NumberKeys, NonNegativeNumberKeys
<1>5. CASE field.key = "stale_replay_duration_ms"
  BY <1>1, <1>3, <1>5 DEF Agrees, ValidByKey, NumberKeys, NonNegativeNumberKeys
<1> QED BY <1>1, <1>4, <1>5

LEMMA FlagAgrees ==
  ASSUME NEW t, NEW keys \in SUBSET AllowedKeys(t), NEW field \in Flag(keys),
         keys \subseteq {"stale_replay_enabled", "force_failure", "force_stop"}
  PROVE  Agrees(t, field)
<1>1. field.key \in keys /\ field.type = "bool"
  BY FieldResult DEF Flag
<1>2. \A text : ValidValue(field, text) => text \in {"true", "false"}
  BY <1>1 DEF ValidValue
<1>3. CASE field.key = "stale_replay_enabled"
  BY <1>1, <1>2, <1>3 DEF Agrees, ValidByKey, NumberKeys, NonNegativeNumberKeys
<1>4. CASE field.key = "force_failure"
  BY <1>1, <1>2, <1>4 DEF Agrees, ValidByKey, NumberKeys, NonNegativeNumberKeys
<1>5. CASE field.key = "force_stop"
  BY <1>1, <1>2, <1>5 DEF Agrees, ValidByKey, NumberKeys, NonNegativeNumberKeys
<1> QED BY <1>1, <1>3, <1>4, <1>5

\* A schema is made of fields of a few kinds, and so its keys are.
Table(p, m, n, q, f, other) ==
  Probability(p) \cup Milliseconds(m) \cup Number(n) \cup NonNegative(q) \cup Flag(f) \cup other

DoubleField(t, key) == \E field \in Schema(t) : field.key = key /\ field.type = "double"

LEMMA TableResult ==
  ASSUME NEW p, NEW m, NEW n, NEW q, NEW f, NEW other
  PROVE  /\ KeysIn(Table(p, m, n, q, f, other)) = p \cup m \cup n \cup q \cup f \cup KeysIn(other)
         /\ \A key \in p \cup n \cup q :
              \E field \in Table(p, m, n, q, f, other) : field.key = key /\ field.type = "double"
<1> DEFINE P == Probability(p)
           M == Milliseconds(m)
           N == Number(n)
           Q == NonNegative(q)
           F == Flag(f)
<1>1. KeysIn(P \cup M \cup N \cup Q \cup F \cup other)
        = KeysIn(P) \cup KeysIn(M) \cup KeysIn(N) \cup KeysIn(Q) \cup KeysIn(F) \cup KeysIn(other)
  <2> HIDE DEF P, M, N, Q, F
  <2> QED BY DEF KeysIn
<1>2. KeysIn(P) = p /\ KeysIn(M) = m /\ KeysIn(N) = n /\ KeysIn(Q) = q /\ KeysIn(F) = f
  BY FieldResult DEF Probability, Milliseconds, Number, NonNegative, Flag
<1>3. \A field \in P \cup N \cup Q : field.type = "double"
  BY FieldResult DEF Probability, Number, NonNegative
<1>4. \A key \in p \cup n \cup q : \E field \in P \cup N \cup Q : field.key = key
  <2> HIDE DEF P, N, Q
  <2> QED BY <1>2 DEF KeysIn
<1>5. Table(p, m, n, q, f, other) = P \cup M \cup N \cup Q \cup F \cup other
  BY DEF Table
<1> HIDE DEF P, M, N, Q, F
<1> QED BY <1>1, <1>2, <1>3, <1>4, <1>5

Consistent(t) ==
  /\ KeysIn(Schema(t)) = AllowedKeys(t)
  /\ OnePerKey(Schema(t))
  /\ \A field \in Schema(t) : Agrees(t, field)

IsTable(t, p, m, n, q, f, other) ==
  /\ Schema(t) = Table(p, m, n, q, f, other)
  /\ p \cup m \cup n \cup q \cup f \cup KeysIn(other) = AllowedKeys(t)
  /\ p \subseteq {"drop_probability"} \cup NonNegativeNumberKeys
  /\ m \subseteq {"delay_ms", "stale_replay_duration_ms"}
  /\ n \subseteq NumberKeys /\ q \subseteq NonNegativeNumberKeys \cup NumberKeys
  /\ f \subseteq {"stale_replay_enabled", "force_failure", "force_stop"}
  /\ \A field \in other : Agrees(t, field)
  /\ p \cap (m \cup n \cup q \cup f \cup KeysIn(other)) = {}
  /\ m \cap (n \cup q \cup f \cup KeysIn(other)) = {}
  /\ n \cap (q \cup f \cup KeysIn(other)) = {}
  /\ q \cap (f \cup KeysIn(other)) = {} /\ f \cap KeysIn(other) = {}
  /\ OnePerKey(other)

LEMMA TableConsistent ==
  ASSUME NEW t, NEW p, NEW m, NEW n, NEW q, NEW f, NEW other,
         IsTable(t, p, m, n, q, f, other)
  PROVE  Consistent(t) /\ \A key \in p \cup n \cup q : DoubleField(t, key)
<1>1. /\ p \subseteq AllowedKeys(t) /\ m \subseteq AllowedKeys(t) /\ n \subseteq AllowedKeys(t)
      /\ q \subseteq AllowedKeys(t) /\ f \subseteq AllowedKeys(t)
  BY DEF IsTable
<1>2. ASSUME NEW field \in Schema(t) PROVE Agrees(t, field)
  <2>1. \/ field \in Probability(p) \/ field \in Milliseconds(m) \/ field \in Number(n)
        \/ field \in NonNegative(q) \/ field \in Flag(f) \/ field \in other
    BY DEF Table, IsTable
  <2>2. CASE field \in Probability(p)
    BY <1>1, <2>2, ProbabilityAgrees DEF IsTable
  <2>3. CASE field \in Milliseconds(m)
    BY <1>1, <2>3, MillisecondsAgrees DEF IsTable
  <2>4. CASE field \in Number(n)
    BY <1>1, <2>4, NumberAgrees DEF IsTable
  <2>5. CASE field \in NonNegative(q)
    BY <1>1, <2>5, NonNegativeAgrees DEF IsTable
  <2>6. CASE field \in Flag(f)
    BY <1>1, <2>6, FlagAgrees DEF IsTable
  <2> QED BY <2>1, <2>2, <2>3, <2>4, <2>5, <2>6 DEF IsTable
<1>3. Schema(t) = Table(p, m, n, q, f, other)
  BY DEF IsTable
<1>4. KeysIn(Schema(t)) = AllowedKeys(t)
  <2>1. KeysIn(Table(p, m, n, q, f, other)) = p \cup m \cup n \cup q \cup f \cup KeysIn(other)
    BY TableResult
  <2>2. p \cup m \cup n \cup q \cup f \cup KeysIn(other) = AllowedKeys(t)
    BY DEF IsTable
  <2> QED BY <1>3, <2>1, <2>2
<1>5. \A key \in p \cup n \cup q : DoubleField(t, key)
  BY <1>3, TableResult DEF DoubleField
<1>6. OnePerKey(Schema(t))
  <2> DEFINE P == Probability(p)
             M == Milliseconds(m)
             N == Number(n)
             Q == NonNegative(q)
             F == Flag(f)
  <2>1. /\ OnePerKey(P) /\ OnePerKey(M) /\ OnePerKey(N) /\ OnePerKey(Q) /\ OnePerKey(F)
        /\ OnePerKey(other)
    BY FieldsOnePerKey DEF IsTable, Probability, Milliseconds, Number, NonNegative, Flag
  <2>2. KeysIn(P) = p /\ KeysIn(M) = m /\ KeysIn(N) = n /\ KeysIn(Q) = q /\ KeysIn(F) = f
    BY FieldResult DEF Probability, Milliseconds, Number, NonNegative, Flag
  <2>3. Schema(t) = P \cup M \cup N \cup Q \cup F \cup other
    BY <1>3 DEF Table
  <2>4. /\ p \cap (m \cup n \cup q \cup f \cup KeysIn(other)) = {}
        /\ m \cap (n \cup q \cup f \cup KeysIn(other)) = {}
        /\ n \cap (q \cup f \cup KeysIn(other)) = {}
        /\ q \cap (f \cup KeysIn(other)) = {} /\ f \cap KeysIn(other) = {}
    BY DEF IsTable
  <2> HIDE DEF P, M, N, Q, F
  <2>5. /\ \A a \in P : a.key \in p
        /\ \A a \in M : a.key \in m
        /\ \A a \in N : a.key \in n
        /\ \A a \in Q : a.key \in q
        /\ \A a \in F : a.key \in f
        /\ \A a \in other : a.key \in KeysIn(other)
    BY <2>2 DEF KeysIn
  <2> SUFFICES ASSUME NEW a \in Schema(t), NEW b \in Schema(t), a.key = b.key PROVE a = b
    BY DEF OnePerKey
  <2>6. CASE a \in P
    <3>1. b \in P
      BY <2>3, <2>4, <2>5, <2>6
    <3> QED BY <2>1, <2>6, <3>1 DEF OnePerKey
  <2>7. CASE a \in M
    <3>1. b \in M
      BY <2>3, <2>4, <2>5, <2>7
    <3> QED BY <2>1, <2>7, <3>1 DEF OnePerKey
  <2>8. CASE a \in N
    <3>1. b \in N
      BY <2>3, <2>4, <2>5, <2>8
    <3> QED BY <2>1, <2>8, <3>1 DEF OnePerKey
  <2>9. CASE a \in Q
    <3>1. b \in Q
      BY <2>3, <2>4, <2>5, <2>9
    <3> QED BY <2>1, <2>9, <3>1 DEF OnePerKey
  <2>10. CASE a \in F
    <3>1. b \in F
      BY <2>3, <2>4, <2>5, <2>10
    <3> QED BY <2>1, <2>10, <3>1 DEF OnePerKey
  <2>11. CASE a \in other
    <3>1. b \in other
      BY <2>3, <2>4, <2>5, <2>11
    <3> QED BY <2>1, <2>11, <3>1 DEF OnePerKey
  <2> QED BY <2>3, <2>6, <2>7, <2>8, <2>9, <2>10, <2>11
<1> QED BY <1>2, <1>4, <1>5, <1>6 DEF Consistent

LEMMA NoKeys ==
  /\ Number({}) = {} /\ NonNegative({}) = {} /\ Flag({}) = {} /\ Probability({}) = {}
  /\ KeysIn({}) = {}
BY DEF Number, NonNegative, Flag, Probability, Fields, KeysIn

LEMMA OdomConsistent ==
  /\ Consistent("odom")
  /\ \A key \in {"drop_probability", "x_bias", "y_bias", "yaw_bias_deg", "yaw_noise_stddev_deg",
                  "x_noise_stddev", "y_noise_stddev", "pose_covariance_scale",
                  "twist_covariance_scale", "pose_covariance_floor", "twist_covariance_floor"} :
       DoubleField("odom", key)
<1> DEFINE p == {"drop_probability"}
           m == {"delay_ms"}
           n == {"x_bias", "y_bias", "yaw_bias_deg"}
           q == {"yaw_noise_stddev_deg", "x_noise_stddev", "y_noise_stddev",
                 "pose_covariance_scale", "twist_covariance_scale", "pose_covariance_floor",
                 "twist_covariance_floor"}
           f == {}
           other == {}
<1>1. Schema("odom") = Table(p, m, n, q, f, other)
  <2>1. Schema("odom") = Probability(p) \cup Milliseconds(m) \cup Number(n) \cup NonNegative(q)
    BY DEF Schema, OdomSchema
  <2> QED BY <2>1, NoKeys DEF Table
<1>2. p \cup m \cup n \cup q \cup f \cup KeysIn(other) = AllowedKeys("odom")
  BY NoKeys DEF AllowedKeys
<1>3. n \subseteq NumberKeys /\ q \subseteq NonNegativeNumberKeys \cup NumberKeys
  BY DEF NumberKeys, NonNegativeNumberKeys
<1>4. /\ p \subseteq {"drop_probability"} \cup NonNegativeNumberKeys
      /\ m \subseteq {"delay_ms", "stale_replay_duration_ms"}
      /\ f \subseteq {"stale_replay_enabled", "force_failure", "force_stop"}
  BY DEF NonNegativeNumberKeys
<1>5. ASSUME NEW field \in other PROVE Agrees("odom", field)
  OBVIOUS
<1>6. OnePerKey(other)
  BY DEF OnePerKey
<1>7. /\ p \cap (m \cup n \cup q \cup f \cup KeysIn(other)) = {}
      /\ m \cap (n \cup q \cup f \cup KeysIn(other)) = {}
      /\ n \cap (q \cup f \cup KeysIn(other)) = {}
      /\ q \cap (f \cup KeysIn(other)) = {} /\ f \cap KeysIn(other) = {}
  BY NoKeys
<1> HIDE DEF p, m, n, q, f, other
<1>8. IsTable("odom", p, m, n, q, f, other)
  BY <1>1, <1>2, <1>3, <1>4, <1>5, <1>6, <1>7 DEF IsTable
<1>9. Consistent("odom") /\ \A key \in p \cup n \cup q : DoubleField("odom", key)
  BY <1>8, TableConsistent
<1> QED BY <1>9 DEF p, n, q

LEMMA ScanConsistent ==
  /\ Consistent("scan")
  /\ \A key \in {"drop_probability", "range_bias", "sector_min_deg", "sector_max_deg",
                  "range_noise_stddev"} :
       DoubleField("scan", key)
<1> DEFINE p == {"drop_probability"}
           m == {"delay_ms"}
           n == {"range_bias", "sector_min_deg", "sector_max_deg"}
           q == {"range_noise_stddev"}
           f == {}
           other == Fields("special_float", None, None, {"sector_value"})
<1>1. Schema("scan") = Table(p, m, n, q, f, other)
  <2>1. Schema("scan") = Probability(p) \cup Milliseconds(m) \cup Number(n)
                         \cup NonNegative(q) \cup other
    BY DEF Schema, ScanSchema
  <2> QED BY <2>1, NoKeys DEF Table
<1>2. p \cup m \cup n \cup q \cup f \cup KeysIn(other) = AllowedKeys("scan")
  BY FieldResult DEF AllowedKeys
<1>3. n \subseteq NumberKeys /\ q \subseteq NonNegativeNumberKeys \cup NumberKeys
  BY DEF NumberKeys, NonNegativeNumberKeys
<1>4. /\ p \subseteq {"drop_probability"} \cup NonNegativeNumberKeys
      /\ m \subseteq {"delay_ms", "stale_replay_duration_ms"}
      /\ f \subseteq {"stale_replay_enabled", "force_failure", "force_stop"}
  BY DEF NonNegativeNumberKeys
<1>5. ASSUME NEW field \in other PROVE Agrees("scan", field)
  <2>1. field.key \in {"sector_value"} /\ field.type = "special_float"
    BY FieldResult
  <2>2. \A text : ValidValue(field, text) => text \in SpecialTexts \cup DoubleTexts
    BY <2>1 DEF ValidValue
  <2> QED BY <2>1, <2>2, <1>2 DEF Agrees, ValidByKey, NumberKeys, NonNegativeNumberKeys, AllowedKeys
<1>6. OnePerKey(other)
  BY FieldsOnePerKey
<1>7. /\ p \cap (m \cup n \cup q \cup f \cup KeysIn(other)) = {}
      /\ m \cap (n \cup q \cup f \cup KeysIn(other)) = {}
      /\ n \cap (q \cup f \cup KeysIn(other)) = {}
      /\ q \cap (f \cup KeysIn(other)) = {} /\ f \cap KeysIn(other) = {}
  BY FieldResult
<1> HIDE DEF p, m, n, q, f, other
<1>8. IsTable("scan", p, m, n, q, f, other)
  BY <1>1, <1>2, <1>3, <1>4, <1>5, <1>6, <1>7 DEF IsTable
<1>9. Consistent("scan") /\ \A key \in p \cup n \cup q : DoubleField("scan", key)
  BY <1>8, TableConsistent
<1> QED BY <1>9 DEF p, n, q

LEMMA JointStateConsistent ==
  /\ Consistent("joint_state")
  /\ \A key \in {"drop_probability", "velocity_bias", "velocity_noise_stddev"} :
       DoubleField("joint_state", key)
<1> DEFINE p == {"drop_probability"}
           m == {"delay_ms"}
           n == {"velocity_bias"}
           q == {"velocity_noise_stddev"}
           f == {}
           other == {}
<1>1. Schema("joint_state") = Table(p, m, n, q, f, other)
  <2>1. Schema("joint_state")
          = Probability(p) \cup Milliseconds(m) \cup Number(n) \cup NonNegative(q)
    BY DEF Schema, JointStateSchema
  <2> QED BY <2>1, NoKeys DEF Table
<1>2. p \cup m \cup n \cup q \cup f \cup KeysIn(other) = AllowedKeys("joint_state")
  BY NoKeys DEF AllowedKeys
<1>3. n \subseteq NumberKeys /\ q \subseteq NonNegativeNumberKeys \cup NumberKeys
  BY DEF NumberKeys, NonNegativeNumberKeys
<1>4. /\ p \subseteq {"drop_probability"} \cup NonNegativeNumberKeys
      /\ m \subseteq {"delay_ms", "stale_replay_duration_ms"}
      /\ f \subseteq {"stale_replay_enabled", "force_failure", "force_stop"}
  BY DEF NonNegativeNumberKeys
<1>5. ASSUME NEW field \in other PROVE Agrees("joint_state", field)
  OBVIOUS
<1>6. OnePerKey(other)
  BY DEF OnePerKey
<1>7. /\ p \cap (m \cup n \cup q \cup f \cup KeysIn(other)) = {}
      /\ m \cap (n \cup q \cup f \cup KeysIn(other)) = {}
      /\ n \cap (q \cup f \cup KeysIn(other)) = {}
      /\ q \cap (f \cup KeysIn(other)) = {} /\ f \cap KeysIn(other) = {}
  BY NoKeys
<1> HIDE DEF p, m, n, q, f, other
<1>8. IsTable("joint_state", p, m, n, q, f, other)
  BY <1>1, <1>2, <1>3, <1>4, <1>5, <1>6, <1>7 DEF IsTable
<1>9. Consistent("joint_state") /\ \A key \in p \cup n \cup q : DoubleField("joint_state", key)
  BY <1>8, TableConsistent
<1> QED BY <1>9 DEF p, n, q

LEMMA ImuConsistent ==
  /\ Consistent("imu")
  /\ \A key \in {"drop_probability", "angular_velocity_z_bias", "linear_acceleration_x_bias",
                  "linear_acceleration_y_bias", "linear_acceleration_z_bias",
                  "angular_velocity_z_noise_stddev", "linear_acceleration_x_noise_stddev",
                  "linear_acceleration_y_noise_stddev", "linear_acceleration_z_noise_stddev"} :
       DoubleField("imu", key)
<1> DEFINE p == {"drop_probability"}
           m == {"delay_ms"}
           n == {"angular_velocity_z_bias", "linear_acceleration_x_bias",
                 "linear_acceleration_y_bias", "linear_acceleration_z_bias"}
           q == {"angular_velocity_z_noise_stddev", "linear_acceleration_x_noise_stddev",
                 "linear_acceleration_y_noise_stddev", "linear_acceleration_z_noise_stddev"}
           f == {}
           other == {}
<1>1. Schema("imu") = Table(p, m, n, q, f, other)
  <2>1. Schema("imu") = Probability(p) \cup Milliseconds(m) \cup Number(n) \cup NonNegative(q)
    BY DEF Schema, ImuSchema
  <2> QED BY <2>1, NoKeys DEF Table
<1>2. p \cup m \cup n \cup q \cup f \cup KeysIn(other) = AllowedKeys("imu")
  BY NoKeys DEF AllowedKeys
<1>3. n \subseteq NumberKeys /\ q \subseteq NonNegativeNumberKeys \cup NumberKeys
  BY DEF NumberKeys, NonNegativeNumberKeys
<1>4. /\ p \subseteq {"drop_probability"} \cup NonNegativeNumberKeys
      /\ m \subseteq {"delay_ms", "stale_replay_duration_ms"}
      /\ f \subseteq {"stale_replay_enabled", "force_failure", "force_stop"}
  BY DEF NonNegativeNumberKeys
<1>5. ASSUME NEW field \in other PROVE Agrees("imu", field)
  OBVIOUS
<1>6. OnePerKey(other)
  BY DEF OnePerKey
<1>7. /\ p \cap (m \cup n \cup q \cup f \cup KeysIn(other)) = {}
      /\ m \cap (n \cup q \cup f \cup KeysIn(other)) = {}
      /\ n \cap (q \cup f \cup KeysIn(other)) = {}
      /\ q \cap (f \cup KeysIn(other)) = {} /\ f \cap KeysIn(other) = {}
  BY NoKeys
<1> HIDE DEF p, m, n, q, f, other
<1>8. IsTable("imu", p, m, n, q, f, other)
  BY <1>1, <1>2, <1>3, <1>4, <1>5, <1>6, <1>7 DEF IsTable
<1>9. Consistent("imu") /\ \A key \in p \cup n \cup q : DoubleField("imu", key)
  BY <1>8, TableConsistent
<1> QED BY <1>9 DEF p, n, q

LEMMA TwistConsistent ==
  /\ Consistent("twist")
  /\ \A key \in {"drop_probability", "linear_x_scale", "angular_z_scale", "max_linear_x",
                  "max_angular_z"} :
       DoubleField("twist", key)
<1> DEFINE p == {"drop_probability"}
           m == {"delay_ms", "stale_replay_duration_ms"}
           n == {}
           q == {"linear_x_scale", "angular_z_scale", "max_linear_x", "max_angular_z"}
           f == {"force_stop", "stale_replay_enabled"}
           other == {}
<1>1. Schema("twist") = Table(p, m, n, q, f, other)
  <2>1. Schema("twist") = Probability(p) \cup Milliseconds(m) \cup NonNegative(q) \cup Flag(f)
    BY DEF Schema, TwistSchema
  <2> QED BY <2>1, NoKeys DEF Table
<1>2. p \cup m \cup n \cup q \cup f \cup KeysIn(other) = AllowedKeys("twist")
  BY NoKeys DEF AllowedKeys
<1>3. n \subseteq NumberKeys /\ q \subseteq NonNegativeNumberKeys \cup NumberKeys
  BY DEF NumberKeys, NonNegativeNumberKeys
<1>4. /\ p \subseteq {"drop_probability"} \cup NonNegativeNumberKeys
      /\ m \subseteq {"delay_ms", "stale_replay_duration_ms"}
      /\ f \subseteq {"stale_replay_enabled", "force_failure", "force_stop"}
  BY DEF NonNegativeNumberKeys
<1>5. ASSUME NEW field \in other PROVE Agrees("twist", field)
  OBVIOUS
<1>6. OnePerKey(other)
  BY DEF OnePerKey
<1>7. /\ p \cap (m \cup n \cup q \cup f \cup KeysIn(other)) = {}
      /\ m \cap (n \cup q \cup f \cup KeysIn(other)) = {}
      /\ n \cap (q \cup f \cup KeysIn(other)) = {}
      /\ q \cap (f \cup KeysIn(other)) = {} /\ f \cap KeysIn(other) = {}
  BY NoKeys
<1> HIDE DEF p, m, n, q, f, other
<1>8. IsTable("twist", p, m, n, q, f, other)
  BY <1>1, <1>2, <1>3, <1>4, <1>5, <1>6, <1>7 DEF IsTable
<1>9. Consistent("twist") /\ \A key \in p \cup n \cup q : DoubleField("twist", key)
  BY <1>8, TableConsistent
<1> QED BY <1>9 DEF p, n, q

LEMMA PointCloudConsistent ==
  /\ Consistent("point_cloud")
  /\ \A key \in {"drop_probability", "point_dropout_probability", "dust_return_probability",
                  "range_noise_stddev", "dust_min_range", "dust_max_range",
                  "dust_intensity_scale", "intensity_scale"} :
       DoubleField("point_cloud", key)
<1> DEFINE p == {"drop_probability", "point_dropout_probability", "dust_return_probability"}
           m == {"delay_ms"}
           n == {}
           q == {"range_noise_stddev", "dust_min_range", "dust_max_range",
                 "dust_intensity_scale", "intensity_scale"}
           f == {}
           other == {}
<1>1. Schema("point_cloud") = Table(p, m, n, q, f, other)
  <2>1. Schema("point_cloud") = Probability(p) \cup Milliseconds(m) \cup NonNegative(q)
    BY DEF Schema, PointCloudSchema
  <2> QED BY <2>1, NoKeys DEF Table
<1>2. p \cup m \cup n \cup q \cup f \cup KeysIn(other) = AllowedKeys("point_cloud")
  BY NoKeys DEF AllowedKeys
<1>3. n \subseteq NumberKeys /\ q \subseteq NonNegativeNumberKeys \cup NumberKeys
  BY DEF NumberKeys, NonNegativeNumberKeys
<1>4. /\ p \subseteq {"drop_probability"} \cup NonNegativeNumberKeys
      /\ m \subseteq {"delay_ms", "stale_replay_duration_ms"}
      /\ f \subseteq {"stale_replay_enabled", "force_failure", "force_stop"}
  BY DEF NonNegativeNumberKeys
<1>5. ASSUME NEW field \in other PROVE Agrees("point_cloud", field)
  OBVIOUS
<1>6. OnePerKey(other)
  BY DEF OnePerKey
<1>7. /\ p \cap (m \cup n \cup q \cup f \cup KeysIn(other)) = {}
      /\ m \cap (n \cup q \cup f \cup KeysIn(other)) = {}
      /\ n \cap (q \cup f \cup KeysIn(other)) = {}
      /\ q \cap (f \cup KeysIn(other)) = {} /\ f \cap KeysIn(other) = {}
  BY NoKeys
<1> HIDE DEF p, m, n, q, f, other
<1>8. IsTable("point_cloud", p, m, n, q, f, other)
  BY <1>1, <1>2, <1>3, <1>4, <1>5, <1>6, <1>7 DEF IsTable
<1>9. Consistent("point_cloud") /\ \A key \in p \cup n \cup q : DoubleField("point_cloud", key)
  BY <1>8, TableConsistent
<1> QED BY <1>9 DEF p, n, q

LEMMA TriggerServiceConsistent ==
  Consistent("trigger_service")
<1> DEFINE p == {}
           m == {"delay_ms"}
           n == {}
           q == {}
           f == {"force_failure"}
           other == Fields("string", None, None, {"failure_message"})
<1>1. Schema("trigger_service") = Table(p, m, n, q, f, other)
  <2>1. Schema("trigger_service") = Milliseconds(m) \cup Flag(f) \cup other
    BY DEF Schema, TriggerServiceSchema
  <2> QED BY <2>1, NoKeys DEF Table
<1>2. p \cup m \cup n \cup q \cup f \cup KeysIn(other) = AllowedKeys("trigger_service")
  BY FieldResult DEF AllowedKeys
<1>3. n \subseteq NumberKeys /\ q \subseteq NonNegativeNumberKeys \cup NumberKeys
  BY DEF NumberKeys, NonNegativeNumberKeys
<1>4. /\ p \subseteq {"drop_probability"} \cup NonNegativeNumberKeys
      /\ m \subseteq {"delay_ms", "stale_replay_duration_ms"}
      /\ f \subseteq {"stale_replay_enabled", "force_failure", "force_stop"}
  BY DEF NonNegativeNumberKeys
<1>5. ASSUME NEW field \in other PROVE Agrees("trigger_service", field)
  <2>1. field.key \in {"failure_message"} /\ field.type = "string"
    BY FieldResult
  <2> QED BY <2>1 DEF Agrees, ValidByKey, NumberKeys, NonNegativeNumberKeys, AllowedKeys
<1>6. OnePerKey(other)
  BY FieldsOnePerKey
<1>7. /\ p \cap (m \cup n \cup q \cup f \cup KeysIn(other)) = {}
      /\ m \cap (n \cup q \cup f \cup KeysIn(other)) = {}
      /\ n \cap (q \cup f \cup KeysIn(other)) = {}
      /\ q \cap (f \cup KeysIn(other)) = {} /\ f \cap KeysIn(other) = {}
  BY FieldResult
<1> HIDE DEF p, m, n, q, f, other
<1>8. IsTable("trigger_service", p, m, n, q, f, other)
  BY <1>1, <1>2, <1>3, <1>4, <1>5, <1>6, <1>7 DEF IsTable
<1>9. Consistent("trigger_service")
      /\ \A key \in p \cup n \cup q : DoubleField("trigger_service", key)
  BY <1>8, TableConsistent
<1> QED BY <1>9

LEMMA TfConsistent ==
  /\ Consistent("tf")
  /\ \A key \in {"drop_probability", "x_bias", "y_bias", "z_bias", "roll_bias_deg",
                  "pitch_bias_deg", "yaw_bias_deg"} :
       DoubleField("tf", key)
<1> DEFINE p == {"drop_probability"}
           m == {"delay_ms"}
           n == {"x_bias", "y_bias", "z_bias", "roll_bias_deg", "pitch_bias_deg", "yaw_bias_deg"}
           q == {}
           f == {}
           other == Fields("non_empty_string", None, None, {"parent_frame", "child_frame"})
<1>1. Schema("tf") = Table(p, m, n, q, f, other)
  <2>1. Schema("tf") = Probability(p) \cup Milliseconds(m) \cup Number(n) \cup other
    BY DEF Schema, TfSchema
  <2> QED BY <2>1, NoKeys DEF Table
<1>2. p \cup m \cup n \cup q \cup f \cup KeysIn(other) = AllowedKeys("tf")
  BY FieldResult DEF AllowedKeys
<1>3. n \subseteq NumberKeys /\ q \subseteq NonNegativeNumberKeys \cup NumberKeys
  BY DEF NumberKeys, NonNegativeNumberKeys
<1>4. /\ p \subseteq {"drop_probability"} \cup NonNegativeNumberKeys
      /\ m \subseteq {"delay_ms", "stale_replay_duration_ms"}
      /\ f \subseteq {"stale_replay_enabled", "force_failure", "force_stop"}
  BY DEF NonNegativeNumberKeys
<1>5. ASSUME NEW field \in other PROVE Agrees("tf", field)
  <2>1. field.key \in {"parent_frame", "child_frame"} /\ field.type = "non_empty_string"
    BY FieldResult
  <2>2. \A text : ValidValue(field, text) => text # ""
    BY <2>1 DEF ValidValue
  <2> QED BY <2>1, <2>2, <1>2 DEF Agrees, ValidByKey, NumberKeys, NonNegativeNumberKeys, AllowedKeys
<1>6. OnePerKey(other)
  BY FieldsOnePerKey
<1>7. /\ p \cap (m \cup n \cup q \cup f \cup KeysIn(other)) = {}
      /\ m \cap (n \cup q \cup f \cup KeysIn(other)) = {}
      /\ n \cap (q \cup f \cup KeysIn(other)) = {}
      /\ q \cap (f \cup KeysIn(other)) = {} /\ f \cap KeysIn(other) = {}
  BY FieldResult
<1> HIDE DEF p, m, n, q, f, other
<1>8. IsTable("tf", p, m, n, q, f, other)
  BY <1>1, <1>2, <1>3, <1>4, <1>5, <1>6, <1>7 DEF IsTable
<1>9. Consistent("tf") /\ \A key \in p \cup n \cup q : DoubleField("tf", key)
  BY <1>8, TableConsistent
<1> QED BY <1>9 DEF p, n, q

LEMMA AllConsistent == \A t \in InjectorTypes : Consistent(t)
BY OdomConsistent, ScanConsistent, JointStateConsistent, ImuConsistent, TwistConsistent,
   PointCloudConsistent, TriggerServiceConsistent, TfConsistent DEF InjectorTypes

-----------------------------------------------------------------------------
(* Folds over finite sets.                                                   *)

LEMMA Induction ==
  ASSUME NEW S, 0 \in S, \A n \in Nat : n \in S => n + 1 \in S
  PROVE  Nat \subseteq S
<1> DEFINE T == Nat \ S
           R == OpToRel(<, Nat)
<1> SUFFICES ASSUME T # {} PROVE FALSE
  OBVIOUS
<1>1. \A x, y \in Nat : y < x => <<y, x>> \in R
  BY DEF OpToRel
<1>2. IsWellFoundedOn(R, Nat)
  BY NatLessThanWellFounded
<1>3. T \subseteq Nat
  OBVIOUS
<1> HIDE DEF R
<1>4. PICK x \in T : \A y \in T : ~(<<y, x>> \in R)
  <2> HIDE DEF T
  <2> QED BY <1>2, <1>3, WFMin
<1>5. x \in Nat /\ x \notin S /\ x # 0
  OBVIOUS
<1>6. x - 1 \in Nat /\ x - 1 < x /\ (x - 1) + 1 = x
  BY <1>5
<1>7. x - 1 \in T
  BY <1>5, <1>6
<1> QED BY <1>1, <1>4, <1>5, <1>6, <1>7

\* The element a fold takes first, and what it leaves.
First(T) == CHOOSE x \in T : TRUE
Rest(T) == T \ {First(T)}

LEMMA Smaller ==
  ASSUME NEW S, IsFiniteSet(S)
  PROVE  /\ \A T \in SUBSET S : /\ Cardinality(T) \in Nat /\ Cardinality(T) <= Cardinality(S)
                                /\ Cardinality(T) = 0 <=> T = {}
         /\ \A T \in SUBSET S : T # {} => /\ First(T) \in T /\ Rest(T) \in SUBSET S
                                          /\ Cardinality(Rest(T)) = Cardinality(T) - 1
<1>1. ASSUME NEW T \in SUBSET S
      PROVE  /\ IsFiniteSet(T) /\ Cardinality(T) \in Nat /\ Cardinality(T) <= Cardinality(S)
             /\ Cardinality(T) = 0 <=> T = {}
  BY FS_Subset, FS_CardinalityType, FS_EmptySet
<1>2. ASSUME NEW T \in SUBSET S, T # {}
      PROVE  /\ First(T) \in T /\ Rest(T) \in SUBSET S
             /\ Cardinality(Rest(T)) = Cardinality(T) - 1
  BY <1>1, <1>2, FS_RemoveElement DEF First, Rest
<1> QED BY <1>1, <1>2

\* What holds of the empty set, and of every subset when it holds of its rest,
\* holds of the whole set.
LEMMA SetInduction ==
  ASSUME NEW S, IsFiniteSet(S), NEW P,
         {} \in P, \A T \in SUBSET S : T # {} /\ Rest(T) \in P => T \in P
  PROVE  \A T \in SUBSET S : T \in P
<1> DEFINE D(n) == {T \in SUBSET S : Cardinality(T) <= n}
           Good == {n \in Nat : D(n) \subseteq P}
<1>1. 0 \in Good
  <2>1. D(0) \subseteq {{}}
    BY Smaller
  <2> HIDE DEF D
  <2> QED BY <2>1
<1>2. ASSUME NEW n \in Nat, n \in Good
      PROVE  n + 1 \in Good
  <2>1. ASSUME NEW T \in D(n + 1) PROVE T \in P
    <3>1. CASE T = {}
      BY <3>1
    <3>2. CASE T # {}
      <4>1. T \in SUBSET S /\ Rest(T) \in SUBSET S /\ Cardinality(Rest(T)) <= n
        BY <3>2, Smaller
      <4>2. Rest(T) \in D(n)
        BY <4>1
      <4> HIDE DEF D
      <4> QED BY <1>2, <3>2, <4>1, <4>2
    <3> QED BY <3>1, <3>2
  <2> HIDE DEF D
  <2> QED BY <2>1
<1>3. Cardinality(S) \in Good
  <2>1. Cardinality(S) \in Nat
    BY Smaller, S \in SUBSET S
  <2> HIDE DEF Good
  <2> QED BY <1>1, <1>2, <2>1, Induction
<1>4. D(Cardinality(S)) = SUBSET S
  BY Smaller
<1> HIDE DEF D
<1> QED BY <1>3, <1>4

\* The function a fold of G over the subsets of S is defined by exists.
Folding(g, G, base, D) ==
  \A T \in D : g[T] = IF T = {} THEN base ELSE G[<<g[Rest(T)], First(T)>>]

LEMMA FoldingExists ==
  ASSUME NEW S, IsFiniteSet(S), NEW A, NEW base, base \in A, NEW G, G \in [A \X S -> A]
  PROVE  \E g \in [SUBSET S -> A] : Folding(g, G, base, SUBSET S)
<1> DEFINE D(n) == {T \in SUBSET S : Cardinality(T) <= n}
           Good == {n \in Nat : \E g \in [D(n) -> A] : Folding(g, G, base, D(n))}
<1>1. \A n \in Nat : \A T \in D(n + 1) :
        T # {} => First(T) \in S /\ Rest(T) \in D(n)
  BY Smaller
<1>2. \A n \in Nat : D(n) \subseteq D(n + 1)
  BY Smaller
<1>3. D(0) \subseteq {{}}
  BY Smaller
<1>4. 0 \in Good
  <2> DEFINE g == [T \in D(0) |-> base]
  <2>1. g \in [D(0) -> A] /\ \A T \in D(0) : T = {} /\ g[T] = base
    BY <1>3
  <2>2. Folding(g, G, base, D(0))
    BY <2>1 DEF Folding
  <2> HIDE DEF D, g
  <2> QED BY <2>1, <2>2
<1>5. ASSUME NEW n \in Nat, n \in Good
      PROVE  n + 1 \in Good
  <2>1. PICK g \in [D(n) -> A] : Folding(g, G, base, D(n))
    BY <1>5
  <2> DEFINE h == [T \in D(n + 1) |-> IF T = {} THEN base ELSE G[<<g[Rest(T)], First(T)>>]]
  <2> HIDE DEF D
  <2>2. \A T \in D(n) : h[T] = g[T]
    BY <1>2, <2>1 DEF Folding
  <2>3. ASSUME NEW T \in D(n + 1), T # {}
        PROVE  g[Rest(T)] \in A /\ First(T) \in S /\ h[Rest(T)] = g[Rest(T)]
               /\ h[T] = G[<<g[Rest(T)], First(T)>>]
    <3>1. Rest(T) \in D(n) /\ First(T) \in S
      BY <1>1, <2>3
    <3>2. h[T] = G[<<g[Rest(T)], First(T)>>]
      BY <2>3
    <3> HIDE DEF h
    <3> QED BY <2>1, <2>2, <3>1, <3>2
  <2>4. \A T \in D(n + 1) : h[T] \in A
    <3> SUFFICES ASSUME NEW T \in D(n + 1) PROVE h[T] \in A
      OBVIOUS
    <3>1. CASE T = {}
      BY <3>1
    <3>2. CASE T # {}
      <4> HIDE DEF h
      <4> QED BY <2>3, <3>2
    <3> QED BY <3>1, <3>2
  <2>5. h \in [D(n + 1) -> A]
    BY <2>4
  <2>6. Folding(h, G, base, D(n + 1))
    <3>1. \A T \in D(n + 1) : T = {} => h[T] = base
      OBVIOUS
    <3> HIDE DEF h
    <3> QED BY <2>3, <3>1 DEF Folding
  <2> HIDE DEF h
  <2> QED BY <2>5, <2>6
<1>6. Cardinality(S) \in Good
  <2>1. Cardinality(S) \in Nat
    BY Smaller, S \in SUBSET S
  <2> HIDE DEF Good
  <2> QED BY <1>4, <1>5, <2>1, Induction
<1>7. D(Cardinality(S)) = SUBSET S
  BY Smaller
<1> HIDE DEF D
<1> QED BY <1>6, <1>7

\* What a fold with each of the readers' operations computes.
MaxFolded(key, fallback, A) ==
  \E g \in [SUBSET ActiveWith(key) -> A] :
    /\ ActiveMax(key, fallback) = g[ActiveWith(key)] /\ g[{}] = fallback
    /\ \A T \in SUBSET ActiveWith(key) : T # {} =>
         g[T] = StdMax(g[Rest(T)], NumberAt(First(T), key))

LEMMA MaxFold ==
  ASSUME NEW key, NEW fallback, NEW A, fallback \in A, IsFiniteSet(ActiveWith(key)),
         \A n \in A : \A f \in ActiveWith(key) : StdMax(n, NumberAt(f, key)) \in A
  PROVE  MaxFolded(key, fallback, A)
<1> DEFINE S == ActiveWith(key)
           G == [p \in A \X S |-> StdMax(p[1], NumberAt(p[2], key))]
           Body(g, T) == IF T = {} THEN fallback
                         ELSE StdMax(g[T \ {CHOOSE x \in T : TRUE}],
                                   NumberAt(CHOOSE x \in T : TRUE, key))
           iter == CHOOSE g : g = [T \in SUBSET S |-> Body(g, T)]
<1>1. ActiveMax(key, fallback) = iter[S]
  BY DEF ActiveMax, ActiveFold, FoldSet, MapThenFoldSet
<1>2. \A g, T : Body(g, T) = IF T = {} THEN fallback
                             ELSE StdMax(g[Rest(T)], NumberAt(First(T), key))
  BY DEF First, Rest
<1> HIDE DEF Body
<1>3. G \in [A \X S -> A] /\ \A n \in A, f \in S : G[<<n, f>>] = StdMax(n, NumberAt(f, key))
  OBVIOUS
<1> HIDE DEF G, S
<1>4. PICK g \in [SUBSET S -> A] : Folding(g, G, fallback, SUBSET S)
  BY <1>3, FoldingExists DEF S
<1>5. \A T \in SUBSET S : T # {} => First(T) \in S /\ Rest(T) \in SUBSET S
  BY Smaller DEF S
<1>6. \A T \in SUBSET S : g[T] = Body(g, T)
  BY <1>2, <1>3, <1>4, <1>5 DEF Folding
<1>7. g = [T \in SUBSET S |-> Body(g, T)]
  BY <1>6
<1>8. iter = [T \in SUBSET S |-> Body(iter, T)]
  BY <1>7
<1> HIDE DEF iter
<1>9. \A T \in SUBSET S : iter[T] = Body(iter, T)
  BY <1>8
<1>10. \A T \in SUBSET S : iter[T] \in A
  <2> DEFINE P == {T \in SUBSET S : iter[T] \in A}
  <2>1. {} \in P
    BY <1>2, <1>9
  <2>2. ASSUME NEW T \in SUBSET S, T # {}, Rest(T) \in P
        PROVE  T \in P
    BY <1>2, <1>5, <1>9, <2>2 DEF S
  <2>3. IsFiniteSet(S)
    BY DEF S
  <2>4. \A T \in SUBSET S : T \in P
    <3> HIDE DEF P
    <3> QED BY <2>1, <2>2, <2>3, SetInduction
  <2> QED BY <2>4
<1>11. iter \in [SUBSET S -> A]
  BY <1>8, <1>10
<1>12. iter[{}] = fallback
  BY <1>2, <1>9
<1>13. \A T \in SUBSET S : T # {} => iter[T] = StdMax(iter[Rest(T)], NumberAt(First(T), key))
  BY <1>2, <1>9
<1> QED BY <1>1, <1>11, <1>12, <1>13 DEF S, MaxFolded

MinFolded(key, fallback, A) ==
  \E g \in [SUBSET ActiveWith(key) -> A] :
    /\ ActiveMin(key, fallback) = g[ActiveWith(key)] /\ g[{}] = fallback
    /\ \A T \in SUBSET ActiveWith(key) : T # {} =>
         g[T] = StdMin(g[Rest(T)], NumberAt(First(T), key))

LEMMA MinFold ==
  ASSUME NEW key, NEW fallback, NEW A, fallback \in A, IsFiniteSet(ActiveWith(key)),
         \A n \in A : \A f \in ActiveWith(key) : StdMin(n, NumberAt(f, key)) \in A
  PROVE  MinFolded(key, fallback, A)
<1> DEFINE S == ActiveWith(key)
           G == [p \in A \X S |-> StdMin(p[1], NumberAt(p[2], key))]
           Body(g, T) == IF T = {} THEN fallback
                         ELSE StdMin(g[T \ {CHOOSE x \in T : TRUE}],
                                   NumberAt(CHOOSE x \in T : TRUE, key))
           iter == CHOOSE g : g = [T \in SUBSET S |-> Body(g, T)]
<1>1. ActiveMin(key, fallback) = iter[S]
  BY DEF ActiveMin, ActiveFold, FoldSet, MapThenFoldSet
<1>2. \A g, T : Body(g, T) = IF T = {} THEN fallback
                             ELSE StdMin(g[Rest(T)], NumberAt(First(T), key))
  BY DEF First, Rest
<1> HIDE DEF Body
<1>3. G \in [A \X S -> A] /\ \A n \in A, f \in S : G[<<n, f>>] = StdMin(n, NumberAt(f, key))
  OBVIOUS
<1> HIDE DEF G, S
<1>4. PICK g \in [SUBSET S -> A] : Folding(g, G, fallback, SUBSET S)
  BY <1>3, FoldingExists DEF S
<1>5. \A T \in SUBSET S : T # {} => First(T) \in S /\ Rest(T) \in SUBSET S
  BY Smaller DEF S
<1>6. \A T \in SUBSET S : g[T] = Body(g, T)
  BY <1>2, <1>3, <1>4, <1>5 DEF Folding
<1>7. g = [T \in SUBSET S |-> Body(g, T)]
  BY <1>6
<1>8. iter = [T \in SUBSET S |-> Body(iter, T)]
  BY <1>7
<1> HIDE DEF iter
<1>9. \A T \in SUBSET S : iter[T] = Body(iter, T)
  BY <1>8
<1>10. \A T \in SUBSET S : iter[T] \in A
  <2> DEFINE P == {T \in SUBSET S : iter[T] \in A}
  <2>1. {} \in P
    BY <1>2, <1>9
  <2>2. ASSUME NEW T \in SUBSET S, T # {}, Rest(T) \in P
        PROVE  T \in P
    BY <1>2, <1>5, <1>9, <2>2 DEF S
  <2>3. IsFiniteSet(S)
    BY DEF S
  <2>4. \A T \in SUBSET S : T \in P
    <3> HIDE DEF P
    <3> QED BY <2>1, <2>2, <2>3, SetInduction
  <2> QED BY <2>4
<1>11. iter \in [SUBSET S -> A]
  BY <1>8, <1>10
<1>12. iter[{}] = fallback
  BY <1>2, <1>9
<1>13. \A T \in SUBSET S : T # {} => iter[T] = StdMin(iter[Rest(T)], NumberAt(First(T), key))
  BY <1>2, <1>9
<1> QED BY <1>1, <1>11, <1>12, <1>13 DEF S, MinFolded

SumFolded(key, A) ==
  \E g \in [SUBSET ActiveWith(key) -> A] :
    /\ ActiveSum(key) = g[ActiveWith(key)] /\ g[{}] = 0
    /\ \A T \in SUBSET ActiveWith(key) : T # {} =>
         g[T] = Plus(g[Rest(T)], NumberAt(First(T), key))

LEMMA SumFold ==
  ASSUME NEW key, NEW A, 0 \in A, IsFiniteSet(ActiveWith(key)),
         \A n \in A : \A f \in ActiveWith(key) : Plus(n, NumberAt(f, key)) \in A
  PROVE  SumFolded(key, A)
<1> DEFINE S == ActiveWith(key)
           G == [p \in A \X S |-> Plus(p[1], NumberAt(p[2], key))]
           Body(g, T) == IF T = {} THEN 0
                         ELSE Plus(g[T \ {CHOOSE x \in T : TRUE}],
                                   NumberAt(CHOOSE x \in T : TRUE, key))
           iter == CHOOSE g : g = [T \in SUBSET S |-> Body(g, T)]
<1>1. ActiveSum(key) = iter[S]
  BY DEF ActiveSum, ActiveFold, FoldSet, MapThenFoldSet
<1>2. \A g, T : Body(g, T) = IF T = {} THEN 0
                             ELSE Plus(g[Rest(T)], NumberAt(First(T), key))
  BY DEF First, Rest
<1> HIDE DEF Body
<1>3. G \in [A \X S -> A] /\ \A n \in A, f \in S : G[<<n, f>>] = Plus(n, NumberAt(f, key))
  OBVIOUS
<1> HIDE DEF G, S
<1>4. PICK g \in [SUBSET S -> A] : Folding(g, G, 0, SUBSET S)
  BY <1>3, FoldingExists DEF S
<1>5. \A T \in SUBSET S : T # {} => First(T) \in S /\ Rest(T) \in SUBSET S
  BY Smaller DEF S
<1>6. \A T \in SUBSET S : g[T] = Body(g, T)
  BY <1>2, <1>3, <1>4, <1>5 DEF Folding
<1>7. g = [T \in SUBSET S |-> Body(g, T)]
  BY <1>6
<1>8. iter = [T \in SUBSET S |-> Body(iter, T)]
  BY <1>7
<1> HIDE DEF iter
<1>9. \A T \in SUBSET S : iter[T] = Body(iter, T)
  BY <1>8
<1>10. \A T \in SUBSET S : iter[T] \in A
  <2> DEFINE P == {T \in SUBSET S : iter[T] \in A}
  <2>1. {} \in P
    BY <1>2, <1>9
  <2>2. ASSUME NEW T \in SUBSET S, T # {}, Rest(T) \in P
        PROVE  T \in P
    BY <1>2, <1>5, <1>9, <2>2 DEF S
  <2>3. IsFiniteSet(S)
    BY DEF S
  <2>4. \A T \in SUBSET S : T \in P
    <3> HIDE DEF P
    <3> QED BY <2>1, <2>2, <2>3, SetInduction
  <2> QED BY <2>4
<1>11. iter \in [SUBSET S -> A]
  BY <1>8, <1>10
<1>12. iter[{}] = 0
  BY <1>2, <1>9
<1>13. \A T \in SUBSET S : T # {} => iter[T] = Plus(iter[Rest(T)], NumberAt(First(T), key))
  BY <1>2, <1>9
<1> QED BY <1>1, <1>11, <1>12, <1>13 DEF S, SumFolded

ProductFolded(key, A) ==
  \E g \in [SUBSET ActiveWith(key) -> A] :
    /\ ActiveProduct(key) = g[ActiveWith(key)] /\ g[{}] = Unit
    /\ \A T \in SUBSET ActiveWith(key) : T # {} =>
         g[T] = Times(g[Rest(T)], NumberAt(First(T), key))

LEMMA ProductFold ==
  ASSUME NEW key, NEW A, Unit \in A, IsFiniteSet(ActiveWith(key)),
         \A n \in A : \A f \in ActiveWith(key) : Times(n, NumberAt(f, key)) \in A
  PROVE  ProductFolded(key, A)
<1> DEFINE S == ActiveWith(key)
           G == [p \in A \X S |-> Times(p[1], NumberAt(p[2], key))]
           Body(g, T) == IF T = {} THEN Unit
                         ELSE Times(g[T \ {CHOOSE x \in T : TRUE}],
                                   NumberAt(CHOOSE x \in T : TRUE, key))
           iter == CHOOSE g : g = [T \in SUBSET S |-> Body(g, T)]
<1>1. ActiveProduct(key) = iter[S]
  BY DEF ActiveProduct, ActiveFold, FoldSet, MapThenFoldSet
<1>2. \A g, T : Body(g, T) = IF T = {} THEN Unit
                             ELSE Times(g[Rest(T)], NumberAt(First(T), key))
  BY DEF First, Rest
<1> HIDE DEF Body
<1>3. G \in [A \X S -> A] /\ \A n \in A, f \in S : G[<<n, f>>] = Times(n, NumberAt(f, key))
  OBVIOUS
<1> HIDE DEF G, S
<1>4. PICK g \in [SUBSET S -> A] : Folding(g, G, Unit, SUBSET S)
  BY <1>3, FoldingExists DEF S
<1>5. \A T \in SUBSET S : T # {} => First(T) \in S /\ Rest(T) \in SUBSET S
  BY Smaller DEF S
<1>6. \A T \in SUBSET S : g[T] = Body(g, T)
  BY <1>2, <1>3, <1>4, <1>5 DEF Folding
<1>7. g = [T \in SUBSET S |-> Body(g, T)]
  BY <1>6
<1>8. iter = [T \in SUBSET S |-> Body(iter, T)]
  BY <1>7
<1> HIDE DEF iter
<1>9. \A T \in SUBSET S : iter[T] = Body(iter, T)
  BY <1>8
<1>10. \A T \in SUBSET S : iter[T] \in A
  <2> DEFINE P == {T \in SUBSET S : iter[T] \in A}
  <2>1. {} \in P
    BY <1>2, <1>9
  <2>2. ASSUME NEW T \in SUBSET S, T # {}, Rest(T) \in P
        PROVE  T \in P
    BY <1>2, <1>5, <1>9, <2>2 DEF S
  <2>3. IsFiniteSet(S)
    BY DEF S
  <2>4. \A T \in SUBSET S : T \in P
    <3> HIDE DEF P
    <3> QED BY <2>1, <2>2, <2>3, SetInduction
  <2> QED BY <2>4
<1>11. iter \in [SUBSET S -> A]
  BY <1>8, <1>10
<1>12. iter[{}] = Unit
  BY <1>2, <1>9
<1>13. \A T \in SUBSET S : T # {} => iter[T] = Times(iter[Rest(T)], NumberAt(First(T), key))
  BY <1>2, <1>9
<1> QED BY <1>1, <1>11, <1>12, <1>13 DEF S, ProductFolded

TfFolded(r, key, A) ==
  \E g \in [SUBSET Matching(r) -> A] :
    /\ TfSum(r, key) = g[Matching(r)] /\ g[{}] = r.value
    /\ \A T \in SUBSET Matching(r) : T # {} =>
         g[T] = Plus(g[Rest(T)], TfNumber(First(T), key))

LEMMA TfFold ==
  ASSUME NEW r, NEW key, NEW A, r.value \in A, IsFiniteSet(Matching(r)),
         \A n \in A : \A f \in Matching(r) : Plus(n, TfNumber(f, key)) \in A
  PROVE  TfFolded(r, key, A)
<1> DEFINE S == Matching(r)
           G == [p \in A \X S |-> Plus(p[1], TfNumber(p[2], key))]
           Body(g, T) == IF T = {} THEN r.value
                         ELSE Plus(g[T \ {CHOOSE x \in T : TRUE}],
                                   TfNumber(CHOOSE x \in T : TRUE, key))
           iter == CHOOSE g : g = [T \in SUBSET S |-> Body(g, T)]
<1>1. TfSum(r, key) = iter[S]
  BY DEF TfSum, FoldSet, MapThenFoldSet
<1>2. \A g, T : Body(g, T) = IF T = {} THEN r.value
                             ELSE Plus(g[Rest(T)], TfNumber(First(T), key))
  BY DEF First, Rest
<1> HIDE DEF Body
<1>3. G \in [A \X S -> A] /\ \A n \in A, f \in S : G[<<n, f>>] = Plus(n, TfNumber(f, key))
  OBVIOUS
<1> HIDE DEF G, S
<1>4. PICK g \in [SUBSET S -> A] : Folding(g, G, r.value, SUBSET S)
  BY <1>3, FoldingExists DEF S
<1>5. \A T \in SUBSET S : T # {} => First(T) \in S /\ Rest(T) \in SUBSET S
  BY Smaller DEF S
<1>6. \A T \in SUBSET S : g[T] = Body(g, T)
  BY <1>2, <1>3, <1>4, <1>5 DEF Folding
<1>7. g = [T \in SUBSET S |-> Body(g, T)]
  BY <1>6
<1>8. iter = [T \in SUBSET S |-> Body(iter, T)]
  BY <1>7
<1> HIDE DEF iter
<1>9. \A T \in SUBSET S : iter[T] = Body(iter, T)
  BY <1>8
<1>10. \A T \in SUBSET S : iter[T] \in A
  <2> DEFINE P == {T \in SUBSET S : iter[T] \in A}
  <2>1. {} \in P
    BY <1>2, <1>9
  <2>2. ASSUME NEW T \in SUBSET S, T # {}, Rest(T) \in P
        PROVE  T \in P
    BY <1>2, <1>5, <1>9, <2>2 DEF S
  <2>3. IsFiniteSet(S)
    BY DEF S
  <2>4. \A T \in SUBSET S : T \in P
    <3> HIDE DEF P
    <3> QED BY <2>1, <2>2, <2>3, SetInduction
  <2> QED BY <2>4
<1>11. iter \in [SUBSET S -> A]
  BY <1>8, <1>10
<1>12. iter[{}] = r.value
  BY <1>2, <1>9
<1>13. \A T \in SUBSET S : T # {} => iter[T] = Plus(iter[Rest(T)], TfNumber(First(T), key))
  BY <1>2, <1>9
<1> QED BY <1>1, <1>11, <1>12, <1>13 DEF S, TfFolded

\* A reader finds nothing, and returns its fallback.
LEMMA NothingConfigured ==
  ASSUME NEW key, ActiveWith(key) = {}
  PROVE  /\ \A fallback : ActiveMax(key, fallback) = fallback
         /\ \A fallback : ActiveMin(key, fallback) = fallback
         /\ ActiveSum(key) = 0 /\ ActiveProduct(key) = Unit
<1> IsFiniteSet(ActiveWith(key))
  BY FS_EmptySet
<1>1. ASSUME NEW fallback PROVE ActiveMax(key, fallback) = fallback
  <2>1. MaxFolded(key, fallback, {fallback})
    BY MaxFold
  <2> QED BY <2>1 DEF MaxFolded
<1>2. ASSUME NEW fallback PROVE ActiveMin(key, fallback) = fallback
  <2>1. MinFolded(key, fallback, {fallback})
    BY MinFold
  <2> QED BY <2>1 DEF MinFolded
<1>3. ActiveSum(key) = 0
  <2>1. SumFolded(key, {0})
    BY SumFold
  <2> QED BY <2>1 DEF SumFolded
<1>4. ActiveProduct(key) = Unit
  <2>1. ProductFolded(key, {Unit})
    BY ProductFold
  <2> QED BY <2>1 DEF ProductFolded
<1> QED BY <1>1, <1>2, <1>3, <1>4

LEMMA SumResult ==
  ASSUME NEW key, NEW A, 0 \in A, IsFiniteSet(ActiveWith(key)),
         \A n \in A : \A f \in ActiveWith(key) : Plus(n, NumberAt(f, key)) \in A
  PROVE  ActiveSum(key) \in A
<1>1. SumFolded(key, A)
  BY SumFold
<1> QED BY <1>1 DEF SumFolded

LEMMA MaxResult ==
  ASSUME NEW key, NEW fallback \in Int, IsFiniteSet(ActiveWith(key)),
         \A f \in ActiveWith(key) : NumberAt(f, key) \in Double
  PROVE  LET n == ActiveMax(key, fallback)
         IN /\ n \in Int /\ n \in {fallback} \cup Bounds(key) /\ n >= fallback
            /\ \A f \in ActiveWith(key) : ~Less(n, NumberAt(f, key))
<1> DEFINE S == ActiveWith(key)
           V(f) == NumberAt(f, key)
           A == {n \in Int : n \in {fallback} \cup Bounds(key)}
<1>1. \A n \in A : \A f \in S : StdMax(n, V(f)) \in A
  <2> SUFFICES ASSUME NEW n \in A, NEW f \in S PROVE StdMax(n, V(f)) \in A
    OBVIOUS
  <2>1. V(f) \in Int \cup {NaN} /\ V(f) \in Bounds(key)
    BY DEF Double, Bounds
  <2> HIDE DEF V
  <2> QED BY <2>1 DEF StdMax, Less
<1>2. PICK g \in [SUBSET S -> A] :
        /\ ActiveMax(key, fallback) = g[S] /\ g[{}] = fallback
        /\ \A T \in SUBSET S : T # {} => g[T] = StdMax(g[Rest(T)], V(First(T)))
  <2>1. fallback \in A
    OBVIOUS
  <2>2. MaxFolded(key, fallback, A)
    <3> HIDE DEF A
    <3> QED BY <1>1, <2>1, MaxFold
  <2> HIDE DEF A
  <2> QED BY <2>2 DEF MaxFolded
<1> DEFINE P == {T \in SUBSET S : g[T] >= fallback /\ \A f \in T : ~Less(g[T], V(f))}
<1>3. {} \in P
  BY <1>2
<1>4. ASSUME NEW T \in SUBSET S, T # {}, Rest(T) \in P
      PROVE  T \in P
  <2>1. First(T) \in S /\ Rest(T) \in SUBSET S
    BY <1>4, Smaller
  <2>2. g[T] = StdMax(g[Rest(T)], V(First(T))) /\ g[T] \in Int /\ g[Rest(T)] \in Int
    BY <1>2, <1>4, <2>1
  <2>3. g[Rest(T)] >= fallback /\ \A f \in Rest(T) : ~Less(g[Rest(T)], V(f))
    BY <1>4
  <2>4. \A f \in S : V(f) \in Int \cup {NaN}
    BY DEF Double
  <2> HIDE DEF V, S
  <2>5. g[T] >= g[Rest(T)] /\ ~Less(g[T], V(First(T)))
    BY <2>1, <2>2, <2>4 DEF StdMax, Less
  <2>6. ASSUME NEW f \in T PROVE ~Less(g[T], V(f))
    <3>1. CASE f = First(T)
      BY <2>5, <3>1
    <3>2. CASE f \in Rest(T)
      <4>1. ~Less(g[Rest(T)], V(f)) /\ V(f) \in Int \cup {NaN}
        BY <2>3, <2>4, <3>2
      <4> QED BY <2>2, <2>5, <4>1, NumberAssumption DEF Less
    <3> QED BY <3>1, <3>2 DEF Rest
  <2> QED BY <2>2, <2>3, <2>5, <2>6
<1>5. S \in P
  <2> HIDE DEF P
  <2> QED BY <1>3, <1>4, SetInduction
<1>6. g[S] \in A
  BY <1>2
<1> QED BY <1>2, <1>5, <1>6

LEMMA MinResult ==
  ASSUME NEW key, NEW fallback \in Int, IsFiniteSet(ActiveWith(key)),
         \A f \in ActiveWith(key) : NumberAt(f, key) \in Double
  PROVE  LET n == ActiveMin(key, fallback)
         IN n \in Int /\ \A f \in ActiveWith(key) : ~Less(NumberAt(f, key), n)
<1> DEFINE S == ActiveWith(key)
           V(f) == NumberAt(f, key)
<1>1. \A n \in Int : \A f \in S : StdMin(n, V(f)) \in Int
  <2> SUFFICES ASSUME NEW n \in Int, NEW f \in S PROVE StdMin(n, V(f)) \in Int
    OBVIOUS
  <2>1. V(f) \in Int \cup {NaN}
    BY DEF Double
  <2> HIDE DEF V
  <2> QED BY <2>1 DEF StdMin, Less
<1>2. PICK g \in [SUBSET S -> Int] :
        /\ ActiveMin(key, fallback) = g[S] /\ g[{}] = fallback
        /\ \A T \in SUBSET S : T # {} => g[T] = StdMin(g[Rest(T)], V(First(T)))
  <2>1. MinFolded(key, fallback, Int)
    BY <1>1, MinFold
  <2> QED BY <2>1 DEF MinFolded
<1> DEFINE P == {T \in SUBSET S : \A f \in T : ~Less(V(f), g[T])}
<1>3. {} \in P
  BY <1>2
<1>4. ASSUME NEW T \in SUBSET S, T # {}, Rest(T) \in P
      PROVE  T \in P
  <2>1. First(T) \in S /\ Rest(T) \in SUBSET S
    BY <1>4, Smaller
  <2>2. g[T] = StdMin(g[Rest(T)], V(First(T))) /\ g[T] \in Int /\ g[Rest(T)] \in Int
    BY <1>2, <1>4, <2>1
  <2>3. \A f \in Rest(T) : ~Less(V(f), g[Rest(T)])
    BY <1>4
  <2>4. \A f \in S : V(f) \in Int \cup {NaN}
    BY DEF Double
  <2> HIDE DEF V, S
  <2>5. g[T] <= g[Rest(T)] /\ ~Less(V(First(T)), g[T])
    BY <2>1, <2>2, <2>4 DEF StdMin, Less
  <2>6. ASSUME NEW f \in T PROVE ~Less(V(f), g[T])
    <3>1. CASE f = First(T)
      BY <2>5, <3>1
    <3>2. CASE f \in Rest(T)
      <4>1. ~Less(V(f), g[Rest(T)]) /\ V(f) \in Int \cup {NaN}
        BY <2>3, <2>4, <3>2
      <4> QED BY <2>2, <2>5, <4>1, NumberAssumption DEF Less
    <3> QED BY <3>1, <3>2 DEF Rest
  <2> QED BY <2>6
<1>5. S \in P
  <2> HIDE DEF P
  <2> QED BY <1>3, <1>4, SetInduction
<1> QED BY <1>2, <1>5

-----------------------------------------------------------------------------
(* The numbers of valid configs.                                             *)

LEMMA ValueResult ==
  /\ \A text \in DoubleTexts \cup {"+inf"} : Value(text) \in Double
  /\ \A text \in DoubleTexts :
       NeverNormal(Value(text)) => text \in {"inf", "-inf", "1e300"}
  /\ DoubleTexts \ StodTexts = {"1e-310"}
  /\ Inf \in Int /\ -Inf \in Int /\ Unit = 20
<1> DEFINE T == {"0", "0.5", "1", "2", "-1", "nan", "inf", "+inf", "-inf", "1e-310", "1e300", "170",
                 "-170", "180", "-180", "200"}
<1>1. DoubleTexts \cup {"+inf"} = T /\ DoubleTexts = T \ {"+inf"}
      /\ DoubleTexts \ StodTexts = {"1e-310"}
  BY DEF DoubleTexts, IntTexts, StodTexts
<1>2. /\ Value("0") = 0 /\ Value("0.5") = 10 /\ Value("1") = 20 /\ Value("2") = 40
      /\ Value("-1") = -20 /\ Value("nan") = NaN /\ Value("inf") = Inf /\ Value("+inf") = Inf
      /\ Value("-inf") = -Inf /\ Value("1e-310") = 1 /\ Value("1e300") = 30000
      /\ Value("170") = 3400 /\ Value("-170") = -3400 /\ Value("180") = 3600
      /\ Value("-180") = -3600 /\ Value("200") = 4000
  BY DEF Value, Unit, Tiny, Huge
<1>3. Inf \in Int /\ -Inf \in Int /\ Inf > 4000 /\ Inf # 30000
  BY DEF Inf
<1>4. \A text \in T : Value(text) \in Double
  BY <1>2, <1>3 DEF Double
<1>5. \A text \in T \ {"+inf"} :
        NeverNormal(Value(text)) => text \in {"inf", "-inf", "1e300"}
  BY <1>2, <1>3, NumberAssumption DEF NeverNormal, Huge
<1>6. Unit = 20
  BY DEF Unit
<1> QED BY <1>1, <1>3, <1>4, <1>5, <1>6

LEMMA ValidNumber ==
  ASSUME NEW t, NEW c, NEW key \in DOMAIN c, ValidFault(t, c), DoubleField(t, key)
  PROVE  c[key] \in DoubleTexts /\ Value(c[key]) \in Double
<1>1. PICK field \in Schema(t) : field.key = key /\ field.type = "double"
  BY DEF DoubleField
<1>2. ValidValue(field, c[key])
  BY <1>1 DEF ValidFault, MatchesSchema
<1>3. c[key] \in DoubleTexts
  BY <1>1, <1>2 DEF ValidValue
<1> QED BY <1>3, ValueResult

-----------------------------------------------------------------------------
(* The invariant: the configs of a loaded injector are valid, and the latest *)
(* output, unless its callback hangs, is one it makes with these configs.    *)

Loaded == process \in {"running", "terminated", "hung"}

Shape ==
  /\ <<type, blocks>> \in {<<file.type, file.blocks>> : file \in Files}
  /\ type \in InjectorTypes
  /\ DOMAIN config = Faults
  /\ active \subseteq Faults
  /\ process \in {"loading", "rejected", "running", "terminated", "hung"}

Given(f, key, text) ==
  \/ [type |-> type, key |-> key, text |-> text] \in Entries
  \/ \E file \in Files : <<key, text>> \in
                           {<<k, file.config[f][k]>> : k \in DOMAIN file.config[f]}

Sources == \A f \in Faults : \A key \in DOMAIN config[f] : Given(f, key, config[f][key])

Valid == Loaded => \A f \in Faults : ValidFault(type, config[f])

OutputFits ==
  output # None =>
    /\ Loaded /\ output.reading \in Readings /\ output.reading.type = type
    /\ process # "hung" => output.value \in Outputs(output.reading)

IInv == Shape /\ Sources /\ Valid /\ OutputFits /\ StopsOnlyOnExtremeNumbers

LEMMA InitIInv == Init => IInv
<1> SUFFICES ASSUME Init PROVE IInv
  OBVIOUS
<1>1. PICK file \in Files : type = file.type /\ blocks = file.blocks /\ config = file.config
  BY DEF Init
<1>2. Shape
  BY <1>1, InjectorAssumption DEF Init, Shape
<1>3. Sources
  BY <1>1 DEF Sources, Given
<1>4. Valid /\ OutputFits /\ StopsOnlyOnExtremeNumbers
  BY DEF Init, Valid, OutputFits, StopsOnlyOnExtremeNumbers, Loaded
<1> QED BY <1>2, <1>3, <1>4 DEF IInv

\* What Outputs reads.
LEMMA SameOutputs ==
  ASSUME type' = type, config' = config, active' = active
  PROVE  \A r : Outputs(r)' = Outputs(r)
<1>1. \A key, fallback : ActiveMax(key, fallback)' = ActiveMax(key, fallback)
  BY DEF ActiveMax, ActiveFold, ActiveWith, NumberAt, FoldSet, MapThenFoldSet
<1>2. \A key, fallback : ActiveMin(key, fallback)' = ActiveMin(key, fallback)
  BY DEF ActiveMin, ActiveFold, ActiveWith, NumberAt, FoldSet, MapThenFoldSet
<1>3. \A key : ActiveSum(key)' = ActiveSum(key)
  BY DEF ActiveSum, ActiveFold, ActiveWith, NumberAt, FoldSet, MapThenFoldSet
<1>4. \A key : ActiveProduct(key)' = ActiveProduct(key)
  BY DEF ActiveProduct, ActiveFold, ActiveWith, NumberAt, FoldSet, MapThenFoldSet
<1>5. \A r : Matching(r)' = Matching(r)
  BY DEF Matching
<1>6. \A f, key : TfNumber(f, key)' = TfNumber(f, key) /\ NumberAt(f, key)' = NumberAt(f, key)
  BY DEF TfNumber, NumberAt
<1>7. \A r, key : TfSum(r, key)' = TfSum(r, key)
  BY DEF TfSum, TfNumber, NumberAt, Matching, FoldSet, MapThenFoldSet
<1>8. \A r : OdomOutputs(r)' = OdomOutputs(r)
  BY <1>1, <1>3 DEF OdomOutputs, Disturbed, Covariance
<1>9. \A r : JointStateOutputs(r)' = JointStateOutputs(r)
  BY <1>1, <1>3 DEF JointStateOutputs, Disturbed
<1>10. \A r : ImuOutputs(r)' = ImuOutputs(r)
  BY <1>1, <1>3 DEF ImuOutputs, Disturbed
<1>11. \A r : ScanOutputs(r)' = ScanOutputs(r)
  <2>1. SectorFaults' = SectorFaults
    BY DEF SectorFaults
  <2>2. \A angle, f : AngleInSector(angle, f)' = AngleInSector(angle, f)
    BY <1>6 DEF AngleInSector
  <2>3. \A f : Replacement(f)' = Replacement(f)
    BY <1>6 DEF Replacement
  <2>4. \A range : Ranged(range)' = Ranged(range)
    BY <1>1, <1>3 DEF Ranged
  <2>5. \A r : Sectors(r)' = Sectors(r)
    BY <2>1 DEF Sectors
  <2> QED BY <2>2, <2>3, <2>4, <2>5 DEF ScanOutputs
<1>12. \A r : PointCloudOutputs(r)' = PointCloudOutputs(r)
  BY <1>1, <1>2, <1>4 DEF PointCloudOutputs, Moved, DropOut, Blurred, Dusted, Dust, Dimmed,
                         Scaled, DustProbability, DustMin, DustMax, ActiveProductOrDefault,
                         ActiveWith
<1>13. \A r : TfOutputs(r)' = TfOutputs(r)
  BY <1>5, <1>6, <1>7 DEF TfOutputs
<1> QED BY <1>8, <1>9, <1>10, <1>11, <1>12, <1>13 DEF Outputs

LEMMA ConfiguredNumber ==
  ASSUME Shape, Valid, Loaded, NEW key, DoubleField(type, key), NEW f \in Faults,
         key \in DOMAIN config[f]
  PROVE  config[f][key] \in DoubleTexts /\ NumberAt(f, key) \in Double
BY ValidNumber DEF Valid, NumberAt

\* An uncaught exception needs a number that only the load path can parse.
LEMMA StodFields ==
  ASSUME NEW r, type \in SensorTypes
  PROVE  /\ \A key \in StodKeys(r) : DoubleField(type, key)
         /\ type # "tf" => DoubleField(type, "drop_probability")
<1> USE DEF SensorTypes
<1>1. CASE type \in {"odom", "joint_state", "imu"}
  <2>1. StodKeys(r) = {field.key : field \in {g \in Schema(type) : g.type = "double"}}
    BY <1>1 DEF StodKeys
  <2>2. DoubleField(type, "drop_probability")
    BY <1>1, OdomConsistent, JointStateConsistent, ImuConsistent
  <2> QED BY <2>1, <2>2 DEF DoubleField
<1>2. CASE type = "scan"
  <2>1. StodKeys(r) = {"range_bias", "range_noise_stddev"}
    BY <1>2 DEF StodKeys
  <2> QED BY <1>2, <2>1, ScanConsistent
<1>3. CASE type = "point_cloud"
  <2>1. StodKeys(r) \subseteq {"point_dropout_probability", "range_noise_stddev",
                            "dust_return_probability", "intensity_scale", "dust_min_range",
                            "dust_max_range", "dust_intensity_scale"}
    BY <1>3 DEF StodKeys
  <2> QED BY <1>3, <2>1, PointCloudConsistent
<1>4. CASE type = "tf"
  <2>1. StodKeys(r) = {}
    BY <1>4 DEF StodKeys
  <2> QED BY <1>4, <2>1
<1> QED BY <1>1, <1>2, <1>3, <1>4

LEMMA UnreadableResult ==
  ASSUME Shape, Valid, Loaded, type \in SensorTypes, NEW r, DropThrows \/ ApplyThrows(r)
  PROVE  \E f \in active : \E key \in DOMAIN config[f] : config[f][key] = "1e-310"
<1>1. \E key : DoubleField(type, key) /\ Unreadable({key})
  BY StodFields DEF DropThrows, ApplyThrows, Unreadable
<1>2. PICK key : DoubleField(type, key) /\ Unreadable({key})
  BY <1>1
<1>3. PICK f \in active : key \in DOMAIN config[f] /\ config[f][key] \notin StodTexts
  BY <1>2 DEF Unreadable, ActiveWith
<1>4. config[f][key] \in DoubleTexts
  BY <1>2, <1>3, ConfiguredNumber DEF Shape
<1>5. config[f][key] = "1e-310"
  BY <1>3, <1>4, ValueResult
<1> QED BY <1>3, <1>5

LEMMA HangResult ==
  ASSUME Shape, Valid, Loaded, NEW r, ApplyHangs(r)
  PROVE  /\ r.increment # 0
         /\ \E f \in active :
              LET bounds == DOMAIN config[f] \cap {"sector_min_deg", "sector_max_deg"}
              IN /\ bounds # {}
                 /\ \/ NeverNormal(r.angle)
                    \/ \E key \in bounds : config[f][key] \in {"inf", "-inf", "1e300"}
<1>1. PICK f \in Sectors(r) : \/ NeverNormal(r.angle)
                              \/ NeverNormal(NumberAt(f, "sector_min_deg"))
                              \/ NeverNormal(NumberAt(f, "sector_max_deg"))
  BY DEF ApplyHangs
<1>2. r.increment # 0 /\ f \in SectorFaults
  BY <1>1 DEF Sectors
<1>3. /\ f \in active /\ f \in Faults
      /\ {"sector_min_deg", "sector_max_deg"} \subseteq DOMAIN config[f]
  BY <1>2 DEF SectorFaults, Shape
<1>4. ASSUME NEW key \in {"sector_min_deg", "sector_max_deg"}, NeverNormal(NumberAt(f, key))
      PROVE  config[f][key] \in {"inf", "-inf", "1e300"}
  <2>1. DoubleField(type, key)
    BY ScanConsistent DEF ApplyHangs
  <2>2. config[f][key] \in DoubleTexts
    BY <1>3, <2>1, ConfiguredNumber
  <2> QED BY <1>4, <2>2, ValueResult DEF NumberAt
<1> QED BY <1>1, <1>2, <1>3, <1>4

\* An accepted update leaves a valid fault valid: a schema has one field per key.
LEMMA UpdateValid ==
  ASSUME NEW t \in InjectorTypes, NEW c, NEW d, NEW key, NEW text,
         ValidFault(t, c), ValidUpdate(t, key, text),
         d = [k \in DOMAIN c \cup {key} |-> IF k = key THEN text ELSE c[k]]
  PROVE  ValidFault(t, d)
<1>1. PICK field \in Schema(t) : field.key = key /\ ValidValue(field, text)
  BY DEF ValidUpdate
<1>2. OnePerKey(Schema(t))
  BY AllConsistent DEF Consistent
<1>3. ASSUME NEW g \in Schema(t), g.key \in DOMAIN d
      PROVE  ValidValue(g, d[g.key])
  <2>1. CASE g.key = key
    BY <1>1, <1>2, <2>1 DEF OnePerKey
  <2>2. CASE g.key # key
    BY <1>3, <2>2 DEF ValidFault, MatchesSchema
  <2> QED BY <2>1, <2>2
<1>4. HasRequired(t, d)
  BY DEF ValidFault, HasRequired
<1> QED BY <1>3, <1>4 DEF ValidFault, MatchesSchema

LEMMA UnchangedStep == IInv /\ UNCHANGED vars => IInv'
<1> SUFFICES ASSUME IInv, UNCHANGED vars PROVE IInv'
  OBVIOUS
<1> USE DEF IInv, vars
<1>1. Shape' /\ Sources' /\ Valid' /\ StopsOnlyOnExtremeNumbers'
  BY DEF Shape, Sources, Given, Valid, Loaded, StopsOnlyOnExtremeNumbers
<1>2. OutputFits'
  BY SameOutputs DEF OutputFits, Loaded
<1> QED BY <1>1, <1>2

LEMMA LoadStep == IInv /\ Load => IInv'
<1> SUFFICES ASSUME IInv, Load PROVE IInv'
  OBVIOUS
<1> USE DEF IInv
<1>1. Shape'
  BY DEF Shape, Load
<1>2. Sources'
  BY DEF Sources, Given, Load
<1>3. Valid'
  BY DEF Valid, Loaded, Load
<1>4. output = None
  BY DEF OutputFits, Loaded, Load
<1>5. OutputFits'
  BY <1>4 DEF OutputFits, Load
<1>6. StopsOnlyOnExtremeNumbers'
  BY DEF StopsOnlyOnExtremeNumbers, Load, Endpoint, OwnEndpoint
<1> QED BY <1>1, <1>2, <1>3, <1>5, <1>6

LEMMA SetStep ==
  ASSUME NEW f \in Faults, NEW e \in Entries, e.type = type, IInv,
         SetFaultConfig(f, e.key, e.text)
  PROVE  IInv'
<1> USE DEF IInv
<1> DEFINE c == [k \in DOMAIN config[f] \cup {e.key} |-> IF k = e.key THEN e.text ELSE config[f][k]]
<1>1. CASE ValidUpdate(type, e.key, e.text)
  <2>1. /\ config' = [config EXCEPT ![f] = c] /\ output' = None /\ process = "running"
        /\ UNCHANGED <<type, blocks, active, process>>
    BY <1>1 DEF SetFaultConfig
  <2>2. /\ DOMAIN config' = Faults /\ config'[f] = c
        /\ \A g \in Faults : g # f => config'[g] = config[g]
    BY <2>1 DEF Shape
  <2>3. Shape'
    BY <2>1, <2>2 DEF Shape
  <2>4. Sources'
    <3>1. ASSUME NEW g \in Faults, NEW key \in DOMAIN config'[g]
          PROVE  Given(g, key, config'[g][key])
      <4>1. CASE g = f /\ key = e.key
        <5>1. e = [type |-> type, key |-> key, text |-> config'[g][key]]
          BY <2>2, <4>1, InjectorAssumption
        <5> QED BY <5>1 DEF Given
      <4>2. CASE ~(g = f /\ key = e.key)
        <5>1. key \in DOMAIN config[g] /\ config'[g][key] = config[g][key]
          BY <2>2, <4>2
        <5> QED BY <5>1 DEF Sources
      <4> QED BY <4>1, <4>2
    <3> QED BY <2>1, <3>1 DEF Sources, Given
  <2>5. Valid'
    <3>1. ValidFault(type, c)
      <4>1. ValidFault(type, config[f]) /\ type \in InjectorTypes
        BY <2>1 DEF Valid, Loaded, Shape
      <4> QED BY <1>1, <4>1, UpdateValid
    <3> HIDE DEF c
    <3> QED BY <2>1, <2>2, <3>1 DEF Valid, Loaded
  <2>6. OutputFits' /\ StopsOnlyOnExtremeNumbers'
    BY <2>1 DEF OutputFits, StopsOnlyOnExtremeNumbers
  <2> QED BY <2>3, <2>4, <2>5, <2>6
<1>2. CASE ~ValidUpdate(type, e.key, e.text)
  <2>1. UNCHANGED vars
    BY <1>2 DEF SetFaultConfig, vars
  <2> QED BY <2>1, UnchangedStep
<1> QED BY <1>1, <1>2

LEMMA SwitchStep ==
  ASSUME NEW f \in Faults, IInv, ActivateFault(f) \/ DeactivateFault(f)
  PROVE  IInv'
<1> USE DEF IInv, ActivateFault, DeactivateFault
<1>1. Shape'
  BY DEF Shape
<1>2. Sources' /\ Valid'
  BY DEF Sources, Given, Valid, Loaded
<1>3. OutputFits' /\ StopsOnlyOnExtremeNumbers'
  BY DEF OutputFits, StopsOnlyOnExtremeNumbers
<1> QED BY <1>1, <1>2, <1>3

LEMMA ThrowStep ==
  ASSUME NEW r \in Readings, IInv, CallbackThrows(r)
  PROVE  IInv'
<1> USE DEF IInv
<1>1. /\ process = "running" /\ process' = "terminated" /\ r.type = type
      /\ UNCHANGED <<type, blocks, config, active, output>>
  BY DEF CallbackThrows
<1>2. Shape' /\ Sources' /\ Valid'
  BY <1>1 DEF Shape, Sources, Given, Valid, Loaded
<1>3. OutputFits'
  BY <1>1, SameOutputs DEF OutputFits, Loaded
<1>4. StopsOnlyOnExtremeNumbers'
  <2>1. type \in SensorTypes
    BY <1>1, InjectorAssumption DEF SomeReading, SensorTypes
  <2>2. (DropThrows \/ ApplyThrows(r)) /\ Loaded
    BY <1>1 DEF CallbackThrows, Loaded
  <2>3. \E f \in active : \E key \in DOMAIN config[f] : config[f][key] = "1e-310"
    BY <2>1, <2>2, UnreadableResult
  <2> QED BY <1>1, <2>3 DEF StopsOnlyOnExtremeNumbers
<1> QED BY <1>2, <1>3, <1>4

LEMMA HangStep ==
  ASSUME NEW r \in Readings, IInv, CallbackHangs(r)
  PROVE  IInv'
<1> USE DEF IInv
<1>1. /\ process = "running" /\ process' = "hung" /\ r.type = type
      /\ output' = [reading |-> r, value |-> None]
      /\ UNCHANGED <<type, blocks, config, active>>
  BY DEF CallbackHangs
<1>2. Shape' /\ Sources' /\ Valid'
  BY <1>1 DEF Shape, Sources, Given, Valid, Loaded
<1>3. output'.reading = r
  BY <1>1
<1>4. OutputFits'
  BY <1>1, <1>3 DEF OutputFits, Loaded
<1>5. StopsOnlyOnExtremeNumbers'
  <2>1. ApplyHangs(r) /\ Loaded
    BY <1>1 DEF CallbackHangs, Loaded
  <2>2. /\ r.increment # 0
        /\ \E f \in active :
             LET bounds == DOMAIN config[f] \cap {"sector_min_deg", "sector_max_deg"}
             IN /\ bounds # {}
                /\ \/ NeverNormal(r.angle)
                   \/ \E key \in bounds : config[f][key] \in {"inf", "-inf", "1e300"}
    BY <2>1, HangResult
  <2> QED BY <1>1, <1>3, <2>2 DEF StopsOnlyOnExtremeNumbers
<1> QED BY <1>2, <1>4, <1>5

LEMMA DropStep == IInv /\ DropMessage => IInv'
<1> SUFFICES ASSUME IInv, DropMessage PROVE IInv'
  OBVIOUS
<1> USE DEF IInv, DropMessage
<1>1. Shape' /\ Sources' /\ Valid'
  BY DEF Shape, Sources, Given, Valid, Loaded
<1>2. OutputFits' /\ StopsOnlyOnExtremeNumbers'
  BY DEF OutputFits, StopsOnlyOnExtremeNumbers
<1> QED BY <1>1, <1>2

LEMMA PublishStep ==
  ASSUME NEW r \in Readings, IInv, PublishMessage(r)
  PROVE  IInv'
<1> USE DEF IInv
<1>1. /\ process = "running" /\ r.type = type
      /\ UNCHANGED <<type, blocks, config, active, process>>
  BY DEF PublishMessage
<1>2. Shape' /\ Sources' /\ Valid' /\ StopsOnlyOnExtremeNumbers'
  BY <1>1 DEF Shape, Sources, Given, Valid, Loaded, StopsOnlyOnExtremeNumbers
<1>3. PICK value \in Outputs(r) : output' = [reading |-> r, value |-> value]
  BY DEF PublishMessage
<1>4. output'.reading = r /\ output'.value \in Outputs(r)
  BY <1>3
<1>5. Outputs(r)' = Outputs(r)
  BY <1>1, SameOutputs
<1>6. OutputFits'
  BY <1>1, <1>4, <1>5, SameOutputs DEF OutputFits, Loaded
<1> QED BY <1>2, <1>6

LEMMA NextIInv == IInv /\ [Next]_vars => IInv'
<1> SUFFICES ASSUME IInv, [Next]_vars PROVE IInv'
  OBVIOUS
<1>1. CASE Load
  BY <1>1, LoadStep
<1>2. CASE \E f \in Faults, e \in Entries : e.type = type /\ SetFaultConfig(f, e.key, e.text)
  BY <1>2, SetStep
<1>3. CASE \E f \in Faults : ActivateFault(f) \/ DeactivateFault(f)
  BY <1>3, SwitchStep
<1>4. CASE \E r \in Readings : CallbackThrows(r) \/ CallbackHangs(r)
  BY <1>4, ThrowStep, HangStep
<1>5. CASE DropMessage
  BY <1>5, DropStep
<1>6. CASE \E r \in Readings : PublishMessage(r)
  BY <1>6, PublishStep
<1>7. CASE UNCHANGED vars
  BY <1>7, UnchangedStep
<1> QED BY <1>1, <1>2, <1>3, <1>4, <1>5, <1>6, <1>7 DEF Next

LEMMA SpecIInv == Spec => []IInv
BY InitIInv, NextIInv, PTL DEF Spec

\* Every variable keeps its type: the injector's type and endpoint blocks are
\* those of one scenario file, each value of a config map comes from the file
\* (load) or from an accepted set_fault_config, and a node that never ran has
\* published nothing.
THEOREM TypeCorrect == Spec => []TypeOK
<1>1. IInv => TypeOK
  BY DEF IInv, Shape, Sources, Given, OutputFits, Loaded, TypeOK
<1> QED BY <1>1, SpecIInv, PTL

\* A node that runs with valid configs only dies of a number std::stod rejects
\* (uncaught in its callback) or of an endpoint block of the other kind, and
\* its callback only hangs in normalize_degrees, on an active sector and a scan
\* with an angle_increment, when a bound or the beam is infinite or huge.
THEOREM OnlyExtremeNumbersStop == Spec => []StopsOnlyOnExtremeNumbers
<1>1. IInv => StopsOnlyOnExtremeNumbers
  BY DEF IInv
<1> QED BY <1>1, SpecIInv, PTL

\* Whatever set_fault_config accepts leaves a config that scenario_validator
\* would load and the central tables of fault_config_schema would allow: the
\* three sets of rules agree for each of the eight types.
THEOREM UpdatesAlwaysLoadable == Spec => []UpdatesStayLoadable
<1>1. IInv => UpdatesStayLoadable
  <2> SUFFICES ASSUME IInv, process = "running", NEW f \in Faults
               PROVE  /\ ValidFault(type, config[f])
                      /\ \A key \in DOMAIN config[f] :
                           IF key \in SchemaKeys(type)
                           THEN ValidByKey(type, key, config[f][key])
                           ELSE key \notin AllowedKeys(type)
    BY DEF UpdatesStayLoadable
  <2>1. ValidFault(type, config[f]) /\ type \in InjectorTypes
    BY DEF IInv, Valid, Loaded, Shape
  <2>2. SchemaKeys(type) = AllowedKeys(type) /\ \A field \in Schema(type) : Agrees(type, field)
    BY <2>1, AllConsistent DEF Consistent, SchemaKeys, KeysIn
  <2>3. ASSUME NEW key \in DOMAIN config[f], key \in SchemaKeys(type)
        PROVE  ValidByKey(type, key, config[f][key])
    <3>1. PICK field \in Schema(type) : field.key = key
      BY <2>3 DEF SchemaKeys
    <3>2. ValidValue(field, config[f][key])
      BY <2>1, <3>1 DEF ValidFault, MatchesSchema
    <3> QED BY <2>2, <3>1, <3>2 DEF Agrees
  <2> QED BY <2>1, <2>2, <2>3
<1> QED BY <1>1, SpecIInv, PTL

-----------------------------------------------------------------------------
(* Values no active fault has a key for.                                     *)

LEMMA PlusResult ==
  /\ \A n \in Double : Plus(n, 0) = n
  /\ \A m, n \in Double : Plus(m, n) \in Double
  /\ \A m \in Int, n \in Int : Finite(n) => Plus(m, n) \in Int
  /\ \A m \in Int, n \in Int : Finite(m) => Plus(m, n) \in Int
<1> USE NumberAssumption DEF Plus, Finite, Double
<1>0. Inf \in Int /\ -Inf \in Int /\ Inf # -Inf /\ Inf # 0 /\ -Inf # 0
  BY DEF Inf
<1>1. \A n \in Double : Plus(n, 0) = n
  BY <1>0
<1>2. \A m, n \in Double : Plus(m, n) \in Double
  BY <1>0
<1>3. \A m \in Int, n \in Int : Finite(n) => Plus(m, n) \in Int
  BY <1>0
<1>4. \A m \in Int, n \in Int : Finite(m) => Plus(m, n) \in Int
  BY <1>0
<1> QED BY <1>1, <1>2, <1>3, <1>4

LEMMA NoNoise == Noise(0) = {0} /\ Finite(0)
BY NumberAssumption DEF Noise, Finite, Inf

LEMMA DisturbedUntouched ==
  ASSUME NEW bias, NEW noise, ActiveWith(bias) = {}, ActiveWith(noise) = {},
         NEW value \in Double
  PROVE  Disturbed(bias, noise, value) = {value}
<1>1. ActiveSum(bias) = 0 /\ ActiveMax(noise, 0) = 0
  BY NothingConfigured
<1>2. Plus(Plus(value, 0), 0) = value
  BY PlusResult
<1> QED BY <1>1, <1>2, NoNoise DEF Disturbed

LEMMA OdomUntouched ==
  ASSUME NEW r \in SomeReading, r.type = "odom", \A key \in KeysOf(r) : ActiveWith(key) = {}
  PROVE  OdomOutputs(r) = {r.value}
<1>1. r.field \in {"x", "yaw", "pose_covariance"} /\ r.value \in Double
      /\ (r.field = "yaw" => r.value \notin {Inf, -Inf})
  BY DEF SomeReading
<1>2. CASE r.field = "x"
  <2>1. ActiveWith("x_bias") = {} /\ ActiveWith("x_noise_stddev") = {}
    BY <1>2 DEF KeysOf
  <2> QED BY <1>1, <1>2, <2>1, DisturbedUntouched DEF OdomOutputs
<1>3. CASE r.field = "yaw"
  <2>1. ActiveWith("yaw_bias_deg") = {} /\ ActiveWith("yaw_noise_stddev_deg") = {}
    BY <1>3 DEF KeysOf
  <2>2. Disturbed("yaw_bias_deg", "yaw_noise_stddev_deg", r.value) = {r.value}
    BY <1>1, <2>1, DisturbedUntouched
  <2>3. Angle(r.value) = r.value
    BY <1>1, <1>3 DEF Angle, Finite
  <2> QED BY <1>3, <2>2, <2>3 DEF OdomOutputs
<1>4. CASE r.field = "pose_covariance"
  <2>1. ActiveWith("pose_covariance_scale") = {} /\ ActiveWith("pose_covariance_floor") = {}
    BY <1>4 DEF KeysOf
  <2>2. ActiveMax("pose_covariance_scale", Unit) = Unit /\ ActiveMax("pose_covariance_floor", 0) = 0
    BY <2>1, NothingConfigured
  <2> QED BY <1>4, <2>2 DEF OdomOutputs, Covariance
<1> QED BY <1>1, <1>2, <1>3, <1>4

LEMMA JointImuUntouched ==
  ASSUME NEW r \in SomeReading, \A key \in KeysOf(r) : ActiveWith(key) = {}
  PROVE  /\ r.type = "joint_state" => JointStateOutputs(r) = {r.value}
         /\ r.type = "imu" => ImuOutputs(r) = {r.value}
<1>1. CASE r.type = "joint_state"
  <2>1. r.value \in Double
    BY <1>1 DEF SomeReading
  <2>2. ActiveWith("velocity_bias") = {} /\ ActiveWith("velocity_noise_stddev") = {}
    BY <1>1 DEF KeysOf
  <2> QED BY <1>1, <2>1, <2>2, DisturbedUntouched DEF JointStateOutputs
<1>2. CASE r.type = "imu"
  <2>1. r.field \in {"angular_velocity_z", "linear_acceleration_x"} /\ r.value \in Double
    BY <1>2 DEF SomeReading
  <2>2. CASE r.field = "angular_velocity_z"
    <3>1. ActiveWith("angular_velocity_z_bias") = {}
          /\ ActiveWith("angular_velocity_z_noise_stddev") = {}
      BY <1>2, <2>2 DEF KeysOf
    <3> QED BY <1>2, <2>1, <2>2, <3>1, DisturbedUntouched DEF ImuOutputs
  <2>3. CASE r.field = "linear_acceleration_x"
    <3>1. ActiveWith("linear_acceleration_x_bias") = {}
          /\ ActiveWith("linear_acceleration_x_noise_stddev") = {}
      BY <1>2, <2>3 DEF KeysOf
    <3> QED BY <1>2, <2>1, <2>3, <3>1, DisturbedUntouched DEF ImuOutputs
  <2> QED BY <1>2, <2>1, <2>2, <2>3
<1> QED BY <1>1, <1>2

LEMMA ScanUntouched ==
  ASSUME NEW r \in SomeReading, r.type = "scan", \A key \in KeysOf(r) : ActiveWith(key) = {}
  PROVE  ScanOutputs(r) = {r.value}
<1>1. /\ ActiveWith("range_bias") = {} /\ ActiveWith("range_noise_stddev") = {}
      /\ ActiveWith("sector_min_deg") = {}
  BY DEF KeysOf
<1>2. Sectors(r) = {}
  BY <1>1 DEF Sectors, SectorFaults, ActiveWith
<1>3. ActiveSum("range_bias") = 0 /\ ActiveMax("range_noise_stddev", 0) = 0
  BY <1>1, NothingConfigured
<1> QED BY <1>2, <1>3 DEF ScanOutputs, Ranged

Points == [range : Nat \cup {NaN}, intensity : Double \cup {None}]

\* Without noise a point keeps its range.
LEMMA BlurredUntouched ==
  ASSUME NEW p \in Points,
         ActiveMax("range_noise_stddev", 0) = 0
  PROVE  Blurred(p) = {p}
<1> USE DEF Points
<1>1. CASE Movable(p)
  <2>1. p.range \in Nat
    BY <1>1 DEF Movable, Finite
  <2>2. Plus(p.range, 0) = p.range
    BY <2>1, PlusResult DEF Double
  <2>3. StdMax(0, p.range) = p.range
    BY <2>1, NumberAssumption DEF StdMax, Less
  <2>4. [p EXCEPT !.range = p.range] = p
    OBVIOUS
  <2> QED BY <1>1, <2>2, <2>3, <2>4, NoNoise DEF Blurred
<1>2. CASE ~Movable(p)
  BY <1>2 DEF Blurred
<1> QED BY <1>1, <1>2

LEMMA TimesUnit == \A n \in Double : Times(n, Unit) = n
<1> SUFFICES ASSUME NEW n \in Double PROVE Times(n, 20) = n
  BY DEF Unit
<1>1. Finite(20) /\ 20 # NaN /\ 20 # Inf /\ 20 # -Inf /\ Inf \in Int /\ 0 < Inf
  BY NumberAssumption DEF Finite, Inf
<1>2. CASE n = NaN
  BY <1>2 DEF Times
<1>3. CASE n \in {Inf, -Inf}
  <2>1. ~Finite(n) /\ n # NaN /\ n # 0
    BY <1>1, <1>3, NumberAssumption DEF Finite
  <2>2. NaN \notin {n, 20} /\ 0 \notin {n, 20}
    BY <1>1, <2>1
  <2>3. Times(n, 20) = IF n < 0 <=> 20 < 0 THEN Inf ELSE -Inf
    BY <2>1, <2>2 DEF Times
  <2> QED BY <1>1, <1>3, <2>3
<1>4. CASE n \in Int /\ Finite(n)
  <2>1. NaN \notin {n, 20} /\ {Inf, -Inf} \cap {n, 20} = {}
    BY <1>1, <1>4 DEF Finite
  <2>2. Times(n, 20) = (n * 20) \div 20
    BY <1>1, <1>4, <2>1 DEF Times, Unit
  <2> QED BY <1>4, <2>2
<1> QED BY <1>2, <1>3, <1>4 DEF Double, Finite

LEMMA PointCloudUntouched ==
  ASSUME NEW r \in SomeReading, r.type = "point_cloud",
         \A key \in KeysOf(r) : ActiveWith(key) = {}
  PROVE  PointCloudOutputs(r) = {r.value}
<1> DEFINE p == r.value
<1>1. /\ ActiveWith("point_dropout_probability") = {} /\ ActiveWith("range_noise_stddev") = {}
      /\ ActiveWith("dust_return_probability") = {} /\ ActiveWith("intensity_scale") = {}
  BY DEF KeysOf
<1>2. /\ ActiveMax("point_dropout_probability", 0) = 0 /\ ActiveMax("range_noise_stddev", 0) = 0
      /\ DustProbability = 0 /\ ActiveProduct("intensity_scale") = Unit
  BY <1>1, NothingConfigured DEF DustProbability
<1>3. p \in Points
  BY DEF SomeReading, Points
<1> HIDE DEF p
<1>4. DropOut(p) = {p}
  BY <1>2 DEF DropOut, Unit
<1>5. Blurred(p) = {p}
  BY <1>2, BlurredUntouched, <1>3
<1>6. Dusted(p) = {p}
  BY <1>2 DEF Dusted
<1>7. Dimmed(p) = p
  <2>1. Scaled(p.intensity, Unit) = p.intensity
    <3>1. p.intensity \in Double \cup {None}
      BY <1>3 DEF Points
    <3> QED BY <3>1, TimesUnit DEF Scaled
  <2>2. [p EXCEPT !.intensity = p.intensity] = p
    BY <1>3 DEF Points
  <2> QED BY <1>2, <2>1, <2>2 DEF Dimmed
<1>8. Moved(r) = {p}
  BY <1>4, <1>5, <1>6 DEF Moved, p
<1> QED BY <1>7, <1>8 DEF PointCloudOutputs, p

LEMMA ActiveFinite ==
  ASSUME Shape
  PROVE  IsFiniteSet(active) /\ (\A key : IsFiniteSet(ActiveWith(key)))
         /\ (\A r : IsFiniteSet(Matching(r)))
<1>1. IsFiniteSet(active)
  BY FS_Subset, InjectorAssumption DEF Shape
<1>2. \A key : ActiveWith(key) \subseteq active
  BY DEF ActiveWith
<1>3. \A r : Matching(r) \subseteq active
  BY DEF Matching
<1> QED BY <1>1, <1>2, <1>3, FS_Subset

LEMMA TfUntouched ==
  ASSUME Shape, NEW r \in SomeReading, r.type = "tf",
         \A f \in Concerned(r) : DOMAIN config[f] \cap KeysOf(r) = {}
  PROVE  \A value \in TfOutputs(r) : value = r.value
<1> DEFINE key == IF r.field = "x" THEN "x_bias" ELSE "yaw_bias_deg"
<1>1. r.field \in {"x", "yaw"} /\ r.value \in Double
      /\ (r.field = "yaw" => r.value \notin {Inf, -Inf})
  BY DEF SomeReading
<1>2. ASSUME NEW f \in Matching(r)
      PROVE  TfNumber(f, "drop_probability") = 0 /\ TfNumber(f, key) = 0
  <2>1. f \in Concerned(r)
    BY <1>2 DEF Matching, Concerned
  <2>2. "drop_probability" \notin DOMAIN config[f] /\ key \notin DOMAIN config[f]
    BY <2>1 DEF KeysOf
  <2> HIDE DEF key
  <2> QED BY <2>2 DEF TfNumber
<1>3. TfSum(r, key) = r.value
  <2>1. \A n \in {r.value} : \A f \in Matching(r) : Plus(n, TfNumber(f, key)) \in {r.value}
    <3> HIDE DEF key
    <3> QED BY <1>1, <1>2, PlusResult
  <2>2. TfFolded(r, key, {r.value})
    <3> HIDE DEF key
    <3> QED BY <2>1, ActiveFinite, TfFold
  <2> HIDE DEF key
  <2> QED BY <2>2 DEF TfFolded
<1>4. ~(\E f \in Matching(r) : Less(0, TfNumber(f, "drop_probability")))
  BY <1>2 DEF Less
<1>5. CASE r.field = "x"
  BY <1>3, <1>4, <1>5 DEF TfOutputs
<1>6. CASE r.field = "yaw"
  <2>1. Angle(r.value) = r.value
    BY <1>1, <1>6 DEF Angle, Finite
  <2> QED BY <1>3, <1>4, <1>6, <2>1 DEF TfOutputs
<1> QED BY <1>1, <1>5, <1>6

\* A value no active fault has a key for is published as it came: the readers'
\* fallback values disturb nothing, and neither do inactive faults, keys of
\* other axes or the faults of other frames.
THEOREM UnconfiguredAlwaysUntouched == Spec => []UnconfiguredIsUntouched
<1>1. IInv => UnconfiguredIsUntouched
  <2> SUFFICES ASSUME IInv, Published, NEW r, r = output.reading,
                      \A f \in Concerned(r) : DOMAIN config[f] \cap KeysOf(r) = {}
               PROVE  output.value = r.value
    BY DEF UnconfiguredIsUntouched
  <2>1. /\ Shape /\ r \in SomeReading /\ r.type = type /\ output.value \in Outputs(r)
    BY InjectorAssumption DEF IInv, OutputFits, Published
  <2>2. r.type \in {"odom", "scan", "joint_state", "imu", "point_cloud", "tf"}
    BY <2>1 DEF SomeReading
  <2>3. CASE type = "tf"
    BY <2>1, <2>3, TfUntouched DEF Outputs
  <2>4. CASE type # "tf"
    <3>1. \A key \in KeysOf(r) : ActiveWith(key) = {}
      BY <2>1, <2>4 DEF Concerned, ActiveWith
    <3>2. CASE type = "odom"
      BY <2>1, <3>1, <3>2, OdomUntouched DEF Outputs
    <3>3. CASE type = "scan"
      BY <2>1, <3>1, <3>3, ScanUntouched DEF Outputs
    <3>4. CASE type = "joint_state"
      BY <2>1, <3>1, <3>4, JointImuUntouched DEF Outputs
    <3>5. CASE type = "imu"
      BY <2>1, <3>1, <3>5, JointImuUntouched DEF Outputs
    <3>6. CASE type = "point_cloud"
      BY <2>1, <3>1, <3>6, PointCloudUntouched DEF Outputs
    <3> QED BY <2>1, <2>2, <2>4, <3>2, <3>3, <3>4, <3>5, <3>6
  <2> QED BY <2>3, <2>4
<1> QED BY <1>1, SpecIInv, PTL

-----------------------------------------------------------------------------
(* Sectors: normalize_degrees brings every angle into the half turns either  *)
(* side of zero, and the comparison of two normalized bounds is an arc.      *)

LEMMA NormalizeResult ==
  ASSUME NEW n \in Int
  PROVE  /\ NormalizeDegrees(n) \in Int
         /\ -3600 <= NormalizeDegrees(n) /\ NormalizeDegrees(n) <= 3600
         /\ \E k \in Int : NormalizeDegrees(n) = n + k * 7200
<1> USE NumberAssumption DEF Less, HalfTurn, Turn, Unit
<1>0. n # NaN /\ 3600 # NaN /\ -3600 # NaN
  OBVIOUS
<1>1. CASE n > 3600
  <2> DEFINE m == 3600 - n
  <2>1. NormalizeDegrees(n) = 3600 - (m % 7200)
    BY <1>0, <1>1 DEF NormalizeDegrees
  <2>2. m \in Int /\ 0 <= m % 7200 /\ m % 7200 < 7200 /\ m = 7200 * (m \div 7200) + (m % 7200)
        /\ m \div 7200 \in Int
    OBVIOUS
  <2>3. NormalizeDegrees(n) = n + (m \div 7200) * 7200
    BY <2>1, <2>2
  <2>4. NormalizeDegrees(n) \in Int /\ -3600 <= NormalizeDegrees(n)
        /\ NormalizeDegrees(n) <= 3600
    BY <2>1, <2>2
  <2> QED BY <2>2, <2>3, <2>4
<1>2. CASE n < -3600
  <2> DEFINE m == n + 3600
  <2>1. NormalizeDegrees(n) = -3600 + (m % 7200)
    BY <1>0, <1>2 DEF NormalizeDegrees
  <2>2. m \in Int /\ 0 <= m % 7200 /\ m % 7200 < 7200 /\ m = 7200 * (m \div 7200) + (m % 7200)
        /\ -(m \div 7200) \in Int
    OBVIOUS
  <2>3. NormalizeDegrees(n) = n + (-(m \div 7200)) * 7200
    BY <2>1, <2>2
  <2>4. NormalizeDegrees(n) \in Int /\ -3600 <= NormalizeDegrees(n)
        /\ NormalizeDegrees(n) <= 3600
    BY <2>1, <2>2
  <2> QED BY <2>2, <2>3, <2>4
<1>3. CASE -3600 <= n /\ n <= 3600
  <2>1. NormalizeDegrees(n) = n
    BY <1>0, <1>3 DEF NormalizeDegrees
  <2>2. n = n + 0 * 7200
    OBVIOUS
  <2> QED BY <1>3, <2>1, <2>2
<1> QED BY <1>1, <1>2, <1>3

LEMMA TurnResult ==
  /\ \A x, k \in Int : (x + k * 7200) % 7200 = x % 7200
  /\ \A x \in Int : 0 <= x /\ x < 7200 => x % 7200 = x
  /\ \A x \in Int : -7200 <= x /\ x < 0 => x % 7200 = x + 7200
  /\ 7200 % 7200 = 0
<1>0. \A z \in Int : \E q \in Int, r \in Int :
        0 <= r /\ r < 7200 /\ z = 7200 * q + r /\ z % 7200 = r
  <2> SUFFICES ASSUME NEW z \in Int
               PROVE  \E q \in Int, r \in Int :
                        0 <= r /\ r < 7200 /\ z = 7200 * q + r /\ z % 7200 = r
    OBVIOUS
  <2>1. /\ z \div 7200 \in Int /\ z % 7200 \in Int /\ 0 <= z % 7200 /\ z % 7200 < 7200
        /\ z = 7200 * (z \div 7200) + (z % 7200)
    OBVIOUS
  <2> QED BY <2>1
<1>1. ASSUME NEW x \in Int, NEW k \in Int
      PROVE  (x + k * 7200) % 7200 = x % 7200
  <2>1. ASSUME NEW y \in Int, y = x + 7200 * k
        PROVE  y % 7200 = x % 7200
    <3>1. PICK q \in Int, a \in Int :
            0 <= a /\ a < 7200 /\ x = 7200 * q + a /\ x % 7200 = a
      BY <1>0
    <3>2. PICK s \in Int, b \in Int :
            0 <= b /\ b < 7200 /\ y = 7200 * s + b /\ y % 7200 = b
      BY <1>0
    <3>3. 7200 * (q + k - s) = b - a /\ q + k - s \in Int
      BY <2>1, <3>1, <3>2
    <3>4. -7200 < b - a /\ b - a < 7200
      BY <3>1, <3>2
    <3>5. q + k - s = 0 /\ b - a = 0
      BY <3>3, <3>4
    <3> QED BY <3>1, <3>2, <3>5
  <2>2. x + k * 7200 \in Int /\ x + k * 7200 = x + 7200 * k
    OBVIOUS
  <2> QED BY <2>1, <2>2
<1>2. \A x \in Int : 0 <= x /\ x < 7200 => x % 7200 = x
  OBVIOUS
<1>3. ASSUME NEW x \in Int, -7200 <= x, x < 0
      PROVE  x % 7200 = x + 7200
  <2>1. (x + 1 * 7200) % 7200 = x % 7200
    BY <1>1
  <2>2. x + 1 * 7200 = x + 7200 /\ x + 7200 \in Int /\ 0 <= x + 7200 /\ x + 7200 < 7200
    BY <1>3
  <2>3. (x + 7200) % 7200 = x + 7200
    BY <1>2, <2>2
  <2> QED BY <2>1, <2>2, <2>3
<1>4. 7200 % 7200 = 0
  OBVIOUS
<1> QED BY <1>1, <1>2, <1>3, <1>4

LEMMA ArcResult ==
  ASSUME NEW a \in Int, NEW low \in Int, NEW high \in Int,
         a % Turn # HalfTurn, (high - low) % Turn # 0,
         NEW A, A = NormalizeDegrees(a), NEW L, L = NormalizeDegrees(low),
         NEW M, M = NormalizeDegrees(high)
  PROVE  (IF M >= L THEN A >= L /\ M >= A ELSE A >= L \/ M >= A)
           <=> (a - low) % Turn <= (high - low) % Turn
<1>0. HalfTurn = 3600 /\ Turn = 7200
  BY DEF HalfTurn, Turn, Unit
<1>1. /\ A \in Int /\ -3600 <= A /\ A <= 3600
      /\ L \in Int /\ -3600 <= L /\ L <= 3600
      /\ M \in Int /\ -3600 <= M /\ M <= 3600
  BY NormalizeResult
<1>2. PICK i \in Int : A = a + i * 7200
  BY NormalizeResult
<1>3. PICK j \in Int : L = low + j * 7200
  BY NormalizeResult
<1>4. PICK k \in Int : M = high + k * 7200
  BY NormalizeResult
<1>5. (a - low) % 7200 = (A - L) % 7200
  <2>1. A - L = (a - low) + (i - j) * 7200 /\ a - low \in Int /\ i - j \in Int
    BY <1>2, <1>3
  <2> QED BY <2>1, TurnResult
<1>6. (high - low) % 7200 = (M - L) % 7200
  <2>1. M - L = (high - low) + (k - j) * 7200 /\ high - low \in Int /\ k - j \in Int
    BY <1>3, <1>4
  <2> QED BY <2>1, TurnResult
<1>7. A # 3600 /\ A # -3600
  <2>1. A % 7200 = a % 7200
    BY <1>2, TurnResult
  <2>2. A = 3600 => A % 7200 = 3600
    BY <1>1, TurnResult
  <2>3. ASSUME A = -3600 PROVE A % 7200 = 3600
    <3>1. A \in Int /\ -7200 <= A /\ A < 0 /\ A + 7200 = 3600
      BY <2>3
    <3>2. A % 7200 = A + 7200
      <4> HIDE <2>3
      <4> QED BY <3>1, TurnResult
    <3> QED BY <3>1, <3>2
  <2> QED BY <1>0, <2>1, <2>2, <2>3
<1>8. M - L # 7200 /\ M - L # -7200 /\ M # L
  <2>1. 0 % 7200 = 0 /\ (-7200) % 7200 = 0
    BY TurnResult
  <2> QED BY <1>0, <1>1, <1>6, <2>1, TurnResult
<1>9. (A - L) % 7200 = IF A >= L THEN A - L ELSE A - L + 7200
  <2>1. A - L \in Int /\ -7200 < A - L /\ A - L < 7200
    BY <1>1, <1>7
  <2> QED BY <1>1, <2>1, TurnResult
<1>10. (M - L) % 7200 = IF M >= L THEN M - L ELSE M - L + 7200
  <2>1. M - L \in Int /\ -7200 < M - L /\ M - L < 7200
    BY <1>1, <1>8
  <2> QED BY <1>1, <2>1, TurnResult
<1> QED BY <1>0, <1>1, <1>5, <1>6, <1>7, <1>8, <1>9, <1>10

LEMMA SectorResult ==
  ASSUME NEW angle \in Int, NEW f, angle % Turn # HalfTurn,
         NumberAt(f, "sector_min_deg") \in Int, NumberAt(f, "sector_max_deg") \in Int,
         (NumberAt(f, "sector_max_deg") - NumberAt(f, "sector_min_deg")) % Turn # 0
  PROVE  AngleInSector(angle, f)
           <=> (angle - NumberAt(f, "sector_min_deg")) % Turn
                 <= (NumberAt(f, "sector_max_deg") - NumberAt(f, "sector_min_deg")) % Turn
<1> DEFINE low == NumberAt(f, "sector_min_deg")
           high == NumberAt(f, "sector_max_deg")
           A == NormalizeDegrees(angle)
           L == NormalizeDegrees(low)
           M == NormalizeDegrees(high)
<1>1. A \in Int /\ L \in Int /\ M \in Int
  BY NormalizeResult
<1>2. (IF M >= L THEN A >= L /\ M >= A ELSE A >= L \/ M >= A)
        <=> (angle - low) % Turn <= (high - low) % Turn
  <2> HIDE DEF low, high
  <2> QED BY ArcResult DEF low, high
<1>3. AngleInSector(angle, f) <=> IF M >= L THEN A >= L /\ M >= A ELSE A >= L \/ M >= A
  <2> DEFINE AtLeast(m, n) == (m = n /\ n # NaN) \/ Less(n, m)
  <2>1. AngleInSector(angle, f) <=> IF AtLeast(M, L) THEN AtLeast(A, L) /\ AtLeast(M, A)
                                    ELSE AtLeast(A, L) \/ AtLeast(M, A)
    BY DEF AngleInSector
  <2>2. \A m, n \in Int : AtLeast(m, n) <=> m >= n
    BY NumberAssumption DEF Less
  <2> HIDE DEF AtLeast, A, L, M
  <2> QED BY <1>1, <2>1, <2>2
<1> HIDE DEF A, L, M, low, high
<1> QED BY <1>2, <1>3 DEF low, high

\* A sector is the arc from its minimum counterclockwise to its maximum: a beam
\* off the rear seam, of a scan that has directions, gets the replacement of a
\* sector that holds it, and is otherwise only disturbed, however the bounds and
\* the angle are written.  Where angle_increment is 0 the early return of
\* apply_sector_dropout leaves every beam to the disturbances.
THEOREM SectorAlwaysArc == Spec => []SectorIsArc
<1> DEFINE Low(f) == NumberAt(f, "sector_min_deg")
           High(f) == NumberAt(f, "sector_max_deg")
           InArc(r, f) == (r.angle - Low(f)) % Turn <= (High(f) - Low(f)) % Turn
<1>1. ASSUME IInv, Published, type = "scan", NEW r, r = output.reading
      PROVE  r \in SomeReading /\ r.type = "scan" /\ output.value \in ScanOutputs(r)
  BY <1>1, InjectorAssumption DEF IInv, OutputFits, Published, Outputs
<1>2. ASSUME IInv, Published, type = "scan", NEW r, r = output.reading, r.increment = 0
      PROVE  output.value \in Ranged(r.value)
  <2>1. output.value \in ScanOutputs(r)
    BY <1>1, <1>2
  <2>2. Sectors(r) = {}
    BY <1>2 DEF Sectors
  <2> QED BY <2>1, <2>2 DEF ScanOutputs
<1>3. ASSUME IInv, Published, type = "scan", NEW r, r = output.reading, r.increment # 0,
             Finite(r.angle), r.angle % Turn # HalfTurn,
             \A f \in SectorFaults : /\ Finite(Low(f)) /\ Finite(High(f))
                                     /\ (High(f) - Low(f)) % Turn # 0
      PROVE  IF \E f \in SectorFaults : InArc(r, f)
             THEN \E f \in SectorFaults : InArc(r, f) /\ output.value = Replacement(f)
             ELSE output.value \in Ranged(r.value)
  <2>1. r \in SomeReading /\ r.type = "scan" /\ output.value \in ScanOutputs(r)
    BY <1>1, <1>3
  <2>2. r.angle \in Int
    BY <1>3, <2>1 DEF SomeReading, Double, Finite
  <2>3. ASSUME NEW f \in SectorFaults
        PROVE  AngleInSector(r.angle, f) <=> InArc(r, f)
    <3>1. Low(f) \in Double /\ High(f) \in Double
      BY ValueResult DEF SectorFaults, NumberAt, StodTexts
    <3>2. Low(f) \in Int /\ High(f) \in Int
      BY <1>3, <3>1 DEF Double, Finite
    <3> QED BY <1>3, <2>2, <3>2, SectorResult
  <2>4. Sectors(r) = SectorFaults
    BY <1>3 DEF Sectors
  <2> DEFINE hits == {f \in SectorFaults : AngleInSector(r.angle, f)}
  <2>5. output.value \in IF hits = {} THEN Ranged(r.value) ELSE {Replacement(f) : f \in hits}
    BY <2>1, <2>4 DEF ScanOutputs
  <2> HIDE DEF InArc
  <2> QED BY <2>3, <2>5
<1>4. IInv => SectorIsArc
  BY <1>2, <1>3 DEF SectorIsArc
<1> QED BY <1>4, SpecIInv, PTL

-----------------------------------------------------------------------------
(* The limits configured outputs keep to.                                    *)

LEMMA NumbersOf ==
  ASSUME Shape, Valid, Loaded, NEW key, DoubleField(type, key)
  PROVE  \A f \in ActiveWith(key) : NumberAt(f, key) \in Double
BY ConfiguredNumber DEF ActiveWith, Shape

InRange(n) == n \in Int /\ RangeMin <= n /\ n <= RangeMax

LEMMA ShiftedResult ==
  ASSUME NEW range \in Double, NEW shift \in Double
  PROVE  /\ Shifted(range, shift) \in Double
         /\ \/ Shifted(range, shift) = range
            \/ InRange(Shifted(range, shift))
            \/ Shifted(range, shift) = NaN /\ shift \notin Int
<1>1. CASE ~Finite(range)
  BY <1>1 DEF Shifted
<1>2. CASE Finite(range)
  <2> DEFINE n == Plus(range, shift)
  <2>1. range \in Int
    BY <1>2 DEF Finite, Double
  <2>2. n \in Double /\ (shift \in Int => n \in Int)
    BY <1>2, <2>1, PlusResult DEF Double
  <2>3. Shifted(range, shift) = StdClamp(n, RangeMin, RangeMax)
    BY <1>2 DEF Shifted
  <2> HIDE DEF n
  <2>4. RangeMin \in Int /\ RangeMax \in Int /\ RangeMin <= RangeMax
    BY InjectorAssumption
  <2>5. n \in Int => InRange(StdClamp(n, RangeMin, RangeMax))
    BY <2>4, NumberAssumption DEF StdClamp, StdMin, Less, InRange
  <2>6. n = NaN => StdClamp(n, RangeMin, RangeMax) = NaN
    BY <2>4, NumberAssumption DEF StdClamp, StdMin, Less
  <2> QED BY <2>2, <2>3, <2>5, <2>6 DEF Double, InRange
<1> QED BY <1>1, <1>2

LEMMA NoiseResult ==
  ASSUME NEW stddev \in Int
  PROVE  Noise(stddev) \subseteq Double /\ (NaN \in Noise(stddev) => stddev = Inf)
<1>1. Inf \in Int /\ -Inf \in Int
  BY DEF Inf
<1>2. CASE stddev = 0
  BY <1>2, NumberAssumption DEF Noise, Double
<1>3. CASE stddev # 0 /\ stddev = Inf
  BY <1>1, <1>3 DEF Noise, Double
<1>4. CASE stddev # 0 /\ stddev # Inf
  <2>1. Noise(stddev) = {-stddev, 0, stddev}
    BY <1>4 DEF Noise
  <2>2. -stddev \in Int
    OBVIOUS
  <2> QED BY <2>1, <2>2, NumberAssumption DEF Double
<1> QED BY <1>2, <1>3, <1>4

LEMMA RangedBounds ==
  ASSUME Shape, Valid, Loaded, type = "scan", NEW range \in Double, NEW n \in Ranged(range)
  PROVE  \/ n = range
         \/ InRange(n)
         \/ n = NaN /\ Bounds("range_bias") \cap {NaN, Inf, -Inf} # {}
         \/ n = NaN /\ Bounds("range_noise_stddev") \cap {Inf} # {}
<1> DEFINE bias == ActiveSum("range_bias")
           stddev == ActiveMax("range_noise_stddev", 0)
           biased == IF bias = 0 THEN range ELSE Shifted(range, bias)
           BadBias == Bounds("range_bias") \cap {NaN, Inf, -Inf} # {}
           BadNoise == Bounds("range_noise_stddev") \cap {Inf} # {}
<1>1. /\ \A f \in ActiveWith("range_bias") : NumberAt(f, "range_bias") \in Double
      /\ \A f \in ActiveWith("range_noise_stddev") : NumberAt(f, "range_noise_stddev") \in Double
      /\ IsFiniteSet(ActiveWith("range_bias")) /\ IsFiniteSet(ActiveWith("range_noise_stddev"))
  BY NumbersOf, ScanConsistent, ActiveFinite
<1>2. bias \in Double
  <2>1. 0 \in Double
    BY DEF Double
  <2>2. \A m \in Double : \A f \in ActiveWith("range_bias") :
          Plus(m, NumberAt(f, "range_bias")) \in Double
    BY <1>1, PlusResult
  <2> QED BY <1>1, <2>1, <2>2, SumResult
<1>3. ~BadBias => bias \in Int
  <2> SUFFICES ASSUME ~BadBias PROVE bias \in Int
    OBVIOUS
  <2>1. ASSUME NEW f \in ActiveWith("range_bias")
        PROVE  NumberAt(f, "range_bias") \in Int /\ Finite(NumberAt(f, "range_bias"))
    BY <1>1 DEF Bounds, Double, Finite
  <2>2. \A m \in Int : \A f \in ActiveWith("range_bias") :
          Plus(m, NumberAt(f, "range_bias")) \in Int
    BY <2>1, PlusResult
  <2> QED BY <1>1, <2>2, SumResult
<1>4. stddev \in Int /\ stddev \in {0} \cup Bounds("range_noise_stddev")
  BY <1>1, MaxResult
<1>5. biased \in Double /\ (biased = range \/ InRange(biased) \/ (biased = NaN /\ BadBias))
  <2> HIDE DEF bias, BadBias
  <2> QED BY <1>2, <1>3, ShiftedResult
<1>6. Ranged(range) = IF stddev = 0 THEN {biased} ELSE {Shifted(biased, m) : m \in Noise(stddev)}
  BY DEF Ranged
<1>7. CASE stddev = 0
  <2> HIDE DEF biased, BadBias, stddev
  <2>1. n = biased
    BY <1>6, <1>7
  <2> QED BY <1>5, <2>1 DEF BadBias
<1>8. CASE stddev # 0
  <2>1. PICK m \in Noise(stddev) : n = Shifted(biased, m)
    <3> HIDE DEF biased, stddev
    <3> QED BY <1>6, <1>8
  <2>2. m \in Double /\ (m = NaN => stddev = Inf)
    <3> HIDE DEF stddev
    <3> QED BY <1>4, NoiseResult
  <2>3. m = NaN => BadNoise
    <3>1. Inf # 0
      BY DEF Inf
    <3> HIDE DEF stddev
    <3> QED BY <1>4, <2>2, <3>1
  <2>4. n = biased \/ InRange(n) \/ (n = NaN /\ BadNoise)
    <3>1. m \notin Int => m = NaN
      BY <2>2 DEF Double
    <3> HIDE DEF biased, BadNoise
    <3> QED BY <1>5, <2>1, <2>2, <2>3, <3>1, ShiftedResult
  <2> HIDE DEF biased
  <2> QED BY <1>5, <2>4
<1> QED BY <1>7, <1>8

LEMMA TimesResult ==
  ASSUME NEW m \in Double, NEW n \in Int, n > 0
  PROVE  \/ Times(m, n) \in Int
         \/ Times(m, n) = NaN /\ m = NaN
         \/ Times(m, n) = NaN /\ m = 0 /\ n = Inf
<1>1. Inf \in Int /\ -Inf \in Int /\ Inf > 0 /\ n # NaN /\ n # 0 /\ n # -Inf /\ 0 # NaN
  BY NumberAssumption DEF Inf
<1>2. CASE m = NaN
  BY <1>2 DEF Times
<1>3. CASE m = 0 /\ n = Inf
  BY <1>3 DEF Times
<1>4. CASE m # NaN /\ Finite(m) /\ Finite(n)
  <2>1. m \in Int /\ NaN \notin {m, n} /\ {Inf, -Inf} \cap {m, n} = {}
    BY <1>1, <1>4 DEF Double, Finite
  <2>2. Times(m, n) = (m * n) \div 20
    BY <1>4, <2>1 DEF Times, Unit
  <2>3. m * n \in Int
    BY <2>1
  <2> QED BY <2>2, <2>3
<1>5. CASE m # NaN /\ ~(Finite(m) /\ Finite(n)) /\ ~(m = 0 /\ n = Inf)
  <2>1. NaN \notin {m, n} /\ ~(0 \in {m, n} /\ {Inf, -Inf} \cap {m, n} # {})
    BY <1>1, <1>5
  <2>2. Times(m, n) \in {Inf, -Inf}
    BY <1>5, <2>1 DEF Times
  <2> QED BY <1>1, <2>2
<1> QED BY <1>2, <1>3, <1>4, <1>5

LEMMA CovarianceBounds ==
  ASSUME Shape, Valid, Loaded, type = "odom", NEW value \in Double, NEW n,
         n = Covariance("pose_covariance_scale", "pose_covariance_floor", value)
  PROVE  \/ n # NaN /\ \A floor \in Bounds("pose_covariance_floor") :
                          Less(0, floor) => ~Less(n, floor)
         \/ n = NaN /\ value = NaN
         \/ n = NaN /\ value = 0 /\ Inf \in Bounds("pose_covariance_scale")
<1> DEFINE scale == ActiveMax("pose_covariance_scale", Unit)
           low == ActiveMax("pose_covariance_floor", 0)
           F == Bounds("pose_covariance_floor")
<1>1. /\ \A f \in ActiveWith("pose_covariance_scale") :
           NumberAt(f, "pose_covariance_scale") \in Double
      /\ \A f \in ActiveWith("pose_covariance_floor") :
           NumberAt(f, "pose_covariance_floor") \in Double
      /\ IsFiniteSet(ActiveWith("pose_covariance_scale"))
      /\ IsFiniteSet(ActiveWith("pose_covariance_floor"))
  BY NumbersOf, OdomConsistent, ActiveFinite
<1>2. /\ scale \in Int /\ scale \in {Unit} \cup Bounds("pose_covariance_scale")
      /\ scale >= Unit
  BY <1>1, MaxResult DEF Unit
<1>3. /\ low \in Int /\ low >= 0
      /\ \A f \in ActiveWith("pose_covariance_floor") :
           ~Less(low, NumberAt(f, "pose_covariance_floor"))
  BY <1>1, MaxResult
<1>4. \A floor \in F : floor \in Double /\ ~Less(low, floor)
  BY <1>1, <1>3 DEF Bounds
<1>5. n = IF scale = Unit /\ low = 0 THEN value ELSE StdMax(Times(value, scale), low)
  BY DEF Covariance
<1>6. Inf # Unit
  BY DEF Inf, Unit
<1> HIDE DEF scale, low, F
<1>7. CASE scale = Unit /\ low = 0
  <2>1. n = value /\ \A floor \in F : ~Less(0, floor)
    BY <1>4, <1>5, <1>7
  <2> QED BY <2>1 DEF F
<1>8. CASE ~(scale = Unit /\ low = 0)
  <2>1. n = StdMax(Times(value, scale), low)
    BY <1>5, <1>8
  <2>2. scale > 0
    BY <1>2 DEF Unit
  <2>3. CASE Times(value, scale) \in Int
    <3>1. n \in Int /\ n >= low
      BY <1>3, <2>1, <2>3, NumberAssumption DEF StdMax, Less
    <3>2. n # NaN /\ \A floor \in F : ~Less(n, floor)
      BY <1>3, <1>4, <3>1, NumberAssumption DEF Less, Double
    <3> QED BY <3>2 DEF F
  <2>4. CASE Times(value, scale) = NaN
    <3>1. n = NaN
      BY <2>1, <2>4 DEF StdMax, Less
    <3>2. value = NaN \/ (value = 0 /\ scale = Inf)
      BY <1>2, <2>2, <2>4, TimesResult, NumberAssumption
    <3> QED BY <1>2, <1>6, <3>1, <3>2
  <2> QED BY <1>2, <2>2, <2>3, <2>4, TimesResult
<1> QED BY <1>7, <1>8

LEMMA DustLimits ==
  ASSUME Shape, Valid, Loaded, type = "point_cloud"
  PROVE  /\ DustMin \in Int /\ DustMax \in Int
         /\ \A low \in Bounds("dust_min_range") : low \in Double /\ ~Less(DustMin, low)
         /\ \A high \in Bounds("dust_max_range") : high \in Double /\ ~Less(high, DustMax)
<1>1. /\ \A f \in ActiveWith("dust_min_range") : NumberAt(f, "dust_min_range") \in Double
      /\ \A f \in ActiveWith("dust_max_range") : NumberAt(f, "dust_max_range") \in Double
      /\ IsFiniteSet(ActiveWith("dust_min_range")) /\ IsFiniteSet(ActiveWith("dust_max_range"))
  BY NumbersOf, PointCloudConsistent, ActiveFinite
<1>2. /\ DustMin \in Int
      /\ \A f \in ActiveWith("dust_min_range") : ~Less(DustMin, NumberAt(f, "dust_min_range"))
  BY <1>1, MaxResult DEF DustMin
<1>3. /\ DustMax \in Int
      /\ \A f \in ActiveWith("dust_max_range") : ~Less(NumberAt(f, "dust_max_range"), DustMax)
  BY <1>1, MinResult DEF DustMax
<1> QED BY <1>1, <1>2, <1>3 DEF Bounds

LEMMA DustBounds ==
  ASSUME Shape, Valid, Loaded, type = "point_cloud", NEW r,
         r.value \in Points,
         NEW n \in PointCloudOutputs(r),
         ActiveWith("range_noise_stddev") = {}, n.range \notin {NaN, r.value.range}
  PROVE  /\ \A low \in Bounds("dust_min_range") : ~Less(n.range, low)
         /\ \A high \in Bounds("dust_max_range") : ~Less(high, n.range)
<1>1. PICK s \in Moved(r) : n = Dimmed(s)
  BY DEF PointCloudOutputs
<1>2. CASE ~r.xyz
  <2>1. s = r.value
    BY <1>1, <1>2 DEF Moved
  <2>2. n.range = r.value.range
    BY <1>1, <2>1 DEF Dimmed, Points
  <2> QED BY <2>2
<1>3. CASE r.xyz
  <2>1. PICK q \in DropOut(r.value) : \E m \in Blurred(q) : s \in Dusted(m)
    BY <1>1, <1>3 DEF Moved
  <2>2. PICK m \in Blurred(q) : s \in Dusted(m)
    BY <2>1
  <2>3. q \in Points /\ q.range \in {NaN, r.value.range}
    BY <2>1 DEF DropOut, Points
  <2>4. m = q
    BY <2>2, <2>3, BlurredUntouched, NothingConfigured
  <2>5. DustMin <= DustMax /\ n.range \in {DustMin, DustMax}
    <3>1. CASE s = m
      <4>1. n.range = s.range
        BY <1>1, <2>3, <2>4, <3>1 DEF Dimmed, Points
      <4> QED BY <2>3, <2>4, <3>1, <4>1
    <3>2. CASE s # m
      <4>1. PICK d \in {DustMin, DustMax} : s = Dust(m, d) /\ ~(DustMax < DustMin)
        BY <2>2, <3>2 DEF Dusted
      <4>2. n.range = d
        BY <1>1, <4>1 DEF Dust, Dimmed
      <4> QED BY <4>1, <4>2, DustLimits
    <3> QED BY <3>1, <3>2
  <2> QED BY <2>5, DustLimits, NumberAssumption DEF Less, Double, Bounds
<1> QED BY <1>2, <1>3

\* Outputs keep the limits of their faults, except for the ways out that the
\* statement names: a NaN or infinite bias or noise of a scan, and, for an entry
\* of a covariance, NaN itself or an infinite scale of a zero.
THEOREM OutputsAlwaysKeepBounds == Spec => []OutputsKeepBounds
<1>1. IInv => OutputsKeepBounds
  <2> SUFFICES ASSUME IInv, Published, NEW r, r = output.reading, NEW n, n = output.value
               PROVE  /\ r.type = "scan" /\ n # r.value /\ SectorFaults = {} =>
                           \/ n # NaN /\ RangeMin <= n /\ n <= RangeMax
                           \/ n = NaN /\ Bounds("range_bias") \cap {NaN, Inf, -Inf} # {}
                           \/ n = NaN /\ Bounds("range_noise_stddev") \cap {Inf} # {}
                      /\ r.type = "odom" /\ r.field = "pose_covariance" =>
                           \/ n # NaN /\ \A floor \in Bounds("pose_covariance_floor") :
                                           Less(0, floor) => ~Less(n, floor)
                           \/ n = NaN /\ r.value = NaN
                           \/ n = NaN /\ r.value = 0 /\ Inf \in Bounds("pose_covariance_scale")
                      /\ /\ r.type = "point_cloud" /\ n.range \notin {NaN, r.value.range}
                         /\ ActiveWith("range_noise_stddev") = {}
                         => /\ \A low \in Bounds("dust_min_range") : ~Less(n.range, low)
                            /\ \A high \in Bounds("dust_max_range") : ~Less(high, n.range)
    BY DEF OutputsKeepBounds
  <2>1. /\ Shape /\ Valid /\ Loaded /\ r \in SomeReading /\ r.type = type /\ n \in Outputs(r)
    BY InjectorAssumption DEF IInv, OutputFits, Published
  <2>2. ASSUME r.type = "scan", n # r.value, SectorFaults = {}
        PROVE  \/ n # NaN /\ RangeMin <= n /\ n <= RangeMax
               \/ n = NaN /\ Bounds("range_bias") \cap {NaN, Inf, -Inf} # {}
               \/ n = NaN /\ Bounds("range_noise_stddev") \cap {Inf} # {}
    <3>1. n \in Ranged(r.value)
      BY <2>1, <2>2 DEF Outputs, ScanOutputs, Sectors
    <3>2. r.value \in Double
      BY <2>1, <2>2 DEF SomeReading
    <3> QED BY <2>1, <2>2, <3>1, <3>2, RangedBounds, NumberAssumption DEF InRange
  <2>3. ASSUME r.type = "odom", r.field = "pose_covariance"
        PROVE  \/ n # NaN /\ \A floor \in Bounds("pose_covariance_floor") :
                                Less(0, floor) => ~Less(n, floor)
               \/ n = NaN /\ r.value = NaN
               \/ n = NaN /\ r.value = 0 /\ Inf \in Bounds("pose_covariance_scale")
    <3>1. n = Covariance("pose_covariance_scale", "pose_covariance_floor", r.value)
      BY <2>1, <2>3 DEF Outputs, OdomOutputs
    <3>2. r.value \in Double
      BY <2>1, <2>3 DEF SomeReading
    <3> QED BY <2>1, <2>3, <3>1, <3>2, CovarianceBounds
  <2>4. ASSUME r.type = "point_cloud", n.range \notin {NaN, r.value.range},
               ActiveWith("range_noise_stddev") = {}
        PROVE  /\ \A low \in Bounds("dust_min_range") : ~Less(n.range, low)
               /\ \A high \in Bounds("dust_max_range") : ~Less(high, n.range)
    <3>1. n \in PointCloudOutputs(r)
      BY <2>1, <2>4 DEF Outputs
    <3>2. r.value \in Points
      BY <2>1, <2>4 DEF SomeReading, Points
    <3> QED BY <2>1, <2>4, <3>1, <3>2, DustBounds
  <2> QED BY <2>2, <2>3, <2>4
<1> QED BY <1>1, SpecIInv, PTL
=============================================================================
