------------------------ MODULE ConfiguredInjector ------------------------
(***************************************************************************)
(* What the config of a fault does: one injector of fault_injector_node,   *)
(* from the scenario file that names it, through set_fault_config and      *)
(* fault switches, to the message its callback publishes.  Numbers are     *)
(* those of FaultConfigSchema, NaN and infinities included; a message is   *)
(* one reading (a field and its value).  Delays and held messages are in   *)
(* DelayedForwarding, commands and services in TwistInjector and           *)
(* TriggerServiceInjector; the types of these two are only loaded and      *)
(* configured here.                                                        *)
(***************************************************************************)
EXTENDS FaultConfigSchema, FiniteSets, FiniteSetsExt

CONSTANTS
  Faults,      \* the faults of the injector
  Files,       \* scenario files: records of type, blocks and config
  Entries,     \* what set_fault_config is asked: records of type, key and text
  Readings,    \* what the messages carry
  RangeMin, RangeMax,  \* limits of the laser scans
  MaxEntries   \* bound: config entries of all faults, frames not counted

Double == Int \cup {NaN}

\* A reading of each type.  An angle out of a quaternion is not infinite and a
\* distance is not negative.  A beam has its angle, angle_min and what the beams
\* before it add, and the angle_increment of its scan; a point says whether its
\* cloud has float32 x, y and z, and has None where there is no such intensity.
SomeReading ==
  [type : {"odom"}, field : {"x", "pose_covariance"}, value : Double]
  \cup [type : {"odom"}, field : {"yaw"}, value : Double \ {Inf, -Inf}]
  \cup [type : {"joint_state"}, field : {"velocity"}, value : Double]
  \cup [type : {"imu"}, field : {"angular_velocity_z", "linear_acceleration_x"},
        value : Double]
  \cup [type : {"scan"}, field : {"range"}, angle : Double, increment : Int, value : Double]
  \cup [type : {"point_cloud"}, field : {"point"}, xyz : BOOLEAN,
        value : [range : Nat \cup {NaN}, intensity : Double \cup {None}]]
  \cup [type : {"tf"}, field : {"x"}, parent : STRING, child : STRING, value : Double]
  \cup [type : {"tf"}, field : {"yaw"}, parent : STRING, child : STRING,
        value : Double \ {Inf, -Inf}]

ASSUME InjectorAssumption ==
  /\ IsFiniteSet(Faults)
  /\ \A file \in Files : file.type \in InjectorTypes /\ DOMAIN file.config = Faults
  /\ Entries \subseteq [type : InjectorTypes, key : STRING, text : STRING]
  /\ Readings \subseteq SomeReading
  /\ {RangeMin, RangeMax} \subseteq Int /\ RangeMin <= RangeMax
  /\ MaxEntries \in Nat

VARIABLES
  type,     \* the injector's type,
  blocks,   \* the endpoint blocks its file has, of "topic" and "trigger_service"
  config,   \* each fault's config map: key -> text
  active,   \* the active faults
  process,  \* "loading", "rejected", "running", "terminated" or "hung"
  output    \* the latest reading since the faults changed and its published value, or
            \* the reading a callback hangs on

vars == <<type, blocks, config, active, process, output>>

SensorTypes == {"odom", "scan", "joint_state", "imu", "point_cloud", "tf"}

-----------------------------------------------------------------------------
(* Doubles.                                                                *)

Finite(n) == n \notin {NaN, Inf, -Inf}

Plus(a, b) ==
  IF NaN \in {a, b} \/ {a, b} = {Inf, -Inf} THEN NaN
  ELSE IF Finite(a) /\ Finite(b) THEN a + b
  ELSE IF Finite(a) THEN b ELSE a

Times(a, b) ==
  IF NaN \in {a, b} \/ (0 \in {a, b} /\ {Inf, -Inf} \cap {a, b} # {}) THEN NaN
  ELSE IF Finite(a) /\ Finite(b) THEN (a * b) \div Unit
  ELSE IF a < 0 <=> b < 0 THEN Inf ELSE -Inf

StdMax(a, b) == IF Less(a, b) THEN b ELSE a
StdMin(a, b) == IF Less(b, a) THEN b ELSE a
StdClamp(n, low, high) == IF Less(n, low) THEN low ELSE StdMin(n, high)

\* Samples of a normal distribution around 0: its centre and either side.
Noise(stddev) ==
  CASE stddev = 0 -> {0}
    [] stddev = Inf -> {Inf, -Inf, NaN}
    [] OTHER -> {-stddev, 0, stddev}

-----------------------------------------------------------------------------
(* Reading the configs of the active faults.                               *)

\* (mutant: inactive faults are read too)
ConfiguredWith(key) == {f \in Faults : key \in DOMAIN config[f]}

ActiveWith(key) == {f \in active : key \in DOMAIN config[f]}
NumberAt(f, key) == Value(config[f][key])

ActiveFold(op(_, _), key, base) ==
  FoldSet(LAMBDA f, acc : op(acc, NumberAt(f, key)), base, ActiveWith(key))

ActiveMax(key, fallback) == ActiveFold(StdMax, key, fallback)
ActiveMin(key, fallback) == ActiveFold(StdMin, key, fallback)
ActiveSum(key) == ActiveFold(Plus, key, 0)
ActiveProduct(key) == ActiveFold(Times, key, Unit)
ActiveProductOrDefault(key, default) ==
  IF ActiveWith(key) = {} THEN default ELSE ActiveProduct(key)

-----------------------------------------------------------------------------
(* What each injector makes of a value.                                    *)

Disturbed(biasKey, noiseKey, value) ==
  {Plus(Plus(value, ActiveSum(biasKey)), n) : n \in Noise(ActiveMax(noiseKey, 0))}

\* A quaternion of an infinite angle is not a number.
Angle(n) == IF Finite(n) THEN n ELSE NaN

Covariance(scaleKey, floorKey, value) ==
  LET scale == ActiveMax(scaleKey, Unit)
      floor == ActiveMax(floorKey, 0)
  IN IF scale = Unit /\ floor = 0 THEN value ELSE StdMax(Times(value, scale), floor)

OdomOutputs(r) ==
  CASE r.field = "x" -> Disturbed("x_bias", "x_noise_stddev", r.value)
    [] r.field = "yaw" ->
         {Angle(n) : n \in Disturbed("yaw_bias_deg", "yaw_noise_stddev_deg", r.value)}
    [] r.field = "pose_covariance" ->
         {Covariance("pose_covariance_scale", "pose_covariance_floor", r.value)}

JointStateOutputs(r) == Disturbed("velocity_bias", "velocity_noise_stddev", r.value)

ImuOutputs(r) ==
  CASE r.field = "angular_velocity_z" ->
         Disturbed("angular_velocity_z_bias", "angular_velocity_z_noise_stddev", r.value)
    [] r.field = "linear_acceleration_x" ->
         Disturbed("linear_acceleration_x_bias", "linear_acceleration_x_noise_stddev",
                   r.value)

\* Scans: ranges that are not finite are left alone, the others stay in range.
Shifted(range, shift) ==
  IF Finite(range) THEN StdClamp(Plus(range, shift), RangeMin, RangeMax) ELSE range

Ranged(range) ==
  LET bias == ActiveSum("range_bias")
      stddev == ActiveMax("range_noise_stddev", 0)
      biased == IF bias = 0 THEN range ELSE Shifted(range, bias)
  IN IF stddev = 0 THEN {biased} ELSE {Shifted(biased, n) : n \in Noise(stddev)}

Turn == 360 * Unit
HalfTurn == 180 * Unit

\* (mutant: angles and bounds as they are written)
AsWritten(n) == n

NormalizeDegrees(n) ==
  IF Less(HalfTurn, n) THEN HalfTurn - ((HalfTurn - n) % Turn)
  ELSE IF Less(n, -HalfTurn) THEN -HalfTurn + ((n + HalfTurn) % Turn)
  ELSE n

\* Taking 360 away from these does not bring the loops to an end.
NeverNormal(n) == n \in {Inf, -Inf, Huge}

\* Faults with both bounds and readable numbers; others are skipped.
SectorFaults ==
  {f \in active :
     /\ {"sector_min_deg", "sector_max_deg"} \subseteq DOMAIN config[f]
     /\ {config[f]["sector_min_deg"], config[f]["sector_max_deg"]} \subseteq StodTexts
     /\ "sector_value" \in DOMAIN config[f] => config[f]["sector_value"] \in StodTexts}

AngleInSector(angle, f) ==
  LET a == NormalizeDegrees(angle)
      min == NormalizeDegrees(NumberAt(f, "sector_min_deg"))
      max == NormalizeDegrees(NumberAt(f, "sector_max_deg"))
      AtLeast(m, n) == (m = n /\ n # NaN) \/ Less(n, m)
  IN IF AtLeast(max, min) THEN AtLeast(a, min) /\ AtLeast(max, a)
     ELSE AtLeast(a, min) \/ AtLeast(max, a)

Replacement(f) ==
  IF "sector_value" \in DOMAIN config[f] THEN NumberAt(f, "sector_value") ELSE Inf

\* A scan whose angle_increment is 0 is left as it is.
Sectors(r) == IF r.increment = 0 THEN {} ELSE SectorFaults

\* active_ is an unordered map: any of the sectors around a beam may come last.
ScanOutputs(r) ==
  LET hits == {f \in Sectors(r) : AngleInSector(r.angle, f)}
  IN IF hits = {} THEN Ranged(r.value) ELSE {Replacement(f) : f \in hits}

\* Point clouds: a point has a range and an intensity.
DropOut(p) ==
  LET probability == ActiveMax("point_dropout_probability", 0)
  IN (IF probability < Unit THEN {p} ELSE {})
     \cup (IF probability > 0 THEN {[p EXCEPT !.range = NaN]} ELSE {})

Movable(p) == Finite(p.range) /\ p.range # 0

Blurred(p) ==
  IF Movable(p)
  THEN {[p EXCEPT !.range = StdMax(0, Plus(p.range, n))] :
          n \in Noise(ActiveMax("range_noise_stddev", 0))}
  ELSE {p}

DustProbability == ActiveMax("dust_return_probability", 0)
DustMin == ActiveMax("dust_min_range", 4)   \* 0.2 m
\* (mutant: the widest limit of the active faults)
WidestDustMax == ActiveMax("dust_max_range", 40)

DustMax == ActiveMin("dust_max_range", 40)   \* 2.0 m

Scaled(intensity, scale) == IF intensity = None THEN None ELSE Times(intensity, scale)

Dust(p, d) ==
  [range |-> d,
   intensity |-> Scaled(p.intensity, ActiveProductOrDefault("dust_intensity_scale", 4))]

Dusted(p) ==
  IF DustProbability = 0 \/ DustMax < DustMin \/ ~Movable(p) THEN {p}
  ELSE (IF DustProbability < Unit THEN {p} ELSE {}) \cup {Dust(p, d) : d \in {DustMin, DustMax}}

Dimmed(p) == [p EXCEPT !.intensity = Scaled(p.intensity, ActiveProduct("intensity_scale"))]

\* Without float32 x, y and z only the intensity can change.
Moved(r) ==
  IF r.xyz THEN UNION {Dusted(q) : q \in UNION {Blurred(p) : p \in DropOut(r.value)}}
  ELSE {r.value}

PointCloudOutputs(r) == {Dimmed(p) : p \in Moved(r)}

\* Transforms: only faults that name both of its frames, unreadable numbers as 0.
Matching(r) ==
  {f \in active :
     /\ {"parent_frame", "child_frame"} \subseteq DOMAIN config[f]
     /\ config[f]["parent_frame"] = r.parent
     /\ config[f]["child_frame"] = r.child}

TfNumber(f, key) ==
  IF key \in DOMAIN config[f] /\ config[f][key] \in StodTexts THEN NumberAt(f, key) ELSE 0

TfSum(r, key) == FoldSet(LAMBDA f, acc : Plus(acc, TfNumber(f, key)), r.value, Matching(r))

TfOutputs(r) ==
  LET MayDrop == \E f \in Matching(r) : Less(0, TfNumber(f, "drop_probability"))
      MayPass == \A f \in Matching(r) : TfNumber(f, "drop_probability") # Unit
      biased == IF r.field = "x" THEN TfSum(r, "x_bias")
                ELSE Angle(TfSum(r, "yaw_bias_deg"))
  IN (IF MayDrop THEN {None} ELSE {}) \cup (IF MayPass THEN {biased} ELSE {})

Outputs(r) ==
  CASE type = "odom" -> OdomOutputs(r)
    [] type = "scan" -> ScanOutputs(r)
    [] type = "joint_state" -> JointStateOutputs(r)
    [] type = "imu" -> ImuOutputs(r)
    [] type = "point_cloud" -> PointCloudOutputs(r)
    [] type = "tf" -> TfOutputs(r)

-----------------------------------------------------------------------------
(* How a callback ends.                                                    *)

\* The keys an injector hands to std::stod without catching what it throws, for
\* the message of reading r.
StodKeys(r) ==
  CASE type = "scan" -> {"range_bias", "range_noise_stddev"}
    [] type = "point_cloud" ->
         {"point_dropout_probability", "range_noise_stddev", "dust_return_probability",
          "intensity_scale"}
         \cup (IF r.xyz /\ DustProbability > 0 THEN {"dust_min_range", "dust_max_range"} ELSE {})
         \cup (IF r.xyz /\ DustProbability > 0 /\ DustMin <= DustMax
               THEN {"dust_intensity_scale"} ELSE {})
    [] type = "tf" -> {}
    [] OTHER -> {field.key : field \in {g \in Schema(type) : g.type = "double"}}

Unreadable(keys) ==
  \E key \in keys : \E f \in ActiveWith(key) : config[f][key] \notin StodTexts

DropThrows == type # "tf" /\ Unreadable({"drop_probability"})
MayDropMessage == type # "tf" /\ ActiveMax("drop_probability", 0) > 0
MayKeepMessage == type = "tf" \/ ActiveMax("drop_probability", 0) < Unit
ApplyThrows(r) == Unreadable(StodKeys(r))
ApplyHangs(r) ==
  type = "scan" /\ \E f \in Sectors(r) : \/ NeverNormal(r.angle)
                                         \/ NeverNormal(NumberAt(f, "sector_min_deg"))
                                         \/ NeverNormal(NumberAt(f, "sector_max_deg"))

-----------------------------------------------------------------------------
Init ==
  /\ \E file \in Files : /\ type = file.type
                         /\ blocks = file.blocks
                         /\ config = file.config
  /\ active = {}
  /\ process = "loading"
  /\ output = None

\* parse_injector, for type t and blocks b: a trigger_service block wins whatever
\* the type, and without the keys of an endpoint the file is refused.
Endpoint(t, b) ==
  IF "trigger_service" \in b THEN "trigger_service"
  ELSE IF "topic" \in b /\ t # "trigger_service" THEN "topic"
  ELSE None

\* The constructors dereference the endpoint of their type.
OwnEndpoint(t) == IF t = "trigger_service" THEN "trigger_service" ELSE "topic"

Load ==
  /\ process = "loading"
  /\ process' = IF Endpoint(type, blocks) = None \/ \E f \in Faults : ~ValidFault(type, config[f])
                THEN "rejected"
                ELSE IF Endpoint(type, blocks) = OwnEndpoint(type) THEN "running"
                ELSE "terminated"
  /\ UNCHANGED <<type, blocks, config, active, output>>

Spent == MapThenSumSet(LAMBDA f : Cardinality(DOMAIN config[f] \ {"parent_frame", "child_frame"}),
                       Faults)

SetFaultConfig(f, key, text) ==
  /\ process = "running"
  /\ IF ValidUpdate(type, key, text)
     THEN /\ key \in DOMAIN config[f] \/ Spent < MaxEntries
          /\ config' = [config EXCEPT
                          ![f] = [k \in DOMAIN @ \cup {key} |-> IF k = key THEN text ELSE @[k]]]
          /\ output' = None
     ELSE UNCHANGED <<config, output>>
  /\ UNCHANGED <<type, blocks, active, process>>

ActivateFault(f) ==
  /\ process = "running"
  /\ active' = active \cup {f}
  /\ output' = None
  /\ UNCHANGED <<type, blocks, config, process>>

DeactivateFault(f) ==
  /\ process = "running"
  /\ active' = active \ {f}
  /\ output' = None
  /\ UNCHANGED <<type, blocks, config, process>>

\* Nothing around rclcpp::spin catches what std::stod throws in a callback.
CallbackThrows(r) ==
  /\ process = "running"
  /\ r.type = type
  /\ DropThrows \/ (MayKeepMessage /\ ApplyThrows(r))
  /\ process' = "terminated"
  /\ UNCHANGED <<type, blocks, config, active, output>>

\* The loops of normalize_degrees run with the injector's mutex held.
CallbackHangs(r) ==
  /\ process = "running"
  /\ r.type = type
  /\ ~DropThrows /\ MayKeepMessage /\ ~ApplyThrows(r)
  /\ ApplyHangs(r)
  /\ process' = "hung"
  /\ output' = [reading |-> r, value |-> None]
  /\ UNCHANGED <<type, blocks, config, active>>

DropMessage ==
  /\ process = "running"
  /\ type \in SensorTypes
  /\ ~DropThrows /\ MayDropMessage
  /\ output' = None
  /\ UNCHANGED <<type, blocks, config, active, process>>

\* (mutant: a node whose scenario was rejected still publishes)
PublishAnyway(r) ==
  /\ process \in {"running", "rejected"}
  /\ r.type = type
  /\ output' = [reading |-> r, value |-> r.value]
  /\ UNCHANGED <<type, blocks, config, active, process>>

PublishMessage(r) ==
  /\ process = "running"
  /\ r.type = type
  /\ ~DropThrows /\ MayKeepMessage /\ ~ApplyThrows(r) /\ ~ApplyHangs(r)
  /\ output' \in {[reading |-> r, value |-> value] : value \in Outputs(r)}
  /\ UNCHANGED <<type, blocks, config, active, process>>

Next ==
  \/ Load
  \/ \E f \in Faults, e \in Entries :
       e.type = type /\ SetFaultConfig(f, e.key, e.text)
  \/ \E f \in Faults : ActivateFault(f) \/ DeactivateFault(f)
  \/ DropMessage
  \/ \E r \in Readings : CallbackThrows(r) \/ CallbackHangs(r) \/ PublishMessage(r)

Spec == Init /\ [][Next]_vars

-----------------------------------------------------------------------------
(* Properties.                                                             *)

\* What was published, and not the reading of a callback that hangs.
Published == output # None /\ process # "hung"

\* Every variable has its type; only a running injector publishes.
TypeOK ==
  /\ <<type, blocks>> \in {<<file.type, file.blocks>> : file \in Files}
  /\ \A f \in Faults : \A key \in DOMAIN config[f] :
       \/ [type |-> type, key |-> key, text |-> config[f][key]] \in Entries
       \/ \E file \in Files : <<key, config[f][key]>> \in
                                 {<<k, file.config[f][k]>> : k \in DOMAIN file.config[f]}
  /\ active \subseteq Faults
  /\ process \in {"loading", "rejected", "running", "terminated", "hung"}
  /\ output # None =>
       output.reading \in Readings /\ process \in {"running", "terminated", "hung"}

\* Whatever a valid file and accepted set_fault_config calls put in the configs,
\* the node only dies of a number too small for std::stod or of an endpoint
\* block of the other kind, and a callback only hangs in normalize_degrees
\* (scan_fault_injector.cpp:23), on a scan whose beams have directions and on an
\* angle, the beam's or an active sector's, that is infinite or too large.
StopsOnlyOnExtremeNumbers ==
  /\ process = "terminated" =>
       \/ type # "trigger_service" /\ "trigger_service" \in blocks
       \/ \E f \in active : \E key \in DOMAIN config[f] : config[f][key] = "1e-310"
  /\ process = "hung" =>
       /\ output.reading.increment # 0
       /\ \E f \in active :
            LET bounds == DOMAIN config[f] \cap {"sector_min_deg", "sector_max_deg"}
            IN /\ bounds # {}
               /\ \/ NeverNormal(output.reading.angle)
                  \/ \E key \in bounds : config[f][key] \in {"inf", "-inf", "1e300"}

\* The configs of a running node are always ones that a scenario file could have
\* given: the load path (scenario_validator), the service path
\* (set_fault_config) and the central key tables never come to disagree.
UpdatesStayLoadable ==
  process = "running" =>
    \A f \in Faults :
      /\ ValidFault(type, config[f])
      /\ \A key \in DOMAIN config[f] :
           IF key \in SchemaKeys(type) THEN ValidByKey(type, key, config[f][key])
           ELSE key \notin AllowedKeys(type)

\* The keys that decide a reading.
KeysOf(r) ==
  CASE r.type = "odom" /\ r.field = "x" -> {"x_bias", "x_noise_stddev"}
    [] r.type = "odom" /\ r.field = "yaw" -> {"yaw_bias_deg", "yaw_noise_stddev_deg"}
    [] r.type = "odom" /\ r.field = "pose_covariance" ->
         {"pose_covariance_scale", "pose_covariance_floor"}
    [] r.type = "joint_state" -> {"velocity_bias", "velocity_noise_stddev"}
    [] r.type = "imu" /\ r.field = "angular_velocity_z" ->
         {"angular_velocity_z_bias", "angular_velocity_z_noise_stddev"}
    [] r.type = "imu" /\ r.field = "linear_acceleration_x" ->
         {"linear_acceleration_x_bias", "linear_acceleration_x_noise_stddev"}
    [] r.type = "scan" -> {"range_bias", "range_noise_stddev", "sector_min_deg"}
    [] r.type = "point_cloud" ->
         {"point_dropout_probability", "range_noise_stddev", "dust_return_probability",
          "intensity_scale"}
    [] r.type = "tf" ->
         {"drop_probability", IF r.field = "x" THEN "x_bias" ELSE "yaw_bias_deg"}

Concerned(r) ==
  {f \in active : r.type = "tf" => /\ config[f]["parent_frame"] = r.parent
                                   /\ config[f]["child_frame"] = r.child}

\* A value no active fault has a key for is published as it came: inactive
\* faults, keys of other axes, of other frames or with a typo, and the fallback
\* values of the readers change nothing.
UnconfiguredIsUntouched ==
  Published =>
    LET r == output.reading
    IN (\A f \in Concerned(r) : DOMAIN config[f] \cap KeysOf(r) = {})
         => output.value = r.value

Bounds(key) == {NumberAt(f, key) : f \in ActiveWith(key)}

\* Disturbed scans stay within the sensor's limits unless a bias is not a
\* number; an entry of a covariance, negative ones off the diagonal included,
\* reaches every positive floor that is active, unless it is or an infinite scale
\* of a zero makes it NaN; dust lies within every active fault's dust range.
OutputsKeepBounds ==
  Published =>
    LET r == output.reading
        n == output.value
    IN /\ r.type = "scan" /\ n # r.value /\ SectorFaults = {} =>
            \/ n # NaN /\ RangeMin <= n /\ n <= RangeMax
            \/ n = NaN /\ Bounds("range_bias") \cap {NaN, Inf, -Inf} # {}
            \/ n = NaN /\ Bounds("range_noise_stddev") \cap {Inf} # {}
       /\ r.type = "odom" /\ r.field = "pose_covariance" =>
            \/ n # NaN /\ \A floor \in Bounds("pose_covariance_floor") :
                            Less(0, floor) => ~Less(n, floor)
            \/ n = NaN /\ r.value = NaN
            \/ n = NaN /\ r.value = 0 /\ Inf \in Bounds("pose_covariance_scale")
       /\ /\ r.type = "point_cloud" /\ n.range \notin {NaN, r.value.range}
          /\ ActiveWith("range_noise_stddev") = {}
          => /\ \A low \in Bounds("dust_min_range") : ~Less(n.range, low)
             /\ \A high \in Bounds("dust_max_range") : ~Less(high, n.range)

\* A sector is the arc from its minimum counterclockwise to its maximum, however
\* its bounds and the beam's angle are written, for every beam off the rear seam
\* and every pair of bounds that are not the same direction.  A scan without an
\* angle_increment has no directions, and loses no beam to a sector.
SectorIsArc ==
  Published /\ type = "scan" =>
    LET r == output.reading
        InArc(f) == LET low == NumberAt(f, "sector_min_deg")
                        high == NumberAt(f, "sector_max_deg")
                    IN (r.angle - low) % Turn <= (high - low) % Turn
        Proper(f) == LET low == NumberAt(f, "sector_min_deg")
                         high == NumberAt(f, "sector_max_deg")
                     IN Finite(low) /\ Finite(high) /\ (high - low) % Turn # 0
    IN /\ r.increment = 0 => output.value \in Ranged(r.value)
       /\ /\ r.increment # 0
          /\ Finite(r.angle) /\ r.angle % Turn # HalfTurn
          /\ \A f \in SectorFaults : Proper(f)
          => IF \E f \in SectorFaults : InArc(f)
             THEN \E f \in SectorFaults : InArc(f) /\ output.value = Replacement(f)
             ELSE output.value \in Ranged(r.value)
=============================================================================
