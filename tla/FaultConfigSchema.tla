------------------------- MODULE FaultConfigSchema -------------------------
(***************************************************************************)
(* The rules a fault's config map is checked against: the field tables of  *)
(* the eight built-in injector types (static_config_schema), the checks of *)
(* one value (validate_config_value), of one fault (scenario_validator)    *)
(* and the central tables of fault_config_schema.  Values are the texts a  *)
(* YAML file or a set_fault_config request carries; numbers are counted in *)
(* twentieths, so that 0.2 and 0.5 are whole.                              *)
(***************************************************************************)
EXTENDS Integers

CONSTANTS NaN,  \* the double that compares with nothing
          None  \* an absent std::optional, a value left out

ASSUME NumberAssumption == NaN \notin Int /\ None \notin Int /\ NaN # None

Unit == 20
Inf == 100000000
Huge == 30000   \* 1e300: finite, and subtracting 360 does not change it
Tiny == 1       \* 1e-310: positive, and smaller than any normal double

-----------------------------------------------------------------------------
(* Texts and the numbers the two parsers make of them.                     *)

IntTexts == {"0", "1", "2", "-1", "170", "-170", "180", "-180", "200"}
\* std::from_chars reads these to the end; of "0.5" as an int it leaves a rest.
DoubleTexts == IntTexts \cup {"0.5", "nan", "inf", "-inf", "1e-310", "1e300"}
SpecialTexts == {"inf", "+inf", "-inf", "nan"}
\* std::stod throws out_of_range on a subnormal result.
StodTexts == (DoubleTexts \ {"1e-310"}) \cup {"+inf"}

Value(text) ==
  CASE text = "0" -> 0            [] text = "0.5" -> 10
    [] text = "1" -> Unit         [] text = "2" -> 2 * Unit
    [] text = "-1" -> -Unit       [] text = "nan" -> NaN
    [] text \in {"inf", "+inf"} -> Inf
    [] text = "-inf" -> -Inf      [] text = "1e-310" -> Tiny
    [] text = "1e300" -> Huge     [] text = "170" -> 170 * Unit
    [] text = "-170" -> -170 * Unit  [] text = "180" -> 180 * Unit
    [] text = "-180" -> -180 * Unit  [] text = "200" -> 200 * Unit

Less(a, b) == a # NaN /\ b # NaN /\ a < b

-----------------------------------------------------------------------------
(* The injectors' own schemas.                                             *)

Fields(type, min, max, keys) ==
  {[key |-> k, type |-> type, min |-> min, max |-> max] : k \in keys}

Probability(keys) == Fields("double", 0, Unit, keys)
NonNegative(keys) == Fields("double", 0, None, keys)
Number(keys) == Fields("double", None, None, keys)
Milliseconds(keys) == Fields("int", 0, None, keys)
Flag(keys) == Fields("bool", None, None, keys)

OdomSchema ==
  Probability({"drop_probability"}) \cup Milliseconds({"delay_ms"})
  \cup Number({"x_bias", "y_bias", "yaw_bias_deg"})
  \cup NonNegative({"yaw_noise_stddev_deg", "x_noise_stddev", "y_noise_stddev",
                    "pose_covariance_scale", "twist_covariance_scale",
                    "pose_covariance_floor", "twist_covariance_floor"})

ScanSchema ==
  Probability({"drop_probability"}) \cup Milliseconds({"delay_ms"})
  \cup Number({"range_bias", "sector_min_deg", "sector_max_deg"})
  \cup NonNegative({"range_noise_stddev"})
  \cup Fields("special_float", None, None, {"sector_value"})

JointStateSchema ==
  Probability({"drop_probability"}) \cup Milliseconds({"delay_ms"})
  \cup Number({"velocity_bias"}) \cup NonNegative({"velocity_noise_stddev"})

ImuSchema ==
  Probability({"drop_probability"}) \cup Milliseconds({"delay_ms"})
  \cup Number({"angular_velocity_z_bias", "linear_acceleration_x_bias",
               "linear_acceleration_y_bias", "linear_acceleration_z_bias"})
  \cup NonNegative({"angular_velocity_z_noise_stddev",
                    "linear_acceleration_x_noise_stddev",
                    "linear_acceleration_y_noise_stddev",
                    "linear_acceleration_z_noise_stddev"})

TwistSchema ==
  Probability({"drop_probability"})
  \cup Milliseconds({"delay_ms", "stale_replay_duration_ms"})
  \cup NonNegative({"linear_x_scale", "angular_z_scale", "max_linear_x",
                    "max_angular_z"})
  \cup Flag({"force_stop", "stale_replay_enabled"})

PointCloudSchema ==
  Milliseconds({"delay_ms"})
  \cup Probability({"drop_probability", "point_dropout_probability",
                    "dust_return_probability"})
  \cup NonNegative({"range_noise_stddev", "dust_min_range", "dust_max_range",
                    "dust_intensity_scale", "intensity_scale"})

TriggerServiceSchema ==
  Milliseconds({"delay_ms"}) \cup Flag({"force_failure"})
  \cup Fields("string", None, None, {"failure_message"})

TfSchema ==
  Probability({"drop_probability"}) \cup Milliseconds({"delay_ms"})
  \cup Number({"x_bias", "y_bias", "z_bias", "roll_bias_deg",
               "pitch_bias_deg", "yaw_bias_deg"})
  \cup Fields("non_empty_string", None, None, {"parent_frame", "child_frame"})

InjectorTypes == {"odom", "scan", "joint_state", "imu", "twist", "point_cloud",
                  "trigger_service", "tf"}

Schema(type) ==
  CASE type = "odom" -> OdomSchema
    [] type = "scan" -> ScanSchema
    [] type = "joint_state" -> JointStateSchema
    [] type = "imu" -> ImuSchema
    [] type = "twist" -> TwistSchema
    [] type = "point_cloud" -> PointCloudSchema
    [] type = "trigger_service" -> TriggerServiceSchema
    [] type = "tf" -> TfSchema

SchemaKeys(type) == {field.key : field \in Schema(type)}

-----------------------------------------------------------------------------
(* Checking a value and a fault against a schema.                          *)

WithinBounds(field, n) ==
  /\ field.min # None => ~Less(n, field.min)
  /\ field.max # None => ~Less(field.max, n)

\* (mutant: a number that does not parse is not an error)
ValidValueUnparsed(field, text) ==
  field.type \in {"int", "double"} /\ text \in DoubleTexts => WithinBounds(field, Value(text))

\* validate_config_value(field, value).
ValidValue(field, text) ==
  CASE field.type = "string" -> TRUE
    [] field.type = "non_empty_string" -> text # ""
    [] field.type = "bool" -> text \in {"true", "false"}
    [] field.type = "special_float" -> text \in SpecialTexts \cup DoubleTexts
    [] field.type = "int" -> text \in IntTexts /\ WithinBounds(field, Value(text))
    [] field.type = "double" -> text \in DoubleTexts /\ WithinBounds(field, Value(text))

\* A key outside the schema only earns a warning.
MatchesSchema(type, config) ==
  \A field \in Schema(type) :
    field.key \in DOMAIN config => ValidValue(field, config[field.key])

HasRequired(type, config) ==
  \A field \in Schema(type) :
    field.type = "non_empty_string" => field.key \in DOMAIN config

ValidFault(type, config) == MatchesSchema(type, config) /\ HasRequired(type, config)

-----------------------------------------------------------------------------
(* The central tables.                                                     *)

AllowedKeys(type) ==
  CASE type = "odom" ->
         {"drop_probability", "delay_ms", "x_bias", "y_bias", "x_noise_stddev",
          "y_noise_stddev", "yaw_bias_deg", "yaw_noise_stddev_deg",
          "pose_covariance_scale", "twist_covariance_scale",
          "pose_covariance_floor", "twist_covariance_floor"}
    [] type = "scan" ->
         {"drop_probability", "delay_ms", "range_bias", "range_noise_stddev",
          "sector_min_deg", "sector_max_deg", "sector_value"}
    [] type = "joint_state" ->
         {"drop_probability", "delay_ms", "velocity_bias", "velocity_noise_stddev"}
    [] type = "imu" ->
         {"drop_probability", "delay_ms", "angular_velocity_z_bias",
          "angular_velocity_z_noise_stddev", "linear_acceleration_x_bias",
          "linear_acceleration_x_noise_stddev", "linear_acceleration_y_bias",
          "linear_acceleration_y_noise_stddev", "linear_acceleration_z_bias",
          "linear_acceleration_z_noise_stddev"}
    [] type = "twist" ->
         {"drop_probability", "delay_ms", "linear_x_scale", "angular_z_scale",
          "max_linear_x", "max_angular_z", "force_stop", "stale_replay_enabled",
          "stale_replay_duration_ms"}
    [] type = "point_cloud" ->
         {"drop_probability", "delay_ms", "point_dropout_probability",
          "range_noise_stddev", "dust_return_probability", "dust_min_range",
          "dust_max_range", "dust_intensity_scale", "intensity_scale"}
    [] type = "trigger_service" -> {"delay_ms", "force_failure", "failure_message"}
    [] type = "tf" ->
         {"parent_frame", "child_frame", "drop_probability", "delay_ms", "x_bias",
          "y_bias", "z_bias", "roll_bias_deg", "pitch_bias_deg", "yaw_bias_deg"}

NonNegativeNumberKeys ==
  {"x_noise_stddev", "y_noise_stddev", "yaw_noise_stddev_deg",
   "pose_covariance_scale", "twist_covariance_scale", "pose_covariance_floor",
   "twist_covariance_floor", "max_linear_x", "max_angular_z",
   "range_noise_stddev", "velocity_noise_stddev",
   "angular_velocity_z_noise_stddev", "linear_acceleration_x_noise_stddev",
   "linear_acceleration_y_noise_stddev", "linear_acceleration_z_noise_stddev",
   "point_dropout_probability", "dust_return_probability", "dust_min_range",
   "dust_max_range", "dust_intensity_scale", "intensity_scale"}

NumberKeys ==
  {"x_bias", "y_bias", "z_bias", "yaw_bias_deg", "roll_bias_deg",
   "pitch_bias_deg", "range_bias", "sector_min_deg", "sector_max_deg",
   "velocity_bias", "linear_x_scale", "angular_z_scale",
   "angular_velocity_z_bias", "linear_acceleration_x_bias",
   "linear_acceleration_y_bias", "linear_acceleration_z_bias"}

\* validate_config_value(injector_type, key, value), kept beside the schemas.
ValidByKey(type, key, text) ==
  /\ key \in AllowedKeys(type)
  /\ CASE key = "drop_probability" ->
            text \in DoubleTexts /\ ~Less(Value(text), 0) /\ ~Less(Unit, Value(text))
       [] key \in {"delay_ms", "stale_replay_duration_ms"} ->
            text \in IntTexts /\ ~Less(Value(text), 0)
       [] key \in {"stale_replay_enabled", "force_failure", "force_stop"} ->
            text \in {"true", "false"}
       [] key = "sector_value" -> text \in SpecialTexts \cup DoubleTexts
       [] key \in {"parent_frame", "child_frame"} -> text # ""
       [] key \in NonNegativeNumberKeys -> text \in DoubleTexts /\ ~Less(Value(text), 0)
       [] key \in NumberKeys -> text \in DoubleTexts
       [] OTHER -> TRUE

\* (mutant: set_fault_config with the checks of the central tables)
ValidUpdateByKey(type, key, text) == ValidByKey(type, key, text)

\* What set_fault_config asks of a key and a value.
ValidUpdate(type, key, text) ==
  \E field \in Schema(type) : field.key = key /\ ValidValue(field, text)
=============================================================================
