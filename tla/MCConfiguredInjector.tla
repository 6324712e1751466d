----------------------- MODULE MCConfiguredInjector -----------------------
(* Scenario files, updates and readings for checking ConfiguredInjector.   *)
EXTENDS ConfiguredInjector, TLC

CONSTANTS f1, f2

NoConfig == [k \in {} |-> ""]
OdomToBase == ("parent_frame" :> "odom") @@ ("child_frame" :> "base")
MapToOdom == ("parent_frame" :> "map") @@ ("child_frame" :> "odom")

File(t, b, c1, c2) == [type |-> t, blocks |-> b, config |-> (f1 :> c1) @@ (f2 :> c2)]

\* In either order, so that the faults stay interchangeable.
Files2(t, c1, c2) == {File(t, {"topic"}, c1, c2), File(t, {"topic"}, c2, c1)}

MCFiles ==
  {File(t, b, NoConfig, NoConfig) :
     t \in InjectorTypes, b \in SUBSET {"topic", "trigger_service"}}
  \cup Files2("tf", OdomToBase, OdomToBase) \cup Files2("tf", OdomToBase, MapToOdom)
  \cup Files2("odom", ("x_bias" :> "0.5") @@ ("typo" :> "1"), NoConfig)
  \cup Files2("odom", "x_bias" :> "x", NoConfig)
  \cup UNION {Files2("scan", ("sector_min_deg" :> low) @@ ("sector_max_deg" :> high),
                     NoConfig) :
                low \in {"170", "180", "-170", "nan", "1e300"},
                high \in {"-170", "170", "180", "200"}}

Texts(t, keys, texts) ==
  {[type |-> t, key |-> k, text |-> x] : k \in keys, x \in texts}

MCEntries ==
  Texts("odom", {"drop_probability"}, {"0.5", "x"})
  \cup Texts("odom", {"x_bias", "yaw_bias_deg"}, {"2", "inf", "1e-310"})
  \cup Texts("odom", {"pose_covariance_scale", "pose_covariance_floor"}, {"0.5", "2", "inf"})
  \cup Texts("scan", {"sector_min_deg", "sector_max_deg"}, {"-180", "200", "inf", "1e-310"})
  \cup Texts("scan", {"range_bias"}, {"2", "-inf"})
  \cup Texts("scan", {"sector_value"}, {"1", "+inf"})
  \cup Texts("joint_state", {"velocity_bias", "velocity_noise_stddev", "typo"},
             {"1", "-1", "nan", "1e-310"})
  \cup Texts("imu", {"linear_acceleration_x_bias", "linear_acceleration_y_noise_stddev",
                     "angular_velocity_z_noise_stddev"}, {"1", "inf"})
  \cup Texts("twist", {"linear_x_scale", "force_stop"}, {"-1", "2", "true"})
  \cup Texts("point_cloud", {"point_dropout_probability"}, {"0.5", "2"})
  \cup Texts("point_cloud", {"dust_return_probability"}, {"1"})
  \cup Texts("point_cloud", {"dust_min_range"}, {"0.5", "1e-310"})
  \cup Texts("point_cloud", {"dust_max_range"}, {"0", "1", "nan"})
  \cup Texts("point_cloud", {"intensity_scale", "range_noise_stddev"}, {"2"})
  \cup Texts("trigger_service", {"failure_message", "force_failure", "x_bias"},
             {"true", "2"})
  \cup Texts("tf", {"x_bias", "yaw_bias_deg"}, {"1", "inf"})
  \cup Texts("tf", {"drop_probability"}, {"0.5", "1e-310"})
  \cup Texts("tf", {"child_frame"}, {"odom", ""})

MCReadings ==
  {[type |-> "odom", field |-> field, value |-> n] : field \in {"x", "yaw"}, n \in {0, Unit}}
  \cup {[type |-> "odom", field |-> "pose_covariance", value |-> n] : n \in {0, Unit, -Unit, NaN}}
  \cup {[type |-> "joint_state", field |-> "velocity", value |-> Unit]}
  \cup {[type |-> "imu", field |-> field, value |-> Unit] :
          field \in {"angular_velocity_z", "linear_acceleration_x"}}
  \cup {[type |-> "scan", field |-> "range", angle |-> a * Unit, increment |-> 1, value |-> n] :
          a \in {-175, 0, 175, 180, 190}, n \in {2 * Unit, Inf}}
  \cup {[type |-> "scan", field |-> "range", angle |-> a, increment |-> i, value |-> 2 * Unit] :
          a \in {175 * Unit, Inf, NaN}, i \in {0, 1}}
  \cup {[type |-> "point_cloud", field |-> "point", xyz |-> b,
         value |-> [range |-> n, intensity |-> i]] :
          b \in BOOLEAN, n \in {3 * Unit, NaN}, i \in {Unit, None}}
  \cup {[type |-> "tf", field |-> field, parent |-> "odom", child |-> "base",
         value |-> Unit] : field \in {"x", "yaw"}}

MCRangeMax == 3 * Unit
Symmetric == Permutations(Faults)
=============================================================================
