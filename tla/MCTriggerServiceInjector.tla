---------------------- MODULE MCTriggerServiceInjector ----------------------
(* Bounds for checking TriggerServiceInjector with TLC.                    *)
EXTENDS TriggerServiceInjector

MCDelays == {0, 1}
NoDelay == {0}

\* rclcpp::spin(), and the executor of the unit tests.
OneOrTwo == {1, 2}
OneThread == {1}
=============================================================================
