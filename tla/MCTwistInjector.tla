-------------------------- MODULE MCTwistInjector --------------------------
(* Faults and bounds for checking TwistInjector with TLC.                  *)
EXTENDS TwistInjector, TLC

CONSTANTS f1, f2

\* Forwards and backwards, one beyond the clamp.
MCSpeeds == {1, -2}

\* Durations of replay below and beyond the fallback, which is 2.
MCValues == [drop_probability |-> {50, 100}, delay_ms |-> {0, 2},
             linear_x_scale |-> {2}, max_linear_x |-> {3},
             force_stop |-> BOOLEAN, stale_replay_enabled |-> BOOLEAN,
             stale_replay_duration_ms |-> {1, 3}]

\* Replay through a lossy, slow link; a stop, and a limit.
LossyReplay == f1 :> [stale_replay_enabled |-> TRUE, stale_replay_duration_ms |-> 1,
                      delay_ms |-> 2, drop_probability |-> 50]
ScaledStop == (f1 :> [linear_x_scale |-> 2, max_linear_x |-> 3]) @@
              (f2 :> [force_stop |-> TRUE, delay_ms |-> 2])
MCScenarios == {LossyReplay, ScaledStop}

MCDelays == {0, 2}
=============================================================================
