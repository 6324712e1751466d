------------------------ MODULE MCDelayedForwarding ------------------------
(* Bounds for checking DelayedForwarding with TLC.                         *)
EXTENDS DelayedForwarding

\* No delay, less than a flush period, more than one.
MCDelays == {0, 1, 4}
=============================================================================
