--------------------------- MODULE MCTwistStopped ---------------------------
(* The module TLC is run on; TwistStopped.cfg gives the constants.         *)
EXTENDS TwistStopped, TLC
=============================================================================
