------------------------------ MODULE MCThrottle ------------------------------
(* Throttle for TLC: its parameters are values of the .cfg.                 *)
EXTENDS Throttle, TLC
=============================================================================
