---------------------------- MODULE MCMirrorExit ----------------------------
(* MirrorExit for TLC: its parameters are values of the .cfg.               *)
EXTENDS MirrorExit, TLC
=============================================================================
