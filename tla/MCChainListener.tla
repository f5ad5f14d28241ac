--------------------------- MODULE MCChainListener ---------------------------
(* ChainListener for TLC: its parameters are values of the .cfg.            *)
EXTENDS ChainListener, TLC
=============================================================================
