----------------------------- MODULE MCDeskLoop -----------------------------
(* DeskLoop for TLC: its parameters are values of the .cfg.                  *)
EXTENDS DeskLoop, TLC
=============================================================================
