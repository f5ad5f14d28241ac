---------------------------- MODULE MCTradePipeline ----------------------------
(* TradePipeline for TLC: its parameters are model values of the .cfg.      *)
EXTENDS TradePipeline, TLC
=============================================================================
