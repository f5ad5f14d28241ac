-------------------------- MODULE MCCalibrationSend --------------------------
(* CalibrationSend for TLC: its parameters are model values of the .cfg.    *)
EXTENDS CalibrationSend, TLC

\* Tickets and submitters are each interchangeable.
Symmetry == Permutations(Tickets) \cup Permutations(Submitters)
=============================================================================
