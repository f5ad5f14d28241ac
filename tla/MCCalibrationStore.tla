-------------------------- MODULE MCCalibrationStore --------------------------
(* CalibrationStore for TLC: its parameters are model values of the .cfg.   *)
EXTENDS CalibrationStore, TLC

\* Sessions, tickets, approvers and bookers are each interchangeable.
Symmetry ==
    Permutations(Sessions) \cup Permutations(Tickets)
        \cup Permutations(Approvers) \cup Permutations(Bookers)
=============================================================================
