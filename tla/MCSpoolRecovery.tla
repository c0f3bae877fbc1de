--------------------------- MODULE MCSpoolRecovery ---------------------------
(* Model values for the runs of SpoolRecovery. *)
EXTENDS SpoolRecovery
CONSTANTS r1, r2, f1
==============================================================================
