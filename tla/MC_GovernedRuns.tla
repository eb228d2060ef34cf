-------------------------- MODULE MC_GovernedRuns --------------------------
(* Small instances of the governed runs for TLC: two model versions of one   *)
(* family, and a family that binds none.                                     *)
EXTENDS GovernedRuns

MC_Family == [k \in Kernels |-> IF k \in Gated THEN "VAR" ELSE "EXPOSURE_AGGREGATE"]
MC_Place == [f \in Families |-> IF f = "VAR" THEN 2 ELSE 1]
=============================================================================
