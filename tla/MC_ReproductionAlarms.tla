----------------------- MODULE MC_ReproductionAlarms -----------------------
(* Small instances of the reproduction alarms for TLC. *)
EXTENDS ReproductionAlarms
=============================================================================
