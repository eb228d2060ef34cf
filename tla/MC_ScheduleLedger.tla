------------------------- MODULE MC_ScheduleLedger -------------------------
(* Small instances of the schedule ledger for TLC: schedule 1 is an INTERVAL *)
(* schedule that fires at every instant; schedule 2 is another one, or a     *)
(* monthly one that starts with the month.                                   *)
EXTENDS ScheduleLedger

MC_Anchor == [s \in Schedules |-> IF s \in Monthly THEN 0 ELSE 1]
=============================================================================
