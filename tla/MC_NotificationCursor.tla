----------------------- MODULE MC_NotificationCursor -----------------------
(***************************************************************************)
(* Instances of NotificationCursor for TLC.                                *)
(***************************************************************************)
EXTENDS NotificationCursor, TLC

=============================================================================
