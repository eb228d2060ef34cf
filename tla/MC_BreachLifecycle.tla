------------------------- MODULE MC_BreachLifecycle -------------------------
(***************************************************************************)
(* Instances of BreachLifecycle for TLC.                                   *)
(***************************************************************************)
EXTENDS BreachLifecycle, TLC

\* Every user has one request in flight at a time.
OneRequestEach == [u \in Users |-> u]
=============================================================================
