------------------------- MODULE MC_EntitlementAdmin -------------------------
(* Small instances of EntitlementAdmin. *)
EXTENDS EntitlementAdmin, TLC

CONSTANTS a1, a2, a3, p1, p2

\* Users are alike, and so are calls.
MCSymmetry == Permutations(Users) \cup Permutations(Calls)
=============================================================================
