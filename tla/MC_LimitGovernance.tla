------------------------- MODULE MC_LimitGovernance -------------------------
(* Small instances of LimitGovernance. *)
EXTENDS LimitGovernance, TLC

CONSTANTS ana, bob, cy, r1, r2, low, high

MCSymmetry == Permutations({ana, bob, cy}) \cup Permutations({r1, r2})
                \cup Permutations({low, high})
=============================================================================
