------------------------ MODULE MC_BitemporalReturns ------------------------
(* Small instances of the bitemporal returns for TLC. *)
EXTENDS BitemporalReturns, TLC

\* Every older return, and that of the first factor for the newest date, are there already.
MC_Backlog == (Factors \X {0}) \cup {<<"mkt", 1>>}
MC_Live == {<<"size", 1>>}
Symmetry == Permutations(Writers)
=============================================================================
