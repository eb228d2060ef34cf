--------------------------- MODULE MC_AuditChain ---------------------------
(***************************************************************************)
(* Instances of AuditChain for TLC, and the plausible bugs its properties  *)
(* are tested against.                                                     *)
(***************************************************************************)
EXTENDS AuditChain, TLC

\* Injective stand-ins for SHA-256: the hash is what was hashed.
MCPayloadHash(type, seq) == <<type, seq>>
MCChainHash(prev, payload) == <<prev, payload>>
MCGenesis == <<>>

TxnSymmetry == Permutations(Txns)
=============================================================================
