------------------------ MODULE MCPeggyBatchConfirms ------------------------
(* PeggyBatchConfirms with validators that do not differ. *)
EXTENDS PeggyBatchConfirms, TLC

CONSTANTS v1, v2

Symmetry == Permutations(Signers)
=============================================================================
