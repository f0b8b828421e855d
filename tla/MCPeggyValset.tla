--------------------------- MODULE MCPeggyValset ---------------------------
(* PeggyValset with validators that do not differ. *)
EXTENDS PeggyValset, TLC

CONSTANTS v1, v2

Symmetry == Permutations(Validators)
=============================================================================
