------------------------------ MODULE MCServer ------------------------------
(* Small instances of Server: one .cfg per question. *)
EXTENDS Server, TLC

Symmetry == Permutations(Ids) \cup Permutations(Topics)
=============================================================================
