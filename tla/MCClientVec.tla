---------------------------- MODULE MCClientVec ----------------------------
(* Small instance of ClientVec: see MCClientVec.cfg.  IDs, topics and pointers *)
(* are interchangeable; descriptors are numbers, ordered only by accept().     *)
EXTENDS ClientVec, TLC

Symmetry == Permutations(Ids) \cup Permutations(Topics) \cup Permutations(Ptrs)
=============================================================================
