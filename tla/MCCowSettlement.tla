-------------------------- MODULE MCCowSettlement --------------------------
(* CowSettlement for model checking: nothing tells two sweepers apart.     *)
EXTENDS CowSettlement, TLC

Symmetry == Permutations(Sweepers)
=============================================================================
