--------------------- MODULE MCPositionManagerRefinement ---------------------
(* Instances of the refinement for TLC. *)
EXTENDS PositionManagerRefinement, TLC

Symmetry == Permutations(Mint) \cup Permutations(Wallet) \cup Permutations(Trigger)
=============================================================================
