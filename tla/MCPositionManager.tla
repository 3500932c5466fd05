--------------------------- MODULE MCPositionManager -------------------------
(***************************************************************************)
(* Instances of PositionManager for TLC.  Mints, wallets and triggers are  *)
(* interchangeable: no action and no property names one of them.  The      *)
(* symmetry is used by the runs that check safety only.                    *)
(***************************************************************************)
EXTENDS PositionManager, TLC

Symmetry == Permutations(Mint) \cup Permutations(Wallet) \cup Permutations(Trigger)
=============================================================================
