------------------------- MODULE MCStrategyController -------------------------
(***************************************************************************)
(* An instance of StrategyController for TLC: a day of three seconds, and  *)
(* results below, at and above zero.                                       *)
(***************************************************************************)
EXTENDS StrategyController

LossCap == -2
Results == {-1, 0, 2}
=============================================================================
