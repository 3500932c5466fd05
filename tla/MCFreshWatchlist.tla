--------------------------- MODULE MCFreshWatchlist ---------------------------
(* An instance of FreshWatchlist for TLC: more Create events than mints. *)
EXTENDS FreshWatchlist
=============================================================================
