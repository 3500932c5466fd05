---------------------------- MODULE MCRegistries ----------------------------
(***************************************************************************)
(* Closes on both sides of the tiers: a crash exit, a deep stop loss and a *)
(* win, some with early buyers or a learning snapshot; a patch that        *)
(* earlier rounds moved.                                                   *)
(***************************************************************************)
EXTENDS Registries

CONSTANTS d1, w1

CrashExit ==
    [dev |-> d1, buyers |-> {}, pnl |-> -70, reason |-> "SL CRASH",
     tick_drop |-> -1, mcap_drop |-> -1, snap |-> TRUE, smart |-> 0, at |-> 0]
DeepStop == [CrashExit EXCEPT !.pnl = -35, !.reason = "SL", !.snap = FALSE]
Win == [CrashExit EXCEPT !.pnl = 60, !.reason = "TP", !.buyers = {w1}, !.smart = 2]

MCDevs == {d1}
MCWallets == {w1}
MCCloses == {CrashExit, DeepStop, Win}
MCOldPatches == {[NoPatch EXCEPT !.buyers_low = 5, !.smart_3plus = 8]}
=============================================================================
