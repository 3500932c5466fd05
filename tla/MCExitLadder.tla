----------------------------- MODULE MCExitLadder -----------------------------
(***************************************************************************)
(* Instances of ExitLadder for TLC.  Levels are those of the code's         *)
(* profiles; the feed's market caps are chosen around them.                *)
(***************************************************************************)
EXTENDS ExitLadder

Tp(a, b, c, d, e) == [n \in TpLevels |-> <<a, b, c, d, e>>[n]]

\* default_profile_strong in the momentum phase, default_profile_runner.
Strong == [tp |-> Tp(30, 50, 100, 150, 200), activate |-> 63, trailFloor |-> 35,
           smartAt |-> 50, smartFloor |-> 5]
Runner == [tp |-> Tp(50, 80, 150, 250, 350), activate |-> 55, trailFloor |-> 30,
           smartAt |-> 45, smartFloor |-> 8]

Profiles == {Strong, Runner}
Stairs == {<<50, 15>>, <<100, 40>>, <<200, 90>>, <<400, 180>>}
Floor0 == -16
Crash == -28
=============================================================================
