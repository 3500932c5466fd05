---------------------- MODULE PositionManagerRefinement ----------------------
(***************************************************************************)
(* How the position manager, fed at most one signal per mint, implements   *)
(* PositionLifecycle: the refinement mapping.                              *)
(***************************************************************************)
EXTENDS PositionManager

\* Where a row stands, read off the actor's maps and its running tasks.
PhaseOf(k) ==
    IF k \in positions
    THEN IF k \in isClosing THEN "exiting" ELSE "held"
    ELSE IF buysInFlight[k] > 0 THEN "buying" ELSE "flat"

phaseBar == [k \in Key |-> PhaseOf(k)]

\* A row is spent once its mint was signalled and its ExecuteBuy was handled (or
\* will never come, because the signal was refused or the wallet was disabled).
spentBar == {k \in Key : signals[k[1]] > 0 /\ k[2] \notin fanout[k[1]]}

Lifecycle == INSTANCE PositionLifecycle WITH phase <- phaseBar, spent <- spentBar

\* Every behaviour of the actor with one signal per mint is a lifecycle of its
\* rows: one purchase at most, no sale before it, no purchase after it.
ImplementsLifecycle == Lifecycle!Spec
==============================================================================
