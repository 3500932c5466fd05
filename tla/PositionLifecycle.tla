-------------------------- MODULE PositionLifecycle --------------------------
(***************************************************************************)
(* What the position manager promises about one (mint, wallet) row: it is  *)
(* bought at most once, held after the fill, and from then on moves        *)
(* between being managed and being sold until it is flat.  A row never     *)
(* skips the purchase and never returns from the sale to the purchase.     *)
(***************************************************************************)
CONSTANT Key

VARIABLES phase,   \* phase of every row
          spent    \* rows that have had their chance to be bought

Phase == {"flat", "buying", "held", "exiting"}

Moves == {<<"flat", "buying">>,     \* broker.buy starts
          <<"buying", "flat">>,     \* it fails, or the fill is sold at once
          <<"buying", "held">>,     \* it fills
          <<"held", "exiting">>,    \* a full close is queued
          <<"exiting", "held">>,    \* the sell fails
          <<"held", "flat">>,       \* abandoned, or sold by an earlier close
          <<"exiting", "flat">>}    \* sold or abandoned

Init ==
    /\ phase = [k \in Key |-> "flat"]
    /\ spent = {}

\* Rows move independently, several of them in one step of the actor.
Next ==
    /\ phase' \in [Key -> Phase]
    /\ spent \subseteq spent' /\ spent' \subseteq Key
    /\ \A k \in Key :
         \/ phase'[k] = phase[k]
         \/ /\ <<phase[k], phase'[k]>> \in Moves
            /\ phase'[k] = "buying" => k \in spent' \ spent

Spec == Init /\ [][Next]_<<phase, spent>>
=============================================================================
