------------------------------- MODULE MCBroker -------------------------------
(* An instance of Broker for TLC: a buy and a sell of a two-token fill. *)
EXTENDS Broker
=============================================================================
