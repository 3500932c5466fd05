---------------------------- MODULE MCTradeLedger ----------------------------
\* Instance of TradeLedger for TLC; the constants are in the configuration.
EXTENDS TradeLedger
=============================================================================
