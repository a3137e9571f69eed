----------------------------- MODULE MCSerialBroker -----------------------------
(* A small instance of SerialBroker for TLC.                               *)
EXTENDS SerialBroker, TLC

Threads == Permutations(Sids) \cup Permutations(Clients)
=============================================================================
