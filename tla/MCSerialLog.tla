------------------------------- MODULE MCSerialLog -------------------------------
(* Small instances of SerialLog for TLC.                                   *)
EXTENDS SerialLog, TLC

CONSTANTS small, big

\* Two payloads of different size; a big one can push out two small ones at once.
MCSizeOf == [x \in Payloads |-> IF x = big THEN 2 ELSE 1]
=============================================================================
