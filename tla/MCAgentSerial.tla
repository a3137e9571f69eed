------------------------------ MODULE MCAgentSerial ------------------------------
(* Small instances of AgentSerial for TLC.                                 *)
EXTENDS AgentSerial

CONSTANTS x, cr, p1

MCPayloads == UNION {[1..n -> Letters] : n \in 1..LineBytes}
MCSizeOf == [payload \in MCPayloads |-> Len(payload)]
MCMatching == {payload \in MCPayloads : \E i \in 1..(Len(payload) - 1) :
                                            payload[i] = x /\ payload[i + 1] = x}
MCForeign == {[port |-> p1, dir |-> "TX", payload |-> <<x, x>>]}
=============================================================================
