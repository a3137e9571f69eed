------------------------------- MODULE PortLease -------------------------------
(***************************************************************************)
(* What the serial broker promises about a port, stripped of sessions,     *)
(* connections and threads: at any moment a port is free or leased with    *)
(* one serial configuration.  Everybody who uses the port while it is      *)
(* leased uses that configuration, and it never changes under them: the    *)
(* port has to be given back before it can be leased with another one.     *)
(***************************************************************************)
CONSTANTS Ports,     \* serial ports
          Configs,   \* serial configurations
          Free       \* the port is not leased; not a configuration

VARIABLE lease       \* the configuration each port is leased with

Init == lease = [p \in Ports |-> Free]

Grant(p, config) ==
    /\ lease[p] = Free
    /\ lease' = [lease EXCEPT ![p] = config]

Release(p) ==
    /\ lease[p] # Free
    /\ lease' = [lease EXCEPT ![p] = Free]

Next == \E p \in Ports : Release(p) \/ \E config \in Configs : Grant(p, config)

Spec == Init /\ [][Next]_lease
=============================================================================
