-------------------------- MODULE MCProcessSupervisor --------------------------
(* Small instances of ProcessSupervisor for TLC.                           *)
EXTENDS ProcessSupervisor
=============================================================================
