------------------------------- MODULE RemoteCall -------------------------------
(***************************************************************************)
(* What RDKLink promises of a job that a client asks for: one call to the  *)
(* agent, or a project_add.  It is carried out at most once; an            *)
(* answer that says it was done is true, and so is one that says it was    *)
(* refused.  A request given up - after a timeout, a lost connection or an *)
(* error of unknown cause - may have been carried out, or be carried out   *)
(* later, and is not answered any more.                                    *)
(***************************************************************************)
EXTENDS Naturals

VARIABLES
    status,      \* what the client knows of the job
    acted        \* how often it was carried out

vars == <<status, acted>>

Init == status = "unsent" /\ acted = 0

Send == status = "unsent" /\ status' = "open" /\ UNCHANGED acted

Act == acted = 0 /\ status \in {"open", "unknown"} /\ acted' = 1 /\ UNCHANGED status

Succeed == status = "open" /\ acted = 1 /\ status' = "done" /\ UNCHANGED acted

Refuse == status = "open" /\ acted = 0 /\ status' = "refused" /\ UNCHANGED acted

GiveUp == status = "open" /\ status' = "unknown" /\ UNCHANGED acted

Next == Send \/ Act \/ Succeed \/ Refuse \/ GiveUp

Spec == Init /\ [][Next]_vars
=============================================================================
