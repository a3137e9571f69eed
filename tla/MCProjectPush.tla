----------------------------- MODULE MCProjectPush -----------------------------
(* A small instance of ProjectPush for TLC.                                *)
EXTENDS ProjectPush, TLC

Symmetry == Permutations(Files) \cup Permutations(Contents) \cup Permutations(Callers)
=============================================================================
