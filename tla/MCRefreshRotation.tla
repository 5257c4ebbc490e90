--------------------------- MODULE MCRefreshRotation ---------------------------
(***************************************************************************)
(* RefreshRotation for TLC.                                                *)
(***************************************************************************)
EXTENDS RefreshRotation, TLC

Symmetry == Permutations(Worker) \cup Permutations(Credential) \cup Permutations(Family)
=============================================================================
