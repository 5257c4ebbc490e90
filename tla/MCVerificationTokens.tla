------------------------- MODULE MCVerificationTokens -------------------------
(***************************************************************************)
(* VerificationTokens for TLC.                                             *)
(***************************************************************************)
EXTENDS VerificationTokens, TLC

Symmetry == Permutations(Worker) \cup Permutations(Token)
=============================================================================
