-------------------------- MODULE MCPrincipalSessions --------------------------
(***************************************************************************)
(* PrincipalSessions for TLC.                                              *)
(***************************************************************************)
EXTENDS PrincipalSessions, TLC

WorkerSymmetry == Permutations(Worker)
=============================================================================
