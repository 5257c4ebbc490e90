---------------------------- MODULE MCAuthSessions ----------------------------
(***************************************************************************)
(* AuthSessions for TLC: a principal that can be in the ways a session     *)
(* check tells apart.                                                      *)
(***************************************************************************)
EXTENDS AuthSessions, TLC

MCPrincipalLife ==
  {Unrestricted,
   Suspended(Unrestricted),
   Disabled(Unrestricted),
   Locked(Unrestricted, 2),
   [Unrestricted EXCEPT !.expires_at = 2],
   [Unrestricted EXCEPT !.deleted = TRUE]}

Symmetry == Permutations(Worker) \cup Permutations(AuthSession)
===============================================================================
