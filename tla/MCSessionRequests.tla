-------------------------- MODULE MCSessionRequests --------------------------
(***************************************************************************)
(* SessionRequests for TLC: sessions and requests are interchangeable.     *)
(***************************************************************************)
EXTENDS SessionRequests, TLC

Symmetry == Permutations(Request) \cup Permutations(Session)
=============================================================================
