----------------------------- MODULE MCProvisioning -----------------------------
(***************************************************************************)
(* Two requests, two principals, a name in two spellings and the name that  *)
(* is generated from the identifier.                                         *)
(***************************************************************************)
EXTENDS Provisioning, TLC

CONSTANTS w1, w2, p1, p2, bob, Bob, svc, i1

MCWorker == {w1, w2}
MCPrincipal == {p1, p2}
MCUsername == {bob, Bob, svc}
MCIdentifier == {i1}
MCLower == (bob :> bob) @@ (Bob :> bob) @@ (svc :> svc)
MCGenerated == [kind \in Kind \ {"user"} |-> [i \in MCIdentifier |-> svc]]
MCSymmetry == Permutations(MCWorker) \cup Permutations(MCPrincipal)
=============================================================================
