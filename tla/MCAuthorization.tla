--------------------------- MODULE MCAuthorization ---------------------------
(***************************************************************************)
(* Authorization for TLC.                                                  *)
(***************************************************************************)
EXTENDS Authorization, TLC

CONSTANTS r1, r2, r3

\* Two roles and one not yet created; or a chain of three.
MCHierarchies ==
  {[r \in {r1, r2} |-> NoRole],
   (r1 :> NoRole @@ r2 :> r1 @@ r3 :> r2)}

\* The policy denies, allows, or has a condition that nobody can parse.
MCRules ==
  {[effect |-> "deny", applies |-> TRUE, outcome |-> "true"],
   [effect |-> "allow", applies |-> TRUE, outcome |-> "true"],
   [effect |-> "allow", applies |-> TRUE, outcome |-> "malformed"]}
=============================================================================
