------------------------------ MODULE TokenChain ------------------------------
(***************************************************************************)
(* What refresh-token rotation promises: the tokens of a login form a      *)
(* chain.  At most one of them can be used, a used one is used up, and a   *)
(* used one is followed by at most one new token.                          *)
(***************************************************************************)
CONSTANTS
  Family,  \* logins that issued a refresh token
  Token

VARIABLES
  issued,  \* issued[f]: the tokens of f so far
  usable   \* usable[f]: those of them that are accepted

vars == <<issued, usable>>

Init ==
  /\ issued = [f \in Family |-> {}]
  /\ usable = [f \in Family |-> {}]

\* The login issues its first token.
Open(f, t) ==
  /\ issued[f] = {}
  /\ \A g \in Family : t \notin issued[g]
  /\ issued' = [issued EXCEPT ![f] = {t}]
  /\ usable' = [usable EXCEPT ![f] = {t}]

Use(f, t) ==
  /\ usable[f] = {t}
  /\ usable' = [usable EXCEPT ![f] = {}]
  /\ UNCHANGED issued

Renew(f, t) ==
  /\ issued[f] # {} /\ usable[f] = {}
  /\ \A g \in Family : t \notin issued[g]
  /\ issued' = [issued EXCEPT ![f] = @ \cup {t}]
  /\ usable' = [usable EXCEPT ![f] = {t}]

Next == \E f \in Family, t \in Token : Open(f, t) \/ Use(f, t) \/ Renew(f, t)

Spec == Init /\ [][Next]_vars
=============================================================================
