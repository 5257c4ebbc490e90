------------------------------ MODULE OneTimeToken ------------------------------
(***************************************************************************)
(* What a one-time token promises: once issued it is either withdrawn or   *)
(* spent, never both, and what it was spent for happens at most once.      *)
(***************************************************************************)
CONSTANT Token

VARIABLE state  \* state[t]: where t is in its life

Init == state = [t \in Token |-> "unissued"]

Issue(t) ==
  /\ state[t] = "unissued"
  /\ state' = [state EXCEPT ![t] = "live"]

\* A newer token of the same kind replaces those still live.
Withdraw(T) ==
  /\ T # {}
  /\ \A t \in T : state[t] = "live"
  /\ state' = [t \in Token |-> IF t \in T THEN "withdrawn" ELSE state[t]]

Spend(t) ==
  /\ state[t] = "live"
  /\ state' = [state EXCEPT ![t] = "spent"]

\* The login or the new password the token was spent for.
Grant(t) ==
  /\ state[t] = "spent"
  /\ state' = [state EXCEPT ![t] = "granted"]

Next ==
  \/ \E t \in Token : Issue(t) \/ Spend(t) \/ Grant(t)
  \/ \E T \in SUBSET Token : Withdraw(T)

Spec == Init /\ [][Next]_state
=============================================================================
