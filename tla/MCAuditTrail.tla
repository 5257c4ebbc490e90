----------------------------- MODULE MCAuditTrail -----------------------------
(***************************************************************************)
(* AuditTrail for TLC.                                                     *)
(***************************************************************************)
EXTENDS AuditTrail, TLC

MCField == {"name", "status"}
MCState == [MCField -> {0, 1}]
\* Two rows that differ in one column.
MCTwoStates == {s \in MCState : s["status"] = 0}

Symmetry == Permutations(Worker)
=============================================================================
