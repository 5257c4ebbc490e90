----------------------------- MODULE SecurityStamp -----------------------------
(***************************************************************************)
(* What a Principal promises to the sessions and tokens issued for it:     *)
(* its stored columns are coherent, its stamp never goes back, and every   *)
(* lock, suspension or disabling comes with a larger stamp.  Lifting a     *)
(* restriction, deleting and restoring need not bump it (delete() does     *)
(* not, soft_delete() does).                                               *)
(***************************************************************************)
EXTENDS Lifecycle

VARIABLES life, stamp, now

vars == <<life, stamp, now>>

Init ==
  /\ life \in Columns /\ Coherent(life)
  /\ stamp \in Nat
  /\ now \in Nat

\* What a write may do to a principal: old and new are [life, stamp] records.
Allowed(old, new) ==
  /\ Coherent(new.life)
  /\ new.stamp >= old.stamp
  /\ Restricts(old.life, new.life) => new.stamp > old.stamp

Write ==
  /\ life' \in Columns /\ stamp' \in Nat
  /\ Allowed([life |-> life, stamp |-> stamp], [life |-> life', stamp |-> stamp'])
  /\ UNCHANGED now

Tick ==
  /\ now' \in Nat /\ now' > now
  /\ UNCHANGED <<life, stamp>>

Next == Write \/ Tick

Spec == Init /\ [][Next]_vars
=============================================================================
