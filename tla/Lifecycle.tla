------------------------------- MODULE Lifecycle -------------------------------
(***************************************************************************)
(* LifecycleMixin as functions on the lifecycle columns of one instance.   *)
(* Disable, lock and suspend are independent restrictions; is_active is a  *)
(* stored column that is meant to be TRUE exactly when none is set.  A     *)
(* lock carries the time it ends; nothing rewrites the columns then.       *)
(*                                                                         *)
(* Reasons, actors and the *_at times of the other restrictions only       *)
(* record who and when, and are left out.                                  *)
(***************************************************************************)
EXTENDS Naturals

\* locked_until and expires_at when they are NULL; every instant is positive.
NoLock == 0
NoExpiry == 0

Columns ==
  [is_active : BOOLEAN, disabled : BOOLEAN, suspended : BOOLEAN,
   locked_until : Nat, expires_at : Nat, deleted : BOOLEAN]

Unrestricted ==
  [is_active |-> TRUE, disabled |-> FALSE, suspended |-> FALSE,
   locked_until |-> NoLock, expires_at |-> NoExpiry, deleted |-> FALSE]

HasLock(c) == c.locked_until # NoLock

\* The property is_locked: a lock that has not ended yet.
IsLocked(c, now) == HasLock(c) /\ now < c.locked_until

\* A lock whose time has passed but whose columns are still set.
LockLapsed(c, now) == HasLock(c) /\ now >= c.locked_until

\* The property is_expired.
IsExpired(c, now) == c.expires_at # NoExpiry /\ now >= c.expires_at

\* What LifecycleValidator accepts.  It looks at the lock columns, not at the
\* clock: a lapsed lock is still a restriction here.
Coherent(c) == c.is_active <=> ~(c.disabled \/ c.suspended \/ HasLock(c))

-----------------------------------------------------------------------------
(***************************************************************************)
(* Transitions.  Restricting always assigns; each lifting operation is     *)
(* called only while its own property holds (the early return), and        *)
(* reactivates only when the other two properties do not.                  *)
(***************************************************************************)
Disabled(c) == [c EXCEPT !.disabled = TRUE, !.is_active = FALSE]
Suspended(c) == [c EXCEPT !.suspended = TRUE, !.is_active = FALSE]
Locked(c, until) == [c EXCEPT !.locked_until = until, !.is_active = FALSE]

Enabled(c, now) ==
  [c EXCEPT !.disabled = FALSE,
            !.is_active = @ \/ ~(IsLocked(c, now) \/ c.suspended)]

Unsuspended(c, now) ==
  [c EXCEPT !.suspended = FALSE,
            !.is_active = @ \/ ~(IsLocked(c, now) \/ c.disabled)]

Unlocked(c) ==
  [c EXCEPT !.locked_until = NoLock,
            !.is_active = @ \/ ~(c.disabled \/ c.suspended)]

\* Principal.can_authenticate.
CanAuthenticate(c, now) ==
  /\ c.is_active
  /\ ~(c.deleted \/ c.disabled \/ IsLocked(c, now) \/ c.suspended \/ IsExpired(c, now))

\* new carries a restriction that old does not: what lock, suspend and disable
\* do, a prolonged lock included.
Restricts(old, new) ==
  \/ new.disabled /\ ~old.disabled
  \/ new.suspended /\ ~old.suspended
  \/ HasLock(new) /\ new.locked_until # old.locked_until
=============================================================================
