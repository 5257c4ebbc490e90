----------------------------- MODULE AuthSessions -----------------------------
(***************************************************************************)
(* The sessions of one principal, from the login that creates them to      *)
(* their removal, against a principal that changes meanwhile.              *)
(*                                                                         *)
(* A login reads the principal, checks the credentials, and creates the    *)
(* session later from the instance it read: the instance may be stale by   *)
(* then.  A session records the security stamp of that instance, and is    *)
(* valid while the stored stamp is the same.                               *)
(*                                                                         *)
(* Each operation on a session loads the row and saves it.  A save of an   *)
(* image that is not the stored one raises and changes nothing (see        *)
(* VersionedRow), and so does one of incoherent columns: an operation that *)
(* succeeds is a single step here.  The bulk updates validate nothing.     *)
(*                                                                         *)
(* idle_expires_at and expires_at are set at creation and never extended:  *)
(* life.expires_at stands for the earlier of the two.  No check reads      *)
(* revoked_at and logged_out_at, nor last_seen_at: logout(), which writes  *)
(* only logged_out_at, and touch() are left out.                           *)
(***************************************************************************)
EXTENDS Lifecycle

CONSTANTS
  Worker,         \* logins and token refreshes in progress
  AuthSession,    \* session rows
  PrincipalLife,  \* lifecycle columns the principal may take
  Duration,       \* session and lock lifetimes, in ticks of the clock
  MaxNow,         \* bound: the last instant of the clock
  MaxStamp        \* bound: the largest security stamp

ASSUME ActorAssumption == Worker \cap AuthSession = {}
ASSUME PrincipalAssumption ==
  /\ PrincipalLife \subseteq Columns
  /\ Unrestricted \in PrincipalLife
ASSUME DurationAssumption == Duration \subseteq Nat \ {0}
ASSUME BoundAssumption == MaxNow \in Nat /\ MaxStamp \in Nat \ {0}

VARIABLES
  now,        \* timezone.now()
  principal,  \* the stored lifecycle columns and security stamp
  read,       \* read[w]: the instance of the principal a login works with
  sessions,   \* sessions[s]: the stored row of s
  current     \* ghost: logins and sessions whose principal was read after its
              \* last cut (a restriction, or a bump of the stamp)

sessionsVars == <<now, principal, read, sessions, current>>

Image == [stamp : Nat, life : Columns]
NoImage == [stamp |-> 0, life |-> Unrestricted]

\* stamp is security_stamp_at_issue, 0 when the row does not exist; pending is
\* that the metadata's auth_status is there and not "authenticated".
Row == [stamp : Nat, pending : BOOLEAN, life : Columns]
NoRow == [stamp |-> 0, pending |-> FALSE, life |-> Unrestricted]

SessionsTypeOK ==
  /\ now \in Nat \ {0}
  /\ principal \in Image
  /\ read \in [Worker -> Image]
  /\ sessions \in [AuthSession -> Row]
  /\ current \subseteq Worker \cup AuthSession

SessionsInit ==
  /\ now = 1
  /\ principal = [stamp |-> 1, life |-> Unrestricted]
  /\ read = [w \in Worker |-> NoImage]
  /\ sessions = [s \in AuthSession |-> NoRow]
  /\ current = {}

Stored(s) == sessions[s].stamp # 0
Terminal(s) == sessions[s].life.disabled \/ sessions[s].life.deleted

-----------------------------------------------------------------------------
(***************************************************************************)
(* Validity, as the property of an instance and as a queryset.             *)
(***************************************************************************)

\* AuthSession.is_valid, on an instance read with its principal.
IsValid(s) ==
  LET life == sessions[s].life IN
  /\ Stored(s)
  /\ ~(life.deleted \/ life.disabled \/ life.suspended)
  /\ ~sessions[s].pending
  /\ ~IsExpired(life, now)
  /\ ~IsLocked(life, now)
  /\ CanAuthenticate(principal.life, now)
  /\ sessions[s].stamp = principal.stamp

\* AuthSession.objects.valid() selects s.
InValidQueryset(s) ==
  LET life == sessions[s].life IN
  /\ Stored(s)
  /\ ~(life.deleted \/ life.disabled \/ life.suspended)
  /\ life.expires_at = NoExpiry \/ life.expires_at > now
  /\ life.locked_until = NoLock \/ life.locked_until <= now
  /\ ~(principal.life.deleted \/ principal.life.disabled)
  /\ sessions[s].stamp = principal.stamp

-----------------------------------------------------------------------------
(***************************************************************************)
(* The clock and the principal.                                            *)
(***************************************************************************)
Tick ==
  /\ now < MaxNow
  /\ now' = now + 1
  /\ UNCHANGED <<principal, read, sessions, current>>

Contract == INSTANCE SecurityStamp WITH life <- principal.life, stamp <- principal.stamp

\* What is meant to end the sessions that exist.
Cut(old, new) == Restricts(old.life, new.life) \/ new.stamp # old.stamp

\* A plausible defect of PrincipalWrites: a restriction may leave the stamp.
PrincipalWritesUnstamped ==
  /\ principal' \in [stamp : principal.stamp .. MaxStamp, life : PrincipalLife]
  /\ Coherent(principal'.life)
  /\ current' = IF Cut(principal, principal') THEN {} ELSE current
  /\ UNCHANGED <<now, read, sessions>>

\* A save of the principal: anything its contract allows.  PrincipalLifecycle
\* models the operations and implements the contract.
PrincipalWrites ==
  /\ principal' \in [stamp : principal.stamp .. MaxStamp, life : PrincipalLife]
  /\ Contract!Allowed(principal, principal')
  /\ current' = IF Cut(principal, principal') THEN {} ELSE current
  /\ UNCHANGED <<now, read, sessions>>

-----------------------------------------------------------------------------
(***************************************************************************)
(* Login.                                                                  *)
(***************************************************************************)

\* The principal is loaded; the credential checks that follow are not modelled.
BeginLogin(w) ==
  /\ read[w] = NoImage
  /\ CanAuthenticate(principal.life, now)
  /\ read' = [read EXCEPT ![w] = principal]
  /\ current' = current \cup {w}
  /\ UNCHANGED <<now, principal, sessions>>

\* A plausible defect of CreateSession: the stamp is the stored one, not the one
\* that was read with the credentials.
CreateSessionFreshStamp(w, s, expires_at, pending) ==
  /\ read[w] # NoImage
  /\ ~Stored(s)
  /\ CanAuthenticate(read[w].life, now)
  /\ sessions' = [sessions EXCEPT ![s] =
       [stamp |-> principal.stamp, pending |-> pending,
        life |-> [Unrestricted EXCEPT !.expires_at = expires_at]]]
  /\ current' = (current \ {w, s}) \cup (IF w \in current THEN {s} ELSE {})
  /\ read' = [read EXCEPT ![w] = NoImage]
  /\ UNCHANGED <<now, principal>>

\* create_session() without a limit on the sessions of a principal: the checks
\* and the stamp are those of the instance at hand, however old.
CreateSession(w, s, expires_at, pending) ==
  /\ read[w] # NoImage
  /\ ~Stored(s)
  /\ CanAuthenticate(read[w].life, now)
  /\ sessions' = [sessions EXCEPT ![s] =
       [stamp |-> read[w].stamp, pending |-> pending,
        life |-> [Unrestricted EXCEPT !.expires_at = expires_at]]]
  /\ current' = (current \ {w, s}) \cup (IF w \in current THEN {s} ELSE {})
  /\ read' = [read EXCEPT ![w] = NoImage]
  /\ UNCHANGED <<now, principal>>

\* create_session() raises, or the credentials were wrong.
AbandonLogin(w) ==
  /\ read[w] # NoImage
  /\ read' = [read EXCEPT ![w] = NoImage]
  /\ current' = current \ {w}
  /\ UNCHANGED <<now, principal, sessions>>

-----------------------------------------------------------------------------
(***************************************************************************)
(* Operations on a session.                                                *)
(***************************************************************************)

\* save() of s; incoherent columns raise.
Save(s, life) ==
  /\ Stored(s)
  /\ Coherent(life)
  /\ sessions' = [sessions EXCEPT ![s].life = life]
  /\ UNCHANGED <<now, principal, read, current>>

Lock(s, duration) == Save(s, Locked(sessions[s].life, now + duration))

Unlock(s) ==
  /\ IsLocked(sessions[s].life, now)
  /\ Save(s, Unlocked(sessions[s].life))

Suspend(s) == Save(s, Suspended(sessions[s].life))

Unsuspend(s) ==
  /\ sessions[s].life.suspended
  /\ Save(s, Unsuspended(sessions[s].life, now))

Revoke(s) == Save(s, Disabled(sessions[s].life))

\* Inherited from LifecycleMixin, for a revoked session too.
Enable(s) ==
  /\ sessions[s].life.disabled
  /\ Save(s, Enabled(sessions[s].life, now))

SoftDelete(s) ==
  /\ ~sessions[s].life.deleted
  /\ Save(s, [sessions[s].life EXCEPT !.deleted = TRUE])

Restore(s) ==
  /\ sessions[s].life.deleted
  /\ Save(s, [sessions[s].life EXCEPT !.deleted = FALSE])

\* A queryset update of the given rows: is_active is left as it is.
BulkDisable(rows) ==
  /\ sessions' =
       [s \in AuthSession |->
          IF s \in rows
            THEN [sessions[s] EXCEPT !.life.disabled = TRUE]
            ELSE sessions[s]]
  /\ UNCHANGED <<now, principal, read, current>>

\* terminate_all_for_principal(except_session=...).
TerminateAll(spared) ==
  BulkDisable({s \in AuthSession \ spared : Stored(s) /\ ~Terminal(s)})

\* DatabaseSessionBackend.clear_expired: rows are those whose absolute expiry
\* has passed; it does not look at the idle one.
ClearExpired(rows) ==
  /\ \A s \in rows : /\ Stored(s) /\ ~Terminal(s)
                     /\ IsExpired(sessions[s].life, now)
  /\ BulkDisable(rows)

\* cleanup_terminal(): the queryset is not a soft-deleting one, so the rows that
\* were left alone for long enough go.
CleanupTerminal(rows) ==
  /\ \A s \in rows : Stored(s) /\ Terminal(s)
  /\ sessions' = [s \in AuthSession |-> IF s \in rows THEN NoRow ELSE sessions[s]]
  /\ current' = current \ rows
  /\ UNCHANGED <<now, principal, read>>

-----------------------------------------------------------------------------
SessionOperation(s) ==
  \/ \E duration \in Duration : Lock(s, duration)
  \/ Unlock(s)
  \/ Suspend(s)
  \/ Unsuspend(s)
  \/ Revoke(s)
  \/ Enable(s)
  \/ SoftDelete(s)
  \/ Restore(s)

\* What does not change the principal.
SessionsStep ==
  \/ \E w \in Worker :
       \/ BeginLogin(w)
       \/ AbandonLogin(w)
       \/ \E s \in AuthSession, pending \in BOOLEAN :
            \/ CreateSession(w, s, NoExpiry, pending)
            \/ \E ttl \in Duration : CreateSession(w, s, now + ttl, pending)
  \/ \E s \in AuthSession : SessionOperation(s)
  \/ \E spared \in {{}} \cup {{s} : s \in AuthSession} : TerminateAll(spared)
  \/ \E rows \in SUBSET AuthSession : ClearExpired(rows) \/ CleanupTerminal(rows)

SessionsNext == Tick \/ PrincipalWrites \/ SessionsStep

SessionsSpec == SessionsInit /\ [][SessionsNext]_sessionsVars

-----------------------------------------------------------------------------
\* Every session that is valid was created by a login that read the principal
\* after it was last locked, suspended or disabled or its stamp was bumped,
\* however the login was interleaved with that and however the restriction was
\* lifted since.
NoSessionOutlivesCut == \A s \in AuthSession : IsValid(s) => s \in current

\* The querysets do not look at the suspension or the lock of the principal.
\* They need not: while a session carries the stored stamp the principal has
\* neither, so valid() selects what is_valid accepts, but for the pending status
\* and the expiry of the principal, which it does not look at either.
FilterMatchesCheck ==
  \A s \in AuthSession :
    IsValid(s) <=> /\ InValidQueryset(s)
                   /\ ~sessions[s].pending
                   /\ ~IsExpired(principal.life, now)
=============================================================================
