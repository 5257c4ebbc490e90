---------------------------- MODULE Sessions_proofs ----------------------------
(***************************************************************************)
(* Proofs about AuthSessions, for every number of logins and sessions and  *)
(* every set of states of the principal: no session outlives a cut, and    *)
(* the queryset of valid sessions may skip two of the checks.  Both rest   *)
(* on what a stamp read earlier says of the principal now: it is not       *)
(* newer, it is older if there was a cut since, and if it is the stored    *)
(* one the principal carries no restriction.                               *)
(***************************************************************************)
EXTENDS AuthSessions, TLAPS

Open(c) == ~c.disabled /\ ~c.suspended /\ ~HasLock(c)

\* What is known of a stamp that a login or a session x carries.
Bound(stamp, x) ==
  stamp # 0 =>
    /\ stamp <= principal.stamp
    /\ x \notin current => stamp < principal.stamp
    /\ stamp = principal.stamp => Open(principal.life)

SessionsInv ==
  /\ SessionsTypeOK
  /\ Coherent(principal.life)
  /\ \A w \in Worker : Bound(read[w].stamp, w)
  /\ \A s \in AuthSession : Bound(sessions[s].stamp, s)

USE ActorAssumption, PrincipalAssumption, DurationAssumption, BoundAssumption

\* The transitions keep columns typed.
LEMMA TransitionType ==
  ASSUME NEW c \in Columns, NEW t \in Nat, NEW until \in Nat
  PROVE  /\ Disabled(c) \in Columns
         /\ Suspended(c) \in Columns
         /\ Locked(c, until) \in Columns
         /\ Enabled(c, t) \in Columns
         /\ Unsuspended(c, t) \in Columns
         /\ Unlocked(c) \in Columns
         /\ [c EXCEPT !.deleted = TRUE] \in Columns
         /\ [c EXCEPT !.deleted = FALSE] \in Columns
<1>1. /\ Disabled(c) \in Columns
      /\ Suspended(c) \in Columns
      /\ Locked(c, until) \in Columns
      /\ [c EXCEPT !.deleted = TRUE] \in Columns
      /\ [c EXCEPT !.deleted = FALSE] \in Columns
  BY DEF Columns, Disabled, Suspended, Locked
<1>2. \A b : (c.is_active \/ b) \in BOOLEAN
  OBVIOUS
<1>3. Enabled(c, t) \in Columns
  BY <1>2 DEF Columns, Enabled
<1>4. Unsuspended(c, t) \in Columns
  BY <1>2 DEF Columns, Unsuspended
<1>5. Unlocked(c) \in Columns
  BY <1>2 DEF Columns, Unlocked, NoLock
<1> QED  BY <1>1, <1>3, <1>4, <1>5

\* Who may authenticate carries no restriction, be it a lapsed lock.
LEMMA AuthenticatesOpen ==
  ASSUME NEW c \in Columns, NEW t \in Nat, Coherent(c)
  PROVE  /\ CanAuthenticate(c, t) => Open(c)
         /\ Open(c) => c.is_active /\ ~IsLocked(c, t)
BY DEF Coherent, CanAuthenticate, Open, IsLocked

LEMMA SessionsInvInit == SessionsInit => SessionsInv
BY DEF SessionsInit, SessionsInv, SessionsTypeOK, Image, NoImage, Row, NoRow, Columns,
   Unrestricted, NoLock, NoExpiry, Coherent, HasLock, Bound

\* A write of the principal that is no cut leaves it open, or raises the stamp.
LEMMA WritePreserves == SessionsInv /\ PrincipalWrites => SessionsInv'
<1> SUFFICES ASSUME SessionsInv, PrincipalWrites
             PROVE  SessionsInv'
  OBVIOUS
<1>1. PICK new \in [stamp : principal.stamp .. MaxStamp, life : PrincipalLife] :
        /\ Contract!Allowed(principal, new)
        /\ principal' = new
        /\ current' = IF Cut(principal, new) THEN {} ELSE current
        /\ UNCHANGED <<now, read, sessions>>
  BY DEF PrincipalWrites
<1>2. new \in Image /\ principal \in Image /\ new.stamp >= principal.stamp
  BY <1>1 DEF Image, SessionsInv, SessionsTypeOK
<1>3. Coherent(new.life)
  BY <1>1 DEF Contract!Allowed, Contract!Coherent, Contract!HasLock, Contract!NoLock,
     Coherent, HasLock, NoLock
<1>4. SessionsTypeOK'
  BY <1>1, <1>2 DEF SessionsInv, SessionsTypeOK
<1>5. ASSUME NEW stamp \in Nat, NEW x, Bound(stamp, x)
      PROVE  Bound(stamp, x)'
  <2>1. CASE new.stamp = principal.stamp
    <3>1. ~Restricts(principal.life, new.life)
      BY <1>1, <1>2, <2>1 DEF Contract!Allowed, Contract!Restricts, Contract!HasLock,
         Contract!NoLock, Restricts, HasLock, NoLock, Image
    <3>2. current' = current
      BY <1>1, <2>1, <3>1 DEF Cut
    <3>3. Open(principal.life) => Open(new.life)
      BY <1>2, <3>1 DEF Open, Restricts, HasLock, Image, Columns
    <3> QED  BY <1>1, <1>5, <2>1, <3>2, <3>3 DEF Bound
  <2>2. CASE new.stamp > principal.stamp
    BY <1>1, <1>2, <1>5, <2>2 DEF Bound, Image
  <2> QED  BY <1>2, <2>1, <2>2 DEF Image
<1>6. (\A w \in Worker : Bound(read[w].stamp, w))'
  <2> SUFFICES ASSUME NEW w \in Worker PROVE Bound(read[w].stamp, w)'
    OBVIOUS
  <2>1. read' = read /\ read[w].stamp \in Nat /\ Bound(read[w].stamp, w)
    BY <1>1 DEF SessionsInv, SessionsTypeOK, Image
  <2> QED  BY <1>5, <2>1 DEF Bound
<1>7. (\A s \in AuthSession : Bound(sessions[s].stamp, s))'
  <2> SUFFICES ASSUME NEW s \in AuthSession PROVE Bound(sessions[s].stamp, s)'
    OBVIOUS
  <2>1. sessions' = sessions /\ sessions[s].stamp \in Nat /\ Bound(sessions[s].stamp, s)
    BY <1>1 DEF SessionsInv, SessionsTypeOK, Row
  <2> QED  BY <1>5, <2>1 DEF Bound
<1> QED  BY <1>1, <1>3, <1>4, <1>6, <1>7 DEF SessionsInv

LEMMA BeginLoginPreserves ==
  ASSUME SessionsInv, NEW w \in Worker, BeginLogin(w)
  PROVE  SessionsInv'
<1>1. principal \in Image /\ now \in Nat /\ principal.life \in Columns /\ principal.stamp \in Nat
  BY DEF SessionsInv, SessionsTypeOK, Image
<1>2. Open(principal.life)
  BY <1>1, AuthenticatesOpen DEF BeginLogin, SessionsInv
<1>3. SessionsTypeOK'
  BY <1>1 DEF SessionsInv, SessionsTypeOK, BeginLogin
<1>4. ASSUME NEW v \in Worker
      PROVE  Bound(read[v].stamp, v)'
  <2>1. CASE v = w
    BY <1>1, <1>2, <2>1 DEF BeginLogin, Bound, SessionsInv, SessionsTypeOK
  <2>2. CASE v # w
    BY <2>2 DEF BeginLogin, Bound, SessionsInv, SessionsTypeOK
  <2> QED  BY <2>1, <2>2
<1>5. ASSUME NEW s \in AuthSession
      PROVE  Bound(sessions[s].stamp, s)'
  BY DEF BeginLogin, Bound, SessionsInv
<1> QED  BY <1>3, <1>4, <1>5 DEF BeginLogin, SessionsInv

LEMMA AbandonLoginPreserves ==
  ASSUME SessionsInv, NEW w \in Worker, AbandonLogin(w)
  PROVE  SessionsInv'
<1>1. SessionsTypeOK'
  BY DEF SessionsInv, SessionsTypeOK, AbandonLogin, NoImage, Image, Columns, Unrestricted,
     NoLock, NoExpiry
<1>2. ASSUME NEW v \in Worker
      PROVE  Bound(read[v].stamp, v)'
  <2>1. CASE v = w
    BY <2>1 DEF AbandonLogin, Bound, SessionsInv, SessionsTypeOK, NoImage
  <2>2. CASE v # w
    BY <2>2 DEF AbandonLogin, Bound, SessionsInv, SessionsTypeOK
  <2> QED  BY <2>1, <2>2
<1>3. ASSUME NEW s \in AuthSession
      PROVE  Bound(sessions[s].stamp, s)'
  BY DEF AbandonLogin, Bound, SessionsInv
<1> QED  BY <1>1, <1>2, <1>3 DEF AbandonLogin, SessionsInv

\* The new session takes over the stamp of the login, and whether a cut came
\* after it.
LEMMA CreateSessionPreserves ==
  ASSUME SessionsInv, NEW w \in Worker, NEW s \in AuthSession, NEW expires_at \in Nat,
         NEW pending \in BOOLEAN, CreateSession(w, s, expires_at, pending)
  PROVE  SessionsInv'
<1>1. [Unrestricted EXCEPT !.expires_at = expires_at] \in Columns
  BY DEF Unrestricted, Columns, NoLock
<1>2. read[w] \in Image /\ read[w].stamp \in Nat
  BY DEF SessionsInv, SessionsTypeOK, Image
<1> DEFINE row == [stamp |-> read[w].stamp, pending |-> pending,
                   life |-> [Unrestricted EXCEPT !.expires_at = expires_at]]
<1>3. row \in Row /\ row.stamp = read[w].stamp
  BY <1>1, <1>2 DEF Row
<1>4. sessions' = [sessions EXCEPT ![s] = row]
  BY DEF CreateSession
<1>5. SessionsTypeOK'
  BY <1>3, <1>4 DEF SessionsInv, SessionsTypeOK, CreateSession, NoImage, Image, Columns,
     Unrestricted, NoLock, NoExpiry
<1>6. ASSUME NEW v \in Worker
      PROVE  Bound(read[v].stamp, v)'
  <2>1. CASE v = w
    BY <2>1 DEF CreateSession, Bound, SessionsInv, SessionsTypeOK, NoImage
  <2>2. CASE v # w
    BY <2>2 DEF CreateSession, Bound, SessionsInv, SessionsTypeOK
  <2> QED  BY <2>1, <2>2
<1>7. ASSUME NEW t \in AuthSession
      PROVE  Bound(sessions[t].stamp, t)'
  <2>1. CASE t = s
    <3>1. sessions'[s].stamp = read[w].stamp /\ principal' = principal
      BY <1>3, <1>4 DEF SessionsInv, SessionsTypeOK, CreateSession
    <3>2. s \in current' <=> w \in current
      BY DEF CreateSession
    <3>3. Bound(read[w].stamp, w)
      BY DEF SessionsInv
    <3> QED  BY <2>1, <3>1, <3>2, <3>3 DEF Bound
  <2>2. CASE t # s
    <3>1. sessions'[t] = sessions[t] /\ principal' = principal
      BY <1>4, <2>2 DEF SessionsInv, SessionsTypeOK, CreateSession
    <3>2. t \in current' <=> t \in current
      BY <2>2 DEF CreateSession
    <3>3. Bound(sessions[t].stamp, t)
      BY DEF SessionsInv
    <3> QED  BY <3>1, <3>2, <3>3 DEF Bound
  <2> QED  BY <2>1, <2>2
<1> QED  BY <1>5, <1>6, <1>7 DEF CreateSession, SessionsInv

\* A step that only rewrites rows, keeping the stamp of each or removing it.
LEMMA RowsPreserve ==
  ASSUME SessionsInv, sessions' \in [AuthSession -> Row],
         \A s \in AuthSession : \/ sessions'[s].stamp = sessions[s].stamp
                            \/ sessions'[s].stamp = 0,
         \A s \in AuthSession : sessions'[s].stamp # 0 => (s \in current' <=> s \in current),
         \A w \in Worker : w \in current' <=> w \in current,
         current' \subseteq current,
         UNCHANGED <<now, principal, read>>
  PROVE  SessionsInv'
<1>1. SessionsTypeOK'
  BY DEF SessionsInv, SessionsTypeOK
<1>2. ASSUME NEW w \in Worker
      PROVE  Bound(read[w].stamp, w)'
  BY DEF SessionsInv, Bound
<1>3. ASSUME NEW s \in AuthSession
      PROVE  Bound(sessions[s].stamp, s)'
  BY DEF SessionsInv, Bound
<1> QED  BY <1>1, <1>2, <1>3 DEF SessionsInv

LEMMA SavePreserves ==
  ASSUME SessionsInv, NEW s \in AuthSession, NEW life \in Columns,
         Save(s, life)
  PROVE  SessionsInv'
<1>1. sessions \in [AuthSession -> Row]
  BY DEF SessionsInv, SessionsTypeOK
<1>2. /\ sessions' \in [AuthSession -> Row]
      /\ \A t \in AuthSession : sessions'[t].stamp = sessions[t].stamp
  BY <1>1 DEF Save, Row
<1> QED  BY <1>2, RowsPreserve DEF Save

LEMMA OperationPreserves ==
  ASSUME SessionsInv, NEW s \in AuthSession, SessionOperation(s)
  PROVE  SessionsInv'
<1>1. sessions[s].life \in Columns /\ now \in Nat
  BY DEF SessionsInv, SessionsTypeOK, Row
<1>2. ASSUME NEW duration \in Duration
      PROVE  now + duration \in Nat
  BY <1>1
<1>3. PICK life \in Columns : Save(s, life)
  <2>1. CASE \E duration \in Duration : Lock(s, duration)
    BY <1>1, <1>2, <2>1, TransitionType DEF Lock
  <2>2. CASE Unlock(s) \/ Suspend(s) \/ Unsuspend(s) \/ Revoke(s) \/ Enable(s)
    BY <1>1, <2>2, TransitionType DEF Unlock, Suspend, Unsuspend, Revoke, Enable
  <2>3. CASE SoftDelete(s) \/ Restore(s)
    BY <1>1, <2>3, TransitionType DEF SoftDelete, Restore
  <2> QED  BY <2>1, <2>2, <2>3 DEF SessionOperation
<1> QED  BY <1>3, SavePreserves

LEMMA BulkPreserves ==
  ASSUME SessionsInv, NEW rows, BulkDisable(rows)
  PROVE  SessionsInv'
<1>1. ASSUME NEW s \in AuthSession
      PROVE  sessions'[s] \in Row /\ sessions'[s].stamp = sessions[s].stamp
  <2>1. sessions[s] \in Row
    BY DEF SessionsInv, SessionsTypeOK
  <2>2. CASE s \in rows
    <3> DEFINE life == [sessions[s].life EXCEPT !.disabled = TRUE]
    <3>1. life \in Columns
      BY <2>1 DEF Row, Columns
    <3>2. sessions'[s] = [stamp |-> sessions[s].stamp, pending |-> sessions[s].pending,
                          life |-> life]
      BY <2>1, <2>2 DEF BulkDisable, Row
    <3> HIDE DEF life
    <3> QED  BY <2>1, <3>1, <3>2 DEF Row
  <2>3. CASE s \notin rows
    BY <2>1, <2>3 DEF BulkDisable
  <2> QED  BY <2>2, <2>3
<1>2. sessions' \in [AuthSession -> Row]
  BY <1>1 DEF BulkDisable
<1> QED  BY <1>1, <1>2, RowsPreserve DEF BulkDisable

LEMMA CleanupPreserves ==
  ASSUME SessionsInv, NEW rows \in SUBSET AuthSession, CleanupTerminal(rows)
  PROVE  SessionsInv'
<1>1. NoRow \in Row /\ NoRow.stamp = 0
  BY DEF NoRow, Row, Columns, Unrestricted, NoLock, NoExpiry
<1>2. /\ sessions' \in [AuthSession -> Row]
      /\ \A s \in AuthSession : IF s \in rows THEN sessions'[s].stamp = 0
                            ELSE sessions'[s].stamp = sessions[s].stamp
  BY <1>1 DEF CleanupTerminal, SessionsInv, SessionsTypeOK
<1>3. current' = current \ rows
  BY DEF CleanupTerminal
<1> QED  BY <1>2, <1>3, RowsPreserve DEF CleanupTerminal

LEMMA SessionsInvStep == SessionsInv /\ [SessionsNext]_sessionsVars => SessionsInv'
<1> SUFFICES ASSUME SessionsInv, [SessionsNext]_sessionsVars
             PROVE  SessionsInv'
  OBVIOUS
<1>1. CASE UNCHANGED sessionsVars
  BY <1>1 DEF sessionsVars, SessionsInv, SessionsTypeOK, Bound
<1>2. CASE Tick
  BY <1>2 DEF Tick, SessionsInv, SessionsTypeOK, Bound
<1>3. CASE PrincipalWrites
  BY <1>3, WritePreserves
<1>4. ASSUME NEW w \in Worker, BeginLogin(w) \/ AbandonLogin(w)
      PROVE  SessionsInv'
  BY <1>4, BeginLoginPreserves, AbandonLoginPreserves
<1>5. ASSUME NEW w \in Worker, NEW s \in AuthSession, NEW pending \in BOOLEAN,
             \/ CreateSession(w, s, NoExpiry, pending)
             \/ \E ttl \in Duration : CreateSession(w, s, now + ttl, pending)
      PROVE  SessionsInv'
  <2>1. NoExpiry \in Nat /\ \A ttl \in Duration : now + ttl \in Nat
    BY DEF SessionsInv, SessionsTypeOK, NoExpiry
  <2> QED  BY <1>5, <2>1, CreateSessionPreserves
<1>6. CASE \E s \in AuthSession : SessionOperation(s)
  BY <1>6, OperationPreserves
<1>7. CASE \/ \E spared \in {{}} \cup {{s} : s \in AuthSession} : TerminateAll(spared)
           \/ \E rows \in SUBSET AuthSession : ClearExpired(rows)
  BY <1>7, BulkPreserves DEF TerminateAll, ClearExpired
<1>8. CASE \E rows \in SUBSET AuthSession : CleanupTerminal(rows)
  BY <1>8, CleanupPreserves
<1> QED
  BY <1>1, <1>2, <1>3, <1>4, <1>5, <1>6, <1>7, <1>8 DEF SessionsNext, SessionsStep

LEMMA SessionsInvariance == SessionsSpec => []SessionsInv
BY SessionsInvInit, SessionsInvStep, PTL DEF SessionsSpec

\* The principal, the logins and the rows keep their shape.
THEOREM SessionsTypeCorrect == SessionsSpec => []SessionsTypeOK
<1>1. SessionsInv => SessionsTypeOK
  BY DEF SessionsInv
<1> QED  BY <1>1, SessionsInvariance, PTL

\* Logging out everywhere: a session that is valid was created from a principal
\* read after the last lock, suspension, disabling or bump of the stamp.
THEOREM CutEndsSessions == SessionsSpec => []NoSessionOutlivesCut
<1>1. SessionsInv => NoSessionOutlivesCut
  <2> SUFFICES ASSUME SessionsInv, NEW s \in AuthSession, IsValid(s)
               PROVE  s \in current
    BY DEF NoSessionOutlivesCut
  <2>1. Bound(sessions[s].stamp, s) /\ principal.stamp \in Nat
    BY DEF SessionsInv, SessionsTypeOK, Image
  <2> QED  BY <2>1 DEF Bound, IsValid, Stored
<1> QED  BY <1>1, SessionsInvariance, PTL

\* valid() and is_valid agree, but for the pending status and the expiry of the
\* principal, although valid() ignores its suspension and its lock.
THEOREM FilterIsExact == SessionsSpec => []FilterMatchesCheck
<1>1. SessionsInv => FilterMatchesCheck
  <2> SUFFICES ASSUME SessionsInv, NEW s \in AuthSession
               PROVE  IsValid(s) <=> /\ InValidQueryset(s)
                                     /\ ~sessions[s].pending
                                     /\ ~IsExpired(principal.life, now)
    BY DEF FilterMatchesCheck
  <2>1. /\ principal.life \in Columns /\ sessions[s].life \in Columns
        /\ now \in Nat /\ Coherent(principal.life)
    BY DEF SessionsInv, SessionsTypeOK, Image, Row
  <2>2. ~IsExpired(sessions[s].life, now)
          <=> sessions[s].life.expires_at = NoExpiry \/ sessions[s].life.expires_at > now
    BY <2>1 DEF IsExpired, Columns
  <2>3. ~IsLocked(sessions[s].life, now)
          <=> sessions[s].life.locked_until = NoLock \/ sessions[s].life.locked_until <= now
    BY <2>1 DEF IsLocked, HasLock, Columns
  <2>4. Stored(s) /\ sessions[s].stamp = principal.stamp
          => /\ Open(principal.life)
             /\ principal.life.is_active /\ ~IsLocked(principal.life, now)
    BY <2>1, AuthenticatesOpen DEF SessionsInv, Bound, Stored
  <2> QED  BY <2>2, <2>3, <2>4 DEF IsValid, InValidQueryset, CanAuthenticate, Open
<1> QED  BY <1>1, SessionsInvariance, PTL
=============================================================================
