---------------------------- MODULE SessionRequests ----------------------------
(***************************************************************************)
(* Requests of the clients of one principal that create, use and end its   *)
(* sessions at the same time, from the middlewares to the answer.          *)
(*                                                                         *)
(* Two identities are at work.  The middlewares take theirs from the login *)
(* of django.contrib.auth (the admin site) and make it the current actor;  *)
(* the API views take theirs from the access token or from                 *)
(* request.session["user_session_id"], and make it no actor.               *)
(*                                                                         *)
(* An instance is as it is stored or stale, and a save of a stale one      *)
(* raises (VersionedRow): "fresh" says which it is, so no version is       *)
(* needed.  Queryset updates raise the version without looking at it.      *)
(* Statements see what is committed when they start, as in PostgreSQL; a   *)
(* row that another transaction has updated is waited for and looked at    *)
(* again.  Expiry, locks and suspensions of a session, the lifecycle of    *)
(* the principal and its stamp are left to AuthSessions, so every          *)
(* non-terminal session is valid here; the refresh tokens are left to      *)
(* RefreshRotation.                                                        *)
(***************************************************************************)
EXTENDS Naturals, FiniteSets

CONSTANTS
  Request,   \* requests served at the same time
  Session,   \* session rows
  NoSession, \* no session
  Limit      \* max_concurrent_sessions, of a login that gives it (no caller in
             \* src/ does: it is a parameter of create_session(), None by default)

ASSUME NoneAssumption == NoSession \notin Session
ASSUME RequestAssumption == IsFiniteSet(Request)
ASSUME LimitAssumption == Limit \in Nat \ {0}

VARIABLES
  created,   \* the session rows
  newer,     \* newer[s]: those with a later created_at than s
  ended,     \* those that are disabled
  at,        \* at[r]: what the request is doing
  acting,    \* acting[r]: there is a current actor
  mine,      \* mine[r]: request.auth_session, or the session a login creates
  work,      \* work[r]: the sessions it has read and goes through
  fresh,     \* fresh[r]: sessions of which its instance is as stored
  seen       \* seen[r], a ghost: the sessions it is to end, or those that were
             \* in use when its UPDATE started

order == <<created, newer>>
stored == <<order, ended>>
requestVars == <<at, acting, mine, work, fresh, seen>>
vars == <<stored, requestVars>>

Stages ==
  {"idle", "started", "authenticated",                   \* middlewares, authentication
   "limiting", "updating", "evicted", "created",                              \* a login
   "terminating", "sweeping", "maintaining", "answered"}

TypeOK ==
  /\ created \in SUBSET Session
  /\ newer \in [Session -> SUBSET created]
  /\ ended \subseteq created
  /\ at \in [Request -> Stages] /\ acting \in [Request -> BOOLEAN]
  /\ mine \in [Request -> Session \cup {NoSession}]
  /\ \A f \in {work, fresh, seen} : f \in [Request -> SUBSET Session]

Init ==
  /\ created = {} /\ ended = {}
  /\ newer = [s \in Session |-> {}]
  /\ at = [r \in Request |-> "idle"] /\ acting = [r \in Request |-> FALSE]
  /\ mine = [r \in Request |-> NoSession]
  /\ work = [r \in Request |-> {}]
  /\ fresh = [r \in Request |-> {}]
  /\ seen = [r \in Request |-> {}]

Committed(s) == s \in created /\ \A r \in Request : at[r] = "created" => mine[r] # s
NonTerminal == {s \in Session : Committed(s) /\ s \notin ended}
Valid(s) == s \in NonTerminal

\* s was updated by a transaction that is not over.
RowLocked(s) == \E r \in Request : at[r] \in {"evicted", "created"} /\ s \in work[r]

\* require_actor() finds an actor.
HasActor(r) == acting[r]

\* Instances of the rows of a set are stale from now on.
Bumped(rows) == fresh' = [r \in Request |-> fresh[r] \ rows]

\* Rows are removed, or one is added.
Remove(rows) ==
  /\ created' = created \ rows
  /\ newer' = [s \in Session |-> IF s \in rows THEN {} ELSE newer[s] \ rows]

Add(s) ==
  /\ created' = created \cup {s}
  /\ newer' = [t \in Session |-> IF t \in created THEN newer[t] \cup {s} ELSE {}]

Goto(r, stage) == at' = [at EXCEPT ![r] = stage]

\* The request is over: an answer was sent, or an exception ended it.
Finish(r) ==
  /\ Goto(r, "idle")
  /\ acting' = [acting EXCEPT ![r] = FALSE]
  /\ mine' = [mine EXCEPT ![r] = NoSession]
  /\ work' = [work EXCEPT ![r] = {}]
  /\ fresh' = [fresh EXCEPT ![r] = {}]
  /\ seen' = [seen EXCEPT ![r] = {}]

-----------------------------------------------------------------------------
(* The middlewares and the authentication of a request.                      *)

\* AuthSession.touch_activity(): two updates of the row, nothing is validated.
Touch(s) == ~RowLocked(s) /\ Bumped({s})

\* SessionTrackingMiddleware: the session of the Django user that the request names,
\* or the last one in use, if it is valid; an error is logged and forgotten.
TrackActivity(actor) ==
  \/ actor /\ \E s \in Session : s \in NonTerminal /\ Touch(s)
  \/ UNCHANGED fresh

\* ActorTrackingMiddleware: the client is logged in to Django, or not.
StartRequest(r, actor) ==
  /\ at[r] = "idle"
  /\ Goto(r, "started")
  /\ acting' = [acting EXCEPT ![r] = actor]
  /\ TrackActivity(actor)
  /\ UNCHANGED <<stored, mine, work, seen>>

\* issue_access_token(): one for a session that is stored, when it is created or
\* refreshed.
TokenIssued(s) == Committed(s)

\* JWTService.authenticate() on the session that an access token names.
BearerAuthenticates(s) == TokenIssued(s) /\ Valid(s)

\* The session that the cookie names is looked for among the non-terminal ones.
CookieAuthenticates(s) == s \in NonTerminal /\ Valid(s)

\* DualAuthentication: the token first, the cookie if there is no token.
Authenticate(r, s) ==
  /\ at[r] = "started"
  /\ BearerAuthenticates(s) \/ CookieAuthenticates(s)
  /\ Goto(r, "authenticated")
  /\ mine' = [mine EXCEPT ![r] = s]
  /\ fresh' = [fresh EXCEPT ![r] = {s}]
  /\ UNCHANGED <<stored, acting, work, seen>>

-----------------------------------------------------------------------------
(* A login: create_session() in one transaction, and the tokens after it.    *)

\* The n sessions of a set that were created last.
Newest(n, rows) == {s \in rows : Cardinality(newer[s] \cap rows) < n}

\* A login that gives no limit.
LoginUnlimited(r) ==
  /\ at[r] = "started"
  /\ Goto(r, "evicted")
  /\ acting' = [acting EXCEPT ![r] = FALSE]
  /\ UNCHANGED <<stored, mine, work, fresh, seen>>

\* _enforce_max_sessions() reads the ids to keep; without any it returns. The actor
\* is of no more use: the eviction is the system actor's, and fails if it has none.
ReadKept(r) ==
  LET kept == Newest(Limit, NonTerminal) IN
  /\ at[r] = "started"
  /\ Goto(r, IF kept = {} THEN "evicted" ELSE "limiting")
  /\ work' = [work EXCEPT ![r] = kept]
  /\ acting' = [acting EXCEPT ![r] = FALSE]
  /\ UNCHANGED <<stored, mine, fresh, seen>>

\* A plausible defect of StartEviction: it ends those that were created before the
\* ones to keep.
StartEvictionOfOlder(r) ==
  /\ at[r] = "limiting"
  /\ Goto(r, "updating")
  /\ work' = [work EXCEPT ![r] = {s \in NonTerminal : work[r] \subseteq newer[s]}]
  /\ seen' = [seen EXCEPT ![r] = NonTerminal]
  /\ UNCHANGED <<stored, acting, mine, fresh>>

\* Its UPDATE starts: of every session that is not one of those, also of one that
\* was committed since.
StartEviction(r) ==
  /\ at[r] = "limiting"
  /\ Goto(r, "updating")
  /\ work' = [work EXCEPT ![r] = NonTerminal \ @]
  /\ seen' = [seen EXCEPT ![r] = NonTerminal]
  /\ UNCHANGED <<stored, acting, mine, fresh>>

\* It has waited for the rows, and updated those that are still non-terminal.
Evict(r) ==
  /\ at[r] = "updating"
  /\ \A s \in work[r] : ~RowLocked(s)
  /\ Goto(r, "evicted")
  /\ work' = [work EXCEPT ![r] = @ \cap NonTerminal]
  /\ UNCHANGED <<stored, acting, mine, fresh, seen>>

InsertSession(r, s) ==
  /\ at[r] = "evicted"
  /\ s \notin created
  /\ Goto(r, "created")
  /\ Add(s)
  /\ mine' = [mine EXCEPT ![r] = s]
  /\ UNCHANGED <<ended, acting, work, fresh, seen>>

\* The commit, and the answer with the access token and the cookie.
CommitLogin(r) ==
  /\ at[r] = "created"
  /\ ended' = ended \cup work[r]
  /\ at' = [at EXCEPT ![r] = "idle"]
  /\ acting' = [acting EXCEPT ![r] = FALSE]
  /\ mine' = [mine EXCEPT ![r] = NoSession]
  /\ fresh' = [q \in Request |-> IF q = r THEN {} ELSE fresh[q] \ work[r]]
  /\ work' = [work EXCEPT ![r] = {}]
  /\ seen' = [seen EXCEPT ![r] = {}]
  /\ UNCHANGED order

-----------------------------------------------------------------------------
(* Ending sessions.                                                          *)

\* The instances of a queryset are loaded, for a loop over them. (request.auth_session
\* is not used any more.)
Load(r, stage, rows) ==
  /\ Goto(r, stage)
  /\ work' = [work EXCEPT ![r] = rows]
  /\ fresh' = [fresh EXCEPT ![r] = rows]
  /\ seen' = [seen EXCEPT ![r] = IF stage = "terminating" THEN rows ELSE {}]
  /\ mine' = [mine EXCEPT ![r] = NoSession]
  /\ UNCHANGED <<stored, acting>>

\* SessionListView.delete(): every session but the one of the X-Session-ID header,
\* whichever that is, and every one if there is no such header.
TerminateOthers(r, header) ==
  /\ at[r] = "authenticated"
  /\ Load(r, "terminating", NonTerminal \ {header})

\* SessionTerminateView.delete() of a session that it finds.
TerminateOne(r, s) ==
  /\ at[r] = "authenticated"
  /\ s \in NonTerminal
  /\ Load(r, "terminating", {s})

\* The actions of the admin site on a selection of sessions.
AdminSelects(r, stage, rows) ==
  /\ at[r] = "started" /\ HasActor(r)
  /\ rows # {} /\ rows \subseteq NonTerminal
  /\ Load(r, stage, rows)

\* Plausible defects of SaveInstance: the version is not checked; a conflict is
\* passed over.
SaveInstanceUnchecked(r, s, isEnded) ==
  /\ s \in work[r] /\ ~RowLocked(s)
  /\ ended' = IF isEnded THEN ended \cup {s} ELSE ended \ {s}
  /\ Bumped({s})
  /\ work' = [work EXCEPT ![r] = @ \ {s}]
  /\ UNCHANGED <<order, at, acting, mine, seen>>

SaveInstanceOrSkip(r, s, isEnded) ==
  /\ s \in work[r] /\ ~RowLocked(s)
  /\ ended' = IF isEnded /\ s \in fresh[r] THEN ended \cup {s} ELSE ended
  /\ Bumped({s})
  /\ work' = [work EXCEPT ![r] = @ \ {s}]
  /\ UNCHANGED <<order, at, acting, mine, seen>>

\* save() of all the columns of the instance, under the lock of the row.
SaveInstance(r, s, isEnded) ==
  /\ s \in work[r] \cap fresh[r] /\ ~RowLocked(s)
  /\ ended' = IF isEnded THEN ended \cup {s} ELSE ended \ {s}
  /\ Bumped({s})
  /\ work' = [work EXCEPT ![r] = @ \ {s}]
  /\ UNCHANGED <<order, at, acting, mine, seen>>

\* revoke(), which raises if there is no actor.
RevokeOne(r, s) ==
  /\ at[r] = "terminating" /\ HasActor(r)
  /\ SaveInstance(r, s, TRUE)

\* lock(), unlock(), suspend() and unsuspend() by an administrator.
Maintain(r, s) ==
  /\ at[r] = "maintaining"
  /\ SaveInstance(r, s, FALSE)

\* terminate_all_for_principal() for a caller with an actor: the UPDATE starts.
StartSweep(r, spared) ==
  /\ at[r] = "started" /\ HasActor(r)
  /\ Load(r, "sweeping", NonTerminal \ {spared})

Sweep(r) ==
  /\ at[r] = "sweeping"
  /\ \A s \in work[r] : ~RowLocked(s)
  /\ ended' = ended \cup work[r]
  /\ Bumped(work[r])
  /\ seen' = [seen EXCEPT ![r] = work[r]]
  /\ work' = [work EXCEPT ![r] = {}]
  /\ Goto(r, "answered")
  /\ UNCHANGED <<order, acting, mine>>

\* The session that LogoutView hands on: request.auth_session.
OwnSession(r) == mine[r]

\* logout() of it sets logged_out_at, which nothing reads.
Logout(r) ==
  /\ at[r] = "authenticated"
  /\ OwnSession(r) \in fresh[r] /\ ~RowLocked(OwnSession(r))
  /\ Bumped({OwnSession(r)})
  /\ Goto(r, "answered")
  /\ UNCHANGED <<stored, acting, mine, work, seen>>

\* The loop is over: "Terminated n sessions."
AnswerTermination(r) ==
  /\ at[r] \in {"terminating", "maintaining"} /\ work[r] = {}
  /\ Goto(r, "answered")
  /\ UNCHANGED <<stored, acting, mine, work, fresh, seen>>

EndRequest(r) ==
  /\ at[r] = "answered"
  /\ Finish(r)
  /\ UNCHANGED stored

\* An exception, or the end of the process: the credentials were wrong, there is no
\* actor, an instance was stale, logout() was asked for all the sessions (it calls
\* what the manager does not have), the database gave up.  What an open transaction
\* did is undone.
Fail(r) ==
  /\ at[r] \notin {"idle", "answered"}
  /\ Remove(IF at[r] = "created" THEN {mine[r]} ELSE {})
  /\ Finish(r)
  /\ UNCHANGED ended

Unused(rows) ==
  \A r \in Request : rows \cap (work[r] \cup fresh[r] \cup seen[r] \cup {mine[r]}) = {}

\* A plausible defect of Cleanup: the rows go whether they ended or not.
CleanupAny(rows) ==
  /\ rows # {} /\ rows \subseteq created /\ Unused(rows)
  /\ Remove(rows)
  /\ UNCHANGED <<ended, requestVars>>

\* cleanup_terminal(): rows that ended long before the requests that are being served.
Cleanup(rows) ==
  /\ rows # {} /\ rows \subseteq ended /\ Unused(rows)
  /\ Remove(rows)
  /\ ended' = ended \ rows
  /\ UNCHANGED requestVars

-----------------------------------------------------------------------------
Login(r) ==
  \/ LoginUnlimited(r) \/ ReadKept(r) \/ StartEviction(r) \/ Evict(r)
  \/ \E s \in Session : InsertSession(r, s)
  \/ CommitLogin(r)

Ending(r) ==
  \/ \E header \in Session \cup {NoSession} : TerminateOthers(r, header) \/ StartSweep(r, header)
  \/ \E rows \in SUBSET Session, stage \in {"terminating", "maintaining"} :
       AdminSelects(r, stage, rows)
  \/ \E s \in Session : TerminateOne(r, s) \/ RevokeOne(r, s) \/ Maintain(r, s)
  \/ Sweep(r) \/ Logout(r) \/ AnswerTermination(r)

Next ==
  \/ \E r \in Request :
       \/ \E actor \in BOOLEAN : StartRequest(r, actor)
       \/ \E s \in Session : Authenticate(r, s)
       \/ Login(r) \/ Ending(r)
       \/ EndRequest(r) \/ Fail(r)
  \/ \E rows \in SUBSET Session : Cleanup(rows)

Spec == Init /\ [][Next]_vars

-----------------------------------------------------------------------------
\* A request that answers that it terminated sessions has ended every one that was
\* there when it read them and that it was not to spare, whatever touched, locked
\* or revoked them meanwhile: the loop does not pass over a conflict.
AnsweredMeansEnded == \A r \in Request : at[r] = "answered" => seen[r] \subseteq ended

\* No stale instance, of an administrator who locks or unlocks a session nor of a
\* logout, brings back a session that was ended, by whichever way.
EndedStaysEnded == [][\A s \in ended : s \in ended' \/ s \notin created']_vars

\* When a login with a limit commits, no more than Limit are left of the sessions that
\* were in use when its UPDATE started, those that other logins committed after it had
\* read the ids to keep included.  Its own comes on top.
LimitedLoginEvicts ==
  [][\A r \in Request :
       at[r] = "created" /\ at'[r] = "idle" /\ mine[r] \in created' =>
         Cardinality(seen[r] \ ended') <= Limit]_vars
=============================================================================
