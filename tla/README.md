# A verification project for djangoforge

djangoforge is a Django project for accounts, authentication, sessions,
authorization and auditing. This directory holds TLA+ models of the parts whose
correctness depends on the order in which several actors do things, the TLC runs
that check them on small instances, and proofs, checked by TLAPS, that hold for
every instance. Paths below are relative to the repository.

Contents: 1 the system, 2 the models, 3 the runs, 4 the proofs, 5 where code and
documents disagree, 6 what is not modelled, 7 the plan.

## 1. The system

Every request runs in a worker process of its own; workers share nothing but the
database. `ATOMIC_REQUESTS` is not set, so a request is a sequence of
transactions, and between any two of them other requests run or the process may
die. Objects in memory are snapshots of rows. That is the source of nearly all
the behaviour worth checking.

| component | state | operations | what makes it correct |
|---|---|---|---|
| versioned models, `apps/core/models` | a row with `version`; instances in memory | save, delete, restore, bulk updates | no save overwrites a content its instance has not seen |
| lifecycle, `LifecycleMixin` | disabled, suspended, locked until, expires at, is_active | lock, suspend, disable and their lifting | is_active is TRUE exactly when nothing restricts |
| principal, `apps/accounts/models/principal.py` | lifecycle columns, `security_stamp` | lifecycle operations, stamp bump, soft delete | every stored restriction comes with a new stamp |
| sessions, `apps/sessions` | session rows with the stamp at issue | create, check, touch, lock, revoke, terminate, clean up | a valid session was created from a principal read after its last restriction; an answered termination has ended what it read |
| refresh tokens, `apps/authn/api/views/token.py` | `SessionCredential` rows with family and parent | look up, revoke, create successor | a token is exchanged at most once |
| access tokens, `apps/authn/services/jwt.py` | none (the token carries session and stamp) | issue, authenticate | accepted only for a valid session |
| verification tokens, `apps/authn/services/token.py`, `verification.py` | `VerificationToken` rows with purpose, OTP attempts, used at | issue, look up, verify OTP, consume | a token is withdrawn or spent, never both, and spent for one effect; guesses are bounded |
| credentials, `apps/authn/services` | devices, backup codes, passwords and their history, attempts | enrol, verify, disable, change, reset, record failures | a code passes only while it is usable; a change replaces the password it proved; failures are counted |
| login flows, `apps/authn/services` | none of their own | password, TOTP-only, passwordless, logout | what they rest on: principal, credentials, tokens, sessions |
| authorization, `apps/authz` | roles in a tree, assignments, policies | CRUD, decision, policy expressions | no cycle by validated moves without a race; deny before allow; default deny |
| provisioning, `apps/accounts/services` | principals and concrete accounts | provision, deprovision | both or neither; unique names |
| audit, `apps/auditing` | events with version, parent, checksum; outbox columns | record, undo, redo, dispatch | a history without gaps that can be replayed; an outbox that accounts for every backend |

How they interact:

    login ---reads---> principal <---locks, suspends, disables--- admin, lockout
      |                   |  security_stamp, lifecycle columns
      | creates           | compared on every request
      v                   v
    session <---valid?--- access token, refresh request ---revoke/create---> credential
      |
      | authenticates
      v
    request ---asks---> authorization (roles, assignments, policies)
      |
      | saves, deletes
      v
    audited row ---in its transaction---> event ---on_commit---> file, Redis, Kafka

    every row above is a versioned row (BaseModel) and may be written by a stale instance

Hard behaviours, each listed with its line in the project file: stale instances;
an exception that leaves assignments on an instance that is saved later; a
principal that changes during a login; a lock that lapses without any write;
concurrent use of a one-time token; a crash between two transactions of one
request; bulk updates that bypass instance checks; lists that are read in one
query and acted on in the next (a session limit, a loop that revokes, a check for
cycles, a decision); a lock that is waited for after the row to lock was chosen; a
call to another system whose answer is lost.

## 2. The models

| module | about | rests on |
|---|---|---|
| `VersionedRow` | one row and its instances: optimistic locking | |
| `Lifecycle` | the lifecycle columns as functions (no state) | |
| `PrincipalLifecycle` | one principal: lifecycle, stamp, dirty instances | `Lifecycle`; implements `SecurityStamp` |
| `SecurityStamp` | abstract: what a principal promises its sessions | `Lifecycle` |
| `AuthSessions` | sessions of a principal that behaves as `SecurityStamp` allows | `Lifecycle`, `SecurityStamp` |
| `PrincipalSessions` | the two together: the sessions of that one principal | `PrincipalLifecycle`; implements `AuthSessions` |
| `RefreshRotation` | refresh requests over the credentials of a session | implements `TokenChain` |
| `TokenChain` | abstract: a chain of tokens per login | |
| `VerificationTokens` | requests over the verification tokens of one principal | implements `OneTimeToken` |
| `OneTimeToken` | abstract: the life of one-time tokens | |
| `SessionRequests` | requests that create, use and end the sessions of a principal | the version check of `VersionedRow` |
| `Credentials` | passwords, TOTP devices, backup codes, failed logins of a principal | the version check of `VersionedRow` |
| `Authorization` | roles, assignments, policies, and decisions taken meanwhile | |
| `PolicyExpression` | the condition language: lexer, parser, evaluator (functions) | |
| `Provisioning` | principals with their accounts, in transactions | the version check of `VersionedRow` |
| `AuditTrail` | the history of one audited object | |
| `AuditOutbox` | events from their transaction to the backends | |

The composition is by contract, and is itself a module. `PrincipalLifecycle` implements
`SecurityStamp`, and `AuthSessions` lets its principal take exactly the steps
`SecurityStamp` allows. `PrincipalSessions` has the real operations of the principal and the
operations of the sessions take turns over one row and one clock, and implements
`AuthSessions`: what is proved there of the sessions holds of the whole
(section 4). The modules of the second half of the table take from
`VersionedRow` that a save goes through only for an instance that is as it is
stored, and are otherwise about other rows. Within a database transaction they keep the
writes in the record of the request until it commits.

**VersionedRow.** `row` is the stored version and content, `inst[w]` an instance:
the version it carries, its in-memory content, and (ghost) the content it has
seen. Every write uses a fresh token, so equal contents mean equal histories.
`CheckAndSave` is `_save_with_optimistic_lock` in one step, because the row lock
is held to the end of its transaction; its second disjunct is
`OptimisticLockError`, which leaves the assignment on the instance. Columns are
*tracked* (all writes bump the version) or *untracked* (`last_login`, written by
`save_without_version_bump`): the guarantees are about the tracked ones, and the
split is an assumption on how the program uses the API. A save that rolls back
and `bulk_update` are kept out of `Next`, since each breaks the guarantee by
itself (section 5). A version of 0
in the model means that the row, or the instance, does not exist. Its names that
other modules have too are prefixed (`RowNext`).

**Lifecycle.** The columns that decide anything. `disabled_at`, `suspended_at`
are Booleans (set or NULL); `locked_until` and `expires_at` are instants, 0 for
NULL. `Coherent` is `LifecycleValidator`. With `CORE_ENFORCE_ACTOR` off, the
default, the actor checks of the validator do not run, and are left out.

**PrincipalLifecycle.** `row` and `mem[w]` hold version, stamp and columns. An
operation first assigns to the instance and then saves (`Save`); when the save
raises, the assignments stay on the instance (`mem' = m`) and any later save of
that instance writes them. `SaveAccepts` collects the reasons to raise: a lapsed
lock (`_clear_lock_fields` does not exist), no actor (`SetActor`; a new restriction
asks for one earlier, `ResolveActor`, after the stamp was bumped), incoherent columns,
a stale version. `Principal.save` drops `update_fields` unless it normalises something, so
a save writes every column. The security stamp starts at 1 (the column's default
is 0; only comparisons matter). The principal's `expires_at` stays NULL here and
varies in `AuthSessions`. Usernames, phone numbers and e-mail addresses are taken as
already normalised.

**AuthSessions.** A login reads the principal (`BeginLogin`), and creates the
session later from that instance (`CreateSession`). The ghost `current` holds the
logins and sessions whose principal was read after its last *cut*: a lock,
suspension or disabling stored, or a stamp changed. Instance operations on a
session appear as one step on the row: a stale save raises and changes nothing
(`VersionedRow`). `terminate_all_for_principal`, `clear_expired` and
`cleanup_terminal` act on sets of rows. `TerminateAll` leaves at most one session.
`cleanup_terminal`'s age cutoff is left open: any set of terminal rows may go.
The names that `PrincipalLifecycle` also has are prefixed (`SessionsNext`), so that one module
can extend the one and have an instance of the other.

**PrincipalSessions.** `PrincipalStep` is any operation of `PrincipalLifecycle` or a tick of the clock,
with the ghost `current` emptied when it cuts; `SessionStep` any operation of `AuthSessions` on
logins and sessions. A login's instance (`read`) is
the row as it was loaded, whose stamp and columns are all it uses (`Shown`).

**RefreshRotation.** `request[w]` is idle, *checked* (credential found live and
session valid), or *spent* (credential revoked, successor not created). `Crash`
drops a request anywhere in between. The session is a Boolean that changes freely.

**VerificationTokens.** `tokens[t]` is a row, `request[w]` how far a request is and
the instances it holds. Issuing is three steps in three transactions:
`CheckCooldown`, `InvalidateExisting` (one bulk soft delete, which bumps versions),
`Create`. Redeeming depends on the purpose:

| purpose | steps |
|---|---|
| e-mail | `VerifyToken`, `Apply` (principal saved), `Consume` |
| phone | `LookUpOtp`, `Guess`, `Apply`, `Consume` of the instance that was guessed at |
| reset | `VerifyToken` (of a token of any purpose: the code does not compare it), `Consume`, `Grant` |
| login | `VerifyToken`, for a token with an OTP optionally `LookUpOtp` and `Guess` of another instance, `Consume`, `Grant` |

`Guess` and `Consume` save an instance, so they are enabled at equal versions only;
`Fail` stands for `OptimisticLockError` and every other error, and for a crash,
after any step. `Grant` is what the token was spent for: a session, an MFA
challenge, a new password. `guesses` and `granted` are history. What `Apply` writes
to the principal is not state here: confirming an address twice is the same as once.

**SessionRequests.** `at[r]` is how far a request is: the middlewares (`started`),
authentication by access token or cookie, then a login, a termination or the work of
an administrator. A login gives a session limit or none (`LoginUnlimited`; no caller in `src/`
gives one). The limit is four steps, as in
`_enforce_max_sessions`: the ids to keep are read, an UPDATE starts with the
rows it sees, waits for those that others hold and looks at them again, the
new row is inserted, the transaction commits. A loop over loaded instances
(`work[r]`) saves one per step; `fresh[r]` says which of them are as stored, and a
save of another raises and ends the request. `ORDER BY created_at` is the relation `newer`,
which holds of a row the rows created after it, and stays behind when others are deleted.
Only a client that is also logged in to
Django is an actor, without which `revoke()` raises. `seen[r]` is a ghost: the sessions
that a request is to end, or those that were in use when the UPDATE of its login started.

**Credentials.** No view or service here opens a transaction, so each query and
each save is a step and `Die` may come after any. `factors[x]` is a device or a
backup code, with status, version and the flag `is_used`; a code is usable when both
the status and the flag say so. A password is in three places, which
`_set_password` writes one after the other: the `PasswordCredential`, the principal,
the history, which is then pruned by the ids read before. `failures` and
`lockouts` are the rows of `LoginAttempt`, recorded in one step and counted in the next. Only those of the
last `LOCKOUT_DURATION_MINUTES` count: `expired` says how many of the oldest are out of the window, and
`Age` takes one more out of it at any time. Which device or code an input belongs to is
open: any usable one, or none. `history` is a set of entries each of which names those
that were there before it, which is the order of their `created_at` and stays when
others are pruned. One module proves about `Credentials`, `SessionRequests` and
`VersionedRow`, so no two of these have a name in common.

**Authorization.** A decision is a sequence of queries: the policies that deny, the
assignments with the parents of their roles, each ancestor, the permissions of those
found, the policies that allow. A move of a role walks down through the children before
it saves; an edit in the admin site (`BeginEdit`) saves any parent without a look. `saved` is the number of the write that last changed a row, and stands for
its version. A policy's condition has one `outcome` for the request asked about:
true, false, an evaluation error (no match), or malformed (the parser's exception ends the
request). An assignment that expires is still a row for the uniqueness constraint.
In the properties, what a walk should find is defined by paths (`Reach`), and a cycle is a
smallest set of roles that holds their parents (`Cycles`); neither follows the code's
loops. The hierarchies to begin with have no cycles (`HierarchyAssumption`).

**PolicyExpression.** The behaviours only type a source, one lexeme at a time. The
parser is a family of recursive operators from positions to trees and positions, as
the methods of `Parser` are; `Derives` is a reference definition of another shape, the
set of trees that the grammar of the parser's docstring gives a span of lexemes. The
evaluator returns a value or an error, and short-circuits as the code does.

**Provisioning.** The writes of a transaction stand in `work[w]` until it commits. A
check of a name sees committed rows only; a unique column makes an INSERT wait for
another transaction's equal value, and refuses a committed one. Deprovisioning
deletes account and principal in one transaction; the views of a principal
save or delete it alone.

**AuditTrail.** `events` are the committed events in the order of their
commits, `work[w]` an operation in progress: a save of any columns or of none, a bulk
create or update, a delete, a manual entry, an undo or redo. The instance it starts from is any:
loaded at some time, changed in columns that are saved or not; the event records all of it. `create_audit_entry` is
two steps: a SELECT chooses the last event and then waits for its lock, without looking again,
so two of them may give the same version. Row lock and event lock are
taken in opposite orders by a save and a delete, and the database aborts one (`AbortDeadlock`). A
save of no columns takes no row lock, and audits. `truth` is a ghost: the row that each event left,
kept as long as the history is *quiet*. It is quiet while no operation overlaps a commit of another, none is a
bulk update, and no instance differs from the row in a column it does not save. Which
events carry a snapshot (`DecideSnapshot`), the delta, and `get_version()`, which
replays deltas over a snapshot, are functions. A content is a function on the columns, and each
column takes its values whatever those of the others (`StateAssumption`). The names that
`AuditOutbox` also has are prefixed (`TrailNext`, `CommitOperation`), so that one module can
prove about both.

**AuditOutbox.** A thread serves a request, writes events in a transaction, and after
its commit runs the callbacks one by one: lock the event, call each pending backend,
save the outbox. A call either raises or returns, and the sink has the event or not; which
combinations can occur differs between the file, Redis and Kafka (`Outcomes`), and so does
whether a backend can be constructed at all. `received` and `lost` are history: which sinks have an
event, once or more often (the clients of Redis and Kafka retry, and may deliver it twice in one call), and of which
events some dispatch ended without its record. Nothing in `src/` dispatches an event again.

## 3. The runs

| run | bounds | properties |
|---|---|---|
| `versioned_row` | 3 workers, 2 tracked and 1 untracked column, 3 writes | `VersionIdentifiesContent`, `NoLostUpdate`, `VersionTellsChange` |
| `principal_sessions` | 2 workers, locks of 1 tick, clock to 3, 5 operations, 1 login, 1 session | `NoSessionOutlivesRestriction`, `KeepsSessionsPromise` |
| `auth_sessions` | 2 logins, 1 session, lifetimes of 1 tick, clock and stamp to 3, 6 states of the principal | `NoSessionOutlivesCut`, `FilterMatchesCheck` |
| `refresh_rotation` | 3 requests, 4 credentials, 2 logins, lifetime 1, clock to 1 | `OneLivePerFamily`, `LineageIsChain`, `ImplementsChain` |
| `verification_tokens` | 2 requests, 2 tokens, 2 attempts, cooldown 1, lifetime 2, clock to 2 | `GuessesBounded`, `IsOneTime` |
| `session_requests` | 2 requests, 4 sessions, a limit of 1 | `TypeOK`, `AnsweredMeansEnded`, `LimitedLoginEvicts`, `EndedStaysEnded` |
| `credentials` | 2 clients, 3 requests, 2 devices, 2 backup codes, 1 `PasswordCredential`, 2 passwords, threshold 2, history of 1 | `CredentialsTypeOK`, `FailuresAreCounted`, `OnlyUsableCodesPass`, `WithdrawnStaysWithdrawn`, `ChangeReplacesWhatItProved` |
| `authorization` | 2 workers of which 1 asks, 3 roles (two roots, or a chain of three), depth 1, 1 policy that denies, allows or cannot be parsed, 2 writes | `TypeOK`, `QuietDecisionIsRight`, `DenyIsRespected`, `CyclesNeedARace`, `RequestsEnd` |
| `policy_expressions` | all sources of up to 5 of 14 lexemes, over an object and a dict | `ParserFollowsGrammar`, `RewritesAgree` |
| `provisioning` | 2 requests, 2 principals, 3 usernames of which 2 differ in case, 1 identifier, versions to 2 | `UsernamesDifferInMoreThanCase`, `NoHalfAccounts` |
| `audit_trail` | 2 workers, 4 events, rows that differ in one of 2 columns, a snapshot every 2 versions | `TrailTypeOK`, `HistoryIsConnected`, `SavesNeverShareVersion`, `QuietHistoryIsTrue`, `DeadlocksTakeADelete` |
| `audit_outbox` | 2 threads, 2 events, 1 principal, Redis and Kafka | `OutboxAccounts`, `SinksAgree`, `ChecksumHoldsWithActor`, `CommittedIsOffered` |

Each property is stated in words where it is defined. The type invariants that no run
names are proved (section 4); `PolicyExpression` has no state but its source.

What the later runs say, in short. `session_requests`: a "terminated n
sessions" is true of all that were there when they were read, since the loop stops
at the first conflict instead of passing over it; no stale instance brings a
session back; a login with a limit leaves at most that many of the sessions its UPDATE saw, also of those
that other logins committed meanwhile, and adds its own.
`credentials`: two presentations of one backup code pass at most once, a device
discarded meanwhile cannot be confirmed, failures counted at the same moment are
not overlooked as long as they are within the time window, a change replaces the password it was shown.
`authorization`: a decision that nothing disturbs is the documented one, one that is
disturbed never overrules a denial in force since before it, and a cycle among live roles takes
an edit in the admin site, or two validated moves that overlapped, which does happen: the check of one
of them is then stale. `provisioning`: the check of a name without a lock is made good by the unique
column, because names are stored normalised. `audit_trail`: versions have no gaps, equal
versions come from operations that do not lock the row, a quiet history can be
replayed, and who waits in a circle is a delete and one that has the row. `audit_outbox`: what is
recorded as dispatched is in the file and in Redis, what is recorded as pending is not in the sink unless
a dispatch lost its record. For Kafka the first half does not hold (section 5).

**Bounds.** A lost
update takes two workers and two writes, a third worker and write let a
version be reached along two histories. A restriction slipping through a dirty
instance takes load, failed operation, another worker's write, reload or save:
within five operations; the clock lets a lock be taken, lapse, and be taken again, and a
login that has read the principal before all that still creates its session after.
A session outliving a cut takes a read, a cut, a lift and a creation, for which
one session and three stamps suffice; sessions of one principal do not interact
except in bulk operations, which act on each row alone. Two requests race for one
credential, a third comes late with a spent one; four credentials let one login
rotate twice beside another. A token spent twice, or guessed at with a shared
counter, takes two requests; two tokens let one be withdrawn while the other is
redeemed, and a clock of 2 lets the cooldown pass. A limit of 1 with four sessions lets two
logins evict each other's and one more session be there to terminate. A second factor
misused takes two requests, a third comes before, between or after them. A cycle takes two moves, which
are the two writes; a chain of three with a depth of 1 has a role beyond the depth. A threshold of 2 that is missed takes
two failures counted at once, and a window that one of them has left a third. Two
writers collide on an event and a third and fourth event follow their collision, with a
snapshot between deltas. Two events are in the queue of one thread or of two, and one
of them fails in one backend and not in the other. In
the modules with proofs (section 4) the bounds are gone.

`CHECK_DEADLOCK FALSE` is set where a bound ends a
behaviour: on writes or operations (`versioned_row`, `principal_sessions`), on the clock once
the rows are taken (`verification_tokens`), on events (`audit_trail`), on the length
of a source (`policy_expressions`), on requests (`credentials`), and on names and
versions (`provisioning`). The other runs check for deadlock. `DeadlocksTakeADelete` looks at
who waits for whom in a state, which the bound does not blunt.
Symmetry is used in runs without liveness properties only.

Constants whose names start with `Max` are bounds of the model, not of the code, with
two exceptions: `MaxAttempts` and `MaxFailedAttempts` are settings.

**Fairness.** In `AuditOutbox`, weak fairness of `Dispatch`: a thread that is in its
callbacks goes on with them, one after the other, as Django runs them. A crash remains possible at any
point and excuses the event, as it does in the code, where nothing
retries: `CommittedIsOffered` promises an attempt, not a delivery. In `Authorization`, weak
fairness of a request's own steps: the server runs what it began. What could go on
for ever is the walk through a cycle of roles, and `RequestsEnd` says it does not. Elsewhere
no fairness is assumed and no liveness claimed: nothing retries or is scheduled, and
crashes, abandoned logins and requests that stop are allowed everywhere.

Each property has a plausible defect of the code that breaks it. Most are kept as an
operator next to the definition they stand for (`CheckAndSaveUnchecked`,
`CreateSessionFreshStamp`, ...); these operators are not part of `Next`.

## 4. The proofs

All theorems hold for every set of workers, sessions, credentials and every value
of the bounds, from the named `ASSUME`s of the modules alone (disjointness of
names, durations positive, bounds natural, no cycle to begin with).

**`Principals_proofs`, the lifecycle.** The invariant that carries the proof is
`PendingRestrictionsCarryStamp`: an instance that can pass the version check and
whose save would restrict the principal carries a newer stamp. It holds because
the operations bump the stamp before the first thing that may raise. The lemmas on
`Lifecycle` say what its transitions return, and that lifting a restriction never adds
one. From the invariant,
`EveryRestrictionEndsSessions` and, with coherence, `SessionContractKept`: the
initial state and every step of the row are allowed by `SecurityStamp`.

**`Principals_proofs`, the sessions.** `SessionsPromiseKept` says that `PrincipalSessions` implements
`AuthSessions`: a step of the principal maps to a step of the row that `SecurityStamp` allows, with
the same cut, or to a stutter; a step of the sessions to itself. Two facts beyond the
invariant of the lifecycle are needed: an operation bumps a stamp once at most, so that the stamps that
`AuthSessions` admits are enough (`StampsUpTo`), and the operations are within their bound.
`RestrictionsEndSessions` is then the theorem
of `Sessions_proofs`, cited of an instance of that module (`Live`), whose assumptions on the constants are
discharged and whose definitions are shown to be those of `PrincipalSessions`, one after the other.
No session is proved about again.

**`Sessions_proofs`.** Not inductive as stated, `NoSessionOutlivesCut` needs
what a stamp read earlier says of the principal now (`Bound`): it is not newer; it
is older if there was a cut since; and if it is the stored one, the principal is
not restricted. The third part is what lets `valid()` skip the suspension and the
lock of the principal (`FilterIsExact`).

**`Requests_proofs`, the versioned row.** The inductive invariant is the type invariant with
`VersionIdentifiesContent` (instance against row) and `SameVersionSameContent`
(instance against instance). Neither is inductive alone: a load makes an instance
agree with the row and, through it, with every instance of that version.
`NothingLost` follows: a save goes through only at equal versions, so its instance
has seen the row. `ChangesAreVersioned` is about every step.

**`Requests_proofs`, the requests.** `EndedStaysEnded` needs that an instance which is as stored was
not loaded before its row was ended; `AnsweredMeansEnded`, that of the rows a request is to end,
each that is not in its loop any more is ended. `LimitedLoginsEvict` follows a login from its query to
its commit (`LimitInv`): the ids it keeps are at most `Limit`, because the newest n of a set are at most n
(`NewestFew`, by induction along `newer`, which is an order: `Ordered`); and of the sessions its UPDATE saw, those
that it will not end are among the ones it keeps, or have ended. What others commit while it waits for rows only ends
sessions (`StaysLimited`).

**`Requests_proofs`, the credentials.** `Sound` says what an instance in a request's hands
is worth: it is no newer than its row, and at equal versions the status and the use it shows
are those stored. Hence a save that goes through withdraws nothing twice and revives nothing
(`WithdrawnForGood`), a code that is accepted is usable at that moment (`UsableCodesPass`),
and a change of password is stored over the password it verified (`ChangesReplace`).
`FailuresCounted` is about numbers: of the failures in the window fewer than the threshold are unanswered, where
one is *answered* if a lockout record follows from it or it is one, if its request died, or if its request is still to count.
A set of unanswered failures does not say of a count under way whether it will reach the threshold; the invariant is that
from some failure on all are answered, and those before it in the window are fewer than the threshold
(`CountInv`). A count that finds the threshold not reached moves that failure to the last one; any other
step leaves it (`NothingForgotten`), and a failure that leaves the window only helps.

**`RefreshRotation_proofs`.** The strengthening accounts for requests under way:
an instance whose version is the stored one is of a live credential (`Snapshots`),
and a family has one live credential or one request that has spent it, never both
(`Spending`). `RotationIsChain` maps each step to one of `TokenChain` or a stutter.

**`VerificationTokens_proofs`.** The invariant says what an instance in a
request's hands is worth: it is no newer than the row, and if its version is the
stored one, the token is unused (`HeldToken`) and its attempt counter is the stored
one and below the limit (`GuessedToken`). A token consumed without its effect yet
is one request's (`Consuming`). `GuessesAreBounded` follows from the equality of
the history with the stored counter (`Counted`); `TokensAreOneTime` maps each step
to one of `OneTimeToken` or a stutter.

**`Auditing_proofs`, the outbox.** The record in the row lags behind the sinks while a dispatch is under
way, so the invariant speaks of the outbox that the dispatch holds as well: of an event none of whose records was lost, a sink
that is pending there has not got it (`Unsent`), and one that answers has what is dispatched there (`Sent`). With the event
lock, one dispatch is under way at most (`OneSender`). What a
dispatch holds accounts for the backends as well as the row does (`Held`). An event is stored when its callback is
scheduled, and in one transaction only (`TodoStored`, `OpenNew`): `Accounts`,
`RecordsAgree`. `ChecksumIsStable` goes from the rows alone: of what the checksum
covers, only the deletion of the actor changes anything.

**`Auditing_proofs`, the trail.** `TrailIInv` says of an operation in progress what its stage
allows (`Shape`); where the event it chose as its predecessor stands (`Placed`) and that no save
has got past it (`Ahead`); and, as long as it can go on with a quiet history, that the state it read before is that of
the row, and its instance too but for what it saves (`Current`). One operation at most holds the row
(`RowExclusive`), which is why saves, unlike other events, never share a version. In a quiet history the row is what the last event left
(`LastTruth`), and each event is true given the one
before it: its snapshot is the content, and its delta leads from the previous content to its own
(`EventsTrue`). `VersionsAreTrue` then follows by induction along the deltas between a snapshot
and a version: `get_version()` finds a snapshot, and replays what the row held. TLC checked
`TrailIInv` as an invariant of the run before it was proved.
`DeadlocksAreWithDeletes` is about the order of the locks. Who holds the row waits for the lock of an event at
most, since only a delete asks for the row after its event, and a delete has written no row before (`Shape`, `RowHolderWaits`).
Who holds an event and waits is such a delete (`EventHolderWaits`). So in a circle somebody has the row, who waits for a delete,
which waits for him: the two are a circle, and a smallest one has no others.

**`Authorization_proofs`.** What a request has read is worth something as long as the rows are as it
read them. For a move of a role that is each role by itself (`Descent`): of the roles that were not
moved since the update began, each live one below a role it has visited is visited, or in its
queue; so when it saves, no such role leads from the new parent down to itself. A cycle whose last move was validated
then holds a role that was moved meanwhile, by an update or an edit that overlapped: `CyclesTakeARace`, which says nothing of a cycle that
an unvalidated edit closes, and also needs that nothing is below a role that was never created (`Rooted`, `Aimed`), and that
what is stored and read are numbers of past writes (`Numbered`). For a decision it is all rows.
If nothing was written since it began, what the walk from a role has visited is what is within as
many steps of it (`Ascent`), so where it ends it has found what is within the depth, in a
cycle too; and the roles that are done do not give the permission (`QuietCheck`). That is
`QuietDecisions`. A decision that got past the policies that deny saw none that is as it was
then (`Undenied`): `DenialsHold`. `Bounded` serves the type invariant: each request
that may write has a write left. TLC checked `IInv` as an invariant of the run before it was proved.
`RequestsComeToTheirEnd` is what can be proved of `RequestsEnd`: a number, `Left`, which every step of a
request lowers and no other request touches. A walk down visits a role once; a walk up is
counted by what it has visited, which is at most `Depth` + 1 roles, with one round for each role assigned
(`Walked`); a check begins with 5 + |Role| (`Depth` + 3). The hypothesis, for this theorem
alone, is that the roles are finitely many. With weak fairness of the steps the liveness follows.

Three of these results need an induction over numbers: `LimitedLoginsEvict` (that the newest of the
sessions are at most `Limit`), `VersionsAreTrue`, and that a path in `Authorization` stays in a set of roles that is closed
under parents. The library's induction theorems take an operator as a parameter, which no
backend instantiates; here the induction is the least-number principle (`LeastNumber`, from the well-foundedness of `<` on
the naturals), applied to the set of counterexamples.

**`Provisioning_proofs`.** The rows a transaction will insert are part of the
invariant: their names clash with nothing stored and with nobody else's (`InsertsAreNew`).
Stored names are in lower case (`StoredNames`), without which the unique column would
not keep `bob` from `Bob`: `UsernamesDiffer`. For `WholeAccounts`, a request that goes on
to delete an account alone noted a principal that is deleted, and stays so
(`NotedGone`).

Some theorems are about properties that no run repeats: `PendingRestrictionsCarryStamp`,
`RestrictionsBumpStamp`, `StoredCoherent`, `KeepsSessionContract`, `SameVersionSameContent`, and the
type invariants that no run names. The two in the middle are what `KeepsSessionsPromise` rests on.

Only model-checked, because out of the provers' reach: liveness (`CommittedIsOffered`,
`RequestsEnd`, but for the measure above) and `PolicyExpression`
(`ParserFollowsGrammar`, `RewritesAgree`), whose parser is recursive operators over data of any depth.

## 5. Where code and documents disagree

Met while modelling. The models follow the code, and what is said here is read from it. The properties of section 3
are stated of what the code does, so where a document promises more than that they promise less: the entries below say so
of each. No run asserts what a document says against the code.

**Versioned rows and lifecycle**

- A save that is rolled back leaves `version` raised in memory; once the row catches up,
  the stale instance overwrites it (`core/models/mixins.py:924`). `bulk_update` takes the new version
  from the instance (`querysets.py:157`). Either breaks the guarantee of `VersionedRow` by itself.
- A locked entity is said to be "restricted until `locked_until`" and to unlock "when `locked_until` is
  in the past" (`docs/LIFECYCLE_STATE_MACHINE.md:22-23`). Nothing sets `is_active` again when the time has come, and
  `can_authenticate` asks for it (`principal.py:208`): the principal stays out until an operation lets it in.
  `authenticatable()` (`accounts/models/querysets.py:74`) means to let a lapsed lock through, with a filter of its own on
  `locked_until` (line 94); but the `active()` it starts from, documented as "including
  locked/suspended/disabled" (line 32), asks for `is_active` as well (`core/models/querysets.py:51`), so it does not.
  No property takes a side: those of the sessions say what a principal that was restricted must not leave behind.
- A save of a principal whose lock has lapsed calls `_clear_lock_fields`
  (`principal.py:469`), which does not exist; it is `_clear_locked_fields`. The save
  raises `AttributeError` and stores nothing: `SaveAccepts` refuses it.
- `Principal` documents that the stamp is bumped on soft-delete
  (`principal.py:78`); `delete()`, which it inherits, sets `deleted_at` without it.
  The deleted principal cannot authenticate, but after `restore()` its sessions
  are valid again. `SecurityStamp` therefore does not promise more.
- `set_display_name` passes `update_fields`, `Principal.save` drops them
  (`principal.py:474`): every column is written.
- `enable`, `unsuspend` with a lapsed lock set `is_active` although the lock
  columns are set, and the validator refuses the save.

**Sessions and tokens**

- `revoke` is documented as final (`auth_session.py:347`); `enable`, inherited,
  undoes it. `AuthSessions` includes it.
- Bulk termination leaves `is_active` TRUE on disabled rows (`auth_session.py:412`),
  which `LifecycleValidator` refuses on the next save of such a session.
- `cleanup_terminal` promises a soft delete (`auth_session.py:422`) and removes the
  rows (line 430): its queryset does not soft-delete.
- A crash between revocation and successor ends the family (`token.py:117`); the
  expiry of a refresh token is never read (`token.py:88`).
- The views that terminate sessions revoke them, which asks for an actor
  (`views.py:73`, `views.py:110`); a client with an access token alone is none, so they raise.
- Without the header `X-Session-ID`, "terminate the others" includes the client's own session.
- `max_concurrent_sessions` promises to "revoke oldest sessions beyond this limit" (`managers.py:150`).
  `_enforce_max_sessions` runs before the new session is created and keeps the newest `limit` of the others
  (`managers.py:171`), so one login alone leaves one more than the limit, and logins that overlap more.
  A session committed between its query and its UPDATE is evicted, though newer than those kept.
  `LimitedLoginEvicts` says what remains true. No caller in `src/` passes a limit.
- Logout from all devices calls `AuthSession.objects.terminate_all_for_principal`, which is
  a method of the model and not of its manager (`authentication.py:552`).
- `services/lifecycle.py` of the sessions calls `mark_expired`,
  `cleanup_expired_sessions` and `extend_expiry`, which do not exist.

**Credentials and logins**

- "Creating a new token invalidates prior tokens": two requests at once leave two
  (`challenges.py:125`).
- A right OTP makes the instance that is then consumed stale, so a passwordless login
  with an OTP fails (`authentication.py:392`).
- `confirm_password_reset` accepts a token of any purpose (`password.py:143`), and a
  token's `delivery_target` is never compared with the address it confirms.
- "Bump security stamp to invalidate existing sessions" (`password.py:297`):
  `_set_password` looks for `principal.principal`, which a `Principal` does not have, so
  sessions survive a change of password.
- The threshold records `ACCOUNT_LOCKED` and locks nothing (`lockout.py:57`):
  `Principal.lock_account` does not exist (`lockout.py:180`).
- Only failures of the last `LOCKOUT_DURATION_MINUTES` count (`lockout.py:83`), which that docstring does not
  say: spread over a longer time, any number of them goes without a lockout. `FailuresAreCounted` is about the window.
- A Principal has no `has_mfa`, so the second step of a login is never asked for, and
  its pending record is never made.
- A reset without an actor fails when it saves the principal, after the token was spent and the
  credential stored. `PasswordCredential` is read by no login, and may differ from the
  principal's password; two concurrent changes can create two of them.
- Pruning can delete the history entry of another request. `disable_mfa` that fails
  midway leaves the backup codes usable for a TOTP-only login.

**Authorization**

- "Roles form a tree" (`authz/models/role.py:4`): the admin site edits `parent` without the cycle check of the service
  (`authz/admin/role.py:32`), so one save by itself can close a cycle; two moves at once can, and a move
  through a deleted role too. `CyclesNeedARace` is about cycles of live roles whose last move was validated.
  The walks are bounded, so decisions still end.
- An assignment that has expired can be neither renewed nor revoked nor made anew.
- Deleted roles go on granting. Ancestors beyond `MAX_ROLE_HIERARCHY_DEPTH` do not count.
- A DENY policy whose evaluation fails is skipped; a condition that cannot be parsed, which
  the admin site accepts, raises. `not in` is not in the grammar of the parser's docstring.

**Audit**

- `Event.Meta` does not inherit `BaseEvent.Meta`: (object, version) is not unique.
- "All fields here are immutable after creation, ensuring the checksum is stable"
  (`models/base.py:397`): the actor is `SET_NULL` (`event.py:37`) and part of the payload
  (`event.py:76`). `ChecksumHoldsWithActor` says what remains.
- "Each event is produced synchronously (flush=True) to ensure delivery before marking the event as dispatched"
  (`kafka.py:41`): the result of `flush(timeout=5)` is not looked at (`kafka.py:77`), so what is recorded as
  dispatched need not be in the topic. The producer retries without idempotence (`kafka.py:133`), so it may also
  be there twice; a Redis client that retries can do the same. `SinksAgree` speaks of whether a sink has an event,
  not how often, and excepts Kafka from what dispatched means.
- The outbox columns are said to be "updated by Celery dispatch tasks" (`event.py:31`); there are none, and nothing
  dispatches an event again that is still pending.
- The event of a save records the whole instance, whatever `update_fields` says (`auditing/models/mixins.py:149-156`,
  line 199). An attribute that was assigned and not saved, or is left from a save that failed, is recorded as if the
  row had held it, in the delta and the snapshot, without any overlap. `QuietHistoryIsTrue` is about histories where no instance
  differs from the row in a column it does not save.
- `save(update_fields=[])` writes no row and takes no row lock, and audits: its version may be that of a
  save that runs at the same time. `SavesNeverShareVersion` is about saves that write.
- Bulk updates leave no delta, bulk creates no base snapshot, and an undo without a snapshot of
  the predecessor restores nothing (`services/__init__.py:297`). Two undos at once both pass.
- UNDO and REDO events have an empty outbox and are forwarded nowhere.
- The middleware takes the actor before the API authenticates, so a request with an
  access token is audited without one.
- `AUDITED_MODELS` is applied after the explicit registrations, contrary to the
  documented precedence.

## 6. What is not modelled, and why

Text, formats, hashing, signatures, TOTP arithmetic, serialisers, admin pages,
settings, migrations: data without a protocol. The clients of Kafka, Redis and files
are I/O; `AuditOutbox` has the outcomes of a call.

Left out of a modelled component:

- `bulk_update` and instances that outlive a rolled-back save (`VersionedRow`): see section 5.
- The second step of a password login (`complete_mfa_authentication`): no login gets there.
- The lockout's progressive duration: it is that of a lock which is not made.
- A TOTP code may be accepted twice in its window; `Credentials` does not follow single
  TOTP codes.
- Credentials removed by cascade with their session; the cookies' session handles.
- The session store backend beyond `clear_expired`: it is not the configured engine.
- Deleting an account alone in the admin site, which is meant to leave its principal.
- `coordinator.py`, which nothing in `src/` uses; the outbox of undo and redo events,
  which is empty.
- The cached system actor, correlation ids, and the audit registry, which is filled before
  the first request.
- Authentication backends: one query and one comparison without state.

- Deadlocks are followed over the row and the events of one object; an operation that writes several objects in one
  transaction can meet others in more ways.

Database isolation is taken as PostgreSQL's READ
COMMITTED with `SELECT FOR UPDATE`; one statement is one step, but an UPDATE that waits for rows is
two. In `AuditTrail` so is a SELECT that waits.

## 7. The plan

In the order of dependence: `VersionedRow`, `Lifecycle`,
`PrincipalLifecycle` with `SecurityStamp`, `AuthSessions`, `PrincipalSessions`, `RefreshRotation` with
`TokenChain`, `VerificationTokens` with `OneTimeToken`; then `SessionRequests`,
`Credentials`, `Authorization`, `PolicyExpression`, `Provisioning`, `AuditTrail`,
`AuditOutbox`. What is left:

1. An abstract log of which `AuditTrail` and `AuditOutbox` are the writing and the
   forwarding end, and their composition.
2. `SessionRequests` over `AuthSessions`: expiry and locks of the sessions it ends.
3. Refresh credentials that go with their session, by cascade, under a rotation.
4. When the code that section 5 names changes: the lock that a threshold
   should cause, the stamp that a new password should bump, the second step of a login.
