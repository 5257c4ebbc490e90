------------------------------ MODULE Credentials ------------------------------
(***************************************************************************)
(* What one principal proves itself with: the password, the TOTP devices   *)
(* and backup codes of the second factor, and the record of its failed     *)
(* logins.                                                                  *)
(*                                                                         *)
(* Nothing here runs in a transaction: every query and every save is a     *)
(* step, and a request can die between any two.  A save compares the       *)
(* version its instance was loaded with (see VersionedRow) and raises when *)
(* it is stale, which ends the request with what it saved so far.          *)
(***************************************************************************)
EXTENDS Naturals, FiniteSets

CONSTANTS
  Client,             \* requests in progress
  Device,             \* rows of TOTPCredential
  Code,               \* rows of BackupCode
  Row,                \* rows of PasswordCredential
  Password,           \* passwords, by what they hash
  None,               \* no row, no password
  Enrolled,           \* the device and the codes enrolled at the start
  Initial,            \* the password the principal was provisioned with
  CodeCount,          \* MFA_BACKUP_CODE_COUNT
  HistoryCount,       \* PASSWORD_HISTORY_COUNT
  MaxFailedAttempts,  \* MAX_FAILED_ATTEMPTS
  MaxRequests         \* bound: requests served

ASSUME NamesAssumption ==
  /\ None \notin Device \cup Code \cup Row \cup Password
  /\ Device \cap Code = {}
  /\ Initial \in Password
  /\ Enrolled \subseteq Device \cup Code
ASSUME SettingsAssumption ==
  /\ CodeCount \in Nat
  /\ HistoryCount \in Nat \ {0}
  /\ MaxFailedAttempts \in Nat \ {0}
  /\ MaxRequests \in Nat

VARIABLES
  factors,     \* factors[x]: the stored device or backup code
  principal,   \* the stored password, version and security stamp
  credential,  \* credential[r]: the stored PasswordCredential
  history,     \* PasswordHistory; "after" are the ids of what was there before
  failures,    \* LoginAttempt rows that are not successes, numbered by created_at
  expired,     \* those of them older than LOCKOUT_DURATION_MINUTES
  lockouts,    \* those that are ACCOUNT_LOCKED, each with the failure it answers
  request,     \* request[w]: how far it is, and the instances it holds
  served,      \* requests begun
  accepted,    \* accepted[c]: history, how often backup code c was accepted
  unrecorded   \* history: failures whose request died before it had counted

factorVars == <<factors, accepted>>
passwordVars == <<principal, credential, history>>
attemptVars == <<failures, expired, lockouts, unrecorded>>
credentialsVars == <<factorVars, passwordVars, attemptVars, request, served>>

Factor == Device \cup Code

\* "none" is a row not inserted yet; a consumed backup code is "inactive".
Statuses == {"none", "inactive", "active", "revoked", "deleted"}

RequestStages ==
  {"idle", "setup", "discarded", "pending", "generating", "verifying", "matched",
   "revoking devices", "revoking codes", "failed", "recorded",
   "locking", "loaded", "checked", "credential loaded", "credential saved",
   "principal saved", "history recorded", "pruning"}

RequestState ==
  [at : RequestStages,
   flow : {"none", "mfa", "login", "disable", "change", "reset", "admin"},
   factor : Factor \cup {None}, version : Nat,
   todo : SUBSET (Factor \X Nat), left : Nat,
   loaded : Password \cup {None}, new : Password \cup {None},
   row : Row \cup {None}, row_version : Nat, keep : SUBSET Nat, failure : Nat]

Idle ==
  [at |-> "idle", flow |-> "none", factor |-> None, version |-> 0, todo |-> {},
   left |-> 0, loaded |-> None, new |-> None, row |-> None, row_version |-> 0,
   keep |-> {}, failure |-> 0]

CredentialsTypeOK ==
  /\ factors \in [Factor -> [status : Statuses, version : Nat, used : BOOLEAN]]
  /\ principal \in [password : Password, version : Nat, stamp : Nat]
  /\ credential \in [Row -> [password : Password \cup {None}, version : Nat]]
  /\ history \subseteq [id : Nat, password : Password, after : SUBSET Nat]
  /\ failures \in Nat /\ expired \in 0..failures
  /\ lockouts \subseteq (1..failures) \X Nat
  /\ request \in [Client -> RequestState]
  /\ served \in 0..MaxRequests
  /\ accepted \in [Code -> Nat]
  /\ unrecorded \subseteq Nat

CredentialsInit ==
  /\ factors = [x \in Factor |->
       IF x \in Enrolled THEN [status |-> "active", version |-> 1, used |-> FALSE]
       ELSE [status |-> "none", version |-> 0, used |-> FALSE]]
  /\ principal = [password |-> Initial, version |-> 1, stamp |-> 0]
  /\ credential = [r \in Row |-> [password |-> None, version |-> 0]]
  /\ history = {}
  /\ failures = 0 /\ expired = 0
  /\ lockouts = {}
  /\ request = [w \in Client |-> Idle]
  /\ served = 0
  /\ accepted = [c \in Code |-> 0]
  /\ unrecorded = {}

-----------------------------------------------------------------------------
Stored(x) == factors[x].status \notin {"none", "deleted"}
HasActiveTotp == \E d \in Device : factors[d].status = "active"

\* A code is looked up by is_used and status both.
Usable(x) == factors[x].status = "active" /\ ~factors[x].used

\* The rows a loop over a query holds, with the versions it read.
Loaded(S) == {<<x, factors[x].version>> : x \in S}

\* A plausible defect of Fresh: the row is only looked up.
FreshIfStored(x, version) == Stored(x)

\* save() writes when the row still has the version of the instance.
Fresh(x, version) == factors[x].version = version

Written(x, status, used) ==
  [factors EXCEPT ![x] = [status |-> status, version |-> @.version + 1, used |-> used]]

Begin(w, r) ==
  /\ request[w].at = "idle"
  /\ served < MaxRequests
  /\ served' = served + 1
  /\ request' = [request EXCEPT ![w] = r]

Continue(w, from, r) ==
  /\ request[w].at = from
  /\ request' = [request EXCEPT ![w] = r]
  /\ UNCHANGED served

At(w, at) == [request[w] EXCEPT !.at = at]

\* It has recorded a failed login, and not yet what follows from it.
Counting(w) == request[w].at \in {"recorded", "locking"}

-----------------------------------------------------------------------------
\* setup_totp(): refuse, soft-delete the unconfirmed devices, create one.
BeginSetup(w) ==
  /\ ~HasActiveTotp
  /\ Begin(w, [Idle EXCEPT !.at = "setup", !.flow = "mfa"])
  /\ UNCHANGED <<factorVars, passwordVars, attemptVars>>

DiscardPending(w) ==
  /\ Continue(w, "setup", At(w, "discarded"))
  /\ factors' = [x \in Factor |->
       IF x \in Device /\ factors[x].status = "inactive"
       THEN [factors[x] EXCEPT !.status = "deleted", !.version = @ + 1]
       ELSE factors[x]]
  /\ UNCHANGED <<accepted, passwordVars, attemptVars>>

\* A plausible defect of CreateTotp: a status no code looks for.
CreateTotpUnnamed(w, d) ==
  /\ factors[d].status = "none"
  /\ Continue(w, "discarded", Idle)
  /\ factors' = Written(d, "pending", FALSE)
  /\ UNCHANGED <<accepted, passwordVars, attemptVars>>

CreateTotp(w, d) ==
  /\ factors[d].status = "none"
  /\ Continue(w, "discarded", Idle)
  /\ factors' = Written(d, "inactive", FALSE)
  /\ UNCHANGED <<accepted, passwordVars, attemptVars>>

\* activate_totp(): the code of a pending device was presented; the others raise.
BeginActivate(w, d) ==
  /\ factors[d].status = "inactive"
  /\ Begin(w, [Idle EXCEPT !.at = "pending", !.flow = "mfa", !.factor = d,
                           !.version = factors[d].version])
  /\ UNCHANGED <<factorVars, passwordVars, attemptVars>>

ActivateTotp(w) ==
  LET d == request[w].factor IN
  /\ Continue(w, "pending", [Idle EXCEPT !.at = "generating", !.flow = "mfa", !.left = CodeCount])
  /\ Fresh(d, request[w].version)
  /\ factors' = Written(d, "active", FALSE)
  /\ UNCHANGED <<accepted, passwordVars, attemptVars>>

\* _generate_backup_codes(): one INSERT each.
GenerateCode(w, c) ==
  /\ factors[c].status = "none"
  /\ request[w].left > 0
  /\ Continue(w, "generating",
       IF request[w].left = 1 THEN Idle ELSE [request[w] EXCEPT !.left = @ - 1])
  /\ factors' = Written(c, "active", FALSE)
  /\ UNCHANGED <<accepted, passwordVars, attemptVars>>

\* regenerate_backup_codes(): one UPDATE revokes the unused codes.
RegenerateBackupCodes(w) ==
  /\ HasActiveTotp
  /\ Begin(w, [Idle EXCEPT !.at = "revoking codes", !.flow = "mfa"])
  /\ UNCHANGED <<factorVars, passwordVars, attemptVars>>

RevokeUnusedCodes(w) ==
  /\ request[w].flow = "mfa"
  /\ Continue(w, "revoking codes", [At(w, "generating") EXCEPT !.left = CodeCount])
  /\ factors' = [x \in Factor |->
       IF x \in Code /\ Stored(x) /\ ~factors[x].used
       THEN [factors[x] EXCEPT !.status = "revoked", !.version = @ + 1]
       ELSE factors[x]]
  /\ UNCHANGED <<accepted, passwordVars, attemptVars>>

-----------------------------------------------------------------------------
\* A code is presented to log in or to switch the second factor off.
PresentCode(w, flow) ==
  /\ flow = "disable" => HasActiveTotp
  /\ Begin(w, [Idle EXCEPT !.at = "verifying", !.flow = flow])
  /\ UNCHANGED <<factorVars, passwordVars, attemptVars>>

\* verify_mfa(): the query finds the device or backup code it belongs to.
MatchCode(w, x) ==
  /\ Usable(x)
  /\ Continue(w, "verifying",
       [At(w, "matched") EXCEPT !.factor = x, !.version = factors[x].version])
  /\ UNCHANGED <<factorVars, passwordVars, attemptVars>>

Accepted(w) == IF request[w].flow = "login" THEN Idle ELSE At(w, "revoking devices")

\* mark_used(): a device stays active.
MarkUsed(w) ==
  LET d == request[w].factor IN
  /\ d \in Device
  /\ Continue(w, "matched", Accepted(w))
  /\ Fresh(d, request[w].version)
  /\ factors' = Written(d, factors[d].status, FALSE)
  /\ UNCHANGED <<accepted, passwordVars, attemptVars>>

\* verify_and_consume().
VerifyAndConsume(w) ==
  LET c == request[w].factor IN
  /\ c \in Code
  /\ Continue(w, "matched", Accepted(w))
  /\ Fresh(c, request[w].version)
  /\ factors' = Written(c, "inactive", TRUE)
  /\ accepted' = [accepted EXCEPT ![c] = @ + 1]
  /\ UNCHANGED <<passwordVars, attemptVars>>

\* The code belongs to no usable row: a login records the failure.
RejectCode(w) ==
  /\ Continue(w, "verifying", IF request[w].flow = "login" THEN At(w, "failed") ELSE Idle)
  /\ UNCHANGED <<factorVars, passwordVars, attemptVars>>

\* disable_mfa() goes over every device it finds, then over every unused code.
LoadDevices(w) ==
  /\ request[w].todo = {} /\ request[w].left = 0
  /\ Continue(w, "revoking devices",
       [request[w] EXCEPT !.todo = Loaded({d \in Device : Stored(d)}), !.left = 1])
  /\ UNCHANGED <<factorVars, passwordVars, attemptVars>>

LoadCodes(w) ==
  /\ request[w].todo = {} /\ request[w].left = 1
  /\ Continue(w, "revoking devices",
       [At(w, "revoking codes") EXCEPT
          !.todo = Loaded({c \in Code : Stored(c) /\ ~factors[c].used})])
  /\ UNCHANGED <<factorVars, passwordVars, attemptVars>>

\* revoke(): writes the status alone, of the version it was loaded with.
Revoke(w, at) ==
  /\ request[w].flow = "disable"
  /\ \E entry \in request[w].todo :
       /\ Fresh(entry[1], entry[2])
       /\ Continue(w, at, [request[w] EXCEPT !.todo = @ \ {entry}])
       /\ factors' = Written(entry[1], "revoked", factors[entry[1]].used)
  /\ UNCHANGED <<accepted, passwordVars, attemptVars>>

DisableReturns(w) ==
  /\ request[w].flow = "disable" /\ request[w].todo = {}
  /\ Continue(w, "revoking codes", Idle)
  /\ UNCHANGED <<factorVars, passwordVars, attemptVars>>

-----------------------------------------------------------------------------
\* A login with a wrong password goes straight to record_failed_attempt().
FailPasswordLogin(w) ==
  /\ Begin(w, [Idle EXCEPT !.at = "failed", !.flow = "login"])
  /\ UNCHANGED <<factorVars, passwordVars, attemptVars>>

\* LoginAttempt.objects.create(...), then a query counts the failures.
RecordFailure(w) ==
  /\ Continue(w, "failed", [At(w, "recorded") EXCEPT !.failure = failures + 1])
  /\ failures' = failures + 1
  /\ UNCHANGED <<factorVars, passwordVars, expired, lockouts, unrecorded>>

\* recent(window_minutes): the oldest failure of the window leaves it.
Age ==
  /\ expired < failures
  /\ expired' = expired + 1
  /\ UNCHANGED <<factorVars, passwordVars, failures, lockouts, unrecorded, request, served>>

\* A plausible defect of ReachesThreshold: one failure late.
ExceedsThreshold == failures - expired > MaxFailedAttempts
ReachesThreshold == failures - expired >= MaxFailedAttempts

\* At the threshold the lockout is recorded; no principal is locked by it, for
\* Principal has neither lock_account() nor a principal to ask.
CountFailures(w) ==
  /\ Continue(w, "recorded", IF ReachesThreshold THEN At(w, "locking") ELSE Idle)
  /\ UNCHANGED <<factorVars, passwordVars, attemptVars>>

RecordLockout(w) ==
  /\ Continue(w, "locking", Idle)
  /\ failures' = failures + 1
  /\ lockouts' = lockouts \cup {<<failures + 1, request[w].failure>>}
  /\ UNCHANGED <<factorVars, passwordVars, expired, unrecorded>>

-----------------------------------------------------------------------------
\* The principal is loaded when the request is authenticated, when the token of
\* a reset is verified, or by whoever calls admin_reset_password().
LoadPrincipal(w, flow, new) ==
  /\ Begin(w, [Idle EXCEPT !.at = "loaded", !.flow = flow, !.new = new,
                           !.loaded = principal.password, !.version = principal.version])
  /\ UNCHANGED <<factorVars, passwordVars, attemptVars>>

\* order_by("-created_at")[:n].
Recent(n) == {e \in history : Cardinality({f \in history : e.id \in f.after}) < n}
RecentPasswords == {entry.password : entry \in Recent(HistoryCount)}

\* check_password() of the principal loaded, then check_reuse(): a query.
CheckPassword(w, current) ==
  /\ request[w].flow = "change" => current = request[w].loaded
  /\ request[w].flow # "admin" => request[w].new \notin RecentPasswords
  /\ Continue(w, "loaded", At(w, "checked"))
  /\ UNCHANGED <<factorVars, passwordVars, attemptVars>>

\* _set_password(): an active PasswordCredential, if there is one, ...
LoadCredential(w, r) ==
  /\ IF r = None THEN \A s \in Row : credential[s].version = 0
     ELSE credential[r].version > 0
  /\ Continue(w, "checked", [At(w, "credential loaded") EXCEPT
       !.row = r, !.row_version = IF r = None THEN 0 ELSE credential[r].version])
  /\ UNCHANGED <<factorVars, passwordVars, attemptVars>>

\* ... is saved or created, ...
SaveCredential(w, r) ==
  /\ IF request[w].row = None
     THEN credential[r].version = 0
     ELSE r = request[w].row /\ credential[r].version = request[w].row_version
  /\ Continue(w, "credential loaded", At(w, "credential saved"))
  /\ credential' = [credential EXCEPT ![r] =
       [password |-> request[w].new, version |-> @.version + 1]]
  /\ UNCHANGED <<factorVars, principal, history, attemptVars>>

\* A plausible defect of SavePrincipal: the password is written without the
\* version compared.
SavePrincipalOverwriting(w) ==
  /\ Continue(w, "credential saved", At(w, "principal saved"))
  /\ principal' = [principal EXCEPT !.password = request[w].new, !.version = @ + 1]
  /\ UNCHANGED <<factorVars, credential, history, attemptVars>>

\* ... then the principal, unless there is no actor or it is stale, ...
SavePrincipal(w) ==
  /\ principal.version = request[w].version
  /\ Continue(w, "credential saved", At(w, "principal saved"))
  /\ principal' = [principal EXCEPT !.password = request[w].new, !.version = @ + 1]
  /\ UNCHANGED <<factorVars, credential, history, attemptVars>>

\* ... the history is appended to (every stored password has a version, which
\* names its entry) ...
RecordHistory(w) ==
  /\ Continue(w, "principal saved", At(w, "history recorded"))
  /\ history' = history \cup
       {[id |-> request[w].version + 1, password |-> request[w].new,
         after |-> {entry.id : entry \in history}]}
  /\ UNCHANGED <<factorVars, principal, credential, attemptVars>>

\* ... and pruned: the ids to keep are read, the other rows deleted.
ReadKeptEntries(w) ==
  /\ Continue(w, "history recorded",
       [At(w, "pruning") EXCEPT !.keep = {entry.id : entry \in Recent(HistoryCount)}])
  /\ UNCHANGED <<factorVars, passwordVars, attemptVars>>

\* The stamp would be bumped on principal.principal, which no Principal has.
BumpedStamp == principal.stamp

Prune(w) ==
  /\ Continue(w, "pruning", Idle)
  /\ history' = {entry \in history : entry.id \in request[w].keep}
  /\ principal' = [principal EXCEPT !.stamp = BumpedStamp]
  /\ UNCHANGED <<factorVars, credential, attemptVars>>

-----------------------------------------------------------------------------
\* A request raises, or its process dies, at any point.
Die(w) ==
  /\ request[w].at # "idle"
  /\ request' = [request EXCEPT ![w] = Idle]
  /\ unrecorded' = IF Counting(w) THEN unrecorded \cup {request[w].failure} ELSE unrecorded
  /\ UNCHANGED <<factorVars, passwordVars, failures, expired, lockouts, served>>

SetUp(w) ==
  \/ BeginSetup(w) \/ DiscardPending(w) \/ ActivateTotp(w)
  \/ \E d \in Device : CreateTotp(w, d) \/ BeginActivate(w, d)
  \/ \E c \in Code : GenerateCode(w, c)
  \/ RegenerateBackupCodes(w) \/ RevokeUnusedCodes(w)

Verify(w) ==
  \/ \E flow \in {"login", "disable"} : PresentCode(w, flow)
  \/ \E x \in Factor : MatchCode(w, x)
  \/ MarkUsed(w) \/ VerifyAndConsume(w) \/ RejectCode(w)

DisableMfa(w) ==
  \/ LoadDevices(w) \/ LoadCodes(w) \/ DisableReturns(w)
  \/ Revoke(w, "revoking devices") \/ Revoke(w, "revoking codes")

RecordAttempt(w) ==
  FailPasswordLogin(w) \/ RecordFailure(w) \/ CountFailures(w) \/ RecordLockout(w)

SetPassword(w) ==
  \/ \E flow \in {"change", "reset", "admin"}, new \in Password : LoadPrincipal(w, flow, new)
  \/ \E current \in Password : CheckPassword(w, current)
  \/ \E r \in Row \cup {None} : LoadCredential(w, r)
  \/ \E r \in Row : SaveCredential(w, r)
  \/ SavePrincipal(w) \/ RecordHistory(w) \/ ReadKeptEntries(w) \/ Prune(w)

CredentialsNext ==
  \/ \E w \in Client :
       SetUp(w) \/ Verify(w) \/ DisableMfa(w) \/ RecordAttempt(w) \/ SetPassword(w) \/ Die(w)
  \/ Age

CredentialsSpec == CredentialsInit /\ [][CredentialsNext]_credentialsVars

-----------------------------------------------------------------------------
\* A backup code opens nothing but at a moment when it is active and unused,
\* however many requests present it at once, and while others revoke it.
OnlyUsableCodesPass ==
  [][\A c \in Code : accepted'[c] # accepted[c] => Usable(c)]_credentialsVars

\* What was revoked or discarded never works again: neither a confirmation that
\* loaded the device before, nor a login that loaded the code before.
WithdrawnStaysWithdrawn ==
  [][\A x \in Factor :
       factors[x].status \in {"revoked", "deleted"} => factors'[x].status = factors[x].status]_credentialsVars

\* A lockout answers the failure, or it is one itself, or its request is still to answer
\* it, or died before it could.
Answered(n) ==
  \/ \E l \in lockouts : n \in {l[1], l[2]}
  \/ n \in unrecorded
  \/ \E w \in Client : Counting(w) /\ request[w].failure = n

\* Of the failures of the last LOCKOUT_DURATION_MINUTES, fewer than
\* MAX_FAILED_ATTEMPTS are left without an ACCOUNT_LOCKED row that answers them:
\* each request counts after its own INSERT, so none of several at once is
\* overlooked. (Failures spread over a longer time never reach the threshold.)
FailuresAreCounted ==
  Cardinality({n \in expired + 1 .. failures : ~Answered(n)}) < MaxFailedAttempts

\* change_password() replaces the very password the request proved to know.
ChangeReplacesWhatItProved ==
  [][\A w \in Client :
       request[w].at = "credential saved" /\ request'[w].at = "principal saved"
         /\ request[w].flow = "change"
       => principal.password = request[w].loaded]_credentialsVars
=============================================================================
