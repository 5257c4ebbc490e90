--------------------------- MODULE VerificationTokens ---------------------------
(***************************************************************************)
(* The verification tokens of one principal: e-mail and phone              *)
(* confirmation, password reset and passwordless login.                    *)
(*                                                                         *)
(* No transaction spans a request.  Issuing a token is a cooldown query, a *)
(* bulk soft delete of the unused tokens of the purpose, and an INSERT;    *)
(* redeeming one is a query, the save of its effect, and a save of         *)
(* used_at, in an order that depends on the purpose.  Every write bumps    *)
(* the version and every save compares it (see VersionedRow); a save that  *)
(* finds another version raises, which is Fail here.                       *)
(***************************************************************************)
EXTENDS Naturals

CONSTANTS
  Worker,       \* requests in progress
  Token,        \* rows of VerificationToken; one raw token and OTP each
  None,         \* no token
  MaxAttempts,  \* max_attempts
  Cooldown,     \* ..._COOLDOWN_SECONDS, in ticks of the clock
  Ttl,          \* lifetimes of a token, in ticks
  MaxNow        \* bound: the last instant of the clock

ASSUME NoneAssumption == None \notin Token
ASSUME SettingsAssumption ==
  /\ MaxAttempts \in Nat
  /\ Cooldown \in Nat
  /\ Ttl \subseteq Nat
  /\ MaxNow \in Nat

VARIABLES
  now,      \* timezone.now()
  tokens,   \* tokens[t]: the stored row; version 0 when there is none
  request,  \* request[w]: how far it is, and the instances it holds
  guesses,  \* guesses[t]: history, how often an OTP was compared with t's
  granted   \* granted[t]: history, logins and password changes t was spent for

vars == <<now, tokens, request, guesses, granted>>

Purpose == {"email", "phone", "reset", "login"}

Row ==
  [version : Nat, purpose : Purpose, otp : BOOLEAN, attempts : Nat, used : BOOLEAN,
   deleted : BOOLEAN, created_at : Nat, expires_at : Nat]
NoRow ==
  [version |-> 0, purpose |-> "email", otp |-> FALSE, attempts |-> 0, used |-> FALSE,
   deleted |-> FALSE, created_at |-> 0, expires_at |-> 0]

\* token, version: the instance to consume; otp, otp_version, count: the one
\* verify_otp() loads, with its attempt_count.
Request ==
  [at : {"idle", "waited", "cleared", "verified", "guessing", "matched", "applied", "consumed"},
   flow : Purpose, token : Token \cup {None}, version : Nat,
   otp : Token \cup {None}, otp_version : Nat, count : Nat]
Idle ==
  [at |-> "idle", flow |-> "email", token |-> None, version |-> 0,
   otp |-> None, otp_version |-> 0, count |-> 0]

TypeOK ==
  /\ now \in Nat
  /\ tokens \in [Token -> Row]
  /\ request \in [Worker -> Request]
  /\ guesses \in [Token -> Nat]
  /\ granted \in [Token -> Nat]

Stored(t) == tokens[t].version > 0
Unused(t) == Stored(t) /\ ~tokens[t].used /\ ~tokens[t].deleted
Expired(t) == now >= tokens[t].expires_at

Init ==
  /\ now = 0
  /\ tokens = [t \in Token |-> NoRow]
  /\ request = [w \in Worker |-> Idle]
  /\ guesses = [t \in Token |-> 0]
  /\ granted = [t \in Token |-> 0]

-----------------------------------------------------------------------------
Tick ==
  /\ now < MaxNow
  /\ now' = now + 1
  /\ UNCHANGED <<tokens, request, guesses, granted>>

\* A token of that purpose was created too recently; a withdrawn one is not seen.
Recent(p) ==
  \E t \in Token : /\ Stored(t) /\ ~tokens[t].deleted /\ tokens[t].purpose = p
                   /\ tokens[t].created_at + Cooldown >= now

\* _check_cooldown() and its copies for reset and login.
CheckCooldown(w, p) ==
  /\ request[w].at = "idle"
  /\ Cooldown > 0 => ~Recent(p)
  /\ request' = [request EXCEPT ![w] = [Idle EXCEPT !.at = "waited", !.flow = p]]
  /\ UNCHANGED <<now, tokens, guesses, granted>>

Superseded(p) == {t \in Token : Unused(t) /\ tokens[t].purpose = p}

Withdrawn(row) ==
  [version |-> row.version + 1, purpose |-> row.purpose, otp |-> row.otp,
   attempts |-> row.attempts, used |-> row.used, deleted |-> TRUE,
   created_at |-> row.created_at, expires_at |-> row.expires_at]

\* invalidate_existing(): one UPDATE.
InvalidateExisting(w) ==
  /\ request[w].at = "waited"
  /\ tokens' = [t \in Token |->
       IF t \in Superseded(request[w].flow)
       THEN Withdrawn(tokens[t]) ELSE tokens[t]]
  /\ request' = [request EXCEPT ![w].at = "cleared"]
  /\ UNCHANGED <<now, guesses, granted>>

\* What the four requests issue: a phone token has an OTP, a login token may have one.
EmailToken(p, otp) == p = "email" /\ ~otp
PhoneToken(p, otp) == p = "phone" /\ otp
ResetToken(p, otp) == p = "reset" /\ ~otp
LoginToken(p, otp) == p = "login" /\ otp \in BOOLEAN

\* objects.create(...)
Create(w, t, otp, ttl) ==
  LET p == request[w].flow IN
  /\ request[w].at = "cleared"
  /\ ~Stored(t)
  /\ EmailToken(p, otp) \/ PhoneToken(p, otp) \/ ResetToken(p, otp) \/ LoginToken(p, otp)
  /\ tokens' = [tokens EXCEPT ![t] =
       [version |-> 1, purpose |-> p, otp |-> otp, attempts |-> 0, used |-> FALSE,
        deleted |-> FALSE, created_at |-> now, expires_at |-> now + ttl]]
  /\ request' = [request EXCEPT ![w] = Idle]
  /\ UNCHANGED <<now, guesses, granted>>

-----------------------------------------------------------------------------
\* verify_token(): a raw token was presented.  A reset accepts a token of any
\* purpose.
VerifyToken(w, t, p) ==
  /\ request[w].at = "idle"
  /\ Unused(t) /\ ~Expired(t)
  /\ \/ p = "reset"
     \/ p \in {"email", "login"} /\ tokens[t].purpose = p
  /\ request' = [request EXCEPT ![w] =
       [at |-> "verified", flow |-> p, token |-> t, version |-> tokens[t].version,
        otp |-> None, otp_version |-> 0, count |-> 0]]
  /\ UNCHANGED <<now, tokens, guesses, granted>>

\* verify_otp() finds the newest unused token with an OTP.  A phone is confirmed
\* by the OTP alone, a login presents it along with the raw token.
LookUpOtp(w, p, t) ==
  /\ \/ request[w].at = "idle" /\ p = "phone"
     \/ /\ request[w].at = "verified" /\ request[w].flow = "login" /\ p = "login"
        /\ tokens[request[w].token].otp
  /\ Unused(t) /\ tokens[t].otp /\ tokens[t].purpose = p
  /\ \A u \in Token :
       Unused(u) /\ tokens[u].otp /\ tokens[u].purpose = p
         => tokens[u].created_at <= tokens[t].created_at
  /\ ~Expired(t)
  /\ tokens[t].attempts < MaxAttempts
  /\ request' = [request EXCEPT ![w] =
       [at |-> "guessing", flow |-> p, token |-> @.token, version |-> @.version,
        otp |-> t, otp_version |-> tokens[t].version, count |-> tokens[t].attempts]]
  /\ UNCHANGED <<now, tokens, guesses, granted>>

\* The OTP is right: verify_otp() returns its instance, which a phone
\* confirmation goes on with and a login ignores.
Matched(w) ==
  LET r == request[w]
      phone == r.flow = "phone"
  IN [at |-> "matched", flow |-> r.flow,
      token |-> IF phone THEN r.otp ELSE r.token,
      version |-> IF phone THEN r.otp_version + 1 ELSE r.version,
      otp |-> None, otp_version |-> 0, count |-> 0]

\* A plausible defect of Guess: the attempt counter is saved unconditionally.
GuessUnchecked(w, right) ==
  LET t == request[w].otp IN
  /\ request[w].at = "guessing"
  /\ tokens' = [tokens EXCEPT ![t].attempts = request[w].count + 1, ![t].version = @ + 1]
  /\ guesses' = [guesses EXCEPT ![t] = @ + 1]
  /\ request' = [request EXCEPT ![w] = IF right THEN Matched(w) ELSE Idle]
  /\ UNCHANGED <<now, granted>>

\* increment_attempts() goes through, and only then the OTP is compared.
Guess(w, right) ==
  LET t == request[w].otp IN
  /\ request[w].at = "guessing"
  /\ tokens[t].version = request[w].otp_version
  /\ tokens' = [tokens EXCEPT ![t].attempts = request[w].count + 1, ![t].version = @ + 1]
  /\ guesses' = [guesses EXCEPT ![t] = @ + 1]
  /\ request' = [request EXCEPT ![w] = IF right THEN Matched(w) ELSE Idle]
  /\ UNCHANGED <<now, granted>>

-----------------------------------------------------------------------------
\* E-mail and phone: principal.save() comes before the token is consumed.
Apply(w) ==
  /\ \/ request[w].at = "verified" /\ request[w].flow = "email"
     \/ request[w].at = "matched" /\ request[w].flow = "phone"
  /\ request' = [request EXCEPT ![w].at = "applied"]
  /\ UNCHANGED <<now, tokens, guesses, granted>>

ReadyToConsume(w) ==
  \/ request[w].at = "applied"
  \/ request[w].at = "verified" /\ request[w].flow \in {"reset", "login"}
  \/ request[w].at = "matched" /\ request[w].flow = "login"

\* A plausible defect of Consume: a queryset update instead of a save.
ConsumeUnchecked(w) ==
  LET t == request[w].token IN
  /\ ReadyToConsume(w)
  /\ tokens' = [tokens EXCEPT ![t].used = TRUE, ![t].version = @ + 1]
  /\ request' = [request EXCEPT ![w] =
       IF @.at = "applied" THEN Idle ELSE [@ EXCEPT !.at = "consumed"]]
  /\ UNCHANGED <<now, guesses, granted>>

\* consume_token() goes through.
Consume(w) ==
  LET t == request[w].token IN
  /\ ReadyToConsume(w)
  /\ tokens[t].version = request[w].version
  /\ tokens' = [tokens EXCEPT ![t].used = TRUE, ![t].version = @ + 1]
  /\ request' = [request EXCEPT ![w] =
       IF @.at = "applied" THEN Idle ELSE [@ EXCEPT !.at = "consumed"]]
  /\ UNCHANGED <<now, guesses, granted>>

\* Reset and login: the new password is set, the session or the MFA challenge
\* created, after the token is consumed.
Grant(w) ==
  /\ request[w].at = "consumed"
  /\ granted' = [granted EXCEPT ![request[w].token] = @ + 1]
  /\ request' = [request EXCEPT ![w] = Idle]
  /\ UNCHANGED <<now, tokens, guesses>>

\* The request answers with an error (a stale version, a refused principal, a
\* principal that cannot be saved, ...) or its process dies.
Fail(w) ==
  /\ request[w].at # "idle"
  /\ request' = [request EXCEPT ![w] = Idle]
  /\ UNCHANGED <<now, tokens, guesses, granted>>

Next ==
  \/ Tick
  \/ \E w \in Worker :
       \/ \E p \in Purpose : CheckCooldown(w, p)
       \/ InvalidateExisting(w)
       \/ \E t \in Token, otp \in BOOLEAN, ttl \in Ttl : Create(w, t, otp, ttl)
       \/ \E t \in Token, p \in Purpose : VerifyToken(w, t, p) \/ LookUpOtp(w, p, t)
       \/ \E right \in BOOLEAN : Guess(w, right)
       \/ Apply(w)
       \/ Consume(w)
       \/ Grant(w)
       \/ Fail(w)

Spec == Init /\ [][Next]_vars

-----------------------------------------------------------------------------
\* An OTP can be tried MaxAttempts times, however many requests try at once.
GuessesBounded == \A t \in Token : guesses[t] <= MaxAttempts

\* A token is spent or withdrawn, never both, and opens at most one session or
\* sets one password, although the check and the consumption are two steps.
life == [t \in Token |->
  CASE ~Stored(t) -> "unissued"
    [] Unused(t) /\ granted[t] = 0 -> "live"
    [] tokens[t].deleted /\ ~tokens[t].used /\ granted[t] = 0 -> "withdrawn"
    [] tokens[t].used /\ ~tokens[t].deleted /\ granted[t] = 0 -> "spent"
    [] tokens[t].used /\ ~tokens[t].deleted /\ granted[t] = 1 -> "granted"
    [] OTHER -> "broken"]
OneTime == INSTANCE OneTimeToken WITH state <- life
IsOneTime == OneTime!Spec
=============================================================================
