----------------------- MODULE VerificationTokens_proofs -----------------------
(***************************************************************************)
(* Proofs about VerificationTokens, for any number of requests and tokens: *)
(* OTP attempts are bounded and the rows implement one-time tokens.        *)
(*                                                                         *)
(* Both rest on the version check: an instance whose version is the stored *)
(* one shows the row as it is, so it was not used, withdrawn or guessed at *)
(* since the request looked at it.                                         *)
(***************************************************************************)
EXTENDS VerificationTokens, TLAPS

\* The instance a request is going to consume is no newer than the row; if it
\* is current, the token is unused.
HeldToken(w) ==
  \/ request[w].at \in {"verified", "matched", "applied"}
  \/ request[w].at = "guessing" /\ request[w].flow # "phone"
  => LET t == request[w].token IN
     /\ t \in Token /\ Stored(t)
     /\ request[w].version <= tokens[t].version
     /\ request[w].version = tokens[t].version => Unused(t)

\* The same for the instance verify_otp() works on, whose attempt counter is
\* below the limit.
GuessedToken(w) ==
  request[w].at = "guessing"
  => LET t == request[w].otp IN
     /\ t \in Token /\ Stored(t)
     /\ request[w].otp_version <= tokens[t].version
     /\ request[w].count < MaxAttempts
     /\ request[w].otp_version = tokens[t].version
          => Unused(t) /\ request[w].count = tokens[t].attempts

\* A token that was consumed and has not yet had its effect is some one
\* request's.
Consuming ==
  \A w \in Worker : request[w].at = "consumed" =>
    /\ request[w].token \in Token
    /\ tokens[request[w].token].used
    /\ granted[request[w].token] = 0
    /\ \A v \in Worker :
         request[v].at = "consumed" /\ request[v].token = request[w].token => v = w

Counted ==
  \A t \in Token : guesses[t] = tokens[t].attempts /\ guesses[t] <= MaxAttempts

\* No token is both spent and withdrawn, and only a spent one had an effect.
Accounted ==
  \A t \in Token :
    /\ ~Stored(t) => ~tokens[t].used /\ ~tokens[t].deleted /\ tokens[t].attempts = 0
    /\ ~(tokens[t].used /\ tokens[t].deleted)
    /\ granted[t] = 0 \/ (granted[t] = 1 /\ tokens[t].used)

IInv ==
  /\ TypeOK
  /\ \A w \in Worker : HeldToken(w) /\ GuessedToken(w)
  /\ Consuming
  /\ Counted
  /\ Accounted

USE NoneAssumption, SettingsAssumption DEF Stored, Unused

LEMMA InitIInv == Init => IInv
BY DEF Init, IInv, TypeOK, HeldToken, GuessedToken, Consuming, Counted, Accounted,
   Row, NoRow, Request, Idle, Purpose

-----------------------------------------------------------------------------
\* Whatever a step writes, it raises the version: who holds an instance either
\* has a stale one or the row has not changed.
Moves == \A t \in Token : tokens'[t] = tokens[t] \/ tokens'[t].version > tokens[t].version

LEMMA InstancesKept ==
  ASSUME IInv, tokens' \in [Token -> Row], Moves,
         NEW w \in Worker, request'[w] = request[w]
  PROVE  HeldToken(w)' /\ GuessedToken(w)'
<1>1. request[w] \in Request /\ request[w].version \in Nat /\ request[w].otp_version \in Nat
  BY DEF IInv, TypeOK, Request
<1>2. \A t \in Token : tokens[t].version \in Nat /\ tokens'[t].version \in Nat
  BY DEF IInv, TypeOK, Row
<1>3. HeldToken(w) /\ GuessedToken(w)
  BY DEF IInv
<1>4. HeldToken(w)'
  BY <1>1, <1>2, <1>3 DEF HeldToken, Moves
<1>5. GuessedToken(w)'
  BY <1>1, <1>2, <1>3 DEF GuessedToken, Moves
<1> QED  BY <1>4, <1>5

\* Steps that only start, advance or end a request.
LEMMA RequestPreserves ==
  ASSUME IInv, UNCHANGED <<tokens, guesses, granted>>, now' \in Nat,
         request' \in [Worker -> Request],
         \A w \in Worker :
           \/ request'[w] = request[w]
           \/ HeldToken(w)' /\ GuessedToken(w)' /\ request'[w].at # "consumed"
  PROVE  IInv'
<1>1. TypeOK' /\ Counted' /\ Accounted'
  BY DEF IInv, TypeOK, Counted, Accounted
<1>2. \A w \in Worker : HeldToken(w)' /\ GuessedToken(w)'
  <2>1. tokens' \in [Token -> Row] /\ Moves
    BY DEF IInv, TypeOK, Moves
  <2> QED  BY <2>1, InstancesKept
<1>3. Consuming'
  BY DEF IInv, Consuming
<1> QED  BY <1>1, <1>2, <1>3 DEF IInv

LEMMA InvalidatePreserves ==
  ASSUME IInv, NEW w \in Worker, InvalidateExisting(w)
  PROVE  IInv'
<1> DEFINE S == Superseded(request[w].flow)
<1>1. ASSUME NEW t \in Token
      PROVE  /\ tokens[t] \in Row /\ Withdrawn(tokens[t]) \in Row
             /\ Withdrawn(tokens[t]).version = tokens[t].version + 1
             /\ Withdrawn(tokens[t]).version > tokens[t].version
             /\ Withdrawn(tokens[t]).deleted /\ Withdrawn(tokens[t]).used = tokens[t].used
             /\ Withdrawn(tokens[t]).attempts = tokens[t].attempts
  BY DEF IInv, TypeOK, Row, Withdrawn
<1>2. tokens' = [t \in Token |-> IF t \in S THEN Withdrawn(tokens[t]) ELSE tokens[t]]
  BY DEF InvalidateExisting
<1>3. \A t \in S : t \in Token /\ Unused(t)
  BY DEF Superseded
<1> HIDE DEF S
<1>4. /\ tokens' \in [Token -> Row]
      /\ \A t \in Token : tokens'[t] = IF t \in S THEN Withdrawn(tokens[t]) ELSE tokens[t]
  BY <1>1, <1>2
<1>5. Moves
  BY <1>1, <1>4 DEF Moves
<1>6. \A t \in Token : /\ tokens'[t].used = tokens[t].used
                       /\ tokens'[t].attempts = tokens[t].attempts
                       /\ Stored(t) => Stored(t)'
                       /\ tokens'[t] = tokens[t] \/ (Stored(t)' /\ ~tokens'[t].used)
  BY <1>1, <1>3, <1>4 DEF IInv, TypeOK, Row
<1>7. /\ request' \in [Worker -> Request]
      /\ request'[w].at = "cleared"
      /\ \A v \in Worker \ {w} : request'[v] = request[v]
  BY DEF InvalidateExisting, IInv, TypeOK, Request
<1>8. TypeOK'
  BY <1>4, <1>7 DEF InvalidateExisting, IInv, TypeOK
<1>9. \A v \in Worker : HeldToken(v)' /\ GuessedToken(v)'
  <2> TAKE v \in Worker
  <2>1. CASE v = w
    BY <1>7, <2>1 DEF HeldToken, GuessedToken
  <2>2. CASE v # w
    BY <1>4, <1>5, <1>7, <2>2, InstancesKept
  <2> QED  BY <2>1, <2>2
<1>10. Consuming'
  <2>1. \A v \in Worker : request'[v].at = "consumed"
          => request[v].at = "consumed" /\ request'[v] = request[v]
    BY <1>7
  <2>2. granted' = granted
    BY DEF InvalidateExisting
  <2> QED  BY <1>6, <2>1, <2>2 DEF IInv, Consuming
<1>11. Counted'
  BY <1>6 DEF InvalidateExisting, IInv, Counted
<1>12. Accounted'
  BY <1>6 DEF InvalidateExisting, IInv, Accounted
<1> QED  BY <1>8, <1>9, <1>10, <1>11, <1>12 DEF IInv

LEMMA CreatePreserves ==
  ASSUME IInv, NEW w \in Worker, NEW t \in Token, NEW otp \in BOOLEAN, NEW ttl \in Ttl,
         Create(w, t, otp, ttl)
  PROVE  IInv'
<1> DEFINE row == [version |-> 1, purpose |-> request[w].flow, otp |-> otp, attempts |-> 0,
                   used |-> FALSE, deleted |-> FALSE, created_at |-> now,
                   expires_at |-> now + ttl]
<1>1. /\ row \in Row /\ row.version = 1 /\ row.attempts = 0
      /\ ~row.used /\ ~row.deleted
  BY DEF IInv, TypeOK, Row, Request
<1>2. /\ tokens' = [tokens EXCEPT ![t] = row]
      /\ tokens[t].version = 0
  BY DEF Create, IInv, TypeOK, Row
<1> HIDE DEF row
<1>3. /\ tokens' \in [Token -> Row]
      /\ tokens'[t] = row
      /\ \A u \in Token \ {t} : tokens'[u] = tokens[u]
  BY <1>1, <1>2 DEF IInv, TypeOK
<1>4. Moves
  BY <1>1, <1>2, <1>3 DEF Moves
<1>5. /\ request' \in [Worker -> Request]
      /\ request'[w].at = "idle"
      /\ \A v \in Worker \ {w} : request'[v] = request[v]
  BY DEF Create, IInv, TypeOK, Request, Idle, Purpose
<1>6. TypeOK'
  BY <1>3, <1>5 DEF Create, IInv, TypeOK
<1>7. \A v \in Worker : HeldToken(v)' /\ GuessedToken(v)'
  <2> TAKE v \in Worker
  <2>1. CASE v = w
    BY <1>5, <2>1 DEF HeldToken, GuessedToken
  <2>2. CASE v # w
    BY <1>3, <1>4, <1>5, <2>2, InstancesKept
  <2> QED  BY <2>1, <2>2
<1>8. /\ tokens[t].attempts = 0 /\ ~tokens[t].used /\ granted[t] = 0
  BY <1>2 DEF IInv, Accounted
<1>9. Consuming'
  BY <1>3, <1>5, <1>8 DEF Create, IInv, Consuming
<1>10. Counted'
  BY <1>1, <1>3, <1>8 DEF Create, IInv, Counted
<1>11. Accounted'
  BY <1>1, <1>3, <1>8 DEF Create, IInv, Accounted
<1> QED  BY <1>6, <1>7, <1>9, <1>10, <1>11 DEF IInv

\* The attempt is counted in the row the request has seen, so the counter is
\* the number of guesses.
LEMMA GuessPreserves ==
  ASSUME IInv, NEW w \in Worker, NEW right \in BOOLEAN, Guess(w, right)
  PROVE  IInv'
<1> DEFINE t == request[w].otp
<1>1. /\ t \in Token /\ Unused(t) /\ request[w].at = "guessing"
      /\ request[w].otp_version = tokens[t].version
      /\ request[w].count = tokens[t].attempts /\ request[w].count < MaxAttempts
  BY DEF Guess, IInv, GuessedToken
<1> DEFINE row == [version |-> tokens[t].version + 1, purpose |-> tokens[t].purpose,
                   otp |-> tokens[t].otp, attempts |-> tokens[t].attempts + 1,
                   used |-> tokens[t].used, deleted |-> tokens[t].deleted,
                   created_at |-> tokens[t].created_at, expires_at |-> tokens[t].expires_at]
<1>2. /\ row \in Row /\ row.version = tokens[t].version + 1
      /\ row.attempts = tokens[t].attempts + 1
      /\ row.used = tokens[t].used /\ row.deleted = tokens[t].deleted
      /\ tokens[t].version \in Nat /\ tokens[t].attempts \in Nat
  BY <1>1 DEF IInv, TypeOK, Row
<1>3. tokens' = [tokens EXCEPT ![t] = row]
  BY <1>1, <1>2 DEF Guess, IInv, TypeOK, Row
<1> HIDE DEF row
<1>4. /\ tokens' \in [Token -> Row]
      /\ tokens'[t] = row
      /\ \A u \in Token \ {t} : tokens'[u] = tokens[u]
  BY <1>1, <1>2, <1>3 DEF IInv, TypeOK
<1>5. Moves
  BY <1>2, <1>4 DEF Moves
<1>6. /\ guesses' \in [Token -> Nat]
      /\ guesses'[t] = guesses[t] + 1
      /\ \A u \in Token \ {t} : guesses'[u] = guesses[u]
      /\ guesses[t] = tokens[t].attempts
  BY <1>1 DEF Guess, IInv, TypeOK, Counted
<1> DEFINE answer == IF right THEN Matched(w) ELSE Idle
<1>7. /\ answer \in Request
      /\ answer.at = "idle" \/ answer.at = "matched"
      /\ answer.at = "matched" =>
           \/ answer.token = t /\ answer.version = tokens[t].version + 1
           \/ /\ request[w].flow # "phone"
              /\ answer.token = request[w].token /\ answer.version = request[w].version
  <2>1. request[w] \in Request
    BY DEF IInv, TypeOK
  <2>2. CASE right
    <3>1. Matched(w) \in Request
      BY <1>1, <1>2, <2>1 DEF Matched, Request
    <3> QED  BY <1>1, <2>2, <3>1 DEF Matched
  <2>3. CASE ~right
    BY <2>3 DEF Idle, Request, Purpose
  <2> QED  BY <2>2, <2>3
<1>8. request' = [request EXCEPT ![w] = answer]
  BY DEF Guess
<1> HIDE DEF answer
<1>9. /\ request' \in [Worker -> Request]
      /\ request'[w] = answer
      /\ \A v \in Worker \ {w} : request'[v] = request[v]
  BY <1>7, <1>8 DEF IInv, TypeOK
<1>10. TypeOK'
  BY <1>4, <1>6, <1>9 DEF Guess, IInv, TypeOK
<1>11. HeldToken(w)' /\ GuessedToken(w)'
  <2>1. CASE answer.at = "idle"
    BY <1>9, <2>1 DEF HeldToken, GuessedToken
  <2>2. CASE answer.at = "matched" /\ answer.token = t /\ answer.version = tokens[t].version + 1
    BY <1>1, <1>2, <1>4, <1>9, <2>2 DEF HeldToken, GuessedToken
  <2>3. CASE /\ answer.at = "matched" /\ request[w].flow # "phone"
             /\ answer.token = request[w].token /\ answer.version = request[w].version
    <3>1. /\ HeldToken(w) /\ request[w].version \in Nat
          /\ \A u \in Token : tokens[u].version \in Nat /\ tokens'[u].version \in Nat
      BY <1>4 DEF IInv, TypeOK, Row, Request
    <3> QED  BY <1>1, <1>5, <1>9, <2>3, <3>1 DEF HeldToken, GuessedToken, Moves
  <2> QED  BY <1>7, <2>1, <2>2, <2>3
<1>12. \A v \in Worker : HeldToken(v)' /\ GuessedToken(v)'
  BY <1>4, <1>5, <1>9, <1>11, InstancesKept
<1>13. Consuming'
  BY <1>2, <1>4, <1>7, <1>9 DEF Guess, IInv, Consuming
<1>14. Counted'
  BY <1>1, <1>2, <1>4, <1>6 DEF IInv, Counted
<1>15. Accounted'
  <2>1. /\ tokens'[t].used = tokens[t].used /\ tokens'[t].deleted = tokens[t].deleted
        /\ tokens'[t].version > 0 /\ granted' = granted
    BY SMTT(30), <1>1, <1>2, <1>4 DEF Guess
  <2> QED  BY <1>1, <1>4, <2>1 DEF IInv, Accounted
<1> QED  BY <1>10, <1>12, <1>13, <1>14, <1>15 DEF IInv

\* The instance is current, so the token was unused and nobody else's.
LEMMA ConsumePreserves ==
  ASSUME IInv, NEW w \in Worker, Consume(w)
  PROVE  /\ IInv'
         /\ request[w].token \in Token
         /\ Unused(request[w].token)
<1> DEFINE t == request[w].token
<1>1. /\ t \in Token /\ Unused(t) /\ tokens[t].version = request[w].version
      /\ request[w].at # "consumed"
  BY DEF Consume, ReadyToConsume, IInv, HeldToken
<1> DEFINE row == [version |-> tokens[t].version + 1, purpose |-> tokens[t].purpose,
                   otp |-> tokens[t].otp, attempts |-> tokens[t].attempts, used |-> TRUE,
                   deleted |-> tokens[t].deleted, created_at |-> tokens[t].created_at,
                   expires_at |-> tokens[t].expires_at]
<1>2. /\ row \in Row /\ row.version = tokens[t].version + 1
      /\ row.attempts = tokens[t].attempts
      /\ row.used /\ row.deleted = tokens[t].deleted
      /\ tokens[t].version \in Nat
  BY <1>1 DEF IInv, TypeOK, Row
<1>3. tokens' = [tokens EXCEPT ![t] = row]
  BY <1>1, <1>2 DEF Consume, IInv, TypeOK, Row
<1> HIDE DEF row
<1>4. /\ tokens' \in [Token -> Row]
      /\ tokens'[t] = row
      /\ \A u \in Token \ {t} : tokens'[u] = tokens[u]
  BY <1>1, <1>2, <1>3 DEF IInv, TypeOK
<1>5. Moves
  BY <1>2, <1>4 DEF Moves
<1>6. /\ request' \in [Worker -> Request]
      /\ request'[w].at = "idle" \/ (request'[w].at = "consumed" /\ request'[w].token = t)
      /\ \A v \in Worker \ {w} : request'[v] = request[v]
  BY DEF Consume, IInv, TypeOK, Request, Idle, Purpose
<1>7. TypeOK'
  BY <1>4, <1>6 DEF Consume, IInv, TypeOK
<1>8. \A v \in Worker : HeldToken(v)' /\ GuessedToken(v)'
  <2> TAKE v \in Worker
  <2>1. CASE v = w
    BY <1>6, <2>1 DEF HeldToken, GuessedToken
  <2>2. CASE v # w
    BY <1>4, <1>5, <1>6, <2>2, InstancesKept
  <2> QED  BY <2>1, <2>2
<1>9. /\ granted[t] = 0
      /\ \A v \in Worker : request[v].at = "consumed" => request[v].token # t
  BY <1>1 DEF IInv, Accounted, Consuming
<1>10. Consuming'
  BY SMTT(30), <1>1, <1>2, <1>4, <1>6, <1>9 DEF Consume, IInv, Consuming
<1>11. Counted'
  BY <1>1, <1>2, <1>4 DEF Consume, IInv, Counted
<1>12. Accounted'
  BY SMTT(30), <1>1, <1>2, <1>4, <1>9 DEF Consume, IInv, Accounted
<1> QED  BY <1>1, <1>7, <1>8, <1>10, <1>11, <1>12 DEF IInv

LEMMA GrantPreserves ==
  ASSUME IInv, NEW w \in Worker, Grant(w)
  PROVE  /\ IInv'
         /\ request[w].token \in Token
         /\ granted' = [granted EXCEPT ![request[w].token] = 1]
         /\ tokens[request[w].token].used /\ granted[request[w].token] = 0
<1> DEFINE t == request[w].token
<1>1. /\ t \in Token /\ tokens[t].used /\ granted[t] = 0
      /\ \A v \in Worker : request[v].at = "consumed" /\ request[v].token = t => v = w
  BY DEF Grant, IInv, Consuming
<1>2. /\ granted' \in [Token -> Nat]
      /\ granted' = [granted EXCEPT ![t] = 1]
      /\ granted'[t] = 1
      /\ \A u \in Token \ {t} : granted'[u] = granted[u]
  BY <1>1 DEF Grant, IInv, TypeOK
<1>3. /\ request' \in [Worker -> Request]
      /\ request'[w].at = "idle"
      /\ \A v \in Worker \ {w} : request'[v] = request[v]
  BY DEF Grant, IInv, TypeOK, Request, Idle, Purpose
<1>4. TypeOK'
  BY <1>2, <1>3 DEF Grant, IInv, TypeOK
<1>5. \A v \in Worker : HeldToken(v)' /\ GuessedToken(v)'
  <2> TAKE v \in Worker
  <2>1. CASE v = w
    BY <1>3, <2>1 DEF HeldToken, GuessedToken
  <2>2. CASE v # w
    <3>1. tokens' \in [Token -> Row] /\ Moves
      BY DEF Grant, Moves, IInv, TypeOK
    <3> QED  BY <1>3, <2>2, <3>1, InstancesKept
  <2> QED  BY <2>1, <2>2
<1>6. Consuming'
  BY <1>1, <1>2, <1>3 DEF Grant, IInv, Consuming
<1>7. Counted' /\ Accounted'
  BY <1>1, <1>2 DEF Grant, IInv, Counted, Accounted
<1> QED  BY <1>1, <1>2, <1>4, <1>5, <1>6, <1>7 DEF IInv

-----------------------------------------------------------------------------
\* The looked-up instances are current.
LEMMA LookUpPreserves ==
  ASSUME IInv, NEW w \in Worker, NEW t \in Token, NEW p \in Purpose,
         VerifyToken(w, t, p) \/ LookUpOtp(w, p, t)
  PROVE  IInv'
<1>1. /\ request[w] \in Request /\ HeldToken(w)
      /\ tokens[t].version \in Nat /\ tokens[t].attempts \in Nat
      /\ request \in [Worker -> Request] /\ now \in Nat
  BY DEF IInv, TypeOK, Row
<1>2. UNCHANGED <<now, tokens, guesses, granted>> /\ Unused(t)
  BY DEF VerifyToken, LookUpOtp
<1>3. CASE VerifyToken(w, t, p)
  <2> DEFINE r == [at |-> "verified", flow |-> p, token |-> t, version |-> tokens[t].version,
                   otp |-> None, otp_version |-> 0, count |-> 0]
  <2>1. r \in Request
    BY <1>1 DEF Request
  <2>2. request' = [request EXCEPT ![w] = r]
    BY <1>3 DEF VerifyToken, Idle
  <2>3. r.at = "verified" /\ r.token = t /\ r.version = tokens[t].version
    OBVIOUS
  <2> HIDE DEF r
  <2>4. /\ request' \in [Worker -> Request]
        /\ request'[w] = r
        /\ \A v \in Worker \ {w} : request'[v] = request[v]
    BY <1>1, <2>1, <2>2
  <2>5. HeldToken(w)' /\ GuessedToken(w)'
    BY <1>1, <1>2, <2>3, <2>4 DEF HeldToken, GuessedToken
  <2> QED  BY <1>1, <1>2, <2>3, <2>4, <2>5, RequestPreserves
<1>4. CASE LookUpOtp(w, p, t)
  <2> DEFINE r == [at |-> "guessing", flow |-> p, token |-> request[w].token,
                   version |-> request[w].version, otp |-> t,
                   otp_version |-> tokens[t].version, count |-> tokens[t].attempts]
  <2>1. r \in Request
    BY <1>1 DEF Request
  <2>2. request' = [request EXCEPT ![w] = r]
    BY <1>1, <1>4 DEF LookUpOtp, Request
  <2>3. /\ r.at = "guessing" /\ r.flow = p /\ r.token = request[w].token
        /\ r.version = request[w].version /\ r.otp = t
        /\ r.otp_version = tokens[t].version /\ r.count = tokens[t].attempts
    OBVIOUS
  <2> HIDE DEF r
  <2>4. /\ request' \in [Worker -> Request]
        /\ request'[w] = r
        /\ \A v \in Worker \ {w} : request'[v] = request[v]
    BY <1>1, <2>1, <2>2
  <2>5. /\ p = "phone" \/ request[w].at = "verified"
        /\ tokens[t].attempts < MaxAttempts
    BY <1>4 DEF LookUpOtp
  <2>6. HeldToken(w)'
    BY <1>1, <1>2, <2>3, <2>4, <2>5 DEF HeldToken
  <2>7. GuessedToken(w)'
    BY <1>1, <1>2, <2>3, <2>4, <2>5 DEF GuessedToken
  <2> QED  BY <1>1, <1>2, <2>3, <2>4, <2>6, <2>7, RequestPreserves
<1> QED  BY <1>3, <1>4

LEMMA AdvancePreserves ==
  ASSUME IInv, NEW w \in Worker,
         Apply(w) \/ Fail(w) \/ \E p \in Purpose : CheckCooldown(w, p)
  PROVE  IInv'
<1>1. /\ request[w] \in Request /\ HeldToken(w)
      /\ request \in [Worker -> Request] /\ now \in Nat
  BY DEF IInv, TypeOK
<1>2. UNCHANGED <<now, tokens, guesses, granted>>
  BY DEF Apply, Fail, CheckCooldown
<1>3. CASE Apply(w)
  <2>1. /\ request[w].at \in {"verified", "matched"}
        /\ request' \in [Worker -> Request]
        /\ request'[w].at = "applied"
        /\ request'[w].token = request[w].token /\ request'[w].version = request[w].version
        /\ \A v \in Worker \ {w} : request'[v] = request[v]
    BY <1>1, <1>3 DEF Apply, Request
  <2>2. HeldToken(w)' /\ GuessedToken(w)'
    BY <1>1, <1>2, <2>1 DEF HeldToken, GuessedToken
  <2> QED  BY <1>1, <1>2, <2>1, <2>2, RequestPreserves
<1>4. CASE Fail(w) \/ \E p \in Purpose : CheckCooldown(w, p)
  <2>1. /\ request' \in [Worker -> Request]
        /\ request'[w].at \in {"idle", "waited"}
        /\ \A v \in Worker \ {w} : request'[v] = request[v]
    <3>1. CASE Fail(w)
      BY <1>1, <3>1 DEF Fail, Idle, Request, Purpose
    <3>2. ASSUME NEW p \in Purpose, CheckCooldown(w, p)
          PROVE  <2>1!1 /\ <2>1!2 /\ <2>1!3
      BY <1>1, <3>2 DEF CheckCooldown, Idle, Request
    <3> QED  BY <1>4, <3>1, <3>2
  <2>2. HeldToken(w)' /\ GuessedToken(w)'
    BY <2>1 DEF HeldToken, GuessedToken
  <2> QED  BY <1>1, <1>2, <2>1, <2>2, RequestPreserves
<1> QED  BY <1>3, <1>4

LEMMA StepIInv == IInv /\ [Next]_vars => IInv'
<1> SUFFICES ASSUME IInv, [Next]_vars
             PROVE  IInv'
  OBVIOUS
<1>1. CASE Tick \/ UNCHANGED vars
  <2>1. now' \in Nat /\ UNCHANGED <<tokens, request, guesses, granted>>
    BY <1>1 DEF Tick, vars, IInv, TypeOK
  <2> QED  BY <2>1, RequestPreserves DEF IInv, TypeOK
<1>2. ASSUME NEW w \in Worker, NEW t \in Token, NEW p \in Purpose,
             VerifyToken(w, t, p) \/ LookUpOtp(w, p, t)
      PROVE  IInv'
  BY <1>2, LookUpPreserves
<1>3. ASSUME NEW w \in Worker, Apply(w) \/ Fail(w) \/ \E p \in Purpose : CheckCooldown(w, p)
      PROVE  IInv'
  BY <1>3, AdvancePreserves
<1>4. ASSUME NEW w \in Worker, InvalidateExisting(w)
      PROVE  IInv'
  BY <1>4, InvalidatePreserves
<1>5. ASSUME NEW w \in Worker, NEW t \in Token, NEW otp \in BOOLEAN, NEW ttl \in Ttl,
             Create(w, t, otp, ttl)
      PROVE  IInv'
  BY <1>5, CreatePreserves
<1>6. ASSUME NEW w \in Worker, NEW right \in BOOLEAN, Guess(w, right)
      PROVE  IInv'
  BY <1>6, GuessPreserves
<1>7. ASSUME NEW w \in Worker, Consume(w)
      PROVE  IInv'
  BY <1>7, ConsumePreserves
<1>8. ASSUME NEW w \in Worker, Grant(w)
      PROVE  IInv'
  BY <1>8, GrantPreserves
<1> QED  BY <1>1, <1>2, <1>3, <1>4, <1>5, <1>6, <1>7, <1>8 DEF Next

LEMMA Invariance == Spec => []IInv
<1> QED  BY InitIInv, StepIInv, PTL DEF Spec

\* The rows and requests keep their shape.
THEOREM TypeCorrect == Spec => []TypeOK
<1>1. IInv => TypeOK
  BY DEF IInv
<1> QED  BY <1>1, Invariance, PTL

\* verify_otp() counts an attempt before it compares: an OTP can be tried
\* max_attempts times, however many requests try at once.
THEOREM GuessesAreBounded == Spec => []GuessesBounded
<1>1. IInv => GuessesBounded
  BY DEF IInv, Counted, GuessesBounded
<1> QED  BY <1>1, Invariance, PTL

-----------------------------------------------------------------------------
\* What the mapping makes of the reachable rows.
LifeIs ==
  /\ life = [t \in Token |-> life[t]]
  /\ \A t \in Token :
       /\ ~Stored(t) => life[t] = "unissued"
       /\ Unused(t) => life[t] = "live"
       /\ Stored(t) /\ tokens[t].deleted => life[t] = "withdrawn"
       /\ Stored(t) /\ tokens[t].used =>
            life[t] = IF granted[t] = 1 THEN "granted" ELSE "spent"

LEMMA Life == IInv => LifeIs
<1> SUFFICES ASSUME IInv
             PROVE  LifeIs
  OBVIOUS
<1>1. life = [t \in Token |-> life[t]]
  BY DEF life
<1>2. ASSUME NEW t \in Token
      PROVE  /\ ~Stored(t) => life[t] = "unissued"
             /\ Unused(t) => life[t] = "live"
             /\ Stored(t) /\ tokens[t].deleted => life[t] = "withdrawn"
             /\ Stored(t) /\ tokens[t].used =>
                  life[t] = IF granted[t] = 1 THEN "granted" ELSE "spent"
  <2>1. /\ ~Stored(t) => ~tokens[t].used /\ ~tokens[t].deleted
        /\ ~(tokens[t].used /\ tokens[t].deleted)
        /\ granted[t] = 0 \/ (granted[t] = 1 /\ tokens[t].used)
    BY DEF IInv, Accounted
  <2>2. CASE ~Stored(t)
    BY <2>1, <2>2 DEF life
  <2>3. CASE Unused(t)
    BY <2>1, <2>3 DEF life
  <2>4. CASE Stored(t) /\ tokens[t].deleted
    BY <2>1, <2>4 DEF life
  <2>5. CASE Stored(t) /\ tokens[t].used /\ granted[t] = 0
    BY <2>1, <2>5 DEF life
  <2>6. CASE Stored(t) /\ tokens[t].used /\ granted[t] = 1
    BY <2>1, <2>6 DEF life
  <2> QED  BY <2>1, <2>2, <2>3, <2>4, <2>5, <2>6
<1> QED  BY <1>1, <1>2 DEF LifeIs

LEMMA LifeNext == IInv' => LifeIs'
BY Life, PTL

\* Steps that leave every token where it is in its life.
LEMMA LifeStutters ==
  ASSUME LifeIs, LifeIs', granted' = granted,
         \A t \in Token : /\ tokens'[t].version > 0 <=> tokens[t].version > 0
                          /\ tokens'[t].used <=> tokens[t].used
                          /\ tokens'[t].deleted <=> tokens[t].deleted
  PROVE  UNCHANGED life
<1>1. ASSUME NEW t \in Token
      PROVE  life'[t] = life[t]
  BY DEF LifeIs
<1> QED  BY <1>1 DEF LifeIs

LEMMA ImplementsStep ==
  ASSUME IInv, [Next]_vars
  PROVE  [OneTime!Next]_life
<1>1. IInv' /\ LifeIs /\ LifeIs'
  BY Life, LifeNext, StepIInv
<1>2. CASE UNCHANGED <<tokens, granted>>
  BY <1>1, <1>2, LifeStutters
<1>3. ASSUME NEW w \in Worker, InvalidateExisting(w)
      PROVE  [OneTime!Next]_life
  <2> DEFINE S == Superseded(request[w].flow)
  <2>1. /\ S \subseteq Token
        /\ \A t \in S : Unused(t)
    BY DEF Superseded
  <2>2. \A t \in S : Stored(t)' /\ tokens'[t].deleted
    BY <1>3, <2>1 DEF InvalidateExisting, Withdrawn, IInv, TypeOK, Row
  <2>3. \A t \in Token \ S : tokens'[t] = tokens[t]
    BY <1>3 DEF InvalidateExisting
  <2>4. granted' = granted
    BY <1>3 DEF InvalidateExisting
  <2> HIDE DEF S
  <2>5. \A t \in Token : life'[t] = IF t \in S THEN "withdrawn" ELSE life[t]
    BY <1>1, <2>1, <2>2, <2>3, <2>4 DEF LifeIs
  <2>6. life' = [t \in Token |-> IF t \in S THEN "withdrawn" ELSE life[t]]
    BY <1>1, <2>5 DEF LifeIs
  <2>7. \A t \in S : life[t] = "live"
    BY <1>1, <2>1 DEF LifeIs
  <2>8. CASE S = {}
    BY <1>1, <2>6, <2>8 DEF LifeIs
  <2>9. CASE S # {}
    BY <2>1, <2>6, <2>7, <2>9 DEF OneTime!Next, OneTime!Withdraw
  <2> QED  BY <2>8, <2>9
<1>4. ASSUME NEW w \in Worker, NEW t \in Token, NEW otp \in BOOLEAN, NEW ttl \in Ttl,
             Create(w, t, otp, ttl)
      PROVE  [OneTime!Next]_life
  <2>1. /\ ~Stored(t) /\ Unused(t)' /\ granted' = granted
        /\ \A u \in Token \ {t} : tokens'[u] = tokens[u]
    BY <1>4 DEF Create, IInv, TypeOK
  <2>2. life[t] = "unissued" /\ life'[t] = "live"
    BY <1>1, <2>1 DEF LifeIs
  <2>3. \A u \in Token \ {t} : life'[u] = life[u]
    BY <1>1, <2>1 DEF LifeIs
  <2>4. life' = [life EXCEPT ![t] = "live"]
    BY <1>1, <2>2, <2>3 DEF LifeIs
  <2> QED  BY <2>2, <2>4 DEF OneTime!Next, OneTime!Issue
<1>5. ASSUME NEW w \in Worker, NEW right \in BOOLEAN, Guess(w, right)
      PROVE  [OneTime!Next]_life
  <2> DEFINE t == request[w].otp
  <2>1. t \in Token /\ Stored(t) /\ tokens[t].version \in Nat
    BY <1>5 DEF Guess, IInv, GuessedToken, TypeOK, Row
  <2>2. /\ tokens'[t].version = tokens[t].version + 1
        /\ tokens'[t].used = tokens[t].used /\ tokens'[t].deleted = tokens[t].deleted
        /\ \A u \in Token \ {t} : tokens'[u] = tokens[u]
        /\ granted' = granted
    BY <1>5, <2>1 DEF Guess, IInv, TypeOK, Row
  <2>3. UNCHANGED life
    BY <1>1, <2>1, <2>2, LifeStutters
  <2> QED  BY <2>3
<1>6. ASSUME NEW w \in Worker, Consume(w)
      PROVE  [OneTime!Next]_life
  <2> DEFINE t == request[w].token
  <2>1. t \in Token /\ Unused(t)
    BY <1>6, ConsumePreserves
  <2>2. /\ tokens'[t].version > 0 /\ tokens'[t].used
        /\ \A u \in Token \ {t} : tokens'[u] = tokens[u]
        /\ granted' = granted /\ granted[t] = 0
    BY <1>6, <2>1 DEF Consume, IInv, TypeOK, Row, Accounted
  <2>3. life[t] = "live" /\ life'[t] = "spent"
    BY <1>1, <2>1, <2>2 DEF LifeIs
  <2>4. \A u \in Token \ {t} : life'[u] = life[u]
    BY <1>1, <2>2 DEF LifeIs
  <2>5. life' = [life EXCEPT ![t] = "spent"]
    BY <1>1, <2>1, <2>3, <2>4 DEF LifeIs
  <2> QED  BY <2>1, <2>3, <2>5 DEF OneTime!Next, OneTime!Spend
<1>7. ASSUME NEW w \in Worker, Grant(w)
      PROVE  [OneTime!Next]_life
  <2> DEFINE t == request[w].token
  <2>1. /\ t \in Token /\ tokens[t].used /\ granted[t] = 0 /\ tokens' = tokens
        /\ granted' = [granted EXCEPT ![t] = 1]
    BY <1>7, GrantPreserves DEF Grant
  <2>2. /\ granted'[t] = 1
        /\ \A u \in Token \ {t} : granted'[u] = granted[u]
        /\ Stored(t)
    BY <2>1 DEF IInv, TypeOK, Accounted
  <2>3. life[t] = "spent" /\ life'[t] = "granted"
    BY <1>1, <2>1, <2>2 DEF LifeIs
  <2>4. \A u \in Token \ {t} : life'[u] = life[u]
    BY <1>1, <2>1, <2>2 DEF LifeIs
  <2>5. life' = [life EXCEPT ![t] = "granted"]
    BY <1>1, <2>1, <2>3, <2>4 DEF LifeIs
  <2> QED  BY <2>1, <2>3, <2>5 DEF OneTime!Next, OneTime!Grant
<1>8. CASE Tick \/ UNCHANGED vars
  BY <1>2, <1>8 DEF Tick, vars
<1>9. ASSUME NEW w \in Worker,
             \/ Apply(w) \/ Fail(w)
             \/ \E p \in Purpose : CheckCooldown(w, p)
             \/ \E t \in Token, p \in Purpose : VerifyToken(w, t, p) \/ LookUpOtp(w, p, t)
      PROVE  [OneTime!Next]_life
  <2>1. UNCHANGED <<tokens, granted>>
    BY <1>9 DEF Apply, Fail, CheckCooldown, VerifyToken, LookUpOtp
  <2> QED  BY <1>2, <2>1
<1> QED  BY <1>3, <1>4, <1>5, <1>6, <1>7, <1>8, <1>9 DEF Next

\* A token is spent or withdrawn, never both, and opens at most one session or
\* sets one password: the rows implement one-time tokens.
THEOREM TokensAreOneTime == Spec => IsOneTime
<1>1. Init => OneTime!Init
  <2> SUFFICES ASSUME Init
               PROVE  OneTime!Init
    OBVIOUS
  <2>1. LifeIs
    BY InitIInv, Life
  <2>2. \A t \in Token : life[t] = "unissued"
    BY <2>1 DEF LifeIs, Init, NoRow
  <2> QED  BY <2>1, <2>2 DEF LifeIs, OneTime!Init
<1>2. IInv /\ [Next]_vars => [OneTime!Next]_life
  BY ImplementsStep
<1> QED  BY <1>1, <1>2, Invariance, PTL DEF Spec, IsOneTime, OneTime!Spec
=============================================================================
