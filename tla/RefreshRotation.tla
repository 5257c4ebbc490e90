---------------------------- MODULE RefreshRotation ----------------------------
(***************************************************************************)
(* Refresh-token rotation of one session (TokenRefreshView.post): several  *)
(* requests may present the same token at once.                            *)
(*                                                                         *)
(* A request looks the credential up and checks the session, revokes the   *)
(* credential, and creates its successor: three transactions, and the      *)
(* request may die between any two.  The revocation is a save() and so     *)
(* compares the version of the instance with the stored one (see           *)
(* VersionedRow); the loser answers with an error.                         *)
(*                                                                         *)
(* The session is only valid or not, see AuthSessions.  Cookie handles are *)
(* never rotated and are left out.                                         *)
(***************************************************************************)
EXTENDS Naturals

CONSTANTS
  Worker,      \* refresh requests in progress
  Credential,  \* rows of SessionCredential; one raw token each
  Family,      \* family_id values: one per login
  None,        \* NULL
  Ttl,         \* lifetimes of a refresh token, in ticks of the clock
  MaxNow       \* bound: the last instant of the clock

ASSUME NoneAssumption == None \notin Credential \cup Family
ASSUME TtlAssumption == Ttl \subseteq Nat \ {0}
ASSUME BoundAssumption == MaxNow \in Nat

VARIABLES
  now,      \* timezone.now()
  valid,    \* session.is_valid
  creds,    \* creds[c]: the stored row; version 0 when there is none
  request   \* request[w]: how far it is, and its instance of the credential

vars == <<now, valid, creds, request>>

Row ==
  [version : Nat, revoked : BOOLEAN, family : Family \cup {None},
   parent : Credential \cup {None}, expires_at : Nat]
NoRow ==
  [version |-> 0, revoked |-> FALSE, family |-> None, parent |-> None, expires_at |-> 0]

\* "spent": the credential is revoked and its successor not yet created.
Request ==
  [at : {"idle", "checked", "spent"}, cred : Credential \cup {None}, version : Nat]
Idle == [at |-> "idle", cred |-> None, version |-> 0]

TypeOK ==
  /\ now \in Nat
  /\ valid \in BOOLEAN
  /\ creds \in [Credential -> Row]
  /\ request \in [Worker -> Request]

Stored(c) == creds[c].version > 0
Live(c) == Stored(c) /\ ~creds[c].revoked

Init ==
  /\ now = 0
  /\ valid = TRUE
  /\ creds = [c \in Credential |-> NoRow]
  /\ request = [w \in Worker |-> Idle]

-----------------------------------------------------------------------------
Tick ==
  /\ now < MaxNow
  /\ now' = now + 1
  /\ UNCHANGED <<valid, creds, request>>

\* Locks and suspensions of the session come and go.
SessionChanges ==
  /\ valid' = ~valid
  /\ UNCHANGED <<now, creds, request>>

\* create_session(): the first refresh token, of a family of its own.
Issue(c, f, ttl) ==
  /\ ~Stored(c)
  /\ \A d \in Credential : Stored(d) => creds[d].family # f
  /\ creds' = [creds EXCEPT ![c] =
       [version |-> 1, revoked |-> FALSE, family |-> f, parent |-> None,
        expires_at |-> now + ttl]]
  /\ UNCHANGED <<now, valid, request>>

\* A plausible defect of LookUp: the filter is_revoked=False is missing.
LookUpAny(w, c) ==
  /\ request[w].at = "idle"
  /\ Stored(c)
  /\ valid
  /\ request' = [request EXCEPT ![w] =
       [at |-> "checked", cred |-> c, version |-> creds[c].version]]
  /\ UNCHANGED <<now, valid, creds>>

\* The query finds the credential of the presented token, with its session.
\* Otherwise the request answers 401 and nothing has changed.
LookUp(w, c) ==
  /\ request[w].at = "idle"
  /\ Live(c)
  /\ valid
  /\ request' = [request EXCEPT ![w] =
       [at |-> "checked", cred |-> c, version |-> creds[c].version]]
  /\ UNCHANGED <<now, valid, creds>>

\* A plausible defect of Revoke: the versions are not compared, as by a queryset
\* update.
RevokeUnchecked(w) ==
  LET c == request[w].cred IN
  /\ request[w].at = "checked"
  /\ creds' = [creds EXCEPT ![c].revoked = TRUE, ![c].version = @ + 1]
  /\ request' = [request EXCEPT ![w].at = "spent"]
  /\ UNCHANGED <<now, valid>>

\* credential.save(update_fields=["is_revoked", "revoked_at"]) goes through.
Revoke(w) ==
  LET c == request[w].cred IN
  /\ request[w].at = "checked"
  /\ creds[c].version = request[w].version
  /\ creds' = [creds EXCEPT ![c].revoked = TRUE, ![c].version = @ + 1]
  /\ request' = [request EXCEPT ![w].at = "spent"]
  /\ UNCHANGED <<now, valid>>

\* It raises OptimisticLockError.
RevokeConflict(w) ==
  /\ request[w].at = "checked"
  /\ creds[request[w].cred].version # request[w].version
  /\ request' = [request EXCEPT ![w] = Idle]
  /\ UNCHANGED <<now, valid, creds>>

\* session.credentials.create(...): the successor inherits family and expiry.
Rotate(w, new) ==
  LET c == request[w].cred IN
  /\ request[w].at = "spent"
  /\ ~Stored(new)
  /\ creds' = [creds EXCEPT ![new] =
       [version |-> 1, revoked |-> FALSE, family |-> creds[c].family, parent |-> c,
        expires_at |-> creds[c].expires_at]]
  /\ request' = [request EXCEPT ![w] = Idle]
  /\ UNCHANGED <<now, valid>>

\* The process dies or the database fails; no transaction spans the request.
Crash(w) ==
  /\ request[w].at # "idle"
  /\ request' = [request EXCEPT ![w] = Idle]
  /\ UNCHANGED <<now, valid, creds>>

Next ==
  \/ Tick
  \/ SessionChanges
  \/ \E c \in Credential, f \in Family, ttl \in Ttl : Issue(c, f, ttl)
  \/ \E w \in Worker :
       \/ \E c \in Credential : LookUp(w, c)
       \/ Revoke(w)
       \/ RevokeConflict(w)
       \/ \E new \in Credential : Rotate(w, new)
       \/ Crash(w)

Spec == Init /\ [][Next]_vars

-----------------------------------------------------------------------------
\* However many requests present one token at the same time, a family has at
\* most one token that is still accepted.
OneLivePerFamily ==
  \A c, d \in Credential :
    Live(c) /\ Live(d) /\ creds[c].family = creds[d].family => c = d

\* No token is exchanged twice: lineages do not branch, and only a revoked
\* credential has a successor.
LineageIsChain ==
  \A c, d \in Credential :
    Stored(c) /\ Stored(d) /\ creds[c].parent # None
      => /\ creds[c].parent = creds[d].parent => c = d
         /\ Stored(creds[c].parent) /\ creds[creds[c].parent].revoked

\* The rows implement the chain of tokens.
issued == [f \in Family |-> {c \in Credential : Stored(c) /\ creds[c].family = f}]
usable == [f \in Family |-> {c \in Credential : Live(c) /\ creds[c].family = f}]
Chain == INSTANCE TokenChain WITH Token <- Credential
ImplementsChain == Chain!Spec
=============================================================================
