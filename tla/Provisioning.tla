------------------------------ MODULE Provisioning ------------------------------
(***************************************************************************)
(* AccountProvisioner: a principal and the account of its kind are made in *)
(* one transaction and deleted in one.                                      *)
(*                                                                         *)
(* A transaction's writes stand in work[w] until it commits.  What it      *)
(* reads is committed; a unique column makes an INSERT wait for the other  *)
(* transaction that inserted the same value, and a row it updated makes an *)
(* UPDATE wait.  A save compares versions (see VersionedRow); every        *)
(* exception rolls the transaction back, which is Fail here.               *)
(***************************************************************************)
EXTENDS Naturals

CONSTANTS
  Worker,       \* requests in progress
  Principal,    \* primary keys
  Username,     \* spellings of usernames
  Identifier,   \* name, client_id or identifier of an account
  None,         \* no principal, no username, no identifier
  Lower,        \* Lower[u]: u in lower case
  Generated,    \* Generated[kind][i]: generate_username(kind, i)
  MaxVersion    \* bound: the version up to which rows are saved

Kind == {"user", "service", "api_client", "agent"}

ASSUME NoneAssumption == None \notin Principal \cup Username \cup Identifier
ASSUME NamesAssumption ==
  /\ Lower \in [Username -> Username]
  /\ \A u \in Username : Lower[Lower[u]] = Lower[u]
  /\ Generated \in [Kind \ {"user"} -> [Identifier -> Username]]
ASSUME MaxVersionAssumption == MaxVersion \in Nat

VARIABLES
  principals,   \* principals[p]: the committed row
  accounts,     \* accounts[p]: the committed account of p
  work,         \* work[w]: the request, and the writes of its transaction
  provisioned   \* history: principals whose provisioning committed

vars == <<principals, accounts, work, provisioned>>

\* version 0: no row.
NoPrincipal == [version |-> 0, username |-> None, kind |-> "user", deleted |-> FALSE]
NoAccount == [version |-> 0, identifier |-> None, deleted |-> FALSE]

Work ==
  [at : {"idle", "checked", "validated", "principal inserted", "account inserted", "loaded",
         "account deleted", "principal deleted"},
   whole : BOOLEAN, principal : Principal \cup {None}, username : Username \cup {None},
   kind : Kind, identifier : Identifier \cup {None}, version : Nat, account_version : Nat]
Idle ==
  [at |-> "idle", whole |-> TRUE, principal |-> None, username |-> None, kind |-> "user",
   identifier |-> None, version |-> 0, account_version |-> 0]

TypeOK ==
  /\ principals \in [Principal ->
       [version : Nat, username : Username \cup {None}, kind : Kind, deleted : BOOLEAN]]
  /\ accounts \in [Principal ->
       [version : Nat, identifier : Identifier \cup {None}, deleted : BOOLEAN]]
  /\ work \in [Worker -> Work]
  /\ provisioned \subseteq Principal

Init ==
  /\ principals = [p \in Principal |-> NoPrincipal]
  /\ accounts = [p \in Principal |-> NoAccount]
  /\ work = [w \in Worker |-> Idle]
  /\ provisioned = {}

-----------------------------------------------------------------------------
Exists(p) == principals[p].version > 0
At(w, at) == work[w].at = at
Set(w, r) == work' = [work EXCEPT ![w] = r]
Step(w, at) == Set(w, [work[w] EXCEPT !.at = at])

\* A request for a new account or, not whole, for a principal alone ...
Naming(at, whole, p, u, kind, i) ==
  [at |-> at, whole |-> whole, principal |-> p, username |-> u, kind |-> kind,
   identifier |-> i, version |-> 0, account_version |-> 0]

\* ... and one for loaded rows, of versions n and m.
Holding(whole, p, kind, n, m) ==
  [at |-> "loaded", whole |-> whole, principal |-> p, username |-> None, kind |-> kind,
   identifier |-> None, version |-> n, account_version |-> m]

\* A plausible defect of normalize_username(): the case is kept.
KeepCase(u) == u

\* normalize_username() with USERNAME_CASE_INSENSITIVE.
NormalizeUsername(u) == Lower[u]

\* username__iexact, soft-deleted rows included.
Taken(u) == \E p \in Principal : Exists(p) /\ Lower[principals[p].username] = Lower[u]
TakenByActive(u) ==
  \E p \in Principal :
    Exists(p) /\ ~principals[p].deleted /\ Lower[principals[p].username] = Lower[u]

\* _check_username_available(), the first query of the transaction.
CheckUsernameAvailable(w, u, kind, identifier) ==
  /\ At(w, "idle")
  /\ ~Taken(u)
  /\ Set(w, Naming("checked", TRUE, None, u, kind, identifier))
  /\ UNCHANGED <<principals, accounts, provisioned>>

ProvisionUser(w, u) == CheckUsernameAvailable(w, u, "user", None)

\* Without a username the others are given one made from the identifier.
Chosen(u, kind, i) == IF u = None THEN Generated[kind][i] ELSE u

ProvisionServiceAccount(w, u, i) ==
  CheckUsernameAvailable(w, Chosen(u, "service", i), "service", i)
ProvisionApiClient(w, u, i) ==
  CheckUsernameAvailable(w, Chosen(u, "api_client", i), "api_client", i)
ProvisionAgent(w, u, i) ==
  CheckUsernameAvailable(w, Chosen(u, "agent", i), "agent", i)

\* POST /principals/ validates against the principals that are not deleted, and
\* creates one of any kind without an account.
ValidateUsername(w, u, kind) ==
  /\ At(w, "idle")
  /\ ~TakenByActive(u)
  /\ Set(w, Naming("validated", FALSE, None, u, kind, None))
  /\ UNCHANGED <<principals, accounts, provisioned>>

\* The values of unique columns in the uncommitted rows of others.
InsertingUsername(w, u) ==
  \E v \in Worker \ {w} :
    /\ work[v].at \in {"principal inserted", "account inserted"}
    /\ NormalizeUsername(work[v].username) = u
InsertingIdentifier(w, kind, i) ==
  \E v \in Worker \ {w} :
    /\ At(v, "account inserted")
    /\ work[v].kind = kind /\ work[v].identifier = i
InsertingPrincipal(p) ==
  \E v \in Worker : work[v].at \in {"principal inserted", "account inserted"} /\ work[v].principal = p

UsernameIsUnique(w) ==
  LET u == NormalizeUsername(work[w].username) IN
  /\ ~InsertingUsername(w, u)
  /\ \A p \in Principal : Exists(p) => principals[p].username # u

NewPrincipal(w) ==
  [version |-> 1, username |-> NormalizeUsername(work[w].username), kind |-> work[w].kind,
   deleted |-> FALSE]

\* _create_principal(): normalise and INSERT; alone it commits at once.
CreatePrincipal(w, p) ==
  /\ At(w, "validated")
  /\ ~Exists(p) /\ ~InsertingPrincipal(p)
  /\ UsernameIsUnique(w)
  /\ principals' = [principals EXCEPT ![p] = NewPrincipal(w)]
  /\ Set(w, Idle)
  /\ UNCHANGED <<accounts, provisioned>>

InsertPrincipal(w, p) ==
  /\ At(w, "checked")
  /\ ~Exists(p) /\ ~InsertingPrincipal(p)
  /\ UsernameIsUnique(w)
  /\ Set(w, Naming("principal inserted", TRUE, p, work[w].username, work[w].kind,
                   work[w].identifier))
  /\ UNCHANGED <<principals, accounts, provisioned>>

\* A user account has no identifier, the others a unique one; then
\* sync_display_name() finds the name it would set.
InsertAccount(w) ==
  LET i == work[w].identifier IN
  /\ At(w, "principal inserted")
  /\ i # None =>
       /\ ~InsertingIdentifier(w, work[w].kind, i)
       /\ \A p \in Principal :
            Exists(p) /\ principals[p].kind = work[w].kind => accounts[p].identifier # i
  /\ Step(w, "account inserted")
  /\ UNCHANGED <<principals, accounts, provisioned>>

CommitProvisioning(w) ==
  LET p == work[w].principal IN
  /\ At(w, "account inserted")
  /\ principals' = [principals EXCEPT ![p] = NewPrincipal(w)]
  /\ accounts' = [accounts EXCEPT ![p] =
       [version |-> 1, identifier |-> work[w].identifier, deleted |-> FALSE]]
  /\ provisioned' = provisioned \cup {p}
  /\ Set(w, Idle)

-----------------------------------------------------------------------------
VersionUnlessDeleted(p) == IF principals[p].deleted THEN 0 ELSE principals[p].version

\* The view loads the account that is not deleted, and its principal.
LoadAccount(w, p) ==
  /\ At(w, "idle")
  /\ accounts[p].version > 0 /\ ~accounts[p].deleted
  /\ Set(w, Holding(TRUE, p, principals[p].kind, VersionUnlessDeleted(p), accounts[p].version))
  /\ UNCHANGED <<principals, accounts, provisioned>>

\* The rows a transaction has updated and not committed.
AccountLocked(w, p) ==
  \E v \in Worker \ {w} :
    work[v].principal = p /\ work[v].at \in {"account deleted", "principal deleted"}
PrincipalLocked(w, p) ==
  \E v \in Worker \ {w} : work[v].principal = p /\ At(v, "principal deleted")

\* A plausible defect of DeleteAccount: no transaction around the two deletes.
DeleteAccountAtOnce(w) ==
  LET p == work[w].principal IN
  /\ At(w, "loaded") /\ work[w].whole
  /\ ~AccountLocked(w, p)
  /\ accounts[p].version = work[w].account_version
  /\ accounts' = [accounts EXCEPT ![p].deleted = TRUE, ![p].version = @ + 1]
  /\ Step(w, "account deleted")
  /\ UNCHANGED <<principals, provisioned>>

\* deprovision(): the account, ...
DeleteAccount(w) ==
  LET p == work[w].principal IN
  /\ At(w, "loaded") /\ work[w].whole
  /\ ~AccountLocked(w, p)
  /\ accounts[p].version = work[w].account_version
  /\ Step(w, "account deleted")
  /\ UNCHANGED <<principals, accounts, provisioned>>

\* ... then the principal, unless that was deleted when it was loaded, ...
DeletePrincipal(w) ==
  LET p == work[w].principal IN
  /\ At(w, "account deleted")
  /\ work[w].version > 0 =>
       ~PrincipalLocked(w, p) /\ principals[p].version = work[w].version
  /\ Step(w, "principal deleted")
  /\ UNCHANGED <<principals, accounts, provisioned>>

Saved(row) == [row EXCEPT !.version = @ + 1]
Deleted(row) == [Saved(row) EXCEPT !.deleted = TRUE]

\* ... both visible at once.
CommitDeprovisioning(w) ==
  LET p == work[w].principal IN
  /\ At(w, "principal deleted")
  /\ principals' = [principals EXCEPT ![p] = IF work[w].version = 0 THEN @ ELSE Deleted(@)]
  /\ accounts' = [accounts EXCEPT ![p] = Deleted(@)]
  /\ Set(w, Idle)
  /\ UNCHANGED provisioned

-----------------------------------------------------------------------------
\* The views of one principal: it is loaded, and saved or soft-deleted alone.
LoadPrincipal(w, p) ==
  /\ At(w, "idle")
  /\ Exists(p) /\ ~principals[p].deleted
  /\ Set(w, Holding(FALSE, p, "user", principals[p].version, 0))
  /\ UNCHANGED <<principals, accounts, provisioned>>

Save(w, row) ==
  LET p == work[w].principal IN
  /\ At(w, "loaded") /\ ~work[w].whole
  /\ ~PrincipalLocked(w, p)
  /\ principals[p].version = work[w].version
  /\ principals[p].version < MaxVersion
  /\ principals' = [principals EXCEPT ![p] = row]
  /\ Set(w, Idle)
  /\ UNCHANGED <<accounts, provisioned>>

UpdatePrincipal(w) ==
  /\ At(w, "loaded")
  /\ Save(w, Saved(principals[work[w].principal]))

DestroyPrincipal(w) ==
  /\ At(w, "loaded")
  /\ Save(w, Deleted(principals[work[w].principal]))

\* An exception (a conflict, a stale instance) or a crash: the transaction is
\* rolled back.
Fail(w) ==
  /\ ~At(w, "idle")
  /\ Set(w, Idle)
  /\ UNCHANGED <<principals, accounts, provisioned>>

Provision(w) ==
  \/ \E u \in Username : ProvisionUser(w, u)
  \/ \E u \in Username \cup {None}, i \in Identifier :
       ProvisionServiceAccount(w, u, i) \/ ProvisionApiClient(w, u, i) \/ ProvisionAgent(w, u, i)
  \/ \E p \in Principal : InsertPrincipal(w, p)
  \/ InsertAccount(w)
  \/ CommitProvisioning(w)

Deprovision(w) ==
  \/ \E p \in Principal : LoadAccount(w, p)
  \/ DeleteAccount(w) \/ DeletePrincipal(w) \/ CommitDeprovisioning(w)

ServePrincipal(w) ==
  \/ \E u \in Username, kind \in Kind : ValidateUsername(w, u, kind)
  \/ \E p \in Principal : CreatePrincipal(w, p) \/ LoadPrincipal(w, p)
  \/ UpdatePrincipal(w) \/ DestroyPrincipal(w)

Next == \E w \in Worker : Provision(w) \/ Deprovision(w) \/ ServePrincipal(w) \/ Fail(w)

Spec == Init /\ [][Next]_vars

-----------------------------------------------------------------------------
\* No two principals, deleted ones included, have usernames that differ in case
\* alone: availability is checked before the INSERT and without a lock, so two
\* requests can both find a name free.
UsernamesDifferInMoreThanCase ==
  \A p, q \in Principal :
    p # q /\ Exists(p) /\ Exists(q) => Lower[principals[p].username] # Lower[principals[q].username]

\* A provisioned principal has its account, and no account is gone while its
\* principal remains, whatever failed between the two writes and whoever saved
\* the principal meanwhile.
NoHalfAccounts ==
  \A p \in provisioned :
    Exists(p) /\ accounts[p].version > 0 /\ (accounts[p].deleted => principals[p].deleted)
=============================================================================
