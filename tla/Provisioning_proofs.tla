-------------------------- MODULE Provisioning_proofs --------------------------
(***************************************************************************)
(* For any number of requests, principals and spellings: usernames differ  *)
(* in more than case, and no account is made or deleted without its         *)
(* principal.                                                                *)
(***************************************************************************)
EXTENDS Provisioning, TLAPS

Inserting(w) == work[w].at \in {"principal inserted", "account inserted"}
Named(w) == work[w].at \in {"checked", "validated", "principal inserted", "account inserted"}
Loading(w) == work[w].at \in {"loaded", "account deleted", "principal deleted"}

\* A request that got this far holds a username, or a principal; what it would
\* insert clashes with nothing stored and with nobody else's rows.
WorkIsNamed ==
  \A w \in Worker :
    /\ Named(w) => work[w].username \in Username
    /\ Inserting(w) \/ Loading(w) => work[w].principal \in Principal

InsertsAreNew ==
  \A w \in Worker : Inserting(w) =>
    /\ ~Exists(work[w].principal)
    /\ \A p \in Principal : Exists(p) => principals[p].username # Lower[work[w].username]
    /\ \A v \in Worker \ {w} : Inserting(v) =>
         /\ work[v].principal # work[w].principal
         /\ Lower[work[v].username] # Lower[work[w].username]

\* Stored usernames are in lower case and differ.
StoredNames ==
  \A p \in Principal : Exists(p) =>
    /\ principals[p].username \in Username
    /\ Lower[principals[p].username] = principals[p].username
    /\ \A q \in Principal \ {p} : Exists(q) => principals[q].username # principals[p].username

\* Accounts belong to principals.
AccountsHavePrincipals == \A p \in Principal : accounts[p].version > 0 => Exists(p)

\* A loaded principal exists; version 0 is only noted for one that was deleted,
\* which it stays.
NotedGone ==
  \A w \in Worker : Loading(w) =>
    /\ Exists(work[w].principal)
    /\ work[w].version = 0 => principals[work[w].principal].deleted

IInv ==
  /\ TypeOK /\ WorkIsNamed /\ InsertsAreNew /\ StoredNames
  /\ AccountsHavePrincipals /\ NotedGone /\ NoHalfAccounts

LEMMA InitIInv == Init => IInv
<1> SUFFICES ASSUME Init PROVE IInv
  OBVIOUS
<1>1. Idle \in Work BY NoneAssumption DEF Idle, Work, Kind
<1>2. \A w \in Worker : work[w].at = "idle" BY DEF Init, Idle
<1>3. \A p \in Principal : ~Exists(p) BY DEF Init, Exists, NoPrincipal
<1>4. TypeOK BY <1>1 DEF Init, TypeOK, NoPrincipal, NoAccount, Kind
<1>5. WorkIsNamed /\ InsertsAreNew /\ NotedGone
  BY <1>2 DEF WorkIsNamed, InsertsAreNew, NotedGone, Named, Inserting, Loading
<1>6. StoredNames /\ NoHalfAccounts BY <1>3 DEF Init, StoredNames, NoHalfAccounts
<1>7. AccountsHavePrincipals BY DEF Init, AccountsHavePrincipals, NoAccount
<1> QED BY <1>4, <1>5, <1>6, <1>7 DEF IInv

-----------------------------------------------------------------------------
\* A step that only replaces one request's record keeps the invariant when the
\* new record satisfies its part of it.
LEMMA SetWork ==
  ASSUME IInv, NEW w \in Worker, NEW r \in Work, Set(w, r),
         UNCHANGED <<principals, accounts, provisioned>>,
         r.at \in {"checked", "validated", "principal inserted", "account inserted"} =>
           r.username \in Username,
         r.at \in {"principal inserted", "account inserted", "loaded", "account deleted",
                   "principal deleted"} => r.principal \in Principal,
         r.at \in {"principal inserted", "account inserted"} =>
           /\ ~Exists(r.principal)
           /\ \A p \in Principal : Exists(p) => principals[p].username # Lower[r.username]
           /\ \A v \in Worker \ {w} : Inserting(v) =>
                work[v].principal # r.principal /\ Lower[work[v].username] # Lower[r.username],
         r.at \in {"loaded", "account deleted", "principal deleted"} =>
           Exists(r.principal) /\ (r.version = 0 => principals[r.principal].deleted)
  PROVE  IInv'
<1>1. work'[w] = r /\ \A v \in Worker \ {w} : work'[v] = work[v]
  BY DEF Set, IInv, TypeOK
<1>2. TypeOK' BY DEF IInv, TypeOK, Set
<1>3. WorkIsNamed' BY <1>1 DEF IInv, WorkIsNamed, Named, Inserting, Loading
<1>4. InsertsAreNew'
  <2> SUFFICES ASSUME NEW x \in Worker, Inserting(x)'
               PROVE  (/\ ~Exists(work[x].principal)
                       /\ \A p \in Principal :
                            Exists(p) => principals[p].username # Lower[work[x].username]
                       /\ \A v \in Worker \ {x} : Inserting(v) =>
                            /\ work[v].principal # work[x].principal
                            /\ Lower[work[v].username] # Lower[work[x].username])'
    BY DEF InsertsAreNew
  <2>1. CASE x = w
    <3>1. r.at \in {"principal inserted", "account inserted"} BY <1>1, <2>1 DEF Inserting
    <3>2. (/\ ~Exists(work[x].principal)
           /\ \A p \in Principal :
                Exists(p) => principals[p].username # Lower[work[x].username])'
      BY <1>1, <2>1, <3>1 DEF Exists
    <3>3. \A v \in Worker \ {x} : Inserting(v)' => Inserting(v)
      BY <1>1, <2>1 DEF Inserting
    <3>4. (\A v \in Worker \ {x} : Inserting(v) =>
             /\ work[v].principal # work[x].principal
             /\ Lower[work[v].username] # Lower[work[x].username])'
      BY <1>1, <2>1, <3>1, <3>3
    <3> QED BY <3>2, <3>4
  <2>2. CASE x # w
    <3>1. Inserting(x) /\ work'[x] = work[x] BY <1>1, <2>2 DEF Inserting
    <3>2. (/\ ~Exists(work[x].principal)
           /\ \A p \in Principal :
                Exists(p) => principals[p].username # Lower[work[x].username])'
      BY <3>1 DEF IInv, InsertsAreNew, Exists
    <3>3. ASSUME NEW v \in Worker \ {x}, Inserting(v)'
          PROVE  /\ work'[v].principal # work'[x].principal
                 /\ Lower[work'[v].username] # Lower[work'[x].username]
      <4>1. CASE v = w
        <5>1. r.at \in {"principal inserted", "account inserted"}
          BY <1>1, <3>3, <4>1 DEF Inserting
        <5> QED BY <1>1, <2>2, <3>1, <4>1, <5>1
      <4>2. CASE v # w
        BY <1>1, <3>1, <3>3, <4>2 DEF IInv, InsertsAreNew, Inserting
      <4> QED BY <4>1, <4>2
    <3> QED BY <3>2, <3>3
  <2> QED BY <2>1, <2>2
<1>5. StoredNames' /\ NoHalfAccounts' /\ AccountsHavePrincipals'
  BY DEF IInv, StoredNames, NoHalfAccounts, AccountsHavePrincipals, Exists
<1>6. NotedGone' BY <1>1 DEF IInv, NotedGone, Loading, Exists
<1> QED BY <1>2, <1>3, <1>4, <1>5, <1>6 DEF IInv

\* What the records of the requests say of their fields.
LEMMA Advanced ==
  ASSUME IInv, NEW w \in Worker,
         NEW at \in {"principal inserted", "account inserted", "loaded", "account deleted",
                     "principal deleted"}
  PROVE  LET r == [work[w] EXCEPT !.at = at] IN
         /\ r \in Work /\ r.at = at
         /\ r.username = work[w].username /\ r.principal = work[w].principal
         /\ r.version = work[w].version
<1>1. work[w] \in Work BY DEF IInv, TypeOK
<1> QED BY <1>1 DEF Work

LEMMA IdleIsWork == Idle \in Work /\ Idle.at = "idle"
BY NoneAssumption DEF Idle, Work, Kind

-----------------------------------------------------------------------------
LEMMA Checked ==
  ASSUME IInv, NEW w \in Worker, NEW u \in Username, NEW kind \in Kind,
         NEW i \in Identifier \cup {None}, CheckUsernameAvailable(w, u, kind, i)
  PROVE  IInv'
<1> DEFINE r == Naming("checked", TRUE, None, u, kind, i)
<1>1. r \in Work /\ r.at = "checked" /\ r.username = u BY DEF Work, Naming
<1>2. Set(w, r) /\ UNCHANGED <<principals, accounts, provisioned>>
  BY DEF CheckUsernameAvailable
<1> HIDE DEF r
<1> QED BY <1>1, <1>2, SetWork

LEMMA Validated ==
  ASSUME IInv, NEW w \in Worker, NEW u \in Username, NEW kind \in Kind,
         ValidateUsername(w, u, kind)
  PROVE  IInv'
<1> DEFINE r == Naming("validated", FALSE, None, u, kind, None)
<1>1. r \in Work /\ r.at = "validated" /\ r.username = u BY DEF Work, Naming
<1>2. Set(w, r) /\ UNCHANGED <<principals, accounts, provisioned>> BY DEF ValidateUsername
<1> HIDE DEF r
<1> QED BY <1>1, <1>2, SetWork

LEMMA PrincipalInserted ==
  ASSUME IInv, NEW w \in Worker, NEW p \in Principal, InsertPrincipal(w, p)
  PROVE  IInv'
<1> DEFINE r == Naming("principal inserted", TRUE, p, work[w].username, work[w].kind,
                       work[w].identifier)
<1>1. work[w] \in Work /\ work[w].username \in Username
  BY DEF IInv, TypeOK, WorkIsNamed, Named, InsertPrincipal, At
<1>2. /\ r \in Work /\ r.at = "principal inserted" /\ r.principal = p
      /\ r.username = work[w].username
  BY <1>1 DEF Work, Naming
<1>3. Set(w, r) /\ UNCHANGED <<principals, accounts, provisioned>> BY DEF InsertPrincipal
<1> HIDE DEF r
<1>4. /\ ~Exists(p)
      /\ \A q \in Principal : Exists(q) => principals[q].username # Lower[work[w].username]
  BY DEF InsertPrincipal, UsernameIsUnique, NormalizeUsername
<1>5. \A v \in Worker \ {w} : Inserting(v) =>
        work[v].principal # p /\ Lower[work[v].username] # Lower[work[w].username]
  BY DEF InsertPrincipal, UsernameIsUnique, NormalizeUsername, InsertingUsername,
         InsertingPrincipal, Inserting
<1> QED BY <1>1, <1>2, <1>3, <1>4, <1>5, SetWork

LEMMA AccountInserted ==
  ASSUME IInv, NEW w \in Worker, InsertAccount(w)
  PROVE  IInv'
<1> DEFINE r == [work[w] EXCEPT !.at = "account inserted"]
<1>1. work[w].at = "principal inserted" /\ Set(w, r)
      /\ UNCHANGED <<principals, accounts, provisioned>>
  BY DEF InsertAccount, Step, At
<1>2. /\ r \in Work /\ r.at = "account inserted" /\ r.username = work[w].username
      /\ r.principal = work[w].principal
  BY Advanced
<1> HIDE DEF r
<1>3. Inserting(w) /\ Named(w) BY <1>1 DEF Inserting, Named
<1>4. work[w].username \in Username /\ work[w].principal \in Principal
  BY <1>3 DEF IInv, WorkIsNamed
<1>5. /\ ~Exists(work[w].principal)
      /\ \A p \in Principal : Exists(p) => principals[p].username # Lower[work[w].username]
      /\ \A v \in Worker \ {w} : Inserting(v) =>
           /\ work[v].principal # work[w].principal
           /\ Lower[work[v].username] # Lower[work[w].username]
  BY <1>3 DEF IInv, InsertsAreNew
<1> QED BY <1>1, <1>2, <1>4, <1>5, SetWork

LEMMA AccountLoaded ==
  ASSUME IInv, NEW w \in Worker, NEW p \in Principal, LoadAccount(w, p)
  PROVE  IInv'
<1> DEFINE n == VersionUnlessDeleted(p)
           r == Holding(TRUE, p, principals[p].kind, n, accounts[p].version)
<1>1. /\ principals[p] \in [version : Nat, username : Username \cup {None}, kind : Kind,
                            deleted : BOOLEAN]
      /\ accounts[p].version \in Nat
  BY DEF IInv, TypeOK
<1>2. Exists(p) BY DEF LoadAccount, IInv, AccountsHavePrincipals
<1>3. n \in Nat /\ (n = 0 => principals[p].deleted)
  BY <1>1, <1>2 DEF VersionUnlessDeleted, Exists
<1>4. Set(w, r) /\ UNCHANGED <<principals, accounts, provisioned>> BY DEF LoadAccount
<1> HIDE DEF n
<1>5. r \in Work /\ r.at = "loaded" /\ r.principal = p /\ r.version = n
  BY <1>1, <1>3 DEF Work, Holding
<1> HIDE DEF r
<1> QED BY <1>2, <1>3, <1>4, <1>5, SetWork

LEMMA PrincipalLoaded ==
  ASSUME IInv, NEW w \in Worker, NEW p \in Principal, LoadPrincipal(w, p)
  PROVE  IInv'
<1> DEFINE r == Holding(FALSE, p, "user", principals[p].version, 0)
<1>1. principals[p].version \in Nat /\ principals[p].version > 0 /\ Exists(p)
  BY DEF IInv, TypeOK, LoadPrincipal, Exists
<1>2. r \in Work /\ r.at = "loaded" /\ r.principal = p /\ r.version = principals[p].version
  BY <1>1 DEF Work, Holding, Kind
<1>3. Set(w, r) /\ UNCHANGED <<principals, accounts, provisioned>> BY DEF LoadPrincipal
<1> HIDE DEF r
<1>4. r.version # 0 BY <1>1, <1>2
<1> QED BY <1>1, <1>2, <1>3, <1>4, SetWork

LEMMA Deleting ==
  ASSUME IInv, NEW w \in Worker, DeleteAccount(w) \/ DeletePrincipal(w)
  PROVE  IInv'
<1>1. PICK at \in {"account deleted", "principal deleted"} :
        Set(w, [work[w] EXCEPT !.at = at])
  BY DEF DeleteAccount, DeletePrincipal, Step
<1>2. Loading(w) /\ UNCHANGED <<principals, accounts, provisioned>>
  BY DEF DeleteAccount, DeletePrincipal, At, Loading
<1> DEFINE r == [work[w] EXCEPT !.at = at]
<1>3. r \in Work /\ r.at = at /\ r.principal = work[w].principal /\ r.version = work[w].version
  <2>1. work[w] \in Work BY DEF IInv, TypeOK
  <2> QED BY <1>1, <2>1 DEF Work
<1>4. Set(w, r) BY <1>1
<1> HIDE DEF r
<1>5. work[w].principal \in Principal BY <1>2 DEF IInv, WorkIsNamed
<1>6. /\ Exists(work[w].principal)
      /\ work[w].version = 0 => principals[work[w].principal].deleted
  BY <1>2 DEF IInv, NotedGone
<1> QED BY <1>2, <1>3, <1>4, <1>5, <1>6, SetWork

LEMMA Failed ==
  ASSUME IInv, NEW w \in Worker, Fail(w)
  PROVE  IInv'
<1>1. Set(w, Idle) /\ UNCHANGED <<principals, accounts, provisioned>> BY DEF Fail
<1> QED BY <1>1, IdleIsWork, SetWork

-----------------------------------------------------------------------------
\* The steps that store a new principal end the request that made it; the row is
\* new to everybody.
LEMMA NewRow ==
  ASSUME IInv, NEW w \in Worker, NEW p \in Principal, NEW u \in Username,
         work[w].username = u, ~Exists(p),
         principals' = [principals EXCEPT ![p] = NewPrincipal(w)], Set(w, Idle),
         \A q \in Principal : Exists(q) => principals[q].username # Lower[u],
         \A v \in Worker \ {w} : Inserting(v) =>
           work[v].principal # p /\ Lower[work[v].username] # Lower[u]
  PROVE  /\ work' \in [Worker -> Work]
         /\ principals' \in [Principal ->
              [version : Nat, username : Username \cup {None}, kind : Kind, deleted : BOOLEAN]]
         /\ WorkIsNamed' /\ InsertsAreNew' /\ StoredNames' /\ NotedGone'
         /\ principals'[p].version = 1
         /\ \A q \in Principal \ {p} : principals'[q] = principals[q]
<1>1. work'[w].at = "idle" /\ \A v \in Worker \ {w} : work'[v] = work[v]
  BY IdleIsWork DEF Set, IInv, TypeOK
<1>2. work' \in [Worker -> Work] BY IdleIsWork DEF Set, IInv, TypeOK
<1>3. Lower[u] \in Username /\ Lower[Lower[u]] = Lower[u] BY NamesAssumption
<1>4. work[w].kind \in Kind BY DEF IInv, TypeOK, Work
<1> DEFINE new == [version |-> 1, username |-> Lower[u], kind |-> work[w].kind, deleted |-> FALSE]
<1>5. /\ principals' = [principals EXCEPT ![p] = new]
      /\ principals'[p] = new
      /\ \A q \in Principal \ {p} : principals'[q] = principals[q]
  BY DEF NewPrincipal, NormalizeUsername, IInv, TypeOK
<1>6. new \in [version : Nat, username : Username \cup {None}, kind : Kind, deleted : BOOLEAN]
  BY <1>3, <1>4
<1>7. principals' \in [Principal ->
        [version : Nat, username : Username \cup {None}, kind : Kind, deleted : BOOLEAN]]
  BY <1>5, <1>6 DEF IInv, TypeOK
<1>8. principals'[p].version = 1 /\ principals'[p].username = Lower[u] BY <1>5
<1> HIDE DEF new
<1>9. WorkIsNamed' BY <1>1 DEF IInv, WorkIsNamed, Named, Inserting, Loading
<1>10. InsertsAreNew'
  <2> SUFFICES ASSUME NEW x \in Worker, Inserting(x)'
               PROVE  (/\ ~Exists(work[x].principal)
                       /\ \A q \in Principal :
                            Exists(q) => principals[q].username # Lower[work[x].username]
                       /\ \A v \in Worker \ {x} : Inserting(v) =>
                            /\ work[v].principal # work[x].principal
                            /\ Lower[work[v].username] # Lower[work[x].username])'
    BY DEF InsertsAreNew
  <2>1. x # w /\ Inserting(x) /\ work'[x] = work[x] BY <1>1 DEF Inserting
  <2>2. work[x].principal \in Principal BY <2>1 DEF IInv, WorkIsNamed
  <2>3. work[x].principal # p /\ Lower[work[x].username] # Lower[u] BY <2>1
  <2>4. ~Exists(work[x].principal)' BY <1>5, <2>1, <2>2, <2>3 DEF IInv, InsertsAreNew, Exists
  <2>5. \A q \in Principal :
          Exists(q)' => principals'[q].username # Lower[work'[x].username]
    BY <1>5, <1>8, <2>1, <2>3 DEF IInv, InsertsAreNew, Exists
  <2>6. \A v \in Worker \ {x} : Inserting(v)' =>
          /\ work'[v].principal # work'[x].principal
          /\ Lower[work'[v].username] # Lower[work'[x].username]
    BY <1>1, <2>1 DEF IInv, InsertsAreNew, Inserting
  <2> QED BY <2>4, <2>5, <2>6
<1>11. StoredNames' BY <1>3, <1>5, <1>8 DEF IInv, StoredNames, Exists
<1>12. NotedGone'
  <2> SUFFICES ASSUME NEW x \in Worker, Loading(x)'
               PROVE  (/\ Exists(work[x].principal)
                       /\ work[x].version = 0 => principals[work[x].principal].deleted)'
    BY DEF NotedGone
  <2>1. x # w /\ Loading(x) /\ work'[x] = work[x] BY <1>1 DEF Loading
  <2>2. /\ work[x].principal \in Principal /\ Exists(work[x].principal)
        /\ work[x].version = 0 => principals[work[x].principal].deleted
    BY <2>1 DEF IInv, WorkIsNamed, NotedGone
  <2>3. principals'[work'[x].principal] = principals[work[x].principal]
    BY <1>5, <2>1, <2>2
  <2> QED BY <2>1, <2>2, <2>3 DEF Exists
<1> QED BY <1>2, <1>5, <1>7, <1>8, <1>9, <1>10, <1>11, <1>12

LEMMA PrincipalCreated ==
  ASSUME IInv, NEW w \in Worker, NEW p \in Principal, CreatePrincipal(w, p)
  PROVE  IInv'
<1>1. /\ Named(w) /\ ~Exists(p) /\ Set(w, Idle) /\ UNCHANGED <<accounts, provisioned>>
      /\ principals' = [principals EXCEPT ![p] = NewPrincipal(w)]
  BY DEF CreatePrincipal, At, Named
<1>2. work[w].username \in Username BY <1>1 DEF IInv, WorkIsNamed
<1>3. /\ \A q \in Principal : Exists(q) => principals[q].username # Lower[work[w].username]
      /\ \A v \in Worker \ {w} : Inserting(v) =>
           work[v].principal # p /\ Lower[work[v].username] # Lower[work[w].username]
  BY DEF CreatePrincipal, UsernameIsUnique, NormalizeUsername, InsertingUsername,
         InsertingPrincipal, Inserting
<1>4. /\ work' \in [Worker -> Work]
      /\ principals' \in [Principal ->
           [version : Nat, username : Username \cup {None}, kind : Kind, deleted : BOOLEAN]]
      /\ WorkIsNamed' /\ InsertsAreNew' /\ StoredNames' /\ NotedGone'
      /\ principals'[p].version = 1
      /\ \A q \in Principal \ {p} : principals'[q] = principals[q]
  BY <1>1, <1>2, <1>3, NewRow
<1>5. TypeOK' BY <1>1, <1>4 DEF IInv, TypeOK
<1>6. AccountsHavePrincipals' BY <1>1, <1>4 DEF IInv, AccountsHavePrincipals, Exists
<1>7. p \notin provisioned BY <1>1 DEF IInv, NoHalfAccounts
<1>8. NoHalfAccounts' BY <1>1, <1>4, <1>7 DEF IInv, TypeOK, NoHalfAccounts, Exists
<1> QED BY <1>4, <1>5, <1>6, <1>8 DEF IInv

LEMMA Provisioned ==
  ASSUME IInv, NEW w \in Worker, CommitProvisioning(w)
  PROVE  IInv'
<1> DEFINE p == work[w].principal
           account == [version |-> 1, identifier |-> work[w].identifier, deleted |-> FALSE]
<1>1. /\ Named(w) /\ Inserting(w) /\ Set(w, Idle)
      /\ principals' = [principals EXCEPT ![p] = NewPrincipal(w)]
      /\ accounts' = [accounts EXCEPT ![p] = account]
      /\ provisioned' = provisioned \cup {p}
  BY DEF CommitProvisioning, At, Named, Inserting
<1>2. /\ work[w].username \in Username /\ p \in Principal
      /\ work[w].identifier \in Identifier \cup {None}
  BY <1>1 DEF IInv, WorkIsNamed, TypeOK, Work
<1>3. /\ ~Exists(p)
      /\ \A q \in Principal : Exists(q) => principals[q].username # Lower[work[w].username]
      /\ \A v \in Worker \ {w} : Inserting(v) =>
           work[v].principal # p /\ Lower[work[v].username] # Lower[work[w].username]
  BY <1>1 DEF IInv, InsertsAreNew
<1>4. /\ accounts' \in [Principal ->
           [version : Nat, identifier : Identifier \cup {None}, deleted : BOOLEAN]]
      /\ accounts'[p].version = 1 /\ accounts'[p].deleted = FALSE
      /\ \A q \in Principal \ {p} : accounts'[q] = accounts[q]
  BY <1>1, <1>2 DEF IInv, TypeOK
<1> HIDE DEF p
<1>5. /\ work' \in [Worker -> Work]
      /\ principals' \in [Principal ->
           [version : Nat, username : Username \cup {None}, kind : Kind, deleted : BOOLEAN]]
      /\ WorkIsNamed' /\ InsertsAreNew' /\ StoredNames' /\ NotedGone'
      /\ principals'[p].version = 1
      /\ \A q \in Principal \ {p} : principals'[q] = principals[q]
  BY <1>1, <1>2, <1>3, NewRow
<1>6. TypeOK' BY <1>1, <1>2, <1>4, <1>5 DEF IInv, TypeOK
<1>7. AccountsHavePrincipals' BY <1>4, <1>5 DEF IInv, AccountsHavePrincipals, Exists
<1>8. NoHalfAccounts'
  BY <1>1, <1>2, <1>4, <1>5 DEF IInv, TypeOK, NoHalfAccounts, Exists
<1> QED BY <1>5, <1>6, <1>7, <1>8 DEF IInv

-----------------------------------------------------------------------------
\* The steps that change a stored principal keep its name, and a deleted one
\* stays deleted.
LEMMA ChangedRow ==
  ASSUME IInv, NEW w \in Worker, NEW p \in Principal, Exists(p),
         NEW n \in Nat, NEW d \in BOOLEAN, n > 0, principals[p].deleted => d,
         principals' = [principals EXCEPT ![p] =
           [version |-> n, username |-> principals[p].username, kind |-> principals[p].kind,
            deleted |-> d]],
         Set(w, Idle)
  PROVE  /\ work' \in [Worker -> Work]
         /\ principals' \in [Principal ->
              [version : Nat, username : Username \cup {None}, kind : Kind, deleted : BOOLEAN]]
         /\ WorkIsNamed' /\ InsertsAreNew' /\ StoredNames' /\ NotedGone'
         /\ \A q \in Principal : Exists(q)' <=> Exists(q)
         /\ \A q \in Principal : principals[q].deleted => principals'[q].deleted
         /\ principals'[p].deleted = d
<1>1. work'[w].at = "idle" /\ \A v \in Worker \ {w} : work'[v] = work[v]
  BY IdleIsWork DEF Set, IInv, TypeOK
<1>2. work' \in [Worker -> Work] BY IdleIsWork DEF Set, IInv, TypeOK
<1> DEFINE new == [version |-> n, username |-> principals[p].username,
                   kind |-> principals[p].kind, deleted |-> d]
<1>3. new \in [version : Nat, username : Username \cup {None}, kind : Kind, deleted : BOOLEAN]
  BY DEF IInv, TypeOK
<1>4. new.version = n /\ new.username = principals[p].username /\ new.deleted = d OBVIOUS
<1>5. principals' = [principals EXCEPT ![p] = new] OBVIOUS
<1> HIDE DEF new
<1>6. /\ principals' \in [Principal ->
           [version : Nat, username : Username \cup {None}, kind : Kind, deleted : BOOLEAN]]
      /\ principals'[p] = new
      /\ \A q \in Principal \ {p} : principals'[q] = principals[q]
  BY <1>3, <1>5 DEF IInv, TypeOK
<1>7. \A q \in Principal :
        /\ Exists(q)' <=> Exists(q)
        /\ principals'[q].username = principals[q].username
  BY <1>4, <1>6 DEF Exists
<1>8. \A q \in Principal : principals[q].deleted => principals'[q].deleted
  BY <1>4, <1>6
<1>9. WorkIsNamed' BY <1>1 DEF IInv, WorkIsNamed, Named, Inserting, Loading
<1>10. InsertsAreNew'
  <2> SUFFICES ASSUME NEW x \in Worker, Inserting(x)'
               PROVE  (/\ ~Exists(work[x].principal)
                       /\ \A q \in Principal :
                            Exists(q) => principals[q].username # Lower[work[x].username]
                       /\ \A v \in Worker \ {x} : Inserting(v) =>
                            /\ work[v].principal # work[x].principal
                            /\ Lower[work[v].username] # Lower[work[x].username])'
    BY DEF InsertsAreNew
  <2>1. x # w /\ Inserting(x) /\ work'[x] = work[x] BY <1>1 DEF Inserting
  <2>2. work[x].principal \in Principal BY <2>1 DEF IInv, WorkIsNamed
  <2>3. ~Exists(work[x].principal)' BY <1>7, <2>1, <2>2 DEF IInv, InsertsAreNew, Exists
  <2>4. \A q \in Principal :
          Exists(q)' => principals'[q].username # Lower[work'[x].username]
    BY <1>7, <2>1 DEF IInv, InsertsAreNew
  <2>5. \A v \in Worker \ {x} : Inserting(v)' =>
          /\ work'[v].principal # work'[x].principal
          /\ Lower[work'[v].username] # Lower[work'[x].username]
    BY <1>1, <2>1 DEF IInv, InsertsAreNew, Inserting
  <2> QED BY <2>3, <2>4, <2>5
<1>11. StoredNames' BY <1>7 DEF IInv, StoredNames
<1>12. NotedGone'
  <2> SUFFICES ASSUME NEW x \in Worker, Loading(x)'
               PROVE  (/\ Exists(work[x].principal)
                       /\ work[x].version = 0 => principals[work[x].principal].deleted)'
    BY DEF NotedGone
  <2>1. x # w /\ Loading(x) /\ work'[x] = work[x] BY <1>1 DEF Loading
  <2>2. /\ work[x].principal \in Principal /\ Exists(work[x].principal)
        /\ work[x].version = 0 => principals[work[x].principal].deleted
    BY <2>1 DEF IInv, WorkIsNamed, NotedGone
  <2>3. Exists(work[x].principal)' BY <1>7, <2>1, <2>2 DEF Exists
  <2> QED BY <1>8, <2>1, <2>2, <2>3
<1> QED BY <1>2, <1>4, <1>6, <1>7, <1>8, <1>9, <1>10, <1>11, <1>12

LEMMA DeletedPrincipal ==
  ASSUME NEW row \in [version : Nat, username : Username \cup {None}, kind : Kind,
                      deleted : BOOLEAN]
  PROVE  Deleted(row) = [version |-> row.version + 1, username |-> row.username,
                         kind |-> row.kind, deleted |-> TRUE]
<1> DEFINE s == Saved(row)
<1>1. /\ s \in [version : Nat, username : Username \cup {None}, kind : Kind, deleted : BOOLEAN]
      /\ s.version = row.version + 1 /\ s.username = row.username /\ s.kind = row.kind
  BY DEF Saved
<1>2. Deleted(row) = [s EXCEPT !.deleted = TRUE] BY DEF Deleted
<1> HIDE DEF s
<1>3. ASSUME NEW d \in BOOLEAN
      PROVE  [s EXCEPT !.deleted = d] =
        [version |-> s.version, username |-> s.username, kind |-> s.kind, deleted |-> d]
  BY <1>1
<1> QED BY <1>1, <1>2, <1>3

LEMMA DeletedAccount ==
  ASSUME NEW row \in [version : Nat, identifier : Identifier \cup {None}, deleted : BOOLEAN]
  PROVE  Deleted(row) = [version |-> row.version + 1, identifier |-> row.identifier,
                         deleted |-> TRUE]
<1> DEFINE s == Saved(row)
<1>1. /\ s \in [version : Nat, identifier : Identifier \cup {None}, deleted : BOOLEAN]
      /\ s.version = row.version + 1 /\ s.identifier = row.identifier
  BY DEF Saved
<1>2. Deleted(row) = [s EXCEPT !.deleted = TRUE] BY DEF Deleted
<1> HIDE DEF s
<1>3. ASSUME NEW d \in BOOLEAN
      PROVE  [s EXCEPT !.deleted = d] =
        [version |-> s.version, identifier |-> s.identifier, deleted |-> d]
  BY <1>1
<1> QED BY <1>1, <1>2, <1>3

LEMMA PrincipalSaved ==
  ASSUME IInv, NEW w \in Worker, UpdatePrincipal(w) \/ DestroyPrincipal(w)
  PROVE  IInv'
<1> DEFINE p == work[w].principal
<1>1. Loading(w) BY DEF UpdatePrincipal, DestroyPrincipal, At, Loading
<1>2. p \in Principal /\ Exists(p) BY <1>1 DEF IInv, WorkIsNamed, NotedGone
<1>3. principals[p] \in [version : Nat, username : Username \cup {None}, kind : Kind,
                         deleted : BOOLEAN]
  BY <1>2 DEF IInv, TypeOK
<1> DEFINE row(d) == [version |-> principals[p].version + 1, username |-> principals[p].username,
                      kind |-> principals[p].kind, deleted |-> d]
<1>4. Saved(principals[p]) = row(principals[p].deleted) BY <1>3 DEF Saved
<1>5. Deleted(principals[p]) = row(TRUE) BY <1>3, DeletedPrincipal
<1>6. PICK d \in BOOLEAN : /\ principals' = [principals EXCEPT ![p] = row(d)]
                           /\ principals[p].deleted => d
  BY <1>3, <1>4, <1>5 DEF UpdatePrincipal, DestroyPrincipal, Save
<1>7. Set(w, Idle) /\ UNCHANGED <<accounts, provisioned>>
  BY DEF UpdatePrincipal, DestroyPrincipal, Save
<1> DEFINE n == principals[p].version + 1
<1>8. n \in Nat /\ n > 0 BY <1>3
<1>9. principals' = [principals EXCEPT ![p] =
        [version |-> n, username |-> principals[p].username, kind |-> principals[p].kind,
         deleted |-> d]]
  BY <1>6
<1> HIDE DEF n, p
<1>10. /\ work' \in [Worker -> Work]
       /\ principals' \in [Principal ->
            [version : Nat, username : Username \cup {None}, kind : Kind, deleted : BOOLEAN]]
       /\ WorkIsNamed' /\ InsertsAreNew' /\ StoredNames' /\ NotedGone'
       /\ \A q \in Principal : Exists(q)' <=> Exists(q)
       /\ \A q \in Principal : principals[q].deleted => principals'[q].deleted
  BY <1>2, <1>6, <1>7, <1>8, <1>9, ChangedRow
<1>11. TypeOK' BY <1>7, <1>10 DEF IInv, TypeOK
<1>12. AccountsHavePrincipals' BY <1>7, <1>10 DEF IInv, AccountsHavePrincipals
<1>13. NoHalfAccounts' BY <1>7, <1>10 DEF IInv, TypeOK, NoHalfAccounts
<1> QED BY <1>10, <1>11, <1>12, <1>13 DEF IInv
LEMMA Deprovisioned ==
  ASSUME IInv, NEW w \in Worker, CommitDeprovisioning(w)
  PROVE  IInv'
<1> DEFINE p == work[w].principal
<1>1. Loading(w) /\ Set(w, Idle) /\ UNCHANGED provisioned
      /\ principals' = [principals EXCEPT ![p] =
           IF work[w].version = 0 THEN principals[p] ELSE Deleted(principals[p])]
      /\ accounts' = [accounts EXCEPT ![p] = Deleted(accounts[p])]
  BY DEF CommitDeprovisioning, At, Loading
<1>2. p \in Principal /\ Exists(p) /\ (work[w].version = 0 => principals[p].deleted)
  BY <1>1 DEF IInv, WorkIsNamed, NotedGone
<1>3. /\ principals[p] \in [version : Nat, username : Username \cup {None}, kind : Kind,
                            deleted : BOOLEAN]
      /\ accounts[p] \in [version : Nat, identifier : Identifier \cup {None}, deleted : BOOLEAN]
  BY <1>2 DEF IInv, TypeOK
<1> DEFINE row(n) == [version |-> n, username |-> principals[p].username,
                      kind |-> principals[p].kind, deleted |-> TRUE]
           account == [version |-> accounts[p].version + 1,
                       identifier |-> accounts[p].identifier, deleted |-> TRUE]
<1>4. Deleted(principals[p]) = row(principals[p].version + 1)
  BY <1>3, DeletedPrincipal
<1>5. work[w].version = 0 => principals[p] = row(principals[p].version)
  BY <1>2, <1>3
<1>6. Deleted(accounts[p]) = account BY <1>3, DeletedAccount
<1>7. PICK n \in Nat : n > 0 /\ principals' = [principals EXCEPT ![p] = row(n)]
  <2>1. /\ principals[p].version \in Nat /\ principals[p].version > 0
        /\ principals[p].version + 1 \in Nat /\ principals[p].version + 1 > 0
    BY <1>2, <1>3 DEF Exists
  <2>2. CASE work[w].version = 0 BY <1>1, <1>5, <2>1, <2>2
  <2>3. CASE work[w].version # 0 BY <1>1, <1>4, <2>1, <2>3
  <2> QED BY <2>2, <2>3
<1>8. principals' = [principals EXCEPT ![p] =
        [version |-> n, username |-> principals[p].username, kind |-> principals[p].kind,
         deleted |-> TRUE]]
  BY <1>7
<1>9. /\ accounts' \in [Principal ->
           [version : Nat, identifier : Identifier \cup {None}, deleted : BOOLEAN]]
      /\ accounts'[p].version > 0
      /\ \A q \in Principal \ {p} : accounts'[q] = accounts[q]
  <2>1. account \in [version : Nat, identifier : Identifier \cup {None}, deleted : BOOLEAN]
        /\ account.version > 0
    BY <1>3
  <2> HIDE DEF account
  <2> QED BY <1>1, <1>2, <1>6, <2>1 DEF IInv, TypeOK
<1> HIDE DEF p, row, account
<1>10. /\ work' \in [Worker -> Work]
       /\ principals' \in [Principal ->
            [version : Nat, username : Username \cup {None}, kind : Kind, deleted : BOOLEAN]]
       /\ WorkIsNamed' /\ InsertsAreNew' /\ StoredNames' /\ NotedGone'
       /\ \A q \in Principal : Exists(q)' <=> Exists(q)
       /\ \A q \in Principal : principals[q].deleted => principals'[q].deleted
       /\ principals'[p].deleted = TRUE
  BY <1>1, <1>2, <1>7, <1>8, ChangedRow
<1>11. TypeOK' BY <1>1, <1>9, <1>10 DEF IInv, TypeOK
<1>12. AccountsHavePrincipals' BY <1>2, <1>9, <1>10 DEF IInv, AccountsHavePrincipals
<1>13. NoHalfAccounts'
  <2> SUFFICES ASSUME NEW q \in provisioned
               PROVE  (/\ Exists(q) /\ accounts[q].version > 0
                       /\ accounts[q].deleted => principals[q].deleted)'
    BY <1>1 DEF NoHalfAccounts
  <2>1. q \in Principal /\ Exists(q)' BY <1>10 DEF IInv, TypeOK, NoHalfAccounts
  <2>2. CASE q = p BY <1>9, <1>10, <2>1, <2>2
  <2>3. CASE q # p BY <1>9, <1>10, <2>1, <2>3 DEF IInv, NoHalfAccounts
  <2> QED BY <2>2, <2>3
<1> QED BY <1>10, <1>11, <1>12, <1>13 DEF IInv

-----------------------------------------------------------------------------
LEMMA ProvisionIInv ==
  ASSUME IInv, NEW w \in Worker, Provision(w)
  PROVE  IInv'
<1>1. CASE \E u \in Username : ProvisionUser(w, u)
  BY <1>1, Checked DEF ProvisionUser, Kind
<1>2. CASE \E u \in Username \cup {None}, i \in Identifier :
        \/ ProvisionServiceAccount(w, u, i) \/ ProvisionApiClient(w, u, i)
        \/ ProvisionAgent(w, u, i)
  <2>1. PICK u \in Username \cup {None}, i \in Identifier, kind \in Kind \ {"user"} :
          CheckUsernameAvailable(w, Chosen(u, kind, i), kind, i)
    BY <1>2 DEF ProvisionServiceAccount, ProvisionApiClient, ProvisionAgent, Kind
  <2>2. Chosen(u, kind, i) \in Username BY <2>1, NamesAssumption DEF Chosen
  <2> QED BY <2>1, <2>2, Checked
<1>3. CASE \E p \in Principal : InsertPrincipal(w, p) BY <1>3, PrincipalInserted
<1>4. CASE InsertAccount(w) BY <1>4, AccountInserted
<1>5. CASE CommitProvisioning(w) BY <1>5, Provisioned
<1> QED BY <1>1, <1>2, <1>3, <1>4, <1>5 DEF Provision

LEMMA NextIInv == IInv /\ [Next]_vars => IInv'
<1> SUFFICES ASSUME IInv, [Next]_vars PROVE IInv'
  OBVIOUS
<1>1. CASE UNCHANGED vars
  BY <1>1 DEF vars, IInv, TypeOK, WorkIsNamed, InsertsAreNew, StoredNames,
     AccountsHavePrincipals, NotedGone, NoHalfAccounts, Named, Inserting, Loading, Exists
<1>2. ASSUME NEW w \in Worker, Provision(w) PROVE IInv' BY <1>2, ProvisionIInv
<1>3. ASSUME NEW w \in Worker, Deprovision(w) PROVE IInv'
  BY <1>3, AccountLoaded, Deleting, Deprovisioned DEF Deprovision
<1>4. ASSUME NEW w \in Worker, ServePrincipal(w) PROVE IInv'
  BY <1>4, Validated, PrincipalCreated, PrincipalLoaded, PrincipalSaved DEF ServePrincipal
<1>5. ASSUME NEW w \in Worker, Fail(w) PROVE IInv' BY <1>5, Failed
<1> QED BY <1>1, <1>2, <1>3, <1>4, <1>5 DEF Next

LEMMA Invariance == Spec => []IInv
<1> QED BY InitIInv, NextIInv, PTL DEF Spec

\* The variables keep their types, for any number of requests and rows.
THEOREM TypeCorrect == Spec => []TypeOK
<1>1. IInv => TypeOK BY DEF IInv
<1> QED BY <1>1, Invariance, PTL

\* Two usernames never differ in case alone, although availability is checked
\* without a lock: the unique column sees names in lower case.
THEOREM UsernamesDiffer == Spec => []UsernamesDifferInMoreThanCase
<1>1. IInv => UsernamesDifferInMoreThanCase
  BY DEF IInv, StoredNames, UsernamesDifferInMoreThanCase
<1> QED BY <1>1, Invariance, PTL

\* No account is made, or deleted, without its principal.
THEOREM WholeAccounts == Spec => []NoHalfAccounts
<1>1. IInv => NoHalfAccounts BY DEF IInv
<1> QED BY <1>1, Invariance, PTL
=============================================================================
