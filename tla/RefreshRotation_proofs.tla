------------------------- MODULE RefreshRotation_proofs -------------------------
(***************************************************************************)
(* Proofs about RefreshRotation, for any number of requests, credentials   *)
(* and logins: the rows implement the chain of tokens.                     *)
(*                                                                         *)
(* That needs an account of the requests under way: a family has one live  *)
(* credential or one request that has revoked it and not yet created the   *)
(* successor, never both and never two; and an instance whose version is   *)
(* the stored one is of a live credential.                                 *)
(***************************************************************************)
EXTENDS RefreshRotation, TLAPS

\* A request that is not idle has read a stored credential; if nothing was
\* written since, that credential is live.
Snapshots ==
  \A w \in Worker : request[w].at # "idle" =>
    LET c == request[w].cred IN
    /\ c \in Credential /\ Stored(c)
    /\ request[w].at = "checked" =>
         /\ request[w].version <= creds[c].version
         /\ request[w].version = creds[c].version => ~creds[c].revoked

\* A request that has revoked a credential is the only one in the family, the
\* family has no live credential, and the revoked one has no successor.
Spending ==
  \A w \in Worker : request[w].at = "spent" =>
    LET c == request[w].cred IN
    /\ creds[c].revoked
    /\ \A d \in Credential :
         Stored(d) => /\ creds[d].family = creds[c].family => creds[d].revoked
                      /\ creds[d].parent # c
    /\ \A v \in Worker :
         request[v].at = "spent" /\ creds[request[v].cred].family = creds[c].family
           => v = w

FamiliesKnown ==
  \A c \in Credential : Stored(c) => creds[c].family \in Family

IInv ==
  /\ TypeOK
  /\ FamiliesKnown
  /\ Snapshots
  /\ Spending
  /\ OneLivePerFamily
  /\ LineageIsChain

USE NoneAssumption, TtlAssumption, BoundAssumption DEF Stored, Live

LEMMA InitIInv == Init => IInv
BY DEF Init, IInv, TypeOK, FamiliesKnown, Snapshots, Spending, OneLivePerFamily,
   LineageIsChain, Row, NoRow, Request, Idle, Stored, Live

\* Steps that leave the credentials alone and start or end requests.
LEMMA RequestPreserves ==
  ASSUME IInv, UNCHANGED creds, now' \in Nat, valid' \in BOOLEAN,
         request' \in [Worker -> Request],
         \A w \in Worker :
           \/ request'[w] = request[w]
           \/ request'[w].at = "idle"
           \/ /\ request'[w].at = "checked"
              /\ request'[w].cred \in Credential /\ Live(request'[w].cred)
              /\ request'[w].version = creds[request'[w].cred].version
  PROVE  IInv'
<1>1. TypeOK'
  BY DEF IInv, TypeOK
<1>2. FamiliesKnown' /\ OneLivePerFamily' /\ LineageIsChain'
  BY DEF IInv, FamiliesKnown, OneLivePerFamily, LineageIsChain, Stored, Live
<1>3. Snapshots'
  <2> SUFFICES ASSUME NEW w \in Worker, request'[w].at # "idle"
               PROVE  LET c == request'[w].cred IN
                      /\ c \in Credential /\ Stored(c)
                      /\ request'[w].at = "checked" =>
                           /\ request'[w].version <= creds[c].version
                           /\ request'[w].version = creds[c].version => ~creds[c].revoked
    BY DEF Snapshots, Stored
  <2>1. CASE request'[w] = request[w]
    BY <2>1 DEF IInv, Snapshots
  <2>2. CASE request'[w] # request[w]
    <3>1. request'[w].cred \in Credential /\ creds[request'[w].cred].version \in Nat
      BY <2>2 DEF IInv, TypeOK, Row
    <3> QED  BY <2>2, <3>1 DEF Live
  <2> QED  BY <2>1, <2>2
<1>4. Spending'
  BY DEF IInv, Spending, Stored
<1> QED  BY <1>1, <1>2, <1>3, <1>4 DEF IInv

LEMMA IssuePreserves ==
  ASSUME IInv, NEW c \in Credential, NEW f \in Family, NEW ttl \in Ttl, Issue(c, f, ttl)
  PROVE  IInv'
<1> DEFINE row == [version |-> 1, revoked |-> FALSE, family |-> f, parent |-> None,
                   expires_at |-> now + ttl]
<1>1. row \in Row
  BY DEF Row, IInv, TypeOK
<1>2. /\ creds' = [creds EXCEPT ![c] = row]
      /\ creds' \in [Credential -> Row]
      /\ creds'[c] = row
      /\ \A d \in Credential \ {c} : creds'[d] = creds[d]
  BY <1>1 DEF Issue, IInv, TypeOK
<1>3. TypeOK'
  BY <1>2 DEF Issue, IInv, TypeOK
<1>4. ~Stored(c) /\ \A d \in Credential : Stored(d) => creds[d].family # f
  BY DEF Issue
<1>5. FamiliesKnown'
  BY <1>2 DEF IInv, FamiliesKnown, Stored
<1>6. OneLivePerFamily'
  BY <1>2, <1>4 DEF IInv, OneLivePerFamily, Stored, Live
<1>7. LineageIsChain'
  <2>1. \A d \in Credential : Stored(d) /\ creds[d].parent # None
          => creds[d].parent \in Credential /\ creds[d].parent # c
    BY <1>4 DEF IInv, LineageIsChain, TypeOK, Row, Stored
  <2> QED  BY <1>2, <2>1 DEF IInv, LineageIsChain, Stored
<1>8. Snapshots'
  BY <1>2, <1>4 DEF IInv, Snapshots, Stored, Issue
<1>9. Spending'
  BY <1>2, <1>4 DEF IInv, Snapshots, Spending, Stored, Issue
<1> QED  BY <1>3, <1>5, <1>6, <1>7, <1>8, <1>9 DEF IInv

\* The version is the stored one, so the credential was live: its family has no
\* other live one, no other request that is spending, and it has no successor.
LEMMA RevokePreserves ==
  ASSUME IInv, NEW w \in Worker, Revoke(w)
  PROVE  /\ IInv'
         /\ Live(request[w].cred)
         /\ request[w].cred \in Credential
<1> DEFINE c == request[w].cred
<1>1. /\ c \in Credential /\ Stored(c) /\ ~creds[c].revoked
      /\ request[w].at = "checked" /\ request[w].version = creds[c].version
  BY DEF IInv, Snapshots, Revoke
<1> DEFINE row == [version |-> creds[c].version + 1, revoked |-> TRUE,
                   family |-> creds[c].family, parent |-> creds[c].parent,
                   expires_at |-> creds[c].expires_at]
<1>2. row \in Row /\ creds[c] \in Row /\ creds[c].version \in Nat
  BY <1>1 DEF Row, IInv, TypeOK
<1>3. creds' = [creds EXCEPT ![c] = row]
  BY <1>1, <1>2 DEF Revoke, IInv, TypeOK, Row
<1>4. /\ creds' \in [Credential -> Row]
      /\ creds'[c] = row
      /\ \A d \in Credential \ {c} : creds'[d] = creds[d]
  BY <1>1, <1>2, <1>3 DEF IInv, TypeOK
<1> HIDE DEF row
<1>5. /\ row.version = creds[c].version + 1 /\ row.revoked
      /\ row.family = creds[c].family /\ row.parent = creds[c].parent
  BY DEF row
<1>6. /\ \A d \in Credential : /\ creds'[d].family = creds[d].family
                               /\ creds'[d].parent = creds[d].parent
                               /\ Stored(d)' <=> Stored(d)
                               /\ creds'[d].version >= creds[d].version
                               /\ creds[d].revoked => creds'[d].revoked
      /\ creds'[c].version > creds[c].version
  BY <1>1, <1>2, <1>4, <1>5 DEF Stored, IInv, TypeOK, Row
<1>7. /\ request' \in [Worker -> Request]
      /\ request'[w].at = "spent" /\ request'[w].cred = c
      /\ \A v \in Worker \ {w} : request'[v] = request[v]
  BY DEF Revoke, IInv, TypeOK, Request
<1>8. TypeOK' /\ FamiliesKnown'
  BY <1>4, <1>6, <1>7 DEF Revoke, IInv, TypeOK, FamiliesKnown
<1>9. OneLivePerFamily'
  BY <1>4, <1>5, <1>6 DEF IInv, OneLivePerFamily, Live
<1>10. LineageIsChain'
  BY <1>6, NoneAssumption DEF IInv, LineageIsChain, TypeOK, Row
<1>11. Snapshots'
  <2> SUFFICES ASSUME NEW v \in Worker, request'[v].at # "idle"
               PROVE  LET d == request'[v].cred IN
                      /\ d \in Credential /\ creds'[d].version > 0
                      /\ request'[v].at = "checked" =>
                           /\ request'[v].version <= creds'[d].version
                           /\ request'[v].version = creds'[d].version => ~creds'[d].revoked
    BY DEF Snapshots
  <2>1. CASE v = w
    BY <1>1, <1>6, <1>7, <2>1
  <2>2. CASE v # w
    <3>1. request'[v] = request[v] /\ request[v].version \in Nat
      BY <1>7, <2>2 DEF IInv, TypeOK, Request
    <3>2. /\ request[v].cred \in Credential /\ Stored(request[v].cred)
          /\ request[v].at = "checked" =>
               /\ request[v].version <= creds[request[v].cred].version
               /\ request[v].version = creds[request[v].cred].version
                    => ~creds[request[v].cred].revoked
      BY <2>2, <3>1 DEF IInv, Snapshots
    <3>3. /\ creds[request[v].cred].version \in Nat
          /\ creds'[request[v].cred].version \in Nat
      BY <1>4, <3>2 DEF IInv, TypeOK, Row
    <3>4. CASE request[v].cred = c
      BY <1>6, <3>1, <3>2, <3>3, <3>4
    <3>5. CASE request[v].cred # c
      BY <1>4, <1>6, <3>1, <3>2, <3>5
    <3> QED  BY <3>4, <3>5
  <2> QED  BY <2>1, <2>2
<1>12. Spending'
  <2>1. \A d \in Credential : Stored(d) /\ creds[d].family = creds[c].family
          => d = c \/ creds[d].revoked
    BY <1>1 DEF IInv, OneLivePerFamily, Live
  <2>2. \A d \in Credential : Stored(d) => creds[d].parent # c
    BY <1>1 DEF IInv, LineageIsChain
  <2>3. \A v \in Worker : request[v].at = "spent"
          => creds[request[v].cred].family # creds[c].family
    BY <1>1 DEF IInv, Spending
  <2>4. \A v \in Worker : request[v].at # "idle" => request[v].cred \in Credential
    BY DEF IInv, Snapshots
  <2> SUFFICES ASSUME NEW v \in Worker, request'[v].at = "spent"
               PROVE  LET b == request'[v].cred IN
                      /\ creds'[b].revoked
                      /\ \A d \in Credential :
                           Stored(d)' => /\ creds'[d].family = creds'[b].family
                                              => creds'[d].revoked
                                         /\ creds'[d].parent # b
                      /\ \A u \in Worker :
                           /\ request'[u].at = "spent"
                           /\ creds'[request'[u].cred].family = creds'[b].family
                           => u = v
    BY DEF Spending
  <2>5. CASE v = w
    <3>1. creds'[c].revoked
      BY <1>4, <1>5
    <3>2. \A u \in Worker : request'[u].at = "spent" /\ u # w
            => creds'[request'[u].cred].family # creds'[c].family
      BY <1>1, <1>6, <1>7, <2>3, <2>4
    <3>3. \A d \in Credential :
            Stored(d)' => /\ creds'[d].family = creds'[c].family => creds'[d].revoked
                          /\ creds'[d].parent # c
      BY <1>1, <1>6, <2>1, <2>2, <3>1
    <3> QED  BY <1>7, <2>5, <3>1, <3>2, <3>3
  <2>6. CASE v # w
    <3>1. request'[v] = request[v] /\ request[v].at = "spent" /\ request[v].cred \in Credential
      BY <1>7, <2>4, <2>6
    <3>2. /\ creds[request[v].cred].revoked
          /\ \A d \in Credential :
               Stored(d) => /\ creds[d].family = creds[request[v].cred].family
                                  => creds[d].revoked
                            /\ creds[d].parent # request[v].cred
          /\ \A u \in Worker :
               /\ request[u].at = "spent"
               /\ creds[request[u].cred].family = creds[request[v].cred].family
               => u = v
      BY <3>1 DEF IInv, Spending
    <3>3. creds[request[v].cred].family # creds[c].family
      BY <2>3, <3>1
    <3>4. \A u \in Worker :
            /\ request'[u].at = "spent"
            /\ creds'[request'[u].cred].family = creds'[request[v].cred].family
            => u = v
      BY <1>1, <1>6, <1>7, <2>4, <3>1, <3>2, <3>3
    <3> QED  BY <1>6, <3>1, <3>2, <3>4
  <2> QED  BY <2>5, <2>6
<1> QED  BY <1>1, <1>8, <1>9, <1>10, <1>11, <1>12 DEF IInv, Live

\* The successor takes the place of the request in its family.
LEMMA RotatePreserves ==
  ASSUME IInv, NEW w \in Worker, NEW new \in Credential, Rotate(w, new)
  PROVE  IInv'
<1> DEFINE c == request[w].cred
<1>1. /\ c \in Credential /\ Stored(c) /\ creds[c].revoked /\ ~Stored(new)
      /\ request[w].at = "spent" /\ new # c
  BY DEF IInv, Snapshots, Spending, Rotate
<1>2. /\ \A d \in Credential : Stored(d)
            => /\ creds[d].family = creds[c].family => creds[d].revoked
               /\ creds[d].parent # c
      /\ \A v \in Worker :
           request[v].at = "spent" /\ creds[request[v].cred].family = creds[c].family
             => v = w
  BY <1>1 DEF IInv, Spending
<1>3. /\ creds[c].family \in Family /\ creds[c].expires_at \in Nat
  BY <1>1 DEF IInv, FamiliesKnown, TypeOK, Row
<1> DEFINE row == [version |-> 1, revoked |-> FALSE, family |-> creds[c].family,
                   parent |-> c, expires_at |-> creds[c].expires_at]
<1>4. /\ row \in Row /\ row.version = 1 /\ ~row.revoked
      /\ row.family = creds[c].family /\ row.parent = c
  BY <1>1, <1>3 DEF Row
<1>5. /\ creds' \in [Credential -> Row]
      /\ creds'[new] = row
      /\ \A d \in Credential \ {new} : creds'[d] = creds[d]
  BY <1>4 DEF Rotate, IInv, TypeOK
<1> HIDE DEF row
<1>6. /\ Stored(new)'
      /\ \A d \in Credential \ {new} : Stored(d)' <=> Stored(d)
  BY <1>4, <1>5 DEF Stored
<1>7. /\ request' \in [Worker -> Request]
      /\ request'[w].at = "idle"
      /\ \A v \in Worker \ {w} : request'[v] = request[v]
  BY DEF Rotate, IInv, TypeOK, Request, Idle
<1>8. TypeOK' /\ FamiliesKnown'
  BY <1>3, <1>4, <1>5, <1>6, <1>7 DEF Rotate, IInv, TypeOK, FamiliesKnown
<1>9. OneLivePerFamily'
  BY <1>2, <1>4, <1>5, <1>6 DEF IInv, OneLivePerFamily, Live
<1>10. LineageIsChain'
  <2>1. \A d \in Credential : Stored(d) /\ creds[d].parent # None
          => /\ creds[d].parent \in Credential /\ creds[d].parent # new
             /\ creds[d].parent # c
    BY <1>1, <1>2 DEF IInv, LineageIsChain, TypeOK, Row
  <2>2. ASSUME NEW d \in Credential, Stored(d)', creds'[d].parent # None
        PROVE  creds'[creds'[d].parent].version > 0 /\ creds'[creds'[d].parent].revoked
    <3>1. CASE d = new
      BY <1>1, <1>4, <1>5, <1>6, <3>1
    <3>2. CASE d # new
      BY <1>5, <1>6, <2>1, <2>2, <3>2 DEF IInv, LineageIsChain
    <3> QED  BY <3>1, <3>2
  <2>3. ASSUME NEW d \in Credential, NEW e \in Credential, Stored(d)', Stored(e)',
               creds'[d].parent # None, creds'[d].parent = creds'[e].parent
        PROVE  d = e
    BY <1>4, <1>5, <1>6, <2>1, <2>3 DEF IInv, LineageIsChain
  <2> QED  BY <2>2, <2>3 DEF LineageIsChain
<1>11. \A v \in Worker : request'[v].at # "idle"
         => /\ v # w /\ request'[v] = request[v]
            /\ request[v].cred \in Credential /\ Stored(request[v].cred)
            /\ request[v].cred # new
  BY <1>1, <1>7 DEF IInv, Snapshots
<1>12. Snapshots'
  <2> SUFFICES ASSUME NEW v \in Worker, request'[v].at # "idle"
               PROVE  LET d == request'[v].cred IN
                      /\ d \in Credential /\ creds'[d].version > 0
                      /\ request'[v].at = "checked" =>
                           /\ request'[v].version <= creds'[d].version
                           /\ request'[v].version = creds'[d].version => ~creds'[d].revoked
    BY DEF Snapshots
  <2>1. creds'[request[v].cred] = creds[request[v].cred]
    BY <1>5, <1>11
  <2> QED  BY <1>6, <1>11, <2>1 DEF IInv, Snapshots
<1>13. Spending'
  <2> SUFFICES ASSUME NEW v \in Worker, request'[v].at = "spent"
               PROVE  LET b == request'[v].cred IN
                      /\ creds'[b].revoked
                      /\ \A d \in Credential :
                           Stored(d)' => /\ creds'[d].family = creds'[b].family
                                              => creds'[d].revoked
                                         /\ creds'[d].parent # b
                      /\ \A u \in Worker :
                           /\ request'[u].at = "spent"
                           /\ creds'[request'[u].cred].family = creds'[b].family
                           => u = v
    BY DEF Spending
  <2>1. /\ v # w /\ request'[v] = request[v]
        /\ request[v].cred \in Credential /\ request[v].cred # new
    BY <1>11
  <2>2. /\ creds'[request[v].cred] = creds[request[v].cred]
        /\ creds[request[v].cred].family # creds[c].family
        /\ request[v].cred # c
    BY <1>2, <1>5, <2>1
  <2>3. /\ creds[request[v].cred].revoked
        /\ \A d \in Credential :
             Stored(d) => /\ creds[d].family = creds[request[v].cred].family
                                => creds[d].revoked
                          /\ creds[d].parent # request[v].cred
        /\ \A u \in Worker :
             /\ request[u].at = "spent"
             /\ creds[request[u].cred].family = creds[request[v].cred].family
             => u = v
    BY <2>1 DEF IInv, Spending
  <2>4. ASSUME NEW d \in Credential, Stored(d)'
        PROVE  /\ creds'[d].family = creds'[request[v].cred].family => creds'[d].revoked
               /\ creds'[d].parent # request[v].cred
    <3>1. CASE d = new
      BY <1>4, <1>5, <2>2, <3>1
    <3>2. CASE d # new
      BY <1>5, <1>6, <2>2, <2>3, <2>4, <3>2
    <3> QED  BY <3>1, <3>2
  <2>5. ASSUME NEW u \in Worker, request'[u].at = "spent",
               creds'[request'[u].cred].family = creds'[request[v].cred].family
        PROVE  u = v
    BY <1>5, <1>11, <2>2, <2>3, <2>5
  <2> QED  BY <2>1, <2>2, <2>3, <2>4, <2>5
<1> QED  BY <1>8, <1>9, <1>10, <1>12, <1>13 DEF IInv

LEMMA StepIInv == IInv /\ [Next]_vars => IInv'
<1> SUFFICES ASSUME IInv, [Next]_vars
             PROVE  IInv'
  OBVIOUS
<1>0. now \in Nat /\ valid \in BOOLEAN /\ request \in [Worker -> Request]
  BY DEF IInv, TypeOK
<1>1. CASE UNCHANGED vars
  BY <1>0, <1>1, RequestPreserves DEF vars
<1>2. CASE Tick \/ SessionChanges
  <2>1. UNCHANGED <<creds, request>> /\ now' \in Nat /\ valid' \in BOOLEAN
    <3>1. CASE Tick
      BY <1>0, <3>1 DEF Tick
    <3>2. CASE SessionChanges
      <4>1. valid' = ~valid /\ UNCHANGED <<now, creds, request>>
        BY <3>2 DEF SessionChanges
      <4>2. valid' \in BOOLEAN
        BY <1>0, <4>1, Zenon
      <4> QED  BY <1>0, <4>1, <4>2
    <3> QED  BY <1>2, <3>1, <3>2
  <2> QED  BY <1>0, <2>1, RequestPreserves
<1>3. ASSUME NEW c \in Credential, NEW f \in Family, NEW ttl \in Ttl, Issue(c, f, ttl)
      PROVE  IInv'
  BY <1>3, IssuePreserves
<1>4. ASSUME NEW w \in Worker, NEW c \in Credential, LookUp(w, c)
      PROVE  IInv'
  <2> DEFINE looked == [at |-> "checked", cred |-> c, version |-> creds[c].version]
  <2>1. looked \in Request
    BY DEF Request, IInv, TypeOK, Row
  <2>2. request' = [request EXCEPT ![w] = looked] /\ Live(c)
    BY <1>4 DEF LookUp
  <2>3. /\ looked.at = "checked" /\ looked.cred = c
        /\ looked.version = creds[c].version
    OBVIOUS
  <2> HIDE DEF looked
  <2>4. request' \in [Worker -> Request]
    BY <1>0, <2>1, <2>2
  <2>5. \A v \in Worker : request'[v] = IF v = w THEN looked ELSE request[v]
    BY <1>0, <2>2
  <2> QED  BY <1>0, <1>4, <2>2, <2>3, <2>4, <2>5, RequestPreserves DEF LookUp
<1>5. ASSUME NEW w \in Worker, RevokeConflict(w) \/ Crash(w)
      PROVE  IInv'
  <2>1. Idle \in Request /\ Idle.at = "idle"
    BY DEF Idle, Request
  <2>2. request' = [request EXCEPT ![w] = Idle]
    BY <1>5 DEF RevokeConflict, Crash
  <2>3. /\ request' \in [Worker -> Request]
        /\ \A v \in Worker : request'[v] = IF v = w THEN Idle ELSE request[v]
    BY <1>0, <2>1, <2>2
  <2>4. UNCHANGED <<now, valid, creds>>
    BY <1>5 DEF RevokeConflict, Crash
  <2> QED  BY <1>0, <2>1, <2>3, <2>4, RequestPreserves
<1>6. ASSUME NEW w \in Worker, Revoke(w)
      PROVE  IInv'
  BY <1>6, RevokePreserves
<1>7. ASSUME NEW w \in Worker, NEW new \in Credential, Rotate(w, new)
      PROVE  IInv'
  BY <1>7, RotatePreserves
<1> QED  BY <1>1, <1>2, <1>3, <1>4, <1>5, <1>6, <1>7 DEF Next

LEMMA Invariance == Spec => []IInv
BY InitIInv, StepIInv, PTL DEF Spec

\* The rows and the requests keep their shape.
THEOREM TypeCorrect == Spec => []TypeOK
<1>1. IInv => TypeOK
  BY DEF IInv
<1> QED  BY <1>1, Invariance, PTL

\* Of the tokens of one login at most one is accepted at any time.
THEOREM OneLive == Spec => []OneLivePerFamily
<1>1. IInv => OneLivePerFamily
  BY DEF IInv
<1> QED  BY <1>1, Invariance, PTL

\* No token is exchanged twice, however many requests present it at once.
THEOREM NoTokenIsExchangedTwice == Spec => []LineageIsChain
<1>1. IInv => LineageIsChain
  BY DEF IInv
<1> QED  BY <1>1, Invariance, PTL

\* Rotation, with its crashes and conflicts, implements the chain of tokens.
THEOREM RotationIsChain == Spec => ImplementsChain
<1>1. Init => Chain!Init
  BY DEF Init, Chain!Init, issued, usable, Stored, Live, NoRow
<1>2. IInv /\ [Next]_vars => [Chain!Next]_(Chain!vars)
  <2> SUFFICES ASSUME IInv, [Next]_vars
               PROVE  [Chain!Next]_(Chain!vars)
    OBVIOUS
  <2>1. CASE UNCHANGED creds
    BY <2>1 DEF Chain!vars, issued, usable, Stored, Live
  <2>2. ASSUME NEW c \in Credential, NEW f \in Family, NEW ttl \in Ttl, Issue(c, f, ttl)
        PROVE  Chain!Open(f, c)
    <3> DEFINE row == [version |-> 1, revoked |-> FALSE, family |-> f, parent |-> None,
                       expires_at |-> now + ttl]
    <3>1. /\ row.version = 1 /\ ~row.revoked /\ row.family = f
          /\ creds' = [creds EXCEPT ![c] = row] /\ creds \in [Credential -> Row]
      BY <2>2 DEF Issue, IInv, TypeOK
    <3> HIDE DEF row
    <3>2. /\ ~Stored(c) /\ Live(c)' /\ Stored(c)' /\ creds'[c].family = f
          /\ \A d \in Credential \ {c} : /\ Stored(d)' <=> Stored(d)
                                         /\ Live(d)' <=> Live(d)
                                         /\ creds'[d].family = creds[d].family
          /\ \A d \in Credential : Stored(d) => creds[d].family # f
      BY <2>2, <3>1 DEF Issue, Stored, Live
    <3>3. issued[f] = {} /\ \A g \in Family : c \notin issued[g]
      BY <3>2 DEF issued
    <3>4. issued' = [issued EXCEPT ![f] = {c}]
      BY <3>2 DEF issued
    <3>5. usable' = [usable EXCEPT ![f] = {c}]
      BY <3>2 DEF usable, Live
    <3> QED  BY <3>3, <3>4, <3>5 DEF Chain!Open
  <2>3. ASSUME NEW w \in Worker, Revoke(w)
        PROVE  \E f \in Family, c \in Credential : Chain!Use(f, c)
    <3> DEFINE c == request[w].cred
               f == creds[c].family
    <3>1. Live(c) /\ c \in Credential /\ f \in Family
      BY <2>3, RevokePreserves DEF Live, IInv, FamiliesKnown
    <3>2. /\ creds[c].version \in Nat
          /\ creds' = [creds EXCEPT ![c].revoked = TRUE, ![c].version = @ + 1]
      BY <2>3, <3>1 DEF Revoke, IInv, TypeOK, Row
    <3>3. /\ creds'[c].revoked
          /\ \A d \in Credential : /\ creds'[d].family = creds[d].family
                                   /\ Stored(d)' <=> Stored(d)
          /\ \A d \in Credential \ {c} : Live(d)' <=> Live(d)
      BY <3>1, <3>2 DEF IInv, TypeOK, Row, Stored, Live
    <3> HIDE DEF c
    <3>4. usable[f] = {c}
      BY <3>1 DEF usable, IInv, OneLivePerFamily
    <3>5. issued' = issued
      BY <3>3 DEF issued
    <3>6. usable' = [usable EXCEPT ![f] = {}]
      <4>1. \A g \in Family : {d \in Credential : Live(d)' /\ creds'[d].family = g}
              = IF g = f THEN {} ELSE {d \in Credential : Live(d) /\ creds[d].family = g}
        <5> SUFFICES ASSUME NEW g \in Family, NEW d \in Credential
                     PROVE  Live(d)' /\ creds'[d].family = g
                              <=> g # f /\ Live(d) /\ creds[d].family = g
          OBVIOUS
        <5>1. Live(d) /\ creds[d].family = f => d = c
          BY <3>1 DEF IInv, OneLivePerFamily
        <5>2. CASE d = c
          BY <3>3, <5>2 DEF f
        <5>3. CASE d # c
          BY <3>3, <5>1, <5>3
        <5> QED  BY <5>2, <5>3
      <4> QED  BY <3>1, <4>1 DEF usable
    <3> QED  BY <3>1, <3>4, <3>5, <3>6 DEF Chain!Use
  <2>4. ASSUME NEW w \in Worker, NEW new \in Credential, Rotate(w, new)
        PROVE  \E f \in Family : Chain!Renew(f, new)
    <3> DEFINE c == request[w].cred
               f == creds[c].family
               row == [version |-> 1, revoked |-> FALSE, family |-> f, parent |-> c,
                       expires_at |-> creds[c].expires_at]
    <3>1. /\ c \in Credential /\ Stored(c) /\ f \in Family
          /\ \A d \in Credential : Stored(d) /\ creds[d].family = f => creds[d].revoked
      BY <2>4 DEF Rotate, IInv, Snapshots, Spending, FamiliesKnown
    <3>2. /\ row.version = 1 /\ ~row.revoked /\ row.family = f /\ ~Stored(new)
          /\ creds' = [creds EXCEPT ![new] = row] /\ creds \in [Credential -> Row]
      BY <2>4 DEF Rotate, IInv, TypeOK
    <3> HIDE DEF row, f, c
    <3>3. /\ Live(new)' /\ Stored(new)' /\ creds'[new].family = f
          /\ \A d \in Credential \ {new} : /\ Stored(d)' <=> Stored(d)
                                           /\ Live(d)' <=> Live(d)
                                           /\ creds'[d].family = creds[d].family
      BY <3>2 DEF Stored, Live
    <3>4. /\ issued[f] # {} /\ usable[f] = {}
          /\ \A g \in Family : new \notin issued[g]
      BY <3>1, <3>2 DEF issued, usable, Live, f
    <3>5. issued' = [issued EXCEPT ![f] = @ \cup {new}]
      <4>1. \A g \in Family : {d \in Credential : Stored(d)' /\ creds'[d].family = g}
              = {d \in Credential : Stored(d) /\ creds[d].family = g}
                  \cup (IF g = f THEN {new} ELSE {})
        <5> SUFFICES ASSUME NEW g \in Family, NEW d \in Credential
                     PROVE  Stored(d)' /\ creds'[d].family = g
                              <=> \/ Stored(d) /\ creds[d].family = g
                                  \/ g = f /\ d = new
          OBVIOUS
        <5>1. CASE d = new
          BY <3>2, <3>3, <5>1
        <5>2. CASE d # new
          BY <3>3, <5>2
        <5> QED  BY <5>1, <5>2
      <4>2. \A g \in Family : issued'[g] = issued[g] \cup (IF g = f THEN {new} ELSE {})
        BY <4>1 DEF issued
      <4>3. /\ issued' = [g \in Family |-> issued'[g]]
            /\ issued = [g \in Family |-> issued[g]]
        BY DEF issued
      <4>4. \A g \in Family : issued[g] \cup {} = issued[g]
        OBVIOUS
      <4> QED  BY <3>1, <4>2, <4>3, <4>4
    <3>6. usable' = [usable EXCEPT ![f] = {new}]
      <4>1. \A g \in Family : {d \in Credential : Live(d)' /\ creds'[d].family = g}
              = IF g = f THEN {new} ELSE {d \in Credential : Live(d) /\ creds[d].family = g}
        BY <3>1, <3>2, <3>3 DEF Live
      <4> QED  BY <3>1, <4>1 DEF usable
    <3> QED  BY <3>1, <3>4, <3>5, <3>6 DEF Chain!Renew
  <2> QED  BY <2>1, <2>2, <2>3, <2>4 DEF Next, vars, Tick, SessionChanges, LookUp,
           RevokeConflict, Crash, Chain!Next
<1> QED  BY <1>1, <1>2, Invariance, PTL DEF Spec, Chain!Spec, ImplementsChain
===============================================================================
