------------------------- MODULE Authorization_proofs -------------------------
(***************************************************************************)
(* Proofs about Authorization, for every set of requests, roles and        *)
(* policies, every depth, and every hierarchy to begin with: a decision    *)
(* that nothing disturbs is the documented one, a disturbed one does not   *)
(* overrule a denial, and a cycle of roles that no edit of the admin       *)
(* closed took moves that overlapped.                                      *)
(*                                                                         *)
(* What a request has read says something of the rows as long as they are  *)
(* as it read them.  For a decision that is all rows: those on which       *)
(* nothing was written since it began.  For a move it is each role by      *)
(* itself: those that have not been moved since.                           *)
(***************************************************************************)
EXTENDS Authorization, FiniteSetTheorems, NaturalsInduction, WellFoundedInduction, TLAPS

Writers == {w \in Worker : work[w].at \in {"descend", "save", "assign"}}

\* Every request that may write has a write left for it.
Bounded == IsFiniteSet(Writers) /\ writes + Cardinality(Writers) <= MaxWrites

\* What is stored, and what a request has read, are numbers of past writes.
Numbered ==
  /\ \A r \in Role : role[r].saved <= writes /\ role[r].moved <= writes
  /\ \A p \in Policy : policy[p].saved <= writes
  /\ \A w \in Worker :
       /\ work[w].since <= writes
       /\ work[w].at \in {"descend", "save"} => work[w].saved <= writes

Known(r) == role[r].state # "absent"

\* Nothing is below a role that was never created, nor about to be put there.
Rooted == \A r \in Role : role[r].parent # NoRole => Known(role[r].parent)
Aimed(w) ==
  work[w].at \in {"descend", "save"} =>
    /\ work[w].role \in Role /\ Known(work[w].role)
    /\ work[w].next # NoRole => Known(work[w].next)

\* The roles below those of a set that are where they were at write n.
Below(seen, n) ==
  {s \in Role : Live(s) /\ role[s].moved <= n /\ role[s].parent \in seen}

\* What an update has found below its role: what it saves has been validated,
\* unless the parent is the one that the role has. (The admin finds nothing.)
Descent(w) ==
  LET v == work[w].visited IN
  /\ work[w].at = "descend" =>
       /\ work[w].role \in v \cup work[w].queue
       /\ Below(v, work[w].since) \subseteq v \cup work[w].queue
  /\ work[w].at = "save" /\ ~work[w].flag /\ work[w].next # NoRole
       /\ role[work[w].role].saved = work[w].saved
       /\ role[work[w].role].parent # work[w].next =>
          work[w].role \in v /\ work[w].next \notin v /\ Below(v, work[w].since) \subseteq v

HierarchyInv ==
  /\ TypeOK /\ Bounded /\ Numbered /\ Rooted
  /\ \A w \in Worker : Aimed(w) /\ Descent(w)
  /\ CyclesNeedARace

\* No policy that denies was there when the check began.
Undenied(w) ==
  work[w].at \in {"roles", "walk", "allow"} \/ (Done(w) /\ work[w].flag) =>
    \A p \in Policy : Matches(p, "deny") => policy[p].saved > work[w].since

Gives(r) == permission /\ Reach(r, Depth) \cap granting # {}
Held == {r \in Role : held[r].state = "live"}

\* The roles above r that a walk has found, and the parent of the last.
Ascent(r, visited, next) ==
  /\ IsFiniteSet(visited) /\ r \in visited /\ Cardinality(visited) <= Depth + 1
  /\ visited = Reach(r, Cardinality(visited) - 1)
  /\ \E s \in visited : role[s].parent = next
  /\ \A s \in visited : role[s].parent \in visited \cup {next}

\* Of a check since which nothing was written: the roles that are neither to
\* come nor the one it is at have been found not to give the permission.
QuietCheck(w) ==
  /\ work[w].at \in {"deny", "roles"} => work[w].visited = {}
  /\ work[w].at = "walk" =>
       /\ work[w].todo \subseteq {<<r, role[r].parent>> : r \in Held}
       /\ work[w].visited = {} =>
            \A r \in Held : <<r, role[r].parent>> \in work[w].todo \/ ~Gives(r)
       /\ work[w].visited # {} =>
            \E cur \in Held :
              /\ Ascent(cur, work[w].visited, work[w].next)
              /\ \A r \in Held \ {cur} : <<r, role[r].parent>> \in work[w].todo \/ ~Gives(r)
  /\ work[w].at = "allow" => \A r \in Held : ~Gives(r)
  /\ Done(w) => work[w].flag = Allowed

Quiet(w) == work[w].since = writes => QuietCheck(w)

IInv == HierarchyInv /\ \A w \in Worker : Undenied(w) /\ Quiet(w)

USE WorkerAssumption, RoleAssumption, HierarchyAssumption, RuleAssumption, DepthAssumption

-----------------------------------------------------------------------------
(* What a step may do to the rows, and to the request of a worker.          *)

Rows == <<role, granting, permission, held, policy, writes>>

\* A request goes on, or writes and ends.
Goes(w) ==
  /\ work' = [work EXCEPT ![w] = work'[w]]
  /\ \/ UNCHANGED Rows
     \/ writes' = writes + 1 /\ work'[w] = Idle

LEMMA IdleType == Idle \in Work
BY DEF Idle, Work

LEMMA StepGoes ==
  ASSUME TypeOK, NEW w \in Worker, Step(w)
  PROVE  Goes(w)
<1>1. CASE Descend(w) \/ Validate(w)
  BY <1>1 DEF Descend, Validate, Become, Stop, Goes, Rows, TypeOK
<1>2. CASE SaveRole(w)
  BY <1>2 DEF SaveRole, Become, Stop, Written, Goes, Rows, TypeOK
<1>3. CASE \E temporary \in BOOLEAN : Renew(w, temporary) \/ Assign(w, temporary)
  BY <1>3 DEF Renew, Assign, Become, Stop, Written, Goes, Rows, TypeOK
<1>4. CASE CheckDeny(w) \/ CheckAllow(w)
  BY <1>4 DEF CheckDeny, CheckAllow, ReadPolicies, Decide, Become, Stop, Goes, Rows, TypeOK
<1>5. CASE ReadRoles(w) \/ Ascend(w) \/ CheckRole(w) \/ NextRole(w) \/ Answer(w)
  BY <1>5 DEF ReadRoles, Ascend, CheckRole, NextRole, Answer, Decide, Become, Stop, Goes,
     Rows, TypeOK
<1> QED  BY <1>1, <1>2, <1>3, <1>4, <1>5 DEF Step

\* Every change of the rows is numbered.
LEMMA StepKinds ==
  ASSUME TypeOK, Next
  PROVE  \/ work' = work /\ writes' = writes + 1
         \/ \E w \in Worker : Goes(w)
<1>1. CASE Change
  BY <1>1 DEF Change, CreateRole, DeleteRole, ChangePermissions, Revoke, Expire,
     DeletePermission, UpdatePolicy, NextWrite, Written
<1>2. ASSUME NEW w \in Worker, Request(w) PROVE Goes(w)
  BY <1>2 DEF Request, BeginUpdate, BeginEdit, BeginAssign, BeginCheck, Start, Goes, Rows, TypeOK
<1>3. ASSUME NEW w \in Worker, Step(w) PROVE Goes(w)
  BY <1>3, StepGoes
<1> QED  BY <1>1, <1>2, <1>3 DEF Next

LEMMA WritesGrow ==
  ASSUME TypeOK, [Next]_vars
  PROVE  /\ writes \in Nat /\ writes' \in {writes, writes + 1}
         /\ writes' = writes => UNCHANGED Rows
<1>1. writes \in Nat
  BY DEF TypeOK
<1>2. CASE Change
  <2>1. writes' = writes + 1
    BY <1>2 DEF Change, CreateRole, DeleteRole, ChangePermissions, Revoke, Expire,
       DeletePermission, UpdatePolicy, NextWrite, Written
  <2> QED  BY <1>1, <2>1
<1>3. CASE \E w \in Worker : Goes(w)
  BY <1>1, <1>3 DEF Goes, Rows
<1>4. CASE UNCHANGED vars
  BY <1>1, <1>4 DEF vars, Rows
<1> QED  BY <1>1, <1>2, <1>3, <1>4, StepKinds DEF Rows

LEMMA RowTypes ==
  ASSUME TypeOK, [Next]_vars
  PROVE  /\ role' \in [Role -> RoleRow] /\ granting' \subseteq Role /\ permission' \in BOOLEAN
         /\ held' \in [Role -> Assignment]
         /\ \A r \in Role : held'[r].state = "expired" => held'[r].temporary
         /\ policy' \in [Policy -> PolicyRow]
<1>0. writes \in Nat /\ writes' \in Nat
  BY WritesGrow
<1>1. CASE UNCHANGED <<role, granting, permission, held, policy>>
  BY <1>1 DEF TypeOK
<1>2. ASSUME NEW r \in Role, NEW p \in Role \cup {NoRole}, CreateRole(r, p)
      PROVE  role' \in [Role -> RoleRow]
  <2>1. [state |-> "live", parent |-> p, saved |-> writes', moved |-> writes',
         checked |-> writes, validated |-> TRUE] \in RoleRow
    BY <1>0 DEF RoleRow
  <2> QED  BY <1>2, <2>1 DEF CreateRole, TypeOK
<1>3. ASSUME NEW r \in Role, DeleteRole(r) PROVE role' \in [Role -> RoleRow]
  <2>1. role[r] \in RoleRow
    BY DEF TypeOK
  <2>2. [role[r] EXCEPT !.state = "deleted", !.saved = writes'] \in RoleRow
    BY <1>0, <2>1 DEF RoleRow
  <2> QED  BY <1>3, <2>2 DEF DeleteRole, TypeOK
<1>4. ASSUME NEW w \in Worker, SaveRole(w) PROVE role' \in [Role -> RoleRow]
  <2> DEFINE r == work[w].role
  <2>1. work[w] \in Work
    BY DEF TypeOK
  <2>2. /\ work[w].next \in Role \cup {NoRole} /\ work[w].since \in Nat
        /\ (~work[w].flag) \in BOOLEAN
    BY <2>1 DEF Work
  <2>3. ASSUME NEW q \in Role
        PROVE  /\ [role[q] EXCEPT !.saved = writes'] \in RoleRow
               /\ [state |-> role[q].state, parent |-> work[w].next, saved |-> writes',
                   moved |-> writes', checked |-> work[w].since,
                   validated |-> ~work[w].flag] \in RoleRow
    <3>1. role[q] \in RoleRow
      BY DEF TypeOK
    <3> QED  BY <1>0, <2>2, <3>1 DEF RoleRow
  <2>4. CASE UNCHANGED role
    BY <2>4 DEF TypeOK
  <2>5. CASE role' = [role EXCEPT ![r] =
               IF @.parent = work[w].next THEN [@ EXCEPT !.saved = writes']
               ELSE [state |-> @.state, parent |-> work[w].next, saved |-> writes',
                     moved |-> writes', checked |-> work[w].since,
                     validated |-> ~work[w].flag]]
    <3>1. CASE role[r].parent = work[w].next
      BY <2>3, <2>5, <3>1 DEF TypeOK
    <3>2. CASE role[r].parent # work[w].next
      BY <2>3, <2>5, <3>2 DEF TypeOK
    <3> QED  BY <3>1, <3>2
  <2> QED  BY <1>4, <2>4, <2>5 DEF SaveRole
<1>5. ASSUME NEW r \in Role, ChangePermissions(r) PROVE granting' \subseteq Role
  BY <1>5 DEF ChangePermissions, TypeOK
<1>6. ASSUME NEW r \in Role, Revoke(r) \/ Expire(r)
      PROVE  /\ held' \in [Role -> Assignment]
             /\ \A q \in Role : held'[q].state = "expired" => held'[q].temporary
  <2>1. held[r] \in Assignment
    BY DEF TypeOK
  <2>2. /\ [held[r] EXCEPT !.state = "none", !.saved = writes'] \in Assignment
        /\ [held[r] EXCEPT !.state = "none", !.saved = writes'].state = "none"
    BY <1>0, <2>1 DEF Assignment
  <2>3. /\ [held[r] EXCEPT !.state = "expired"] \in Assignment
        /\ [held[r] EXCEPT !.state = "expired"].temporary = held[r].temporary
    BY <2>1 DEF Assignment
  <2>4. CASE Revoke(r)
    BY <2>2, <2>4 DEF Revoke, TypeOK
  <2>5. CASE Expire(r)
    BY <2>3, <2>5 DEF Expire, TypeOK
  <2> QED  BY <1>6, <2>4, <2>5
<1>7. ASSUME NEW w \in Worker, NEW temporary \in BOOLEAN,
             Renew(w, temporary) \/ Assign(w, temporary)
      PROVE  /\ held' \in [Role -> Assignment]
             /\ \A q \in Role : held'[q].state = "expired" => held'[q].temporary
  BY <1>0, <1>7 DEF Renew, Assign, Written, TypeOK, Assignment
<1>8. ASSUME NEW p \in Policy, NEW state \in {"enabled", "disabled", "deleted"},
             NEW rule \in Rules, UpdatePolicy(p, state, rule)
      PROVE  policy' \in [Policy -> PolicyRow]
  BY <1>0, <1>8 DEF UpdatePolicy, TypeOK, PolicyRow
<1>9. CASE Change
  BY <1>2, <1>3, <1>5, <1>6, <1>8, <1>9 DEF Change, CreateRole, DeleteRole, ChangePermissions,
     Revoke, Expire, DeletePermission, UpdatePolicy, TypeOK
<1>10. ASSUME NEW w \in Worker, Request(w) \/ Step(w)
       PROVE  UNCHANGED <<role, granting, permission, held, policy>>
              \/ SaveRole(w)
              \/ \E temporary \in BOOLEAN : Renew(w, temporary) \/ Assign(w, temporary)
  BY <1>10 DEF Request, BeginUpdate, BeginEdit, BeginAssign, BeginCheck, Step, Descend, Validate,
     CheckDeny, CheckAllow, ReadRoles, Ascend, CheckRole, NextRole, Answer
<1>11. ASSUME NEW w \in Worker, SaveRole(w)
       PROVE  UNCHANGED <<granting, permission, held, policy>>
  BY <1>11 DEF SaveRole
<1>12. ASSUME NEW w \in Worker, NEW temporary \in BOOLEAN,
              Renew(w, temporary) \/ Assign(w, temporary)
       PROVE  UNCHANGED <<role, granting, permission, policy>>
  BY <1>12 DEF Renew, Assign
<1> QED
  BY <1>1, <1>4, <1>7, <1>9, <1>10, <1>11, <1>12 DEF Next, vars, TypeOK

LEMMA WorkTypes ==
  ASSUME TypeOK, [Next]_vars
  PROVE  work' \in [Worker -> Work]
<1>0. work \in [Worker -> Work] /\ writes \in Nat /\ role \in [Role -> RoleRow]
  BY DEF TypeOK
<1>1. ASSUME NEW w \in Worker, Request(w) PROVE work' \in [Worker -> Work]
  <2>1. ASSUME NEW r \in Role, NEW p \in Role \cup {NoRole}, BeginUpdate(w, r, p)
        PROVE  work' \in [Worker -> Work]
    <3>1. role[r].saved \in Nat
      BY <1>0 DEF RoleRow
    <3>2. [Idle EXCEPT !.at = IF p \in {NoRole, role[r].parent} THEN "save" ELSE "descend",
             !.role = r, !.next = p, !.saved = role[r].saved, !.since = writes, !.queue = {r}]
            \in Work
      BY <1>0, <3>1 DEF Idle, Work
    <3> QED  BY <1>0, <2>1, <3>2 DEF BeginUpdate, Start
  <2>2. ASSUME NEW r \in Role, BeginAssign(w, r) PROVE work' \in [Worker -> Work]
    <3>1. held[r].saved \in Nat
      BY DEF TypeOK, Assignment
    <3>2. [Idle EXCEPT !.at = "assign", !.role = r, !.saved = held[r].saved,
                       !.flag = (held[r].state = "live")] \in Work
      BY <3>1 DEF Idle, Work
    <3> QED  BY <1>0, <2>2, <3>2 DEF BeginAssign, Start
  <2>3. CASE BeginCheck(w)
    BY <1>0, <2>3 DEF BeginCheck, Start, Idle, Work
  <2>4. ASSUME NEW r \in Role, NEW p \in Role \cup {NoRole}, BeginEdit(w, r, p)
        PROVE  work' \in [Worker -> Work]
    <3>1. role[r].saved \in Nat
      BY <1>0 DEF RoleRow
    <3>2. [Idle EXCEPT !.at = "save", !.role = r, !.next = p, !.saved = role[r].saved,
             !.since = writes, !.flag = TRUE] \in Work
      BY <1>0, <3>1 DEF Idle, Work
    <3> QED  BY <1>0, <2>4, <3>2 DEF BeginEdit, Start
  <2> QED  BY <1>1, <2>1, <2>2, <2>3, <2>4 DEF Request
<1>2. ASSUME NEW w \in Worker, NEW x \in Work, Become(w, x) PROVE work' \in [Worker -> Work]
  BY <1>0, <1>2 DEF Become
<1>3. ASSUME NEW w \in Worker, NEW at \in {"save", "roles", "allow"},
             Become(w, [work[w] EXCEPT !.at = at])
      PROVE  work' \in [Worker -> Work]
  BY <1>0, <1>2, <1>3 DEF Work
<1>4. ASSUME NEW w \in Worker, NEW allowed \in BOOLEAN, Decide(w, allowed)
      PROVE  work' \in [Worker -> Work]
  <2>1. work[w].since \in Nat
    BY <1>0 DEF Work
  <2>2. [Idle EXCEPT !.at = "done", !.since = work[w].since, !.flag = allowed] \in Work
    BY <2>1 DEF Work, Idle
  <2> QED  BY <1>2, <1>4, <2>2 DEF Decide
<1>5. ASSUME NEW w \in Worker, Stop(w) PROVE work' \in [Worker -> Work]
  BY <1>2, <1>5, IdleType DEF Stop
<1>6. ASSUME NEW w \in Worker, Step(w) PROVE work' \in [Worker -> Work]
  <2>0. work[w] \in Work
    BY <1>0
  <2>1. CASE Descend(w)
    <3>1. PICK r \in work[w].queue :
            Become(w, [work[w] EXCEPT
              !.visited = @ \cup {r},
              !.queue = (@ \ {r}) \cup (IF r \in work[w].visited THEN {} ELSE Children(r))])
      BY <2>1 DEF Descend
    <3>2. /\ work[w].visited \cup {r} \in SUBSET Role
          /\ (work[w].queue \ {r}) \cup (IF r \in work[w].visited THEN {} ELSE Children(r))
               \in SUBSET Role
      BY <2>0 DEF Work, Children
    <3>3. ASSUME NEW v \in SUBSET Role, NEW q \in SUBSET Role
          PROVE  [work[w] EXCEPT !.visited = v, !.queue = q] \in Work
      BY <2>0 DEF Work
    <3> QED  BY <1>2, <3>1, <3>2, <3>3
  <2>2. CASE Validate(w)
    BY <1>3, <1>5, <2>2 DEF Validate
  <2>3. CASE SaveRole(w) \/ Answer(w)
             \/ \E temporary \in BOOLEAN : Renew(w, temporary) \/ Assign(w, temporary)
    BY <1>5, <2>3 DEF SaveRole, Answer, Renew, Assign
  <2>4. CASE CheckDeny(w) \/ CheckAllow(w)
    BY <1>3, <1>4, <1>5, <2>4 DEF CheckDeny, CheckAllow, ReadPolicies
  <2>5. CASE ReadRoles(w)
    <3>1. {<<r, role[r].parent>> : r \in {s \in Role : held[s].state = "live"}}
            \in SUBSET (Role \X (Role \cup {NoRole}))
      BY <1>0 DEF RoleRow
    <3>2. ASSUME NEW t \in SUBSET (Role \X (Role \cup {NoRole}))
          PROVE  [work[w] EXCEPT !.at = "walk", !.todo = t] \in Work
      BY <2>0 DEF Work
    <3> QED  BY <1>2, <2>5, <3>1, <3>2 DEF ReadRoles
  <2>6. ASSUME NEW v \in SUBSET Role, NEW n \in Role \cup {NoRole},
               NEW t \in SUBSET (Role \X (Role \cup {NoRole}))
        PROVE  /\ [work[w] EXCEPT !.visited = v, !.next = n] \in Work
               /\ [work[w] EXCEPT !.visited = v, !.next = n, !.todo = t] \in Work
    BY <2>0 DEF Work
  <2>7. CASE Ascend(w)
    <3>1. work[w].next \in Role /\ work[w].visited \subseteq Role
      BY <2>0, <2>7 DEF Ascend, More, Work
    <3>2. role[work[w].next].parent \in Role \cup {NoRole}
      BY <1>0, <3>1 DEF RoleRow
    <3> QED  BY <1>2, <2>6, <2>7, <3>1, <3>2 DEF Ascend
  <2>8. CASE CheckRole(w)
    BY <1>2, <1>4, <2>6, <2>8 DEF CheckRole
  <2>9. CASE NextRole(w)
    <3>1. CASE work[w].todo = {}
      BY <1>3, <2>9, <3>1 DEF NextRole
    <3>2. CASE work[w].todo # {}
      <4>1. PICK t \in work[w].todo :
              Become(w, [work[w] EXCEPT !.visited = {t[1]}, !.next = t[2], !.todo = @ \ {t}])
        BY <2>9, <3>2 DEF NextRole
      <4>2. /\ {t[1]} \in SUBSET Role /\ t[2] \in Role \cup {NoRole}
            /\ work[w].todo \ {t} \in SUBSET (Role \X (Role \cup {NoRole}))
        BY <2>0 DEF Work
      <4> QED  BY <1>2, <2>6, <4>1, <4>2
    <3> QED  BY <3>1, <3>2
  <2> QED
    BY <1>6, <2>1, <2>2, <2>3, <2>4, <2>5, <2>7, <2>8, <2>9 DEF Step
<1>7. CASE Change
  BY <1>0, <1>7 DEF Change, CreateRole, DeleteRole, ChangePermissions, Revoke, Expire,
     DeletePermission, UpdatePolicy
<1> QED  BY <1>0, <1>1, <1>6, <1>7 DEF Next, vars

-----------------------------------------------------------------------------
(* What a request is after each of its steps.                               *)

LEMMA RequestResults ==
  ASSUME TypeOK, NEW w \in Worker, Request(w)
  PROVE  /\ \A u \in Worker : u # w => work'[u] = work[u]
         /\ UNCHANGED Rows
         /\ work[w].at = "idle"
         /\ \/ /\ Room
               /\ work'[w].at \in {"descend", "save"}
               /\ \E r \in Role, p \in Role \cup {NoRole} :
                    /\ Live(r) /\ (p # NoRole => Live(p))
                    /\ work'[w].flag = FALSE =>
                         (work'[w].at = "save" <=> p \in {NoRole, role[r].parent})
                    /\ work'[w].role = r /\ work'[w].next = p
                    /\ work'[w].saved = role[r].saved /\ work'[w].since = writes
                    /\ work'[w].visited = {} /\ work'[w].queue \subseteq {r}
                    /\ work'[w].at = "descend" => work'[w].queue = {r}
            \/ /\ Room
               /\ work'[w].at = "assign" /\ work'[w].since = 0
               /\ \E r \in Role : work'[w].saved = held[r].saved
            \/ /\ work'[w].at = "deny" /\ work'[w].since = writes /\ work'[w].visited = {}
<1> DEFINE Moves(r, p) ==
             /\ Live(r) /\ (p # NoRole => Live(p))
             /\ work'[w].flag = FALSE =>
                  (work'[w].at = "save" <=> p \in {NoRole, role[r].parent})
             /\ work'[w].role = r /\ work'[w].next = p
             /\ work'[w].saved = role[r].saved /\ work'[w].since = writes
             /\ work'[w].visited = {} /\ work'[w].queue \subseteq {r}
             /\ work'[w].at = "descend" => work'[w].queue = {r}
<1>1. ASSUME NEW r \in Role, NEW p \in Role \cup {NoRole}, BeginUpdate(w, r, p)
      PROVE  /\ work'[w] = [at |-> IF p \in {NoRole, role[r].parent} THEN "save" ELSE "descend",
                            role |-> r, next |-> p, saved |-> role[r].saved, since |-> writes,
                            visited |-> {}, queue |-> {r}, todo |-> {}, flag |-> FALSE]
             /\ \A u \in Worker : u # w => work'[u] = work[u]
  BY <1>1 DEF BeginUpdate, Start, TypeOK, Idle
<1>2. ASSUME NEW r \in Role, NEW p \in Role \cup {NoRole},
             BeginUpdate(w, r, p) \/ BeginEdit(w, r, p)
      PROVE  /\ work'[w].at \in {"descend", "save"}
             /\ Moves(r, p)
             /\ \A u \in Worker : u # w => work'[u] = work[u]
  <2>1. Live(r) /\ (p # NoRole => Live(p))
    BY <1>2 DEF BeginUpdate, BeginEdit
  <2>2. CASE BeginUpdate(w, r, p)
    <3>0. work'[w] = [at |-> IF p \in {NoRole, role[r].parent} THEN "save" ELSE "descend",
                      role |-> r, next |-> p, saved |-> role[r].saved, since |-> writes,
                      visited |-> {}, queue |-> {r}, todo |-> {}, flag |-> FALSE]
      BY <1>1, <2>2
    <3>1. /\ work'[w].at = IF p \in {NoRole, role[r].parent} THEN "save" ELSE "descend"
          /\ work'[w].role = r /\ work'[w].next = p
          /\ work'[w].saved = role[r].saved /\ work'[w].since = writes
          /\ work'[w].visited = {} /\ work'[w].queue = {r}
      BY <3>0
    <3>2. /\ work'[w].at = "save" <=> p \in {NoRole, role[r].parent}
          /\ work'[w].at \in {"descend", "save"}
      BY <3>1
    <3>3. \A u \in Worker : u # w => work'[u] = work[u]
      BY <1>1, <2>2
    <3> QED  BY <2>1, <3>1, <3>2, <3>3
  <2>3. CASE BeginEdit(w, r, p)
    <3>1. /\ work'[w] = [at |-> "save", role |-> r, next |-> p, saved |-> role[r].saved,
                         since |-> writes, visited |-> {}, queue |-> {}, todo |-> {},
                         flag |-> TRUE]
          /\ \A u \in Worker : u # w => work'[u] = work[u]
      BY <2>3 DEF BeginEdit, Start, TypeOK, Idle
    <3>2. /\ work'[w].at = "save" /\ work'[w].flag = TRUE
          /\ work'[w].role = r /\ work'[w].next = p
          /\ work'[w].saved = role[r].saved /\ work'[w].since = writes
          /\ work'[w].visited = {} /\ work'[w].queue = {}
      BY <3>1
    <3> QED  BY <2>1, <3>1, <3>2
  <2> QED  BY <1>2, <2>2, <2>3
<1>3. ASSUME NEW r \in Role, BeginAssign(w, r)
      PROVE  /\ work'[w].at = "assign" /\ work'[w].since = 0 /\ work'[w].saved = held[r].saved
             /\ \A u \in Worker : u # w => work'[u] = work[u]
  BY <1>3 DEF BeginAssign, Start, TypeOK, Idle
<1>4. ASSUME BeginCheck(w)
      PROVE  /\ work'[w].at = "deny" /\ work'[w].since = writes /\ work'[w].visited = {}
             /\ \A u \in Worker : u # w => work'[u] = work[u]
  BY <1>4 DEF BeginCheck, Start, TypeOK, Idle
<1>5. \/ \E r \in Role, p \in Role \cup {NoRole} : BeginUpdate(w, r, p) \/ BeginEdit(w, r, p)
      \/ \E r \in Role : BeginAssign(w, r)
      \/ BeginCheck(w)
  BY DEF Request
<1>6. UNCHANGED Rows /\ work[w].at = "idle" /\ (Room \/ BeginCheck(w))
  BY <1>5 DEF BeginUpdate, BeginEdit, BeginAssign, BeginCheck, Start, Rows
<1>7. CASE \E r \in Role, p \in Role \cup {NoRole} : BeginUpdate(w, r, p) \/ BeginEdit(w, r, p)
  <2>1. PICK r \in Role, p \in Role \cup {NoRole} : BeginUpdate(w, r, p) \/ BeginEdit(w, r, p)
    BY <1>7
  <2>2. Room
    BY <2>1 DEF BeginUpdate, BeginEdit
  <2> HIDE DEF Room, Moves
  <2>3. /\ work'[w].at \in {"descend", "save"}
        /\ Moves(r, p)
        /\ \A u \in Worker : u # w => work'[u] = work[u]
    BY <1>2, <2>1
  <2>4. \E q \in Role, n \in Role \cup {NoRole} : Moves(q, n)
    BY <2>3
  <2>5. UNCHANGED Rows /\ work[w].at = "idle"
    BY <1>6
  <2> QED  BY <2>2, <2>3, <2>4, <2>5 DEF Moves
<1>8. CASE \E r \in Role : BeginAssign(w, r)
  <2>1. Room
    BY <1>8 DEF BeginAssign
  <2> QED  BY <1>3, <1>6, <1>8, <2>1
<1> QED  BY <1>4, <1>5, <1>6, <1>7, <1>8

\* The request goes on with the role, the parent and the numbers it has.
Carries(w) ==
  /\ work'[w].role = work[w].role /\ work'[w].next = work[w].next
  /\ work'[w].saved = work[w].saved /\ work'[w].since = work[w].since

LEMMA StepResults ==
  ASSUME TypeOK, NEW w \in Worker, Step(w)
  PROVE  \/ work'[w] = Idle
         \/ /\ Descend(w) /\ work[w].at = "descend" /\ work'[w].at = "descend" /\ Carries(w)
            /\ \E r \in work[w].queue :
                 /\ work'[w].visited = work[w].visited \cup {r}
                 /\ work'[w].queue = (work[w].queue \ {r})
                      \cup (IF r \in work[w].visited THEN {} ELSE Children(r))
            /\ UNCHANGED Rows
         \/ /\ Validate(w) /\ work[w].at = "descend" /\ work'[w].at = "save" /\ Carries(w)
            /\ work[w].queue = {} /\ work[w].next \notin work[w].visited
            /\ work'[w].visited = work[w].visited
            /\ UNCHANGED Rows
         \/ /\ work[w].at \in {"deny", "roles", "walk", "allow"}
            /\ work'[w].at \in {"roles", "walk", "allow", "done"}
            /\ work'[w].saved \in {0, work[w].saved} /\ work'[w].since = work[w].since
            /\ UNCHANGED Rows
<1>0. work[w] \in Work /\ work \in [Worker -> Work]
  BY DEF TypeOK
<1>1. CASE Descend(w)
  <2>1. PICK r \in work[w].queue :
          work'[w] = [work[w] EXCEPT
            !.visited = @ \cup {r},
            !.queue = (@ \ {r}) \cup (IF r \in work[w].visited THEN {} ELSE Children(r))]
    BY <1>0, <1>1 DEF Descend, Become
  <2>2. /\ work'[w].at = "descend" /\ Carries(w)
        /\ work'[w].visited = work[w].visited \cup {r}
        /\ work'[w].queue = (work[w].queue \ {r})
             \cup (IF r \in work[w].visited THEN {} ELSE Children(r))
    BY <1>0, <1>1, <2>1 DEF Work, Carries, Descend
  <2> QED  BY <1>1, <2>2 DEF Descend, Rows
<1>2. CASE Validate(w)
  <2>1. CASE work'[w] = [work[w] EXCEPT !.at = "save"]
    <3>1. work'[w].at = "save" /\ Carries(w) /\ work'[w].visited = work[w].visited
      BY <1>0, <2>1 DEF Work, Carries
    <3>2. work'[w] # Idle
      BY <3>1 DEF Idle
    <3>3. work[w].next \notin work[w].visited
      BY <1>0, <1>2, <3>2 DEF Validate, Stop, Become
    <3> QED  BY <1>2, <3>1, <3>3 DEF Validate, Rows
  <2> QED  BY <1>0, <1>2, <2>1 DEF Validate, Become, Stop
<1>3. CASE SaveRole(w) \/ Answer(w)
           \/ \E temporary \in BOOLEAN : Renew(w, temporary) \/ Assign(w, temporary)
  BY <1>0, <1>3 DEF SaveRole, Answer, Renew, Assign, Stop, Become
<1>4. ASSUME NEW allowed \in BOOLEAN, Decide(w, allowed)
      PROVE  /\ work'[w].at = "done" /\ work'[w].flag = allowed
             /\ work'[w].saved = 0 /\ work'[w].since = work[w].since
  BY <1>0, <1>4 DEF Decide, Become, Idle
<1>5. ASSUME NEW at, Become(w, [work[w] EXCEPT !.at = at])
      PROVE  work'[w].at = at /\ work'[w].saved = work[w].saved /\ work'[w].since = work[w].since
  BY <1>0, <1>5 DEF Become, Work
<1>6. CASE CheckDeny(w) \/ CheckAllow(w)
  BY <1>0, <1>4, <1>5, <1>6 DEF CheckDeny, CheckAllow, ReadPolicies, Stop, Become, Rows
<1>7. CASE ReadRoles(w)
  BY <1>0, <1>7 DEF ReadRoles, Become, Work, Rows
<1>8. CASE Ascend(w)
  BY <1>0, <1>8 DEF Ascend, Become, Work, Rows
<1>9. CASE CheckRole(w)
  <2>1. CASE Become(w, [work[w] EXCEPT !.visited = {}, !.next = NoRole])
    BY <1>0, <1>9, <2>1 DEF CheckRole, Become, Work, Rows
  <2> QED  BY <1>4, <1>9, <2>1 DEF CheckRole, Rows
<1>10. CASE NextRole(w)
  <2>1. CASE work[w].todo = {}
    BY <1>5, <1>10, <2>1 DEF NextRole, Rows
  <2>2. ASSUME NEW t \in work[w].todo,
               Become(w, [work[w] EXCEPT !.visited = {t[1]}, !.next = t[2], !.todo = @ \ {t}])
        PROVE  /\ work'[w].at = work[w].at
               /\ work'[w].saved = work[w].saved /\ work'[w].since = work[w].since
    BY <1>0, <2>2 DEF Become, Work
  <2> QED  BY <1>10, <2>1, <2>2 DEF NextRole, Rows
<1> QED
  BY <1>1, <1>2, <1>3, <1>6, <1>7, <1>8, <1>9, <1>10 DEF Step

-----------------------------------------------------------------------------
\* A request that may write has had a write left for it since it began.
LEMMA BoundedStep ==
  ASSUME TypeOK, Bounded, [Next]_vars
  PROVE  Bounded'
<1>0. writes \in Nat /\ IsFiniteSet(Writers) /\ Cardinality(Writers) \in Nat
  BY FS_CardinalityType DEF TypeOK, Bounded
<1>1. CASE Change
  <2>1. Writers' = Writers /\ writes' = writes + 1 /\ writes + Cardinality(Writers) < MaxWrites
    BY <1>1 DEF Change, CreateRole, DeleteRole, ChangePermissions, Revoke, Expire,
       DeletePermission, UpdatePolicy, NextWrite, Written, Room, Writers
  <2> QED  BY <1>0, <2>1 DEF Bounded
<1>2. ASSUME NEW w \in Worker, Request(w) PROVE Bounded'
  <2>1. w \notin Writers /\ writes' = writes
    BY <1>2 DEF Request, BeginUpdate, BeginEdit, BeginAssign, BeginCheck, Start, Writers
  <2>2a. Writers' = Writers \/ (Writers' = Writers \cup {w} /\ Room)
    <3>1. /\ \A u \in Worker : u # w => work'[u] = work[u]
          /\ Room \/ work'[w].at = "deny"
          /\ work[w].at = "idle"
      BY <1>2, RequestResults
    <3> HIDE DEF Room
    <3> QED  BY <3>1 DEF Writers
  <2>2. CASE Writers' = Writers
    BY <2>1, <2>2 DEF Bounded
  <2>3. CASE Writers' = Writers \cup {w} /\ Room
    <3>1. IsFiniteSet(Writers') /\ Cardinality(Writers') = Cardinality(Writers) + 1
      BY <1>0, <2>1, <2>3, FS_AddElement
    <3>2. writes + Cardinality(Writers) < MaxWrites
      BY <2>3 DEF Room, Writers
    <3> QED  BY <1>0, <2>1, <3>1, <3>2 DEF Bounded
  <2> QED  BY <2>2a, <2>2, <2>3
<1>3. ASSUME NEW w \in Worker, Step(w) PROVE Bounded'
  <2>1. \/ Writers' = Writers /\ writes' = writes
        \/ Writers' = Writers \ {w} /\ w \in Writers /\ writes' \in {writes, writes + 1}
    <3>1. \A u \in Worker : u # w => work'[u] = work[u]
      BY <1>3, StepGoes DEF Goes, TypeOK
    <3>2. \/ work'[w].at = "idle"
          \/ work'[w].at \in {"descend", "save", "assign"} /\ w \in Writers /\ writes' = writes
          \/ work'[w].at \notin {"descend", "save", "assign"} /\ w \notin Writers /\ writes' = writes
      BY <1>3, StepResults DEF Rows, Writers, Idle
    <3>3. writes' \in {writes, writes + 1}
      BY <1>3, StepGoes DEF Goes, Rows
    <3>4. work[w].at = "idle" => FALSE
      BY <1>3 DEF Step, Descend, Validate, SaveRole, Renew, Assign, CheckDeny, ReadRoles,
         Ascend, CheckRole, NextRole, CheckAllow, Answer
    <3>5. w \notin Writers => writes' = writes
      BY <1>3 DEF Step, Descend, Validate, SaveRole, Renew, Assign, CheckDeny, ReadRoles,
         Ascend, CheckRole, NextRole, CheckAllow, Answer, Writers
    <3> QED  BY <3>1, <3>2, <3>3, <3>5 DEF Writers
  <2>2. CASE Writers' = Writers \ {w} /\ w \in Writers /\ writes' \in {writes, writes + 1}
    <3>1. IsFiniteSet(Writers') /\ Cardinality(Writers') = Cardinality(Writers) - 1
      BY <1>0, <2>2, FS_RemoveElement
    <3> QED  BY <1>0, <2>2, <3>1 DEF Bounded
  <2> QED  BY <2>1, <2>2 DEF Bounded
<1>4. CASE UNCHANGED vars
  BY <1>4 DEF vars, Bounded, Writers
<1> QED  BY <1>1, <1>2, <1>3, <1>4 DEF Next

LEMMA TypeStep ==
  ASSUME TypeOK, Bounded, [Next]_vars
  PROVE  TypeOK' /\ Bounded'
<1>1. Bounded' /\ Cardinality(Writers') \in Nat /\ writes' \in Nat
  BY BoundedStep, WritesGrow, FS_CardinalityType DEF Bounded
<1>2. writes' \in 0 .. MaxWrites
  BY <1>1 DEF Bounded
<1> QED  BY <1>1, <1>2, RowTypes, WorkTypes DEF TypeOK

-----------------------------------------------------------------------------
(* The hierarchy.                                                           *)

\* The role is where it was, and no more live than it was.
Stays(r) ==
  /\ role'[r].parent = role[r].parent
  /\ role'[r].moved = role[r].moved /\ role'[r].checked = role[r].checked
  /\ role'[r].validated = role[r].validated
  /\ Live(r)' => Live(r)

LEMMA RoleStep ==
  ASSUME TypeOK, [Next]_vars, NEW r \in Role
  PROVE  /\ Stays(r) \/ (writes' = writes + 1 /\ role'[r].moved = writes')
         /\ role'[r] = role[r] \/ (writes' = writes + 1 /\ role'[r].saved = writes')
         /\ Known(r) => Known(r)'
<1>0. role \in [Role -> RoleRow] /\ role[r] \in RoleRow
  BY DEF TypeOK
<1>1. CASE UNCHANGED role
  BY <1>1 DEF Stays, Live, Known
<1>2. ASSUME NEW q \in Role, NEW p \in Role \cup {NoRole}, CreateRole(q, p)
      PROVE  /\ Stays(r) \/ (writes' = writes + 1 /\ role'[r].moved = writes')
             /\ role'[r] = role[r] \/ (writes' = writes + 1 /\ role'[r].saved = writes')
             /\ Known(r) => Known(r)'
  BY <1>0, <1>2 DEF CreateRole, NextWrite, Written, Stays, Live, Known
<1>3. ASSUME NEW q \in Role, DeleteRole(q)
      PROVE  /\ Stays(r) \/ (writes' = writes + 1 /\ role'[r].moved = writes')
             /\ role'[r] = role[r] \/ (writes' = writes + 1 /\ role'[r].saved = writes')
             /\ Known(r) => Known(r)'
  <2>1. CASE q = r
    <3>1. role'[r] = [role[r] EXCEPT !.state = "deleted", !.saved = writes']
      BY <1>0, <1>3, <2>1 DEF DeleteRole
    <3>2. /\ role'[r].state = "deleted" /\ role'[r].saved = writes'
          /\ role'[r].parent = role[r].parent /\ role'[r].moved = role[r].moved
          /\ role'[r].checked = role[r].checked /\ role'[r].validated = role[r].validated
      BY <1>0, <3>1 DEF RoleRow
    <3> QED  BY <1>3, <3>2 DEF DeleteRole, NextWrite, Written, Stays, Live, Known
  <2>2. CASE q # r
    BY <1>0, <1>3, <2>2 DEF DeleteRole, Stays, Live, Known
  <2> QED  BY <2>1, <2>2
<1>4. ASSUME NEW w \in Worker, SaveRole(w)
      PROVE  /\ Stays(r) \/ (writes' = writes + 1 /\ role'[r].moved = writes')
             /\ role'[r] = role[r] \/ (writes' = writes + 1 /\ role'[r].saved = writes')
             /\ Known(r) => Known(r)'
  <2>1. CASE role' = role
    BY <2>1 DEF Stays, Live, Known
  <2>2. CASE role' # role /\ r = work[w].role /\ role[r].parent = work[w].next
    <3>1. role'[r] = [role[r] EXCEPT !.saved = writes'] /\ writes' = writes + 1
      BY <1>0, <1>4, <2>2 DEF SaveRole, Written
    <3>2. /\ role'[r].state = role[r].state /\ role'[r].saved = writes'
          /\ role'[r].parent = role[r].parent /\ role'[r].moved = role[r].moved
          /\ role'[r].checked = role[r].checked /\ role'[r].validated = role[r].validated
      BY <1>0, <3>1 DEF RoleRow
    <3> QED  BY <3>1, <3>2 DEF Stays, Live, Known
  <2>3. CASE role' # role /\ r = work[w].role /\ role[r].parent # work[w].next
    <3>1. /\ role'[r] = [state |-> role[r].state, parent |-> work[w].next, saved |-> writes',
                         moved |-> writes', checked |-> work[w].since,
                         validated |-> ~work[w].flag]
          /\ writes' = writes + 1
      BY <1>0, <1>4, <2>3 DEF SaveRole, Written
    <3> QED  BY <3>1 DEF Known
  <2>4. CASE r # work[w].role
    BY <1>0, <1>4, <2>4 DEF SaveRole, Stays, Live, Known
  <2> QED  BY <2>1, <2>2, <2>3, <2>4
<1>5. UNCHANGED role \/ (\E q \in Role, p \in Role \cup {NoRole} : CreateRole(q, p))
      \/ (\E q \in Role : DeleteRole(q)) \/ (\E w \in Worker : SaveRole(w))
  BY DEF Next, vars, Change, ChangePermissions, Revoke, Expire, DeletePermission, UpdatePolicy,
     Request, BeginUpdate, BeginEdit, BeginAssign, BeginCheck, Step, Descend, Validate, Renew, Assign,
     CheckDeny, CheckAllow, ReadRoles, Ascend, CheckRole, NextRole, Answer
<1> QED  BY <1>1, <1>2, <1>3, <1>4, <1>5

\* Only a policy that is written changes, and its row is numbered.
LEMMA PolicyStep ==
  ASSUME TypeOK, [Next]_vars, NEW p \in Policy
  PROVE  policy'[p] = policy[p] \/ (writes' = writes + 1 /\ policy'[p].saved = writes')
<1>1. UNCHANGED policy
      \/ \E q \in Policy, state \in {"enabled", "disabled", "deleted"}, rule \in Rules :
           UpdatePolicy(q, state, rule)
  BY DEF Next, vars, Change, CreateRole, DeleteRole, ChangePermissions, Revoke, Expire,
     DeletePermission, Request, BeginUpdate, BeginEdit, BeginAssign, BeginCheck, Step, Descend, Validate,
     SaveRole, Renew, Assign, CheckDeny, CheckAllow, ReadRoles, Ascend, CheckRole, NextRole,
     Answer
<1> QED  BY <1>1 DEF UpdatePolicy, NextWrite, Written, TypeOK

LEMMA HeldNumbers ==
  ASSUME TypeOK, NEW w \in Worker
  PROVE  work[w].saved \in Nat /\ work[w].since \in Nat
BY DEF TypeOK, Work

\* What a step does to one request.
LEMMA Whose ==
  ASSUME TypeOK, [Next]_vars, NEW w \in Worker
  PROVE  work'[w] = work[w] \/ Request(w) \/ Step(w)
<1>1. CASE Change
  BY <1>1 DEF Change, CreateRole, DeleteRole, ChangePermissions, Revoke, Expire,
     DeletePermission, UpdatePolicy
<1>2. ASSUME NEW u \in Worker, Request(u) PROVE work'[w] = work[w] \/ Request(w)
  BY <1>2, RequestResults
<1>3. ASSUME NEW u \in Worker, Step(u) PROVE work'[w] = work[w] \/ Step(w)
  BY <1>3, StepGoes DEF Goes, TypeOK
<1> QED  BY <1>1, <1>2, <1>3 DEF Next, vars

LEMMA NumberedStep ==
  ASSUME TypeOK, Numbered, [Next]_vars
  PROVE  Numbered'
<1>0. writes \in Nat /\ writes' \in {writes, writes + 1}
  BY WritesGrow
<1>1. ASSUME NEW r \in Role PROVE role'[r].saved <= writes' /\ role'[r].moved <= writes'
  <2>1. role[r].saved \in Nat /\ role[r].moved \in Nat
    BY DEF TypeOK, RoleRow
  <2>2. role[r].saved <= writes /\ role[r].moved <= writes
    BY DEF Numbered
  <2> QED  BY <1>0, <2>1, <2>2, RoleStep DEF Stays
<1>2. ASSUME NEW p \in Policy PROVE policy'[p].saved <= writes'
  <2>1. policy[p].saved \in Nat
    BY DEF TypeOK, PolicyRow
  <2>2. policy[p].saved <= writes
    BY DEF Numbered
  <2> QED  BY <1>0, <2>1, <2>2, PolicyStep
<1>3. ASSUME NEW w \in Worker
      PROVE  /\ work'[w].since <= writes'
             /\ work'[w].at \in {"descend", "save"} => work'[w].saved <= writes'
  <2>0. /\ work[w].saved \in Nat /\ work[w].since \in Nat /\ work[w].since <= writes
        /\ work[w].at \in {"descend", "save"} => work[w].saved <= writes
    BY HeldNumbers DEF Numbered
  <2>1. CASE work'[w] = work[w]
    BY <1>0, <2>0, <2>1
  <2>2. CASE Request(w)
    <3>1. \A r \in Role : role[r].saved \in Nat /\ role[r].saved <= writes
      BY DEF TypeOK, RoleRow, Numbered
    <3>2. writes' = writes
      BY <2>2, RequestResults DEF Rows
    <3>3. /\ work'[w].since \in {0, writes}
          /\ work'[w].at \in {"descend", "save"} =>
               \E r \in Role : work'[w].saved = role[r].saved
      BY <2>2, RequestResults
    <3> QED  BY <1>0, <3>1, <3>2, <3>3
  <2>3. CASE Step(w)
    <3>1. CASE work'[w] = Idle
      BY <1>0, <3>1 DEF Idle
    <3> QED  BY <1>0, <2>0, <2>3, <3>1, StepResults DEF Carries
  <2> QED  BY <2>1, <2>2, <2>3, Whose
<1> QED  BY <1>1, <1>2, <1>3 DEF Numbered

\* A role that does not stay is created, or saved by the request that validated it.
LEMMA MoveKinds ==
  ASSUME TypeOK, [Next]_vars, NEW r \in Role, ~Stays(r)
  PROVE  /\ \A q \in Role \ {r} : role'[q] = role[q]
         /\ \/ /\ role[r].state = "absent"
               /\ role'[r].parent # NoRole => Live(role'[r].parent)
            \/ \E w \in Worker :
                 /\ work[w].at = "save" /\ work[w].role = r
                 /\ role[r].saved = work[w].saved /\ role[r].parent # work[w].next
                 /\ role'[r].parent = work[w].next /\ role'[r].checked = work[w].since
                 /\ role'[r].validated = (~work[w].flag)
<1>0. role \in [Role -> RoleRow] /\ role[r] \in RoleRow
  BY DEF TypeOK
<1>1. CASE UNCHANGED role
  BY <1>1 DEF Stays, Live
<1>2. ASSUME NEW q \in Role, NEW p \in Role \cup {NoRole}, CreateRole(q, p)
      PROVE  /\ \A s \in Role \ {r} : role'[s] = role[s]
             /\ role[r].state = "absent"
             /\ role'[r].parent # NoRole => Live(role'[r].parent)
  <2>1. q = r
    BY <1>0, <1>2 DEF CreateRole, Stays, Live
  <2> QED  BY <1>0, <1>2, <2>1 DEF CreateRole
<1>3. ASSUME NEW q \in Role, DeleteRole(q) PROVE Stays(r)
  <2>1. CASE q = r
    <3>1. role'[r] = [role[r] EXCEPT !.state = "deleted", !.saved = writes']
      BY <1>0, <1>3, <2>1 DEF DeleteRole
    <3>2. /\ role'[r].state = "deleted"
          /\ role'[r].parent = role[r].parent /\ role'[r].moved = role[r].moved
          /\ role'[r].checked = role[r].checked /\ role'[r].validated = role[r].validated
      BY <1>0, <3>1 DEF RoleRow
    <3> QED  BY <3>2 DEF Stays, Live
  <2>2. CASE q # r
    BY <1>0, <1>3, <2>2 DEF DeleteRole, Stays, Live
  <2> QED  BY <2>1, <2>2
<1>4. ASSUME NEW w \in Worker, SaveRole(w)
      PROVE  /\ \A s \in Role \ {r} : role'[s] = role[s]
             /\ work[w].at = "save" /\ work[w].role = r
             /\ role[r].saved = work[w].saved /\ role[r].parent # work[w].next
             /\ role'[r].parent = work[w].next /\ role'[r].checked = work[w].since
             /\ role'[r].validated = (~work[w].flag)
  <2>1. role' # role
    BY DEF Stays, Live
  <2>2. r = work[w].role
    BY <1>0, <1>4 DEF SaveRole, Stays, Live
  <2>3. role[r].parent # work[w].next
    <3> SUFFICES ASSUME role[r].parent = work[w].next PROVE FALSE
      OBVIOUS
    <3>1. role'[r] = [role[r] EXCEPT !.saved = writes']
      BY <1>0, <1>4, <2>1, <2>2 DEF SaveRole
    <3>2. /\ role'[r].state = role[r].state
          /\ role'[r].parent = role[r].parent /\ role'[r].moved = role[r].moved
          /\ role'[r].checked = role[r].checked /\ role'[r].validated = role[r].validated
      BY <1>0, <3>1 DEF RoleRow
    <3> QED  BY <3>2 DEF Stays, Live
  <2>4. role'[r] = [state |-> role[r].state, parent |-> work[w].next, saved |-> writes',
                    moved |-> writes', checked |-> work[w].since,
                    validated |-> ~work[w].flag]
    BY <1>0, <1>4, <2>1, <2>2, <2>3 DEF SaveRole
  <2> QED  BY <1>0, <1>4, <2>1, <2>2, <2>3, <2>4 DEF SaveRole
<1>5. UNCHANGED role \/ (\E q \in Role, p \in Role \cup {NoRole} : CreateRole(q, p))
      \/ (\E q \in Role : DeleteRole(q)) \/ (\E w \in Worker : SaveRole(w))
  BY DEF Next, vars, Change, ChangePermissions, Revoke, Expire, DeletePermission, UpdatePolicy,
     Request, BeginUpdate, BeginEdit, BeginAssign, BeginCheck, Step, Descend, Validate, Renew, Assign,
     CheckDeny, CheckAllow, ReadRoles, Ascend, CheckRole, NextRole, Answer
<1> QED  BY <1>1, <1>2, <1>3, <1>4, <1>5

LEMMA RootedStep ==
  ASSUME TypeOK, Rooted, \A w \in Worker : Aimed(w), [Next]_vars
  PROVE  Rooted'
<1> SUFFICES ASSUME NEW r \in Role, NEW p \in Role, p = role'[r].parent
             PROVE  Known(p)'
  <2>1. \A r \in Role : role'[r].parent \in Role \cup {NoRole}
    BY RowTypes DEF RoleRow
  <2> QED  BY <2>1 DEF Rooted, Known
<1>1. CASE Stays(r)
  <2>1. Known(p)
    BY <1>1 DEF Stays, Rooted
  <2> QED  BY <2>1, RoleStep
<1>2. CASE ~Stays(r)
  <2>1. Known(p)
    BY <1>2, MoveKinds DEF Aimed, Known, Live
  <2> QED  BY <2>1, RoleStep
<1> QED  BY <1>1, <1>2

LEMMA AimedStep ==
  ASSUME TypeOK, [Next]_vars, NEW w \in Worker, Aimed(w)
  PROVE  Aimed(w)'
<1>0. work[w] \in Work
  BY DEF TypeOK
<1>1. ASSUME NEW r \in Role, Known(r) PROVE Known(r)'
  BY <1>1, RoleStep
<1>2. CASE work'[w] = work[w]
  BY <1>0, <1>1, <1>2 DEF Aimed, Work
<1>3. CASE Request(w)
  <2>1. CASE work'[w].at \in {"descend", "save"}
    <3>1. PICK r \in Role, p \in Role \cup {NoRole} :
            /\ Live(r) /\ (p # NoRole => Live(p))
            /\ work'[w].role = r /\ work'[w].next = p
      BY <1>3, <2>1, RequestResults
    <3>2. Known(r)' /\ (p # NoRole => Known(p)')
      BY <1>1, <3>1 DEF Live, Known
    <3> QED  BY <3>1, <3>2 DEF Aimed
  <2> QED  BY <2>1 DEF Aimed
<1>4. CASE Step(w)
  <2>1. CASE work'[w].at \in {"descend", "save"}
    <3>1. Carries(w) /\ work[w].at \in {"descend", "save"}
      BY <1>4, <2>1, StepResults DEF Idle
    <3> QED  BY <1>0, <1>1, <3>1 DEF Aimed, Carries, Work
  <2> QED  BY <2>1 DEF Aimed
<1> QED  BY <1>2, <1>3, <1>4, Whose

\* What was found below a role is found again, as long as it is where it was.
LEMMA DescentStep ==
  ASSUME TypeOK, Numbered, [Next]_vars, NEW w \in Worker, Aimed(w), Descent(w)
  PROVE  Descent(w)'
<1>0. /\ work[w] \in Work /\ writes \in Nat
      /\ work[w].since \in Nat /\ work[w].since <= writes
  BY HeldNumbers DEF TypeOK, Numbered
<1>1. ASSUME NEW v, NEW s \in Role, role'[s].state = "live",
             role'[s].moved <= work[w].since, role'[s].parent \in v
      PROVE  s \in Below(v, work[w].since)
  BY <1>0, <1>1, RoleStep DEF Below, Stays, Live
<1>2. CASE work'[w] = work[w]
  <2>0. Below(work[w].visited, work[w].since)' \subseteq Below(work[w].visited, work[w].since)
    BY <1>1, <1>2 DEF Below, Live
  <2>1. CASE work[w].at = "descend"
    BY <1>2, <2>0, <2>1 DEF Descent
  <2>2. CASE /\ work[w].at = "save" /\ ~work[w].flag /\ work[w].next # NoRole
             /\ role'[work[w].role].saved = work[w].saved
             /\ role'[work[w].role].parent # work[w].next
    <3>1. work[w].role \in Role /\ work[w].saved \in Nat /\ work[w].saved <= writes
      BY <2>2, HeldNumbers DEF Aimed, Numbered
    <3>2. role'[work[w].role] = role[work[w].role]
      BY <1>0, <2>2, <3>1, RoleStep
    <3> QED  BY <1>2, <2>0, <2>2, <3>2 DEF Descent
  <2> QED  BY <1>2, <2>1, <2>2 DEF Descent
<1>3. CASE Request(w)
  <2>1. CASE work'[w].at \in {"descend", "save"}
    <3>1. PICK r \in Role, p \in Role \cup {NoRole} :
            /\ work'[w].flag = FALSE =>
                 (work'[w].at = "save" <=> p \in {NoRole, role[r].parent})
            /\ work'[w].role = r /\ work'[w].next = p
            /\ work'[w].visited = {}
            /\ work'[w].at = "descend" => work'[w].queue = {r}
      BY <1>3, <2>1, RequestResults
    <3>2. role' = role
      BY <1>3, RequestResults DEF Rows
    <3>3. work'[w].flag \in BOOLEAN
      BY WorkTypes DEF Work
    <3> QED  BY <2>1, <3>1, <3>2, <3>3 DEF Descent, Below
  <2> QED  BY <2>1 DEF Descent
<1>4. CASE Step(w)
  <2>1. CASE work'[w].at = "descend"
    <3>1. /\ work[w].at = "descend" /\ Carries(w) /\ UNCHANGED Rows
          /\ \E r \in work[w].queue :
               /\ work'[w].visited = work[w].visited \cup {r}
               /\ work'[w].queue = (work[w].queue \ {r})
                    \cup (IF r \in work[w].visited THEN {} ELSE Children(r))
      BY <1>4, <2>1, StepResults DEF Idle
    <3>2. /\ work[w].role \in work[w].visited \cup work[w].queue
          /\ Below(work[w].visited, work[w].since) \subseteq work[w].visited \cup work[w].queue
      BY <3>1 DEF Descent
    <3>3. PICK r \in work[w].queue :
               /\ work'[w].visited = work[w].visited \cup {r}
               /\ work'[w].queue = (work[w].queue \ {r})
                    \cup (IF r \in work[w].visited THEN {} ELSE Children(r))
      BY <3>1
    <3>4. Below(work[w].visited \cup {r}, work[w].since)
            \subseteq work'[w].visited \cup work'[w].queue
      BY <3>2, <3>3 DEF Below, Children
    <3>5. Below(work[w].visited, work[w].since)'
            = Below(work[w].visited \cup {r}, work[w].since)
      BY <3>1, <3>3 DEF Below, Live, Rows, Carries
    <3> QED  BY <2>1, <3>1, <3>2, <3>3, <3>4, <3>5 DEF Descent, Carries
  <2>2. CASE work'[w].at = "save"
    <3>1. /\ work[w].at = "descend" /\ Carries(w) /\ UNCHANGED Rows
          /\ work[w].queue = {} /\ work[w].next \notin work[w].visited
          /\ work'[w].visited = work[w].visited
      BY <1>4, <2>2, StepResults DEF Idle
    <3>2. Below(work[w].visited, work[w].since)' = Below(work[w].visited, work[w].since)
      BY <3>1 DEF Below, Live, Rows, Carries
    <3> QED  BY <2>2, <3>1, <3>2 DEF Descent, Carries
  <2> QED  BY <2>1, <2>2 DEF Descent
<1> QED  BY <1>2, <1>3, <1>4, Whose

\* Each role of a cycle is the parent of one.
LEMMA CycleReturns ==
  ASSUME NEW parent, NEW c \in Cycles(parent), NEW r \in c
  PROVE  \E s \in c : parent[s] = r
<1> SUFFICES ASSUME \A s \in c : parent[s] # r PROVE FALSE
  OBVIOUS
<1>1. Upward(parent, c) /\ \A d \in SUBSET c : Upward(parent, d) => d = c
  BY DEF Cycles
<1>2. Upward(parent, c \ {r})
  BY <1>1 DEF Upward
<1> QED  BY <1>1, <1>2

\* A cycle of roles that all stay was there before.
LEMMA CycleStays ==
  ASSUME TypeOK, NEW c \in Cycles(Parents)', \A s \in c : role'[s].parent = role[s].parent
  PROVE  c \in Cycles(Parents)
<1>1. /\ c \in SUBSET Role /\ Upward(Parents', c)
      /\ \A d \in SUBSET c : Upward(Parents', d) => d = c
  BY DEF Cycles, Parents
<1>2. \A d \in SUBSET c : Upward(Parents', d) <=> Upward(Parents, d)
  BY <1>1 DEF Upward, Parents
<1> QED  BY <1>1, <1>2 DEF Cycles, Parents

LEMMA RaceStep ==
  ASSUME HierarchyInv, [Next]_vars
  PROVE  CyclesNeedARace'
<1> SUFFICES ASSUME NEW c \in Cycles(Parents)', NEW r \in c,
                    role'[r].validated,
                    \A s \in c : role'[s].state = "live" /\ role'[s].moved <= role'[r].moved
             PROVE  \E s \in c \ {r} : role'[s].moved > role'[r].checked
  BY DEF CyclesNeedARace, Live
<1>0. /\ TypeOK /\ writes \in Nat /\ c \subseteq Role
      /\ \A s \in Role : role[s].moved \in Nat /\ role[s].moved <= writes
      /\ \A s \in Role : role'[s].moved \in Nat /\ role'[s].parent \in Role \cup {NoRole}
      /\ \A s \in Role : role'[s].checked \in Nat
  BY RowTypes, WritesGrow DEF HierarchyInv, Numbered, TypeOK, RoleRow, Cycles, Parents
<1>1. /\ \A s \in c : role'[s].parent \in c
      /\ \A d \in SUBSET c : d # {} /\ (\A s \in d : role'[s].parent \in d) => d = c
  <2>1. Upward(Parents', c) /\ \A d \in SUBSET c : Upward(Parents', d) => d = c
    BY DEF Cycles
  <2> QED  BY <1>0, <2>1 DEF Upward, Parents
<1>2. CASE \A s \in c : Stays(s)
  <2>1. c \in Cycles(Parents)
    BY <1>0, <1>2, CycleStays DEF Stays
  <2>2. role[r].validated /\ \A s \in c : Live(s) /\ role[s].moved <= role[r].moved
    BY <1>2 DEF Stays, Live
  <2>3. \E s \in c \ {r} : role[s].moved > role[r].checked
    BY <2>1, <2>2 DEF HierarchyInv, CyclesNeedARace
  <2> QED  BY <1>2, <2>3 DEF Stays
<1>3. CASE ~Stays(r)
  <2>1. \A q \in Role \ {r} : role'[q] = role[q]
    BY <1>0, <1>3, MoveKinds
  <2>2. CASE role[r].state = "absent" /\ (role'[r].parent # NoRole => Live(role'[r].parent))
    <3>1. PICK s \in c : role'[s].parent = r
      BY <1>0, CycleReturns DEF Parents
    <3>2. r # NoRole
      BY <1>0
    <3>3. CASE s = r
      BY <2>2, <3>1, <3>2, <3>3 DEF Live
    <3>4. CASE s # r
      <4>1. role[s].parent = r
        BY <1>0, <2>1, <3>1, <3>4
      <4> QED  BY <1>0, <2>2, <3>2, <4>1 DEF HierarchyInv, Rooted, Known
    <3> QED  BY <3>3, <3>4
  <2>3. CASE \E w \in Worker :
               /\ work[w].at = "save" /\ work[w].role = r
               /\ role[r].saved = work[w].saved /\ role[r].parent # work[w].next
               /\ role'[r].parent = work[w].next /\ role'[r].checked = work[w].since
               /\ role'[r].validated = (~work[w].flag)
    <3>1. PICK w \in Worker :
               /\ work[w].at = "save" /\ work[w].role = r
               /\ role[r].saved = work[w].saved /\ role[r].parent # work[w].next
               /\ role'[r].parent = work[w].next /\ role'[r].checked = work[w].since
               /\ role'[r].validated = (~work[w].flag)
      BY <2>3
    <3>2. work[w].next \in c /\ work[w].next # NoRole
      BY <1>0, <1>1, <3>1
    <3>3. /\ r \in work[w].visited /\ work[w].next \notin work[w].visited
          /\ Below(work[w].visited, work[w].since) \subseteq work[w].visited
      <4>1. ~work[w].flag
        BY <3>1
      <4> QED  BY <3>1, <3>2, <4>1 DEF HierarchyInv, Descent
    <3> SUFFICES ASSUME \A s \in c \ {r} : ~(role'[s].moved > work[w].since) PROVE FALSE
      BY <3>1
    <3>4. work[w].since \in Nat
      BY <1>0, HeldNumbers
    <3>5. ASSUME NEW s \in c \ work[w].visited
          PROVE  role'[s].parent \in c \ work[w].visited
      <4>1. s # r /\ role'[s] = role[s] /\ role'[s].moved <= work[w].since
        BY <1>0, <2>1, <3>3, <3>4
      <4>2. role'[s].parent \in work[w].visited => s \in Below(work[w].visited, work[w].since)
        BY <1>0, <4>1 DEF Below, Live
      <4> QED  BY <1>1, <3>3, <4>2
    <3>6. c \ work[w].visited = c
      BY <1>1, <3>2, <3>3, <3>5
    <3> QED  BY <3>3, <3>6
  <2> QED  BY <1>0, <1>3, <2>2, <2>3, MoveKinds
<1>4. ASSUME NEW s \in c, ~Stays(s), s # r PROVE FALSE
  <2>1. role'[r] = role[r]
    BY <1>0, <1>4, MoveKinds
  <2>2. role'[s].moved = writes + 1
    BY <1>0, <1>4, RoleStep
  <2> QED  BY <1>0, <2>1, <2>2
<1> QED  BY <1>2, <1>3, <1>4

LEMMA HierarchyStep ==
  ASSUME HierarchyInv, [Next]_vars
  PROVE  HierarchyInv'
<1>1. TypeOK' /\ Bounded' /\ Numbered' /\ Rooted'
  BY TypeStep, NumberedStep, RootedStep DEF HierarchyInv
<1>2. ASSUME NEW w \in Worker PROVE Aimed(w)' /\ Descent(w)'
  BY AimedStep, DescentStep DEF HierarchyInv
<1> QED  BY <1>1, <1>2, RaceStep DEF HierarchyInv

LEMMA TypeInit ==
  ASSUME Init
  PROVE  TypeOK
<1>1. PICK parent \in Hierarchies :
        role = [r \in Role |->
          [state |-> IF r \in DOMAIN parent THEN "live" ELSE "absent",
           parent |-> IF r \in DOMAIN parent THEN parent[r] ELSE NoRole,
           saved |-> 0, moved |-> 0, checked |-> 0, validated |-> TRUE]]
  BY DEF Init
<1>2. role \in [Role -> RoleRow]
  <2>1. \A r \in DOMAIN parent : parent[r] \in Role \cup {NoRole}
    BY <1>1
  <2> QED  BY <1>1, <2>1 DEF RoleRow
<1>3. policy \in [Policy -> PolicyRow]
  BY DEF Init, PolicyRow
<1>4. held \in [Role -> Assignment] /\ \A r \in Role : held[r].state # "expired"
  BY DEF Init, Assignment
<1>5. work \in [Worker -> Work] /\ writes \in 0 .. MaxWrites
  BY IdleType DEF Init
<1> QED  BY <1>2, <1>3, <1>4, <1>5 DEF Init, TypeOK

\* There is no cycle to begin with.
LEMMA InitHierarchy ==
  ASSUME Init
  PROVE  HierarchyInv
<1>1. PICK parent \in Hierarchies :
        role = [r \in Role |->
          [state |-> IF r \in DOMAIN parent THEN "live" ELSE "absent",
           parent |-> IF r \in DOMAIN parent THEN parent[r] ELSE NoRole,
           saved |-> 0, moved |-> 0, checked |-> 0, validated |-> TRUE]]
  BY DEF Init
<1>2. /\ DOMAIN parent \subseteq Role /\ Cycles(parent) = {}
      /\ \A r \in DOMAIN parent : parent[r] \in DOMAIN parent \cup {NoRole}
  BY <1>1
<1>3. \A w \in Worker : work[w] = Idle
  BY DEF Init
<1>4. Bounded
  <2>1. Writers = {}
    BY <1>3 DEF Writers, Idle
  <2> QED  BY <2>1, FS_EmptySet DEF Bounded, Init
<1>5. Numbered
  <2>1. \A p \in Policy : policy[p].saved = 0
    BY DEF Init
  <2> QED  BY <1>1, <1>3, <2>1 DEF Numbered, Idle, Init
<1>6. Rooted
  BY <1>1, <1>2 DEF Rooted, Known
<1>7. \A w \in Worker : Aimed(w) /\ Descent(w)
  BY <1>3 DEF Aimed, Descent, Idle
<1>8. Cycles(Parents) = {}
  <2> SUFFICES ASSUME NEW c \in Cycles(Parents) PROVE FALSE
    OBVIOUS
  <2>1. /\ c \in SUBSET Role /\ Upward(Parents, c)
        /\ \A d \in SUBSET c : Upward(Parents, d) => d = c
    BY DEF Cycles, Parents
  <2>2. \A r \in Role : Parents[r] = IF r \in DOMAIN parent THEN parent[r] ELSE NoRole
    BY <1>1 DEF Parents
  <2>3. c \in SUBSET DOMAIN parent
    BY <2>1, <2>2 DEF Upward
  <2>4. \A d \in SUBSET c : Upward(Parents, d) <=> Upward(parent, d)
    BY <2>1, <2>2, <2>3 DEF Upward
  <2>5. c \in Cycles(parent)
    BY <2>1, <2>3, <2>4 DEF Cycles
  <2> QED  BY <1>2, <2>5
<1> QED  BY <1>4, <1>5, <1>6, <1>7, <1>8, TypeInit DEF HierarchyInv, CyclesNeedARace

-----------------------------------------------------------------------------
(* Decisions.                                                               *)

LEMMA LeastNumber ==
  ASSUME NEW S \in SUBSET Nat, S # {}
  PROVE  \E m \in S : \A n \in S : m <= n
<1> DEFINE R == {p \in Nat \X Nat : p[1] < p[2]}
<1>1. IsWellFoundedOn(R, Nat)
  BY NatLessThanWellFounded DEF OpToRel
<1> HIDE DEF R
<1>2. PICK m \in S : \A n \in S : <<n, m>> \notin R
  BY <1>1, WFMin
<1>3. ASSUME NEW n \in S PROVE m <= n
  <2>1. <<n, m>> \notin R
    BY <1>2
  <2> QED  BY <2>1 DEF R
<1> QED  BY <1>3

LEMMA Reached ==
  ASSUME NEW n \in Nat, NEW m \in 0 .. n, NEW path \in [0 .. m -> Role],
         \A i \in 1 .. m : path[i] = role[path[i - 1]].parent
  PROVE  path[m] \in Reach(path[0], n)
<1>1. path[m] \in Role
  OBVIOUS
<1> QED  BY <1>1 DEF Reach

LEMMA ReachNothing ==
  ASSUME NEW r \in Role
  PROVE  Reach(r, 0) = {r}
<1> DEFINE path == [i \in 0 .. 0 |-> r]
<1>1. path \in [0 .. 0 -> Role] /\ path[0] = r
  OBVIOUS
<1>2. \A i \in 1 .. 0 : path[i] = role[path[i - 1]].parent
  OBVIOUS
<1> HIDE DEF path
<1>3. r \in Reach(r, 0)
  <2>1. 0 \in Nat /\ 0 \in 0 .. 0
    OBVIOUS
  <2>2. path[0] \in Reach(path[0], 0)
    BY <1>1, <1>2, <2>1, Reached
  <2> QED  BY <1>1, <2>2
<1>4. Reach(r, 0) \subseteq {r}
  BY DEF Reach
<1> QED  BY <1>3, <1>4

\* What is one parent further.
LEMMA ReachFurther ==
  ASSUME TypeOK, NEW r \in Role, NEW n \in Nat
  PROVE  Reach(r, n + 1) = Reach(r, n) \cup
           {s \in Role : \E q \in Reach(r, n) : role[q].parent = s}
<1>1. Reach(r, n) \subseteq Reach(r, n + 1)
  BY DEF Reach
<1>2. ASSUME NEW s \in Role, NEW q \in Reach(r, n), role[q].parent = s
      PROVE  s \in Reach(r, n + 1)
  <2>0. PICK m \in 0 .. n : \E path \in [0 .. m -> Role] :
          /\ path[0] = r /\ path[m] = q
          /\ \A i \in 1 .. m : path[i] = role[path[i - 1]].parent
    BY DEF Reach
  <2>1. PICK path \in [0 .. m -> Role] :
          /\ path[0] = r /\ path[m] = q
          /\ \A i \in 1 .. m : path[i] = role[path[i - 1]].parent
    BY <2>0
  <2> DEFINE longer == [i \in 0 .. m + 1 |-> IF i = m + 1 THEN s ELSE path[i]]
  <2>2. longer \in [0 .. m + 1 -> Role] /\ longer[0] = r /\ longer[m + 1] = s
    BY <2>1
  <2>3. ASSUME NEW i \in 1 .. m + 1 PROVE longer[i] = role[longer[i - 1]].parent
    BY <1>2, <2>1
  <2>4. n + 1 \in Nat /\ m + 1 \in 0 .. n + 1
    OBVIOUS
  <2> HIDE DEF longer
  <2>5. longer[m + 1] \in Reach(longer[0], n + 1)
    BY <2>2, <2>3, <2>4, Reached
  <2> QED  BY <2>2, <2>5
<1>3. ASSUME NEW s \in Reach(r, n + 1), s \notin Reach(r, n)
      PROVE  \E q \in Reach(r, n) : role[q].parent = s
  <2>0. PICK m \in 0 .. n + 1 : \E path \in [0 .. m -> Role] :
          /\ path[0] = r /\ path[m] = s
          /\ \A i \in 1 .. m : path[i] = role[path[i - 1]].parent
    BY DEF Reach
  <2>1. PICK path \in [0 .. m -> Role] :
          /\ path[0] = r /\ path[m] = s
          /\ \A i \in 1 .. m : path[i] = role[path[i - 1]].parent
    BY <2>0
  <2>2. m = n + 1
    <3>1. m \in 0 .. n => s \in Reach(r, n)
      BY <2>1, Reached
    <3> QED  BY <1>3, <3>1
  <2> DEFINE shorter == [i \in 0 .. n |-> path[i]]
  <2>3. /\ shorter \in [0 .. n -> Role] /\ shorter[0] = r /\ shorter[n] = path[n]
        /\ path[n] \in Role /\ role[path[n]].parent = s
    BY <2>1, <2>2
  <2>4. \A i \in 1 .. n : shorter[i] = role[shorter[i - 1]].parent
    BY <2>1, <2>2
  <2> HIDE DEF shorter
  <2>5. path[n] \in Reach(r, n)
    BY <2>3, <2>4, n \in 0 .. n, Reached
  <2> QED  BY <2>3, <2>5
<1> QED  BY <1>1, <1>2, <1>3 DEF Reach

\* No walk leaves a set that holds the parents of its roles.
LEMMA ReachStays ==
  ASSUME TypeOK, NEW r \in Role, NEW n \in Nat, NEW v, r \in v,
         \A s \in v : role[s].parent \in v \cup {NoRole}
  PROVE  Reach(r, n) \subseteq v
<1> SUFFICES ASSUME NEW m \in 0 .. n, NEW path \in [0 .. m -> Role], path[0] = r,
                    path[m] \notin v,
                    \A i \in 1 .. m : path[i] = role[path[i - 1]].parent
             PROVE  FALSE
  BY DEF Reach
<1> DEFINE Out == {i \in 0 .. m : path[i] \notin v}
<1>1. PICK i \in Out : \A j \in Out : i <= j
  <2>1. m \in Out /\ Out \in SUBSET Nat
    OBVIOUS
  <2> HIDE DEF Out
  <2> QED  BY <2>1, LeastNumber
<1>2. i # 0 /\ i \in 1 .. m /\ i - 1 \in 0 .. m
  OBVIOUS
<1>3. path[i - 1] \in v
  BY <1>1, <1>2
<1>4. path[i] = role[path[i - 1]].parent /\ path[i] \in Role
  BY <1>2
<1> QED  BY <1>1, <1>3, <1>4

LEMMA ReachMore ==
  ASSUME NEW r, NEW m \in Nat, NEW n \in Nat, m <= n
  PROVE  Reach(r, m) \subseteq Reach(r, n)
BY DEF Reach

LEMMA AscentBegins ==
  ASSUME TypeOK, NEW r \in Role
  PROVE  Ascent(r, {r}, role[r].parent)
<1>1. IsFiniteSet({r}) /\ Cardinality({r}) = 1
  BY FS_Singleton
<1>2. {r} = Reach(r, Cardinality({r}) - 1)
  BY <1>1, ReachNothing
<1>3. 1 <= Depth + 1
  OBVIOUS
<1> QED  BY <1>1, <1>2, <1>3 DEF Ascent

\* One role further up.
LEMMA AscentGoesOn ==
  ASSUME TypeOK, NEW r \in Role, NEW v, NEW next \in Role, Ascent(r, v, next),
         next \notin v, Cardinality(v) <= Depth
  PROVE  Ascent(r, v \cup {next}, role[next].parent)
<1>1. /\ IsFiniteSet(v \cup {next}) /\ Cardinality(v) \in Nat
      /\ Cardinality(v \cup {next}) = Cardinality(v) + 1
  BY FS_AddElement, FS_CardinalityType DEF Ascent
<1>2. Cardinality(v) # 0
  BY FS_EmptySet DEF Ascent
<1>3. Reach(r, Cardinality(v)) = v \cup {s \in Role : \E q \in v : role[q].parent = s}
  <2>1. Cardinality(v) - 1 \in Nat /\ (Cardinality(v) - 1) + 1 = Cardinality(v)
    BY <1>1, <1>2
  <2> QED  BY <2>1, ReachFurther DEF Ascent
<1>4. v \cup {next} = Reach(r, Cardinality(v))
  BY <1>3 DEF Ascent
<1>5. Cardinality(v \cup {next}) - 1 = Cardinality(v)
  BY <1>1
<1>6. v \cup {next} = Reach(r, Cardinality(v \cup {next}) - 1)
  BY <1>4, <1>5
<1>7. Cardinality(v \cup {next}) <= Depth + 1
  BY <1>1
<1>8. /\ r \in v \cup {next}
      /\ \A s \in v \cup {next} : role[s].parent \in (v \cup {next}) \cup {role[next].parent}
  BY DEF Ascent
<1> QED  BY <1>1, <1>6, <1>7, <1>8 DEF Ascent

\* A walk ends with all roles that are at most Depth parents above the first.
LEMMA AscentEnds ==
  ASSUME TypeOK, NEW r \in Role, NEW v, NEW next \in Role \cup {NoRole}, Ascent(r, v, next),
         next \in v \cup {NoRole} \/ ~(Cardinality(v) <= Depth)
  PROVE  v = Reach(r, Depth)
<1>1. Cardinality(v) \in Nat /\ Cardinality(v) # 0
  BY FS_CardinalityType, FS_EmptySet DEF Ascent
<1>2. CASE ~(Cardinality(v) <= Depth)
  <2>1. Cardinality(v) - 1 = Depth
    BY <1>1, <1>2 DEF Ascent
  <2> QED  BY <2>1 DEF Ascent
<1>3. CASE next \in v \cup {NoRole} /\ Cardinality(v) <= Depth
  <2>1. Reach(r, Depth) \subseteq v
    BY <1>3, ReachStays DEF Ascent
  <2>2. Cardinality(v) - 1 \in Nat /\ Cardinality(v) - 1 <= Depth
    BY <1>1, <1>3
  <2>3. v \subseteq Reach(r, Depth)
    BY <2>2, ReachMore DEF Ascent
  <2> QED  BY <2>1, <2>3
<1> QED  BY <1>2, <1>3

\* The policies that deny are read first.
LEMMA DenyResults ==
  ASSUME TypeOK, NEW w \in Worker, CheckDeny(w)
  PROVE  /\ UNCHANGED Rows
         /\ \/ work'[w] = Idle
            \/ /\ Done(w)' /\ work'[w].flag = FALSE /\ \E p \in Policy : Matches(p, "deny")
            \/ /\ work'[w].at = "roles" /\ work'[w].visited = work[w].visited
               /\ \A p \in Policy : ~Matches(p, "deny")
<1>0. work[w] \in Work /\ work \in [Worker -> Work]
  BY DEF TypeOK
<1>1. CASE (\E p \in Policy : Matches(p, "deny")) /\ Decide(w, "deny" = "allow")
  <2>1. work'[w] = [Idle EXCEPT !.at = "done", !.since = work[w].since, !.flag = FALSE]
    BY <1>0, <1>1 DEF Decide, Become
  <2> QED  BY <1>1, <2>1 DEF Idle, Done, CheckDeny, Rows
<1>2. CASE Stop(w)
  BY <1>0, <1>2 DEF Stop, Become, CheckDeny, Rows
<1>3. CASE /\ \A p \in Policy : ~Matches(p, "deny")
           /\ Become(w, [work[w] EXCEPT !.at = "roles"])
  <2>1. work'[w] = [work[w] EXCEPT !.at = "roles"]
    BY <1>0, <1>3 DEF Become
  <2>2. work'[w].at = "roles" /\ work'[w].visited = work[w].visited
    BY <1>0, <2>1 DEF Work
  <2> QED  BY <1>3, <2>2 DEF CheckDeny, Rows
<1> QED  BY <1>1, <1>2, <1>3 DEF CheckDeny, ReadPolicies

LEMMA UndeniedStep ==
  ASSUME TypeOK, Numbered, [Next]_vars, NEW w \in Worker, Undenied(w)
  PROVE  Undenied(w)'
<1>0. /\ writes \in Nat /\ work[w] \in Work
      /\ work[w].since \in Nat /\ work[w].since <= writes
  BY HeldNumbers DEF TypeOK, Numbered
<1>1. ASSUME NEW p \in Policy, Matches(p, "deny")'
      PROVE  policy'[p].saved > writes \/ (Matches(p, "deny") /\ policy'[p] = policy[p])
  BY <1>0, <1>1, PolicyStep DEF Matches, Selected
<1>2. \A p \in Policy : policy'[p].saved \in Nat
  BY RowTypes DEF PolicyRow
<1> SUFFICES ASSUME work'[w].at \in {"roles", "walk", "allow"} \/ (Done(w)' /\ work'[w].flag),
                    NEW p \in Policy, Matches(p, "deny")'
             PROVE  policy'[p].saved > work'[w].since
  BY DEF Undenied, Done
<1>3. CASE work'[w] = work[w]
  <2>1. Matches(p, "deny") => policy[p].saved > work[w].since
    BY <1>3 DEF Undenied, Done
  <2> QED  BY <1>0, <1>1, <1>2, <1>3, <2>1
<1>4. CASE Request(w)
  BY <1>4, RequestResults DEF Done
<1>5. CASE Step(w)
  <2>1. /\ work[w].at \in {"deny", "roles", "walk", "allow"}
        /\ work'[w].since = work[w].since /\ UNCHANGED Rows
    BY <1>5, StepResults DEF Done, Idle
  <2>2. Matches(p, "deny")
    BY <2>1 DEF Matches, Selected, Rows
  <2>3. CASE work[w].at = "deny"
    <3>1. CheckDeny(w)
      BY <1>5, <2>3 DEF Step, Descend, Validate, SaveRole, Renew, Assign, ReadRoles, Ascend,
         CheckRole, NextRole, CheckAllow, Answer
    <3>2. CASE work'[w] = Idle
      BY <3>2 DEF Done, Idle
    <3>3. CASE Done(w)' /\ work'[w].flag = FALSE
      BY <3>3 DEF Done
    <3> QED  BY <2>2, <3>1, <3>2, <3>3, DenyResults
  <2>4. CASE work[w].at # "deny"
    BY <2>1, <2>2, <2>4 DEF Undenied, Rows
  <2> QED  BY <2>3, <2>4
<1> QED  BY <1>3, <1>4, <1>5, Whose

LEMMA SameRows ==
  ASSUME UNCHANGED Rows
  PROVE  /\ Held' = Held
         /\ \A r \in Role : Gives(r)' <=> Gives(r)
         /\ Allowed' <=> Allowed
         /\ \A r, v, next : Ascent(r, v, next)' <=> Ascent(r, v, next)
<1>1. ASSUME NEW r, NEW n PROVE Reach(r, n)' = Reach(r, n)
  BY DEF Reach, Rows
<1>2. Held' = Held
  BY DEF Held, Rows
<1>3. ASSUME NEW r \in Role PROVE Gives(r)' <=> Gives(r)
  BY <1>1 DEF Gives, Rows
<1>4. Granted' <=> Granted
  BY <1>1 DEF Granted, Rows
<1>5. ASSUME NEW p \in Policy, NEW effect PROVE Matches(p, effect)' <=> Matches(p, effect)
  BY DEF Matches, Selected, Rows
<1>6. Allowed' <=> Allowed
  BY <1>4, <1>5 DEF Allowed
<1>7. ASSUME NEW r, NEW v, NEW next PROVE Ascent(r, v, next)' <=> Ascent(r, v, next)
  BY <1>1 DEF Ascent, Rows
<1> QED  BY <1>2, <1>3, <1>6, <1>7

\* What a request is after each step of a check.
LEMMA ReadRolesResults ==
  ASSUME TypeOK, NEW w \in Worker, ReadRoles(w)
  PROVE  /\ work'[w].at = "walk" /\ work'[w].visited = work[w].visited
         /\ work'[w].todo = {<<r, role[r].parent>> : r \in Held}
<1>1. work[w] \in Work /\ work \in [Worker -> Work]
  BY DEF TypeOK
<1>2. work'[w] = [work[w] EXCEPT !.at = "walk", !.todo = {<<r, role[r].parent>> : r \in Held}]
  BY <1>1 DEF ReadRoles, Become, Held
<1> HIDE DEF Held
<1> QED  BY <1>1, <1>2 DEF Work

LEMMA AscendResults ==
  ASSUME TypeOK, NEW w \in Worker, Ascend(w)
  PROVE  /\ work[w].at = "walk" /\ work'[w].at = "walk" /\ work'[w].todo = work[w].todo
         /\ work'[w].visited = work[w].visited \cup {work[w].next}
         /\ work'[w].next = role[work[w].next].parent
<1>1. work[w] \in Work /\ work \in [Worker -> Work]
  BY DEF TypeOK
<1>2. work'[w] = [work[w] EXCEPT !.visited = work[w].visited \cup {work[w].next},
                                 !.next = role[work[w].next].parent]
  BY <1>1 DEF Ascend, Become
<1> QED  BY <1>1, <1>2 DEF Work, Ascend

LEMMA DecideResults ==
  ASSUME TypeOK, NEW w \in Worker, NEW allowed \in BOOLEAN, Decide(w, allowed)
  PROVE  work'[w].at = "done" /\ work'[w].flag = allowed
BY DEF Decide, Become, TypeOK, Idle

LEMMA CheckRoleResults ==
  ASSUME TypeOK, NEW w \in Worker, CheckRole(w)
  PROVE  \/ /\ permission /\ work[w].visited \cap granting # {}
            /\ work'[w].at = "done" /\ work'[w].flag = TRUE
         \/ /\ ~(permission /\ work[w].visited \cap granting # {})
            /\ work'[w].at = "walk" /\ work'[w].todo = work[w].todo /\ work'[w].visited = {}
<1>1. work[w] \in Work /\ work \in [Worker -> Work]
  BY DEF TypeOK
<1>2. CASE permission /\ work[w].visited \cap granting # {}
  BY <1>2, DecideResults DEF CheckRole
<1>3. CASE ~(permission /\ work[w].visited \cap granting # {})
  <2>1. work'[w] = [work[w] EXCEPT !.visited = {}, !.next = NoRole]
    BY <1>1, <1>3 DEF CheckRole, Become
  <2> QED  BY <1>1, <1>3, <2>1 DEF Work, CheckRole
<1> QED  BY <1>2, <1>3

LEMMA NextRoleResults ==
  ASSUME TypeOK, NEW w \in Worker, NextRole(w)
  PROVE  \/ work[w].todo = {} /\ work'[w].at = "allow"
         \/ \E t \in work[w].todo :
              /\ work'[w].at = "walk" /\ work'[w].todo = work[w].todo \ {t}
              /\ work'[w].visited = {t[1]} /\ work'[w].next = t[2]
<1>1. work[w] \in Work /\ work \in [Worker -> Work]
  BY DEF TypeOK
<1>2. CASE work[w].todo = {}
  <2>1. work'[w] = [work[w] EXCEPT !.at = "allow"]
    BY <1>1, <1>2 DEF NextRole, Become
  <2> QED  BY <1>1, <1>2, <2>1 DEF Work
<1>3. CASE work[w].todo # {}
  <2>1. PICK t \in work[w].todo :
          work'[w] = [work[w] EXCEPT !.visited = {t[1]}, !.next = t[2],
                                     !.todo = work[w].todo \ {t}]
    BY <1>1, <1>3 DEF NextRole, Become
  <2>2. /\ work'[w].at = work[w].at /\ work'[w].todo = work[w].todo \ {t}
        /\ work'[w].visited = {t[1]} /\ work'[w].next = t[2]
    BY <1>1, <2>1 DEF Work
  <2> QED  BY <2>2 DEF NextRole
<1> QED  BY <1>2, <1>3

LEMMA CheckAllowResults ==
  ASSUME TypeOK, NEW w \in Worker, CheckAllow(w)
  PROVE  \/ work'[w] = Idle
         \/ /\ work'[w].at = "done" /\ work'[w].flag = TRUE
            /\ \E p \in Policy : Matches(p, "allow")
         \/ /\ work'[w].at = "done" /\ work'[w].flag = FALSE
            /\ ~\E p \in Policy : Matches(p, "allow")
<1>1. CASE (\E p \in Policy : Matches(p, "allow")) /\ Decide(w, "allow" = "allow")
  BY <1>1, DecideResults
<1>2. CASE Stop(w)
  BY <1>2 DEF Stop, Become, TypeOK
<1>3. CASE (\A p \in Policy : ~Matches(p, "allow")) /\ Decide(w, FALSE)
  BY <1>3, DecideResults
<1> QED  BY <1>1, <1>2, <1>3 DEF CheckAllow, ReadPolicies

\* A check of which every query so far saw the rows as they are.
LEMMA QuietStep ==
  ASSUME TypeOK, Numbered, [Next]_vars, NEW w \in Worker, Undenied(w), Quiet(w)
  PROVE  Quiet(w)'
<1> SUFFICES ASSUME work'[w].since = writes' PROVE QuietCheck(w)'
  BY DEF Quiet
<1>0. /\ work[w] \in Work /\ writes \in Nat /\ writes' \in {writes, writes + 1}
      /\ work[w].since \in Nat /\ work[w].since <= writes
  BY HeldNumbers, WritesGrow DEF TypeOK, Numbered
<1>1. CASE work'[w].at \in {"idle", "descend", "save", "assign"}
  BY <1>1 DEF QuietCheck, Done
<1>2. CASE work'[w] = work[w]
  <2>1. UNCHANGED Rows /\ work[w].since = writes
    BY <1>0, <1>2, WritesGrow
  <2>2. QuietCheck(w)
    BY <2>1 DEF Quiet
  <2>3. role' = role
    BY <2>1 DEF Rows
  <2>4. /\ Held' = Held /\ Held \subseteq Role /\ \A r \in Role : Gives(r)' <=> Gives(r)
        /\ \A r, v, next : Ascent(r, v, next)' <=> Ascent(r, v, next)
    BY <2>1, SameRows DEF Held
  <2>5. CASE work[w].at = "walk"
    <3>1. /\ work[w].todo \subseteq {<<r, role[r].parent>> : r \in Held}
          /\ work[w].visited = {} =>
               \A r \in Held : <<r, role[r].parent>> \in work[w].todo \/ ~Gives(r)
      BY <2>2, <2>5 DEF QuietCheck
    <3>2. CASE work[w].visited # {}
      <4>1. PICK cur \in Held :
              /\ Ascent(cur, work[w].visited, work[w].next)
              /\ \A r \in Held \ {cur} : <<r, role[r].parent>> \in work[w].todo \/ ~Gives(r)
        BY <2>2, <2>5, <3>2 DEF QuietCheck
      <4>2. cur \in Held' /\ Ascent(cur, work[w].visited, work[w].next)'
        BY <1>2, <2>4, <4>1
      <4>3. \A r \in Held' \ {cur} : <<r, role'[r].parent>> \in work'[w].todo \/ ~Gives(r)'
        BY <1>2, <2>3, <2>4, <4>1
      <4>4. work'[w].todo \subseteq {<<r, role'[r].parent>> : r \in Held'}
        BY <1>2, <2>3, <2>4, <3>1
      <4> QED  BY <1>2, <2>5, <3>2, <4>2, <4>3, <4>4 DEF QuietCheck, Done
    <3>3. CASE work[w].visited = {}
      <4>1. \A r \in Held' : <<r, role'[r].parent>> \in work'[w].todo \/ ~Gives(r)'
        BY <1>2, <2>3, <2>4, <3>1, <3>3
      <4>2. work'[w].todo \subseteq {<<r, role'[r].parent>> : r \in Held'}
        BY <1>2, <2>3, <2>4, <3>1
      <4> QED  BY <1>2, <2>5, <3>3, <4>1, <4>2 DEF QuietCheck, Done
    <3> QED  BY <3>2, <3>3
  <2>6. CASE work[w].at = "allow"
    BY <1>2, <2>2, <2>4, <2>6 DEF QuietCheck, Done
  <2>7. CASE work[w].at = "done"
    <3>1. work[w].flag = Allowed
      BY <2>2, <2>7 DEF QuietCheck, Done
    <3>2. Allowed' = Allowed
      BY <2>1, SameRows DEF Allowed
    <3> QED  BY <1>2, <2>7, <3>1, <3>2 DEF QuietCheck, Done
  <2> QED  BY <1>2, <2>2, <2>5, <2>6, <2>7 DEF QuietCheck, Done
<1>3. CASE Request(w)
  BY <1>1, <1>3, RequestResults DEF QuietCheck, Done
<1>4. CASE Step(w) /\ work'[w].at \in {"deny", "roles", "walk", "allow", "done"}
  <2>1. /\ UNCHANGED Rows /\ work[w].since = writes
        /\ work[w].at \in {"deny", "roles", "walk", "allow"}
    BY <1>4, StepResults DEF Idle, Rows
  <2>2. QuietCheck(w)
    BY <2>1 DEF Quiet
  <2>3. ASSUME work[w].at # "deny" PROVE ~\E p \in Policy : Matches(p, "deny")
    <3> SUFFICES ASSUME NEW p \in Policy, Matches(p, "deny") PROVE FALSE
      OBVIOUS
    <3>1. policy[p].saved \in Nat /\ policy[p].saved <= writes
      BY DEF TypeOK, PolicyRow, Numbered
    <3> QED  BY <1>0, <2>1, <2>3, <3>1 DEF Undenied
  <2>4. role' = role
    BY <2>1 DEF Rows
  <2>5. CASE CheckDeny(w)
    <3>1. work[w].visited = {}
      BY <2>2, <2>5 DEF QuietCheck, CheckDeny
    <3>2. CASE work'[w] = Idle
      BY <3>2 DEF Idle, QuietCheck, Done
    <3>3. CASE Done(w)' /\ work'[w].flag = FALSE /\ \E p \in Policy : Matches(p, "deny")
      <4>1. ~Allowed'
        BY <2>1, <3>3, SameRows DEF Allowed
      <4>2. Allowed' = FALSE
        BY <4>1 DEF Allowed
      <4> QED  BY <3>3, <4>2 DEF QuietCheck, Done
    <3>4. CASE work'[w].at = "roles" /\ work'[w].visited = work[w].visited
      BY <3>1, <3>4 DEF QuietCheck, Done
    <3> QED  BY <2>5, <3>2, <3>3, <3>4, DenyResults
  <2>6. CASE ReadRoles(w)
    <3>1. work[w].visited = {}
      BY <2>2, <2>6 DEF QuietCheck, ReadRoles
    <3> HIDE DEF Held
    <3> QED  BY <2>1, <2>4, <2>6, <3>1, ReadRolesResults, SameRows DEF QuietCheck, Done
  <2>7. CASE NextRole(w)
    <3>1. /\ work[w].todo \subseteq {<<r, role[r].parent>> : r \in Held}
          /\ \A r \in Held : <<r, role[r].parent>> \in work[w].todo \/ ~Gives(r)
      BY <2>2, <2>7 DEF QuietCheck, NextRole
    <3>2. CASE work[w].todo = {} /\ work'[w].at = "allow"
      <4>1. \A r \in Held : r \in Role /\ ~Gives(r)
        BY <3>1, <3>2 DEF Held
      <4> QED  BY <2>1, <3>2, <4>1, SameRows DEF QuietCheck, Done
    <3>3. CASE \E t \in work[w].todo :
                 /\ work'[w].at = "walk" /\ work'[w].todo = work[w].todo \ {t}
                 /\ work'[w].visited = {t[1]} /\ work'[w].next = t[2]
      <4>1. PICK cur \in Held :
              /\ work'[w].at = "walk" /\ work'[w].todo = work[w].todo \ {<<cur, role[cur].parent>>}
              /\ work'[w].visited = {cur} /\ work'[w].next = role[cur].parent
        BY <3>1, <3>3
      <4>2. Ascent(cur, {cur}, role[cur].parent) /\ Held \subseteq Role
        BY AscentBegins DEF Held
      <4>3. \A r \in Held \ {cur} :
              <<r, role[r].parent>> \in work'[w].todo \/ ~Gives(r)
        BY <3>1, <4>1
      <4>4. cur \in Held' /\ Ascent(cur, work[w].visited, work[w].next)'
        BY <2>1, <2>4, <4>1, <4>2, SameRows
      <4>5. \A r \in Held' \ {cur} :
              <<r, role'[r].parent>> \in work'[w].todo \/ ~Gives(r)'
        BY <2>1, <2>4, <4>2, <4>3, SameRows
      <4>6. work'[w].todo \subseteq {<<r, role'[r].parent>> : r \in Held'}
        BY <2>1, <2>4, <3>1, <4>1, SameRows
      <4> QED  BY <4>1, <4>4, <4>5, <4>6 DEF QuietCheck, Done
    <3> QED  BY <2>7, <3>2, <3>3, NextRoleResults
  <2>8. CASE Ascend(w) \/ CheckRole(w)
    <3>1. PICK cur \in Held :
            /\ Ascent(cur, work[w].visited, work[w].next)
            /\ \A r \in Held \ {cur} : <<r, role[r].parent>> \in work[w].todo \/ ~Gives(r)
      BY <2>2, <2>8 DEF QuietCheck, Ascend, CheckRole
    <3>2. /\ work[w].todo \subseteq {<<r, role[r].parent>> : r \in Held}
          /\ cur \in Role /\ Held \subseteq Role
      BY <2>2, <2>8 DEF QuietCheck, Ascend, CheckRole, Held
    <3>3. CASE Ascend(w)
      <4>1. /\ work'[w].at = "walk" /\ work'[w].todo = work[w].todo
            /\ work'[w].visited = work[w].visited \cup {work[w].next}
            /\ work'[w].next = role[work[w].next].parent
        BY <3>3, AscendResults
      <4>2. Ascent(cur, work'[w].visited, work'[w].next)
        BY <1>0, <3>1, <3>2, <3>3, <4>1, AscentGoesOn DEF Ascend, More, Work
      <4>3. cur \in Held' /\ \A r \in Held' \ {cur} :
              <<r, role'[r].parent>> \in work'[w].todo \/ ~Gives(r)'
        BY <2>1, <2>4, <3>1, <3>2, <4>1, SameRows
      <4>4. work'[w].todo \subseteq {<<r, role'[r].parent>> : r \in Held'}
        BY <2>1, <2>4, <3>2, <4>1, SameRows
      <4>5. Ascent(cur, work[w].visited, work[w].next)'
        BY <2>1, <4>2, SameRows
      <4> QED  BY <4>1, <4>3, <4>4, <4>5 DEF QuietCheck, Done
    <3>4. CASE CheckRole(w)
      <4>1. work[w].visited = Reach(cur, Depth)
        BY <1>0, <3>1, <3>2, <3>4, AscentEnds DEF CheckRole, More, Work
      <4>2. CASE /\ permission /\ work[w].visited \cap granting # {}
                 /\ work'[w].at = "done" /\ work'[w].flag = TRUE
        <5>1. work[w].at # "deny"
          BY <3>4 DEF CheckRole
        <5>2. Granted
          BY <3>1, <4>1, <4>2 DEF Granted, Held
        <5>3. Allowed'
          BY <2>1, <2>3, <5>1, <5>2, SameRows DEF Allowed
        <5> QED  BY <4>2, <5>3 DEF QuietCheck, Done
      <4>3. CASE /\ ~(permission /\ work[w].visited \cap granting # {})
                 /\ work'[w].at = "walk" /\ work'[w].todo = work[w].todo /\ work'[w].visited = {}
        <5>1. ~Gives(cur)
          BY <4>1, <4>3 DEF Gives
        <5>2. \A r \in Held' : <<r, role'[r].parent>> \in work'[w].todo \/ ~Gives(r)'
          BY <2>1, <2>4, <3>1, <3>2, <4>3, <5>1, SameRows
        <5>3. work'[w].todo \subseteq {<<r, role'[r].parent>> : r \in Held'}
          BY <2>1, <2>4, <3>2, <4>3, SameRows
        <5> QED  BY <4>3, <5>2, <5>3 DEF QuietCheck, Done
      <4> QED  BY <3>4, <4>2, <4>3, CheckRoleResults
    <3> QED  BY <2>8, <3>3, <3>4
  <2>9. CASE CheckAllow(w)
    <3>1. \A r \in Held : ~Gives(r)
      BY <2>2, <2>9 DEF QuietCheck, CheckAllow
    <3>2. ~Granted
      BY <3>1 DEF Granted, Held, Gives
    <3>3. ~\E p \in Policy : Matches(p, "deny")
      BY <2>3, <2>9 DEF CheckAllow
    <3>4. CASE work'[w] = Idle
      BY <3>4 DEF Idle, QuietCheck, Done
    <3>5. CASE /\ work'[w].at = "done" /\ work'[w].flag = TRUE
               /\ \E p \in Policy : Matches(p, "allow")
      <4>1. Allowed'
        BY <2>1, <3>3, <3>5, SameRows DEF Allowed
      <4> QED  BY <3>5, <4>1 DEF QuietCheck, Done
    <3>6. CASE /\ work'[w].at = "done" /\ work'[w].flag = FALSE
               /\ ~\E p \in Policy : Matches(p, "allow")
      <4>1. ~Allowed'
        BY <2>1, <3>2, <3>6, SameRows DEF Allowed
      <4>2. Allowed' = FALSE
        BY <4>1 DEF Allowed
      <4> QED  BY <3>6, <4>2 DEF QuietCheck, Done
    <3> QED  BY <2>9, <3>4, <3>5, <3>6, CheckAllowResults
  <2>10. CheckDeny(w) \/ ReadRoles(w) \/ NextRole(w) \/ Ascend(w) \/ CheckRole(w) \/ CheckAllow(w)
    BY <1>4, <2>1 DEF Step, Descend, Validate, SaveRole, Renew, Assign, Answer
  <2> QED  BY <2>5, <2>6, <2>7, <2>8, <2>9, <2>10
<1>5. work'[w].at \in {"idle", "descend", "save", "assign", "deny", "roles", "walk", "allow", "done"}
  BY WorkTypes DEF Work
<1> QED  BY <1>1, <1>2, <1>3, <1>4, <1>5, Whose

-----------------------------------------------------------------------------
LEMMA InitIInv == Init => IInv
<1> SUFFICES ASSUME Init PROVE IInv
  OBVIOUS
<1>1. \A w \in Worker : Undenied(w) /\ Quiet(w)
  BY DEF Init, Undenied, Quiet, QuietCheck, Done, Idle
<1> QED  BY <1>1, InitHierarchy DEF IInv

LEMMA StepIInv == IInv /\ [Next]_vars => IInv'
<1> SUFFICES ASSUME IInv, [Next]_vars PROVE IInv'
  OBVIOUS
<1>1. HierarchyInv' /\ TypeOK /\ Numbered
  BY HierarchyStep DEF IInv, HierarchyInv
<1>2. ASSUME NEW w \in Worker PROVE Undenied(w)' /\ Quiet(w)'
  BY <1>1, UndeniedStep, QuietStep DEF IInv
<1> QED  BY <1>1, <1>2 DEF IInv

LEMMA Invariance == Spec => []IInv
BY InitIInv, StepIInv, PTL DEF Spec

\* Every row, and whatever a request keeps of what it has read, has its type, and no
\* request that may write is left without a number for its write.
THEOREM TypeCorrect == Spec => []TypeOK
<1>1. IInv => TypeOK
  BY DEF IInv, HierarchyInv
<1> QED  BY <1>1, Invariance, PTL

\* AuthorizationChecker.check(): the answer of a check during which nothing was
\* written is the documented one, however deep the hierarchy is, however many roles
\* the principal has, and whatever cycles and deleted roles the walks met.
THEOREM QuietDecisions == Spec => []QuietDecisionIsRight
<1>1. IInv => QuietDecisionIsRight
  BY DEF IInv, Quiet, QuietCheck, QuietDecisionIsRight
<1> QED  BY <1>1, Invariance, PTL

\* AuthorizationChecker.check(): no writes of others between the queries of a check
\* make it overrule a policy that has denied the action since before it began.
THEOREM DenialsHold == Spec => []DenyIsRespected
<1>1. IInv => DenyIsRespected
  <2> SUFFICES ASSUME IInv, NEW w \in Worker, Done(w) /\ work[w].flag,
                      NEW p \in Policy, Matches(p, "deny")
               PROVE  policy[p].saved > work[w].since
    BY DEF DenyIsRespected
  <2> QED  BY DEF IInv, Undenied
<1> QED  BY <1>1, Invariance, PTL

\* RoleService._validate_no_cycle(): moves of roles, creations, deletions and edits of
\* the admin, in any number and order, close a cycle only by an edit of the admin or
\* when two of them overlap.
THEOREM CyclesTakeARace == Spec => []CyclesNeedARace
<1>1. IInv => CyclesNeedARace
  BY DEF IInv, HierarchyInv
<1> QED  BY <1>1, Invariance, PTL

-----------------------------------------------------------------------------
(* How far a request is from its end, when there are finitely many roles:   *)
(* none of its queries leads it round a cycle, and no write of another      *)
(* request makes it longer.                                                 *)

\* The provers meet multiplication in lemma Rounds alone.
Times(a, b) == a * b

\* The steps that a request at k has left at most.  A walk down takes a step for each
\* role not yet visited and each in the queue, one up Depth + 3 for an assignment.
Left(k) ==
  CASE k.at = "idle" -> 0
    [] k.at \in {"save", "assign", "done"} -> 1
    [] k.at = "allow" -> 2
    [] k.at = "descend" ->
         2 + Times(Cardinality(Role \ k.visited), Cardinality(Role) + 1) + Cardinality(k.queue)
    [] k.at = "walk" ->
         3 + Times(Cardinality(k.todo), Depth + 3)
           + (IF k.visited = {} THEN 0 ELSE Depth + 3 - Cardinality(k.visited))
    [] k.at = "roles" -> 4 + Times(Cardinality(Role), Depth + 3)
    [] k.at = "deny" -> 5 + Times(Cardinality(Role), Depth + 3)

\* A walk up begins with nothing visited and goes no further than Depth.
Walked(k) ==
  /\ k.at \in {"deny", "roles"} => k.visited = {}
  /\ k.at = "walk" => Cardinality(k.visited) <= Depth + 1

LEMMA LeftAt ==
  ASSUME NEW k
  PROVE  /\ k.at = "idle" => Left(k) = 0
         /\ k.at \in {"save", "assign", "done"} => Left(k) = 1
         /\ k.at = "allow" => Left(k) = 2
         /\ k.at = "descend" =>
              Left(k) = 2 + Times(Cardinality(Role \ k.visited), Cardinality(Role) + 1)
                          + Cardinality(k.queue)
         /\ k.at = "walk" /\ k.visited = {} =>
              Left(k) = 3 + Times(Cardinality(k.todo), Depth + 3) + 0
         /\ k.at = "walk" /\ k.visited # {} =>
              Left(k) = 3 + Times(Cardinality(k.todo), Depth + 3)
                          + (Depth + 3 - Cardinality(k.visited))
         /\ k.at = "roles" => Left(k) = 4 + Times(Cardinality(Role), Depth + 3)
         /\ k.at = "deny" => Left(k) = 5 + Times(Cardinality(Role), Depth + 3)
BY DEF Left

LEMMA Rounds ==
  ASSUME NEW a \in Nat, NEW b \in Nat, NEW n \in Nat
  PROVE  /\ Times(a, n) \in Nat
         /\ Times(a + 1, n) = Times(a, n) + n
         /\ a <= b => Times(a, n) <= Times(b, n)
BY DEF Times

LEMMA FiniteParts ==
  ASSUME IsFiniteSet(Role), NEW k \in Work
  PROVE  /\ Cardinality(Role) \in Nat
         /\ IsFiniteSet(k.visited) /\ Cardinality(k.visited) \in Nat
         /\ IsFiniteSet(Role \ k.visited) /\ Cardinality(Role \ k.visited) \in Nat
         /\ IsFiniteSet(k.queue) /\ Cardinality(k.queue) \in Nat
         /\ Cardinality(k.queue) <= Cardinality(Role)
         /\ IsFiniteSet(k.todo) /\ Cardinality(k.todo) \in Nat
<1>1. /\ k.visited \in SUBSET Role /\ Role \ k.visited \in SUBSET Role
      /\ k.queue \in SUBSET Role /\ k.todo \in SUBSET (Role \X (Role \cup {NoRole}))
  BY DEF Work
<1>2. IsFiniteSet(Role \X (Role \cup {NoRole}))
  BY FS_AddElement, FS_Product
<1>3. /\ IsFiniteSet(k.visited) /\ IsFiniteSet(Role \ k.visited)
      /\ IsFiniteSet(k.queue) /\ Cardinality(k.queue) <= Cardinality(Role)
  BY <1>1, FS_Subset
<1>4. IsFiniteSet(k.todo)
  BY <1>1, <1>2, FS_Subset
<1> QED  BY <1>3, <1>4, FS_CardinalityType

LEMMA LeftIsNumber ==
  ASSUME IsFiniteSet(Role), NEW k \in Work, Walked(k)
  PROVE  Left(k) \in Nat
<1>1. /\ Times(Cardinality(Role \ k.visited), Cardinality(Role) + 1) \in Nat
      /\ Times(Cardinality(k.todo), Depth + 3) \in Nat
      /\ Times(Cardinality(Role), Depth + 3) \in Nat
      /\ Cardinality(k.queue) \in Nat /\ Cardinality(k.visited) \in Nat
  <2>1. /\ Cardinality(Role \ k.visited) \in Nat /\ Cardinality(k.todo) \in Nat
        /\ Cardinality(Role) \in Nat
        /\ Cardinality(k.queue) \in Nat /\ Cardinality(k.visited) \in Nat
    BY FiniteParts
  <2>2. Depth + 3 \in Nat /\ Cardinality(Role) + 1 \in Nat
    BY <2>1
  <2> QED  BY <2>1, <2>2, Rounds
<1>2. k.at \in {"idle", "descend", "save", "assign", "deny", "roles", "walk", "allow", "done"}
  BY DEF Work
<1>3. CASE k.at \in {"idle", "save", "assign", "done", "allow"}
  <2>1. Left(k) = 0 \/ Left(k) = 1 \/ Left(k) = 2
    BY <1>3, LeftAt
  <2> QED  BY <2>1
<1>4. CASE k.at \in {"roles", "deny"}
  BY <1>1, <1>4, LeftAt
<1>5. CASE k.at = "descend"
  BY <1>1, <1>5, LeftAt
<1>6. CASE k.at = "walk"
  BY <1>1, <1>6, LeftAt DEF Walked
<1> QED  BY <1>2, <1>3, <1>4, <1>5, <1>6

LEMMA LeftPositive ==
  ASSUME IsFiniteSet(Role), NEW k \in Work, Walked(k), k.at # "idle"
  PROVE  Left(k) # 0 /\ (k.at = "descend" => Left(k) >= 2)
<1>1. /\ Cardinality(Role \ k.visited) \in Nat /\ Cardinality(k.todo) \in Nat
      /\ Cardinality(Role) \in Nat
      /\ Cardinality(k.queue) \in Nat /\ Cardinality(k.visited) \in Nat
  BY FiniteParts
<1>2. Depth + 3 \in Nat /\ Cardinality(Role) + 1 \in Nat
  BY <1>1
<1>3. /\ Times(Cardinality(Role \ k.visited), Cardinality(Role) + 1) \in Nat
      /\ Times(Cardinality(k.todo), Depth + 3) \in Nat
      /\ Times(Cardinality(Role), Depth + 3) \in Nat
  BY <1>1, <1>2, Rounds
<1>4. k.at \in {"descend", "save", "assign", "deny", "roles", "walk", "allow", "done"}
  BY DEF Work
<1>5. CASE k.at \in {"save", "assign", "done", "allow"}
  <2>1. Left(k) = 1 \/ Left(k) = 2
    BY <1>5, LeftAt
  <2> QED  BY <1>5, <2>1
<1>6. CASE k.at \in {"roles", "deny"}
  <2>1. \/ Left(k) = 4 + Times(Cardinality(Role), Depth + 3)
        \/ Left(k) = 5 + Times(Cardinality(Role), Depth + 3)
    BY <1>6, LeftAt
  <2> QED  BY <1>3, <1>6, <2>1
<1>7. CASE k.at = "descend"
  <2>1. Left(k) = 2 + Times(Cardinality(Role \ k.visited), Cardinality(Role) + 1)
                    + Cardinality(k.queue)
    BY <1>7, LeftAt
  <2> QED  BY <1>1, <1>3, <2>1
<1>8. CASE k.at = "walk"
  <2>1. \/ Left(k) = 3 + Times(Cardinality(k.todo), Depth + 3) + 0
        \/ Left(k) = 3 + Times(Cardinality(k.todo), Depth + 3)
                      + (Depth + 3 - Cardinality(k.visited))
    BY <1>8, LeftAt
  <2>2. Cardinality(k.visited) <= Depth + 1
    BY <1>8 DEF Walked
  <2> QED  BY <1>1, <1>3, <1>8, <2>1, <2>2
<1> QED  BY <1>4, <1>5, <1>6, <1>7, <1>8

\* get_descendants(): a role is expanded once, whatever cycles there are.
LEMMA DescendShrinks ==
  ASSUME IsFiniteSet(Role), NEW k \in Work, NEW m \in Work, k.at = "descend", m.at = "descend",
         NEW r \in k.queue, NEW new \in SUBSET Role,
         m.visited = k.visited \cup {r},
         m.queue = (k.queue \ {r}) \cup (IF r \in k.visited THEN {} ELSE new)
  PROVE  Left(m) < Left(k)
<1> DEFINE rest == Cardinality(Role \ m.visited)
           size == Cardinality(Role) + 1
<1>0. /\ rest \in Nat /\ size \in Nat /\ r \in Role
      /\ IsFiniteSet(k.queue) /\ IsFiniteSet(Role \ k.visited)
      /\ Cardinality(Role \ k.visited) \in Nat
      /\ Cardinality(k.queue) \in Nat /\ Cardinality(m.queue) \in Nat
      /\ Cardinality(m.queue) < size
  <2>1. /\ rest \in Nat /\ Cardinality(Role) \in Nat
        /\ IsFiniteSet(k.queue) /\ IsFiniteSet(Role \ k.visited)
        /\ Cardinality(Role \ k.visited) \in Nat
        /\ Cardinality(k.queue) \in Nat /\ Cardinality(m.queue) \in Nat
        /\ Cardinality(m.queue) <= Cardinality(Role)
    BY FiniteParts
  <2>2. r \in Role
    BY DEF Work
  <2> QED  BY <2>1, <2>2
<1>1. /\ Left(m) = 2 + Times(rest, size) + Cardinality(m.queue)
      /\ Left(k) = 2 + Times(Cardinality(Role \ k.visited), size) + Cardinality(k.queue)
  BY LeftAt
<1>2. CASE r \in k.visited
  <2>1. m.visited = k.visited /\ m.queue = k.queue \ {r}
    BY <1>2
  <2>2. Cardinality(m.queue) = Cardinality(k.queue) - 1
    <3>1. Cardinality(k.queue \ {r}) = Cardinality(k.queue) - 1
      BY <1>0, FS_RemoveElement
    <3> QED  BY <2>1, <3>1
  <2>3. Times(rest, size) \in Nat /\ Left(k) = 2 + Times(rest, size) + Cardinality(k.queue)
    BY <1>0, <1>1, <2>1, Rounds
  <2> HIDE DEF rest, size
  <2> QED  BY <1>0, <1>1, <2>2, <2>3
<1>3. CASE r \notin k.visited
  <2>1. Role \ m.visited = (Role \ k.visited) \ {r} /\ r \in Role \ k.visited
    BY <1>0, <1>3
  <2>2. Cardinality(Role \ k.visited) = rest + 1
    <3>1. Cardinality((Role \ k.visited) \ {r}) = Cardinality(Role \ k.visited) - 1
      BY <1>0, <2>1, FS_RemoveElement
    <3>2. rest = Cardinality(Role \ k.visited) - 1
      BY <2>1, <3>1
    <3> HIDE DEF rest
    <3> QED  BY <1>0, <3>2
  <2>3. Left(k) = 2 + Times(rest + 1, size) + Cardinality(k.queue)
    BY <1>1, <2>2
  <2>4. Times(rest, size) \in Nat /\ Times(rest + 1, size) = Times(rest, size) + size
    BY <1>0, Rounds
  <2> HIDE DEF rest, size
  <2> QED  BY <1>0, <1>1, <2>3, <2>4
<1> QED  BY <1>2, <1>3

\* get_ancestors() and the loop over the assignments.
LEMMA WalkShrinks ==
  ASSUME IsFiniteSet(Role), NEW k \in Work, NEW m \in Work, k.at = "walk", Walked(k),
         \/ m.at \in {"allow", "done"}
         \/ /\ m.at = "walk" /\ m.todo = k.todo
            /\ k.visited # {} /\ Cardinality(k.visited) <= Depth
            /\ \E r \in Role : r \notin k.visited /\ m.visited = k.visited \cup {r}
         \/ m.at = "walk" /\ m.todo = k.todo /\ k.visited # {} /\ m.visited = {}
         \/ /\ m.at = "walk" /\ k.visited = {}
            /\ \E t \in k.todo : m.todo = k.todo \ {t} /\ m.visited = {t[1]}
  PROVE  Left(m) < Left(k) /\ Walked(m)
<1> DEFINE rounds == Times(Cardinality(m.todo), Depth + 3)
<1>0. /\ IsFiniteSet(k.visited) /\ IsFiniteSet(k.todo)
      /\ Cardinality(k.visited) \in Nat /\ Cardinality(m.visited) \in Nat
      /\ Cardinality(k.todo) \in Nat /\ Cardinality(m.todo) \in Nat
      /\ rounds \in Nat /\ Times(Cardinality(k.todo), Depth + 3) \in Nat
      /\ Cardinality(k.visited) <= Depth + 1
  <2>1. /\ IsFiniteSet(k.visited) /\ IsFiniteSet(k.todo)
        /\ Cardinality(k.visited) \in Nat /\ Cardinality(m.visited) \in Nat
        /\ Cardinality(k.todo) \in Nat /\ Cardinality(m.todo) \in Nat
    BY FiniteParts
  <2>2. Depth + 3 \in Nat
    OBVIOUS
  <2> QED  BY <2>1, <2>2, Rounds DEF Walked
<1>1. CASE m.at \in {"allow", "done"}
  <2>1. Left(m) = 1 \/ Left(m) = 2
    BY <1>1, LeftAt
  <2>2. \/ Left(k) = 3 + Times(Cardinality(k.todo), Depth + 3) + 0
        \/ Left(k) = 3 + Times(Cardinality(k.todo), Depth + 3)
                      + (Depth + 3 - Cardinality(k.visited))
    BY LeftAt
  <2>3. Left(m) < Left(k)
    BY <1>0, <2>1, <2>2
  <2> QED  BY <1>1, <2>3 DEF Walked
<1>2. CASE /\ m.at = "walk" /\ m.todo = k.todo
           /\ k.visited # {} /\ Cardinality(k.visited) <= Depth
           /\ \E r \in Role : r \notin k.visited /\ m.visited = k.visited \cup {r}
  <2>1. Cardinality(m.visited) = Cardinality(k.visited) + 1 /\ m.visited # {}
    BY <1>0, <1>2, FS_AddElement
  <2>2. /\ Left(k) = 3 + rounds + (Depth + 3 - Cardinality(k.visited))
        /\ Left(m) = 3 + rounds + (Depth + 3 - Cardinality(m.visited))
    BY <1>2, <2>1, LeftAt
  <2> HIDE DEF rounds
  <2> QED  BY <1>0, <1>2, <2>1, <2>2 DEF Walked
<1>3. CASE m.at = "walk" /\ m.todo = k.todo /\ k.visited # {} /\ m.visited = {}
  <2>1. /\ Left(k) = 3 + rounds + (Depth + 3 - Cardinality(k.visited))
        /\ Left(m) = 3 + rounds + 0
    BY <1>3, LeftAt
  <2>2. Cardinality(m.visited) = 0
    BY <1>3, FS_EmptySet
  <2> HIDE DEF rounds
  <2> QED  BY <1>0, <1>3, <2>1, <2>2 DEF Walked
<1>4. ASSUME m.at = "walk", k.visited = {},
             NEW t \in k.todo, m.todo = k.todo \ {t}, m.visited = {t[1]}
      PROVE  Left(m) < Left(k) /\ Walked(m)
  <2>1. Cardinality(k.todo) = Cardinality(m.todo) + 1
    <3>1. Cardinality(k.todo \ {t}) = Cardinality(k.todo) - 1
      BY <1>0, <1>4, FS_RemoveElement
    <3>2. Cardinality(m.todo) = Cardinality(k.todo) - 1
      BY <1>4, <3>1
    <3> QED  BY <1>0, <3>2
  <2>2. Times(Cardinality(k.todo), Depth + 3) = rounds + (Depth + 3)
    BY <1>0, <2>1, Rounds
  <2>3. Cardinality(m.visited) = 1 /\ m.visited # {}
    BY <1>4, FS_Singleton
  <2>4. /\ Left(k) = 3 + (rounds + (Depth + 3)) + 0
        /\ Left(m) = 3 + rounds + (Depth + 3 - Cardinality(m.visited))
    BY <1>4, <2>2, <2>3, LeftAt
  <2> HIDE DEF rounds
  <2> QED  BY <1>0, <1>4, <2>3, <2>4 DEF Walked
<1> QED  BY <1>1, <1>2, <1>3, <1>4

LEMMA StepShrinks ==
  ASSUME IsFiniteSet(Role), TypeOK, NEW w \in Worker, Step(w), work'[w] \in Work, Walked(work[w])
  PROVE  Left(work'[w]) < Left(work[w]) /\ Walked(work'[w])
<1>0. /\ work[w] \in Work /\ work \in [Worker -> Work]
      /\ Cardinality(Role) \in Nat /\ Times(Cardinality(Role), Depth + 3) \in Nat
  <2>1. work[w] \in Work /\ work \in [Worker -> Work]
    BY DEF TypeOK
  <2>2. Cardinality(Role) \in Nat /\ Depth + 3 \in Nat
    BY FS_CardinalityType
  <2> QED  BY <2>1, <2>2, Rounds
<1>1. CASE work'[w] = Idle
  <2>1. work[w].at # "idle"
    BY DEF Step, Descend, Validate, SaveRole, Renew, Assign, CheckDeny, ReadRoles, Ascend,
       CheckRole, NextRole, CheckAllow, Answer
  <2>2. Walked(work'[w]) /\ Left(work'[w]) = 0
    BY <1>1, LeftAt DEF Walked, Idle
  <2>3. Left(work[w]) # 0
    BY <1>0, <2>1, LeftPositive
  <2> QED  BY <1>0, <2>2, <2>3, LeftIsNumber
<1>2. CASE work'[w] # Idle /\ Descend(w)
  <2>1. PICK r \in work[w].queue :
          /\ work[w].at = "descend" /\ work'[w].at = "descend"
          /\ work'[w].visited = work[w].visited \cup {r}
          /\ work'[w].queue = (work[w].queue \ {r})
               \cup (IF r \in work[w].visited THEN {} ELSE Children(r))
    BY <1>2, StepResults DEF Descend, Validate
  <2>2. Children(r) \in SUBSET Role
    BY DEF Children
  <2> QED  BY <1>0, <2>1, <2>2, DescendShrinks DEF Walked
<1>3. CASE work'[w] # Idle /\ Validate(w)
  <2>1. work[w].at = "descend" /\ work'[w].at = "save"
    BY <1>3, StepResults DEF Validate, Descend
  <2>2. Left(work'[w]) = 1
    BY <2>1, LeftAt
  <2>3. Left(work[w]) >= 2 /\ Left(work[w]) \in Nat
    BY <1>0, <2>1, LeftPositive, LeftIsNumber
  <2>4. Left(work'[w]) < Left(work[w])
    BY <2>2, <2>3
  <2> QED  BY <2>1, <2>4 DEF Walked
<1>4. CASE work'[w] # Idle /\ CheckDeny(w)
  <2>1. work[w].at = "deny" /\ Left(work[w]) = 5 + Times(Cardinality(Role), Depth + 3)
    BY <1>4, LeftAt DEF CheckDeny
  <2>2. \/ work'[w].at = "done"
        \/ work'[w].at = "roles" /\ work'[w].visited = {}
    BY <1>4, <2>1, DenyResults DEF Done, Walked
  <2>3. \/ Left(work'[w]) = 1
        \/ Left(work'[w]) = 4 + Times(Cardinality(Role), Depth + 3)
    BY <2>2, LeftAt
  <2> QED  BY <1>0, <2>1, <2>2, <2>3 DEF Walked
<1>5. CASE ReadRoles(w)
  <2> DEFINE found == {<<r, role[r].parent>> : r \in Held}
             parent == [r \in Held |-> <<r, role[r].parent>>]
  <2>1. /\ work[w].at = "roles" /\ work'[w].at = "walk" /\ work'[w].todo = found
        /\ work'[w].visited = {}
    BY <1>5, ReadRolesResults DEF ReadRoles, Walked
  <2>2. IsFiniteSet(Held) /\ Cardinality(Held) <= Cardinality(Role) /\ Cardinality(Held) \in Nat
    BY FS_Subset, FS_CardinalityType DEF Held
  <2>3. Cardinality(found) <= Cardinality(Held)
    <3>1. parent \in Surjection(Held, found)
      BY DEF Surjection
    <3> QED  BY <2>2, <3>1, FS_Surjection
  <2>4. Cardinality(found) \in Nat /\ Cardinality(found) <= Cardinality(Role)
    <3>1. Cardinality(work'[w].todo) \in Nat
      BY FiniteParts
    <3>2. Cardinality(found) \in Nat
      BY <2>1, <3>1
    <3> HIDE DEF found
    <3> QED  BY <1>0, <2>2, <2>3, <3>2
  <2>5. /\ Left(work[w]) = 4 + Times(Cardinality(Role), Depth + 3)
        /\ Left(work'[w]) = 3 + Times(Cardinality(found), Depth + 3) + 0
    BY <2>1, LeftAt
  <2>6. /\ Times(Cardinality(found), Depth + 3) <= Times(Cardinality(Role), Depth + 3)
        /\ Times(Cardinality(found), Depth + 3) \in Nat
    BY <1>0, <2>4, Rounds
  <2>7. Walked(work'[w])
    BY <2>1, FS_EmptySet DEF Walked
  <2> HIDE DEF found
  <2> QED  BY <1>0, <2>5, <2>6, <2>7
<1>6. CASE Ascend(w)
  <2>1. /\ work[w].visited # {} /\ work[w].next \in Role /\ work[w].next \notin work[w].visited
        /\ Cardinality(work[w].visited) <= Depth
    BY <1>0, <1>6 DEF Ascend, More, Work
  <2> QED  BY <1>0, <1>6, <2>1, AscendResults, WalkShrinks
<1>7. CASE CheckRole(w)
  BY <1>0, <1>7, CheckRoleResults, WalkShrinks DEF CheckRole
<1>8. CASE NextRole(w)
  BY <1>0, <1>8, NextRoleResults, WalkShrinks DEF NextRole
<1>9. CASE work'[w] # Idle /\ CheckAllow(w)
  <2>1. work[w].at = "allow" /\ work'[w].at = "done"
    BY <1>9, CheckAllowResults DEF CheckAllow
  <2>2. Left(work[w]) = 2 /\ Left(work'[w]) = 1
    BY <2>1, LeftAt
  <2> QED  BY <2>1, <2>2 DEF Walked
<1>10. CASE SaveRole(w) \/ Answer(w)
            \/ \E temporary \in BOOLEAN : Renew(w, temporary) \/ Assign(w, temporary)
  <2>1. work'[w] = Idle
    BY <1>0, <1>10 DEF SaveRole, Answer, Renew, Assign, Stop, Become
  <2> QED  BY <1>1, <2>1
<1> QED  BY <1>1, <1>2, <1>3, <1>4, <1>5, <1>6, <1>7, <1>8, <1>9, <1>10 DEF Step

AllWalked == \A w \in Worker : Walked(work[w])

LEMMA WalkedStep ==
  ASSUME IsFiniteSet(Role), TypeOK, AllWalked, [Next]_vars
  PROVE  AllWalked'
<1> SUFFICES ASSUME NEW w \in Worker PROVE Walked(work'[w])
  BY DEF AllWalked
<1>1. work'[w] \in Work /\ Walked(work[w])
  BY WorkTypes DEF AllWalked
<1>2. CASE Request(w)
  BY <1>2, RequestResults DEF Walked
<1>3. CASE Step(w)
  BY <1>1, <1>3, StepShrinks
<1> QED  BY <1>1, <1>2, <1>3, Whose

\* Whatever cycles and writes a request meets, each of its steps brings it nearer to its
\* end, and no step of another request does the opposite: a check ends within
\* 5 + |Role| * (Depth + 3) steps, if every one of them is taken.
THEOREM RequestsComeToTheirEnd ==
  ASSUME IsFiniteSet(Role)
  PROVE  Spec => /\ [](\A w \in Worker : Left(work[w]) \in Nat)
                 /\ [][\A w \in Worker :
                        work[w].at # "idle" /\ work'[w] # work[w]
                          => Left(work'[w]) < Left(work[w])]_vars
<1>1. Init => AllWalked
  BY DEF Init, AllWalked, Walked, Idle
<1>2. TypeOK /\ AllWalked /\ [Next]_vars => AllWalked'
  BY WalkedStep
<1>3. TypeOK /\ AllWalked => \A w \in Worker : Left(work[w]) \in Nat
  BY LeftIsNumber DEF TypeOK, AllWalked
<1>4. TypeOK /\ AllWalked /\ [Next]_vars
        => [\A w \in Worker : work[w].at # "idle" /\ work'[w] # work[w]
              => Left(work'[w]) < Left(work[w])]_vars
  <2> SUFFICES ASSUME TypeOK, AllWalked, [Next]_vars, NEW w \in Worker,
                      work[w].at # "idle", work'[w] # work[w]
               PROVE  Left(work'[w]) < Left(work[w])
    OBVIOUS
  <2>1. Step(w)
    BY Whose, RequestResults
  <2> QED  BY <2>1, StepShrinks, WorkTypes DEF AllWalked
<1> QED  BY <1>1, <1>2, <1>3, <1>4, TypeCorrect, PTL DEF Spec
=============================================================================
