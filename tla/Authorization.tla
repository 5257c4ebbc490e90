---------------------------- MODULE Authorization ----------------------------
(***************************************************************************)
(* The roles, role assignments and policies of apps.authz, and requests    *)
(* that change them or ask AuthorizationChecker for a decision while they  *)
(* change.  One principal asks for one action on one resource: a role      *)
(* either has the permission for it or not, a policy's condition has one   *)
(* outcome for it.                                                         *)
(*                                                                         *)
(* A decision and a validation of the hierarchy are made of queries, each  *)
(* a step.  None of them locks anything; what a save compares is the       *)
(* version of its own row.  The manager of Role hides deleted roles, and   *)
(* with it role.children; the foreign key role.parent does not.            *)
(*                                                                         *)
(* "saved" is the number of the write that last changed a row, and stands  *)
(* for its version.  "moved", "checked" and "validated" of a role are not  *)
(* stored: the numbers of the write that gave it its parent and of the     *)
(* last write before that request began, and whether it looked for cycles. *)
(***************************************************************************)
EXTENDS Integers, FiniteSets

CONSTANTS
  Worker,      \* requests
  Asking,      \* those that may ask for a decision; no other is affected by one
  Role,        \* roles, created or not
  NoRole,      \* None
  System,      \* the roles with is_system
  Assignable,  \* the roles that are not scoped to another type of resource
  Holds,       \* the roles the principal has to begin with
  Grants,      \* the roles with the permission to begin with
  Hierarchies, \* parents to begin with: functions of the roles that exist
  Policy,      \* policies that are no system policies
  Rules,       \* what a policy may say: see Rule
  Depth,       \* MAX_ROLE_HIERARCHY_DEPTH
  MaxWrites    \* bound: writes in a behaviour

\* The cycles of a hierarchy: the smallest sets that hold the parents of their roles.
Upward(parent, c) == c # {} /\ \A r \in c : parent[r] \in c
Cycles(parent) ==
  {c \in SUBSET DOMAIN parent :
     Upward(parent, c) /\ \A d \in SUBSET c : Upward(parent, d) => d = c}

Rule ==
  [effect : {"allow", "deny"}, applies : BOOLEAN,
   outcome : {"true", "false", "error", "malformed"}]

ASSUME WorkerAssumption == Asking \subseteq Worker
ASSUME RoleAssumption == NoRole \notin Role /\ System \cup Assignable \cup Holds \cup Grants \subseteq Role
ASSUME HierarchyAssumption ==
  \A parent \in Hierarchies :
    /\ DOMAIN parent \subseteq Role
    /\ parent \in [DOMAIN parent -> DOMAIN parent \cup {NoRole}]
    /\ Cycles(parent) = {}
ASSUME RuleAssumption == Rules \subseteq Rule /\ Rules # {}
ASSUME DepthAssumption == Depth \in Nat /\ MaxWrites \in Nat

VARIABLES
  role,        \* role[r]: the row of the role
  granting,    \* the roles with a RolePermission for the action
  permission,  \* that permission is not deleted
  held,        \* held[r]: the principal's assignment of r on the resource
  policy,      \* policy[p]: the row of the policy
  writes,      \* writes so far
  work         \* work[w]: the request of the worker, how far it is

vars == <<role, granting, permission, held, policy, writes, work>>

RoleRow ==
  [state : {"absent", "live", "deleted"}, parent : Role \cup {NoRole},
   saved : Nat, moved : Nat, checked : Nat, validated : BOOLEAN]
Assignment ==
  [state : {"none", "live", "expired"}, temporary : BOOLEAN, saved : Nat]
PolicyRow == [state : {"enabled", "disabled", "deleted"}, rule : Rules, saved : Nat]

\* "at" is what the request does next.  An update of a role walks down: "visited"
\* and "queue" are those of get_descendants().  A check walks up: "visited" are
\* the roles found, "next" the parent of the last, "todo" the roles assigned.
\* "flag" of a save: the admin's; of an assignment: found; of a check: its answer.
Work ==
  [at : {"idle", "descend", "save", "assign", "deny", "roles", "walk", "allow", "done"},
   role : Role \cup {NoRole}, next : Role \cup {NoRole}, saved : Nat, since : Nat,
   visited : SUBSET Role, queue : SUBSET Role, todo : SUBSET (Role \X (Role \cup {NoRole})),
   flag : BOOLEAN]
Idle ==
  [at |-> "idle", role |-> NoRole, next |-> NoRole, saved |-> 0, since |-> 0,
   visited |-> {}, queue |-> {}, todo |-> {}, flag |-> FALSE]

TypeOK ==
  /\ role \in [Role -> RoleRow]
  /\ granting \subseteq Role
  /\ permission \in BOOLEAN
  /\ held \in [Role -> Assignment]
  /\ \A r \in Role : held[r].state = "expired" => held[r].temporary
  /\ policy \in [Policy -> PolicyRow]
  /\ writes \in 0 .. MaxWrites
  /\ work \in [Worker -> Work]

Init ==
  /\ \E parent \in Hierarchies :
       role = [r \in Role |->
         [state |-> IF r \in DOMAIN parent THEN "live" ELSE "absent",
          parent |-> IF r \in DOMAIN parent THEN parent[r] ELSE NoRole,
          saved |-> 0, moved |-> 0, checked |-> 0, validated |-> TRUE]]
  /\ granting = {r \in Grants : role[r].state = "live"}
  /\ permission = TRUE
  /\ held = [r \in Role |-> [state |-> IF r \in Holds THEN "live" ELSE "none",
                             temporary |-> FALSE, saved |-> 0]]
  /\ policy \in [Policy ->
       {[state |-> "enabled", rule |-> rule, saved |-> 0] : rule \in Rules} \cup
       {[state |-> "disabled", rule |-> CHOOSE rule \in Rules : TRUE, saved |-> 0]}]
  /\ writes = 0
  /\ work = [w \in Worker |-> Idle]

-----------------------------------------------------------------------------
Live(r) == role[r].state = "live"

\* role.children.all(), role.parent.
Children(r) == {c \in Role : Live(c) /\ role[c].parent = r}

\* Bound: every request that may write has a write left for it.
Room == writes + Cardinality({w \in Worker : work[w].at \in {"descend", "save", "assign"}}) < MaxWrites

Written == writes' = writes + 1
NextWrite == Room /\ Written

Start(w, request) == work[w].at = "idle" /\ work' = [work EXCEPT ![w] = request]
Become(w, request) == work' = [work EXCEPT ![w] = request]
Stop(w) == Become(w, Idle)

-----------------------------------------------------------------------------
(* RoleService.                                                              *)

\* create_role(): nothing can be below a role that does not exist.
CreateRole(r, p) ==
  /\ role[r].state = "absent"
  /\ p # NoRole => Live(p)
  /\ NextWrite
  /\ role' = [role EXCEPT ![r] = [state |-> "live", parent |-> p, saved |-> writes',
                                  moved |-> writes', checked |-> writes,
                                  validated |-> TRUE]]
  /\ UNCHANGED <<granting, permission, held, policy, work>>

\* update_role(): the role and its new parent are loaded.  The parent it has
\* stands for the one left out: that is not validated, and neither is None.
BeginUpdate(w, r, p) ==
  /\ Live(r) /\ r \notin System
  /\ p # NoRole => Live(p)
  /\ p # r
  /\ Room
  /\ Start(w, [Idle EXCEPT
       !.at = IF p \in {NoRole, role[r].parent} THEN "save" ELSE "descend",
       !.role = r, !.next = p, !.saved = role[r].saved, !.since = writes, !.queue = {r}])
  /\ UNCHANGED <<role, granting, permission, held, policy, writes>>

\* A plausible defect of Descend: only the children are visited.
DescendOnce(w) ==
  /\ work[w].at = "descend"
  /\ \E r \in work[w].queue :
       Become(w, [work[w] EXCEPT
         !.visited = @ \cup {r} \cup Children(r), !.queue = {}])
  /\ UNCHANGED <<role, granting, permission, held, policy, writes>>

\* get_descendants(): the children of one more role.  The queue is a list there;
\* what it finds does not depend on its order.
Descend(w) ==
  /\ work[w].at = "descend"
  /\ \E r \in work[w].queue :
       Become(w, [work[w] EXCEPT
         !.visited = @ \cup {r},
         !.queue = (@ \ {r}) \cup (IF r \in work[w].visited THEN {} ELSE Children(r))])
  /\ UNCHANGED <<role, granting, permission, held, policy, writes>>

\* _validate_no_cycle(): a parent found below the role is refused.
Validate(w) ==
  /\ work[w].at = "descend" /\ work[w].queue = {}
  /\ IF work[w].next \in work[w].visited THEN Stop(w)
     ELSE Become(w, [work[w] EXCEPT !.at = "save"])
  /\ UNCHANGED <<role, granting, permission, held, policy, writes>>

\* RoleAdmin: any role gets any parent, itself too, and nobody looks for a cycle.
BeginEdit(w, r, p) ==
  /\ Live(r)
  /\ p # NoRole => Live(p)
  /\ Room
  /\ Start(w, [Idle EXCEPT !.at = "save", !.role = r, !.next = p, !.saved = role[r].saved,
                           !.since = writes, !.flag = TRUE])
  /\ UNCHANGED <<role, granting, permission, held, policy, writes>>

\* role.save(): all columns, if the version is the one that was loaded.
SaveRole(w) ==
  LET r == work[w].role IN
  /\ work[w].at = "save"
  /\ \/ /\ role[r].saved = work[w].saved
        /\ Written
        /\ role' = [role EXCEPT ![r] =
             IF @.parent = work[w].next THEN [@ EXCEPT !.saved = writes']
             ELSE [state |-> @.state, parent |-> work[w].next, saved |-> writes',
                   moved |-> writes', checked |-> work[w].since,
                   validated |-> ~work[w].flag]]
     \/ /\ role[r].saved # work[w].saved
        /\ UNCHANGED <<role, writes>>
  /\ Stop(w)
  /\ UNCHANGED <<granting, permission, held, policy>>

\* delete_role(), which refuses a system role, and the admin, which does not: the
\* roles below keep their parent, the principals the role.
DeleteRole(r) ==
  /\ Live(r)
  /\ NextWrite
  /\ role' = [role EXCEPT ![r] = [@ EXCEPT !.state = "deleted", !.saved = writes']]
  /\ UNCHANGED <<granting, permission, held, policy, work>>

\* add_permission(), remove_permission().
ChangePermissions(r) ==
  /\ Live(r)
  /\ NextWrite
  /\ granting' = IF r \in granting THEN granting \ {r} ELSE granting \cup {r}
  /\ UNCHANGED <<role, permission, held, policy, work>>

\* PermissionDetailView: the rows of the roles stay.
DeletePermission ==
  /\ permission
  /\ NextWrite
  /\ permission' = FALSE
  /\ UNCHANGED <<role, granting, held, policy, work>>

-----------------------------------------------------------------------------
(* AssignmentService.                                                        *)

\* assign_role(): the lookup sees neither deleted nor expired assignments.
BeginAssign(w, r) ==
  /\ Live(r) /\ r \in Assignable
  /\ Room
  /\ Start(w, [Idle EXCEPT !.at = "assign", !.role = r, !.saved = held[r].saved,
                           !.flag = (held[r].state = "live")])
  /\ UNCHANGED <<role, granting, permission, held, policy, writes>>

\* The assignment found gets the new expires_at, if its version is the one read.
Renew(w, temporary) ==
  LET r == work[w].role IN
  /\ work[w].at = "assign" /\ work[w].flag
  /\ \/ /\ held[r].saved = work[w].saved
        /\ temporary \/ held[r].temporary
        /\ Written
        /\ held' = [held EXCEPT ![r] =
             [state |-> "live", temporary |-> temporary, saved |-> writes']]
     \/ /\ held[r].saved # work[w].saved \/ temporary = held[r].temporary
        /\ UNCHANGED <<held, writes>>
  /\ Stop(w)
  /\ UNCHANGED <<role, granting, permission, policy>>

\* A new assignment: refused by the constraint when a row that is not deleted
\* exists, expired or not.
Assign(w, temporary) ==
  LET r == work[w].role IN
  /\ work[w].at = "assign" /\ ~work[w].flag
  /\ \/ /\ held[r].state = "none"
        /\ Written
        /\ held' = [held EXCEPT ![r] =
             [state |-> "live", temporary |-> temporary, saved |-> writes']]
     \/ /\ held[r].state # "none"
        /\ UNCHANGED <<held, writes>>
  /\ Stop(w)
  /\ UNCHANGED <<role, granting, permission, policy>>

\* revoke_role(), RoleAssignmentDetailView: an expired assignment is not found.
Revoke(r) ==
  /\ held[r].state = "live"
  /\ NextWrite
  /\ held' = [held EXCEPT ![r] = [@ EXCEPT !.state = "none", !.saved = writes']]
  /\ UNCHANGED <<role, granting, permission, policy, work>>

\* A plausible defect of Expire: no expires_at counts as one that has passed.
ExpireAny(r) ==
  /\ held[r].state = "live"
  /\ NextWrite
  /\ held' = [held EXCEPT ![r].state = "expired"]
  /\ UNCHANGED <<role, granting, permission, policy, work>>

\* expires_at passes.
Expire(r) ==
  /\ held[r].state = "live" /\ held[r].temporary
  /\ NextWrite
  /\ held' = [held EXCEPT ![r].state = "expired"]
  /\ UNCHANGED <<role, granting, permission, policy, work>>

-----------------------------------------------------------------------------
(* PolicyService, and the admin, which does not validate the condition.      *)

\* create_policy(), update_policy(), delete_policy(): a policy that is not created
\* yet decides no more than one that is disabled.
UpdatePolicy(p, state, rule) ==
  /\ policy[p].state # "deleted"
  /\ <<state, rule>> # <<policy[p].state, policy[p].rule>>
  /\ NextWrite
  /\ policy' = [policy EXCEPT ![p] = [state |-> state, rule |-> rule, saved |-> writes']]
  /\ UNCHANGED <<role, granting, permission, held, work>>

-----------------------------------------------------------------------------
(* AuthorizationChecker.check().                                             *)

\* The queries enabled(), for_resource() and for_action().
Selected(p, effect) ==
  /\ policy[p].state = "enabled"
  /\ policy[p].rule.effect = effect /\ policy[p].rule.applies

\* _evaluate_policy(): an error of the evaluation is no match; one of the parser
\* is not caught.
Matches(p, effect) == Selected(p, effect) /\ policy[p].rule.outcome = "true"
Raises(p, effect) == Selected(p, effect) /\ policy[p].rule.outcome = "malformed"

BeginCheck(w) ==
  /\ Start(w, [Idle EXCEPT !.at = "deny", !.since = writes])
  /\ UNCHANGED <<role, granting, permission, held, policy, writes>>

Decide(w, allowed) ==
  Become(w, [Idle EXCEPT !.at = "done", !.since = work[w].since, !.flag = allowed])

\* The policies of one effect, in the order of their priorities (any order here):
\* the first that matches decides, one whose condition cannot be parsed raises.
ReadPolicies(w, effect, otherwise) ==
  \/ /\ \E p \in Policy : Matches(p, effect)
     /\ Decide(w, effect = "allow")
  \/ /\ \E p \in Policy : Raises(p, effect)
     /\ Stop(w)
  \/ /\ \A p \in Policy : ~Matches(p, effect) /\ ~Raises(p, effect)
     /\ otherwise

\* A plausible defect of CheckDeny: a policy that raises denies nothing.
CheckDenyLenient(w) ==
  /\ work[w].at = "deny"
  /\ ReadPolicies(w, "deny", Become(w, [work[w] EXCEPT !.at = "roles"]))
     \/ Become(w, [work[w] EXCEPT !.at = "roles"])
  /\ UNCHANGED <<role, granting, permission, held, policy, writes>>

CheckDeny(w) ==
  /\ work[w].at = "deny"
  /\ ReadPolicies(w, "deny", Become(w, [work[w] EXCEPT !.at = "roles"]))
  /\ UNCHANGED <<role, granting, permission, held, policy, writes>>

\* The principal's assignments, each with the row of its role.
ReadRoles(w) ==
  /\ work[w].at = "roles"
  /\ Become(w, [work[w] EXCEPT
       !.at = "walk",
       !.todo = {<<r, role[r].parent>> : r \in {s \in Role : held[s].state = "live"}}])
  /\ UNCHANGED <<role, granting, permission, held, policy, writes>>

\* Plausible defects of More: no guard against cycles; one ancestor too few.
MoreForever(w) == work[w].next # NoRole

MoreShort(w) ==
  work[w].next \notin work[w].visited \cup {NoRole} /\ Cardinality(work[w].visited) < Depth

\* The loop condition of get_ancestors().
More(w) ==
  work[w].next \notin work[w].visited \cup {NoRole} /\ Cardinality(work[w].visited) <= Depth

\* get_ancestors(include_self=True) of one more role: current = current.parent.
Ascend(w) ==
  /\ work[w].at = "walk" /\ work[w].visited # {} /\ More(w)
  /\ Become(w, [work[w] EXCEPT !.visited = @ \cup {work[w].next}, !.next = role[@].parent])
  /\ UNCHANGED <<role, granting, permission, held, policy, writes>>

\* The permissions of the role and of the ancestors found.
CheckRole(w) ==
  /\ work[w].at = "walk" /\ work[w].visited # {} /\ ~More(w)
  /\ IF permission /\ work[w].visited \cap granting # {} THEN Decide(w, TRUE)
     ELSE Become(w, [work[w] EXCEPT !.visited = {}, !.next = NoRole])
  /\ UNCHANGED <<role, granting, permission, held, policy, writes>>

\* The next assignment; after the last, the policies that allow.
NextRole(w) ==
  /\ work[w].at = "walk" /\ work[w].visited = {}
  /\ IF work[w].todo = {} THEN Become(w, [work[w] EXCEPT !.at = "allow"])
     ELSE \E t \in work[w].todo :
            Become(w, [work[w] EXCEPT !.visited = {t[1]}, !.next = t[2], !.todo = @ \ {t}])
  /\ UNCHANGED <<role, granting, permission, held, policy, writes>>

CheckAllow(w) ==
  /\ work[w].at = "allow"
  /\ ReadPolicies(w, "allow", Decide(w, FALSE))
  /\ UNCHANGED <<role, granting, permission, held, policy, writes>>

Answer(w) ==
  /\ work[w].at = "done"
  /\ Stop(w)
  /\ UNCHANGED <<role, granting, permission, held, policy, writes>>

-----------------------------------------------------------------------------
Request(w) ==
  \/ \E r \in Role, p \in Role \cup {NoRole} : BeginUpdate(w, r, p) \/ BeginEdit(w, r, p)
  \/ \E r \in Role : BeginAssign(w, r)
  \/ w \in Asking /\ BeginCheck(w)

Change ==
  \/ \E r \in Role :
       \/ \E p \in Role \cup {NoRole} : CreateRole(r, p)
       \/ DeleteRole(r) \/ ChangePermissions(r) \/ Revoke(r) \/ Expire(r)
  \/ DeletePermission
  \/ \E p \in Policy, state \in {"enabled", "disabled", "deleted"}, rule \in Rules :
       UpdatePolicy(p, state, rule)

\* What a request does next by itself.
Step(w) ==
  \/ Descend(w) \/ Validate(w) \/ SaveRole(w)
  \/ \E temporary \in BOOLEAN : Renew(w, temporary) \/ Assign(w, temporary)
  \/ CheckDeny(w) \/ ReadRoles(w) \/ Ascend(w) \/ CheckRole(w) \/ NextRole(w)
  \/ CheckAllow(w) \/ Answer(w)

Next == Change \/ \E w \in Worker : Request(w) \/ Step(w)

\* The server runs a request to its end.
Spec == Init /\ [][Next]_vars /\ \A w \in Worker : WF_vars(Step(w))

-----------------------------------------------------------------------------
\* The roles that are r or at most n parents above it.
Reach(r, n) ==
  {s \in Role : \E m \in 0 .. n : \E path \in [0 .. m -> Role] :
     /\ path[0] = r /\ path[m] = s
     /\ \A i \in 1 .. m : path[i] = role[path[i - 1]].parent}

Granted ==
  /\ permission
  /\ \E r \in Role : held[r].state = "live" /\ Reach(r, Depth) \cap granting # {}

\* What docs/apps/authz.md promises, of one state.
Allowed ==
  /\ ~\E p \in Policy : Matches(p, "deny")
  /\ Granted \/ \E p \in Policy : Matches(p, "allow")

Done(w) == work[w].at = "done"

\* When nothing was written during a check, its answer is the one the rules give:
\* denied by a policy, else granted by a role or one above it, else allowed by a
\* policy, whatever deleted roles or cycles the walk met.
QuietDecisionIsRight ==
  \A w \in Worker : Done(w) /\ work[w].since = writes => work[w].flag = Allowed

\* Whatever was written during a check, a policy that has denied the action since
\* before it began is not overruled.
DenyIsRespected ==
  \A w \in Worker : Done(w) /\ work[w].flag =>
    \A p \in Policy : Matches(p, "deny") => policy[p].saved > work[w].since

Parents == [r \in Role |-> role[r].parent]

\* A cycle of roles of which none is deleted was closed by the admin, who is not
\* stopped, or by moves that overlapped: when the last of its roles to be moved was
\* validated, another was moved after that validation had begun.
CyclesNeedARace ==
  \A c \in Cycles(Parents) : \A r \in c :
    role[r].validated /\ (\A s \in c : Live(s) /\ role[s].moved <= role[r].moved)
    => \E s \in c \ {r} : role[s].moved > role[r].checked

\* No cycle makes a request walk for ever: every request ends.
RequestsEnd == \A w \in Worker : work[w].at # "idle" ~> work[w].at = "idle"
=============================================================================
