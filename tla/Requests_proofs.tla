---------------------------- MODULE Requests_proofs ----------------------------
(***************************************************************************)
(* Proofs about requests that hold instances of rows, and what optimistic  *)
(* locking makes of them.  In each the invariant is about the instances:   *)
(* what one of them shows is so still, if its version is the stored one.   *)
(*                                                                         *)
(* SessionRequests, for every set of requests and sessions and every       *)
(* limit: an answered termination has ended what it read, an ended session *)
(* stays ended, and a login with a limit leaves no more sessions than that *)
(* besides its own.                                                        *)
(*                                                                         *)
(* Credentials, for every set of clients and rows and every value of the   *)
(* settings: codes pass only while they are usable, what is withdrawn      *)
(* stays so, a change replaces the password it proved, and failures are    *)
(* counted.                                                                *)
(*                                                                         *)
(* VersionedRow, for every set of workers and columns and every bound:     *)
(* optimistic locking loses no update.  A version number stands for a      *)
(* content (of the columns whose writes bump it), between an instance and  *)
(* the row and between two instances.  Neither is inductive without the    *)
(* other: a load makes an instance agree with the row, and through it with *)
(* every other instance of that version.                                   *)
(***************************************************************************)
EXTENDS
  SessionRequests, Credentials, VersionedRow, FiniteSetTheorems, WellFoundedInduction, TLAPS

-----------------------------------------------------------------------------
(* SessionRequests.                                                         *)

\* A session that is not committed yet is in nobody's hands but its creator's.
UncommittedApart ==
  \A r \in Request : at[r] = "created" =>
    /\ mine[r] \in created \ ended
    /\ \A q \in Request : mine[r] \notin work[q] \cup fresh[q]
    /\ \A q \in Request \ {r} : at[q] = "created" => mine[q] # mine[r]

\* What a request goes through is stored, and what its instances show is not ended.
HeldStored ==
  \A r \in Request : work[r] \subseteq created /\ fresh[r] \subseteq created \ ended

Evicting == {"updating", "evicted", "created"}

\* A session that a request is to end is ended, or the request comes to it.
SeenAccounted ==
  \A r \in Request :
    /\ at[r] \notin Evicting \cup {"terminating", "answered"} => seen[r] = {}
    /\ at[r] = "terminating" => seen[r] \subseteq ended \cup work[r]
    /\ at[r] = "answered" => seen[r] \subseteq ended

IInv == TypeOK /\ UncommittedApart /\ HeldStored /\ SeenAccounted

USE NoneAssumption, LimitAssumption, RequestAssumption

LEMMA InitIInv == Init => IInv
BY DEF Init, IInv, TypeOK, Stages, UncommittedApart, HeldStored, SeenAccounted, Evicting

\* A non-terminal session is stored, not ended, and no request is about to commit it.
LEMMA NonTerminalType ==
  /\ NonTerminal \subseteq created \ ended
  /\ \A s \in NonTerminal, r \in Request : at[r] = "created" => mine[r] # s
BY DEF NonTerminal, Committed

\* Reading changes no row: it takes a request on, with instances of rows that were read.
LEMMA ReadIInv ==
  ASSUME IInv, NEW r \in Request, NEW stage \in Stages \ {"created"},
         UNCHANGED stored, Goto(r, stage),
         at[r] # "created",
         acting' \in [Request -> BOOLEAN],
         mine' \in [Request -> Session \cup {NoSession}],
         \A q \in Request \ {r} : mine'[q] = mine[q],
         work' \in [Request -> SUBSET Session],
         \A q \in Request \ {r} : work'[q] = work[q],
         work'[r] \subseteq work[r] \cup NonTerminal,
         fresh' \in [Request -> SUBSET Session],
         \A q \in Request : fresh'[q] \subseteq fresh[q] \cup NonTerminal,
         seen' \in [Request -> SUBSET Session],
         \A q \in Request \ {r} : seen'[q] = seen[q],
         stage = "terminating" => seen'[r] \subseteq work'[r],
         stage \notin Evicting \cup {"terminating"} => seen'[r] = {}
  PROVE  IInv'
<1>1. TypeOK'
  BY DEF IInv, TypeOK, Goto, stored, order
<1>2. UncommittedApart'
  BY NonTerminalType DEF IInv, TypeOK, Goto, stored, order, UncommittedApart
<1>3. HeldStored'
  BY NonTerminalType DEF IInv, TypeOK, Goto, stored, order, HeldStored
<1>4. SeenAccounted'
  BY DEF IInv, TypeOK, Goto, stored, order, SeenAccounted, Evicting
<1> QED  BY <1>1, <1>2, <1>3, <1>4 DEF IInv

\* Sessions in some request's work are ended, and their instances stale.
LEMMA EndIInv ==
  ASSUME IInv, NEW r \in Request, NEW gone \in SUBSET work[r],
         ended' = ended \cup gone, UNCHANGED order,
         acting' \in [Request -> BOOLEAN],
         mine' = mine \/ mine' = [mine EXCEPT ![r] = NoSession],
         work' = [work EXCEPT ![r] = @ \ gone],
         fresh' \in [Request -> SUBSET Session],
         \A q \in Request : fresh'[q] \subseteq fresh[q] \ gone,
         \/ seen' = seen
         \/ seen' = [seen EXCEPT ![r] = {}] /\ at'[r] = "idle"
         \/ seen' = [seen EXCEPT ![r] = gone] /\ at'[r] = "answered",
         at' = at \/ (\E stage \in {"idle", "answered"} : at' = [at EXCEPT ![r] = stage]),
         at'[r] = "idle" => seen'[r] = {},
         at[r] = "created" => at'[r] = "idle",
         at[r] # "answered",
         at'[r] = "answered" => seen'[r] \subseteq ended'
  PROVE  IInv'
<1>1. TypeOK'
  <2>1. ended' \subseteq created' /\ created' = created /\ newer' = newer
    BY DEF IInv, TypeOK, order, HeldStored
  <2>2. at' \in [Request -> Stages]
    BY DEF IInv, TypeOK, Stages
  <2>3. work' \in [Request -> SUBSET Session] /\ seen' \in [Request -> SUBSET Session]
    BY DEF IInv, TypeOK
  <2>4. mine' \in [Request -> Session \cup {NoSession}]
    BY DEF IInv, TypeOK
  <2> QED  BY <2>1, <2>2, <2>3, <2>4 DEF IInv, TypeOK
<1>2. UncommittedApart'
  BY DEF IInv, TypeOK, order, UncommittedApart
<1>3. HeldStored'
  BY DEF IInv, TypeOK, order, HeldStored
<1>4. SeenAccounted'
  BY DEF IInv, TypeOK, order, SeenAccounted, Evicting
<1> QED  BY <1>1, <1>2, <1>3, <1>4 DEF IInv

\* A session is inserted by a login, for itself.
LEMMA InsertIInv ==
  ASSUME IInv, NEW r \in Request, NEW s \in Session, InsertSession(r, s)
  PROVE  IInv'
<1> USE DEF InsertSession, Goto, Add, order
<1>1. TypeOK'
  BY DEF IInv, TypeOK, Stages
<1>2. UncommittedApart'
  BY DEF IInv, TypeOK, UncommittedApart, HeldStored
<1>3. HeldStored'
  BY DEF IInv, TypeOK, HeldStored
<1>4. SeenAccounted'
  BY DEF IInv, TypeOK, SeenAccounted, Evicting
<1> QED  BY <1>1, <1>2, <1>3, <1>4 DEF IInv

\* A request ends; the session it has not committed goes with it.
LEMMA FinishIInv ==
  ASSUME IInv, NEW r \in Request, Finish(r), UNCHANGED ended,
         Remove(IF at[r] = "created" THEN {mine[r]} ELSE {})
  PROVE  IInv'
<1> USE DEF Finish, Goto, Remove
<1>1. TypeOK'
  BY DEF IInv, TypeOK, Stages, UncommittedApart
<1>2. UncommittedApart'
  BY DEF IInv, TypeOK, UncommittedApart
<1>3. HeldStored'
  BY DEF IInv, TypeOK, HeldStored, UncommittedApart
<1>4. SeenAccounted'
  BY DEF IInv, TypeOK, SeenAccounted, Evicting
<1> QED  BY <1>1, <1>2, <1>3, <1>4 DEF IInv

\* Rows that ended and that no request knows of are removed.
LEMMA CleanupIInv ==
  ASSUME IInv, NEW rows \in SUBSET Session, Cleanup(rows)
  PROVE  IInv'
<1> USE DEF Cleanup, Remove, Unused, requestVars
<1>1. TypeOK'
  BY DEF IInv, TypeOK
<1>2. UncommittedApart'
  BY DEF IInv, TypeOK, UncommittedApart
<1>3. HeldStored'
  BY DEF IInv, TypeOK, HeldStored
<1>4. SeenAccounted'
  BY DEF IInv, TypeOK, SeenAccounted, Evicting
<1> QED  BY <1>1, <1>2, <1>3, <1>4 DEF IInv

\* Instances are loaded for a loop.
LEMMA LoadIInv ==
  ASSUME IInv, NEW r \in Request, NEW stage \in {"terminating", "maintaining", "sweeping"},
         NEW rows \in SUBSET NonTerminal, at[r] # "created", Load(r, stage, rows)
  PROVE  IInv'
<1>1. rows \in SUBSET Session
  BY DEF NonTerminal
<1> QED  BY <1>1, ReadIInv DEF Load, IInv, TypeOK, Stages

LEMMA NextIInv == IInv /\ [Next]_vars => IInv'
<1> SUFFICES ASSUME IInv, [Next]_vars PROVE IInv'
  OBVIOUS
<1>1. ASSUME NEW r \in Request, NEW actor \in BOOLEAN, StartRequest(r, actor) PROVE IInv'
  <2>1. fresh' \in [Request -> SUBSET Session] /\ \A q \in Request : fresh'[q] \subseteq fresh[q]
    BY <1>1 DEF StartRequest, TrackActivity, Touch, Bumped, IInv, TypeOK
  <2>2. seen[r] = {}
    BY <1>1 DEF StartRequest, IInv, SeenAccounted, Evicting
  <2> QED  BY <1>1, <2>1, <2>2, ReadIInv DEF StartRequest, IInv, TypeOK, Stages
<1>2. ASSUME NEW r \in Request, NEW s \in Session, Authenticate(r, s) PROVE IInv'
  <2>1. s \in NonTerminal
    BY <1>2 DEF Authenticate, BearerAuthenticates, CookieAuthenticates, Valid
  <2>2. seen[r] = {}
    BY <1>2 DEF Authenticate, IInv, SeenAccounted, Evicting
  <2> QED  BY <1>2, <2>1, <2>2, ReadIInv DEF Authenticate, IInv, TypeOK, Stages
<1>3. ASSUME NEW r \in Request, ReadKept(r) PROVE IInv'
  <2>1. Newest(Limit, NonTerminal) \subseteq NonTerminal /\ NonTerminal \subseteq Session
    BY DEF Newest, NonTerminal
  <2>2. seen[r] = {}
    BY <1>3 DEF ReadKept, IInv, SeenAccounted, Evicting
  <2>3. \E stage \in {"evicted", "limiting"} : Goto(r, stage)
    BY <1>3 DEF ReadKept
  <2> QED  BY <1>3, <2>1, <2>2, <2>3, ReadIInv DEF ReadKept, IInv, TypeOK, Stages
<1>4. ASSUME NEW r \in Request, StartEviction(r) PROVE IInv'
  <2>1. NonTerminal \subseteq Session
    BY DEF NonTerminal
  <2> QED  BY <1>4, <2>1, ReadIInv DEF StartEviction, IInv, TypeOK, Stages, Evicting
<1>5. ASSUME NEW r \in Request, Evict(r) PROVE IInv'
  BY <1>5, ReadIInv DEF Evict, IInv, TypeOK, Stages, Evicting
<1>20. ASSUME NEW r \in Request, LoginUnlimited(r) PROVE IInv'
  BY <1>20, ReadIInv DEF LoginUnlimited, IInv, TypeOK, Stages, Evicting
<1>6. ASSUME NEW r \in Request, NEW s \in Session, InsertSession(r, s) PROVE IInv'
  BY <1>6, InsertIInv
<1>7. ASSUME NEW r \in Request, CommitLogin(r) PROVE IInv'
  <2>2. fresh' \in [Request -> SUBSET Session]
        /\ \A q \in Request : fresh'[q] \subseteq fresh[q] \ work[r]
    BY <1>7 DEF CommitLogin, IInv, TypeOK
  <2>3. /\ work[r] \in SUBSET work[r] /\ ended' = ended \cup work[r] /\ UNCHANGED order
        /\ acting' \in [Request -> BOOLEAN] /\ mine' = [mine EXCEPT ![r] = NoSession]
        /\ work' = [work EXCEPT ![r] = @ \ work[r]] /\ seen' = [seen EXCEPT ![r] = {}]
        /\ seen'[r] = {} /\ at' = [at EXCEPT ![r] = "idle"] /\ at'[r] = "idle" /\ at[r] # "answered"
    BY <1>7 DEF CommitLogin, IInv, TypeOK, order
  <2> QED  BY <1>7, <2>2, <2>3, EndIInv
<1>8. ASSUME NEW r \in Request, NEW header \in Session \cup {NoSession},
             TerminateOthers(r, header) \/ StartSweep(r, header)
      PROVE  IInv'
  BY <1>8, LoadIInv DEF TerminateOthers, StartSweep
<1>9. ASSUME NEW r \in Request, NEW rows \in SUBSET Session,
             NEW stage \in {"terminating", "maintaining"}, AdminSelects(r, stage, rows)
      PROVE  IInv'
  BY <1>9, LoadIInv DEF AdminSelects
<1>10. ASSUME NEW r \in Request, NEW s \in Session, TerminateOne(r, s) PROVE IInv'
  BY <1>10, LoadIInv DEF TerminateOne
<1>11. ASSUME NEW r \in Request, NEW s \in Session, RevokeOne(r, s) PROVE IInv'
  <2>1. {s} \in SUBSET work[r]
    BY <1>11 DEF RevokeOne, SaveInstance
  <2>2. fresh' \in [Request -> SUBSET Session]
        /\ \A q \in Request : fresh'[q] \subseteq fresh[q] \ {s}
    BY <1>11 DEF RevokeOne, SaveInstance, Bumped, IInv, TypeOK
  <2> QED  BY <1>11, <2>1, <2>2, EndIInv DEF RevokeOne, SaveInstance, IInv, TypeOK
<1>12. ASSUME NEW r \in Request, NEW s \in Session, Maintain(r, s) PROVE IInv'
  <2>1. ended' = ended
    BY <1>12 DEF Maintain, SaveInstance, IInv, HeldStored
  <2>2. fresh' \in [Request -> SUBSET Session]
        /\ \A q \in Request : fresh'[q] \subseteq fresh[q]
    BY <1>12 DEF Maintain, SaveInstance, Bumped, IInv, TypeOK
  <2>3. Goto(r, "maintaining")
    BY <1>12 DEF Maintain, SaveInstance, Goto, IInv, TypeOK
  <2>4. seen[r] = {}
    BY <1>12 DEF Maintain, IInv, SeenAccounted, Evicting
  <2> QED
    BY <1>12, <2>1, <2>2, <2>3, <2>4, ReadIInv DEF Maintain, SaveInstance, IInv, TypeOK, Stages, stored
<1>13. ASSUME NEW r \in Request, Sweep(r) PROVE IInv'
  <2>1. fresh' \in [Request -> SUBSET Session]
        /\ \A q \in Request : fresh'[q] \subseteq fresh[q] \ work[r]
    BY <1>13 DEF Sweep, Bumped, IInv, TypeOK
  <2> QED  BY <1>13, <2>1, EndIInv DEF Sweep, Goto, IInv, TypeOK
<1>14. ASSUME NEW r \in Request, Logout(r) PROVE IInv'
  <2>1. fresh' \in [Request -> SUBSET Session]
        /\ \A q \in Request : fresh'[q] \subseteq fresh[q]
    BY <1>14 DEF Logout, Bumped, IInv, TypeOK
  <2>2. seen[r] = {}
    BY <1>14 DEF Logout, IInv, SeenAccounted, Evicting
  <2> QED  BY <1>14, <2>1, <2>2, ReadIInv DEF Logout, IInv, TypeOK, Stages
<1>15. ASSUME NEW r \in Request, AnswerTermination(r) PROVE IInv'
  <2>1. {} \in SUBSET work[r] /\ seen[r] \subseteq ended
    BY <1>15 DEF AnswerTermination, IInv, SeenAccounted, Evicting
  <2>2. work' = [work EXCEPT ![r] = @ \ {}]
    BY <1>15 DEF AnswerTermination, IInv, TypeOK
  <2>3. /\ ended' = ended \cup {} /\ UNCHANGED <<order, acting, mine, fresh, seen>>
        /\ at' = [at EXCEPT ![r] = "answered"] /\ at'[r] = "answered"
        /\ at[r] # "created" /\ at[r] # "answered"
        /\ acting \in [Request -> BOOLEAN] /\ fresh \in [Request -> SUBSET Session]
    BY <1>15 DEF AnswerTermination, Goto, stored, order, IInv, TypeOK
  <2> QED  BY <1>15, <2>1, <2>2, <2>3, EndIInv
<1>16. ASSUME NEW r \in Request, EndRequest(r) PROVE IInv'
  <2>1. Remove({})
    BY <1>16 DEF EndRequest, stored, order, Remove, IInv, TypeOK
  <2> QED  BY <1>16, <2>1, FinishIInv DEF EndRequest, stored
<1>17. ASSUME NEW r \in Request, Fail(r) PROVE IInv'
  BY <1>17, FinishIInv DEF Fail
<1>18. ASSUME NEW rows \in SUBSET Session, Cleanup(rows) PROVE IInv'
  BY <1>18, CleanupIInv
<1>19. CASE UNCHANGED vars
  BY <1>19 DEF vars, stored, order, requestVars, IInv, TypeOK, UncommittedApart, HeldStored, SeenAccounted,
                Evicting
<1> QED
  BY <1>1, <1>2, <1>3, <1>4, <1>5, <1>6, <1>7, <1>8, <1>9, <1>10, <1>11, <1>12, <1>13, <1>14,
     <1>15, <1>16, <1>17, <1>18, <1>19, <1>20
  DEF Next, Login, Ending

LEMMA AlwaysIInv == Spec => []IInv
BY InitIInv, NextIInv, PTL DEF Spec

\* The variables keep their types: rows that ended are stored, and newer relates stored rows.
THEOREM TypeCorrect == Spec => []TypeOK
<1>1. IInv => TypeOK
  BY DEF IInv
<1> QED  BY <1>1, AlwaysIInv, PTL

\* A request that answers that it terminated sessions has ended every one it read and
\* was not to spare.
THEOREM TerminationsAreComplete == Spec => []AnsweredMeansEnded
<1>1. IInv => AnsweredMeansEnded
  BY DEF IInv, SeenAccounted, AnsweredMeansEnded
<1> QED  BY <1>1, AlwaysIInv, PTL

\* Of one step: what is ended stays so, or the row goes.
LEMMA EndedStep ==
  ASSUME IInv, [Next]_vars
  PROVE  \A s \in ended : s \in ended' \/ s \notin created'
<1>1. CASE UNCHANGED ended
  BY <1>1
<1>2. ASSUME NEW r \in Request, NEW s \in Session, Maintain(r, s) PROVE UNCHANGED ended
  BY <1>2 DEF Maintain, SaveInstance, IInv, HeldStored
<1>3. ASSUME NEW r \in Request, CommitLogin(r) \/ Sweep(r) \/ (\E s \in Session : RevokeOne(r, s))
      PROVE  ended \subseteq ended'
  BY <1>3 DEF CommitLogin, Sweep, RevokeOne, SaveInstance
<1>4. ASSUME NEW rows \in SUBSET Session, Cleanup(rows)
      PROVE  \A s \in ended : s \in ended' \/ s \notin created'
  BY <1>4 DEF Cleanup, Remove
<1>5. \/ UNCHANGED ended
      \/ \E r \in Request, s \in Session : Maintain(r, s)
      \/ \E r \in Request : CommitLogin(r) \/ Sweep(r) \/ (\E s \in Session : RevokeOne(r, s))
      \/ \E rows \in SUBSET Session : Cleanup(rows)
  BY DEF Next, Login, Ending, vars, stored, StartRequest, Authenticate, LoginUnlimited,
         ReadKept, StartEviction,
         Evict, InsertSession, TerminateOthers, StartSweep, AdminSelects, TerminateOne, Load,
         Logout, AnswerTermination, EndRequest, Fail
<1> QED  BY <1>1, <1>2, <1>3, <1>4, <1>5

\* No stale instance brings back a session that was ended, by whichever way.
THEOREM EndedSessionsStayEnded == Spec => EndedStaysEnded
<1>1. IInv /\ [Next]_vars => [\A s \in ended : s \in ended' \/ s \notin created']_vars
  BY EndedStep
<1> QED  BY <1>1, AlwaysIInv, PTL DEF Spec, EndedStaysEnded

-----------------------------------------------------------------------------
(* The limit.  What a login keeps is bounded because created_at is a strict  *)
(* total order of finitely many rows.                                        *)

Few(S, n) == IsFiniteSet(S) /\ Cardinality(S) <= n

Ordered ==
  /\ IsFiniteSet(created)
  /\ \A s \in created : s \notin newer[s]
  /\ \A s, t \in created : s = t \/ s \in newer[t] \/ t \in newer[s]
  /\ \A s, t \in created : t \in newer[s] => newer[t] \subseteq newer[s]

\* Less than few is few.
LEMMA FewSubset ==
  ASSUME NEW S, NEW T \in SUBSET S, NEW n \in Nat, Few(S, n)
  PROVE  Few(T, n)
BY FS_Subset, FS_CardinalityType DEF Few

LEMMA FewAdd ==
  ASSUME NEW S, NEW x, NEW n \in Nat, Few(S, n)
  PROVE  Few(S \cup {x}, n + 1)
<1>1. Cardinality(S) \in Nat /\ Cardinality(S) <= n /\ IsFiniteSet(S)
  BY FS_CardinalityType DEF Few
<1>2. /\ IsFiniteSet(S \cup {x})
      /\ Cardinality(S \cup {x}) = IF x \in S THEN Cardinality(S) ELSE Cardinality(S) + 1
  BY <1>1, FS_AddElement
<1> QED  BY <1>1, <1>2 DEF Few

\* The least-number principle, for sets.
LEMMA LeastNumber ==
  ASSUME NEW S \in SUBSET Nat, S # {}
  PROVE  \E m \in S : \A n \in S : m <= n
<1> DEFINE R == {p \in Nat \X Nat : p[1] < p[2]}
<1>1. IsWellFoundedOn(R, Nat)
  BY NatLessThanWellFounded DEF OpToRel
<1> HIDE DEF R
<1>2. PICK m \in S : \A n \in S : <<n, m>> \notin R
  BY <1>1, WFMin
<1>3. ASSUME NEW n \in S PROVE m <= n
  <2>1. <<n, m>> \notin R
    BY <1>2
  <2> QED  BY <2>1 DEF R
<1> QED  BY <1>3

\* How many of some rows are newer than s.
Rank(s, rows) == Cardinality(newer[s] \cap rows)

LEMMA RankType ==
  ASSUME TypeOK, Ordered, NEW rows \in SUBSET created, NEW s \in created
  PROVE  /\ Rank(s, rows) \in Nat
         /\ IsFiniteSet(newer[s] \cap rows)
<1>1. IsFiniteSet(newer[s] \cap rows)
  BY FS_Subset DEF Ordered, TypeOK
<1> QED  BY <1>1, FS_CardinalityType DEF Rank

\* A newer row has a smaller rank.
LEMMA RankDecreases ==
  ASSUME TypeOK, Ordered, NEW rows \in SUBSET created, NEW s \in created, NEW t \in rows,
         t \in newer[s]
  PROVE  Rank(t, rows) < Rank(s, rows)
<1>1. (newer[t] \cap rows) \cup {t} \subseteq newer[s] \cap rows
  BY DEF Ordered
<1>2. t \notin newer[t] \cap rows
  BY DEF Ordered
<1>3. Cardinality((newer[t] \cap rows) \cup {t}) = Rank(t, rows) + 1
  BY <1>2, RankType, FS_AddElement DEF Rank
<1>4. Cardinality((newer[t] \cap rows) \cup {t}) <= Rank(s, rows)
  BY <1>1, RankType, FS_Subset DEF Rank
<1>5. Rank(s, rows) \in Nat /\ Rank(t, rows) \in Nat
  BY RankType
<1> QED  BY <1>3, <1>4, <1>5

\* The n newest of some rows are n at most.
LEMMA NewestFew ==
  ASSUME TypeOK, Ordered, NEW rows \in SUBSET created, NEW n \in Nat \ {0}
  PROVE  Few(Newest(n, rows), n)
<1> DEFINE K == Newest(n, rows)
<1>1. \A s \in rows : s \in K <=> Rank(s, rows) < n
  BY DEF Newest, Rank
<1>2. K \subseteq rows
  BY DEF Newest
<1>3. IsFiniteSet(K)
  BY <1>2, FS_Subset DEF Ordered
<1>0. \A s \in rows : Rank(s, rows) \in Nat
  BY RankType
<1> HIDE DEF K
<1>4. ASSUME K # {} PROVE Cardinality(K) <= n
  <2> DEFINE D == {n - Rank(s, rows) : s \in K}
  <2>1. D \subseteq Nat /\ D # {}
    BY <1>0, <1>1, <1>2, <1>4
  <2>2. PICK m \in D : \A d \in D : m <= d
    BY <2>1, LeastNumber
  <2>3. PICK s \in K : m = n - Rank(s, rows)
    OBVIOUS
  <2>4. \A t \in K : n - Rank(s, rows) <= n - Rank(t, rows)
    BY <2>2, <2>3
  <2>5. \A t \in K : Rank(t, rows) <= Rank(s, rows)
    BY <2>4, <1>0, <1>2
  <2>6. K \subseteq (newer[s] \cap rows) \cup {s}
    <3> SUFFICES ASSUME NEW t \in K, t # s PROVE t \in newer[s]
      BY <1>2
    <3>1. ~(Rank(s, rows) < Rank(t, rows))
      BY <2>5, <1>0, <1>2
    <3>2. s \notin newer[t]
      BY <3>1, <1>2, RankDecreases
    <3> QED  BY <3>2, <1>2 DEF Ordered
  <2>7. Few(newer[s] \cap rows, n - 1) /\ n - 1 \in Nat
    <3>1. s \in rows /\ Rank(s, rows) < n /\ Rank(s, rows) \in Nat
      BY <1>0, <1>1, <1>2
    <3>2. IsFiniteSet(newer[s] \cap rows)
      BY <3>1, RankType
    <3> QED  BY <3>1, <3>2 DEF Few, Rank
  <2>8. Few((newer[s] \cap rows) \cup {s}, n)
    <3>1. Few((newer[s] \cap rows) \cup {s}, (n - 1) + 1)
      BY <2>7, FewAdd
    <3> QED  BY <3>1
  <2> QED  BY <2>6, <2>8, FewSubset DEF Few
<1>6. K = {} => Cardinality(K) <= n
  BY FS_EmptySet
<1> QED  BY <1>3, <1>4, <1>6 DEF Few, K
\* created_at still orders the rows when some are removed, or when one is added.
LEMMA RemoveOrdered ==
  ASSUME TypeOK, Ordered, NEW rows, Remove(rows)
  PROVE  Ordered'
<1>1. IsFiniteSet(created')
  BY FS_Subset DEF Ordered, Remove
<1>2. \A s \in created' : s \in created /\ newer'[s] = newer[s] \ rows
  BY DEF Remove, TypeOK
<1> QED  BY <1>1, <1>2 DEF Ordered, Remove

LEMMA AddOrdered ==
  ASSUME TypeOK, Ordered, NEW s \in Session \ created, Add(s)
  PROVE  Ordered'
<1>1. IsFiniteSet(created')
  BY FS_AddElement DEF Ordered, Add
<1>2. \A t \in created : newer'[t] = newer[t] \cup {s}
  BY DEF Add, TypeOK
<1>3. newer'[s] = {} /\ created' = created \cup {s}
  BY DEF Add
<1>4. \A t \in created : newer[t] \subseteq created
  BY DEF TypeOK
<1> QED  BY <1>1, <1>2, <1>3, <1>4 DEF Ordered

LEMMA OrderedStep ==
  ASSUME IInv, Ordered, [Next]_vars
  PROVE  Ordered'
<1>1. CASE UNCHANGED order
  BY <1>1 DEF order, Ordered
<1>2. ASSUME NEW rows, Remove(rows) PROVE Ordered'
  BY <1>2, RemoveOrdered DEF IInv
<1>3. ASSUME NEW s \in Session, s \notin created, Add(s) PROVE Ordered'
  BY <1>3, AddOrdered DEF IInv
<1>4. UNCHANGED order \/ (\E rows : Remove(rows)) \/ (\E s \in Session \ created : Add(s))
  BY DEF Next, Login, Ending, vars, stored, StartRequest, Authenticate, LoginUnlimited,
         ReadKept, StartEviction,
         Evict, InsertSession, CommitLogin, TerminateOthers, StartSweep, AdminSelects,
         TerminateOne, Load, RevokeOne, Maintain, SaveInstance, Sweep, Logout, AnswerTermination,
         EndRequest, Fail, Cleanup
<1> QED  BY <1>1, <1>2, <1>3, <1>4

\* What a login with a limit keeps is few, and after its UPDATE so is what it does not end.
LimitInv ==
  /\ Ordered
  /\ \A r \in Request :
       /\ at[r] = "limiting" => Few(work[r], Limit)
       /\ at[r] \in Evicting => Few((seen[r] \ ended) \ work[r], Limit)

LEMMA InitLimitInv == Init => LimitInv
BY FS_EmptySet DEF Init, LimitInv, Ordered, Evicting

\* A request that is not at its eviction any more, or stays at it and holds what it held,
\* has no more left.
LEMMA StaysLimited ==
  ASSUME LimitInv, Ordered', NEW r \in Request,
         \A q \in Request \ {r} :
           /\ at'[q] = at[q] /\ work'[q] = work[q] /\ seen'[q] = seen[q]
           /\ at[q] \in Evicting => seen[q] \ ended' \subseteq seen[q] \ ended,
         at'[r] = "limiting" => Few(work'[r], Limit),
         at'[r] \in Evicting => Few((seen'[r] \ ended') \ work'[r], Limit)
  PROVE  LimitInv'
<1>1. ASSUME NEW q \in Request \ {r}, at[q] \in Evicting
      PROVE  Few((seen[q] \ ended') \ work[q], Limit)
  <2>1. Few((seen[q] \ ended) \ work[q], Limit)
    BY <1>1 DEF LimitInv
  <2>2. (seen[q] \ ended') \ work[q] \subseteq (seen[q] \ ended) \ work[q]
    BY <1>1
  <2> QED  BY <2>1, <2>2, FewSubset
<1> QED  BY <1>1 DEF LimitInv

LEMMA NextLimitInv == IInv /\ LimitInv /\ [Next]_vars => LimitInv'
<1> SUFFICES ASSUME IInv, LimitInv, [Next]_vars PROVE LimitInv'
  OBVIOUS
<1>0. Ordered'
  BY OrderedStep DEF LimitInv
<1>a. NonTerminal \in SUBSET created /\ NonTerminal \in SUBSET Session /\ Few({}, Limit)
  BY NonTerminalType, FS_EmptySet DEF NonTerminal, Few
<1>b. Few(Newest(Limit, NonTerminal), Limit)
  BY <1>a, NewestFew DEF LimitInv, IInv
\* The steps of a login.
<1>1. ASSUME NEW r \in Request, LoginUnlimited(r) PROVE LimitInv'
  <2>1. seen[r] = {} /\ (seen'[r] \ ended') \ work'[r] = {} /\ at'[r] = "evicted"
    BY <1>1 DEF LoginUnlimited, Goto, IInv, TypeOK, SeenAccounted, Evicting
  <2>2. \A q \in Request \ {r} : at'[q] = at[q] /\ work'[q] = work[q] /\ seen'[q] = seen[q]
    BY <1>1 DEF LoginUnlimited, Goto, IInv, TypeOK
  <2> QED  BY <1>0, <1>1, <1>a, <2>1, <2>2, StaysLimited DEF LoginUnlimited, stored
<1>2. ASSUME NEW r \in Request, ReadKept(r) PROVE LimitInv'
  <2>1. seen[r] = {} /\ (seen'[r] \ ended') \ work'[r] = {}
    BY <1>2 DEF ReadKept, IInv, TypeOK, SeenAccounted, Evicting
  <2>2. \A q \in Request \ {r} : at'[q] = at[q] /\ work'[q] = work[q] /\ seen'[q] = seen[q]
    BY <1>2 DEF ReadKept, Goto, IInv, TypeOK
  <2>3. work'[r] = Newest(Limit, NonTerminal)
    BY <1>2 DEF ReadKept, IInv, TypeOK
  <2> QED  BY <1>0, <1>2, <1>a, <1>b, <2>1, <2>2, <2>3, StaysLimited DEF ReadKept, stored
<1>3. ASSUME NEW r \in Request, StartEviction(r) PROVE LimitInv'
  <2>1. Few(work[r], Limit)
    BY <1>3 DEF StartEviction, LimitInv
  <2>2. (seen'[r] \ ended') \ work'[r] \subseteq work[r] /\ at'[r] = "updating"
    BY <1>3 DEF StartEviction, Goto, IInv, TypeOK
  <2>3. \A q \in Request \ {r} : at'[q] = at[q] /\ work'[q] = work[q] /\ seen'[q] = seen[q]
    BY <1>3 DEF StartEviction, Goto, IInv, TypeOK
  <2>4. Few((seen'[r] \ ended') \ work'[r], Limit)
    BY <2>1, <2>2, FewSubset
  <2> QED  BY <1>0, <1>3, <2>2, <2>3, <2>4, StaysLimited DEF StartEviction, stored
<1>4. ASSUME NEW r \in Request, Evict(r) PROVE LimitInv'
  <2>1. Few((seen[r] \ ended) \ work[r], Limit)
    BY <1>4 DEF Evict, LimitInv, Evicting
  <2>2. work[r] \ NonTerminal \subseteq ended
    BY DEF IInv, TypeOK, HeldStored, UncommittedApart, NonTerminal, Committed
  <2>3. (seen'[r] \ ended') \ work'[r] = (seen[r] \ ended) \ work[r] /\ at'[r] = "evicted"
    BY <1>4, <2>2 DEF Evict, Goto, stored, IInv, TypeOK
  <2>4. \A q \in Request \ {r} : at'[q] = at[q] /\ work'[q] = work[q] /\ seen'[q] = seen[q]
    BY <1>4 DEF Evict, Goto, IInv, TypeOK
  <2> QED  BY <1>0, <1>4, <2>1, <2>3, <2>4, StaysLimited DEF Evict, stored
<1>5. ASSUME NEW r \in Request, NEW s \in Session, InsertSession(r, s) PROVE LimitInv'
  <2>1. Few((seen[r] \ ended) \ work[r], Limit)
    BY <1>5 DEF InsertSession, LimitInv, Evicting
  <2>2. at'[r] = "created" /\ \A q \in Request \ {r} : at'[q] = at[q]
    BY <1>5 DEF InsertSession, Goto, IInv, TypeOK
  <2> QED  BY <1>0, <1>5, <2>1, <2>2, StaysLimited DEF InsertSession
\* Any other step of a request leaves it elsewhere.
<1>6. ASSUME NEW r \in Request, ended \subseteq ended',
             at'[r] \notin Evicting \cup {"limiting"},
             \A q \in Request \ {r} :
               at'[q] = at[q] /\ work'[q] = work[q] /\ seen'[q] = seen[q]
      PROVE  LimitInv'
  BY <1>0, <1>6, StaysLimited
<1>7. ASSUME NEW r \in Request, CommitLogin(r) PROVE LimitInv'
  BY <1>6, <1>7 DEF CommitLogin, IInv, TypeOK, Evicting
<1>8. ASSUME NEW r \in Request, NEW actor \in BOOLEAN, StartRequest(r, actor) PROVE LimitInv'
  BY <1>6, <1>8 DEF StartRequest, Goto, stored, IInv, TypeOK, Evicting
<1>9. ASSUME NEW r \in Request, NEW s \in Session, Authenticate(r, s) PROVE LimitInv'
  BY <1>6, <1>9 DEF Authenticate, Goto, stored, IInv, TypeOK, Evicting
<1>10. ASSUME NEW r \in Request, NEW stage \in {"terminating", "maintaining", "sweeping"},
              NEW rows, Load(r, stage, rows)
       PROVE  LimitInv'
  BY <1>6, <1>10 DEF Load, Goto, stored, IInv, TypeOK, Evicting
<1>11. ASSUME NEW r \in Request, NEW s \in Session, RevokeOne(r, s) \/ Maintain(r, s)
       PROVE  LimitInv'
  <2>1. ended \subseteq ended'
    BY <1>11 DEF RevokeOne, Maintain, SaveInstance, IInv, HeldStored
  <2> QED  BY <1>6, <1>11, <2>1 DEF RevokeOne, Maintain, SaveInstance, IInv, TypeOK, Evicting
<1>12. ASSUME NEW r \in Request, Sweep(r) \/ Logout(r) \/ AnswerTermination(r) PROVE LimitInv'
  BY <1>6, <1>12 DEF Sweep, Logout, AnswerTermination, Goto, stored, IInv, TypeOK, Evicting
<1>13. ASSUME NEW r \in Request, EndRequest(r) \/ Fail(r) PROVE LimitInv'
  BY <1>6, <1>13 DEF EndRequest, Fail, Finish, Goto, stored, IInv, TypeOK, Evicting
<1>14. ASSUME NEW r \in Request, Ending(r) PROVE LimitInv'
  BY <1>10, <1>11, <1>12, <1>14
  DEF Ending, TerminateOthers, StartSweep, AdminSelects, TerminateOne
\* Rows that a request has seen are not removed.
<1>15. ASSUME NEW rows \in SUBSET Session, Cleanup(rows) PROVE LimitInv'
  <2>1. UNCHANGED requestVars /\ \A r \in Request : seen[r] \ ended' = seen[r] \ ended
    BY <1>15 DEF Cleanup, Unused
  <2> QED  BY <1>0, <2>1 DEF LimitInv, requestVars
<1>16. CASE UNCHANGED vars
  BY <1>0, <1>16 DEF LimitInv, vars, stored, requestVars
<1> QED
  BY <1>1, <1>2, <1>3, <1>4, <1>5, <1>7, <1>8, <1>9, <1>13, <1>14, <1>15, <1>16 DEF Next, Login

\* When a login with a limit commits, no more than Limit are left of the sessions that
\* were in use when its UPDATE started.
THEOREM LimitedLoginsEvict == Spec => LimitedLoginEvicts
<1> DEFINE A == \A r \in Request :
                  at[r] = "created" /\ at'[r] = "idle" /\ mine[r] \in created' =>
                    Cardinality(seen[r] \ ended') <= Limit
<1>1. ASSUME IInv, LimitInv, [Next]_vars PROVE A
  <2> SUFFICES ASSUME NEW r \in Request, at[r] = "created", at'[r] = "idle", mine[r] \in created'
               PROVE  Cardinality(seen[r] \ ended') <= Limit
    OBVIOUS
  <2>1. Few((seen[r] \ ended) \ work[r], Limit)
    BY <1>1 DEF LimitInv, Evicting
  <2>2. CASE CommitLogin(r)
    <3>1. seen[r] \ ended' = (seen[r] \ ended) \ work[r]
      BY <2>2 DEF CommitLogin
    <3> QED  BY <2>1, <3>1 DEF Few
  <2>3. CASE Fail(r)
    BY <2>3 DEF Fail, Remove
  <2>4. CommitLogin(r) \/ Fail(r)
    <3>1. ASSUME NEW q \in Request, CommitLogin(q) \/ Fail(q) PROVE q = r
      BY <1>1, <3>1 DEF CommitLogin, Fail, Finish, Goto, IInv, TypeOK
    <3>a. ASSUME NEW q \in Request, ReadKept(q)
          PROVE  \E stage \in Stages \ {"idle"} : Goto(q, stage)
      BY <3>a DEF ReadKept, Stages
    <3>b. ASSUME NEW q \in Request,
                 Login(q) \/ (\E actor \in BOOLEAN : StartRequest(q, actor))
                          \/ (\E s \in Session : Authenticate(q, s))
          PROVE  CommitLogin(q) \/ \E stage \in Stages \ {"idle"} : Goto(q, stage)
      BY <3>a, <3>b DEF Login, StartRequest, Authenticate, LoginUnlimited, StartEviction, Evict,
                        InsertSession, Stages
    <3>c. ASSUME NEW q \in Request, Ending(q)
          PROVE  UNCHANGED at \/ \E stage \in Stages \ {"idle"} : Goto(q, stage)
      BY <3>c DEF Ending, TerminateOthers, StartSweep, AdminSelects, TerminateOne, Load, RevokeOne,
                  Maintain, SaveInstance, Sweep, Logout, AnswerTermination, Stages
    <3>2. \/ \E q \in Request : CommitLogin(q) \/ Fail(q)
          \/ UNCHANGED at
          \/ \E q \in Request, stage \in Stages \ {"idle"} : Goto(q, stage)
          \/ \E q \in Request : EndRequest(q)
      BY <1>1, <3>b, <3>c DEF Next, vars, requestVars, Cleanup
    <3>3. ASSUME NEW q \in Request, EndRequest(q) PROVE FALSE
      BY <1>1, <3>3 DEF EndRequest, Finish, Goto, IInv, TypeOK
    <3>4. ASSUME NEW q \in Request, NEW stage \in Stages \ {"idle"}, Goto(q, stage) PROVE FALSE
      BY <1>1, <3>4 DEF Goto, IInv, TypeOK
    <3> QED  BY <3>1, <3>2, <3>3, <3>4
  <2> QED  BY <2>2, <2>3, <2>4
<1>2. Spec => []LimitInv
  BY AlwaysIInv, InitLimitInv, NextLimitInv, PTL DEF Spec
<1>3. IInv /\ LimitInv /\ [Next]_vars => [A]_vars
  BY <1>1
<1> QED  BY <1>2, <1>3, AlwaysIInv, PTL DEF Spec, LimitedLoginEvicts

-----------------------------------------------------------------------------
(* Credentials.                                                              *)

Changing == {"loaded", "checked", "credential loaded", "credential saved"}
Setting == Changing \cup {"principal saved"}

\* What a request holds is no newer than the row it was loaded from, and as it
\* is stored when the version is.
Sound(r) ==
  /\ r.at \in {"pending", "matched"} =>
       r.factor \in Factor /\ r.version <= factors[r.factor].version
  /\ r.at = "pending" =>
       (r.version = factors[r.factor].version => factors[r.factor].status = "inactive")
  /\ r.at = "matched" => (r.version = factors[r.factor].version => Usable(r.factor))
  /\ \A e \in r.todo :
       /\ e[2] <= factors[e[1]].version
       /\ e[2] = factors[e[1]].version => Stored(e[1])
  /\ r.at \in Changing =>
       /\ r.version <= principal.version
       /\ r.version = principal.version => r.loaded = principal.password
  /\ r.at \in Setting => r.new \in Password

\* Up to some failure the threshold was not reached; every later one is answered.
AnsweredSince(g) ==
  /\ g - expired < MaxFailedAttempts
  /\ \A n \in Nat : g < n /\ n <= failures => Answered(n)

CountInv == \E g \in 0..failures : AnsweredSince(g)

CredentialsInv ==
  /\ CredentialsTypeOK
  /\ \A w \in Client : Sound(request[w])
  /\ CountInv

Rows == [status : Statuses, version : Nat, used : BOOLEAN]
Principals == [password : Password, version : Nat, stamp : Nat]

\* Every write of a row makes it a newer one.
Newer ==
  /\ \A x \in Factor : factors'[x] # factors[x] => factors'[x].version > factors[x].version
  /\ principal'.version >= principal.version
  /\ principal'.password # principal.password => principal'.version > principal.version

LEMMA SoundKept ==
  ASSUME CredentialsTypeOK, Newer, NEW r \in RequestState, Sound(r),
         factors' \in [Factor -> Rows], principal' \in Principals
  PROVE  Sound(r)'
<1>1. /\ \A x \in Factor : factors[x].version \in Nat /\ factors'[x].version \in Nat
      /\ principal.version \in Nat /\ principal'.version \in Nat
  BY DEF CredentialsTypeOK, Rows, Principals
<1>2. r.version \in Nat /\ r.todo \subseteq Factor \X Nat
  BY DEF RequestState, RequestStages
<1>3. \A x \in Factor, v \in Nat :
        v <= factors[x].version =>
          v <= factors'[x].version /\ (v = factors'[x].version => factors'[x] = factors[x])
  BY <1>1 DEF Newer
<1>4. \A v \in Nat : v <= principal.version =>
        v <= principal'.version
        /\ (v = principal'.version => v = principal.version /\ principal'.password = principal.password)
  BY <1>1 DEF Newer
<1>5. ASSUME NEW e \in r.todo
      PROVE  e[2] <= factors'[e[1]].version /\ (e[2] = factors'[e[1]].version => Stored(e[1])')
  <2>1. e[1] \in Factor /\ e[2] \in Nat
    BY <1>2
  <2> QED  BY <2>1, <1>3 DEF Sound, Stored
<1>6. ASSUME r.at \in {"pending", "matched"}
      PROVE  r.factor \in Factor /\ r.version <= factors'[r.factor].version
             /\ (r.version = factors'[r.factor].version =>
                   factors'[r.factor] = factors[r.factor] /\ r.version = factors[r.factor].version)
  BY <1>6, <1>2, <1>3 DEF Sound
<1>7. r.at = "matched" => (r.version = factors'[r.factor].version => Usable(r.factor)')
  BY <1>6 DEF Sound, Usable
<1>8. r.at = "pending" => (r.version = factors'[r.factor].version => factors'[r.factor].status = "inactive")
  BY <1>6 DEF Sound
<1> QED  BY <1>2, <1>4, <1>5, <1>6, <1>7, <1>8 DEF Sound

RequestsSound == \A w \in Client : Sound(request[w])

\* A step of one request, and what it writes.
StepOf(w) ==
  /\ CredentialsTypeOK'
  /\ Newer
  /\ \A v \in Client \ {w} : request'[v] = request[v]
  /\ Sound(request[w])'

LEMMA StepSound ==
  ASSUME CredentialsTypeOK, RequestsSound, NEW w \in Client, StepOf(w)
  PROVE  RequestsSound'
<1> SUFFICES ASSUME NEW v \in Client PROVE Sound(request[v])'
  BY DEF RequestsSound
<1>1. CASE v = w
  BY <1>1 DEF StepOf
<1>2. CASE v # w
  <2>1. request'[v] = request[v] /\ request[v] \in RequestState /\ Sound(request[v])
    BY <1>2 DEF StepOf, RequestsSound, CredentialsTypeOK
  <2>2. PICK r \in RequestState : r = request[v]
    BY <2>1
  <2>3. Sound(r)'
    BY <2>1, <2>2, SoundKept DEF StepOf, CredentialsTypeOK, Rows, Principals
  <2>4. request'[v] = r
    BY <2>1, <2>2
  <2> QED  BY <2>3, <2>4 DEF Sound
<1> QED  BY <1>1, <1>2


LEMMA RequestStep ==
  ASSUME CredentialsTypeOK, RequestsSound, NEW w \in Client, NEW r \in RequestState, Sound(r),
         request' = [request EXCEPT ![w] = r], Newer,
         factors' \in [Factor -> Rows], principal' \in Principals,
         credential' \in [Row -> [password : Password \cup {None}, version : Nat]],
         history' \subseteq [id : Nat, password : Password, after : SUBSET Nat],
         failures' \in Nat, expired' \in 0..failures', lockouts' \subseteq (1..failures') \X Nat,
         unrecorded' \subseteq Nat, served' \in 0 .. MaxRequests, accepted' \in [Code -> Nat]
  PROVE  StepOf(w)
<1>1. request'[w] = r /\ request' \in [Client -> RequestState]
  BY DEF CredentialsTypeOK
<1>2. Sound(r)'
  BY SoundKept
<1>3. Sound(request[w])'
  BY <1>1, <1>2 DEF Sound
<1>4. CredentialsTypeOK'
  BY <1>1 DEF CredentialsTypeOK, Rows, Principals
<1> QED  BY <1>3, <1>4 DEF StepOf, CredentialsTypeOK

LEMMA NothingNewer ==
  ASSUME CredentialsTypeOK, UNCHANGED <<factors, principal>>
  PROVE  Newer
BY DEF Newer, CredentialsTypeOK

\* A request that begins, or goes on without a write.
LEMMA BeginStep ==
  ASSUME CredentialsTypeOK, RequestsSound, NEW w \in Client, NEW r \in RequestState, Sound(r),
         Begin(w, r), UNCHANGED <<factorVars, passwordVars, attemptVars>>
  PROVE  StepOf(w)
<1>1. served' \in 0 .. MaxRequests
  BY SettingsAssumption DEF Begin, CredentialsTypeOK
<1>2. Newer
  BY NothingNewer DEF factorVars, passwordVars
<1> QED
  BY <1>1, <1>2, RequestStep
  DEF Begin, CredentialsTypeOK, factorVars, passwordVars, attemptVars, Rows, Principals

LEMMA ContinueStep ==
  ASSUME CredentialsTypeOK, RequestsSound, NEW w \in Client, NEW r \in RequestState, Sound(r),
         NEW from, Continue(w, from, r), UNCHANGED <<factorVars, passwordVars, attemptVars>>
  PROVE  StepOf(w)
<1>1. Newer
  BY NothingNewer DEF factorVars, passwordVars
<1> QED
  BY <1>1, RequestStep
  DEF Continue, CredentialsTypeOK, factorVars, passwordVars, attemptVars, Rows, Principals

\* A request that writes one factor.
LEMMA WriteStep ==
  ASSUME CredentialsTypeOK, RequestsSound, NEW w \in Client, NEW r \in RequestState, Sound(r),
         NEW from, Continue(w, from, r),
         NEW x \in Factor, NEW status \in Statuses, NEW used \in BOOLEAN,
         factors' = Written(x, status, used),
         accepted' \in [Code -> Nat], UNCHANGED <<passwordVars, attemptVars>>
  PROVE  StepOf(w)
<1>1. factors' \in [Factor -> Rows]
  BY DEF Written, CredentialsTypeOK, Rows
<1>2. Newer
  BY DEF Newer, Written, CredentialsTypeOK, passwordVars
<1> QED
  BY <1>1, <1>2, RequestStep
  DEF Continue, CredentialsTypeOK, passwordVars, attemptVars, Principals

\* A request that writes other rows than factors and the principal.
LEMMA RecordStep ==
  ASSUME CredentialsTypeOK, RequestsSound, NEW w \in Client, NEW r \in RequestState, Sound(r),
         NEW from, Continue(w, from, r), UNCHANGED <<factorVars, principal>>,
         credential' \in [Row -> [password : Password \cup {None}, version : Nat]],
         history' \subseteq [id : Nat, password : Password, after : SUBSET Nat],
         failures' \in Nat, expired' \in 0..failures', lockouts' \subseteq (1..failures') \X Nat,
         unrecorded' \subseteq Nat
  PROVE  StepOf(w)
<1>1. Newer
  BY NothingNewer DEF factorVars
<1> QED
  BY <1>1, RequestStep
  DEF Continue, CredentialsTypeOK, factorVars, Rows, Principals

-----------------------------------------------------------------------------
LEMMA IdleSound == Idle \in RequestState /\ Sound(Idle)
BY SettingsAssumption DEF Idle, Sound, RequestState, RequestStages, Changing, Setting

\* A request at a later stage holds what it held.
LEMMA AtSound ==
  ASSUME NEW r \in RequestState, Sound(r), NEW stage \in RequestStages \ {"pending", "matched"},
         stage \in Setting => r.at \in Changing
  PROVE  [r EXCEPT !.at = stage] \in RequestState /\ Sound([r EXCEPT !.at = stage])
<1> DEFINE s == [r EXCEPT !.at = stage]
<1>1. s \in RequestState
  BY DEF RequestState
<1>2. s.at = stage /\ s.version = r.version /\ s.factor = r.factor /\ s.todo = r.todo
      /\ s.loaded = r.loaded /\ s.new = r.new
  BY DEF RequestState
<1> HIDE DEF s
<1>3. Sound(s)
  BY <1>2 DEF Sound, Setting
<1> QED  BY <1>1, <1>3 DEF s

LEMMA Rewritten ==
  ASSUME NEW old \in Rows, NEW status \in Statuses, NEW new,
         new = [old EXCEPT !.status = status, !.version = @ + 1]
  PROVE  new \in Rows /\ new.version > old.version
<1>1. old.version \in Nat /\ old.used \in BOOLEAN
  BY DEF Rows
<1>2. old = [status |-> old.status, version |-> old.version, used |-> old.used]
  BY DEF Rows
<1>3. new = [status |-> status, version |-> old.version + 1, used |-> old.used]
  BY <1>2
<1>4. new.version = old.version + 1
  BY <1>3
<1>5. new \in Rows
  BY <1>1, <1>3 DEF Rows
<1> QED  BY <1>1, <1>4, <1>5

LEMMA SetUpStep ==
  ASSUME CredentialsTypeOK, RequestsSound, NEW w \in Client, SetUp(w)
  PROVE  StepOf(w)
<1> USE IdleSound
<1>0. request[w] \in RequestState /\ Sound(request[w])
  BY DEF CredentialsTypeOK, RequestsSound
<1>1. CASE BeginSetup(w)
  <2>1. [Idle EXCEPT !.at = "setup", !.flow = "mfa"] \in RequestState
    BY DEF RequestState, RequestStages
  <2>2. Sound([Idle EXCEPT !.at = "setup", !.flow = "mfa"])
    BY DEF Sound, Idle, Changing, Setting
  <2> QED  BY <1>1, <2>1, <2>2, BeginStep DEF BeginSetup
<1>2. CASE DiscardPending(w)
  <2>1. At(w, "discarded") \in RequestState /\ Sound(At(w, "discarded"))
    BY <1>0, AtSound DEF At, RequestStages, Changing, Setting
  <2>a. \A x \in Factor :
          factors'[x] = IF x \in Device /\ factors[x].status = "inactive"
                        THEN [factors[x] EXCEPT !.status = "deleted", !.version = @ + 1]
                        ELSE factors[x]
    BY <1>2 DEF DiscardPending
  <2>b. \A x \in Factor : factors[x] \in Rows
    BY DEF CredentialsTypeOK, Rows
  <2>c. \A x \in Factor : factors'[x] \in Rows
    BY <2>a, <2>b, Rewritten DEF Statuses
  <2>2. factors' \in [Factor -> Rows]
    BY <1>2, <2>c DEF DiscardPending
  <2>3. Newer
    <3>1. \A x \in Factor : factors'[x] # factors[x] => factors'[x].version > factors[x].version
      BY <2>a, <2>b, Rewritten DEF Statuses
    <3>2. principal' = principal /\ principal.version \in Nat
      BY <1>2 DEF DiscardPending, passwordVars, CredentialsTypeOK
    <3> QED  BY <3>1, <3>2 DEF Newer
  <2> QED
    BY <1>2, <2>1, <2>2, <2>3, RequestStep
    DEF DiscardPending, Continue, CredentialsTypeOK, passwordVars, attemptVars, Principals
<1>3. ASSUME NEW d \in Device, CreateTotp(w, d) PROVE StepOf(w)
  BY <1>3, WriteStep DEF CreateTotp, Factor, Statuses, CredentialsTypeOK
<1>4. ASSUME NEW d \in Device, BeginActivate(w, d) PROVE StepOf(w)
  <2> DEFINE r == [Idle EXCEPT !.at = "pending", !.flow = "mfa", !.factor = d,
                               !.version = factors[d].version]
  <2>1. d \in Factor /\ factors[d].version \in Nat
    BY DEF Factor, CredentialsTypeOK
  <2>2. r \in RequestState
    BY <2>1 DEF RequestState, RequestStages
  <2>3. Sound(r)
    BY <1>4, <2>1 DEF Sound, Idle, Changing, Setting, BeginActivate
  <2> QED  BY <1>4, <2>2, <2>3, BeginStep DEF BeginActivate
<1>5. CASE ActivateTotp(w)
  <2> DEFINE r == [Idle EXCEPT !.at = "generating", !.flow = "mfa", !.left = CodeCount]
  <2>1. r \in RequestState
    BY SettingsAssumption DEF RequestState, RequestStages
  <2>2. Sound(r)
    BY DEF Sound, Idle, Changing, Setting
  <2>3. request[w].factor \in Factor
    BY <1>0, <1>5 DEF Sound, ActivateTotp, Continue
  <2> QED  BY <1>5, <2>1, <2>2, <2>3, WriteStep DEF ActivateTotp, Statuses, CredentialsTypeOK
<1>6. ASSUME NEW c \in Code, GenerateCode(w, c) PROVE StepOf(w)
  <2> DEFINE r == IF request[w].left = 1 THEN Idle ELSE [request[w] EXCEPT !.left = @ - 1]
  <2>1. r \in RequestState
    <3>1. request[w].left \in Nat \ {0}
      BY <1>0, <1>6 DEF GenerateCode, RequestState
    <3> QED  BY <1>0, <3>1 DEF RequestState
  <2>2. Sound(r)
    <3> DEFINE s == [request[w] EXCEPT !.left = @ - 1]
    <3>1. /\ s.at = request[w].at /\ s.version = request[w].version /\ s.loaded = request[w].loaded
          /\ s.factor = request[w].factor /\ s.todo = request[w].todo /\ s.new = request[w].new
      BY <1>0 DEF RequestState
    <3> HIDE DEF s
    <3>2. Sound(s)
      BY <1>0, <3>1 DEF Sound
    <3> QED  BY <3>2 DEF s
  <2> QED  BY <1>6, <2>1, <2>2, WriteStep DEF GenerateCode, Statuses, Factor, CredentialsTypeOK
<1>7. CASE RegenerateBackupCodes(w)
  <2>1. [Idle EXCEPT !.at = "revoking codes", !.flow = "mfa"] \in RequestState
    BY DEF RequestState, RequestStages
  <2>2. Sound([Idle EXCEPT !.at = "revoking codes", !.flow = "mfa"])
    BY DEF Sound, Idle, Changing, Setting
  <2> QED  BY <1>7, <2>1, <2>2, BeginStep DEF RegenerateBackupCodes
<1>8. CASE RevokeUnusedCodes(w)
  <2> DEFINE q == At(w, "generating")
  <2> DEFINE r == [q EXCEPT !.left = CodeCount]
  <2>1. r \in RequestState
    <3>1. q \in RequestState
      BY <1>0, AtSound DEF At, RequestStages, Setting, Changing
    <3> HIDE DEF q
    <3> QED  BY <3>1, SettingsAssumption DEF RequestState
  <2>2. Sound(r)
    BY <1>0 DEF At, RequestState, Sound, Changing, Setting
  <2>a. \A x \in Factor :
          factors'[x] = IF x \in Code /\ Stored(x) /\ ~factors[x].used
                        THEN [factors[x] EXCEPT !.status = "revoked", !.version = @ + 1]
                        ELSE factors[x]
    BY <1>8 DEF RevokeUnusedCodes
  <2>b. \A x \in Factor : factors[x] \in Rows
    BY DEF CredentialsTypeOK, Rows
  <2>c. \A x \in Factor : factors'[x] \in Rows
    BY <2>a, <2>b, Rewritten DEF Statuses
  <2>3. factors' \in [Factor -> Rows]
    BY <1>8, <2>c DEF RevokeUnusedCodes
  <2>4. Newer
    <3>1. \A x \in Factor : factors'[x] # factors[x] => factors'[x].version > factors[x].version
      BY <2>a, <2>b, Rewritten DEF Statuses
    <3>2. principal' = principal /\ principal.version \in Nat
      BY <1>8 DEF RevokeUnusedCodes, passwordVars, CredentialsTypeOK
    <3> QED  BY <3>1, <3>2 DEF Newer
  <2> QED
    BY <1>8, <2>1, <2>2, <2>3, <2>4, RequestStep
    DEF RevokeUnusedCodes, Continue, CredentialsTypeOK, passwordVars, attemptVars, Principals
<1> QED
  BY <1>1, <1>2, <1>3, <1>4, <1>5, <1>6, <1>7, <1>8 DEF SetUp

LEMMA VerifyStep ==
  ASSUME CredentialsTypeOK, RequestsSound, NEW w \in Client, Verify(w)
  PROVE  StepOf(w)
<1> USE IdleSound
<1>0. request[w] \in RequestState /\ Sound(request[w])
  BY DEF CredentialsTypeOK, RequestsSound
<1>1. ASSUME NEW flow \in {"login", "disable"}, PresentCode(w, flow) PROVE StepOf(w)
  <2> DEFINE r == [Idle EXCEPT !.at = "verifying", !.flow = flow]
  <2>1. r \in RequestState
    BY DEF RequestState, RequestStages
  <2>2. Sound(r)
    BY DEF Sound, Idle, Changing, Setting
  <2> QED  BY <1>1, <2>1, <2>2, BeginStep DEF PresentCode
<1>2. ASSUME NEW x \in Factor, MatchCode(w, x) PROVE StepOf(w)
  <2> DEFINE r == [At(w, "matched") EXCEPT !.factor = x, !.version = factors[x].version]
  <2>1. factors[x].version \in Nat
    BY DEF CredentialsTypeOK
  <2>2. r \in RequestState
    BY <1>0, <2>1 DEF At, RequestState, RequestStages
  <2>3. r.at = "matched" /\ r.factor = x /\ r.version = factors[x].version /\ r.todo = request[w].todo
    BY <1>0 DEF At, RequestState
  <2>4. Usable(x)
    BY <1>2 DEF MatchCode
  <2> HIDE DEF r
  <2>5. Sound(r)
    <3>1. \A e \in r.todo :
            e[2] <= factors[e[1]].version /\ (e[2] = factors[e[1]].version => Stored(e[1]))
      BY <1>0, <2>3 DEF Sound
    <3>2. Usable(r.factor)
      BY <2>3, <2>4
    <3>3. r.factor \in Factor /\ r.version <= factors[r.factor].version
      BY <2>1, <2>3
    <3>4. r.at \notin Setting /\ r.at # "pending"
      BY <2>3 DEF Setting, Changing
    <3> QED  BY <3>1, <3>2, <3>3, <3>4 DEF Sound, Setting
  <2>6. Continue(w, "verifying", r) /\ UNCHANGED <<factorVars, passwordVars, attemptVars>>
    BY <1>2 DEF MatchCode, r
  <2> QED  BY <2>2, <2>5, <2>6, ContinueStep
<1>a. Accepted(w) \in RequestState /\ Sound(Accepted(w))
  BY <1>0, AtSound DEF Accepted, At, RequestStages, Changing, Setting
<1>b. request[w].at = "matched" => request[w].factor \in Factor
  BY <1>0 DEF Sound
<1>3. CASE MarkUsed(w)
  <2>1. request[w].factor \in Factor /\ factors[request[w].factor].status \in Statuses
    BY <1>3, <1>b DEF MarkUsed, Continue, CredentialsTypeOK
  <2> QED  BY <1>3, <1>a, <2>1, WriteStep DEF MarkUsed, CredentialsTypeOK
<1>4. CASE VerifyAndConsume(w)
  <2>1. request[w].factor \in Factor
    BY <1>4, <1>b DEF VerifyAndConsume, Continue
  <2>2. accepted' \in [Code -> Nat]
    BY <1>4 DEF VerifyAndConsume, CredentialsTypeOK
  <2> QED  BY <1>4, <1>a, <2>1, <2>2, WriteStep DEF VerifyAndConsume, Statuses
<1>5. CASE RejectCode(w)
  <2>1. At(w, "failed") \in RequestState /\ Sound(At(w, "failed"))
    BY <1>0, AtSound DEF At, RequestStages, Changing, Setting
  <2> QED  BY <1>5, <2>1, ContinueStep DEF RejectCode
<1> QED  BY <1>1, <1>2, <1>3, <1>4, <1>5 DEF Verify

LEMMA LoadedEntries ==
  ASSUME CredentialsTypeOK, NEW S \in SUBSET {x \in Factor : Stored(x)}, NEW e \in Loaded(S)
  PROVE  /\ e \in Factor \X Nat
         /\ e[2] <= factors[e[1]].version
         /\ Stored(e[1])
<1>1. PICK f \in S : e = <<f, factors[f].version>>
  BY DEF Loaded
<1>2. f \in Factor /\ factors[f].version \in Nat
  BY DEF CredentialsTypeOK
<1>3. e[1] = f /\ e[2] = factors[f].version
  BY <1>1
<1>4. e \in Factor \X Nat
  BY <1>1, <1>2
<1>5. e[2] <= factors[e[1]].version
  BY <1>2, <1>3
<1>6. Stored(f)
  OBVIOUS
<1>7. Stored(e[1])
  BY <1>3, <1>6
<1> QED  BY <1>4, <1>5, <1>7

\* A loop holds the rows it loads, as they are stored.
LEMMA LoadedSound ==
  ASSUME CredentialsTypeOK, NEW r \in RequestState, Sound(r), 
         NEW S \in SUBSET {x \in Factor : Stored(x)},
         NEW stage \in {"revoking devices", "revoking codes"}, NEW left \in Nat
  PROVE  /\ [r EXCEPT !.at = stage, !.todo = Loaded(S), !.left = left] \in RequestState
         /\ Sound([r EXCEPT !.at = stage, !.todo = Loaded(S), !.left = left])
<1> DEFINE s == [r EXCEPT !.at = stage, !.todo = Loaded(S), !.left = left]
<1>2. Loaded(S) \subseteq Factor \X Nat
  BY LoadedEntries
<1>3. s \in RequestState
  BY <1>2 DEF RequestState, RequestStages
<1>4. s.at = stage /\ s.todo = Loaded(S)
  BY DEF RequestState
<1>5. \A e \in Loaded(S) : e[2] <= factors[e[1]].version /\ Stored(e[1])
  BY LoadedEntries
<1> HIDE DEF s
<1>6. Sound(s)
  BY <1>4, <1>5 DEF Sound, Changing, Setting
<1> QED  BY <1>3, <1>6 DEF s

LEMMA DisableStep ==
  ASSUME CredentialsTypeOK, RequestsSound, NEW w \in Client, DisableMfa(w)
  PROVE  StepOf(w)
<1> USE IdleSound
<1>0. request[w] \in RequestState /\ Sound(request[w])
  BY DEF CredentialsTypeOK, RequestsSound
<1>1. CASE LoadDevices(w)
  <2> DEFINE S == {d \in Device : Stored(d)}
  <2> DEFINE r == [request[w] EXCEPT !.at = "revoking devices", !.todo = Loaded(S), !.left = 1]
  <2>1. S \in SUBSET {x \in Factor : Stored(x)}
    BY DEF Factor
  <2> HIDE DEF S
  <2>2. r \in RequestState /\ Sound(r)
    BY <1>0, <2>1, LoadedSound
  <2>3. r = [request[w] EXCEPT !.todo = Loaded(S), !.left = 1]
    BY <1>0, <1>1 DEF LoadDevices, Continue, RequestState
  <2>4. Continue(w, "revoking devices", r) /\ UNCHANGED <<factorVars, passwordVars, attemptVars>>
    BY <1>1, <2>3 DEF LoadDevices, S
  <2> HIDE DEF r
  <2> QED  BY <2>2, <2>4, ContinueStep
<1>2. CASE LoadCodes(w)
  <2> DEFINE S == {c \in Code : Stored(c) /\ ~factors[c].used}
  <2> DEFINE r == [request[w] EXCEPT !.at = "revoking codes", !.todo = Loaded(S), !.left = 1]
  <2>1. S \in SUBSET {x \in Factor : Stored(x)}
    BY DEF Factor
  <2> HIDE DEF S
  <2>2. r \in RequestState /\ Sound(r)
    BY <1>0, <2>1, LoadedSound
  <2>3. r = [At(w, "revoking codes") EXCEPT !.todo = Loaded(S)]
    BY <1>0, <1>2 DEF LoadCodes, Continue, RequestState, At
  <2>4. Continue(w, "revoking devices", r) /\ UNCHANGED <<factorVars, passwordVars, attemptVars>>
    BY <1>2, <2>3 DEF LoadCodes, S
  <2> HIDE DEF r
  <2> QED  BY <2>2, <2>4, ContinueStep
<1>3. ASSUME NEW stage \in {"revoking devices", "revoking codes"}, Revoke(w, stage) PROVE StepOf(w)
  <2>1. PICK e \in request[w].todo :
          /\ Continue(w, stage, [request[w] EXCEPT !.todo = @ \ {e}])
          /\ factors' = Written(e[1], "revoked", factors[e[1]].used)
    BY <1>3 DEF Revoke
  <2> DEFINE r == [request[w] EXCEPT !.todo = @ \ {e}]
  <2>2. e[1] \in Factor /\ factors[e[1]].used \in BOOLEAN
    BY <1>0 DEF RequestState, CredentialsTypeOK
  <2>3. r \in RequestState
    BY <1>0 DEF RequestState
  <2>4. /\ r.at = request[w].at /\ r.version = request[w].version /\ r.loaded = request[w].loaded
        /\ r.factor = request[w].factor /\ r.todo \subseteq request[w].todo /\ r.new = request[w].new
    BY <1>0 DEF RequestState
  <2>5. Continue(w, stage, r)
    BY <2>1
  <2> HIDE DEF r
  <2>6. Sound(r)
    BY <1>0, <2>4 DEF Sound
  <2>7. accepted' \in [Code -> Nat] /\ UNCHANGED <<passwordVars, attemptVars>>
    BY <1>3 DEF Revoke, CredentialsTypeOK
  <2> QED  BY <2>1, <2>2, <2>3, <2>5, <2>6, <2>7, WriteStep DEF Statuses
<1>4. CASE DisableReturns(w)
  BY <1>4, ContinueStep DEF DisableReturns
<1> QED  BY <1>1, <1>2, <1>3, <1>4 DEF DisableMfa

LEMMA RecordAttemptStep ==
  ASSUME CredentialsTypeOK, RequestsSound, NEW w \in Client, RecordAttempt(w)
  PROVE  StepOf(w)
<1> USE IdleSound
<1>0. request[w] \in RequestState /\ Sound(request[w])
  BY DEF CredentialsTypeOK, RequestsSound
<1>t. /\ credential \in [Row -> [password : Password \cup {None}, version : Nat]]
      /\ history \subseteq [id : Nat, password : Password, after : SUBSET Nat]
      /\ failures \in Nat /\ expired \in 0..failures /\ lockouts \subseteq (1..failures) \X Nat
      /\ unrecorded \subseteq Nat
  BY DEF CredentialsTypeOK
<1>1. CASE FailPasswordLogin(w)
  <2> DEFINE r == [Idle EXCEPT !.at = "failed", !.flow = "login"]
  <2>1. r \in RequestState
    BY DEF RequestState, RequestStages
  <2>2. Sound(r)
    BY DEF Sound, Idle, Changing, Setting
  <2> QED  BY <1>1, <2>1, <2>2, BeginStep DEF FailPasswordLogin
<1>2. CASE RecordFailure(w)
  <2> DEFINE q == At(w, "recorded")
  <2> DEFINE r == [q EXCEPT !.failure = failures + 1]
  <2>1. q \in RequestState /\ Sound(q)
    BY <1>0, AtSound DEF At, RequestStages, Changing, Setting
  <2>2. Continue(w, "failed", r)
    BY <1>2 DEF RecordFailure
  <2> HIDE DEF q
  <2>3. r \in RequestState
    BY <1>t, <2>1 DEF RequestState
  <2>4. /\ r.at = q.at /\ r.version = q.version /\ r.loaded = q.loaded /\ r.factor = q.factor
        /\ r.todo = q.todo /\ r.new = q.new
    BY <2>1 DEF RequestState
  <2> HIDE DEF r
  <2>5. Sound(r)
    BY <2>1, <2>4 DEF Sound
  <2>6. /\ failures' \in Nat /\ expired' \in 0..failures'
        /\ lockouts' \subseteq (1..failures') \X Nat /\ unrecorded' \subseteq Nat
    <3>1. failures' = failures + 1 /\ UNCHANGED <<expired, lockouts, unrecorded>>
      BY <1>2 DEF RecordFailure
    <3>2. 1..failures \subseteq 1..failures'
      BY <1>t, <3>1
    <3> QED  BY <1>t, <3>1, <3>2
  <2> QED  BY <1>2, <1>t, <2>2, <2>3, <2>5, <2>6, RecordStep DEF RecordFailure, passwordVars
<1>3. CASE CountFailures(w)
  <2>1. At(w, "locking") \in RequestState /\ Sound(At(w, "locking"))
    BY <1>0, AtSound DEF At, RequestStages, Changing, Setting
  <2> QED  BY <1>3, <2>1, ContinueStep DEF CountFailures
<1>4. CASE RecordLockout(w)
  <2>1. /\ failures' \in Nat /\ expired' \in 0..failures'
        /\ lockouts' \subseteq (1..failures') \X Nat /\ unrecorded' \subseteq Nat
    <3>1. failures' = failures + 1 /\ UNCHANGED <<expired, unrecorded>>
          /\ lockouts' = lockouts \cup {<<failures + 1, request[w].failure>>}
      BY <1>4 DEF RecordLockout
    <3>2. 1..failures \subseteq 1..failures' /\ failures + 1 \in 1..failures'
      BY <1>t, <3>1
    <3>3. request[w].failure \in Nat
      BY <1>0 DEF RequestState
    <3> QED  BY <1>t, <3>1, <3>2, <3>3
  <2> QED  BY <1>4, <1>t, <2>1, RecordStep DEF RecordLockout, passwordVars
<1> QED  BY <1>1, <1>2, <1>3, <1>4 DEF RecordAttempt

LEMMA SetPasswordStep ==
  ASSUME CredentialsTypeOK, RequestsSound, NEW w \in Client, SetPassword(w)
  PROVE  StepOf(w)
<1> USE IdleSound
<1>0. request[w] \in RequestState /\ Sound(request[w])
  BY DEF CredentialsTypeOK, RequestsSound
<1>t. /\ credential \in [Row -> [password : Password \cup {None}, version : Nat]]
      /\ history \subseteq [id : Nat, password : Password, after : SUBSET Nat]
      /\ failures \in Nat /\ expired \in 0..failures /\ lockouts \subseteq (1..failures) \X Nat
      /\ unrecorded \subseteq Nat
  BY DEF CredentialsTypeOK
<1>1. ASSUME NEW flow \in {"change", "reset", "admin"}, NEW new \in Password,
             LoadPrincipal(w, flow, new)
      PROVE  StepOf(w)
  <2> DEFINE r == [Idle EXCEPT !.at = "loaded", !.flow = flow, !.new = new,
                               !.loaded = principal.password, !.version = principal.version]
  <2>1. principal.password \in Password /\ principal.version \in Nat
    BY DEF CredentialsTypeOK
  <2>2. r \in RequestState
    BY <2>1 DEF RequestState, RequestStages
  <2>3. Sound(r)
    BY <2>1 DEF Sound, Idle, Changing, Setting
  <2> QED  BY <1>1, <2>2, <2>3, BeginStep DEF LoadPrincipal
<1>2. ASSUME NEW current, CheckPassword(w, current) PROVE StepOf(w)
  <2>1. At(w, "checked") \in RequestState /\ Sound(At(w, "checked"))
    BY <1>0, <1>2, AtSound DEF At, RequestStages, Changing, Setting, CheckPassword, Continue
  <2> QED  BY <1>2, <2>1, ContinueStep DEF CheckPassword
<1>3. ASSUME NEW cr \in Row \cup {None}, LoadCredential(w, cr) PROVE StepOf(w)
  <2> DEFINE q == At(w, "credential loaded")
  <2> DEFINE v == IF cr = None THEN 0 ELSE credential[cr].version
  <2> DEFINE r == [q EXCEPT !.row = cr, !.row_version = v]
  <2>1. q \in RequestState /\ Sound(q)
    BY <1>0, <1>3, AtSound DEF At, RequestStages, Changing, Setting, LoadCredential, Continue
  <2>2. v \in Nat
    BY DEF CredentialsTypeOK
  <2>3. Continue(w, "checked", r) /\ UNCHANGED <<factorVars, passwordVars, attemptVars>>
    BY <1>3 DEF LoadCredential
  <2> HIDE DEF q, v
  <2>4. r \in RequestState
    BY <2>1, <2>2 DEF RequestState
  <2>5. /\ r.at = q.at /\ r.version = q.version /\ r.loaded = q.loaded /\ r.factor = q.factor /\ r.todo = q.todo
        /\ r.new = q.new
    BY <2>1 DEF RequestState
  <2> HIDE DEF r
  <2>6. Sound(r)
    BY <2>1, <2>5 DEF Sound
  <2> QED  BY <2>3, <2>4, <2>6, ContinueStep
<1>n. request[w].at \in Setting => request[w].new \in Password
  BY <1>0 DEF Sound
<1>4. ASSUME NEW cr \in Row, SaveCredential(w, cr) PROVE StepOf(w)
  <2>1. At(w, "credential saved") \in RequestState /\ Sound(At(w, "credential saved"))
    BY <1>0, <1>4, AtSound DEF At, RequestStages, Changing, Setting, SaveCredential, Continue
  <2>2. credential' \in [Row -> [password : Password \cup {None}, version : Nat]]
    <3>1. request[w].new \in Password
      BY <1>4, <1>n DEF SaveCredential, Continue, Setting, Changing
    <3>2. credential[cr].version + 1 \in Nat
      BY <1>t
    <3> QED  BY <1>4, <1>t, <3>1, <3>2 DEF SaveCredential
  <2> QED  BY <1>4, <1>t, <2>1, <2>2, RecordStep DEF SaveCredential, attemptVars
<1>5. CASE SavePrincipal(w)
  <2>1. At(w, "principal saved") \in RequestState /\ Sound(At(w, "principal saved"))
    BY <1>0, <1>5, AtSound DEF At, RequestStages, Changing, Setting, SavePrincipal, Continue
  <2>2. principal \in Principals /\ request[w].new \in Password
    BY <1>5, <1>n DEF SavePrincipal, Continue, Changing, Setting, CredentialsTypeOK, Principals
  <2>a. principal = [password |-> principal.password, version |-> principal.version,
                     stamp |-> principal.stamp]
    BY <2>2 DEF Principals
  <2>b. principal' = [password |-> request[w].new, version |-> principal.version + 1,
                      stamp |-> principal.stamp]
    BY <1>5, <2>a DEF SavePrincipal
  <2>c. principal.version \in Nat /\ principal.stamp \in Nat
    BY <2>2 DEF Principals
  <2>3. principal'.version = principal.version + 1 /\ principal' \in Principals
    BY <2>2, <2>b, <2>c DEF Principals
  <2>4. Newer
    <3>1. factors' = factors
      BY <1>5 DEF SavePrincipal, factorVars
    <3> QED  BY <2>3, <2>c, <3>1 DEF Newer
  <2> QED
    BY <1>5, <1>t, <2>1, <2>3, <2>4, RequestStep
    DEF SavePrincipal, Continue, factorVars, attemptVars, CredentialsTypeOK, Rows
<1>6. CASE RecordHistory(w)
  <2>1. At(w, "history recorded") \in RequestState /\ Sound(At(w, "history recorded"))
    BY <1>0, AtSound DEF At, RequestStages, Changing, Setting
  <2>2. request[w].new \in Password /\ request[w].version \in Nat
    BY <1>0, <1>6, <1>n DEF RecordHistory, Continue, RequestState, Setting
  <2>3. {entry.id : entry \in history} \in SUBSET Nat
    BY <1>t
  <2>4. history' \subseteq [id : Nat, password : Password, after : SUBSET Nat]
    <3>1. [id |-> request[w].version + 1, password |-> request[w].new,
           after |-> {entry.id : entry \in history}] \in [id : Nat, password : Password, after : SUBSET Nat]
      BY <2>2, <2>3
    <3> QED  BY <1>6, <1>t, <3>1 DEF RecordHistory
  <2> QED  BY <1>6, <1>t, <2>1, <2>4, RecordStep DEF RecordHistory, attemptVars
<1>7. CASE ReadKeptEntries(w)
  <2> DEFINE q == At(w, "pruning")
  <2> DEFINE keep == {entry.id : entry \in Recent(HistoryCount)}
  <2> DEFINE r == [q EXCEPT !.keep = keep]
  <2>1. q \in RequestState /\ Sound(q)
    BY <1>0, AtSound DEF At, RequestStages, Changing, Setting
  <2>2. keep \in SUBSET Nat
    BY <1>t DEF Recent
  <2>3. Continue(w, "history recorded", r) /\ UNCHANGED <<factorVars, passwordVars, attemptVars>>
    BY <1>7 DEF ReadKeptEntries
  <2> HIDE DEF q, keep
  <2>4. r \in RequestState
    BY <2>1, <2>2 DEF RequestState
  <2>5. /\ r.at = q.at /\ r.version = q.version /\ r.loaded = q.loaded /\ r.factor = q.factor /\ r.todo = q.todo
        /\ r.new = q.new
    BY <2>1 DEF RequestState
  <2> HIDE DEF r
  <2>6. Sound(r)
    BY <2>1, <2>5 DEF Sound
  <2> QED  BY <2>3, <2>4, <2>6, ContinueStep
<1>8. CASE Prune(w)
  <2>1. principal' = principal
    BY <1>8 DEF Prune, BumpedStamp, CredentialsTypeOK
  <2> QED  BY <1>8, <1>t, <2>1, RecordStep DEF Prune, attemptVars
<1> QED  BY <1>1, <1>2, <1>3, <1>4, <1>5, <1>6, <1>7, <1>8 DEF SetPassword

LEMMA DieStep ==
  ASSUME CredentialsTypeOK, RequestsSound, NEW w \in Client, Die(w)
  PROVE  StepOf(w)
<1>1. unrecorded' \subseteq Nat
  <2>1. request[w].failure \in Nat
    BY DEF CredentialsTypeOK, RequestState
  <2> QED  BY <2>1 DEF Die, CredentialsTypeOK
<1>2. Newer
  BY NothingNewer DEF Die, factorVars, passwordVars
<1> QED
  BY <1>1, <1>2, IdleSound, RequestStep
  DEF Die, CredentialsTypeOK, factorVars, passwordVars, Rows, Principals

LEMMA NextStep ==
  ASSUME CredentialsTypeOK, RequestsSound, CredentialsNext, ~Age
  PROVE  \E w \in Client : StepOf(w)
BY SetUpStep, VerifyStep, DisableStep, RecordAttemptStep, SetPasswordStep, DieStep
DEF CredentialsNext

-----------------------------------------------------------------------------
(* Failed logins.                                                            *)

StaysAnswered == \A n \in Nat : Answered(n) => Answered(n)'

\* What is answered stays so while nobody forgets the failure it has recorded.
LEMMA NothingForgotten ==
  ASSUME lockouts \subseteq lockouts', unrecorded \subseteq unrecorded',
         \A w \in Client, n \in Nat : Counting(w) /\ request[w].failure = n =>
           \/ Counting(w)' /\ request'[w].failure = n
           \/ n \in unrecorded'
           \/ \E l \in lockouts' : n \in {l[1], l[2]}
  PROVE  StaysAnswered
<1> SUFFICES ASSUME NEW n \in Nat, Answered(n) PROVE Answered(n)'
  BY DEF StaysAnswered
<1>1. CASE n \in unrecorded
  BY <1>1 DEF Answered
<1>2. ASSUME NEW l \in lockouts, n \in {l[1], l[2]} PROVE Answered(n)'
  BY <1>2 DEF Answered
<1>3. ASSUME NEW w \in Client, Counting(w), request[w].failure = n PROVE Answered(n)'
  BY <1>3 DEF Answered
<1> QED  BY <1>1, <1>2, <1>3 DEF Answered

LEMMA LessLeft ==
  ASSUME NEW g \in Nat, NEW m \in Nat, NEW d \in Nat, NEW e \in Nat, d <= e, g - d < m
  PROVE  g - e < m
OBVIOUS

\* Nothing is forgotten, and a new failure is answered.
LEMMA CountKept ==
  ASSUME CredentialsTypeOK, CountInv, failures' \in Nat, expired' \in Nat,
         failures <= failures', expired <= expired', StaysAnswered,
         \A n \in Nat : failures < n /\ n <= failures' => Answered(n)'
  PROVE  CountInv'
<1>1. PICK g \in 0..failures : AnsweredSince(g)
  BY DEF CountInv
<1>2. /\ failures \in Nat /\ expired \in Nat /\ g \in Nat /\ g <= failures
      /\ MaxFailedAttempts \in Nat
  BY SettingsAssumption DEF CredentialsTypeOK
<1>3. g \in 0..failures'
  BY <1>2
<1>5. g - expired' < MaxFailedAttempts
  <2>1. g - expired < MaxFailedAttempts
    BY <1>1 DEF AnsweredSince
  <2>2. PICK e \in Nat : e = expired' /\ expired <= e
    OBVIOUS
  <2>3. g - e < MaxFailedAttempts
    BY <1>2, <2>1, <2>2, LessLeft
  <2> QED  BY <2>2, <2>3
<1>4. ASSUME NEW n \in Nat, g < n, n <= failures' PROVE Answered(n)'
  <2>1. CASE n <= failures
    BY <1>1, <1>4, <2>1 DEF AnsweredSince, StaysAnswered
  <2>2. CASE failures < n
    BY <1>4, <2>2
  <2> QED  BY <1>2, <2>1, <2>2
<1> QED  BY <1>3, <1>4, <1>5 DEF CountInv, AnsweredSince

\* Only failed logins are counted.
LEMMA NotCounted ==
  ASSUME CredentialsTypeOK, NEW w \in Client, StepOf(w),
         SetUp(w) \/ Verify(w) \/ DisableMfa(w) \/ SetPassword(w) \/ FailPasswordLogin(w)
  PROVE  UNCHANGED attemptVars /\ ~Counting(w)
<1> DEFINE Separate == UNCHANGED attemptVars /\ ~Counting(w)
<1>0. request[w] \in RequestState
  BY DEF CredentialsTypeOK
<1>1. ASSUME BeginSetup(w) PROVE Separate
  BY <1>0, <1>1 DEF BeginSetup, Begin, Continue, Counting
<1>2. ASSUME DiscardPending(w) PROVE Separate
  BY <1>0, <1>2 DEF DiscardPending, Begin, Continue, Counting
<1>3. ASSUME ActivateTotp(w) PROVE Separate
  BY <1>0, <1>3 DEF ActivateTotp, Begin, Continue, Counting
<1>4. ASSUME NEW d, CreateTotp(w, d) PROVE Separate
  BY <1>0, <1>4 DEF CreateTotp, Begin, Continue, Counting
<1>5. ASSUME NEW d, BeginActivate(w, d) PROVE Separate
  BY <1>0, <1>5 DEF BeginActivate, Begin, Continue, Counting
<1>6. ASSUME NEW c, GenerateCode(w, c) PROVE Separate
  BY <1>0, <1>6 DEF GenerateCode, Begin, Continue, Counting
<1>7. ASSUME RegenerateBackupCodes(w) PROVE Separate
  BY <1>0, <1>7 DEF RegenerateBackupCodes, Begin, Continue, Counting
<1>8. ASSUME RevokeUnusedCodes(w) PROVE Separate
  BY <1>0, <1>8 DEF RevokeUnusedCodes, Begin, Continue, Counting
<1>9. ASSUME NEW flow, PresentCode(w, flow) PROVE Separate
  BY <1>0, <1>9 DEF PresentCode, Begin, Continue, Counting
<1>10. ASSUME NEW x, MatchCode(w, x) PROVE Separate
  BY <1>0, <1>10 DEF MatchCode, Begin, Continue, Counting
<1>11. ASSUME MarkUsed(w) PROVE Separate
  BY <1>0, <1>11 DEF MarkUsed, Begin, Continue, Counting, Accepted
<1>12. ASSUME VerifyAndConsume(w) PROVE Separate
  BY <1>0, <1>12 DEF VerifyAndConsume, Begin, Continue, Counting, Accepted
<1>13. ASSUME RejectCode(w) PROVE Separate
  BY <1>0, <1>13 DEF RejectCode, Begin, Continue, Counting
<1>14. ASSUME LoadDevices(w) PROVE Separate
  BY <1>0, <1>14 DEF LoadDevices, Begin, Continue, Counting
<1>15. ASSUME LoadCodes(w) PROVE Separate
  BY <1>0, <1>15 DEF LoadCodes, Begin, Continue, Counting
<1>16. ASSUME NEW stage \in {"revoking devices", "revoking codes"}, Revoke(w, stage) PROVE Separate
  BY <1>16 DEF Revoke, Continue, Counting
<1>17. ASSUME DisableReturns(w) PROVE Separate
  BY <1>0, <1>17 DEF DisableReturns, Begin, Continue, Counting
<1>18. ASSUME NEW flow, NEW new, LoadPrincipal(w, flow, new) PROVE Separate
  BY <1>0, <1>18 DEF LoadPrincipal, Begin, Continue, Counting
<1>19. ASSUME NEW current, CheckPassword(w, current) PROVE Separate
  BY <1>0, <1>19 DEF CheckPassword, Begin, Continue, Counting
<1>20. ASSUME NEW cr, LoadCredential(w, cr) PROVE Separate
  BY <1>0, <1>20 DEF LoadCredential, Begin, Continue, Counting
<1>21. ASSUME NEW cr, SaveCredential(w, cr) PROVE Separate
  BY <1>0, <1>21 DEF SaveCredential, Begin, Continue, Counting
<1>22. ASSUME SavePrincipal(w) PROVE Separate
  BY <1>0, <1>22 DEF SavePrincipal, Begin, Continue, Counting
<1>23. ASSUME RecordHistory(w) PROVE Separate
  BY <1>0, <1>23 DEF RecordHistory, Begin, Continue, Counting
<1>24. ASSUME ReadKeptEntries(w) PROVE Separate
  BY <1>0, <1>24 DEF ReadKeptEntries, Begin, Continue, Counting
<1>25. ASSUME Prune(w) PROVE Separate
  BY <1>0, <1>25 DEF Prune, Begin, Continue, Counting
<1>26. ASSUME FailPasswordLogin(w) PROVE Separate
  BY <1>0, <1>26 DEF FailPasswordLogin, Begin, Continue, Counting
<1>27. Separate
  BY <1>1, <1>2, <1>3, <1>4, <1>5, <1>6, <1>7, <1>8, <1>9, <1>10, <1>11, <1>12, <1>13, <1>14, <1>15, <1>16, <1>17, <1>18, <1>19, <1>20, <1>21, <1>22, <1>23, <1>24, <1>25, <1>26
  DEF SetUp, Verify, DisableMfa, SetPassword
<1> QED  BY <1>27

LEMMA CountStep ==
  ASSUME CredentialsTypeOK, RequestsSound, CountInv, [CredentialsNext]_credentialsVars
  PROVE  CountInv'
<1>0. failures \in Nat /\ expired \in Nat /\ expired <= failures /\ MaxFailedAttempts \in Nat
  BY SettingsAssumption DEF CredentialsTypeOK
<1>1. ASSUME UNCHANGED <<failures, expired>>, StaysAnswered PROVE CountInv'
  BY <1>0, <1>1, CountKept
<1>2. ASSUME NEW w \in Client, RecordFailure(w) PROVE CountInv'
  <2>1. failures' = failures + 1 /\ UNCHANGED <<expired, lockouts, unrecorded>>
    BY <1>2 DEF RecordFailure
  <2>2. ~Counting(w) /\ \A v \in Client \ {w} : request'[v] = request[v]
    BY <1>2 DEF RecordFailure, Continue, Counting, CredentialsTypeOK
  <2>3. StaysAnswered
    BY <2>1, <2>2, NothingForgotten DEF Counting
  <2>4. request'[w].at = "recorded" /\ request'[w].failure = failures'
    BY <1>2, <2>1 DEF RecordFailure, Continue, At, CredentialsTypeOK, RequestState
  <2>5. ASSUME NEW n \in Nat, n = failures' PROVE Answered(n)'
    BY <2>4, <2>5 DEF Answered, Counting
  <2>6. \A n \in Nat : failures < n /\ n <= failures' => n = failures'
    BY <1>0, <2>1
  <2> QED  BY <1>0, <2>1, <2>3, <2>5, <2>6, CountKept
<1>3. ASSUME NEW w \in Client, CountFailures(w) PROVE CountInv'
  <2>1. UNCHANGED <<failures, expired, lockouts, unrecorded>>
    BY <1>3 DEF CountFailures, attemptVars
  <2>2. CASE ReachesThreshold
    <3>1. /\ \A v \in Client \ {w} : request'[v] = request[v]
          /\ request'[w].at = "locking" /\ request'[w].failure = request[w].failure
      BY <1>3, <2>2 DEF CountFailures, Continue, At, CredentialsTypeOK, RequestState
    <3>2. StaysAnswered
      BY <2>1, <3>1, NothingForgotten DEF Counting
    <3> QED  BY <1>1, <2>1, <3>2
  <2>3. CASE ~ReachesThreshold
    <3>1. failures' - expired' < MaxFailedAttempts /\ failures' \in 0..failures'
      BY <1>0, <2>1, <2>3 DEF ReachesThreshold
    <3>2. \A n \in Nat : ~(failures' < n /\ n <= failures')
      BY <1>0, <2>1
    <3> QED  BY <3>1, <3>2 DEF CountInv, AnsweredSince
  <2> QED  BY <2>2, <2>3
<1>4. ASSUME NEW w \in Client, RecordLockout(w) PROVE CountInv'
  <2>1. /\ failures' = failures + 1 /\ UNCHANGED <<expired, unrecorded>>
        /\ lockouts' = lockouts \cup {<<failures + 1, request[w].failure>>}
        /\ \A v \in Client \ {w} : request'[v] = request[v]
    BY <1>4 DEF RecordLockout, Continue, CredentialsTypeOK
  <2>2. PICK l \in lockouts' : l = <<failures + 1, request[w].failure>>
    BY <2>1
  <2>3. l[1] = failures' /\ l[2] = request[w].failure
    BY <2>1, <2>2
  <2>4. StaysAnswered
    BY <2>1, <2>3, NothingForgotten DEF Counting
  <2>5. ASSUME NEW n \in Nat, n = failures' PROVE Answered(n)'
    BY <2>3, <2>5 DEF Answered
  <2>6. \A n \in Nat : failures < n /\ n <= failures' => n = failures'
    BY <1>0, <2>1
  <2> QED  BY <1>0, <2>1, <2>4, <2>5, <2>6, CountKept
<1>5. ASSUME NEW w \in Client, Die(w) PROVE CountInv'
  <2>1. /\ UNCHANGED <<failures, expired, lockouts>> /\ unrecorded \subseteq unrecorded'
        /\ \A v \in Client \ {w} : request'[v] = request[v]
        /\ Counting(w) => request[w].failure \in unrecorded'
    BY <1>5 DEF Die, CredentialsTypeOK
  <2>3. StaysAnswered
    BY <2>1, NothingForgotten DEF Counting
  <2> QED  BY <1>1, <2>1, <2>3
<1>6. ASSUME Age PROVE CountInv'
  <2>1. UNCHANGED <<failures, lockouts, unrecorded, request>> /\ expired' = expired + 1
    BY <1>6 DEF Age
  <2>2. StaysAnswered
    BY <2>1 DEF StaysAnswered, Answered, Counting
  <2>3. expired' \in Nat /\ expired <= expired'
    BY <1>0, <2>1
  <2>4. \A n \in Nat : ~(failures < n /\ n <= failures')
    BY <1>0, <2>1
  <2> QED  BY <1>0, <2>1, <2>2, <2>3, <2>4, CountKept
<1>7. CASE UNCHANGED credentialsVars
  <2>1. StaysAnswered /\ UNCHANGED <<failures, expired>>
    BY <1>7 DEF credentialsVars, attemptVars, StaysAnswered, Answered, Counting
  <2> QED  BY <1>1, <2>1
<1>8. ASSUME NEW w \in Client,
             SetUp(w) \/ Verify(w) \/ DisableMfa(w) \/ SetPassword(w) \/ FailPasswordLogin(w)
      PROVE  CountInv'
  <2>1. StepOf(w)
    BY <1>8, SetUpStep, VerifyStep, DisableStep, RecordAttemptStep, SetPasswordStep
    DEF RecordAttempt
  <2>2. UNCHANGED attemptVars /\ ~Counting(w)
    BY <1>8, <2>1, NotCounted
  <2>3. StaysAnswered
    BY <2>1, <2>2, NothingForgotten DEF StepOf, attemptVars, Counting
  <2> QED  BY <1>1, <2>2, <2>3 DEF attemptVars
<1> QED
  BY <1>2, <1>3, <1>4, <1>5, <1>6, <1>7, <1>8 DEF CredentialsNext, RecordAttempt

-----------------------------------------------------------------------------
LEMMA CredentialsInvInductive ==
  CredentialsInv /\ [CredentialsNext]_credentialsVars => CredentialsInv'
<1> SUFFICES ASSUME CredentialsInv, [CredentialsNext]_credentialsVars PROVE CredentialsInv'
  OBVIOUS
<1>0. CredentialsTypeOK /\ RequestsSound /\ CountInv
  BY DEF CredentialsInv, RequestsSound
<1>1. CountInv'
  BY <1>0, CountStep
<1>2. CredentialsTypeOK' /\ RequestsSound'
  <2>1. CASE CredentialsNext /\ ~Age
    BY <1>0, <2>1, NextStep, StepSound DEF StepOf
  <2>3. CASE Age
    <3>1. CredentialsTypeOK'
      <4>1. expired' \in 0..failures /\ failures' = failures
        BY <1>0, <2>3 DEF Age, CredentialsTypeOK
      <4> QED
        BY <1>0, <2>3, <4>1 DEF Age, CredentialsTypeOK, factorVars, passwordVars
    <3>2. RequestsSound'
      BY <1>0, <2>3 DEF Age, factorVars, passwordVars, RequestsSound, Sound, Stored, Usable
    <3> QED  BY <3>1, <3>2
  <2>2. CASE UNCHANGED credentialsVars
    BY <1>0, <2>2
    DEF credentialsVars, factorVars, passwordVars, attemptVars, CredentialsTypeOK, RequestsSound, Sound,
        Stored, Usable
  <2> QED  BY <2>1, <2>2, <2>3
<1> QED  BY <1>1, <1>2 DEF CredentialsInv, RequestsSound

LEMMA CredentialsInvInit == CredentialsInit => CredentialsInv
<1> SUFFICES ASSUME CredentialsInit PROVE CredentialsInv
  OBVIOUS
<1>1. CredentialsTypeOK
  BY NamesAssumption, SettingsAssumption, IdleSound
  DEF CredentialsInit, CredentialsTypeOK, Statuses
<1>2. \A w \in Client : Sound(request[w])
  BY IdleSound DEF CredentialsInit
<1>3. CountInv
  <2>1. failures = 0 /\ expired = 0 /\ \A n \in Nat : ~(0 < n /\ n <= 0)
    BY DEF CredentialsInit
  <2>2. AnsweredSince(0)
    BY <2>1, SettingsAssumption DEF AnsweredSince
  <2> QED  BY <2>1, <2>2 DEF CountInv
<1> QED  BY <1>1, <1>2, <1>3 DEF CredentialsInv

\* The rows of the credentials and the requests keep their shape.
THEOREM CredentialsTyped == CredentialsSpec => []CredentialsTypeOK
BY CredentialsInvInit, CredentialsInvInductive, PTL DEF CredentialsSpec, CredentialsInv

\* Of the failures in the time window, fewer than the maximum are left unanswered: each
\* request counts after its own INSERT, so of several at once the last sees them all.
THEOREM FailuresCounted == CredentialsSpec => []FailuresAreCounted
<1>1. ASSUME CredentialsInv PROVE FailuresAreCounted
  <2>1. PICK g \in 0..failures : AnsweredSince(g)
    BY <1>1 DEF CredentialsInv, CountInv
  <2>2. /\ failures \in Nat /\ expired \in Nat /\ g \in Nat
        /\ MaxFailedAttempts \in Nat \ {0}
    BY <1>1, SettingsAssumption DEF CredentialsInv, CredentialsTypeOK
  <2> DEFINE left == {n \in expired + 1 .. failures : ~Answered(n)}
  <2>3. left \subseteq expired + 1 .. g
    <3> SUFFICES ASSUME NEW n \in left PROVE n <= g
      BY <2>2
    <3>1. n \in Nat /\ n <= failures /\ ~Answered(n)
      BY <2>2
    <3> QED  BY <2>1, <2>2, <3>1 DEF AnsweredSince
  <2>4. /\ IsFiniteSet(expired + 1 .. g)
        /\ Cardinality(expired + 1 .. g) = IF expired + 1 > g THEN 0 ELSE g - (expired + 1) + 1
    BY <2>2, FS_Interval
  <2>5. Cardinality(expired + 1 .. g) < MaxFailedAttempts
    BY <2>1, <2>2, <2>4 DEF AnsweredSince
  <2>6. Cardinality(left) <= Cardinality(expired + 1 .. g) /\ IsFiniteSet(left)
    BY <2>3, <2>4, FS_Subset
  <2>7. Cardinality(left) \in Nat /\ Cardinality(expired + 1 .. g) \in Nat
    BY <2>4, <2>6, FS_CardinalityType
  <2>8. Cardinality(left) < MaxFailedAttempts
    BY <2>2, <2>5, <2>6, <2>7
  <2> QED  BY <2>8 DEF FailuresAreCounted
<1>2. CredentialsSpec => []CredentialsInv
  BY CredentialsInvInit, CredentialsInvInductive, PTL DEF CredentialsSpec
<1> QED  BY <1>1, <1>2, PTL

\* A backup code is accepted at a moment when it is active and unused: what was looked
\* up is still so when the save finds the version that was looked up.
THEOREM UsableCodesPass == CredentialsSpec => OnlyUsableCodesPass
<1> DEFINE Step == \A c \in Code : accepted'[c] # accepted[c] => Usable(c)
<1>1. CredentialsInv /\ [CredentialsNext]_credentialsVars => [Step]_credentialsVars
  <2> SUFFICES ASSUME CredentialsInv, NEW w \in Client,
                      SetUp(w) \/ Verify(w) \/ DisableMfa(w) \/ RecordAttempt(w) \/ SetPassword(w) \/ Die(w)
               PROVE  Step
    BY DEF CredentialsNext, Age, factorVars
  <2>1. CASE UNCHANGED accepted
    BY <2>1
  <2>2. CASE VerifyAndConsume(w)
    <3>1. request[w] \in RequestState /\ Sound(request[w])
      BY DEF CredentialsInv, CredentialsTypeOK
    <3>2. Usable(request[w].factor)
      BY <2>2, <3>1 DEF VerifyAndConsume, Continue, Fresh, Sound
    <3>3. \A c \in Code : accepted'[c] # accepted[c] => c = request[w].factor
      BY <2>2 DEF VerifyAndConsume, CredentialsInv, CredentialsTypeOK
    <3> QED  BY <3>2, <3>3
  <2> QED
    BY <2>1, <2>2
    DEF SetUp, Verify, DisableMfa, RecordAttempt, SetPassword, Die, BeginSetup, DiscardPending,
        ActivateTotp, CreateTotp, BeginActivate, GenerateCode, RegenerateBackupCodes,
        RevokeUnusedCodes, PresentCode, MatchCode, MarkUsed, RejectCode, LoadDevices, LoadCodes,
        DisableReturns, Revoke, FailPasswordLogin, RecordFailure, CountFailures, RecordLockout,
        LoadPrincipal, CheckPassword, LoadCredential, SaveCredential, SavePrincipal,
        RecordHistory, ReadKeptEntries, Prune, factorVars
<1>2. CredentialsSpec => [][Step]_credentialsVars
  BY <1>1, CredentialsInvInit, CredentialsInvInductive, PTL DEF CredentialsSpec
<1> QED  BY <1>2 DEF OnlyUsableCodesPass

Withdrawn(x) == factors[x].status \in {"revoked", "deleted"}
KeepsWithdrawn == \A x \in Factor : Withdrawn(x) => factors'[x].status = factors[x].status

\* A write of one factor.
LEMMA WriteKeeps ==
  ASSUME CredentialsTypeOK, NEW x \in Factor, NEW status, NEW used,
         factors' = Written(x, status, used), Withdrawn(x) => status = factors[x].status
  PROVE  KeepsWithdrawn
BY DEF CredentialsTypeOK, Written, Withdrawn, KeepsWithdrawn

LEMMA StepKeepsWithdrawn ==
  ASSUME CredentialsInv, NEW w \in Client,
         SetUp(w) \/ Verify(w) \/ DisableMfa(w) \/ RecordAttempt(w) \/ SetPassword(w) \/ Die(w)
  PROVE  KeepsWithdrawn
<1>0. CredentialsTypeOK /\ request[w] \in RequestState /\ Sound(request[w])
  BY DEF CredentialsInv, CredentialsTypeOK
<1> DEFINE held == request[w].factor
<1>1. CASE UNCHANGED factors
  BY <1>1 DEF KeepsWithdrawn
<1>2. CASE DiscardPending(w)
  BY <1>2 DEF DiscardPending, KeepsWithdrawn, Withdrawn
<1>3. ASSUME NEW d \in Device, CreateTotp(w, d) PROVE KeepsWithdrawn
  BY <1>0, <1>3, WriteKeeps DEF CreateTotp, Withdrawn, Factor
<1>4. CASE ActivateTotp(w)
  <2>1. held \in Factor /\ factors[held].status = "inactive"
    BY <1>0, <1>4 DEF ActivateTotp, Continue, Fresh, Sound
  <2> QED  BY <1>0, <1>4, <2>1, WriteKeeps DEF ActivateTotp, Withdrawn
<1>5. ASSUME NEW c \in Code, GenerateCode(w, c) PROVE KeepsWithdrawn
  BY <1>0, <1>5, WriteKeeps DEF GenerateCode, Withdrawn, Factor
<1>6. CASE RevokeUnusedCodes(w)
  <2> SUFFICES ASSUME NEW x \in Factor, Withdrawn(x) PROVE factors'[x].status = factors[x].status
    BY DEF KeepsWithdrawn
  <2>1. factors[x] \in Rows
    BY <1>0 DEF CredentialsTypeOK, Rows
  <2>2. factors'[x] = IF x \in Code /\ Stored(x) /\ ~factors[x].used
                      THEN [factors[x] EXCEPT !.status = "revoked", !.version = @ + 1]
                      ELSE factors[x]
    BY <1>6 DEF RevokeUnusedCodes
  <2>3. Stored(x) => factors[x].status = "revoked"
    BY DEF Stored, Withdrawn
  <2> QED  BY <2>1, <2>2, <2>3 DEF Rows
<1>7. CASE MarkUsed(w)
  <2>1. held \in Factor
    BY <1>0, <1>7 DEF MarkUsed, Continue, Sound
  <2> QED  BY <1>0, <1>7, <2>1, WriteKeeps DEF MarkUsed
<1>8. CASE VerifyAndConsume(w)
  <2>1. held \in Factor /\ Usable(held)
    BY <1>0, <1>8 DEF VerifyAndConsume, Continue, Fresh, Sound
  <2> QED  BY <1>0, <1>8, <2>1, WriteKeeps DEF VerifyAndConsume, Usable, Withdrawn
<1>9. ASSUME NEW stage, Revoke(w, stage) PROVE KeepsWithdrawn
  <2>1. PICK e \in request[w].todo :
          Fresh(e[1], e[2]) /\ factors' = Written(e[1], "revoked", factors[e[1]].used)
    BY <1>9 DEF Revoke
  <2>2. e[1] \in Factor /\ e[2] \in Nat
    BY <1>0 DEF RequestState
  <2>3. Stored(e[1])
    BY <1>0, <2>1, <2>2 DEF Sound, Fresh
  <2> QED  BY <1>0, <2>1, <2>2, <2>3, WriteKeeps DEF Stored, Withdrawn
<1> QED
  BY <1>1, <1>2, <1>3, <1>4, <1>5, <1>6, <1>7, <1>8, <1>9
  DEF SetUp, Verify, DisableMfa, RecordAttempt, SetPassword, Die, BeginSetup, BeginActivate,
      RegenerateBackupCodes, PresentCode, MatchCode, RejectCode, LoadDevices, LoadCodes,
      DisableReturns, FailPasswordLogin, RecordFailure, CountFailures, RecordLockout,
      LoadPrincipal, CheckPassword, LoadCredential, SaveCredential, SavePrincipal,
      RecordHistory, ReadKeptEntries, Prune, factorVars

\* What was revoked or discarded stays so, whoever loaded it before.
THEOREM WithdrawnForGood == CredentialsSpec => WithdrawnStaysWithdrawn
<1>1. CredentialsInv /\ [CredentialsNext]_credentialsVars => [KeepsWithdrawn]_credentialsVars
  BY StepKeepsWithdrawn DEF CredentialsNext, Age, factorVars, KeepsWithdrawn
<1>2. CredentialsSpec => [][KeepsWithdrawn]_credentialsVars
  BY <1>1, CredentialsInvInit, CredentialsInvInductive, PTL DEF CredentialsSpec
<1> QED  BY <1>2 DEF WithdrawnStaysWithdrawn, KeepsWithdrawn, Withdrawn

Replaces(w) ==
  request[w].at = "credential saved" /\ request'[w].at = "principal saved"
    /\ request[w].flow = "change"
  => principal.password = request[w].loaded

LEMMA StepReplaces ==
  ASSUME CredentialsInv, NEW w \in Client,
         SetUp(w) \/ Verify(w) \/ DisableMfa(w) \/ RecordAttempt(w) \/ SetPassword(w) \/ Die(w)
  PROVE  Replaces(w)
<1>0. CredentialsTypeOK /\ request[w] \in RequestState /\ Sound(request[w])
  BY DEF CredentialsInv, CredentialsTypeOK
<1>1. CASE SavePrincipal(w)
  BY <1>0, <1>1 DEF SavePrincipal, Continue, Sound, Changing, Replaces
<1>2. CASE Die(w)
  <2>1. request'[w].at = "idle"
    BY <1>0, <1>2 DEF Die, CredentialsTypeOK, Idle
  <2> QED  BY <2>1 DEF Replaces
<1>3. CASE request[w].at # "credential saved"
  BY <1>3 DEF Replaces
<1> QED
  BY <1>1, <1>2, <1>3
  DEF SetUp, Verify, DisableMfa, RecordAttempt, SetPassword, BeginSetup, DiscardPending,
      ActivateTotp, CreateTotp, BeginActivate, GenerateCode, RegenerateBackupCodes,
      RevokeUnusedCodes, PresentCode, MatchCode, MarkUsed, VerifyAndConsume, RejectCode,
      LoadDevices, LoadCodes, DisableReturns, Revoke, FailPasswordLogin, RecordFailure,
      CountFailures, RecordLockout, LoadPrincipal, CheckPassword, LoadCredential, SaveCredential,
      RecordHistory, ReadKeptEntries, Prune, Begin, Continue

\* A change of password replaces the password that the request proved to know.
THEOREM ChangesReplace == CredentialsSpec => ChangeReplacesWhatItProved
<1> DEFINE Step == \A w \in Client : Replaces(w)
<1>1. CredentialsInv /\ [CredentialsNext]_credentialsVars => [Step]_credentialsVars
  <2> SUFFICES ASSUME CredentialsInv, NEW v \in Client,
                      SetUp(v) \/ Verify(v) \/ DisableMfa(v) \/ RecordAttempt(v) \/ SetPassword(v) \/ Die(v),
                      NEW w \in Client
               PROVE  Replaces(w)
    BY DEF CredentialsNext, Age, Replaces
  <2>1. CASE w = v
    BY <2>1, StepReplaces
  <2>2. CASE w # v
    <3>1. StepOf(v)
      BY SetUpStep, VerifyStep, DisableStep, RecordAttemptStep, SetPasswordStep, DieStep
      DEF CredentialsInv, RequestsSound
    <3>2. request'[w] = request[w]
      BY <2>2, <3>1 DEF StepOf
    <3> QED  BY <3>2 DEF Replaces
  <2> QED  BY <2>1, <2>2
<1>2. CredentialsSpec => [][Step]_credentialsVars
  BY <1>1, CredentialsInvInit, CredentialsInvInductive, PTL DEF CredentialsSpec
<1> QED  BY <1>2 DEF ChangeReplacesWhatItProved, Replaces

-----------------------------------------------------------------------------
(* VersionedRow.                                                            *)


RowIInv ==
  /\ RowTypeOK
  /\ VersionIdentifiesContent
  /\ SameVersionSameContent

USE FieldAssumption, BoundAssumption

\* Writing the same columns from the same source keeps two contents equal on
\* the tracked columns.
LEMMA OverwriteSameTracked ==
  ASSUME NEW a, NEW b, NEW val, NEW F, SameTracked(a, b)
  PROVE  SameTracked(Overwrite(a, val, F), Overwrite(b, val, F))
BY DEF SameTracked, Overwrite, Field

\* Overwriting columns of a content by those of a content gives a content.
LEMMA OverwriteType ==
  ASSUME NEW old \in Content, NEW val \in Content, NEW F
  PROVE  Overwrite(old, val, F) \in Content
BY DEF Overwrite, Content

\* Assigning a number to a column of an instance keeps its content typed.
LEMMA AssignType ==
  ASSUME RowTypeOK, NEW w \in Worker, NEW f \in Field, NEW v \in Nat
  PROVE  Assign(w, f, v) \in Content
BY DEF RowTypeOK, Assign, Content

\* The two outcomes of CheckAndSave preserve the invariant whatever the
\* instance was assigned before.
LEMMA CheckAndSavePreserves ==
  ASSUME RowIInv, NEW w \in Worker, Held(w), NEW val \in Content, NEW F,
         tick' \in Nat, CheckAndSave(w, val, F)
  PROVE  RowIInv'
<1>1. CASE /\ row.version = inst[w].version
           /\ row' = [version |-> inst[w].version + 1, val |-> Overwrite(row.val, val, F)]
           /\ inst' = [inst EXCEPT ![w] = Acknowledge(w, inst[w].version + 1, val, F)]
  <2>1. RowStored
    BY <1>1 DEF RowStored, Held
  <2>2. RowTypeOK'
    BY <1>1, OverwriteType DEF RowIInv, RowTypeOK, Acknowledge
  <2>3. SameTracked(inst[w].seen, row.val)
    BY <1>1, <2>1 DEF RowIInv, VersionIdentifiesContent
  <2>4. SameTracked(Overwrite(inst[w].seen, val, F), Overwrite(row.val, val, F))
    BY <2>3, OverwriteSameTracked
  <2>5. /\ inst'[w].version = row'.version
        /\ SameTracked(inst'[w].seen, row'.val)
    BY <1>1, <2>4 DEF RowIInv, RowTypeOK, Acknowledge
  <2>6. \A v \in Worker : v # w => inst'[v] = inst[v]
    BY <1>1 DEF RowIInv, RowTypeOK
  <2>7. \A v \in Worker : v # w /\ Held(v) => inst[v].version < row'.version
    BY <1>1, <2>1 DEF RowIInv, RowTypeOK, VersionIdentifiesContent, Held
  <2>8. VersionIdentifiesContent'
    BY <2>2, <2>5, <2>6, <2>7 DEF VersionIdentifiesContent, Held, RowTypeOK
  <2>9. SameVersionSameContent'
    <3> SUFFICES ASSUME NEW u \in Worker, NEW v \in Worker,
                        Held(u)', inst'[u].version = inst'[v].version
                 PROVE  SameTracked(inst'[u].seen, inst'[v].seen)
      BY DEF SameVersionSameContent
    <3>1. CASE u = w /\ v = w
      BY <3>1 DEF SameTracked
    <3>2. CASE u # w /\ v # w
      BY <2>6, <3>2 DEF RowIInv, SameVersionSameContent, Held
    <3>3. CASE (u = w) # (v = w)
      BY <2>2, <2>5, <2>6, <2>7, <3>3 DEF Held, RowTypeOK
    <3> QED  BY <3>1, <3>2, <3>3
  <2> QED  BY <2>2, <2>8, <2>9 DEF RowIInv
<1>2. CASE /\ row.version # inst[w].version
           /\ inst' = [inst EXCEPT ![w].val = val]
           /\ UNCHANGED row
  <2>1. RowTypeOK'
    BY <1>2 DEF RowIInv, RowTypeOK
  <2>2. \A v \in Worker : /\ inst'[v].version = inst[v].version
                          /\ inst'[v].seen = inst[v].seen
    BY <1>2 DEF RowIInv, RowTypeOK
  <2>3. VersionIdentifiesContent' /\ SameVersionSameContent'
    BY <1>2, <2>2 DEF RowIInv, VersionIdentifiesContent, SameVersionSameContent,
                      RowStored, Held, SameTracked
  <2> QED  BY <2>1, <2>3 DEF RowIInv
<1> QED  BY <1>1, <1>2 DEF CheckAndSave

\* A statement that raises the stored version, or writes untracked columns
\* only, and touches no instance, preserves the invariant.
LEMMA RowWritePreserves ==
  ASSUME RowIInv, RowStored, NEW new \in [version : Nat, val : Content],
         row' = new, UNCHANGED inst, tick' \in Nat,
         \/ new.version = row.version + 1
         \/ new.version = row.version /\ SameTracked(new.val, row.val)
  PROVE  RowIInv'
<1>1. RowTypeOK'
  BY DEF RowIInv, RowTypeOK
<1>2. VersionIdentifiesContent'
  <2> SUFFICES ASSUME NEW w \in Worker, Held(w)
               PROVE  /\ inst[w].version <= row'.version
                      /\ inst[w].version = row'.version
                           => SameTracked(inst[w].seen, row'.val)
    BY DEF VersionIdentifiesContent, Held
  <2>1. /\ inst[w].version <= row.version
        /\ inst[w].version = row.version => SameTracked(inst[w].seen, row.val)
    BY DEF RowIInv, VersionIdentifiesContent
  <2>2. inst[w].version \in Nat /\ row.version \in Nat
    BY DEF RowIInv, RowTypeOK
  <2>3. CASE new.version = row.version + 1
    BY <2>1, <2>2, <2>3
  <2>4. CASE new.version = row.version /\ SameTracked(new.val, row.val)
    BY <2>1, <2>2, <2>4 DEF SameTracked
  <2> QED  BY <2>3, <2>4
<1>3. SameVersionSameContent'
  BY DEF RowIInv, SameVersionSameContent, Held
<1> QED  BY <1>1, <1>2, <1>3 DEF RowIInv

LEMMA RowInitIInv == RowInit => RowIInv
BY DEF RowInit, RowIInv, RowTypeOK, VersionIdentifiesContent, SameVersionSameContent,
       NoInstance, Blank, Content, Held, RowStored, SameTracked

LEMMA LoadPreserves ==
  ASSUME RowIInv, NEW w \in Worker, LoadRow(w)
  PROVE  RowIInv'
<1>1. RowTypeOK'
  BY DEF RowIInv, RowTypeOK, LoadRow
<1>2. /\ inst'[w].version = row.version
      /\ inst'[w].seen = row.val
      /\ \A v \in Worker : v # w => inst'[v] = inst[v]
      /\ row' = row
      /\ RowStored
  BY DEF RowIInv, RowTypeOK, LoadRow
<1>3. VersionIdentifiesContent'
  BY <1>1, <1>2 DEF RowIInv, VersionIdentifiesContent, Held, RowStored, SameTracked, RowTypeOK
<1>4. SameVersionSameContent'
  <2> SUFFICES ASSUME NEW u \in Worker, NEW v \in Worker,
                      Held(u)', inst'[u].version = inst'[v].version
               PROVE  SameTracked(inst'[u].seen, inst'[v].seen)
    BY DEF SameVersionSameContent
  <2>1. \A x \in Worker : inst'[x].version = row.version /\ inst'[x].version > 0
                            => SameTracked(inst'[x].seen, row.val)
    BY <1>2 DEF RowIInv, VersionIdentifiesContent, Held, SameTracked
  <2>2. CASE u # w /\ v # w
    BY <1>2, <2>2 DEF RowIInv, SameVersionSameContent, Held
  <2>3. CASE u = w \/ v = w
    BY <1>2, <2>1, <2>3 DEF SameTracked, Held
  <2> QED  BY <2>2, <2>3
<1> QED  BY <1>1, <1>3, <1>4 DEF RowIInv

LEMMA HardDeletePreserves ==
  ASSUME RowIInv, NEW w \in Worker, HardDelete(w)
  PROVE  RowIInv'
<1>1. RowTypeOK'
  BY DEF RowIInv, RowTypeOK, HardDelete, NextTick, NoInstance, Blank, Content
<1>2. /\ row'.version = 0
      /\ inst'[w].version = 0
      /\ \A v \in Worker : v # w => inst'[v] = inst[v]
  BY DEF RowIInv, RowTypeOK, HardDelete, NoInstance
<1>3. VersionIdentifiesContent'
  BY <1>2 DEF VersionIdentifiesContent, RowStored
<1>4. SameVersionSameContent'
  BY <1>2 DEF RowIInv, SameVersionSameContent, Held
<1> QED  BY <1>1, <1>3, <1>4 DEF RowIInv

LEMMA SaveWithoutVersionBumpPreserves ==
  ASSUME RowIInv, NEW w \in Worker, NEW f \in Untracked, SaveWithoutVersionBump(w, f)
  PROVE  RowIInv'
<1>1. RowTypeOK'
  <2>1. tick' \in Nat /\ f \in Field
    BY DEF RowIInv, RowTypeOK, SaveWithoutVersionBump, NextTick, Field
  <2>2. Assign(w, f, tick') \in Content
    BY <2>1, AssignType DEF RowIInv
  <2>3. Acknowledge(w, inst[w].version, Assign(w, f, tick'), {f})
          \in [version : Nat, val : Content, seen : Content]
    BY <2>2, OverwriteType DEF RowIInv, RowTypeOK, Acknowledge
  <2>4. CASE /\ row' = [row EXCEPT !.val[f] = tick']
             /\ inst' = [inst EXCEPT ![w] =
                           Acknowledge(w, inst[w].version, Assign(w, f, tick'), {f})]
    <3>1. row' \in [version : Nat, val : Content]
      BY <2>1, <2>4 DEF RowIInv, RowTypeOK, Content
    <3> QED  BY <2>1, <2>3, <2>4, <3>1 DEF RowIInv, RowTypeOK
  <2>5. CASE /\ inst' = [inst EXCEPT ![w].val[f] = tick']
             /\ UNCHANGED row
    BY <2>1, <2>5 DEF RowIInv, RowTypeOK, Content
  <2> QED  BY <2>4, <2>5 DEF SaveWithoutVersionBump
<1>2. /\ row'.version = row.version
      /\ SameTracked(row'.val, row.val)
  <2>1. f \notin Tracked
    BY FieldAssumption
  <2>2. row \in [version : Nat, val : Content] /\ row.val = [g \in Field |-> row.val[g]]
    BY DEF RowIInv, RowTypeOK, Content
  <2>3. row' = row \/ row' = [row EXCEPT !.val = [@ EXCEPT ![f] = tick']]
    BY <2>2 DEF SaveWithoutVersionBump
  <2>4. CASE row' = row
    BY <2>4 DEF SameTracked
  <2>5. CASE row' = [row EXCEPT !.val = [@ EXCEPT ![f] = tick']]
    <3>1. row'.version = row.version /\ row'.val = [row.val EXCEPT ![f] = tick']
      BY <2>2, <2>5
    <3>2. \A g \in Tracked : row'.val[g] = row.val[g]
      BY <2>1, <2>2, <3>1 DEF Field
    <3> QED  BY <3>1, <3>2 DEF SameTracked
  <2> QED  BY <2>3, <2>4, <2>5
<1>3. \A v \in Worker : /\ inst'[v].version = inst[v].version
                        /\ SameTracked(inst'[v].seen, inst[v].seen)
  <2>1. f \notin Tracked /\ inst \in [Worker -> [version : Nat, val : Content, seen : Content]]
    BY FieldAssumption DEF RowIInv, RowTypeOK
  <2>2. CASE inst' = [inst EXCEPT ![w] =
                        Acknowledge(w, inst[w].version, Assign(w, f, tick'), {f})]
    <3>1. /\ inst'[w] = Acknowledge(w, inst[w].version, Assign(w, f, tick'), {f})
          /\ \A v \in Worker : v # w => inst'[v] = inst[v]
      BY <2>1, <2>2
    <3>2. /\ inst'[w].version = inst[w].version
          /\ inst'[w].seen = Overwrite(inst[w].seen, Assign(w, f, tick'), {f})
      BY <3>1 DEF Acknowledge
    <3>3. SameTracked(inst'[w].seen, inst[w].seen)
      BY <2>1, <3>2 DEF SameTracked, Overwrite, Field
    <3> QED  BY <3>1, <3>2, <3>3 DEF SameTracked
  <2>3. CASE inst' = [inst EXCEPT ![w].val[f] = tick']
    <3>1. /\ inst'[w].version = inst[w].version /\ inst'[w].seen = inst[w].seen
          /\ \A v \in Worker : v # w => inst'[v] = inst[v]
      BY <2>1, <2>3
    <3> QED  BY <3>1 DEF SameTracked
  <2> QED  BY <2>1, <2>2, <2>3 DEF SaveWithoutVersionBump
<1>4. VersionIdentifiesContent' /\ SameVersionSameContent'
  BY <1>2, <1>3 DEF RowIInv, VersionIdentifiesContent, SameVersionSameContent,
                    RowStored, Held, SameTracked
<1> QED  BY <1>1, <1>4 DEF RowIInv

LEMMA BulkUpdatePreserves ==
  ASSUME RowIInv, NEW f \in Field, BulkUpdate(f)
  PROVE  RowIInv'
<1>1. tick' \in Nat /\ RowStored /\ UNCHANGED inst
  BY DEF RowIInv, RowTypeOK, BulkUpdate, NextTick
<1>2. PICK v \in Nat :
        row' = [version |-> row.version + 1, val |-> [row.val EXCEPT ![f] = v]]
  BY <1>1 DEF BulkUpdate
<1>3. /\ row' \in [version : Nat, val : Content]
      /\ row'.version = row.version + 1
  BY <1>2 DEF RowIInv, RowTypeOK, Content
<1> QED  BY <1>1, <1>3, RowWritePreserves

LEMMA UpdateWithoutVersionPreserves ==
  ASSUME RowIInv, NEW f \in Untracked, UpdateWithoutVersion(f)
  PROVE  RowIInv'
<1>1. tick' \in Nat /\ RowStored /\ UNCHANGED inst
  BY DEF RowIInv, RowTypeOK, UpdateWithoutVersion, NextTick
<1>2. /\ row' \in [version : Nat, val : Content]
      /\ row'.version = row.version
      /\ SameTracked(row'.val, row.val)
  BY <1>1 DEF RowIInv, RowTypeOK, UpdateWithoutVersion, Content, Field, SameTracked
<1> QED  BY <1>1, <1>2, RowWritePreserves

\* The three saves reduce to CheckAndSave of an assigned content.
LEMMA SavesPreserve ==
  ASSUME RowIInv, NEW w \in Worker,
         \/ \E f \in Field : \E F \in {{f}, Field} : Save(w, f, F)
         \/ \E F \in {{DeletedAt}, Field} : SoftDelete(w, F)
         \/ Restore(w)
  PROVE  RowIInv'
<1>1. DeletedAt \in Field /\ 0 \in Nat /\ RowTypeOK
  BY DEF Field, RowIInv
<1>2. CASE \E f \in Field : \E F \in {{f}, Field} : Save(w, f, F)
  <2>1. PICK f \in Field : \E F \in {{f}, Field} : Save(w, f, F)
    BY <1>2
  <2>2. PICK F \in {{f}, Field} : Save(w, f, F)
    BY <2>1
  <2>3. tick' \in Nat /\ Held(w)
    BY <1>1, <2>2 DEF Save, NextTick, RowTypeOK
  <2> QED  BY <1>1, <2>2, <2>3, AssignType, CheckAndSavePreserves DEF Save
<1>3. CASE \E F \in {{DeletedAt}, Field} : SoftDelete(w, F)
  <2>1. PICK F : SoftDelete(w, F)
    BY <1>3
  <2>2. tick' \in Nat /\ Held(w)
    BY <1>1, <2>1 DEF SoftDelete, NextTick, RowTypeOK
  <2> QED  BY <1>1, <2>1, <2>2, AssignType, CheckAndSavePreserves DEF SoftDelete
<1>4. CASE Restore(w)
  <2>1. tick' \in Nat /\ Held(w)
    BY <1>1, <1>4 DEF Restore, NextTick, RowTypeOK
  <2> QED  BY <1>1, <1>4, <2>1, AssignType, CheckAndSavePreserves DEF Restore
<1> QED  BY <1>2, <1>3, <1>4

LEMMA StepIInv == RowIInv /\ [RowNext]_rowVars => RowIInv'
<1> SUFFICES ASSUME RowIInv, [RowNext]_rowVars PROVE RowIInv'
  OBVIOUS
<1>1. CASE UNCHANGED rowVars
  BY <1>1 DEF rowVars, RowIInv, RowTypeOK, VersionIdentifiesContent, SameVersionSameContent,
              RowStored, Held, SameTracked
<1>2. ASSUME NEW w \in Worker, LoadRow(w) PROVE RowIInv'
  BY <1>2, LoadPreserves
<1>3. ASSUME NEW w \in Worker,
             \/ \E f \in Field : \E F \in {{f}, Field} : Save(w, f, F)
             \/ \E F \in {{DeletedAt}, Field} : SoftDelete(w, F)
             \/ Restore(w)
      PROVE RowIInv'
  BY <1>3, SavesPreserve
<1>4. ASSUME NEW w \in Worker, HardDelete(w) PROVE RowIInv'
  BY <1>4, HardDeletePreserves
<1>5. ASSUME NEW w \in Worker, NEW f \in Untracked, SaveWithoutVersionBump(w, f)
      PROVE RowIInv'
  BY <1>5, SaveWithoutVersionBumpPreserves
<1>6. ASSUME NEW f \in Field, BulkUpdate(f) PROVE RowIInv'
  BY <1>6, BulkUpdatePreserves
<1>7. ASSUME NEW f \in Untracked, UpdateWithoutVersion(f) PROVE RowIInv'
  BY <1>7, UpdateWithoutVersionPreserves
<1> QED  BY <1>1, <1>2, <1>3, <1>4, <1>5, <1>6, <1>7 DEF RowNext

LEMMA Invariance == RowSpec => []RowIInv
BY RowInitIInv, StepIInv, PTL DEF RowSpec

\* The row and every instance keep their shape.
THEOREM RowTypeCorrect == RowSpec => []RowTypeOK
<1>1. RowIInv => RowTypeOK
  BY DEF RowIInv
<1> QED  BY <1>1, Invariance, PTL

\* An instance that carries the stored version has seen the stored content,
\* and none is ahead of the row: comparing versions is comparing contents.
THEOREM VersionsIdentifyContent == RowSpec => []VersionIdentifiesContent
<1>1. RowIInv => VersionIdentifiesContent
  BY DEF RowIInv
<1> QED  BY <1>1, Invariance, PTL

\* Two instances with the same version have seen the same content.
THEOREM EqualVersionsEqualContent == RowSpec => []SameVersionSameContent
<1>1. RowIInv => SameVersionSameContent
  BY DEF RowIInv
<1> QED  BY <1>1, Invariance, PTL

\* A write through an instance that has seen all there is to see.
LEMMA CheckedSaveLosesNothing ==
  ASSUME RowIInv, NEW u \in Worker, NEW w \in Worker, Held(u), NEW val, NEW F,
         CheckAndSave(u, val, F), SavedThrough(w)
  PROVE  SameTracked(inst[w].seen, row.val)
<1>1. /\ row.version = inst[u].version
      /\ inst' = [inst EXCEPT ![u] = Acknowledge(u, inst[u].version + 1, val, F)]
  BY DEF CheckAndSave, SavedThrough
<1>2. w = u
  BY <1>1 DEF RowIInv, RowTypeOK, SavedThrough
<1> QED  BY <1>1, <1>2 DEF RowIInv, VersionIdentifiesContent, RowStored, Held

\* No update is lost: a stale instance never overwrites a newer row, for any
\* number of workers and any interleaving of the operations.
THEOREM NothingLost == RowSpec => NoLostUpdate
<1>1. ASSUME RowIInv, [RowNext]_rowVars, NEW w \in Worker, SavedThrough(w)
      PROVE  SameTracked(inst[w].seen, row.val)
  <2>1. CASE UNCHANGED rowVars
    BY <1>1, <2>1 DEF rowVars, SavedThrough
  <2>2. ASSUME NEW u \in Worker, NEW f \in Field, NEW F, Save(u, f, F)
        PROVE  SameTracked(inst[w].seen, row.val)
    BY <1>1, <2>2, CheckedSaveLosesNothing DEF Save
  <2>3. ASSUME NEW u \in Worker, NEW F, SoftDelete(u, F)
        PROVE  SameTracked(inst[w].seen, row.val)
    BY <1>1, <2>3, CheckedSaveLosesNothing DEF SoftDelete
  <2>4. ASSUME NEW u \in Worker, Restore(u)
        PROVE  SameTracked(inst[w].seen, row.val)
    BY <1>1, <2>4, CheckedSaveLosesNothing DEF Restore
  <2>5. ASSUME NEW u \in Worker, LoadRow(u) \/ HardDelete(u)
        PROVE  SameTracked(inst[w].seen, row.val)
    BY <1>1, <2>5 DEF LoadRow, HardDelete, SavedThrough
  <2>6. ASSUME NEW u \in Worker, NEW f \in Untracked, SaveWithoutVersionBump(u, f)
        PROVE  SameTracked(inst[w].seen, row.val)
    <3>1. /\ RowStored
          /\ row'.version = row.version
          /\ inst'[w].version = inst[w].version
      BY <1>1, <2>6 DEF RowIInv, RowTypeOK, SaveWithoutVersionBump, SavedThrough, Acknowledge
    <3>2. Held(w) /\ inst[w].version = row.version
      BY <1>1, <3>1 DEF Held, SavedThrough
    <3> QED  BY <1>1, <3>1, <3>2 DEF RowIInv, VersionIdentifiesContent
  <2>7. ASSUME NEW f \in Field, BulkUpdate(f) \/ UpdateWithoutVersion(f)
        PROVE  SameTracked(inst[w].seen, row.val)
    BY <1>1, <2>7 DEF BulkUpdate, UpdateWithoutVersion, SavedThrough
  <2>8. CASE RowNext
    <3>1. ASSUME NEW u \in Worker,
                 \/ LoadRow(u)
                 \/ \E f \in Field : \E F \in {{f}, Field} : Save(u, f, F)
                 \/ \E F \in {{DeletedAt}, Field} : SoftDelete(u, F)
                 \/ Restore(u)
                 \/ HardDelete(u)
                 \/ \E f \in Untracked : SaveWithoutVersionBump(u, f)
          PROVE  SameTracked(inst[w].seen, row.val)
      BY <2>2, <2>3, <2>4, <2>5, <2>6, <3>1 DEF Field
    <3> QED  BY <2>7, <2>8, <3>1 DEF RowNext, Field
  <2> QED  BY <1>1, <2>1, <2>8
<1>2. RowIInv /\ [RowNext]_rowVars
        => [\A w \in Worker : SavedThrough(w) => SameTracked(inst[w].seen, row.val)]_rowVars
  BY <1>1
<1> QED  BY <1>2, Invariance, PTL DEF RowSpec, NoLostUpdate

\* As long as the row exists its version never goes back, and every change of
\* a tracked column raises it.
THEOREM ChangesAreVersioned == RowSpec => VersionTellsChange
<1> DEFINE Step == row'.version > 0 =>
             /\ row'.version >= row.version
             /\ SameTracked(row'.val, row.val) \/ row'.version > row.version
<1>1. ASSUME RowTypeOK, UNCHANGED row PROVE Step
  BY <1>1 DEF RowTypeOK, SameTracked
<1>2. ASSUME RowTypeOK, NEW w \in Worker, NEW val, NEW F, CheckAndSave(w, val, F)
      PROVE  Step
  BY <1>2 DEF RowTypeOK, CheckAndSave, SameTracked
<1>3. ASSUME RowTypeOK, NEW f \in Untracked,
             UpdateWithoutVersion(f) \/ \E w \in Worker : SaveWithoutVersionBump(w, f)
      PROVE  Step
  BY <1>3 DEF RowTypeOK, UpdateWithoutVersion, SaveWithoutVersionBump, SameTracked, Content, Field
<1>4. ASSUME RowTypeOK, NEW f \in Field, BulkUpdate(f) PROVE Step
  BY <1>4 DEF RowTypeOK, BulkUpdate
<1>5. ASSUME NEW w \in Worker, HardDelete(w) PROVE Step
  BY <1>5 DEF HardDelete
<1>6. ASSUME RowTypeOK, NEW w \in Worker,
             \/ \E f \in Field : \E F \in {{f}, Field} : Save(w, f, F)
             \/ \E F \in {{DeletedAt}, Field} : SoftDelete(w, F)
             \/ Restore(w)
      PROVE  Step
  BY <1>2, <1>6 DEF Save, SoftDelete, Restore
<1>7. RowTypeOK /\ [RowNext]_rowVars => [Step]_rowVars
  <2> SUFFICES ASSUME RowTypeOK, [RowNext]_rowVars PROVE Step
    OBVIOUS
  <2>1. CASE UNCHANGED rowVars
    BY <1>1, <2>1 DEF rowVars
  <2>2. ASSUME NEW w \in Worker, LoadRow(w) PROVE Step
    BY <1>1, <2>2 DEF LoadRow
  <2>3. CASE RowNext
    BY <1>3, <1>4, <1>5, <1>6, <2>2, <2>3 DEF RowNext
  <2> QED  BY <2>1, <2>3
<1> QED  BY <1>7, RowTypeCorrect, PTL DEF RowSpec, VersionTellsChange
=============================================================================
