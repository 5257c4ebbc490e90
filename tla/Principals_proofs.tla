--------------------------- MODULE Principals_proofs ---------------------------
(***************************************************************************)
(* Proofs about PrincipalLifecycle and PrincipalSessions, for every set of *)
(* workers, logins and sessions and every value of the bounds.             *)
(*                                                                         *)
(* PrincipalLifecycle: the stored lifecycle columns stay coherent, and no  *)
(* restriction is ever stored without a new security stamp.  The second    *)
(* statement is about a step of the row; what makes it hold is an          *)
(* invariant about the instances: one that can pass the version check and  *)
(* carries an unsaved restriction carries an unsaved stamp too.            *)
(*                                                                         *)
(* PrincipalSessions: with that principal, the sessions behave as those of *)
(* AuthSessions, whose theorems then hold of the whole.                    *)
(***************************************************************************)
EXTENDS PrincipalSessions, TLAPS

IInv ==
  /\ TypeOK
  /\ StoredCoherent
  /\ PendingRestrictionsCarryStamp

\* What RestrictionsBumpStamp says of one step.
StampStep ==
  /\ row'.stamp >= row.stamp
  /\ Restricts(row.life, row'.life) => row'.stamp > row.stamp

USE DurationAssumption, BoundAssumption

-----------------------------------------------------------------------------
(* What the transitions of Lifecycle preserve, for any columns.             *)

\* A write that leaves the columns alone is no restriction.
LEMMA NothingRestrictsItself == \A c \in Columns : ~Restricts(c, c)
BY DEF Restricts

\* The transitions keep columns typed.
LEMMA TransitionType ==
  ASSUME NEW c \in Columns, NEW t \in Nat, NEW until \in Nat
  PROVE  /\ Disabled(c) \in Columns
         /\ Suspended(c) \in Columns
         /\ Locked(c, until) \in Columns
         /\ Enabled(c, t) \in Columns
         /\ Unsuspended(c, t) \in Columns
         /\ Unlocked(c) \in Columns
         /\ [c EXCEPT !.deleted = TRUE] \in Columns
         /\ [c EXCEPT !.deleted = FALSE] \in Columns
<1>1. /\ Disabled(c) \in Columns
      /\ Suspended(c) \in Columns
      /\ Locked(c, until) \in Columns
      /\ [c EXCEPT !.deleted = TRUE] \in Columns
      /\ [c EXCEPT !.deleted = FALSE] \in Columns
  BY DEF Columns, Disabled, Suspended, Locked
<1>2. \A b : (c.is_active \/ b) \in BOOLEAN
  OBVIOUS
<1>3. Enabled(c, t) \in Columns
  BY <1>2 DEF Columns, Enabled
<1>4. Unsuspended(c, t) \in Columns
  BY <1>2 DEF Columns, Unsuspended
<1>5. Unlocked(c) \in Columns
  BY <1>2 DEF Columns, Unlocked, NoLock
<1> QED  BY <1>1, <1>3, <1>4, <1>5

\* Lifting, deleting and restoring add no restriction.
LEMMA LiftingRestrictsNothing ==
  ASSUME NEW c \in Columns, NEW d \in Columns, NEW t \in Nat,
         \/ d = Enabled(c, t)
         \/ d = Unsuspended(c, t)
         \/ d = Unlocked(c)
         \/ d = [c EXCEPT !.deleted = TRUE]
         \/ d = [c EXCEPT !.deleted = FALSE]
  PROVE  \A e \in Columns : Restricts(e, d) => Restricts(e, c)
BY DEF Restricts, Enabled, Unsuspended, Unlocked, HasLock, Columns

-----------------------------------------------------------------------------
\* What every operation may assign to its instance before it saves: a new
\* restriction only together with a new stamp.
Assignable(w, m) ==
  /\ m \in Image
  /\ m.version = mem[w].version
  /\ m.stamp >= mem[w].stamp
  /\ \/ m.stamp > mem[w].stamp
     \/ \A c \in Columns : Restricts(c, m.life) => Restricts(c, mem[w].life)

\* The fields of an image after an assignment, and that it stays one.
LEMMA ImageUpdate ==
  ASSUME NEW m \in Image, NEW v \in Nat, NEW s \in Nat, NEW c \in Columns
  PROVE  /\ [m EXCEPT !.version = v] = [version |-> v, stamp |-> m.stamp, life |-> m.life]
         /\ [m EXCEPT !.stamp = s] = [version |-> m.version, stamp |-> s, life |-> m.life]
         /\ [m EXCEPT !.life = c] = [version |-> m.version, stamp |-> m.stamp, life |-> c]
         /\ [version |-> v, stamp |-> s, life |-> c] \in Image
BY DEF Image

\* The image that restricting operations save.
LEMMA StampBumpedWith ==
  ASSUME TypeOK, NEW w \in Worker, NEW c \in Columns
  PROVE  /\ StampBumped(w) \in Image
         /\ [StampBumped(w) EXCEPT !.life = c]
              = [version |-> mem[w].version, stamp |-> mem[w].stamp + 1, life |-> c]
         /\ Assignable(w, [StampBumped(w) EXCEPT !.life = c])
<1>1. /\ mem[w] \in Image /\ mem[w].version \in Nat /\ mem[w].stamp + 1 \in Nat
      /\ mem[w].stamp \in Nat /\ mem[w].life \in Columns
  BY DEF TypeOK, Image
<1>2. StampBumped(w) = [version |-> mem[w].version, stamp |-> mem[w].stamp + 1,
                        life |-> mem[w].life]
  BY <1>1, ImageUpdate DEF StampBumped
<1>3. StampBumped(w) \in Image
  BY <1>1, <1>2 DEF Image
<1>4. [StampBumped(w) EXCEPT !.life = c]
        = [version |-> mem[w].version, stamp |-> mem[w].stamp + 1, life |-> c]
  <2>1. [StampBumped(w) EXCEPT !.life = c]
          = [version |-> StampBumped(w).version, stamp |-> StampBumped(w).stamp, life |-> c]
    BY <1>1, <1>3, ImageUpdate
  <2>2. StampBumped(w).version = mem[w].version /\ StampBumped(w).stamp = mem[w].stamp + 1
    BY <1>2
  <2> QED  BY <2>1, <2>2
<1>5. [version |-> mem[w].version, stamp |-> mem[w].stamp + 1, life |-> c] \in Image
  BY <1>1 DEF Image
<1>6. Assignable(w, [StampBumped(w) EXCEPT !.life = c])
  BY <1>1, <1>4, <1>5 DEF Assignable
<1> QED  BY <1>3, <1>4, <1>6

\* Both outcomes of a save keep the invariant and make a good step.
LEMMA SavePreserves ==
  ASSUME IInv, NEW w \in Worker, NEW m, NEW actor \in BOOLEAN,
         Assignable(w, m), Save(w, m, actor), now' \in Nat \ {0}, ops' \in Nat,
         Held(w)
  PROVE  IInv' /\ StampStep
<1>1. /\ row \in Image /\ m \in Image /\ mem \in [Worker -> Image]
      /\ row.version \in Nat /\ row.stamp \in Nat /\ row.life \in Columns
      /\ m.version \in Nat /\ m.stamp \in Nat /\ m.life \in Columns
      /\ mem[w].version \in Nat /\ mem[w].stamp \in Nat /\ mem[w].life \in Columns
  BY DEF IInv, TypeOK, Assignable, Image
<1>2. m.version = row.version =>
        /\ m.stamp >= row.stamp
        /\ Restricts(row.life, m.life) => m.stamp > row.stamp
  <2>1. m.version = row.version =>
          /\ mem[w].stamp >= row.stamp
          /\ Restricts(row.life, mem[w].life) => mem[w].stamp > row.stamp
    BY DEF IInv, PendingRestrictionsCarryStamp, Assignable
  <2> QED  BY <1>1, <2>1 DEF Assignable
<1>3. CASE /\ SaveAccepts(m, actor)
           /\ row' = [m EXCEPT !.version = @ + 1]
           /\ mem' = [mem EXCEPT ![w] = row']
  <2>1. /\ row' \in Image
        /\ row'.version = row.version + 1
        /\ row'.stamp = m.stamp
        /\ row'.life = m.life
    BY <1>1, <1>3 DEF Image, SaveAccepts
  <2>2. TypeOK'
    BY <1>1, <1>3, <2>1 DEF IInv, TypeOK
  <2>3. StoredCoherent'
    BY <1>3, <2>1 DEF StoredCoherent, SaveAccepts
  <2>4. StampStep
    BY <1>2, <1>3, <2>1 DEF StampStep, SaveAccepts
  <2>5. PendingRestrictionsCarryStamp'
    <3> SUFFICES ASSUME NEW v \in Worker
                 PROVE  /\ mem'[v].version <= row'.version
                        /\ Held(v)' /\ mem'[v].version = row'.version =>
                             /\ mem'[v].stamp >= row'.stamp
                             /\ Restricts(row'.life, mem'[v].life)
                                  => mem'[v].stamp > row'.stamp
      BY DEF PendingRestrictionsCarryStamp
    <3>1. CASE v = w
      <4>1. mem'[v] = row'
        BY <1>1, <1>3, <3>1
      <4>2. ~Restricts(row'.life, row'.life)
        BY <2>1, NothingRestrictsItself DEF Image
      <4> QED  BY <2>1, <4>1, <4>2 DEF Image
    <3>2. CASE v # w
      <4>1. mem'[v] = mem[v] /\ mem[v].version <= row.version /\ mem[v].version \in Nat
        BY <1>1, <1>3, <3>2 DEF IInv, PendingRestrictionsCarryStamp, Image
      <4> QED  BY <1>1, <2>1, <4>1
    <3> QED  BY <3>1, <3>2
  <2> QED  BY <2>2, <2>3, <2>4, <2>5 DEF IInv
<1>4. CASE /\ mem' = [mem EXCEPT ![w] = m]
           /\ UNCHANGED row
  <2>1. TypeOK' /\ StoredCoherent'
    BY <1>1, <1>4 DEF IInv, TypeOK, StoredCoherent
  <2>2. StampStep
    BY <1>1, <1>4, NothingRestrictsItself DEF StampStep
  <2>3. PendingRestrictionsCarryStamp'
    BY <1>1, <1>2, <1>4 DEF IInv, PendingRestrictionsCarryStamp, Held, Assignable
  <2> QED  BY <2>1, <2>2, <2>3 DEF IInv
<1> QED  BY <1>3, <1>4 DEF Save

\* A step that leaves the row and the instances alone.
LEMMA IdlePreserves ==
  ASSUME IInv, UNCHANGED <<row, mem>>, now' \in Nat \ {0}, ops' \in Nat
  PROVE  IInv' /\ StampStep
<1>1. TypeOK' /\ StoredCoherent' /\ PendingRestrictionsCarryStamp'
  BY DEF IInv, TypeOK, StoredCoherent, PendingRestrictionsCarryStamp, Held
<1>2. StampStep
  BY NothingRestrictsItself DEF IInv, TypeOK, Image, StampStep
<1> QED  BY <1>1, <1>2 DEF IInv

\* The instances of all workers but w are as before, and w has read the row.
LEMMA ReadPreserves ==
  ASSUME IInv, NEW w \in Worker, row' \in Image,
         \/ UNCHANGED row
         \/ /\ row'.version > row.version
            /\ row'.stamp >= row.stamp
            /\ row'.life = row.life,
         mem' = [mem EXCEPT ![w] = row'],
         now' \in Nat \ {0}, ops' \in Nat
  PROVE  IInv' /\ StampStep
<1>1. /\ row.version \in Nat /\ row.stamp \in Nat /\ row.life \in Columns
      /\ row'.version \in Nat /\ row'.stamp \in Nat /\ row'.life = row.life
      /\ mem \in [Worker -> Image]
  BY DEF IInv, TypeOK, Image
<1>2. ~Restricts(row.life, row.life)
  BY <1>1, NothingRestrictsItself
<1>3. TypeOK' /\ StoredCoherent'
  BY <1>1 DEF IInv, TypeOK, StoredCoherent
<1>4. StampStep
  BY <1>1, <1>2 DEF StampStep
<1>5. PendingRestrictionsCarryStamp'
  <2> SUFFICES ASSUME NEW v \in Worker
               PROVE  /\ mem'[v].version <= row'.version
                      /\ Held(v)' /\ mem'[v].version = row'.version =>
                           /\ mem'[v].stamp >= row'.stamp
                           /\ Restricts(row'.life, mem'[v].life)
                                => mem'[v].stamp > row'.stamp
    BY DEF PendingRestrictionsCarryStamp
  <2>1. CASE v = w
    BY <1>1, <1>2, <2>1
  <2>2. CASE v # w
    <3>1. mem'[v] = mem[v] /\ mem[v].version \in Nat
      BY <1>1, <2>2 DEF Image
    <3>2. /\ mem[v].version <= row.version
          /\ Held(v) /\ mem[v].version = row.version =>
               /\ mem[v].stamp >= row.stamp
               /\ Restricts(row.life, mem[v].life) => mem[v].stamp > row.stamp
      BY DEF IInv, PendingRestrictionsCarryStamp
    <3> QED  BY <1>1, <3>1, <3>2 DEF Held
  <2> QED  BY <2>1, <2>2
<1> QED  BY <1>3, <1>4, <1>5 DEF IInv

\* lock(), suspend() and disable(), with and without an actor.
LEMMA RestrictPreserves ==
  ASSUME IInv, NEW w \in Worker, NEW restricted \in Columns,
         NEW actor \in BOOLEAN, ApplyRestriction(w, restricted, actor)
  PROVE  IInv' /\ StampStep
<1>1. /\ mem[w] \in Image /\ mem[w].stamp \in Nat /\ mem[w].version \in Nat
      /\ now' \in Nat \ {0} /\ ops' \in Nat /\ Held(w)
  BY DEF IInv, TypeOK, Image, ApplyRestriction, Operate
<1>2. CASE Save(w, [StampBumped(w) EXCEPT !.life = restricted], actor)
  <2>1. Assignable(w, [StampBumped(w) EXCEPT !.life = restricted])
    BY StampBumpedWith DEF IInv
  <2> QED  BY <1>1, <1>2, <2>1, SavePreserves
<1>3. CASE mem' = [mem EXCEPT ![w] = StampBumped(w)] /\ UNCHANGED row
  <2>1. StampBumped(w) \in Image
    BY <1>1 DEF StampBumped, Image
  <2>2. TypeOK' /\ StoredCoherent'
    BY <1>1, <1>3, <2>1 DEF IInv, TypeOK, StoredCoherent
  <2>3. /\ StampBumped(w).version = mem[w].version
        /\ StampBumped(w).stamp = mem[w].stamp + 1
        /\ StampBumped(w).life = mem[w].life
    BY <1>1 DEF StampBumped, Image
  <2>4. PendingRestrictionsCarryStamp'
    BY <1>1, <1>3, <2>3 DEF IInv, TypeOK, Image, PendingRestrictionsCarryStamp, Held
  <2>5. StampStep
    BY <1>3, NothingRestrictsItself DEF IInv, TypeOK, Image, StampStep
  <2> QED  BY <2>2, <2>4, <2>5 DEF IInv
<1> QED  BY <1>2, <1>3 DEF ApplyRestriction

\* The operations that save columns without a new restriction.
LEMMA LiftPreserves ==
  ASSUME IInv, NEW w \in Worker, NEW actor \in BOOLEAN,
         Held(w), now' \in Nat \ {0}, ops' \in Nat,
         NEW life,
         \/ life = Enabled(mem[w].life, now)
         \/ life = Unsuspended(mem[w].life, now)
         \/ life = Unlocked(mem[w].life)
         \/ life = [mem[w].life EXCEPT !.deleted = FALSE],
         Save(w, [mem[w] EXCEPT !.life = life], actor)
  PROVE  IInv' /\ StampStep
<1>1. /\ mem[w] \in Image /\ mem[w].life \in Columns /\ mem[w].stamp \in Nat
      /\ now \in Nat /\ 0 \in Nat
  BY DEF IInv, TypeOK, Image
<1>2. life \in Columns
  BY <1>1, TransitionType
<1>3. \A c \in Columns : Restricts(c, life) => Restricts(c, mem[w].life)
  BY <1>1, <1>2, LiftingRestrictsNothing
<1>4. Assignable(w, [mem[w] EXCEPT !.life = life])
  BY <1>1, <1>2, <1>3 DEF Assignable, Image
<1> QED  BY <1>4, SavePreserves

LEMMA SoftDeletePreserves ==
  ASSUME IInv, NEW w \in Worker, NEW actor \in BOOLEAN, SoftDelete(w, actor)
  PROVE  IInv' /\ StampStep
<1>1. /\ mem[w] \in Image /\ mem[w].stamp \in Nat /\ mem[w].life \in Columns
      /\ now' \in Nat \ {0} /\ ops' \in Nat /\ Held(w)
  BY DEF IInv, TypeOK, Image, SoftDelete, Operate
<1>2. CASE mem[w].life.deleted
  BY <1>1, <1>2, IdlePreserves DEF SoftDelete, Nothing
<1>3. CASE ~mem[w].life.deleted
  <2>1. [mem[w].life EXCEPT !.deleted = TRUE] \in Columns
    BY <1>1 DEF Columns
  <2>2. [StampBumped(w) EXCEPT !.life.deleted = TRUE]
          = [StampBumped(w) EXCEPT !.life = [mem[w].life EXCEPT !.deleted = TRUE]]
    <3>1. StampBumped(w) \in Image /\ StampBumped(w).life = mem[w].life
      BY <1>1, StampBumpedWith DEF IInv, StampBumped, Image
    <3> QED  BY <3>1 DEF Image
  <2>3. Assignable(w, [StampBumped(w) EXCEPT !.life.deleted = TRUE])
    BY <2>1, <2>2, StampBumpedWith DEF IInv
  <2> QED  BY <1>1, <1>3, <2>3, SavePreserves DEF SoftDelete
<1> QED  BY <1>2, <1>3

LEMMA DeletePreserves ==
  ASSUME IInv, NEW w \in Worker, NEW actor \in BOOLEAN, Delete(w, actor)
  PROVE  IInv' /\ StampStep
<1>1. /\ row \in Image /\ row.version \in Nat /\ row.stamp \in Nat
      /\ row.life \in Columns
      /\ mem \in [Worker -> Image] /\ mem[w] \in Image
      /\ mem[w].version \in Nat /\ mem[w].stamp \in Nat /\ mem[w].life \in Columns
      /\ now' \in Nat \ {0} /\ ops' \in Nat /\ Held(w)
  BY DEF IInv, TypeOK, Image, Delete, Operate
<1>2. /\ [row.life EXCEPT !.deleted = TRUE] \in Columns
      /\ [mem[w].life EXCEPT !.deleted = TRUE] \in Columns
      /\ ~Restricts(row.life, [row.life EXCEPT !.deleted = TRUE])
      /\ Restricts([row.life EXCEPT !.deleted = TRUE], [mem[w].life EXCEPT !.deleted = TRUE])
           => Restricts(row.life, mem[w].life)
      /\ Restricts(row.life, [mem[w].life EXCEPT !.deleted = TRUE])
           => Restricts(row.life, mem[w].life)
  BY <1>1 DEF Columns, Restricts, HasLock
<1>3. CASE Nothing
  BY <1>1, <1>3, IdlePreserves DEF Nothing
<1>4. CASE /\ mem[w].version = row.version
           /\ row' = [row EXCEPT !.version = @ + 1, !.life.deleted = TRUE]
           /\ mem' = [mem EXCEPT ![w].version = @ + 1, ![w].life.deleted = TRUE]
  <2>1. /\ row' \in Image
        /\ row'.version = row.version + 1
        /\ row'.stamp = row.stamp
        /\ row'.life = [row.life EXCEPT !.deleted = TRUE]
    <3>1. row' = [version |-> row.version + 1, stamp |-> row.stamp,
                  life |-> [row.life EXCEPT !.deleted = TRUE]]
      BY <1>1, <1>4 DEF Image
    <3> QED  BY <1>1, <1>2, <3>1 DEF Image
  <2>2. /\ mem' \in [Worker -> Image]
        /\ mem'[w].version = row'.version
        /\ mem'[w].stamp = mem[w].stamp
        /\ mem'[w].life = [mem[w].life EXCEPT !.deleted = TRUE]
        /\ \A v \in Worker : v # w => mem'[v] = mem[v]
    BY <1>1, <1>2, <1>4, <2>1 DEF Image
  <2>3. TypeOK' /\ StoredCoherent'
    BY <1>1, <2>1, <2>2 DEF IInv, TypeOK, StoredCoherent, Coherent, HasLock, Columns
  <2>4. StampStep
    BY <1>1, <1>2, <2>1 DEF StampStep
  <2>5. PendingRestrictionsCarryStamp'
    <3> SUFFICES ASSUME NEW v \in Worker
                 PROVE  /\ mem'[v].version <= row'.version
                        /\ Held(v)' /\ mem'[v].version = row'.version =>
                             /\ mem'[v].stamp >= row'.stamp
                             /\ Restricts(row'.life, mem'[v].life)
                                  => mem'[v].stamp > row'.stamp
      BY DEF PendingRestrictionsCarryStamp
    <3>1. CASE v = w
      BY <1>1, <1>2, <1>4, <2>1, <2>2, <3>1 DEF IInv, PendingRestrictionsCarryStamp
    <3>2. CASE v # w
      <4>1. mem'[v] = mem[v] /\ mem[v].version <= row.version /\ mem[v].version \in Nat
        BY <1>1, <2>2, <3>2 DEF IInv, PendingRestrictionsCarryStamp, Image
      <4> QED  BY <1>1, <2>1, <4>1
    <3> QED  BY <3>1, <3>2
  <2> QED  BY <2>3, <2>4, <2>5 DEF IInv
<1>5. CASE mem' = [mem EXCEPT ![w].life.deleted = TRUE] /\ UNCHANGED row
  <2>1. /\ mem' \in [Worker -> Image]
        /\ mem'[w].version = mem[w].version
        /\ mem'[w].stamp = mem[w].stamp
        /\ mem'[w].life = [mem[w].life EXCEPT !.deleted = TRUE]
        /\ \A v \in Worker : v # w => mem'[v] = mem[v]
    BY <1>1, <1>2, <1>5 DEF Image
  <2>2. TypeOK' /\ StoredCoherent'
    BY <1>1, <1>5, <2>1 DEF IInv, TypeOK, StoredCoherent
  <2>3. StampStep
    BY <1>1, <1>5, NothingRestrictsItself DEF StampStep
  <2>4. PendingRestrictionsCarryStamp'
    BY <1>1, <1>2, <1>5, <2>1 DEF IInv, PendingRestrictionsCarryStamp, Held
  <2> QED  BY <2>2, <2>3, <2>4 DEF IInv
<1> QED  BY <1>3, <1>4, <1>5 DEF Delete

LEMMA InitIInv == Init => IInv
<1> SUFFICES ASSUME Init PROVE IInv
  OBVIOUS
<1>1. Unrestricted \in Columns /\ Coherent(Unrestricted)
  BY DEF Unrestricted, Columns, Coherent, HasLock, NoLock, NoExpiry
<1>2. TypeOK
  BY <1>1 DEF Init, TypeOK, Image, NoInstance
<1>3. StoredCoherent /\ PendingRestrictionsCarryStamp
  BY <1>1 DEF Init, StoredCoherent, PendingRestrictionsCarryStamp, NoInstance, Held
<1> QED  BY <1>2, <1>3 DEF IInv

LEMMA StepIInv == IInv /\ [Next]_vars => IInv' /\ [StampStep]_vars
<1> SUFFICES ASSUME IInv, [Next]_vars PROVE IInv' /\ StampStep
  OBVIOUS
<1>0. /\ now \in Nat \ {0} /\ ops \in Nat
      /\ row \in Image /\ mem \in [Worker -> Image]
      /\ \A w \in Worker : mem[w].life \in Columns
  BY DEF IInv, TypeOK, Image
<1>1. CASE UNCHANGED vars
  BY <1>0, <1>1, IdlePreserves DEF vars, IInv, TypeOK
<1>2. CASE Tick
  BY <1>0, <1>2, IdlePreserves DEF Tick
<1>3. ASSUME NEW w \in Worker, Load(w) PROVE IInv' /\ StampStep
  <2>1. now' \in Nat \ {0} /\ ops' \in Nat
    BY <1>0, <1>3 DEF Load, Operate
  <2>2. row' \in Image /\ UNCHANGED row /\ mem' = [mem EXCEPT ![w] = row']
    BY <1>0, <1>3 DEF Load
  <2> QED  BY <2>1, <2>2, ReadPreserves
<1>4. ASSUME NEW w \in Worker, BumpSecurityStamp(w) PROVE IInv' /\ StampStep
  <2>1. /\ row' \in Image
        /\ row'.version > row.version
        /\ row'.stamp >= row.stamp
        /\ row'.life = row.life
    <3>1. row.version \in Nat /\ row.stamp \in Nat /\ row.life \in Columns
      BY <1>0 DEF Image
    <3>2. row' = [version |-> row.version + 1, stamp |-> row.stamp + 1, life |-> row.life]
      BY <1>0, <1>4 DEF BumpSecurityStamp, Image
    <3> QED  BY <3>1, <3>2 DEF Image
  <2>2. now' \in Nat \ {0} /\ ops' \in Nat
    BY <1>0, <1>4 DEF BumpSecurityStamp, Operate
  <2> QED  BY <1>4, <2>1, <2>2, ReadPreserves DEF BumpSecurityStamp
<1>5. ASSUME NEW w \in Worker, NEW actor \in BOOLEAN, NEW duration \in Duration,
             Lock(w, duration, actor)
      PROVE  IInv' /\ StampStep
  <2>1. now + duration \in Nat
    BY <1>0
  <2>2. Locked(mem[w].life, now + duration) \in Columns
    BY <1>0, <2>1, TransitionType
  <2> QED  BY <1>5, <2>2, RestrictPreserves DEF Lock
<1>6. ASSUME NEW w \in Worker, NEW actor \in BOOLEAN,
             Suspend(w, actor) \/ Disable(w, actor)
      PROVE  IInv' /\ StampStep
  <2>1. /\ Suspended(mem[w].life) \in Columns
        /\ Disabled(mem[w].life) \in Columns
    BY <1>0, TransitionType
  <2> QED  BY <1>6, <2>1, RestrictPreserves DEF Suspend, Disable
<1>7. ASSUME NEW w \in Worker, NEW actor \in BOOLEAN,
             Enable(w, actor) \/ Unsuspend(w, actor) \/ Unlock(w, actor)
      PROVE  IInv' /\ StampStep
  <2>1. Held(w) /\ now' \in Nat \ {0} /\ ops' \in Nat
    BY <1>0, <1>7 DEF Enable, Unsuspend, Unlock, Operate
  <2>2. CASE Nothing
    BY <2>1, <2>2, IdlePreserves DEF Nothing
  <2>3. CASE ~Nothing
    BY <1>7, <2>1, <2>3, LiftPreserves DEF Enable, Unsuspend, Unlock
  <2> QED  BY <2>2, <2>3
<1>8. ASSUME NEW w \in Worker, NEW actor \in BOOLEAN, Restore(w, actor)
      PROVE  IInv' /\ StampStep
  <2>1. Held(w) /\ now' \in Nat \ {0} /\ ops' \in Nat
    BY <1>0, <1>8 DEF Restore, Operate
  <2>2. CASE Nothing
    BY <2>1, <2>2, IdlePreserves DEF Nothing
  <2>3. CASE ~Nothing
    <3>1. [mem[w] EXCEPT !.life.deleted = FALSE]
            = [mem[w] EXCEPT !.life = [mem[w].life EXCEPT !.deleted = FALSE]]
      BY <1>0 DEF Image
    <3> QED  BY <1>8, <2>1, <2>3, <3>1, LiftPreserves DEF Restore
  <2> QED  BY <2>2, <2>3
<1>9. ASSUME NEW w \in Worker, NEW actor \in BOOLEAN, SetDisplayName(w, actor)
      PROVE  IInv' /\ StampStep
  <2>1. Held(w) /\ now' \in Nat \ {0} /\ ops' \in Nat
    BY <1>0, <1>9 DEF SetDisplayName, Operate
  <2>2. Assignable(w, mem[w])
    BY <1>0 DEF Assignable, Image
  <2> QED  BY <1>9, <2>1, <2>2, SavePreserves DEF SetDisplayName
<1> QED
  BY <1>1, <1>2, <1>3, <1>4, <1>5, <1>6, <1>7, <1>8, <1>9,
     SoftDeletePreserves, DeletePreserves DEF Next

LEMMA Invariance == Spec => []IInv
<1>1. IInv /\ [Next]_vars => IInv'
  BY StepIInv
<1> QED  BY InitIInv, <1>1, PTL DEF Spec

\* The row and the instances keep their shape.
THEOREM TypeCorrect == Spec => []TypeOK
<1>1. IInv => TypeOK
  BY DEF IInv
<1> QED  BY <1>1, Invariance, PTL

\* is_active, as stored, is TRUE exactly when no restriction is stored.
THEOREM CoherenceIsStored == Spec => []StoredCoherent
<1>1. IInv => StoredCoherent
  BY DEF IInv
<1> QED  BY <1>1, Invariance, PTL

\* An instance whose save can succeed and would restrict carries a new stamp.
THEOREM PendingRestrictions == Spec => []PendingRestrictionsCarryStamp
<1>1. IInv => PendingRestrictionsCarryStamp
  BY DEF IInv
<1> QED  BY <1>1, Invariance, PTL

\* Logout everywhere: whatever the interleaving, a stored lock, suspension or
\* disabling raises the stored security stamp, and nothing lowers it.
THEOREM EveryRestrictionEndsSessions == Spec => RestrictionsBumpStamp
<1>1. IInv /\ [Next]_vars => [/\ row'.stamp >= row.stamp
                              /\ Restricts(row.life, row'.life)
                                   => row'.stamp > row.stamp]_vars
  BY StepIInv DEF StampStep
<1> QED  BY <1>1, Invariance, PTL DEF Spec, RestrictionsBumpStamp

\* Every operation leaves the clock alone, and the clock the row.
LEMMA StepClock ==
  ASSUME TypeOK, [Next]_vars
  PROVE  \/ now' = now
         \/ now' \in Nat /\ now' > now /\ row' = row
<1>1. CASE UNCHANGED vars
  BY <1>1 DEF vars
<1>2. CASE Tick
  BY <1>2 DEF Tick, TypeOK
<1>3. CASE Next /\ ~Tick
  <2>1. Operate
    BY <1>3 DEF Next, Load, BumpSecurityStamp, Lock, Suspend, Disable, ApplyRestriction,
       Enable, Unsuspend, Unlock, SoftDelete, Restore, Delete, SetDisplayName
  <2> QED  BY <2>1 DEF Operate
<1> QED  BY <1>1, <1>2, <1>3

\* The stored principal implements the contract that the sessions rely on.
THEOREM SessionContractKept == Spec => KeepsSessionContract
<1>1. Init => Stamp!Init
  BY DEF Init, Stamp!Init, Columns, Stamp!Columns, Unrestricted, Coherent, Stamp!Coherent,
     HasLock, Stamp!HasLock, NoLock, Stamp!NoLock, NoExpiry
<1>2. IInv /\ [Next]_vars => [Stamp!Next]_(Stamp!vars)
  <2> SUFFICES ASSUME IInv, [Next]_vars
               PROVE  [Stamp!Next]_(Stamp!vars)
    OBVIOUS
  <2>1. row' \in Image /\ StoredCoherent' /\ (StampStep \/ UNCHANGED vars)
    BY StepIInv DEF IInv, TypeOK
  <2>2. CASE now' = now /\ row'.life = row.life /\ row'.stamp = row.stamp
    BY <2>2 DEF Stamp!vars
  <2>3. CASE now' = now /\ ~(row'.life = row.life /\ row'.stamp = row.stamp)
    <3>1. StampStep
      BY <2>1, <2>3 DEF vars
    <3>2. Stamp!Write
      BY <2>1, <2>3, <3>1 DEF StampStep, Stamp!Write, Stamp!Allowed, Image, StoredCoherent,
         Coherent, Stamp!Coherent, HasLock, Stamp!HasLock, NoLock, Stamp!NoLock,
         Restricts, Stamp!Restricts, Columns, Stamp!Columns
    <3> QED  BY <3>2 DEF Stamp!Next
  <2>4. CASE now' \in Nat /\ now' > now /\ row' = row
    BY <2>4 DEF Stamp!Tick, Stamp!Next
  <2> QED  BY <2>2, <2>3, <2>4, StepClock DEF IInv
<1> QED  BY <1>1, <1>2, Invariance, PTL DEF Spec, Stamp!Spec, KeepsSessionContract

\* No stamp, stored or on an instance, is larger than b.
StampsUpTo(b) == row.stamp <= b /\ \A w \in Worker : mem[w].stamp <= b

\* Whatever a step stores has a new version, and it bumps a stamp once at most.
Numbered ==
  /\ row' = row \/ row'.version > row.version
  /\ \A b \in Nat : StampsUpTo(b) => StampsUpTo(b + 1)'

LEMMA SaveNumbers ==
  ASSUME TypeOK, NEW w \in Worker, NEW actor, NEW m, Save(w, m, actor),
         m \in [version : Nat, stamp : Nat, life : {m.life}],
         m.stamp <= mem[w].stamp + 1
  PROVE  Numbered
<1>1. /\ row.version \in Nat /\ row.stamp \in Nat /\ m.version \in Nat /\ m.stamp \in Nat
      /\ mem \in [Worker -> Image] /\ \A v \in Worker : mem[v].stamp \in Nat
  BY DEF TypeOK, Image
<1>2. CASE /\ SaveAccepts(m, actor) /\ row' = [m EXCEPT !.version = @ + 1]
           /\ mem' = [mem EXCEPT ![w] = row']
  <2>1. row'.version = m.version + 1 /\ row'.stamp = m.stamp /\ m.version = row.version
    BY <1>2 DEF SaveAccepts
  <2> QED  BY <1>1, <1>2, <2>1 DEF Numbered, StampsUpTo
<1>3. CASE mem' = [mem EXCEPT ![w] = m] /\ UNCHANGED row
  BY <1>1, <1>3 DEF Numbered, StampsUpTo
<1> QED  BY <1>2, <1>3 DEF Save

LEMMA RowsAreVersioned ==
  ASSUME TypeOK, [Next]_vars
  PROVE  Numbered
<1>0. /\ row \in Image /\ mem \in [Worker -> Image]
      /\ row.version \in Nat /\ row.stamp \in Nat
      /\ \A v \in Worker : mem[v].stamp \in Nat
  BY DEF TypeOK, Image
<1>1. ASSUME NEW w \in Worker, NEW c
      PROVE  /\ [mem[w] EXCEPT !.life = c] \in [version : Nat, stamp : Nat, life : {c}]
             /\ [StampBumped(w) EXCEPT !.life = c] \in [version : Nat, stamp : Nat, life : {c}]
             /\ [mem[w] EXCEPT !.life = c].life = c
             /\ [StampBumped(w) EXCEPT !.life = c].life = c
             /\ [mem[w] EXCEPT !.life = c].stamp = mem[w].stamp
             /\ [StampBumped(w) EXCEPT !.life = c].stamp = mem[w].stamp + 1
             /\ StampBumped(w).stamp = mem[w].stamp + 1
  <2>1. mem[w] \in [version : Nat, stamp : Nat, life : Columns]
    BY <1>0 DEF Image
  <2>2. [mem[w] EXCEPT !.life = c]
          = [version |-> mem[w].version, stamp |-> mem[w].stamp, life |-> c]
    BY <2>1
  <2>3. StampBumped(w) = [version |-> mem[w].version, stamp |-> mem[w].stamp + 1,
                          life |-> mem[w].life]
    BY <2>1 DEF StampBumped
  <2>4. [StampBumped(w) EXCEPT !.life = c]
          = [version |-> mem[w].version, stamp |-> mem[w].stamp + 1, life |-> c]
    BY <2>3
  <2>5. mem[w].version \in Nat /\ mem[w].stamp \in Nat /\ mem[w].stamp + 1 \in Nat
    BY <2>1
  <2> QED  BY <2>2, <2>3, <2>4, <2>5
<1>2. ASSUME NEW w \in Worker, NEW actor, NEW c,
             Save(w, [mem[w] EXCEPT !.life = c], actor)
               \/ Save(w, [StampBumped(w) EXCEPT !.life = c], actor)
      PROVE  Numbered
  BY <1>0, <1>1, <1>2, SaveNumbers
<1>3. ASSUME Nothing PROVE Numbered
  BY <1>0, <1>3 DEF Nothing, Numbered, StampsUpTo
<1>4. ASSUME NEW w \in Worker, NEW actor, NEW c, ApplyRestriction(w, c, actor)
      PROVE  Numbered
  <2>1. CASE mem' = [mem EXCEPT ![w] = StampBumped(w)] /\ UNCHANGED row
    <3>1. StampBumped(w).stamp = mem[w].stamp + 1
      BY <1>1
    <3>2. \A v \in Worker : mem'[v].stamp = mem[v].stamp \/ mem'[v].stamp = mem[v].stamp + 1
      BY <1>0, <2>1, <3>1
    <3> QED  BY <1>0, <2>1, <3>2 DEF Numbered, StampsUpTo
  <2> QED  BY <1>2, <1>4, <2>1 DEF ApplyRestriction
<1>5. ASSUME NEW w \in Worker, NEW actor,
             \/ Enable(w, actor) \/ Unsuspend(w, actor) \/ Unlock(w, actor)
             \/ Restore(w, actor) \/ SetDisplayName(w, actor) \/ SoftDelete(w, actor)
      PROVE  Numbered
  <2>1. mem[w] = [mem[w] EXCEPT !.life = mem[w].life]
    BY <1>0 DEF Image
  <2>2. [mem[w] EXCEPT !.life.deleted = FALSE]
          = [mem[w] EXCEPT !.life = [mem[w].life EXCEPT !.deleted = FALSE]]
    BY <1>0 DEF Image
  <2>3. [StampBumped(w) EXCEPT !.life.deleted = TRUE]
          = [StampBumped(w) EXCEPT !.life = [mem[w].life EXCEPT !.deleted = TRUE]]
    BY <1>0 DEF Image, StampBumped
  <2>4. \/ Nothing
        \/ \E c : \/ Save(w, [mem[w] EXCEPT !.life = c], actor)
                 \/ Save(w, [StampBumped(w) EXCEPT !.life = c], actor)
    <3>1. CASE SetDisplayName(w, actor)
      BY <2>1, <3>1 DEF SetDisplayName
    <3>2. CASE Restore(w, actor)
      BY <2>2, <3>2 DEF Restore
    <3>3. CASE SoftDelete(w, actor)
      BY <2>3, <3>3 DEF SoftDelete
    <3>4. CASE Enable(w, actor)
      BY <3>4 DEF Enable
    <3>5. CASE Unsuspend(w, actor)
      BY <3>5 DEF Unsuspend
    <3>6. CASE Unlock(w, actor)
      BY <3>6 DEF Unlock
    <3> QED  BY <1>5, <3>1, <3>2, <3>3, <3>4, <3>5, <3>6
  <2> QED  BY <1>2, <1>3, <2>4
<1>6. ASSUME NEW w \in Worker, NEW actor, Delete(w, actor)
      PROVE  Numbered
  <2>1. CASE /\ row' = [row EXCEPT !.version = @ + 1, !.life.deleted = TRUE]
             /\ mem' = [mem EXCEPT ![w].version = @ + 1, ![w].life.deleted = TRUE]
    <3>1. row'.version = row.version + 1 /\ row'.stamp = row.stamp
      BY <1>0, <2>1 DEF Image
    <3>2. \A v \in Worker : mem'[v].stamp = mem[v].stamp
      BY <1>0, <2>1 DEF Image
    <3> QED  BY <1>0, <3>1, <3>2 DEF Numbered, StampsUpTo
  <2>2. CASE mem' = [mem EXCEPT ![w].life.deleted = TRUE] /\ UNCHANGED row
    <3>1. \A v \in Worker : mem'[v].stamp = mem[v].stamp
      BY <1>0, <2>2 DEF Image
    <3> QED  BY <1>0, <2>2, <3>1 DEF Numbered, StampsUpTo
  <2> QED  BY <1>3, <1>6, <2>1, <2>2 DEF Delete
<1>7. ASSUME NEW w \in Worker, BumpSecurityStamp(w)
      PROVE  Numbered
  <2>1. row'.version = row.version + 1 /\ row'.stamp = row.stamp + 1
    BY <1>0, <1>7 DEF BumpSecurityStamp, Image
  <2> QED  BY <1>0, <1>7, <2>1 DEF BumpSecurityStamp, Numbered, StampsUpTo
<1>8. ASSUME NEW w \in Worker, Load(w)
      PROVE  Numbered
  BY <1>0, <1>8 DEF Load, Numbered, StampsUpTo
<1>9. ASSUME UNCHANGED vars \/ Tick PROVE Numbered
  BY <1>3, <1>9 DEF vars, Tick, Nothing
<1> QED
  BY <1>4, <1>5, <1>6, <1>7, <1>8, <1>9 DEF Next, Lock, Suspend, Disable

-----------------------------------------------------------------------------
(* PrincipalSessions: the two parts together.                               *)

USE LoginAssumption, LifetimeAssumption

\* The theorems about AuthSessions, here with the principal of this module.
Live ==
  INSTANCE Sessions_proofs WITH
    Worker <- Login, Duration <- Lifetime, principal <- Shown,
    PrincipalLife <- Columns, MaxStamp <- MaxOps + 1

\* What bounds the stamps is the number of operations.
SystemInv ==
  /\ IInv
  /\ ops <= MaxOps
  /\ StampsUpTo(ops + 1)

\* A session is not an operation of the principal, and takes no time.
LEMMA SessionStepsLeavePrincipal == SessionStep => UNCHANGED vars
<1> SUFFICES ASSUME SessionStep PROVE UNCHANGED vars
  OBVIOUS
<1>1. now' = now
  BY DEF SessionStep, Sessions!SessionsStep, Sessions!BeginLogin, Sessions!AbandonLogin,
     Sessions!CreateSession, Sessions!SessionOperation, Sessions!Lock, Sessions!Unlock,
     Sessions!Suspend, Sessions!Unsuspend, Sessions!Revoke, Sessions!Enable,
     Sessions!SoftDelete, Sessions!Restore, Sessions!Save, Sessions!TerminateAll,
     Sessions!BulkDisable, Sessions!ClearExpired, Sessions!CleanupTerminal
<1> QED  BY <1>1 DEF SessionStep, principalVars, vars

LEMMA SystemStepsAreSteps == [SystemNext]_systemVars => [Next]_vars
BY SessionStepsLeavePrincipal DEF SystemNext, PrincipalStep, systemVars, vars

\* The operations count the steps that write.
LEMMA StepsCount ==
  ASSUME TypeOK, [Next]_vars
  PROVE  \/ UNCHANGED <<row, mem, ops>>
         \/ now' = now /\ ops < MaxOps /\ ops' = ops + 1
<1>1. CASE UNCHANGED vars \/ Tick
  BY <1>1 DEF vars, Tick
<1>2. CASE Next /\ ~Tick
  <2>1. Operate
    BY <1>2 DEF Next, Load, BumpSecurityStamp, Lock, Suspend, Disable, ApplyRestriction,
       Enable, Unsuspend, Unlock, SoftDelete, Restore, Delete, SetDisplayName
  <2> QED  BY <2>1 DEF Operate
<1> QED  BY <1>1, <1>2

LEMMA SystemInvInit == SystemInit => SystemInv
<1> SUFFICES ASSUME SystemInit PROVE SystemInv
  OBVIOUS
<1>1. IInv
  BY InitIInv DEF SystemInit
<1>2. ops <= MaxOps /\ StampsUpTo(ops + 1)
  BY DEF SystemInit, Init, StampsUpTo, NoInstance
<1> QED  BY <1>1, <1>2 DEF SystemInv

LEMMA SystemInvStep == SystemInv /\ [SystemNext]_systemVars => SystemInv'
<1> SUFFICES ASSUME SystemInv, [SystemNext]_systemVars PROVE SystemInv'
  OBVIOUS
<1>1. [Next]_vars /\ TypeOK /\ ops \in Nat /\ ops + 1 \in Nat
  BY SystemStepsAreSteps DEF SystemInv, IInv, TypeOK
<1>2. IInv'
  BY <1>1, StepIInv DEF SystemInv
<1>3. CASE UNCHANGED <<row, mem, ops>>
  BY <1>2, <1>3 DEF SystemInv, StampsUpTo
<1>4. CASE ops < MaxOps /\ ops' = ops + 1
  <2>1. StampsUpTo(ops + 1)
    BY DEF SystemInv
  <2>2. ASSUME NEW b \in Nat, b = ops + 1 PROVE StampsUpTo(b + 1)'
    BY <1>1, <2>1, <2>2, RowsAreVersioned DEF Numbered
  <2>3. StampsUpTo(ops + 1)'
    BY <1>1, <1>4, <2>2 DEF StampsUpTo
  <2>4. ops' <= MaxOps
    BY <1>1, <1>4
  <2> QED  BY <1>2, <2>3, <2>4 DEF SystemInv
<1> QED  BY <1>1, <1>3, <1>4, StepsCount

LEMMA SystemInvariance == SystemSpec => []SystemInv
BY SystemInvInit, SystemInvStep, PTL DEF SystemSpec

\* Sessions are no part of the principal: what is proved of it above holds with them.
THEOREM SystemRunsLifecycle == SystemSpec => Spec
<1>1. SystemInit => Init
  BY DEF SystemInit
<1> QED  BY <1>1, SystemStepsAreSteps, PTL DEF SystemSpec, Spec

\* A write of the row is one that AuthSessions lets the principal do.
LEMMA WritesAreAllowed ==
  ASSUME SystemInv, SystemInv', StampStep, PrincipalStep, now' = now
  PROVE  Sessions!PrincipalWrites
<1>1. /\ row \in Image /\ row.stamp \in Nat /\ row.life \in Columns
      /\ row' \in Image /\ row'.stamp \in Nat /\ row'.life \in Columns
      /\ ops \in Nat /\ ops' \in Nat /\ ops' <= MaxOps /\ row'.stamp <= ops' + 1
      /\ StoredCoherent'
  BY DEF SystemInv, IInv, TypeOK, Image, StampsUpTo
<1>2. row'.stamp >= row.stamp /\ (Restricts(row.life, row'.life) => row'.stamp > row.stamp)
  BY DEF StampStep
<1>3. /\ Shown.stamp = row.stamp /\ Shown.life = row.life
      /\ Shown' = [stamp |-> row'.stamp, life |-> row'.life]
  BY DEF Shown
<1>4. row'.stamp \in row.stamp .. (MaxOps + 1)
  BY <1>1, <1>2
<1>5. Shown' \in [stamp : Shown.stamp .. (MaxOps + 1), life : Columns]
  BY <1>1, <1>3, <1>4
<1>6. Sessions!Contract!Coherent(row'.life)
  BY <1>1 DEF StoredCoherent, Coherent, Sessions!Contract!Coherent, HasLock,
     Sessions!Contract!HasLock, NoLock, Sessions!Contract!NoLock
<1>7. Sessions!Contract!Restricts(row.life, row'.life) <=> Restricts(row.life, row'.life)
  BY DEF Restricts, Sessions!Contract!Restricts, HasLock, Sessions!Contract!HasLock,
     NoLock, Sessions!Contract!NoLock
<1>8. Sessions!Contract!Allowed(Shown, Shown')
  BY <1>1, <1>2, <1>3, <1>6, <1>7 DEF Sessions!Contract!Allowed
<1> QED  BY <1>5, <1>8 DEF PrincipalStep, Sessions!PrincipalWrites, Columns

\* A step that leaves what a session reads alone cuts nothing.
LEMMA NoCutWithoutWrite ==
  ASSUME SystemInv, row' = row
  PROVE  ~Sessions!Cut(Shown, Shown')
BY DEF Shown, Sessions!Cut, Sessions!Restricts, Sessions!HasLock

\* The sessions of PrincipalSessions live with a principal as AuthSessions assumes
\* it: what is checked and proved there is so whatever the operations on the principal
\* do, from instances however old and dirty.
THEOREM SessionsPromiseKept == SystemSpec => KeepsSessionsPromise
<1>1. SystemInit => Sessions!SessionsInit
  BY DEF SystemInit
<1>2. SystemInv /\ SystemInv' /\ [SystemNext]_systemVars
        => [Sessions!SessionsNext]_(Sessions!sessionsVars)
  <2> SUFFICES ASSUME SystemInv, SystemInv', [SystemNext]_systemVars
               PROVE  [Sessions!SessionsNext]_(Sessions!sessionsVars)
    OBVIOUS
  <2>1. CASE UNCHANGED systemVars
    BY <2>1 DEF systemVars, vars, Sessions!sessionsVars, Shown
  <2>2. CASE SessionStep
    BY <2>2 DEF SessionStep, Sessions!SessionsNext
  <2>3. CASE PrincipalStep
    <3>1. TypeOK /\ IInv /\ Next /\ [Next]_vars /\ UNCHANGED <<read, sessions>>
      BY <2>3 DEF PrincipalStep, SystemInv, IInv
    <3>2. CASE Tick
      <4>1. row' = row /\ current' = current
        BY <2>3, <3>2, NoCutWithoutWrite DEF Tick, PrincipalStep
      <4>2. Sessions!Tick
        BY <3>1, <3>2, <4>1 DEF Tick, Sessions!Tick, Shown
      <4> QED  BY <4>2 DEF Sessions!SessionsNext
    <3>3. CASE UNCHANGED vars
      <4>1. row' = row /\ now' = now
        BY <3>3 DEF vars
      <4>2. current' = current
        BY <2>3, <4>1, NoCutWithoutWrite DEF PrincipalStep
      <4> QED  BY <3>1, <4>1, <4>2 DEF Sessions!sessionsVars, Shown
    <3>4. CASE ~Tick /\ ~UNCHANGED vars
      <4>1. StampStep
        BY <3>1, <3>4, StepIInv
      <4>2. Operate
        BY <3>1, <3>4 DEF Next, Load, BumpSecurityStamp, Lock, Suspend, Disable,
           ApplyRestriction, Enable, Unsuspend, Unlock, SoftDelete, Restore, Delete,
           SetDisplayName
      <4>3. Sessions!PrincipalWrites
        BY <2>3, <4>1, <4>2, WritesAreAllowed DEF Operate
      <4> QED  BY <4>3 DEF Sessions!SessionsNext
    <3> QED  BY <3>2, <3>3, <3>4
  <2> QED  BY <2>1, <2>2, <2>3 DEF SystemNext
<1> QED  BY <1>1, <1>2, SystemInvariance, PTL
         DEF SystemSpec, KeepsSessionsPromise, Sessions!SessionsSpec

-----------------------------------------------------------------------------
(* Live and Sessions are two instances of one module: what they define is   *)
(* the same, definition by definition.                                      *)

LEMMA SameColumns ==
  /\ Sessions!Unrestricted = Live!Unrestricted
  /\ \A c, d : Sessions!Restricts(c, d) <=> Live!Restricts(c, d)
  /\ \A c, t : /\ Sessions!Disabled(c) = Live!Disabled(c)
               /\ Sessions!Suspended(c) = Live!Suspended(c)
               /\ Sessions!Unlocked(c) = Live!Unlocked(c)
               /\ Sessions!Locked(c, t) = Live!Locked(c, t)
               /\ Sessions!Enabled(c, t) = Live!Enabled(c, t)
               /\ Sessions!Unsuspended(c, t) = Live!Unsuspended(c, t)
               /\ Sessions!Coherent(c) <=> Live!Coherent(c)
               /\ Sessions!IsLocked(c, t) <=> Live!IsLocked(c, t)
               /\ Sessions!IsExpired(c, t) <=> Live!IsExpired(c, t)
               /\ Sessions!CanAuthenticate(c, t) <=> Live!CanAuthenticate(c, t)
BY DEF Sessions!Unrestricted, Live!Unrestricted, Sessions!Restricts, Live!Restricts,
   Sessions!Disabled, Live!Disabled, Sessions!Suspended, Live!Suspended,
   Sessions!Unlocked, Live!Unlocked, Sessions!Locked, Live!Locked, Sessions!Enabled,
   Live!Enabled, Sessions!Unsuspended, Live!Unsuspended, Sessions!Coherent,
   Live!Coherent, Sessions!IsLocked, Live!IsLocked, Sessions!IsExpired, Live!IsExpired,
   Sessions!CanAuthenticate, Live!CanAuthenticate, Sessions!HasLock, Live!HasLock,
   Sessions!NoLock, Live!NoLock, Sessions!NoExpiry, Live!NoExpiry

LEMMA SameLogins ==
  ASSUME NEW w \in Login
  PROVE  /\ Sessions!BeginLogin(w) <=> Live!BeginLogin(w)
         /\ Sessions!AbandonLogin(w) <=> Live!AbandonLogin(w)
         /\ \A s, expires_at, pending :
              Sessions!CreateSession(w, s, expires_at, pending)
                <=> Live!CreateSession(w, s, expires_at, pending)
<1>1. Sessions!NoImage = Live!NoImage
  BY SameColumns DEF Sessions!NoImage, Live!NoImage
<1>2. Sessions!BeginLogin(w) <=> Live!BeginLogin(w)
  BY <1>1, SameColumns DEF Sessions!BeginLogin, Live!BeginLogin
<1>3. Sessions!AbandonLogin(w) <=> Live!AbandonLogin(w)
  BY <1>1 DEF Sessions!AbandonLogin, Live!AbandonLogin
<1>4. ASSUME NEW s, NEW expires_at, NEW pending
      PROVE  Sessions!CreateSession(w, s, expires_at, pending)
               <=> Live!CreateSession(w, s, expires_at, pending)
  BY <1>1, SameColumns DEF Sessions!CreateSession, Live!CreateSession, Sessions!Stored,
     Live!Stored
<1> QED  BY <1>2, <1>3, <1>4

LEMMA SameOperations ==
  ASSUME NEW s \in AuthSession
  PROVE  Sessions!SessionOperation(s) <=> Live!SessionOperation(s)
<1>1. ASSUME NEW life PROVE Sessions!Save(s, life) <=> Live!Save(s, life)
  BY SameColumns DEF Sessions!Save, Live!Save, Sessions!Stored, Live!Stored
<1>2. ASSUME NEW d PROVE Sessions!Lock(s, d) <=> Live!Lock(s, d)
  BY <1>1, SameColumns DEF Sessions!Lock, Live!Lock
<1>3. /\ Sessions!Unlock(s) <=> Live!Unlock(s)
      /\ Sessions!Suspend(s) <=> Live!Suspend(s)
      /\ Sessions!Unsuspend(s) <=> Live!Unsuspend(s)
  BY <1>1, SameColumns DEF Sessions!Unlock, Live!Unlock, Sessions!Suspend, Live!Suspend,
     Sessions!Unsuspend, Live!Unsuspend
<1>4. /\ Sessions!Revoke(s) <=> Live!Revoke(s)
      /\ Sessions!Enable(s) <=> Live!Enable(s)
      /\ Sessions!SoftDelete(s) <=> Live!SoftDelete(s)
      /\ Sessions!Restore(s) <=> Live!Restore(s)
  BY <1>1, SameColumns DEF Sessions!Revoke, Live!Revoke, Sessions!Enable, Live!Enable,
     Sessions!SoftDelete, Live!SoftDelete, Sessions!Restore, Live!Restore
<1> QED  BY <1>2, <1>3, <1>4 DEF Sessions!SessionOperation, Live!SessionOperation

LEMMA SameBulks ==
  ASSUME NEW rows \in SUBSET AuthSession
  PROVE  /\ Sessions!TerminateAll(rows) <=> Live!TerminateAll(rows)
         /\ Sessions!ClearExpired(rows) <=> Live!ClearExpired(rows)
         /\ Sessions!CleanupTerminal(rows) <=> Live!CleanupTerminal(rows)
<1>1. \A s : /\ Sessions!Stored(s) <=> Live!Stored(s)
             /\ Sessions!Terminal(s) <=> Live!Terminal(s)
  BY DEF Sessions!Stored, Live!Stored, Sessions!Terminal, Live!Terminal
<1>2. ASSUME NEW some PROVE Sessions!BulkDisable(some) <=> Live!BulkDisable(some)
  BY DEF Sessions!BulkDisable, Live!BulkDisable
<1>3. Sessions!TerminateAll(rows) <=> Live!TerminateAll(rows)
  <2>1. {s \in AuthSession \ rows : Sessions!Stored(s) /\ ~Sessions!Terminal(s)}
          = {s \in AuthSession \ rows : Live!Stored(s) /\ ~Live!Terminal(s)}
    BY <1>1
  <2> QED  BY <1>2, <2>1 DEF Sessions!TerminateAll, Live!TerminateAll
<1>4. Sessions!ClearExpired(rows) <=> Live!ClearExpired(rows)
  BY <1>1, <1>2, SameColumns DEF Sessions!ClearExpired, Live!ClearExpired
<1>5. Sessions!CleanupTerminal(rows) <=> Live!CleanupTerminal(rows)
  BY <1>1, SameColumns DEF Sessions!CleanupTerminal, Live!CleanupTerminal,
     Sessions!NoRow, Live!NoRow
<1> QED  BY <1>3, <1>4, <1>5

LEMMA SameSpec == Sessions!SessionsSpec => Live!SessionsSpec
<1>1. Sessions!SessionsInit => Live!SessionsInit
  BY SameColumns DEF Sessions!SessionsInit, Live!SessionsInit, Sessions!NoRow, Live!NoRow,
     Sessions!NoImage, Live!NoImage
<1>2. Sessions!SessionsStep => Live!SessionsStep
  <2> SUFFICES ASSUME Sessions!SessionsStep PROVE Live!SessionsStep
    OBVIOUS
  <2>1. Sessions!NoExpiry = Live!NoExpiry
    BY DEF Sessions!NoExpiry, Live!NoExpiry
  <2>2. ASSUME NEW w \in Login, Sessions!BeginLogin(w) \/ Sessions!AbandonLogin(w)
        PROVE  Live!SessionsStep
    BY <2>2, SameLogins DEF Live!SessionsStep
  <2>3. ASSUME NEW w \in Login, NEW s \in AuthSession, NEW pending \in BOOLEAN,
               \/ Sessions!CreateSession(w, s, Sessions!NoExpiry, pending)
               \/ \E ttl \in Lifetime : Sessions!CreateSession(w, s, now + ttl, pending)
        PROVE  Live!SessionsStep
    BY <2>1, <2>3, SameLogins DEF Live!SessionsStep
  <2>4. CASE \E s \in AuthSession : Sessions!SessionOperation(s)
    BY <2>4, SameOperations DEF Live!SessionsStep
  <2>5. CASE \E spared \in {{}} \cup {{s} : s \in AuthSession} : Sessions!TerminateAll(spared)
    BY <2>5, SameBulks DEF Live!SessionsStep
  <2>6. CASE \E rows \in SUBSET AuthSession :
               Sessions!ClearExpired(rows) \/ Sessions!CleanupTerminal(rows)
    BY <2>6, SameBulks DEF Live!SessionsStep
  <2> QED  BY <2>2, <2>3, <2>4, <2>5, <2>6 DEF Sessions!SessionsStep
<1>3. Sessions!PrincipalWrites => Live!PrincipalWrites
  <2>1. \A c : Sessions!Contract!Coherent(c) <=> Live!Contract!Coherent(c)
    BY DEF Sessions!Contract!Coherent, Live!Contract!Coherent, Sessions!Contract!HasLock,
       Live!Contract!HasLock, Sessions!Contract!NoLock, Live!Contract!NoLock
  <2>2. \A c, d : Sessions!Contract!Restricts(c, d) <=> Live!Contract!Restricts(c, d)
    BY DEF Sessions!Contract!Restricts, Live!Contract!Restricts, Sessions!Contract!HasLock,
       Live!Contract!HasLock, Sessions!Contract!NoLock, Live!Contract!NoLock
  <2>3. \A old, new : Sessions!Contract!Allowed(old, new) <=> Live!Contract!Allowed(old, new)
    BY <2>1, <2>2 DEF Sessions!Contract!Allowed, Live!Contract!Allowed
  <2>4. \A old, new : Sessions!Cut(old, new) <=> Live!Cut(old, new)
    BY SameColumns DEF Sessions!Cut, Live!Cut
  <2> QED  BY <2>3, <2>4 DEF Sessions!PrincipalWrites, Live!PrincipalWrites
<1>4. [Sessions!SessionsNext]_(Sessions!sessionsVars) => [Live!SessionsNext]_(Live!sessionsVars)
  BY <1>2, <1>3 DEF Sessions!SessionsNext, Live!SessionsNext, Sessions!Tick, Live!Tick,
     Sessions!sessionsVars, Live!sessionsVars
<1> QED  BY <1>1, <1>4, PTL DEF Sessions!SessionsSpec, Live!SessionsSpec

\* Logout everywhere, of the whole: a session that is valid was created by a login that
\* read the principal after its last lock, suspension, disabling or bump of the stamp,
\* although any number of instances, old or dirty, were saved in between.
THEOREM RestrictionsEndSessions == SystemSpec => []NoSessionOutlivesRestriction
<1>1. Live!ActorAssumption /\ Live!DurationAssumption /\ Live!BoundAssumption
  BY DEF Live!ActorAssumption, Live!DurationAssumption, Live!BoundAssumption
<1>2. Live!PrincipalAssumption
  BY DEF Live!PrincipalAssumption, Live!Columns, Columns, Live!Unrestricted, Live!NoLock,
     Live!NoExpiry
<1>3. Live!SessionsSpec => []Live!NoSessionOutlivesCut
  BY <1>1, <1>2, Live!CutEndsSessions
<1>4. Live!NoSessionOutlivesCut => NoSessionOutlivesRestriction
  BY SameColumns DEF NoSessionOutlivesRestriction, Sessions!NoSessionOutlivesCut,
     Live!NoSessionOutlivesCut, Sessions!IsValid, Live!IsValid, Sessions!Stored, Live!Stored
<1> QED  BY <1>3, <1>4, SessionsPromiseKept, SameSpec, PTL DEF KeepsSessionsPromise
=============================================================================
