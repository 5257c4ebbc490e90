-------------------------- MODULE PrincipalLifecycle --------------------------
(***************************************************************************)
(* One Principal: its lifecycle columns and its security stamp, stored in  *)
(* a versioned row and held as instances by concurrent workers.            *)
(*                                                                         *)
(* Every operation assigns to the instance first and saves afterwards.     *)
(* When the save raises (no actor, stale version, lapsed lock) the         *)
(* assignments stay on the instance, and a later save of the same instance *)
(* writes them: Principal.save() drops update_fields unless it normalises  *)
(* something, so it writes every column.                                   *)
(*                                                                         *)
(* Usernames, phone numbers and e-mail addresses are taken as normalised.  *)
(* The lock is an optimistic one: see VersionedRow.                        *)
(***************************************************************************)
EXTENDS Lifecycle

CONSTANTS
  Worker,    \* holders of an instance of the principal
  Duration,  \* lock durations, in ticks of the clock
  MaxNow,    \* bound: the last instant of the clock
  MaxOps     \* bound: operations in a behaviour

ASSUME DurationAssumption == Duration \subseteq Nat \ {0}
ASSUME BoundAssumption == MaxNow \in Nat /\ MaxOps \in Nat

VARIABLES
  row,   \* the stored version, security_stamp and lifecycle columns
  mem,   \* mem[w]: the same on the instance of w; version 0 when none is held
  now,   \* timezone.now()
  ops    \* operations so far, those that changed nothing included

vars == <<row, mem, now, ops>>

Image == [version : Nat, stamp : Nat, life : Columns]
NoInstance == [version |-> 0, stamp |-> 0, life |-> Unrestricted]

TypeOK ==
  /\ row \in Image
  /\ mem \in [Worker -> Image]
  /\ now \in Nat \ {0}
  /\ ops \in Nat

Init ==
  /\ row = [version |-> 1, stamp |-> 1, life |-> Unrestricted]
  /\ mem = [w \in Worker |-> NoInstance]
  /\ now = 1
  /\ ops = 0

-----------------------------------------------------------------------------
Held(w) == mem[w].version > 0

\* An operation takes place, within the bound.
Operate ==
  /\ ops < MaxOps
  /\ ops' = ops + 1
  /\ UNCHANGED now

\* Principal.ACTOR_REQUIRED and LIFECYCLE_ACTOR_REQUIRED.
ActorRequired == TRUE
LifecycleActorRequired == TRUE

\* _set_actor(), called by every save, does not raise.
SetActor(actor) == ActorRequired => actor

\* _resolve_actor_for(), called for every new restriction, does not raise.
ResolveActor(actor) == LifecycleActorRequired => actor

\* Principal.save() of m goes through: no lapsed lock (clearing one raises
\* AttributeError: _clear_lock_fields does not exist), an actor, coherent columns,
\* and the stored version.
SaveAccepts(m, actor) ==
  /\ ~LockLapsed(m.life, now)
  /\ SetActor(actor)
  /\ Coherent(m.life)
  /\ m.version = row.version

\* save() of the instance of w after the assignments that made it m.
Save(w, m, actor) ==
  \/ /\ SaveAccepts(m, actor)
     /\ row' = [m EXCEPT !.version = @ + 1]
     /\ mem' = [mem EXCEPT ![w] = row']
  \/ /\ ~SaveAccepts(m, actor)
     /\ mem' = [mem EXCEPT ![w] = m]
     /\ UNCHANGED row

\* bump_security_stamp(save=False): the stamp grows on the instance only.
StampBumped(w) == [mem[w] EXCEPT !.stamp = @ + 1]

Nothing == UNCHANGED <<row, mem>>

-----------------------------------------------------------------------------
\* Principal.objects.get(...), or refresh_from_db() of the whole instance.
Load(w) ==
  /\ Operate
  /\ mem' = [mem EXCEPT ![w] = row]
  /\ UNCHANGED row

\* lock(), suspend() and disable(): the stamp is bumped before the actor is
\* asked for, so without one only the stamp has changed on the instance.
ApplyRestriction(w, restricted, actor) ==
  /\ Held(w)
  /\ Operate
  /\ \/ /\ ResolveActor(actor)
        /\ Save(w, [StampBumped(w) EXCEPT !.life = restricted], actor)
     \/ /\ ~ResolveActor(actor)
        /\ mem' = [mem EXCEPT ![w] = StampBumped(w)]
        /\ UNCHANGED row

Lock(w, duration, actor) ==
  ApplyRestriction(w, Locked(mem[w].life, now + duration), actor)
Suspend(w, actor) == ApplyRestriction(w, Suspended(mem[w].life), actor)
Disable(w, actor) == ApplyRestriction(w, Disabled(mem[w].life), actor)

Enable(w, actor) ==
  /\ Held(w)
  /\ Operate
  /\ IF mem[w].life.disabled
       THEN Save(w, [mem[w] EXCEPT !.life = Enabled(@, now)], actor)
       ELSE Nothing

Unsuspend(w, actor) ==
  /\ Held(w)
  /\ Operate
  /\ IF mem[w].life.suspended
       THEN Save(w, [mem[w] EXCEPT !.life = Unsuspended(@, now)], actor)
       ELSE Nothing

Unlock(w, actor) ==
  /\ Held(w)
  /\ Operate
  /\ IF IsLocked(mem[w].life, now)
       THEN Save(w, [mem[w] EXCEPT !.life = Unlocked(@)], actor)
       ELSE Nothing

SoftDelete(w, actor) ==
  /\ Held(w)
  /\ Operate
  /\ IF mem[w].life.deleted
       THEN Nothing
       ELSE Save(w, [StampBumped(w) EXCEPT !.life.deleted = TRUE], actor)

Restore(w, actor) ==
  /\ Held(w)
  /\ Operate
  /\ IF mem[w].life.deleted
       THEN Save(w, [mem[w] EXCEPT !.life.deleted = FALSE], actor)
       ELSE Nothing

\* ModelOperationsMixin.delete(), which Principal does not override: it goes
\* past Principal.save() and writes the column deleted_at alone.
Delete(w, actor) ==
  /\ Held(w)
  /\ Operate
  /\ \/ /\ mem[w].life.deleted
        /\ Nothing
     \/ /\ ~mem[w].life.deleted
        /\ SetActor(actor) /\ Coherent(mem[w].life) /\ mem[w].version = row.version
        /\ row' = [row EXCEPT !.version = @ + 1, !.life.deleted = TRUE]
        /\ mem' = [mem EXCEPT ![w].version = @ + 1, ![w].life.deleted = TRUE]
     \/ /\ ~mem[w].life.deleted
        /\ ~(SetActor(actor) /\ Coherent(mem[w].life) /\ mem[w].version = row.version)
        /\ mem' = [mem EXCEPT ![w].life.deleted = TRUE]
        /\ UNCHANGED row

\* A plausible defect of BumpSecurityStamp: the update() bypasses versioning.
BumpSecurityStampUnversioned(w) ==
  /\ Held(w)
  /\ Operate
  /\ row' = [row EXCEPT !.stamp = @ + 1]
  /\ mem' = [mem EXCEPT ![w] = row']

\* bump_security_stamp(): F("security_stamp") + 1 by a queryset update, which
\* bumps the version too, and a refresh of the whole instance.
BumpSecurityStamp(w) ==
  /\ Held(w)
  /\ Operate
  /\ row' = [row EXCEPT !.version = @ + 1, !.stamp = @ + 1]
  /\ mem' = [mem EXCEPT ![w] = row']

\* set_display_name(): the name itself is not modelled, its save is.
SetDisplayName(w, actor) ==
  /\ Held(w)
  /\ Operate
  /\ Save(w, mem[w], actor)

Tick ==
  /\ now < MaxNow
  /\ now' = now + 1
  /\ UNCHANGED <<row, mem, ops>>

Next ==
  \/ \E w \in Worker :
       \/ Load(w)
       \/ BumpSecurityStamp(w)
       \/ \E actor \in BOOLEAN :
            \/ \E duration \in Duration : Lock(w, duration, actor)
            \/ Suspend(w, actor)
            \/ Disable(w, actor)
            \/ Enable(w, actor)
            \/ Unsuspend(w, actor)
            \/ Unlock(w, actor)
            \/ SoftDelete(w, actor)
            \/ Restore(w, actor)
            \/ Delete(w, actor)
            \/ SetDisplayName(w, actor)
  \/ Tick

Spec == Init /\ [][Next]_vars

-----------------------------------------------------------------------------
\* The stored is_active mirrors the stored restrictions, whatever dirty
\* instances are saved and however locks lapse in between.
StoredCoherent == Coherent(row.life)

\* What an instance may still write: no instance is ahead of the row, and one
\* that can pass the version check carries a stamp that is not older, newer
\* if its save would restrict the principal.
PendingRestrictionsCarryStamp ==
  \A w \in Worker :
    /\ mem[w].version <= row.version
    /\ Held(w) /\ mem[w].version = row.version =>
         /\ mem[w].stamp >= row.stamp
         /\ Restricts(row.life, mem[w].life) => mem[w].stamp > row.stamp

\* The stamp never goes back, and every stored restriction (lock, prolonged
\* lock, suspension, disabling) comes with a new stamp: sessions and tokens
\* issued before it no longer match, also after it is lifted.
RestrictionsBumpStamp ==
  [][/\ row'.stamp >= row.stamp
     /\ Restricts(row.life, row'.life) => row'.stamp > row.stamp]_vars

\* What the sessions rely on, see SecurityStamp: every step of the row is one
\* of the writes that module allows.
Stamp == INSTANCE SecurityStamp WITH life <- row.life, stamp <- row.stamp
KeepsSessionContract == Stamp!Spec
=============================================================================
