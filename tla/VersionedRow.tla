----------------------------- MODULE VersionedRow -----------------------------
(***************************************************************************)
(* One database row of a model built on ModelOperationsMixin, and the      *)
(* in-memory instances of it that concurrent workers (requests, jobs)      *)
(* hold.  save() takes SELECT FOR UPDATE on the row, compares the version  *)
(* the instance carries with the stored one, and bumps both; queryset      *)
(* updates bump the stored version with F("version") + 1 and touch no      *)
(* instance; a few writes bump nothing.  A check-and-save holds the row    *)
(* lock until its transaction commits, so it is one step here.             *)
(*                                                                         *)
(* Every write carries a fresh token (the value of tick) so that two       *)
(* contents are equal only if the same writes produced them.  Token 0 is   *)
(* the initial value, and NULL for deleted_at.                             *)
(***************************************************************************)
EXTENDS Naturals

CONSTANTS
  Worker,      \* holders of an instance: a request, a job, a shell
  Tracked,     \* columns written only by statements that bump the version
  Untracked,   \* columns also written without a bump (Principal.last_login)
  DeletedAt,   \* the tracked column deleted_at
  MaxTick      \* bound: number of writes in a behaviour

Field == Tracked \cup Untracked

ASSUME FieldAssumption == /\ DeletedAt \in Tracked
                          /\ Tracked \cap Untracked = {}
ASSUME BoundAssumption == MaxTick \in Nat

VARIABLES
  row,    \* the stored row: version (0 once physically deleted) and content
  inst,   \* inst[w]: version, in-memory content, and the content it has seen
  tick    \* the last write token handed out

rowVars == <<row, inst, tick>>

Content == [Field -> Nat]
Blank == [f \in Field |-> 0]
NoInstance == [version |-> 0, val |-> Blank, seen |-> Blank]

RowTypeOK ==
  /\ row \in [version : Nat, val : Content]
  /\ inst \in [Worker -> [version : Nat, val : Content, seen : Content]]
  /\ tick \in Nat

RowInit ==
  /\ row = [version |-> 1, val |-> Blank]
  /\ inst = [w \in Worker |-> NoInstance]
  /\ tick = 0

-----------------------------------------------------------------------------
RowStored == row.version > 0
Held(w) == inst[w].version > 0

NextTick == tick < MaxTick /\ tick' = tick + 1

\* The instance's content after `instance.f = v`.
Assign(w, f, v) == [inst[w].val EXCEPT ![f] = v]

\* The columns named in F taken from val, the others from old: what an UPDATE
\* with update_fields = F leaves in the row.
Overwrite(old, val, F) == [f \in Field |-> IF f \in F THEN val[f] ELSE old[f]]

\* The instance of w after a write of columns F at version v went through.
Acknowledge(w, v, val, F) ==
  [version |-> v, val |-> val, seen |-> Overwrite(inst[w].seen, val, F)]

\* Plausible defects of CheckAndSave: the comparison skipped, and one that
\* only refuses instances ahead of the row.
CheckAndSaveUnchecked(w, val, F) ==
  /\ RowStored
  /\ row' = [version |-> row.version + 1, val |-> Overwrite(row.val, val, F)]
  /\ inst' = [inst EXCEPT ![w] = Acknowledge(w, row.version + 1, val, F)]

CheckAndSaveNotNewer(w, val, F) ==
  /\ RowStored
  /\ inst[w].version <= row.version
  /\ row' = [version |-> inst[w].version + 1, val |-> Overwrite(row.val, val, F)]
  /\ inst' = [inst EXCEPT ![w] = Acknowledge(w, inst[w].version + 1, val, F)]

\* _save_with_optimistic_lock: the versions agree, so the row is written and
\* both versions move on; otherwise OptimisticLockError, which leaves the
\* assignments already made on the instance in place.
CheckAndSave(w, val, F) ==
  \/ /\ row.version = inst[w].version
     /\ row' = [version |-> inst[w].version + 1, val |-> Overwrite(row.val, val, F)]
     /\ inst' = [inst EXCEPT ![w] = Acknowledge(w, inst[w].version + 1, val, F)]
  \/ /\ row.version # inst[w].version
     /\ inst' = [inst EXCEPT ![w].val = val]
     /\ UNCHANGED row

-----------------------------------------------------------------------------
\* A manager query or refresh_from_db() without fields.
LoadRow(w) ==
  /\ RowStored
  /\ inst' = [inst EXCEPT ![w] = [version |-> row.version, val |-> row.val, seen |-> row.val]]
  /\ UNCHANGED <<row, tick>>

\* instance.f = ...; instance.save(update_fields=F), F = Field for save().
Save(w, f, F) ==
  /\ Held(w)
  /\ NextTick
  /\ CheckAndSave(w, Assign(w, f, tick'), F)

\* delete() writes deleted_at alone; soft_delete() saves every column.  Both
\* return at once when the instance already carries deleted_at.
SoftDelete(w, F) ==
  /\ Held(w)
  /\ inst[w].val[DeletedAt] = 0
  /\ NextTick
  /\ CheckAndSave(w, Assign(w, DeletedAt, tick'), F)

Restore(w) ==
  /\ Held(w)
  /\ inst[w].val[DeletedAt] # 0
  /\ NextTick
  /\ CheckAndSave(w, Assign(w, DeletedAt, 0), {DeletedAt})

HardDelete(w) ==
  /\ Held(w)
  /\ NextTick
  /\ row' = [version |-> 0, val |-> Blank]
  /\ inst' = [inst EXCEPT ![w] = NoInstance]

\* save_without_version_bump(update_fields={f}): no version check, no bump.
\* On a row that is gone Django raises and only the instance changes.
SaveWithoutVersionBump(w, f) ==
  /\ Held(w)
  /\ NextTick
  /\ \/ /\ RowStored
        /\ row' = [row EXCEPT !.val[f] = tick']
        /\ inst' = [inst EXCEPT ![w] = Acknowledge(w, inst[w].version, Assign(w, f, tick'), {f})]
     \/ /\ ~RowStored
        /\ inst' = [inst EXCEPT ![w].val[f] = tick']
        /\ UNCHANGED row

\* A plausible defect of BulkUpdate: F("version") + 1 is forgotten.
BulkUpdateNoBump(f) ==
  /\ RowStored
  /\ NextTick
  /\ row' = [row EXCEPT !.val[f] = tick']
  /\ UNCHANGED inst

\* QuerySet.update(f=...), and the queryset's soft_delete() and restore().
BulkUpdate(f) ==
  /\ RowStored
  /\ NextTick
  /\ \E v \in {tick'} \cup (IF f = DeletedAt THEN {0} ELSE {}) :
       row' = [version |-> row.version + 1, val |-> [row.val EXCEPT ![f] = v]]
  /\ UNCHANGED inst

UpdateWithoutVersion(f) ==
  /\ RowStored
  /\ NextTick
  /\ row' = [row EXCEPT !.val[f] = tick']
  /\ UNCHANGED inst

RowNext ==
  \/ \E w \in Worker :
       \/ LoadRow(w)
       \/ \E f \in Field : \E F \in {{f}, Field} : Save(w, f, F)
       \/ \E F \in {{DeletedAt}, Field} : SoftDelete(w, F)
       \/ Restore(w)
       \/ HardDelete(w)
       \/ \E f \in Untracked : SaveWithoutVersionBump(w, f)
  \/ \E f \in Field : BulkUpdate(f)
  \/ \E f \in Untracked : UpdateWithoutVersion(f)

RowSpec == RowInit /\ [][RowNext]_rowVars

-----------------------------------------------------------------------------
\* Equal on the columns the version protects.
SameTracked(a, b) == \A f \in Tracked : a[f] = b[f]

\* No instance is ahead of the row, and an instance whose version is the
\* stored one has seen the stored value of every tracked column: a version
\* number stands for a content.
\* This is what lets save() compare one integer instead of every column.
VersionIdentifiesContent ==
  \A w \in Worker :
    RowStored /\ Held(w) =>
      /\ inst[w].version <= row.version
      /\ inst[w].version = row.version => SameTracked(inst[w].seen, row.val)

\* Two instances that carry the same version have seen the same content, so
\* at most one of them can win the next save.
SameVersionSameContent ==
  \A v, w \in Worker :
    Held(v) /\ inst[v].version = inst[w].version
      => SameTracked(inst[v].seen, inst[w].seen)

\* The step is a version-bumping write made through the instance of w.
SavedThrough(w) ==
  /\ row' # row
  /\ row'.version > 0
  /\ inst'[w] # inst[w]
  /\ inst'[w].version = row'.version

\* No lost update: a write through an instance reaches the row only if that
\* instance had seen the current value of every tracked column, in
\* particular deleted_at, so a stale save never resurrects a deleted row.
NoLostUpdate ==
  [][\A w \in Worker : SavedThrough(w) => SameTracked(inst[w].seen, row.val)]_rowVars

\* While the row exists, its version never decreases, and grows whenever a
\* tracked column changes: readers can rely on it to notice a change.
VersionTellsChange ==
  [][row'.version > 0 =>
       /\ row'.version >= row.version
       /\ SameTracked(row'.val, row.val) \/ row'.version > row.version]_rowVars

=============================================================================
