------------------------------ MODULE AuditTrail ------------------------------
(***************************************************************************)
(* The audit events of one object (apps.auditing): the operations of       *)
(* AuditableModelMixin and AuditableQuerySetMixin, a manual                *)
(* create_audit_entry(), undo_change() and redo_change(), run by           *)
(* concurrent workers.                                                     *)
(*                                                                         *)
(* Transactions are PostgreSQL's READ COMMITTED ones.  An UPDATE keeps the *)
(* lock of the row until its transaction ends; so does SELECT ... FOR      *)
(* UPDATE with the lock of the last event, but it has chosen that event    *)
(* before it waits and does not look again.  A deadlock aborts one of its  *)
(* transactions.  The INSERT of an event becomes visible with its COMMIT,  *)
(* and is one step with it.                                                *)
(*                                                                         *)
(* No uniqueness of (object, version) is enforced: the constraint is in    *)
(* BaseEvent.Meta, which Event.Meta does not inherit, and no migration     *)
(* adds it.  The field "wrote" of an event is not stored: whether its      *)
(* operation wrote the row.                                                *)
(***************************************************************************)
EXTENDS Integers, FiniteSets, Sequences, FiniteSetsExt

CONSTANTS
  Worker,     \* processes that use the object
  Field,      \* its audited columns
  State,      \* the rows: functions of the columns
  Absent,     \* there is no row
  NoState,    \* None for a dict of columns
  Interval,   \* SNAPSHOT_INTERVAL
  MaxEvents   \* bound: events of the object

ASSUME FieldAssumption == Field # {}
\* Each column takes its values whatever those of the others.
ASSUME StateAssumption ==
  \A s, t \in State :
    /\ s = [f \in Field |-> s[f]]
    /\ \A cols \in SUBSET Field : [f \in Field |-> IF f \in cols THEN s[f] ELSE t[f]] \in State
ASSUME AbsentAssumption == Absent \notin State /\ NoState \notin State
ASSUME IntervalAssumption == Interval \in Nat /\ MaxEvents \in Nat

VARIABLES
  row,     \* the committed row
  events,  \* the committed events, in the order of their commits
  work,    \* work[w]: the operation of the worker, how far it is
  truth    \* truth[i]: the row that event i left, as long as the history is quiet

trail == <<row, events, work, truth>>

\* The members of EventType that are written; DELETE stands for BULK_DELETE,
\* RESTORE for the types only a manual create_audit_entry() writes.
EventType ==
  {"create", "bulk_create", "update", "bulk_update", "delete", "restore", "undo", "redo"}
UndoableTypes == {"create", "bulk_create", "update", "bulk_update", "delete"}

\* "at" is the last thing done: "loaded" the instance, "prepared" the state
\* before the save, "written" the row (but for a delete), "chosen" the last event,
\* "locked" it; after the save inside an undo or redo, "restored" and "numbered".
Work ==
  [at : {"idle", "loaded", "prepared", "written", "chosen", "locked", "restored", "numbered"},
   op : EventType, cols : SUBSET Field, inst : State \cup {NoState},
   pre : State \cup {NoState}, last : Nat, parent : Nat, then : {"end", "undo", "redo"},
   holds : BOOLEAN,    \* the lock of the row
   quiet : BOOLEAN]    \* it can go on with a quiet history
Idle ==
  [at |-> "idle", op |-> "update", cols |-> {}, inst |-> NoState, pre |-> NoState,
   last |-> 0, parent |-> 0, then |-> "end", holds |-> FALSE, quiet |-> FALSE]

Deltas == {[f \in D |-> s[f]] : D \in SUBSET Field, s \in State}
HistoryEvent ==
  [type : EventType, version : Nat \ {0}, parent : Nat,
   snapshot : State \cup {NoState}, delta : Deltas, wrote : BOOLEAN]

TrailTypeOK ==
  /\ row \in State \cup {Absent}
  /\ events \in Seq(HistoryEvent)
  /\ work \in [Worker -> Work]
  /\ truth \in Seq(State \cup {Absent}) /\ Len(truth) <= Len(events)

\* The row may be older than its auditing.
TrailInit ==
  /\ row \in State \cup {Absent}
  /\ events = <<>>
  /\ work = [w \in Worker |-> Idle]
  /\ truth = <<>>

-----------------------------------------------------------------------------
\* The event that ORDER BY version DESC LIMIT 1 may return; 0 for none.
LastEvents ==
  IF events = <<>> THEN {0}
  ELSE {i \in DOMAIN events : \A j \in DOMAIN events : events[j].version <= events[i].version}

\* Plausible defects of VersionAfter: the first version is 0; the events are counted.
VersionFromZero(i) == IF i = 0 THEN 0 ELSE events[i].version + 1
VersionByCount(i) == Len(events) + 1

VersionAfter(i) == IF i = 0 THEN 1 ELSE events[i].version + 1

\* compute_delta(): the changed columns with their new values; empty for None.
ComputeDelta(pre, state) ==
  IF pre = NoState \/ state = NoState THEN <<>>
  ELSE [f \in {g \in Field : pre[g] # state[g]} |-> state[f]]

\* _decide_snapshot(), with snapshots on create and on delete.
DecideSnapshot(type, version) ==
  type \in {"create", "delete"} \/ Interval = 0 \/ version % Interval = 0

ChildrenOf(i, type) ==
  {j \in DOMAIN events : events[j].parent = i /\ events[j].type = type}

OpenUndos(i) == {u \in ChildrenOf(i, "undo") : ChildrenOf(u, "redo") = {}}

CanUndo(i) == events[i].type \in UndoableTypes /\ OpenUndos(i) = {}

\* A plausible defect of HoldsRow: the row and its event are not in one transaction.
HoldsRowForUpdate(w) == work[w].at = "written" /\ work[w].holds

\* The row locks and event locks of the transactions in progress.
HoldsRow(w) == work[w].holds
RowFree(w) == \A v \in Worker \ {w} : ~HoldsRow(v)
HoldsEvent(w, i) == i # 0 /\ work[w].at = "locked" /\ work[w].last = i
EventFree(w, i) == \A v \in Worker \ {w} : ~HoldsEvent(v, i)

\* A save of all columns that finds no row inserts one; an undo names them.
Inserts(w) == work[w].cols = Field /\ work[w].then = "end"

\* The next statement of w is the UPDATE, INSERT or DELETE of the row.
WantsRow(w) ==
  /\ work[w].at \in {"prepared", "locked"} /\ ~HoldsRow(w)
  /\ work[w].op = "delete" \/ work[w].cols # {}
  /\ row # Absent \/ Inserts(w)

\* That, the SELECT of the last event, and the INSERT of an UNDO or REDO event wait
\* for the transaction that has the lock.
WaitsFor(w, v) ==
  /\ v # w
  /\ \/ WantsRow(w) /\ HoldsRow(v)
     \/ work[w].at = "chosen" /\ HoldsEvent(v, work[w].last)
     \/ work[w].at = "numbered" /\ HoldsEvent(v, work[w].parent)

\* Operations that wait for each other in a circle, with no smaller circle inside.
Waiting(S) == S # {} /\ \A w \in S : \E v \in S : WaitsFor(w, v)
Deadlock(S) == Waiting(S) /\ \A T \in SUBSET S : Waiting(T) => T = S

\* A history is quiet if nothing was committed between the begin and the end of its
\* operations, none is a bulk update, and no instance differed from the row in a column
\* that it did not save.
QuietSoFar == Len(truth) = Len(events)

\* The event of w becomes visible, and w goes on as k.
CommitEvent(w, k, event) ==
  /\ events' = Append(events, event)
  /\ work' = [v \in Worker |-> IF v = w THEN k ELSE [work[v] EXCEPT !.quiet = FALSE]]
  /\ truth' = IF work[w].quiet THEN Append(truth, row') ELSE truth

\* Bound: room for n events after those of the operations in progress.
Restores(w) ==
  work[w].then # "end" /\ work[w].at \in {"loaded", "prepared", "written", "chosen", "locked"}
Room(n) ==
  Len(events) + Cardinality({w \in Worker : work[w].at # "idle"})
    + Cardinality({w \in Worker : Restores(w)}) + n <= MaxEvents

Begin(w, op, at, cols, inst) ==
  /\ work' = [work EXCEPT ![w] =
       [Idle EXCEPT !.at = at, !.op = op, !.cols = cols, !.inst = inst,
                    !.quiet = /\ QuietSoFar /\ op # "bulk_update"
                              /\ \A f \in Field \ cols : inst[f] = row[f]]]
  /\ UNCHANGED <<row, events, truth>>

Proceed(w, at) == work' = [work EXCEPT ![w].at = at]

-----------------------------------------------------------------------------
(* AuditableModelMixin and AuditableQuerySetMixin: what happens before the   *)
(* transaction.                                                              *)

\* A new instance is saved, or created in bulk; there is no state before it.
BeginCreate(w, type, s) ==
  /\ row = Absent /\ events = <<>>
  /\ \A v \in Worker : work[v].at = "idle"
  /\ Begin(w, type, "prepared", Field, s)

\* An instance, loaded at some time and changed in any columns, is saved: those of
\* update_fields, or all.
BeginSave(w, s, cols) ==
  /\ row # Absent
  /\ Begin(w, "update", "loaded", cols, s)

\* A plausible defect of ReadPre: save() audits before it writes, as delete() does.
ReadPreAuditsFirst(w) ==
  /\ work[w].at = "loaded"
  /\ work' = [work EXCEPT ![w].at = "written",
                          ![w].pre = IF row = Absent THEN NoState ELSE row]
  /\ UNCHANGED <<row, events, truth>>

\* save(): the state before is read from the database, before the transaction.
ReadPre(w) ==
  /\ work[w].at = "loaded"
  /\ work' = [work EXCEPT ![w].at = "prepared",
                          ![w].pre = IF row = Absent THEN NoState ELSE row]
  /\ UNCHANGED <<row, events, truth>>

\* QuerySet.update() and bulk_update(): there is no state before.
BeginBulkUpdate(w, s, f) ==
  /\ row # Absent
  /\ Begin(w, "bulk_update", "prepared", {f}, s)

\* delete(): the event comes first, with the instance in whatever state it is.  So is
\* that of a manual create_audit_entry().
BeginDelete(w, s) ==
  /\ row # Absent
  /\ Begin(w, "delete", "written", {}, s)

BeginRecord(w, s) ==
  /\ row # Absent
  /\ Begin(w, "restore", "written", {}, s)

-----------------------------------------------------------------------------
(* The transaction.                                                          *)

\* The row that the statement of w leaves.
Written(w) ==
  IF row = Absent THEN work[w].inst
  ELSE [f \in Field |-> IF f \in work[w].cols THEN work[w].inst[f] ELSE row[f]]

\* The row is updated or inserted.
\* bulk_update() audits the instances it was given, update() reads them again.
WriteRow(w) ==
  /\ work[w].at = "prepared" /\ WantsRow(w)
  /\ RowFree(w)
  /\ \E seen \in {work[w].inst} \cup
                 (IF work[w].op = "bulk_update" THEN {Written(w)} ELSE {}) :
       work' = [work EXCEPT ![w].at = "written", ![w].inst = seen, ![w].holds = TRUE]
  /\ UNCHANGED <<row, events, truth>>

\* save(update_fields=[]) returns before its UPDATE.  No row: save(update_fields=...)
\* raises DatabaseError and update() audits nothing; bulk_update() still audits its
\* instances.
WriteNothing(w) ==
  /\ work[w].at = "prepared" /\ ~WantsRow(w)
  /\ \/ work[w].cols # {} /\ work' = [work EXCEPT ![w] = Idle]
     \/ /\ work[w].cols = {} \/ work[w].op = "bulk_update"
        /\ work' = [work EXCEPT ![w].at = "written", ![w].cols = {}]
  /\ UNCHANGED <<row, events, truth>>

\* create_audit_entry(): the SELECT chooses the last event...
ChooseLast(w) ==
  /\ work[w].at = "written"
  /\ \E i \in LastEvents : work' = [work EXCEPT ![w].at = "chosen", ![w].last = i]
  /\ UNCHANGED <<row, events, truth>>

\* ... and waits for its lock.
LockLast(w) ==
  /\ work[w].at = "chosen"
  /\ EventFree(w, work[w].last)
  /\ Proceed(w, "locked")
  /\ UNCHANGED <<row, events, truth>>

NewEvent(k) ==
  LET version == VersionAfter(k.last)
  IN  [type |-> k.op, version |-> version, parent |-> k.last,
       snapshot |-> IF DecideSnapshot(k.op, version) THEN k.inst ELSE NoState,
       delta |-> ComputeDelta(k.pre, k.inst), wrote |-> k.cols # {}]

\* The event is inserted, a delete removes the row, and the transaction commits.
CommitOperation(w) ==
  /\ work[w].at = "locked"
  /\ WantsRow(w) => RowFree(w)
  /\ row' = IF work[w].op = "delete" THEN Absent
            ELSE IF work[w].cols = {} THEN row ELSE Written(w)
  /\ LET k == work[w] IN
     CommitEvent(w, IF k.then = "end" THEN Idle
               ELSE [k EXCEPT !.at = "restored", !.cols = {}, !.pre = NoState, !.last = 0,
                              !.holds = FALSE],
            NewEvent(k))

\* PostgreSQL aborts one of the transactions of a deadlock.
AbortDeadlock(w) ==
  /\ \E S \in SUBSET Worker : w \in S /\ Deadlock(S)
  /\ work' = [work EXCEPT ![w] = Idle]
  /\ UNCHANGED <<row, events, truth>>

-----------------------------------------------------------------------------
(* undo_change() and redo_change(): the row is restored by a save() of the   *)
(* snapshot's columns, which writes an event of its own; the UNDO or REDO    *)
(* event then gets the next version, read without a lock.                    *)

\* _restore_model_state() returns silently when there is no row.
BeginCompensation(w, op, parent, restore) ==
  /\ LET at == IF restore = NoState \/ row = Absent THEN "restored" ELSE "loaded" IN
     /\ at = "loaded" => Room(2)
     /\ work' = [work EXCEPT ![w] =
          [Idle EXCEPT !.at = at, !.cols = Field, !.inst = restore, !.parent = parent,
                       !.then = op, !.quiet = QuietSoFar]]
  /\ UNCHANGED <<row, events, truth>>

BeginUndo(w, i) ==
  LET parent == events[i].parent IN
  /\ CanUndo(i)
  /\ BeginCompensation(w, "undo", i, IF parent = 0 THEN NoState ELSE events[parent].snapshot)

BeginRedo(w, i) ==
  \E u \in OpenUndos(i) : BeginCompensation(w, "redo", u, events[i].snapshot)

\* _get_next_version().
ReadNext(w) ==
  /\ work[w].at = "restored"
  /\ \E i \in LastEvents : work' = [work EXCEPT ![w].at = "numbered", ![w].last = i]
  /\ UNCHANGED <<row, events, truth>>

\* _build_and_save_event(): the snapshot is stored whatever the interval.  The
\* foreign key to the parent waits for a lock of that event.
InsertCompensation(w) ==
  /\ work[w].at = "numbered"
  /\ EventFree(w, work[w].parent)
  /\ UNCHANGED row
  /\ CommitEvent(w, Idle,
            [type |-> work[w].then, version |-> VersionAfter(work[w].last),
             parent |-> work[w].parent, snapshot |-> work[w].inst, delta |-> <<>>,
             wrote |-> FALSE])

-----------------------------------------------------------------------------
\* The process dies, or its request ends before the operation: a transaction is
\* rolled back.
Interrupt(w) ==
  /\ work[w].at # "idle"
  /\ work' = [work EXCEPT ![w] = Idle]
  /\ UNCHANGED <<row, events, truth>>

Call(w) ==
  /\ work[w].at = "idle"
  /\ Room(1)
  /\ \/ \E s \in State :
          \/ \E type \in {"create", "bulk_create"} : BeginCreate(w, type, s)
          \/ \E cols \in SUBSET Field : BeginSave(w, s, cols)
          \/ \E f \in Field : BeginBulkUpdate(w, s, f)
          \/ BeginDelete(w, s) \/ BeginRecord(w, s)
     \/ \E i \in DOMAIN events : BeginUndo(w, i) \/ BeginRedo(w, i)

Step(w) ==
  \/ ReadPre(w) \/ WriteRow(w) \/ WriteNothing(w)
  \/ ChooseLast(w) \/ LockLast(w) \/ CommitOperation(w) \/ AbortDeadlock(w)
  \/ ReadNext(w) \/ InsertCompensation(w)

TrailNext == \E w \in Worker : Call(w) \/ Step(w) \/ Interrupt(w)

TrailSpec == TrailInit /\ [][TrailNext]_trail

-----------------------------------------------------------------------------
Compensation == {"undo", "redo"}

\* Whatever overlaps, crashes or is aborted, the versions of an object begin at 1
\* and leave none out, and an event comes after its parent: right after it, but
\* for an UNDO or REDO, whose parent is the event it compensates.
HistoryIsConnected ==
  \A i \in DOMAIN events :
    LET e == events[i] IN
    /\ e.version > 1 => \E j \in 1 .. i - 1 : events[j].version = e.version - 1
    /\ e.parent < i
    /\ IF e.parent = 0 THEN e.version = 1
       ELSE LET p == events[e.parent] IN
            IF e.type \in Compensation THEN p.version < e.version
            ELSE p.version = e.version - 1

\* Two saves never write the same version, although the lock of the last event
\* does not prevent it: the row they update, locked first, keeps them apart.  (A
\* save(update_fields=[]) locks no row, and is excepted.)
SavesNeverShareVersion ==
  \A i, j \in DOMAIN events :
    /\ i # j /\ events[i].wrote /\ events[j].wrote
    /\ {events[i].type, events[j].type} \subseteq {"create", "bulk_create", "update"}
    => events[i].version # events[j].version

\* The snapshot of event "base", with the deltas of the events first .. last over it.
Replayed(base, first, last) ==
  LET changed(f) == {k \in first .. last : f \in DOMAIN events[k].delta} IN
  [f \in Field |-> IF changed(f) = {} THEN events[base].snapshot[f]
                   ELSE events[Max(changed(f))].delta[f]]

\* A plausible defect of Reconstructed: the first delta is left out.
ReconstructedLate(base, v) == Replayed(base, base + 2, v)
Reconstructed(base, v) == Replayed(base, base + 1, v)

\* get_version(): the snapshot of version v, or the deltas replayed from the
\* closest one before it.  It is asked of histories where version v is event v.
GetVersion(v) ==
  LET full == {k \in 1 .. v : events[k].snapshot # NoState} IN
  IF full = {} THEN NoState ELSE Reconstructed(Max(full), v)

\* In a quiet history, get_version() returns the row as that version left it (for a
\* DELETE, as it found it), or nothing when no snapshot is old enough.
QuietHistoryIsTrue ==
  \A v \in DOMAIN truth :
    (events[v].type \in Compensation => truth[v] # Absent)
    => \/ GetVersion(v) \in {NoState, truth[v]}
       \/ events[v].type = "delete" /\ (v > 1 => GetVersion(v) = truth[v - 1])

\* All operations but delete() lock the row before the event: two of them that wait
\* for each other are a delete and one that has the row, and there is no larger circle.
DeadlocksTakeADelete ==
  \A S \in SUBSET Worker : Deadlock(S) =>
    \E d, v \in S :
      S = {d, v} /\ work[d].op = "delete" /\ work[v].op # "delete" /\ HoldsRow(v)
=============================================================================
