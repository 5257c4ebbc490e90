------------------------------ MODULE AuditOutbox ------------------------------
(***************************************************************************)
(* The outbox of the audit events (apps.auditing): threads that serve      *)
(* requests write events in their transactions, with the actor of the      *)
(* context, and forward them to the secondary backends after the commit.   *)
(*                                                                         *)
(* The events of undo_change() and redo_change() are left out: their       *)
(* outbox is empty and they are forwarded to no backend.                   *)
(***************************************************************************)
EXTENDS Naturals, Sequences, Functions

CONSTANTS
  Thread,      \* threads that serve requests or run commands
  Event,       \* audit events
  Principal,   \* the actors
  Nobody,      \* no actor
  Name         \* AUDITING["BACKENDS"]; they are tried in any order

Actor == Principal \cup {Nobody}

ASSUME NobodyAssumption == Nobody \notin Principal

VARIABLES
  principals,  \* the rows of Principal
  rows,        \* rows[e]: the committed row of the event
  received,    \* received[e]: the sinks that have the event, once or more often
  lost,        \* events some of whose dispatches ended with no record
  at,          \* at[t]: what the thread is doing
  actor,       \* actor[t]: the actor of its context
  open,        \* open[t]: the events of its transaction
  todo,        \* todo[t]: its on_commit callbacks, by their event
  left,        \* left[t]: the backends its dispatch has not called
  outbox       \* outbox[t]: the outbox of the instance it dispatches

thread == <<at, actor, open, todo, left, outbox>>
vars == <<principals, rows, received, lost, thread>>

Outbox == [pending : SUBSET Name, dispatched : SUBSET Name, failed : [Name -> Nat]]

\* "hashed" is the actor that went into the checksum.
Row ==
  [at : {"none", "stored", "deleted"}, actor : Actor, hashed : Actor, outbox : Outbox]
NewOutbox ==
  [pending |-> Name, dispatched |-> {}, failed |-> [b \in Name |-> 0]]
NoRow == [at |-> "none", actor |-> Nobody, hashed |-> Nobody, outbox |-> NewOutbox]

TypeOK ==
  /\ principals \subseteq Principal
  /\ rows \in [Event -> Row]
  /\ received \in [Event -> SUBSET Name]
  /\ lost \subseteq Event
  /\ at \in [Thread -> {"idle", "serving", "sending"}]
  /\ actor \in [Thread -> Actor]
  /\ open \in [Thread -> Seq(Event)] /\ todo \in [Thread -> Seq(Event)]
  /\ left \in [Thread -> SUBSET Name] /\ outbox \in [Thread -> Outbox]

Init ==
  /\ principals = Principal
  /\ rows = [e \in Event |-> NoRow]
  /\ received = [e \in Event |-> {}]
  /\ lost = {}
  /\ at = [t \in Thread |-> "idle"]
  /\ actor = [t \in Thread |-> Nobody]
  /\ open = [t \in Thread |-> <<>>] /\ todo = [t \in Thread |-> <<>>]
  /\ left = [t \in Thread |-> {}] /\ outbox = [t \in Thread |-> NewOutbox]

Stored(e) == rows[e].at # "none"
Opened(e) == \E t \in Thread : e \in Range(open[t])

-----------------------------------------------------------------------------
(* The backends.                                                             *)

Registered == {"file", "redis", "kafka"}

\* Whether the constructor may return: mkdir() and Producer() may raise. That of
\* Redis never does: without a connection its dispatch() raises.
FileConstructs == BOOLEAN
RedisConstructs == {TRUE}
KafkaConstructs == BOOLEAN

Constructs(b) ==
  CASE b = "file" -> FileConstructs
    [] b = "redis" -> RedisConstructs
    [] OTHER -> KafkaConstructs

\* get_configured_backends() skips a name that is not registered and a backend whose
\* constructor raises.
Constructible ==
  {up \in SUBSET (Name \cap Registered) :
     \A b \in Name \cap Registered : (b \in up) \in Constructs(b)}

\* What a call of dispatch() may come to: it raises or not, the sink has the event or
\* not. It may have it several times: the clients of Redis and Kafka retry.
Outcome == [raises : BOOLEAN, taken : BOOLEAN]

\* The line is in the file unless an OSError stopped the write; the one of close()
\* comes after it.
FileOutcomes == {o \in Outcome : o.raises \/ o.taken}

\* XADD was answered in the end, or failed, or its answers were lost.
RedisOutcomes == {o \in Outcome : o.raises \/ o.taken}

\* Nobody looks at the result of producer.flush(timeout=5): what is not delivered by
\* then is lost with the producer.
KafkaOutcomes == Outcome

\* The backends whose call returns only when their sink has the event.
Answering == {"file", "redis"}

Outcomes(b) ==
  CASE b = "file" -> FileOutcomes
    [] b = "redis" -> RedisOutcomes
    [] OTHER -> KafkaOutcomes

-----------------------------------------------------------------------------
(* The rows of the events.                                                   *)

\* What can be updated in a row that is there: deleted_at and the outbox.
Mutable == {"at", "outbox"}

\* BaseEvent.save(update_fields=[field]) lets only those pass.
SaveField(e, field, value) ==
  /\ field \in Mutable
  /\ rows' = [rows EXCEPT ![e] = [@ EXCEPT ![field] = value]]

\* Of what the checksum covers, only the actor is ever changed.
IntegrityPayload(row) == row.actor
VerifyIntegrity(e) == IntegrityPayload(rows[e]) = rows[e].hashed

-----------------------------------------------------------------------------
\* AuditingMiddleware.process_request(): the actor of the context is the user that
\* the Django session names, if any.
StartRequest(t, user) ==
  /\ at[t] = "idle"
  /\ user \in principals \cup {Nobody}
  /\ at' = [at EXCEPT ![t] = "serving"]
  /\ actor' = [actor EXCEPT ![t] = user]
  /\ UNCHANGED <<principals, rows, received, lost, open, todo, left, outbox>>

\* process_response() clears the context.
EndRequest(t) ==
  /\ at[t] = "serving" /\ todo[t] = <<>> /\ open[t] = <<>>
  /\ at' = [at EXCEPT ![t] = "idle"]
  /\ actor' = [actor EXCEPT ![t] = Nobody]
  /\ UNCHANGED <<principals, rows, received, lost, open, todo, left, outbox>>

-----------------------------------------------------------------------------
(* The transaction of the thread.                                            *)

\* create_audit_entry(): the event is inserted with the current actor, and its
\* dispatch is left to on_commit.
WriteEvent(t, e) ==
  /\ at[t] = "serving" /\ todo[t] = <<>>
  /\ ~Stored(e) /\ ~Opened(e)
  /\ open' = [open EXCEPT ![t] = Append(@, e)]
  /\ UNCHANGED <<principals, rows, received, lost, at, actor, todo, left, outbox>>

Rollback(t) ==
  /\ open[t] # <<>>
  /\ open' = [open EXCEPT ![t] = <<>>]
  /\ UNCHANGED <<principals, rows, received, lost, at, actor, todo, left, outbox>>

\* The rows that a commit by "a" leaves; all configured backends are pending and
\* the checksum covers "h".
Insert(events, a, h) ==
  rows' = [e \in Event |->
    IF e \in Range(events) THEN [at |-> "stored", actor |-> a, hashed |-> h, outbox |-> NewOutbox]
    ELSE rows[e]]

\* Plausible defects of Commit: no callback is scheduled; the checksum is computed
\* before the actor is set.
CommitUnscheduled(t) ==
  /\ open[t] # <<>>
  /\ Insert(open[t], actor[t], actor[t])
  /\ open' = [open EXCEPT ![t] = <<>>]
  /\ UNCHANGED <<principals, received, lost, at, actor, todo, left, outbox>>

CommitHashedEarly(t) ==
  /\ open[t] # <<>>
  /\ Insert(open[t], actor[t], Nobody)
  /\ open' = [open EXCEPT ![t] = <<>>]
  /\ todo' = [todo EXCEPT ![t] = open[t]]
  /\ UNCHANGED <<principals, received, lost, at, actor, left, outbox>>

Commit(t) ==
  /\ open[t] # <<>>
  /\ Insert(open[t], actor[t], actor[t])
  /\ open' = [open EXCEPT ![t] = <<>>]
  /\ todo' = [todo EXCEPT ![t] = open[t]]
  /\ UNCHANGED <<principals, received, lost, at, actor, left, outbox>>

-----------------------------------------------------------------------------
(* _dispatch_event(), run by the on_commit callbacks one after the other.    *)

Sending(t, e) == at[t] = "sending" /\ Head(todo[t]) = e
Locked(e) == \E t \in Thread : Sending(t, e)

\* No backend could be constructed, the event could not be read or serialised, or it
\* is deleted: nothing is done.
SkipDispatch(t) ==
  LET e == Head(todo[t]) IN
  /\ at[t] = "serving" /\ todo[t] # <<>>
  /\ todo' = [todo EXCEPT ![t] = Tail(@)]
  /\ \/ lost' = lost \cup {e}
     \/ rows[e].at # "stored" /\ lost' = lost
  /\ UNCHANGED <<principals, rows, received, at, actor, open, left, outbox>>

\* The event is locked; the backends that are pending and "up" will be tried in turn.
StartDispatch(t, up) ==
  LET e == Head(todo[t]) IN
  /\ at[t] = "serving" /\ todo[t] # <<>>
  /\ rows[e].at = "stored" /\ ~Locked(e)
  /\ at' = [at EXCEPT ![t] = "sending"]
  /\ left' = [left EXCEPT ![t] = up \cap rows[e].outbox.pending]
  /\ outbox' = [outbox EXCEPT ![t] = rows[e].outbox]
  /\ UNCHANGED <<principals, rows, received, lost, actor, open, todo>>

\* backend.dispatch() returns: the backend is no longer pending.
SendReturns(t, b) ==
  LET e == Head(todo[t])
      o == outbox[t]
  IN
  /\ at[t] = "sending" /\ b \in left[t]
  /\ left' = [left EXCEPT ![t] = @ \ {b}]
  /\ outbox' = [outbox EXCEPT ![t] =
       [pending |-> o.pending \ {b}, dispatched |-> o.dispatched \cup {b},
        failed |-> [o.failed EXCEPT ![b] = 0]]]
  /\ \E call \in Outcomes(b) :
       /\ ~call.raises
       /\ received' = IF call.taken THEN [received EXCEPT ![e] = @ \cup {b}] ELSE received
  /\ UNCHANGED <<principals, rows, lost, at, actor, open, todo>>

\* Plausible defects of SendFails: the backend is dropped from the pending ones; it is
\* recorded as if the call had returned.
SendFailsForgotten(t, b) ==
  LET o == outbox[t] IN
  /\ at[t] = "sending" /\ b \in left[t]
  /\ left' = [left EXCEPT ![t] = @ \ {b}]
  /\ outbox' = [outbox EXCEPT ![t] =
       [pending |-> o.pending \ {b}, dispatched |-> o.dispatched,
        failed |-> [o.failed EXCEPT ![b] = @ + 1]]]
  /\ UNCHANGED <<principals, rows, received, lost, at, actor, open, todo>>

SendFailsRecorded(t, b) ==
  LET o == outbox[t] IN
  /\ at[t] = "sending" /\ b \in left[t]
  /\ left' = [left EXCEPT ![t] = @ \ {b}]
  /\ outbox' = [outbox EXCEPT ![t] =
       [pending |-> o.pending \ {b}, dispatched |-> o.dispatched \cup {b},
        failed |-> o.failed]]
  /\ UNCHANGED <<principals, rows, received, lost, at, actor, open, todo>>

\* It raises, and may still have delivered the event: it stays pending.
SendFails(t, b) ==
  LET e == Head(todo[t])
      o == outbox[t]
  IN
  /\ at[t] = "sending" /\ b \in left[t]
  /\ left' = [left EXCEPT ![t] = @ \ {b}]
  /\ outbox' = [outbox EXCEPT ![t] =
       [pending |-> o.pending, dispatched |-> o.dispatched,
        failed |-> [o.failed EXCEPT ![b] = @ + 1]]]
  /\ \E call \in Outcomes(b) :
       /\ call.raises
       /\ received' = IF call.taken THEN [received EXCEPT ![e] = @ \cup {b}] ELSE received
       /\ lost' = IF call.taken THEN lost \cup {e} ELSE lost
  /\ UNCHANGED <<principals, rows, at, actor, open, todo>>

\* event.save(update_fields=...) and the commit; or the save raises, the error is
\* logged and the outbox is as before.
EndDispatch(t) ==
  LET e == Head(todo[t]) IN
  /\ at[t] = "sending" /\ left[t] = {}
  /\ \/ SaveField(e, "outbox", outbox[t]) /\ lost' = lost
     \/ lost' = lost \cup {e} /\ rows' = rows
  /\ at' = [at EXCEPT ![t] = "serving"]
  /\ todo' = [todo EXCEPT ![t] = Tail(@)]
  /\ outbox' = [outbox EXCEPT ![t] = NewOutbox]
  /\ UNCHANGED <<principals, received, actor, open, left>>

\* The process dies: its transactions are rolled back and its callbacks gone.
Crash(t) ==
  /\ at[t] # "idle"
  /\ at' = [at EXCEPT ![t] = "idle"]
  /\ actor' = [actor EXCEPT ![t] = Nobody]
  /\ open' = [open EXCEPT ![t] = <<>>]
  /\ todo' = [todo EXCEPT ![t] = <<>>]
  /\ left' = [left EXCEPT ![t] = {}]
  /\ outbox' = [outbox EXCEPT ![t] = NewOutbox]
  /\ lost' = lost \cup Range(todo[t])
  /\ UNCHANGED <<principals, rows, received>>

-----------------------------------------------------------------------------
\* Event.delete(): waits for the lock of a dispatch.
DeleteEvent(e) ==
  /\ rows[e].at = "stored" /\ ~Locked(e)
  /\ SaveField(e, "at", "deleted")
  /\ UNCHANGED <<principals, received, lost, thread>>

\* hard_delete() of a principal no thread is working for: Event.actor is
\* on_delete=SET_NULL, which no immutability check sees.
DeletePrincipal(a) ==
  /\ a \in principals
  /\ \A t \in Thread : actor[t] # a
  /\ principals' = principals \ {a}
  /\ rows' = [e \in Event |->
       IF rows[e].actor = a THEN [rows[e] EXCEPT !.actor = Nobody] ELSE rows[e]]
  /\ UNCHANGED <<received, lost, thread>>

-----------------------------------------------------------------------------
Dispatch(t) ==
  \/ SkipDispatch(t)
  \/ \E up \in Constructible \ {{}} : StartDispatch(t, up)
  \/ \E b \in Name : SendReturns(t, b) \/ SendFails(t, b)
  \/ EndDispatch(t)

Serve(t) ==
  \/ \E user \in Actor : StartRequest(t, user)
  \/ EndRequest(t)
  \/ \E e \in Event : WriteEvent(t, e)
  \/ Commit(t) \/ Rollback(t)

Next ==
  \/ \E t \in Thread : Serve(t) \/ Dispatch(t) \/ Crash(t)
  \/ \E e \in Event : DeleteEvent(e)
  \/ \E a \in Principal : DeletePrincipal(a)

\* A thread in its callbacks goes on with them.
Spec == Init /\ [][Next]_vars /\ \A t \in Thread : WF_vars(Dispatch(t))

-----------------------------------------------------------------------------
Accounted(o) ==
  /\ o.pending \cup o.dispatched = Name
  /\ o.pending \cap o.dispatched = {}
  /\ \A b \in Name : o.failed[b] > 0 => b \in o.pending

\* The outbox of a stored event accounts for every configured backend, whatever
\* dispatches overlap, fail or die: it is pending or dispatched, never both, and
\* what has failed is still pending.
OutboxAccounts == \A e \in Event : Accounted(rows[e].outbox)

\* The record of an event agrees with the sinks: nothing of a transaction that rolled
\* back reaches one; the file and Redis have what is recorded as dispatched; and a sink
\* has what is recorded as pending only while a dispatch is under way, or after one
\* that ended without its record. (Kafka may not have what is recorded: see
\* KafkaOutcomes.)
SinksAgree ==
  \A e \in Event :
    /\ received[e] # {} => Stored(e)
    /\ rows[e].outbox.dispatched \cap Answering \subseteq received[e]
    /\ rows[e].outbox.pending \cap received[e] # {} => Locked(e) \/ e \in lost

\* The checksum of a stored event verifies as long as the row of the actor that
\* wrote it is there, whatever the outbox columns went through meanwhile.
\* ("All fields here are immutable after creation", models/base.py:397: the actor
\* is not, the database nulls it with the principal.)
ChecksumHoldsWithActor ==
  \A e \in Event :
    Stored(e) /\ rows[e].hashed \in principals \cup {Nobody} => VerifyIntegrity(e)

\* An event whose transaction commits is offered to a backend, unless its process
\* dies, no backend can be constructed, the record is lost, or it is deleted.
CommittedIsOffered ==
  \A e \in Event :
    rows[e].at = "stored" ~>
      \/ rows[e].at = "deleted" \/ e \in lost
      \/ rows[e].outbox.dispatched # {}
      \/ \E b \in Name : rows[e].outbox.failed[b] > 0
=============================================================================
