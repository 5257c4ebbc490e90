---------------------------- MODULE Auditing_proofs ----------------------------
(***************************************************************************)
(* For any number of threads, events and backends: the outbox accounts for *)
(* every backend, and the record agrees with what the sinks have.          *)
(*                                                                         *)
(* For any number of workers, any columns and any interval of snapshots:   *)
(* the history of an object is connected, two saves never share a version, *)
(* get_version() is right on a quiet history, and deadlocks take a delete.   *)
(***************************************************************************)
EXTENDS AuditOutbox, AuditTrail, WellFoundedInduction, TLAPS

\* The callbacks of a thread are for stored events, and come before its next
\* transaction.
TodoStored ==
  \A t \in Thread :
    /\ \A e \in Range(todo[t]) : Stored(e)
    /\ at[t] = "sending" => todo[t] # <<>>
    /\ at[t] = "idle" \/ todo[t] # <<>> => open[t] = <<>>

\* The events of open transactions are not stored, and in one of them only.
OpenNew ==
  \A t \in Thread : \A e \in Range(open[t]) :
    ~Stored(e) /\ \A u \in Thread \ {t} : e \notin Range(open[u])

OneSender ==
  \A t, u \in Thread :
    t # u /\ at[t] = "sending" /\ at[u] = "sending" => Head(todo[t]) # Head(todo[u])

\* What a dispatch holds accounts for the backends, and it calls pending ones.
Held ==
  \A t \in Thread :
    at[t] = "sending" => Accounted(outbox[t]) /\ left[t] \subseteq outbox[t].pending

\* A sink that is pending has not got the event: pending in the outbox of the
\* dispatch if there is one, else in the stored one.
Unsent ==
  \A e \in Event \ lost :
    /\ ~Locked(e) => rows[e].outbox.pending \cap received[e] = {}
    /\ \A t \in Thread : Sending(t, e) => outbox[t].pending \cap received[e] = {}

\* A sink that answers has what is recorded, or held, as dispatched.
Sent ==
  \A e \in Event :
    /\ rows[e].outbox.dispatched \cap Answering \subseteq received[e]
    /\ \A t \in Thread :
         Sending(t, e) => outbox[t].dispatched \cap Answering \subseteq received[e]

ReceivedStored == \A e \in Event : received[e] # {} => Stored(e)

IInv ==
  /\ TypeOK /\ TodoStored /\ OpenNew /\ OneSender /\ Held /\ Unsent /\ Sent /\ ReceivedStored
  /\ OutboxAccounts

-----------------------------------------------------------------------------
LEMMA RangeOfAppend ==
  ASSUME NEW S, NEW s \in Seq(S), NEW x \in S
  PROVE  Range(Append(s, x)) = Range(s) \cup {x}
<1>1. Append(s, x) \in Seq(S) /\ Len(Append(s, x)) = Len(s) + 1 /\ Len(s) \in Nat OBVIOUS
<1>2. \A i \in 1 .. Len(s) : Append(s, x)[i] = s[i] OBVIOUS
<1>3. Append(s, x)[Len(s) + 1] = x OBVIOUS
<1>4. DOMAIN Append(s, x) = 1 .. Len(s) + 1 /\ DOMAIN s = 1 .. Len(s) BY <1>1
<1>5. 1 .. Len(s) + 1 = (1 .. Len(s)) \cup {Len(s) + 1} BY <1>1
<1> QED BY <1>2, <1>3, <1>4, <1>5 DEF Range

LEMMA RangeOfTail ==
  ASSUME NEW S, NEW s \in Seq(S), s # <<>>
  PROVE  /\ Range(Tail(s)) \subseteq Range(s) /\ Head(s) \in Range(s)
         /\ Range(s) \subseteq S /\ Tail(s) \in Seq(S)
BY DEF Range

LEMMA RangeOfEmpty == Range(<<>>) = {}
BY DEF Range

LEMMA RangeOfOne == ASSUME NEW x PROVE Range(<<x>>) = {x} /\ Head(<<x>>) = x
BY DEF Range

LEMMA RangeInSet == ASSUME NEW S, NEW s \in Seq(S) PROVE Range(s) \subseteq S
BY DEF Range

LEMMA NewOutboxAccounts == NewOutbox \in Outbox /\ Accounted(NewOutbox)
BY DEF NewOutbox, Outbox, Accounted

LEMMA InitIInv == Init => IInv
<1> SUFFICES ASSUME Init PROVE IInv
  OBVIOUS
<1>1. \A e \in Event : rows[e] = NoRow BY DEF Init
<1>2. NoRow \in Row BY NewOutboxAccounts DEF NoRow, Row, Actor
<1>3. TypeOK BY <1>2, NewOutboxAccounts DEF Init, TypeOK, Actor
<1>4. TodoStored /\ OpenNew BY RangeOfEmpty DEF Init, TodoStored, OpenNew
<1>5. OneSender /\ Held BY DEF Init, OneSender, Held
<1>6. Unsent /\ ReceivedStored BY DEF Init, Unsent, ReceivedStored
<1>8. Sent BY <1>1 DEF Init, Sent, Sending, NoRow, NewOutbox
<1>7. OutboxAccounts BY <1>1, NewOutboxAccounts DEF OutboxAccounts, NoRow
<1> QED BY <1>3, <1>4, <1>5, <1>6, <1>7, <1>8 DEF IInv

-----------------------------------------------------------------------------
\* The steps that change no row and no dispatch.
LEMMA OutboxKept ==
  ASSUME IInv, NEW t \in Thread, TypeOK',
         UNCHANGED <<rows, received, lost, left, outbox>>,
         \A u \in Thread : at'[u] = "sending" <=> at[u] = "sending",
         \A u \in Thread : at[u] = "sending" => todo'[u] = todo[u],
         \A u \in Thread \ {t} : at'[u] = at[u] /\ todo'[u] = todo[u] /\ open'[u] = open[u],
         \A e \in Range(todo'[t]) : Stored(e),
         at'[t] = "idle" \/ todo'[t] # <<>> => open'[t] = <<>>,
         \A e \in Range(open'[t]) :
           e \in Range(open[t]) \/ (e \in Event /\ ~Stored(e) /\ ~Opened(e))
  PROVE  IInv'
<1>1. \A e : Stored(e)' <=> Stored(e) BY DEF Stored
<1>2. TodoStored' BY <1>1 DEF IInv, TodoStored
<1>3. OpenNew' BY <1>1 DEF IInv, OpenNew, Opened
<1>4. OneSender' BY DEF IInv, OneSender
<1>5. Held' BY DEF IInv, Held
<1>6. \A u \in Thread : \A e : Sending(u, e)' <=> Sending(u, e) BY DEF Sending
<1>7. \A e : Locked(e)' <=> Locked(e) BY <1>6 DEF Locked
<1>8. Unsent' /\ Sent' BY <1>6, <1>7 DEF IInv, Unsent, Sent
<1>9. ReceivedStored' /\ OutboxAccounts' BY <1>1 DEF IInv, ReceivedStored, OutboxAccounts
<1> QED BY <1>2, <1>3, <1>4, <1>5, <1>8, <1>9 DEF IInv

LEMMA ServeIInv ==
  ASSUME IInv, NEW t \in Thread,
         \/ \E user \in Actor : StartRequest(t, user)
         \/ EndRequest(t) \/ Rollback(t)
         \/ \E e \in Event : WriteEvent(t, e)
  PROVE  IInv'
<1> USE DEF IInv, TypeOK
<1>1. CASE \E user \in Actor : StartRequest(t, user)
  <2>1. TypeOK' BY <1>1 DEF StartRequest
  <2>2. /\ at[t] = "idle" /\ at'[t] = "serving" /\ \A u \in Thread \ {t} : at'[u] = at[u]
        /\ UNCHANGED <<rows, received, lost, left, outbox, open, todo>>
    BY <1>1 DEF StartRequest
  <2> QED BY <2>1, <2>2, OutboxKept DEF TodoStored
<1>2. CASE EndRequest(t)
  <2>1. TypeOK' BY <1>2 DEF EndRequest, Actor
  <2>2. /\ at[t] = "serving" /\ at'[t] = "idle" /\ \A u \in Thread \ {t} : at'[u] = at[u]
        /\ open[t] = <<>> /\ UNCHANGED <<rows, received, lost, left, outbox, open, todo>>
    BY <1>2 DEF EndRequest
  <2> QED BY <2>1, <2>2, OutboxKept DEF TodoStored
<1>3. CASE Rollback(t)
  <2>1. TypeOK' BY <1>3 DEF Rollback
  <2>2. open'[t] = <<>> BY <1>3 DEF Rollback
  <2>3. /\ UNCHANGED <<rows, received, lost, at, todo, left, outbox>>
        /\ \A u \in Thread \ {t} : open'[u] = open[u]
    BY <1>3 DEF Rollback
  <2> QED BY <2>1, <2>2, <2>3, RangeOfEmpty, OutboxKept DEF TodoStored
<1>4. CASE \E e \in Event : WriteEvent(t, e)
  <2>1. PICK e \in Event : WriteEvent(t, e) BY <1>4
  <2>2. TypeOK' BY <2>1 DEF WriteEvent
  <2>3. Range(open'[t]) = Range(open[t]) \cup {e}
    BY <2>1, RangeOfAppend DEF WriteEvent
  <2>4. /\ UNCHANGED <<rows, received, lost, at, todo, left, outbox>>
        /\ \A u \in Thread \ {t} : open'[u] = open[u]
        /\ at[t] = "serving" /\ todo[t] = <<>> /\ ~Stored(e) /\ ~Opened(e)
    BY <2>1 DEF WriteEvent
  <2>5. \A x \in Range(open'[t]) :
          x \in Range(open[t]) \/ (x \in Event /\ ~Stored(x) /\ ~Opened(x))
    BY <2>3, <2>4
  <2>6. at'[t] = "serving" /\ todo'[t] = <<>> /\ \A x \in Range(todo'[t]) : Stored(x)
    BY <2>4, RangeOfEmpty
  <2>7. \A u \in Thread :
          /\ at'[u] = "sending" <=> at[u] = "sending"
          /\ at[u] = "sending" => todo'[u] = todo[u]
    BY <2>4
  <2> HIDE DEF IInv, TypeOK
  <2> QED BY <2>2, <2>4, <2>5, <2>6, <2>7, OutboxKept
<1> QED BY <1>1, <1>2, <1>3, <1>4

LEMMA CommitIInv ==
  ASSUME IInv, NEW t \in Thread, Commit(t)
  PROVE  IInv'
<1> DEFINE new == [at |-> "stored", actor |-> actor[t], hashed |-> actor[t], outbox |-> NewOutbox]
           E == Range(open[t])
<1>1. /\ rows' = [e \in Event |-> IF e \in E THEN new ELSE rows[e]]
      /\ open' = [open EXCEPT ![t] = <<>>] /\ todo' = [todo EXCEPT ![t] = open[t]]
      /\ UNCHANGED <<principals, received, lost, at, actor, left, outbox>>
  BY DEF Commit, Insert
<1>2. new \in Row /\ new.at = "stored" /\ new.outbox = NewOutbox
  BY NewOutboxAccounts DEF IInv, TypeOK, Row
<1> HIDE DEF new
<1>3. TypeOK' BY <1>1, <1>2 DEF IInv, TypeOK
<1>4. E \subseteq Event BY RangeInSet DEF IInv, TypeOK
<1>5. \A e \in E : ~Stored(e) BY DEF IInv, OpenNew
<1>6. \A e \in Event : Stored(e)' <=> (Stored(e) \/ e \in E) BY <1>1, <1>2 DEF Stored
<1>7. \A u \in Thread : Range(todo[u]) \subseteq Event BY RangeInSet DEF IInv, TypeOK
<1>8. /\ open'[t] = <<>> /\ todo'[t] = open[t] /\ open[t] # <<>>
      /\ \A u \in Thread \ {t} : open'[u] = open[u] /\ todo'[u] = todo[u]
  BY <1>1 DEF IInv, TypeOK, Commit
<1>9. TodoStored'
  <2>1. \A e \in E : Stored(e)' BY <1>4, <1>6
  <2>2. \A u \in Thread : \A e \in Range(todo[u]) : Stored(e)' BY <1>6, <1>7 DEF IInv, TodoStored
  <2> QED BY <1>1, <1>8, <2>1, <2>2 DEF IInv, TodoStored
<1>10. OpenNew'
  <2>1. \A u \in Thread \ {t} : \A e \in Range(open[u]) : e \in Event /\ e \notin E
    BY RangeInSet DEF IInv, TypeOK, OpenNew
  <2>2. \A u \in Thread \ {t} : \A e \in Range(open[u]) : ~Stored(e)'
    BY <1>6, <2>1 DEF IInv, OpenNew
  <2> QED BY <1>8, <2>1, <2>2, RangeOfEmpty DEF IInv, OpenNew
\* t is not sending: its callbacks are done before it writes again.
<1>11. at[t] # "sending" BY DEF IInv, TodoStored, Commit
<1>12. OneSender' /\ Held' /\ Unsent' /\ Sent' /\ ReceivedStored' /\ OutboxAccounts'
  <2>1. \A u \in Thread : \A e : Sending(u, e)' <=> Sending(u, e)
    BY <1>1, <1>8, <1>11 DEF Sending
  <2>2. \A e : Locked(e)' <=> Locked(e) BY <2>1 DEF Locked
  <2>3. OneSender' /\ Held' BY <1>1, <1>8, <1>11 DEF IInv, OneSender, Held
  <2>4. Unsent'
    <3>1. \A e \in E : received[e] = {} BY <1>4, <1>5 DEF IInv, ReceivedStored
    <3>2. \A e \in Event \ E : rows'[e] = rows[e] BY <1>1
    <3> QED BY <1>1, <2>1, <2>2, <3>1, <3>2 DEF IInv, Unsent
  <2>7. Sent'
    <3>1. \A e \in E : rows'[e].outbox.dispatched = {} BY <1>1, <1>2, <1>4 DEF NewOutbox
    <3>2. \A e \in Event \ E : rows'[e] = rows[e] BY <1>1
    <3> QED BY <1>1, <2>1, <3>1, <3>2 DEF IInv, Sent
  <2>5. ReceivedStored' BY <1>1, <1>6 DEF IInv, ReceivedStored
  <2>6. OutboxAccounts' BY <1>1, <1>2, NewOutboxAccounts DEF IInv, OutboxAccounts
  <2> QED BY <2>3, <2>4, <2>5, <2>6, <2>7
<1> QED BY <1>3, <1>9, <1>10, <1>12 DEF IInv

-----------------------------------------------------------------------------
\* The steps of a dispatch.
LEMMA SkipIInv ==
  ASSUME IInv, NEW t \in Thread, SkipDispatch(t)
  PROVE  IInv'
<1>1. /\ at[t] = "serving" /\ todo[t] # <<>> /\ todo[t] \in Seq(Event)
      /\ todo' = [todo EXCEPT ![t] = Tail(@)] /\ lost \subseteq lost'
      /\ lost' \subseteq lost \cup {Head(todo[t])}
      /\ UNCHANGED <<principals, rows, received, at, actor, open, left, outbox>>
  BY DEF SkipDispatch, IInv, TypeOK
<1>2. /\ todo'[t] = Tail(todo[t]) /\ \A u \in Thread \ {t} : todo'[u] = todo[u]
      /\ Range(Tail(todo[t])) \subseteq Range(todo[t]) /\ Head(todo[t]) \in Event
      /\ Tail(todo[t]) \in Seq(Event)
  BY <1>1, RangeOfTail DEF IInv, TypeOK
<1>3. TypeOK' BY <1>1, <1>2 DEF IInv, TypeOK
<1>4. \A e : Stored(e)' <=> Stored(e) BY <1>1 DEF Stored
<1>5. \A u \in Thread : \A e : Sending(u, e)' <=> Sending(u, e) BY <1>1, <1>2 DEF Sending
<1>6. \A e : Locked(e)' <=> Locked(e) BY <1>5 DEF Locked
<1>7. TodoStored' BY <1>1, <1>2, <1>4 DEF IInv, TodoStored
<1>8. OpenNew' BY <1>1, <1>4 DEF IInv, OpenNew
<1>9. OneSender' /\ Held' BY <1>1, <1>2 DEF IInv, OneSender, Held
<1>10. Unsent' /\ Sent' BY <1>1, <1>5, <1>6 DEF IInv, Unsent, Sent
<1>11. ReceivedStored' /\ OutboxAccounts' BY <1>1, <1>4 DEF IInv, ReceivedStored, OutboxAccounts
<1> QED BY <1>3, <1>7, <1>8, <1>9, <1>10, <1>11 DEF IInv

LEMMA StartIInv ==
  ASSUME IInv, NEW t \in Thread, NEW up \in Constructible, StartDispatch(t, up)
  PROVE  IInv'
<1> DEFINE e == Head(todo[t])
<1>1. /\ at[t] = "serving" /\ todo[t] # <<>> /\ todo[t] \in Seq(Event) /\ ~Locked(e)
      /\ at' = [at EXCEPT ![t] = "sending"]
      /\ left' = [left EXCEPT ![t] = up \cap rows[e].outbox.pending]
      /\ outbox' = [outbox EXCEPT ![t] = rows[e].outbox]
      /\ UNCHANGED <<principals, rows, received, lost, actor, open, todo>>
  BY DEF StartDispatch, IInv, TypeOK
<1>2. e \in Event BY <1>1, RangeOfTail
<1>3. rows[e].outbox \in Outbox /\ Accounted(rows[e].outbox)
  BY <1>2 DEF IInv, TypeOK, Row, OutboxAccounts
<1>4. rows[e].outbox.pending \in SUBSET Name BY <1>3 DEF Outbox
<1> HIDE DEF e
<1>5. /\ at'[t] = "sending" /\ left'[t] = up \cap rows[e].outbox.pending
      /\ outbox'[t] = rows[e].outbox
      /\ \A u \in Thread \ {t} : at'[u] = at[u] /\ left'[u] = left[u] /\ outbox'[u] = outbox[u]
  BY <1>1 DEF IInv, TypeOK
<1>6. TypeOK' BY <1>1, <1>3, <1>4 DEF IInv, TypeOK
<1>7. \A x : Stored(x)' <=> Stored(x) BY <1>1 DEF Stored
<1>8. TodoStored' BY <1>1, <1>5, <1>7 DEF IInv, TodoStored
<1>9. OpenNew' BY <1>1, <1>7 DEF IInv, OpenNew
<1>10. OneSender' BY <1>1, <1>5 DEF IInv, OneSender, Locked, Sending, e
<1>11. Held' BY <1>3, <1>5 DEF IInv, Held
<1>12. Unsent'
  <2>1. \A u \in Thread \ {t} : \A x : Sending(u, x)' <=> Sending(u, x) BY <1>1, <1>5 DEF Sending
  <2>2. \A x : Sending(t, x)' => x = e BY <1>1 DEF Sending, e
  <2>3. \A x : Locked(x) => Locked(x)'
    BY <1>1, <2>1 DEF Locked, Sending
  <2> QED BY <1>1, <1>5, <2>1, <2>2, <2>3 DEF IInv, Unsent
<1>14. Sent'
  <2>1. \A u \in Thread \ {t} : \A x : Sending(u, x)' <=> Sending(u, x) BY <1>1, <1>5 DEF Sending
  <2>2. \A x : Sending(t, x)' => x = e BY <1>1 DEF Sending, e
  <2> QED BY <1>1, <1>2, <1>5, <2>1, <2>2 DEF IInv, Sent
<1>13. ReceivedStored' /\ OutboxAccounts' BY <1>1, <1>7 DEF IInv, ReceivedStored, OutboxAccounts
<1> QED BY <1>6, <1>8, <1>9, <1>10, <1>11, <1>12, <1>13, <1>14 DEF IInv

\* What save() does to the two columns that it lets pass.
LEMMA SavedField ==
  ASSUME NEW e, NEW value
  PROVE  /\ SaveField(e, "outbox", value) => rows' = [rows EXCEPT ![e] = [@ EXCEPT !.outbox = value]]
         /\ SaveField(e, "at", value) => rows' = [rows EXCEPT ![e] = [@ EXCEPT !.at = value]]
BY DEF SaveField

\* One backend is called: only the outbox that t holds and the sink change.
LEMMA SendIInv ==
  ASSUME IInv, NEW t \in Thread, NEW b \in Name, SendReturns(t, b) \/ SendFails(t, b)
  PROVE  IInv'
<1> DEFINE e == Head(todo[t])
           o == outbox[t]
           got == [received EXCEPT ![e] = @ \cup {b}]
<1>1. /\ at[t] = "sending" /\ b \in left[t] /\ left' = [left EXCEPT ![t] = @ \ {b}]
      /\ UNCHANGED <<principals, rows, at, actor, open, todo>>
      /\ received' \in {received, got} /\ lost' \in {lost, lost \cup {e}}
  BY DEF SendReturns, SendFails
<1>2. todo[t] # <<>> /\ todo[t] \in Seq(Event) BY <1>1 DEF IInv, TypeOK, TodoStored
<1>3. e \in Event /\ Stored(e) /\ Sending(t, e)
  BY <1>1, <1>2, RangeOfTail DEF IInv, TodoStored, Sending
<1>4. /\ o \in Outbox /\ Accounted(o) /\ b \in o.pending
      /\ left[t] \subseteq o.pending
  BY <1>1 DEF IInv, TypeOK, Held
<1>5. PICK n \in Outbox : /\ outbox' = [outbox EXCEPT ![t] = n] /\ Accounted(n)
                          /\ n.pending \subseteq o.pending
                          /\ left[t] \ {b} \subseteq n.pending
                          /\ e \in lost' \/ b \notin n.pending \/ received' = received
                          /\ \/ n.dispatched = o.dispatched
                             \/ /\ n.dispatched = o.dispatched \cup {b}
                                /\ b \in Answering => b \in received'[e]
  <2>1. CASE SendReturns(t, b)
    <3> DEFINE n == [pending |-> o.pending \ {b}, dispatched |-> o.dispatched \cup {b},
                     failed |-> [o.failed EXCEPT ![b] = 0]]
    <3>1. n \in Outbox BY <1>4 DEF Outbox
    <3>2. Accounted(n) BY <1>4 DEF Accounted, Outbox
    <3>3. n.pending = o.pending \ {b} OBVIOUS
    <3>4. outbox' = [outbox EXCEPT ![t] = n] BY <2>1 DEF SendReturns
    <3>5. n.dispatched = o.dispatched \cup {b} OBVIOUS
    <3>6. b \in Answering => b \in received'[e]
      <4> SUFFICES ASSUME b \in Answering PROVE b \in received'[e]
        OBVIOUS
      <4>1. PICK call \in Outcomes(b) :
              /\ ~call.raises
              /\ received' = IF call.taken THEN got ELSE received
        BY <2>1 DEF SendReturns
      <4>2. call.taken
        BY <4>1 DEF Answering, Outcomes, FileOutcomes, RedisOutcomes, Outcome
      <4> QED BY <1>3, <4>1, <4>2 DEF IInv, TypeOK
    <3> HIDE DEF n
    <3> QED BY <1>4, <3>1, <3>2, <3>3, <3>4, <3>5, <3>6
  <2>2. CASE SendFails(t, b)
    <3> DEFINE n == [pending |-> o.pending, dispatched |-> o.dispatched,
                     failed |-> [o.failed EXCEPT ![b] = @ + 1]]
    <3>1. n \in Outbox BY <1>4 DEF Outbox
    <3>2. Accounted(n) BY <1>4 DEF Accounted, Outbox
    <3>3. n.pending = o.pending OBVIOUS
    <3>4. outbox' = [outbox EXCEPT ![t] = n] BY <2>2 DEF SendFails
    <3>5. e \in lost' \/ received' = received BY <2>2 DEF SendFails
    <3>6. n.dispatched = o.dispatched OBVIOUS
    <3> HIDE DEF n
    <3> QED BY <1>4, <3>1, <3>2, <3>3, <3>4, <3>5, <3>6
  <2> QED BY <2>1, <2>2
<1>6. /\ outbox'[t] = n /\ left'[t] = left[t] \ {b}
      /\ \A u \in Thread \ {t} : left'[u] = left[u] /\ outbox'[u] = outbox[u]
  BY <1>1, <1>5 DEF IInv, TypeOK
<1>7. /\ got \in [Event -> SUBSET Name] /\ got[e] = received[e] \cup {b}
      /\ \A x \in Event \ {e} : got[x] = received[x]
  BY <1>3 DEF IInv, TypeOK
<1> HIDE DEF got, e, o
<1>8. TypeOK' BY <1>1, <1>3, <1>5, <1>7 DEF IInv, TypeOK
<1>9. \A x : Stored(x)' <=> Stored(x) BY <1>1 DEF Stored
<1>10. \A u \in Thread : \A x : Sending(u, x)' <=> Sending(u, x) BY <1>1 DEF Sending
<1>11. \A x : Locked(x)' <=> Locked(x) BY <1>10 DEF Locked
<1>12. TodoStored' /\ OpenNew' /\ OneSender'
  BY <1>1, <1>9 DEF IInv, TodoStored, OpenNew, OneSender
<1>13. Held' BY <1>1, <1>5, <1>6 DEF IInv, Held
<1>14. ReceivedStored' BY <1>1, <1>3, <1>7, <1>9 DEF IInv, ReceivedStored
<1>15. Unsent'
  <2> SUFFICES ASSUME NEW x \in Event \ lost'
               PROVE  /\ ~Locked(x)' => rows'[x].outbox.pending \cap received'[x] = {}
                      /\ \A u \in Thread :
                           Sending(u, x)' => outbox'[u].pending \cap received'[x] = {}
    BY DEF Unsent
  <2>1. x \in Event \ lost BY <1>1
  <2>2. CASE x = e
    <3>1. Locked(x)' BY <1>3, <1>11, <2>2 DEF Locked
    <3>2. ASSUME NEW u \in Thread, Sending(u, x)'
          PROVE  outbox'[u].pending \cap received'[x] = {}
      <4>1. u = t BY <1>3, <1>10, <2>2, <3>2 DEF IInv, OneSender, Sending
      <4>2. o.pending \cap received[x] = {} BY <1>3, <2>1, <2>2 DEF IInv, Unsent, o
      <4> QED BY <1>1, <1>5, <1>6, <1>7, <2>2, <4>1, <4>2
    <3> QED BY <3>1, <3>2
  <2>3. CASE x # e
    <3>1. received'[x] = received[x] BY <1>1, <1>7, <2>3
    <3>2. \A u \in Thread : outbox'[u].pending \subseteq outbox[u].pending
      BY <1>5, <1>6 DEF o
    <3> QED BY <1>1, <1>10, <1>11, <2>1, <3>1, <3>2 DEF IInv, Unsent
  <2> QED BY <2>2, <2>3
<1>17. Sent'
  <2>1. \A x \in Event : received[x] \subseteq received'[x] BY <1>1, <1>7
  <2>2. \A x \in Event : Sending(t, x)' => x = e BY <1>3, <1>10 DEF Sending
  <2>3. outbox'[t].dispatched \cap Answering \subseteq received'[e]
    <3>1. o.dispatched \cap Answering \subseteq received'[e]
      BY <1>3, <2>1 DEF IInv, Sent, o
    <3> QED BY <1>5, <1>6, <3>1
  <2> QED BY <1>1, <1>6, <1>10, <2>1, <2>2, <2>3 DEF IInv, Sent
<1>16. OutboxAccounts' BY <1>1 DEF IInv, OutboxAccounts
<1> QED BY <1>8, <1>12, <1>13, <1>14, <1>15, <1>16, <1>17 DEF IInv

\* The dispatch ends: its outbox is stored, or the event is among the lost.
LEMMA EndIInv ==
  ASSUME IInv, NEW t \in Thread, EndDispatch(t)
  PROVE  IInv'
<1> DEFINE e == Head(todo[t])
           new == [rows[e] EXCEPT !.outbox = outbox[t]]
<1>1. /\ at[t] = "sending" /\ left[t] = {} /\ at' = [at EXCEPT ![t] = "serving"]
      /\ todo' = [todo EXCEPT ![t] = Tail(@)] /\ outbox' = [outbox EXCEPT ![t] = NewOutbox]
      /\ UNCHANGED <<principals, received, actor, open, left>>
      /\ \/ rows' = [rows EXCEPT ![e] = new] /\ lost' = lost
         \/ lost' = lost \cup {e} /\ rows' = rows
  BY SavedField DEF EndDispatch
<1>2. todo[t] # <<>> /\ todo[t] \in Seq(Event) /\ open[t] = <<>>
  BY <1>1 DEF IInv, TypeOK, TodoStored
<1>3. /\ Tail(todo[t]) \in Seq(Event) /\ Range(Tail(todo[t])) \subseteq Range(todo[t])
      /\ Range(todo[t]) \subseteq Event /\ e \in Event
  BY <1>2, RangeOfTail
<1>4. /\ outbox[t] \in Outbox /\ Accounted(outbox[t]) BY <1>1 DEF IInv, TypeOK, Held
<1>5. new \in Row /\ new.at = rows[e].at /\ new.outbox = outbox[t]
  <2>1. rows[e] \in Row BY <1>3 DEF IInv, TypeOK
  <2> QED BY <1>4, <2>1 DEF Row
<1> HIDE DEF e, new
<1>6. TypeOK' BY <1>1, <1>3, <1>5, NewOutboxAccounts DEF IInv, TypeOK
<1>7. /\ at'[t] = "serving" /\ todo'[t] = Tail(todo[t])
      /\ \A u \in Thread \ {t} : at'[u] = at[u] /\ todo'[u] = todo[u] /\ outbox'[u] = outbox[u]
  BY <1>1 DEF IInv, TypeOK
<1>8. \A x \in Event : /\ x # e => rows'[x] = rows[x]
                       /\ Stored(x)' <=> Stored(x)
                       /\ rows'[x].outbox \in {rows[x].outbox, outbox[t]}
  BY <1>1, <1>3, <1>5 DEF IInv, TypeOK, Stored
<1>9. \A u \in Thread : Range(todo[u]) \subseteq Event /\ Range(open[u]) \subseteq Event
  BY RangeInSet DEF IInv, TypeOK
<1>10. TodoStored'
  <2>1. \A u \in Thread \ {t} : \A x \in Range(todo'[u]) : Stored(x)'
    BY <1>7, <1>8, <1>9 DEF IInv, TodoStored
  <2>2. \A x \in Range(todo'[t]) : Stored(x)' BY <1>3, <1>7, <1>8 DEF IInv, TodoStored
  <2> QED BY <1>1, <1>2, <1>7, <2>1, <2>2 DEF IInv, TodoStored
<1>11. OpenNew' BY <1>1, <1>8, <1>9 DEF IInv, OpenNew
<1>12. OneSender' BY <1>7 DEF IInv, OneSender
<1>13. Held' BY <1>1, <1>7 DEF IInv, Held
<1>14. OutboxAccounts'
  BY <1>1, <1>3, <1>4, <1>5, <1>8 DEF IInv, TypeOK, OutboxAccounts
<1>15. ReceivedStored' BY <1>1, <1>8 DEF IInv, ReceivedStored
<1>16. Unsent'
  <2>1. \A u \in Thread \ {t} : \A x : Sending(u, x)' <=> Sending(u, x) BY <1>7 DEF Sending
  <2>2. \A x : ~Sending(t, x)' BY <1>7 DEF Sending
  <2>3. Sending(t, e) BY <1>1 DEF Sending, e
  <2> SUFFICES ASSUME NEW x \in Event \ lost'
               PROVE  /\ ~Locked(x)' => rows'[x].outbox.pending \cap received'[x] = {}
                      /\ \A u \in Thread :
                           Sending(u, x)' => outbox'[u].pending \cap received'[x] = {}
    BY DEF Unsent
  <2>4. x \in Event \ lost /\ received' = received BY <1>1
  <2>5. \A u \in Thread : Sending(u, x)' => outbox'[u].pending \cap received[x] = {}
    BY <1>7, <2>1, <2>2, <2>4 DEF IInv, Unsent
  <2>6. ASSUME ~Locked(x)' PROVE rows'[x].outbox.pending \cap received[x] = {}
    <3>1. CASE x = e
      <4>1. rows' = [rows EXCEPT ![e] = new] BY <1>1, <3>1
      <4>2. rows'[e].outbox = outbox[t] BY <1>3, <1>5, <4>1 DEF IInv, TypeOK
      <4> QED BY <2>3, <2>4, <3>1, <4>2 DEF IInv, Unsent
    <3>2. CASE x # e
      <4>1. ~Sending(t, x) BY <3>2 DEF Sending, e
      <4>2. ~Locked(x) BY <2>1, <2>6, <4>1 DEF Locked
      <4> QED BY <1>8, <2>4, <3>2, <4>2 DEF IInv, Unsent
    <3> QED BY <3>1, <3>2
  <2> QED BY <2>4, <2>5, <2>6
<1>17. Sent'
  <2>1. \A u \in Thread \ {t} : \A x : Sending(u, x)' <=> Sending(u, x) BY <1>7 DEF Sending
  <2>2. \A x : ~Sending(t, x)' BY <1>7 DEF Sending
  <2>3. Sending(t, e) BY <1>1 DEF Sending, e
  <2>4. rows'[e].outbox.dispatched \cap Answering \subseteq received[e]
    BY <1>3, <1>8, <2>3 DEF IInv, Sent
  <2> QED BY <1>1, <1>7, <1>8, <2>1, <2>2, <2>4 DEF IInv, Sent
<1> QED BY <1>6, <1>10, <1>11, <1>12, <1>13, <1>14, <1>15, <1>16, <1>17 DEF IInv

LEMMA CrashIInv ==
  ASSUME IInv, NEW t \in Thread, Crash(t)
  PROVE  IInv'
<1>1. /\ at' = [at EXCEPT ![t] = "idle"] /\ actor' = [actor EXCEPT ![t] = Nobody]
      /\ open' = [open EXCEPT ![t] = <<>>] /\ todo' = [todo EXCEPT ![t] = <<>>]
      /\ left' = [left EXCEPT ![t] = {}] /\ outbox' = [outbox EXCEPT ![t] = NewOutbox]
      /\ lost' = lost \cup Range(todo[t]) /\ UNCHANGED <<principals, rows, received>>
  BY DEF Crash
<1>2. Range(todo[t]) \subseteq Event BY RangeInSet DEF IInv, TypeOK
<1>3. TypeOK' BY <1>1, <1>2, NewOutboxAccounts DEF IInv, TypeOK, Actor
<1>4. /\ at'[t] = "idle" /\ todo'[t] = <<>> /\ open'[t] = <<>>
      /\ \A u \in Thread \ {t} : /\ at'[u] = at[u] /\ todo'[u] = todo[u] /\ open'[u] = open[u]
                                 /\ left'[u] = left[u] /\ outbox'[u] = outbox[u]
  BY <1>1 DEF IInv, TypeOK
<1>5. \A x : Stored(x)' <=> Stored(x) BY <1>1 DEF Stored
<1>6. TodoStored' BY <1>4, <1>5, RangeOfEmpty DEF IInv, TodoStored
<1>7. OpenNew' BY <1>4, <1>5, RangeOfEmpty DEF IInv, OpenNew
<1>8. OneSender' /\ Held' BY <1>4 DEF IInv, OneSender, Held
<1>9. ReceivedStored' /\ OutboxAccounts' BY <1>1, <1>5 DEF IInv, ReceivedStored, OutboxAccounts
<1>10. Unsent'
  <2>1. \A u \in Thread \ {t} : \A x : Sending(u, x)' <=> Sending(u, x) BY <1>4 DEF Sending
  <2>2. \A x : ~Sending(t, x)' BY <1>4 DEF Sending
  <2>3. \A x \in Event \ lost' : ~Sending(t, x)
    <3> SUFFICES ASSUME NEW x \in Event, Sending(t, x) PROVE x \in lost'
      OBVIOUS
    <3>1. todo[t] # <<>> /\ todo[t] \in Seq(Event) BY DEF IInv, TypeOK, TodoStored, Sending
    <3> QED BY <1>1, <3>1, RangeOfTail DEF Sending
  <2>4. \A x \in Event \ lost' : Locked(x)' <=> Locked(x) BY <2>1, <2>2, <2>3 DEF Locked
  <2> QED BY <1>1, <1>4, <2>1, <2>2, <2>4 DEF IInv, Unsent
<1>11. Sent'
  <2>1. \A u \in Thread : \A x : Sending(u, x)' => u # t /\ Sending(u, x) BY <1>4 DEF Sending
  <2> QED BY <1>1, <1>4, <2>1 DEF IInv, Sent
<1> QED BY <1>3, <1>6, <1>7, <1>8, <1>9, <1>10, <1>11 DEF IInv

-----------------------------------------------------------------------------
\* The steps that change rows, and nothing of their outboxes.
LEMMA RowsIInv ==
  ASSUME IInv, TypeOK', UNCHANGED <<received, lost, thread>>,
         \A e \in Event : Stored(e)' <=> Stored(e),
         \A e \in Event : rows'[e].outbox = rows[e].outbox
  PROVE  IInv'
<1>1. \A u \in Thread : Range(todo[u]) \subseteq Event /\ Range(open[u]) \subseteq Event
  BY RangeInSet DEF IInv, TypeOK
<1>2. TodoStored' /\ OpenNew' BY <1>1 DEF IInv, TodoStored, OpenNew, thread
<1>3. OneSender' /\ Held' BY DEF IInv, OneSender, Held, thread
<1>4. \A u \in Thread : \A e : Sending(u, e)' <=> Sending(u, e) BY DEF Sending, thread
<1>5. \A e : Locked(e)' <=> Locked(e) BY <1>4 DEF Locked
<1>6. Unsent' /\ Sent' BY <1>4, <1>5 DEF IInv, Unsent, Sent, thread
<1>7. ReceivedStored' /\ OutboxAccounts' BY DEF IInv, ReceivedStored, OutboxAccounts
<1> QED BY <1>2, <1>3, <1>6, <1>7 DEF IInv

LEMMA DeleteEventIInv ==
  ASSUME IInv, NEW e \in Event, DeleteEvent(e)
  PROVE  IInv'
<1> DEFINE new == [rows[e] EXCEPT !.at = "deleted"]
<1>1. /\ rows[e].at = "stored" /\ rows' = [rows EXCEPT ![e] = new]
      /\ UNCHANGED <<principals, received, lost, thread>>
  BY SavedField DEF DeleteEvent
<1>2. rows[e] \in Row BY DEF IInv, TypeOK
<1>3. new \in Row /\ new.at = "deleted" /\ new.outbox = rows[e].outbox BY <1>2 DEF Row
<1> HIDE DEF new
<1>4. TypeOK' BY <1>1, <1>3 DEF IInv, TypeOK, thread
<1>5. \A x \in Event : (Stored(x)' <=> Stored(x)) /\ rows'[x].outbox = rows[x].outbox
  BY <1>1, <1>3 DEF IInv, TypeOK, Stored
<1> QED BY <1>1, <1>4, <1>5, RowsIInv

LEMMA DeletePrincipalIInv ==
  ASSUME IInv, NEW a \in Principal, DeletePrincipal(a)
  PROVE  IInv'
<1> DEFINE new(e) == [rows[e] EXCEPT !.actor = Nobody]
<1>1. /\ principals' = principals \ {a} /\ UNCHANGED <<received, lost, thread>>
      /\ rows' = [e \in Event |-> IF rows[e].actor = a THEN new(e) ELSE rows[e]]
  BY DEF DeletePrincipal
<1>2. \A e \in Event : /\ rows[e] \in Row /\ new(e) \in Row
                       /\ new(e).at = rows[e].at /\ new(e).outbox = rows[e].outbox
  <2> TAKE e \in Event
  <2>1. rows[e] \in Row BY DEF IInv, TypeOK
  <2> QED BY <2>1 DEF Row, Actor
<1> HIDE DEF new
<1>3. TypeOK' BY <1>1, <1>2 DEF IInv, TypeOK, thread
<1>4. \A x \in Event : (Stored(x)' <=> Stored(x)) /\ rows'[x].outbox = rows[x].outbox
  BY <1>1, <1>2 DEF Stored
<1> QED BY <1>1, <1>3, <1>4, RowsIInv

-----------------------------------------------------------------------------
LEMMA NextIInv == IInv /\ [Next]_vars => IInv'
<1> SUFFICES ASSUME IInv, [Next]_vars PROVE IInv'
  OBVIOUS
<1>1. CASE UNCHANGED vars
  <2>1. TypeOK' BY <1>1 DEF vars, thread, IInv, TypeOK
  <2> QED BY <1>1, <2>1, RowsIInv DEF vars, Stored
<1>2. ASSUME NEW t \in Thread, Serve(t) PROVE IInv'
  BY <1>2, ServeIInv, CommitIInv DEF Serve
<1>3. ASSUME NEW t \in Thread, Dispatch(t) PROVE IInv'
  BY <1>3, SkipIInv, StartIInv, SendIInv, EndIInv DEF Dispatch
<1>4. ASSUME NEW t \in Thread, Crash(t) PROVE IInv' BY <1>4, CrashIInv
<1>5. ASSUME NEW e \in Event, DeleteEvent(e) PROVE IInv' BY <1>5, DeleteEventIInv
<1>6. ASSUME NEW a \in Principal, DeletePrincipal(a) PROVE IInv' BY <1>6, DeletePrincipalIInv
<1> QED BY <1>1, <1>2, <1>3, <1>4, <1>5, <1>6 DEF Next

LEMMA Invariance == Spec => []IInv
<1> QED BY InitIInv, NextIInv, PTL DEF Spec

\* The variables keep their types, for any number of threads and events.
THEOREM TypeCorrect == Spec => []TypeOK
<1>1. IInv => TypeOK BY DEF IInv
<1> QED BY <1>1, Invariance, PTL

\* The outbox of an event accounts for every configured backend.
THEOREM Accounts == Spec => []OutboxAccounts
<1>1. IInv => OutboxAccounts BY DEF IInv
<1> QED BY <1>1, Invariance, PTL

\* Nothing rolled back reaches a sink, an answering sink has what is recorded, and no
\* sink has what is pending unless a dispatch is under way or ended without its record.
THEOREM RecordsAgree == Spec => []SinksAgree
<1>1. IInv => SinksAgree BY DEF IInv, Unsent, Sent, ReceivedStored, SinksAgree
<1> QED BY <1>1, Invariance, PTL

-----------------------------------------------------------------------------
\* The database nulls the actor of an event with the row of the principal only.
LEMMA ChecksumStep ==
  ASSUME IInv, ChecksumHoldsWithActor, [Next]_vars
  PROVE  ChecksumHoldsWithActor'
<1> DEFINE Holds(e) ==
      Stored(e) /\ rows[e].hashed \in principals \cup {Nobody} => rows[e].actor = rows[e].hashed
<1>1. \A e \in Event : Holds(e) BY DEF ChecksumHoldsWithActor, VerifyIntegrity, IntegrityPayload
<1>2. CASE UNCHANGED <<principals, rows>>
  BY <1>2 DEF ChecksumHoldsWithActor, VerifyIntegrity, IntegrityPayload, Stored
<1>3. ASSUME NEW t \in Thread, Commit(t) PROVE ChecksumHoldsWithActor'
  BY <1>3 DEF ChecksumHoldsWithActor, VerifyIntegrity, IntegrityPayload, Stored, Commit, Insert
<1>4. ASSUME NEW t \in Thread, EndDispatch(t) PROVE ChecksumHoldsWithActor'
  <2>1. \A e \in Event : /\ rows'[e].at = rows[e].at /\ rows'[e].actor = rows[e].actor
                         /\ rows'[e].hashed = rows[e].hashed
    <3> TAKE e \in Event
    <3>1. rows[e] \in Row BY DEF IInv, TypeOK
    <3>2. rows'[e] \in {rows[e], [rows[e] EXCEPT !.outbox = outbox[t]]}
      BY <1>4, SavedField DEF EndDispatch, IInv, TypeOK
    <3> QED BY <3>1, <3>2 DEF Row
  <2>2. principals' = principals BY <1>4 DEF EndDispatch
  <2> QED BY <2>1, <2>2 DEF ChecksumHoldsWithActor, VerifyIntegrity, IntegrityPayload, Stored
<1>5. ASSUME NEW x \in Event, DeleteEvent(x) PROVE ChecksumHoldsWithActor'
  <2>1. \A e \in Event : /\ Stored(e)' <=> Stored(e) /\ rows'[e].actor = rows[e].actor
                         /\ rows'[e].hashed = rows[e].hashed
    <3> TAKE e \in Event
    <3>1. rows[e] \in Row BY DEF IInv, TypeOK
    <3>2. e # x \/ rows[e].at = "stored" BY <1>5 DEF DeleteEvent
    <3>3. rows'[e] = IF e = x THEN [rows[e] EXCEPT !.at = "deleted"] ELSE rows[e]
      <4>1. rows' = [rows EXCEPT ![x] = [@ EXCEPT !.at = "deleted"]]
        BY <1>5, SavedField DEF DeleteEvent
      <4> QED BY <4>1 DEF IInv, TypeOK
    <3> QED BY <3>1, <3>2, <3>3 DEF Row, Stored
  <2>2. principals' = principals BY <1>5 DEF DeleteEvent
  <2> QED BY <2>1, <2>2 DEF ChecksumHoldsWithActor, VerifyIntegrity, IntegrityPayload
<1>6. ASSUME NEW a \in Principal, DeletePrincipal(a) PROVE ChecksumHoldsWithActor'
  <2>1. principals' = principals \ {a} /\ a # Nobody
    BY <1>6, NobodyAssumption DEF DeletePrincipal
  <2>2. \A e \in Event : /\ Stored(e)' <=> Stored(e)
                         /\ rows'[e].actor = IF rows[e].actor = a THEN Nobody ELSE rows[e].actor
                         /\ rows'[e].hashed = rows[e].hashed
    <3> TAKE e \in Event
    <3>1. rows[e] \in Row BY DEF IInv, TypeOK
    <3>2. rows'[e] = IF rows[e].actor = a THEN [rows[e] EXCEPT !.actor = Nobody] ELSE rows[e]
      BY <1>6 DEF DeletePrincipal
    <3> QED BY <3>1, <3>2 DEF Row, Stored
  <2>3. ASSUME NEW e \in Event, Stored(e)', rows'[e].hashed \in principals' \cup {Nobody}
        PROVE  rows'[e].actor = rows'[e].hashed
    <3>1. rows[e].actor = rows[e].hashed /\ rows[e].hashed # a
      BY <2>1, <2>2, <2>3 DEF ChecksumHoldsWithActor, VerifyIntegrity, IntegrityPayload
    <3> QED BY <2>2, <3>1
  <2> QED BY <2>3 DEF ChecksumHoldsWithActor, VerifyIntegrity, IntegrityPayload
<1>7. CASE \E t \in Thread :
        \/ \E user \in Actor : StartRequest(t, user)
        \/ EndRequest(t) \/ Rollback(t) \/ Crash(t) \/ SkipDispatch(t)
        \/ \E e \in Event : WriteEvent(t, e)
        \/ \E up \in Constructible \ {{}} : StartDispatch(t, up)
        \/ \E b \in Name : SendReturns(t, b) \/ SendFails(t, b)
  <2>1. UNCHANGED <<principals, rows>>
    BY <1>7 DEF StartRequest, EndRequest, Rollback, Crash, SkipDispatch, WriteEvent,
       StartDispatch, SendReturns, SendFails
  <2> QED BY <1>2, <2>1
<1>8. CASE UNCHANGED vars BY <1>2, <1>8 DEF vars
<1> QED BY <1>3, <1>4, <1>5, <1>6, <1>7, <1>8 DEF Next, Serve, Dispatch

\* The checksum of an event verifies while the row of its actor is there.
THEOREM ChecksumIsStable == Spec => []ChecksumHoldsWithActor
<1>1. Init => ChecksumHoldsWithActor BY DEF Init, NoRow, ChecksumHoldsWithActor, VerifyIntegrity, IntegrityPayload, Stored
<1>2. IInv /\ ChecksumHoldsWithActor /\ [Next]_vars => ChecksumHoldsWithActor'
  BY ChecksumStep
<1> QED BY <1>1, <1>2, Invariance, PTL DEF Spec

-----------------------------------------------------------------------------
(* AuditTrail.                                                               *)

SaveTypes == {"create", "bulk_create", "update"}
InTransaction == {"prepared", "written", "chosen", "locked"}
Working == InTransaction \cup {"loaded"}

\* What an operation is made of.
Shape(k) ==
  /\ k.op \notin Compensation
  /\ k.at \in Working => k.inst \in State
  /\ k.at \in {"restored", "numbered"} => k.then # "end"
  /\ k.then # "end" => k.op = "update" /\ (k.at \in Working => k.cols = Field)
  /\ k.holds => k.at \in {"written", "chosen", "locked"} /\ k.cols # {}
  /\ k.at \in {"written", "chosen", "locked"} /\ k.cols # {} => k.holds
  /\ k.op = "delete" => k.cols = {} /\ k.at \notin {"loaded", "prepared"}

\* The events that it names are there.
Placed(k) ==
  /\ k.last <= Len(events) /\ k.parent <= Len(events)
  /\ k.then # "end" => k.parent # 0
  /\ k.at = "numbered" =>
       k.last # 0 /\ \A j \in DOMAIN events : j = k.parent => events[j].version <= events[k.last].version

\* A save that has chosen the last event will have a version above those of all saves:
\* it holds the row, so no other save has committed since.
Ahead(k) ==
  k.op \in SaveTypes /\ k.cols # {} /\ k.at \in {"chosen", "locked"} =>
    \A j \in DOMAIN events :
      events[j].type \in SaveTypes /\ events[j].wrote => events[j].version < VersionAfter(k.last)

RowExclusive == \A v, w \in Worker : HoldsRow(v) /\ HoldsRow(w) => v = w

\* What an operation has read is still so, if it can go on with a quiet history.
Agrees(k) == row \in State /\ \A f \in Field \ k.cols : k.inst[f] = row[f]

Current(k) ==
  k.quiet =>
    /\ QuietSoFar /\ k.op # "bulk_update"
    /\ k.at = "loaded" => k.op = "update" /\ Agrees(k)
    /\ k.at \in InTransaction /\ k.op = "update" => k.pre = row /\ Agrees(k)
    /\ k.at \in InTransaction /\ k.op \in {"create", "bulk_create"} =>
         events = <<>> /\ row = Absent /\ k.pre = NoState /\ k.cols = Field
    /\ k.at \in InTransaction /\ k.op \in {"delete", "restore"} =>
         k.inst = row /\ k.pre = NoState /\ k.cols = {}
    /\ k.at \in {"restored", "numbered"} => row = Absent \/ k.inst \in {NoState, row}

Sound(k) == Shape(k) /\ Placed(k) /\ Ahead(k) /\ Current(k)

WorkSound == \A w \in Worker : Sound(work[w])

LastTruth == QuietSoFar /\ events # <<>> => row = truth[Len(events)]

\* What an event of a quiet history says of the row before and after it.
TrueEvent(i) ==
  LET e == events[i] IN
  /\ truth[i] = Absent => e.type \in {"delete"} \cup Compensation
  /\ truth[i] # Absent /\ e.snapshot # NoState => e.snapshot = truth[i]
  /\ truth[i] # Absent /\ i > 1 =>
       /\ truth[i - 1] \in State
       /\ truth[i] = [f \in Field |-> IF f \in DOMAIN e.delta THEN e.delta[f] ELSE truth[i - 1][f]]
  /\ e.type = "delete" =>
       /\ truth[i] = Absent /\ e.snapshot # NoState
       /\ i > 1 => e.snapshot = truth[i - 1]

EventsTrue == \A i \in DOMAIN truth : TrueEvent(i)

TrailIInv ==
  /\ TrailTypeOK /\ WorkSound /\ RowExclusive /\ HistoryIsConnected
  /\ SavesNeverShareVersion /\ LastTruth /\ EventsTrue

LEMMA IdleWork == Idle \in Work /\ Idle.cols = {}
BY DEF Idle, Work, EventType

\* A row with a column of another row is a row.
LEMMA MixedRow ==
  ASSUME NEW s \in State, NEW t \in State, NEW cols \in SUBSET Field
  PROVE  [f \in Field |-> IF f \in cols THEN s[f] ELSE t[f]] \in State
BY StateAssumption

LEMMA SameRow ==
  ASSUME NEW s \in State, NEW t \in State, \A f \in Field : s[f] = t[f]
  PROVE  s = t
BY StateAssumption

LEMMA DeltaType ==
  ASSUME NEW pre \in State \cup {NoState}, NEW state \in State
  PROVE  /\ ComputeDelta(pre, state) \in Deltas
         /\ pre = NoState => DOMAIN ComputeDelta(pre, state) = {}
         /\ pre # NoState => state = [f \in Field |->
              IF f \in DOMAIN ComputeDelta(pre, state) THEN ComputeDelta(pre, state)[f] ELSE pre[f]]
<1>0. NoState \notin State
  BY AbsentAssumption
<1>1. CASE pre = NoState
  <2>1. ComputeDelta(pre, state) = [f \in {} |-> state[f]]
    BY <1>1 DEF ComputeDelta
  <2>2. \E D \in SUBSET Field, s \in State : ComputeDelta(pre, state) = [f \in D |-> s[f]]
    <3> WITNESS {} \in SUBSET Field, state \in State
    <3> QED  BY <2>1
  <2>3. DOMAIN ComputeDelta(pre, state) = {}
    BY <2>1
  <2> QED  BY <1>1, <2>2, <2>3 DEF Deltas
<1>2. CASE pre # NoState
  <2> DEFINE D == {g \in Field : pre[g] # state[g]}
  <2>1. ComputeDelta(pre, state) = [f \in D |-> state[f]]
    BY <1>0, <1>2 DEF ComputeDelta
  <2>2. ComputeDelta(pre, state) \in Deltas
    BY <2>1 DEF Deltas
  <2>3. state = [f \in Field |-> state[f]]
    BY StateAssumption
  <2>4. \A f \in Field : state[f] = IF f \in D THEN [g \in D |-> state[g]][f] ELSE pre[f]
    OBVIOUS
  <2> QED  BY <1>2, <2>1, <2>2, <2>3, <2>4
<1> QED  BY <1>1, <1>2

LEMMA VersionAfterType ==
  ASSUME TrailTypeOK, NEW i \in 0 .. Len(events)
  PROVE  VersionAfter(i) \in Nat \ {0}
<1>1. i # 0 => events[i] \in HistoryEvent
  BY DEF TrailTypeOK
<1> QED  BY <1>1 DEF VersionAfter, HistoryEvent

\* The last event has the highest version.
LEMMA LastEventsType ==
  ASSUME TrailTypeOK, NEW i \in LastEvents
  PROVE  /\ i \in 0 .. Len(events) /\ (i = 0 => events = <<>>)
         /\ \A j \in DOMAIN events : events[j].version < VersionAfter(i)
<1>1. DOMAIN events = 1 .. Len(events) /\ Len(events) \in Nat
  BY DEF TrailTypeOK
<1>2. \A j \in DOMAIN events : events[j] \in HistoryEvent /\ events[j].version \in Nat
  <2>1. \A j \in DOMAIN events : events[j] \in HistoryEvent
    BY DEF TrailTypeOK
  <2> QED  BY <2>1 DEF HistoryEvent
<1>3. CASE events = <<>>
  BY <1>1, <1>3 DEF LastEvents
<1>4. CASE events # <<>>
  BY <1>1, <1>2, <1>4 DEF LastEvents, VersionAfter
<1> QED  BY <1>3, <1>4

LEMMA Appended ==
  ASSUME TrailTypeOK, NEW e \in HistoryEvent, events' = Append(events, e)
  PROVE  /\ events' \in Seq(HistoryEvent) /\ Len(events') = Len(events) + 1
         /\ events'[Len(events) + 1] = e
         /\ \A i \in 1 .. Len(events) : events'[i] = events[i]
         /\ DOMAIN events = 1 .. Len(events) /\ DOMAIN events' = 1 .. Len(events) + 1
         /\ Len(events) \in Nat
BY DEF TrailTypeOK

LEMMA IdleSound == Len(events) \in Nat => Sound(Idle)
BY DEF Sound, Shape, Placed, Ahead, Current, Idle, Working, InTransaction, Compensation, SaveTypes

LEMMA TrailInitIInv == TrailInit => TrailIInv
<1> SUFFICES ASSUME TrailInit PROVE TrailIInv
  OBVIOUS
<1>1. events = <<>> /\ events \in Seq(HistoryEvent) /\ Len(events) = 0 /\ DOMAIN events = {}
  BY DEF TrailInit
<1>2. \A w \in Worker : work[w] = Idle
  BY DEF TrailInit
<1>3. TrailTypeOK
  <2>1. truth \in Seq(State \cup {Absent}) /\ Len(truth) = 0
    BY DEF TrailInit
  <2> QED  BY <1>1, <2>1, IdleWork DEF TrailInit, TrailTypeOK
<1>4. WorkSound
  BY <1>1, <1>2, IdleSound DEF WorkSound, TrailTypeOK
<1>5. RowExclusive
  BY <1>2 DEF RowExclusive, HoldsRow, Idle
<1>6. HistoryIsConnected /\ SavesNeverShareVersion /\ EventsTrue
  <2>1. DOMAIN truth = {}
    BY DEF TrailInit
  <2> QED  BY <1>1, <2>1 DEF HistoryIsConnected, SavesNeverShareVersion, EventsTrue
<1>7. LastTruth
  BY <1>1 DEF LastTruth
<1> QED  BY <1>3, <1>4, <1>5, <1>6, <1>7 DEF TrailIInv

\* A worker goes on, and nothing is committed.
LEMMA GoOn ==
  ASSUME TrailIInv, NEW w \in Worker, NEW k \in Work, work' = [work EXCEPT ![w] = k],
         UNCHANGED <<row, events, truth>>, Sound(k), k.holds => HoldsRow(w) \/ RowFree(w)
  PROVE  TrailIInv'
<1>1. \A v \in Worker : work'[v] = IF v = w THEN k ELSE work[v]
  BY DEF TrailIInv, TrailTypeOK
<1>2. TrailTypeOK'
  BY DEF TrailIInv, TrailTypeOK
<1>3. WorkSound'
  <2>1. \A c : Sound(c)' <=> Sound(c)
    BY DEF Sound, Shape, Placed, Ahead, Current, Agrees, VersionAfter, QuietSoFar
  <2> QED  BY <1>1, <2>1 DEF TrailIInv, WorkSound
<1>4. RowExclusive'
  BY <1>1 DEF TrailIInv, RowExclusive, HoldsRow, RowFree
<1>5. HistoryIsConnected'
  BY DEF TrailIInv, HistoryIsConnected
<1>6. SavesNeverShareVersion'
  BY DEF TrailIInv, SavesNeverShareVersion
<1>7. LastTruth'
  BY DEF TrailIInv, LastTruth, QuietSoFar
<1>8. EventsTrue'
  <2>1. \A i : TrueEvent(i)' <=> TrueEvent(i)
    BY DEF TrueEvent
  <2> QED  BY <2>1 DEF TrailIInv, EventsTrue
<1> QED  BY <1>2, <1>3, <1>4, <1>5, <1>6, <1>7, <1>8 DEF TrailIInv

LEMMA StopIInv ==
  ASSUME TrailIInv, NEW w \in Worker, work' = [work EXCEPT ![w] = Idle], UNCHANGED <<row, events, truth>>
  PROVE  TrailIInv'
<1>1. Sound(Idle)
  BY IdleSound DEF TrailIInv, TrailTypeOK
<1> QED  BY <1>1, IdleWork, GoOn DEF Idle

LEMMA BeginIInv ==
  ASSUME TrailIInv, NEW w \in Worker, NEW op \in EventType \ Compensation,
         NEW stage \in {"loaded", "prepared", "written"}, NEW cols \in SUBSET Field, NEW inst \in State,
         Begin(w, op, stage, cols, inst), stage = "written" => cols = {} /\ op \in {"delete", "restore"},
         stage = "loaded" => op = "update" /\ row \in State,
         stage = "prepared" => op # "update",
         op \in {"create", "bulk_create"} => events = <<>> /\ row = Absent /\ cols = Field,
         op \in {"delete", "restore"} => stage = "written" /\ row \in State,
         op = "delete" => cols = {}
  PROVE  TrailIInv'
<1> DEFINE clean == /\ QuietSoFar /\ op # "bulk_update"
                    /\ \A f \in Field \ cols : inst[f] = row[f]
           k == [Idle EXCEPT !.at = stage, !.op = op, !.cols = cols, !.inst = inst,
                             !.quiet = clean]
<1>1. k \in Work
  <2>1. clean \in BOOLEAN
    OBVIOUS
  <2> HIDE DEF clean
  <2> QED  BY <2>1, IdleWork DEF Work
<1>2. /\ k.at = stage /\ k.op = op /\ k.cols = cols /\ k.inst = inst /\ k.quiet = clean
      /\ k.pre = NoState /\ k.last = 0 /\ k.parent = 0 /\ k.then = "end" /\ k.holds = FALSE
  BY DEF Idle
<1>3. work' = [work EXCEPT ![w] = k] /\ UNCHANGED <<row, events, truth>>
  BY DEF Begin
<1> HIDE DEF k
<1>4. Shape(k) /\ Placed(k) /\ Ahead(k)
  BY <1>2 DEF Shape, Placed, Ahead, Working, InTransaction, TrailIInv, TrailTypeOK, SaveTypes
<1>5. Current(k)
  <2> SUFFICES ASSUME k.quiet PROVE Current(k)
    BY DEF Current
  <2>1. QuietSoFar /\ op # "bulk_update" /\ \A f \in Field \ cols : inst[f] = row[f]
    BY <1>2
  <2>2. op \in {"delete", "restore"} => inst = row
    BY <2>1, SameRow
  <2> QED  BY <1>2, <2>1, <2>2 DEF Current, Agrees, InTransaction
<1> QED  BY <1>1, <1>2, <1>3, <1>4, <1>5, GoOn DEF Sound

LEMMA OperationIInv ==
  ASSUME TrailIInv, NEW w \in Worker, NEW s \in State,
         \/ \E type \in {"create", "bulk_create"} : BeginCreate(w, type, s)
         \/ \E cols \in SUBSET Field : BeginSave(w, s, cols)
         \/ \E f \in Field : BeginBulkUpdate(w, s, f)
         \/ BeginDelete(w, s) \/ BeginRecord(w, s)
  PROVE  TrailIInv'
<1>0. row # Absent => row \in State
  BY DEF TrailIInv, TrailTypeOK
<1>1. ASSUME NEW type \in {"create", "bulk_create"}, BeginCreate(w, type, s)
      PROVE  TrailIInv'
  <2>1. type \in EventType \ Compensation
    BY DEF EventType, Compensation
  <2> QED  BY <1>1, <2>1, BeginIInv DEF BeginCreate
<1>2. ASSUME NEW cols \in SUBSET Field, BeginSave(w, s, cols) PROVE TrailIInv'
  <2>1. "update" \in EventType \ Compensation
    BY DEF EventType, Compensation
  <2> QED  BY <1>0, <1>2, <2>1, BeginIInv DEF BeginSave
<1>3. ASSUME NEW f \in Field, BeginBulkUpdate(w, s, f) PROVE TrailIInv'
  <2>1. "bulk_update" \in EventType \ Compensation /\ {f} \in SUBSET Field
    BY DEF EventType, Compensation
  <2> QED  BY <1>3, <2>1, BeginIInv DEF BeginBulkUpdate
<1>4. CASE BeginDelete(w, s) \/ BeginRecord(w, s)
  <2>1. {"delete", "restore"} \subseteq EventType \ Compensation /\ {} \in SUBSET Field
    BY DEF EventType, Compensation
  <2> QED  BY <1>0, <1>4, <2>1, BeginIInv DEF BeginDelete, BeginRecord
<1> QED  BY <1>1, <1>2, <1>3, <1>4

LEMMA CompensationIInv ==
  ASSUME TrailIInv, NEW w \in Worker, NEW op \in Compensation, NEW parent \in DOMAIN events,
         NEW restore \in State \cup {NoState}, BeginCompensation(w, op, parent, restore)
  PROVE  TrailIInv'
<1> DEFINE stage == IF restore = NoState \/ row = Absent THEN "restored" ELSE "loaded"
           k == [Idle EXCEPT !.at = stage, !.cols = Field, !.inst = restore, !.parent = parent,
                             !.then = op, !.quiet = QuietSoFar]
<1>1. /\ parent \in 1 .. Len(events) /\ Len(events) \in Nat
      /\ row # Absent => row \in State
  BY DEF TrailIInv, TrailTypeOK
<1>2. work' = [work EXCEPT ![w] = k] /\ UNCHANGED <<row, events, truth>>
  BY DEF BeginCompensation
<1>3. k \in Work
  <2>1. /\ stage \in {"restored", "loaded"} /\ parent \in Nat /\ QuietSoFar \in BOOLEAN
        /\ op \in {"undo", "redo"}
    BY <1>1 DEF Compensation, QuietSoFar
  <2> HIDE DEF stage
  <2> QED  BY <2>1, IdleWork DEF Work
<1>4. Sound(k)
  BY <1>1, FieldAssumption
  DEF Idle, Sound, Shape, Placed, Ahead, Current, Agrees, Working, InTransaction, SaveTypes,
      Compensation
<1>5. ~k.holds
  BY DEF Idle
<1> HIDE DEF k
<1> QED  BY <1>2, <1>3, <1>4, <1>5, GoOn

LEMMA UndoIInv ==
  ASSUME TrailIInv, NEW w \in Worker, NEW i \in DOMAIN events, BeginUndo(w, i) \/ BeginRedo(w, i)
  PROVE  TrailIInv'
<1>1. \A j \in DOMAIN events : /\ events[j].snapshot \in State \cup {NoState}
                               /\ events[j].parent \in Nat /\ events[j].parent < j
  <2>1. \A j \in DOMAIN events : events[j] \in HistoryEvent
    BY DEF TrailIInv, TrailTypeOK
  <2> QED  BY <2>1 DEF HistoryEvent, TrailIInv, HistoryIsConnected
<1>2. DOMAIN events = 1 .. Len(events) /\ Len(events) \in Nat
  BY DEF TrailIInv, TrailTypeOK
<1>3. CASE BeginUndo(w, i)
  <2> DEFINE parent == events[i].parent
             restore == IF parent = 0 THEN NoState ELSE events[parent].snapshot
  <2>1. parent = 0 \/ parent \in DOMAIN events
    BY <1>1, <1>2
  <2>2. restore \in State \cup {NoState}
    BY <1>1, <2>1
  <2>3. BeginCompensation(w, "undo", i, restore)
    BY <1>3 DEF BeginUndo
  <2> HIDE DEF restore
  <2> QED  BY <2>2, <2>3, CompensationIInv DEF Compensation
<1>4. CASE BeginRedo(w, i)
  <2>1. PICK u \in OpenUndos(i) : BeginCompensation(w, "redo", u, events[i].snapshot)
    BY <1>4 DEF BeginRedo
  <2>2. u \in DOMAIN events
    BY DEF OpenUndos, ChildrenOf
  <2> QED  BY <1>1, <2>1, <2>2, CompensationIInv DEF Compensation
<1> QED  BY <1>3, <1>4

LEMMA WrittenType ==
  ASSUME TrailIInv, NEW w \in Worker, work[w].inst \in State
  PROVE  Written(w) \in State
<1>1. row = Absent \/ row \in State
  BY DEF TrailIInv, TrailTypeOK
<1>2. work[w].cols \in SUBSET Field
  BY DEF TrailIInv, TrailTypeOK, Work
<1> QED  BY <1>1, <1>2, MixedRow DEF Written

LEMMA StepIInv ==
  ASSUME TrailIInv, NEW w \in Worker,
         \/ ReadPre(w) \/ WriteRow(w) \/ WriteNothing(w)
         \/ ChooseLast(w) \/ LockLast(w) \/ AbortDeadlock(w) \/ ReadNext(w)
  PROVE  TrailIInv'
<1>0. /\ work[w] \in Work /\ Sound(work[w]) /\ TrailTypeOK
      /\ Len(events) \in Nat /\ DOMAIN events = 1 .. Len(events)
      /\ row \in State \cup {Absent}
  BY DEF TrailIInv, TrailTypeOK, WorkSound
<1> USE DEF Sound, Shape, Placed, Ahead, Current, Agrees, Working, InTransaction
<1>1. CASE ReadPre(w)
  <2> DEFINE k == [work[w] EXCEPT !.at = "prepared", !.pre = IF row = Absent THEN NoState ELSE row]
  <2>1. work' = [work EXCEPT ![w] = k] /\ UNCHANGED <<row, events, truth>>
    BY <1>1 DEF ReadPre
  <2>2. k \in Work
    BY <1>0 DEF Work
  <2>3. Sound(k)
    BY <1>0, <1>1, AbsentAssumption DEF ReadPre, Work
  <2>4. ~k.holds
    BY <1>0, <1>1 DEF ReadPre, Work
  <2> HIDE DEF k
  <2> QED  BY <2>1, <2>2, <2>3, <2>4, GoOn
<1>2. CASE WriteRow(w)
  <2>1. PICK seen \in {work[w].inst} \cup
                 (IF work[w].op = "bulk_update" THEN {Written(w)} ELSE {}) :
          work' = [work EXCEPT ![w].at = "written", ![w].inst = seen, ![w].holds = TRUE]
    BY <1>2 DEF WriteRow
  <2> DEFINE k == [work[w] EXCEPT !.at = "written", !.inst = seen, !.holds = TRUE]
  <2>2. work' = [work EXCEPT ![w] = k] /\ UNCHANGED <<row, events, truth>> /\ RowFree(w)
    BY <1>2, <2>1 DEF WriteRow
  <2>3. seen \in State
    BY <1>0, <1>2, WrittenType DEF WriteRow
  <2>4. k \in Work
    BY <1>0, <2>3 DEF Work
  <2>5. Sound(k)
    BY <1>0, <1>2, <2>1, <2>3 DEF WriteRow, WantsRow, Work, SaveTypes
  <2> HIDE DEF k
  <2> QED  BY <2>2, <2>4, <2>5, GoOn
<1>3. CASE WriteNothing(w)
  <2>1. CASE work' = [work EXCEPT ![w] = Idle]
    BY <1>3, <2>1, StopIInv DEF WriteNothing
  <2>2. CASE /\ work[w].cols = {} \/ work[w].op = "bulk_update"
             /\ work' = [work EXCEPT ![w].at = "written", ![w].cols = {}]
    <3> DEFINE k == [work[w] EXCEPT !.at = "written", !.cols = {}]
    <3>1. work' = [work EXCEPT ![w] = k] /\ UNCHANGED <<row, events, truth>>
      BY <1>3, <2>2 DEF WriteNothing
    <3>2. k \in Work
      BY <1>0 DEF Work
    <3>3. Sound(k)
      BY <1>0, <1>3, <2>2 DEF WriteNothing, Work, SaveTypes
    <3>4. ~k.holds
      BY <1>0, <1>3 DEF WriteNothing, Work
    <3> HIDE DEF k
    <3> QED  BY <3>1, <3>2, <3>3, <3>4, GoOn
  <2> QED  BY <1>3, <2>1, <2>2 DEF WriteNothing
<1>4. CASE ChooseLast(w)
  <2>1. PICK i \in LastEvents : work' = [work EXCEPT ![w].at = "chosen", ![w].last = i]
    BY <1>4 DEF ChooseLast
  <2> DEFINE k == [work[w] EXCEPT !.at = "chosen", !.last = i]
  <2>2. work' = [work EXCEPT ![w] = k] /\ UNCHANGED <<row, events, truth>>
    BY <1>4, <2>1 DEF ChooseLast
  <2>3. /\ i \in 0 .. Len(events)
        /\ \A j \in DOMAIN events : events[j].version < VersionAfter(i)
    BY <1>0, LastEventsType
  <2>4. k \in Work
    <3>1. i \in Nat
      BY <1>0, <2>3
    <3> QED  BY <1>0, <3>1 DEF Work
  <2>5. Sound(k)
    BY <1>0, <1>4, <2>3 DEF ChooseLast, Work
  <2>6. k.holds => HoldsRow(w)
    BY <1>0, <1>4 DEF ChooseLast, HoldsRow, Work
  <2> HIDE DEF k
  <2> QED  BY <2>2, <2>4, <2>5, <2>6, GoOn
<1>5. CASE LockLast(w)
  <2> DEFINE k == [work[w] EXCEPT !.at = "locked"]
  <2>1. work' = [work EXCEPT ![w] = k] /\ UNCHANGED <<row, events, truth>>
    BY <1>5 DEF LockLast, Proceed
  <2>2. k \in Work
    BY <1>0 DEF Work
  <2>3. Sound(k)
    BY <1>0, <1>5 DEF LockLast, Work
  <2>4. k.holds => HoldsRow(w)
    BY <1>0, <1>5 DEF LockLast, HoldsRow, Work
  <2> HIDE DEF k
  <2> QED  BY <2>1, <2>2, <2>3, <2>4, GoOn
<1>6. CASE AbortDeadlock(w)
  BY <1>6, StopIInv DEF AbortDeadlock
<1>7. CASE ReadNext(w)
  <2>1. PICK i \in LastEvents : work' = [work EXCEPT ![w].at = "numbered", ![w].last = i]
    BY <1>7 DEF ReadNext
  <2> DEFINE k == [work[w] EXCEPT !.at = "numbered", !.last = i]
  <2>2. work' = [work EXCEPT ![w] = k] /\ UNCHANGED <<row, events, truth>>
    BY <1>7, <2>1 DEF ReadNext
  <2>3. /\ i \in 0 .. Len(events) /\ (i = 0 => events = <<>>)
        /\ \A j \in DOMAIN events : events[j].version < VersionAfter(i)
    BY <1>0, LastEventsType
  <2>4. k \in Work
    <3>1. i \in Nat
      BY <1>0, <2>3
    <3> QED  BY <1>0, <3>1 DEF Work
  <2>5. work[w].parent \in 1 .. Len(events) /\ i # 0
    BY <1>0, <1>7, <2>3 DEF ReadNext, Work
  <2>6. \A j \in DOMAIN events : events[j].version <= events[i].version
    <3>1. \A j \in DOMAIN events : events[j] \in HistoryEvent
      BY <1>0 DEF TrailTypeOK
    <3>2. \A j \in DOMAIN events : events[j].version \in Nat
      BY <3>1 DEF HistoryEvent
    <3> QED  BY <1>0, <2>3, <2>5, <3>2 DEF VersionAfter
  <2>7. Sound(k)
    BY <1>0, <1>7, <2>3, <2>5, <2>6 DEF ReadNext, Work
  <2>8. ~k.holds
    BY <1>0, <1>7 DEF ReadNext, Work
  <2> HIDE DEF k
  <2> QED  BY <2>2, <2>4, <2>7, <2>8, GoOn
<1> QED  BY <1>1, <1>2, <1>3, <1>4, <1>5, <1>6, <1>7

\* A worker inserts an event and commits.
LEMMA AppendIInv ==
  ASSUME TrailIInv, NEW w \in Worker, NEW k \in Work, NEW e \in HistoryEvent,
         NEW n, n = Len(events) + 1, CommitEvent(w, k, e), row' \in State \cup {Absent},
         Sound(k)', k.at \in {"idle", "restored"},
         e.version > 1 => \E j \in 1 .. Len(events) : events[j].version = e.version - 1,
         e.parent <= Len(events),
         e.parent = 0 => e.version = 1,
         e.parent # 0 => IF e.type \in Compensation THEN events[e.parent].version < e.version
                         ELSE events[e.parent].version = e.version - 1,
         e.type \in SaveTypes /\ e.wrote => HoldsRow(w) /\ \A j \in DOMAIN events :
           events[j].type \in SaveTypes /\ events[j].wrote => events[j].version < e.version,
         work[w].quiet => TrueEvent(n)'
  PROVE  TrailIInv'
<1>0. /\ events' \in Seq(HistoryEvent) /\ Len(events') = n /\ events'[n] = e
      /\ \A i \in 1 .. Len(events) : events'[i] = events[i]
      /\ DOMAIN events = 1 .. Len(events) /\ DOMAIN events' = 1 .. n
      /\ Len(events) \in Nat
  BY Appended DEF TrailIInv, CommitEvent
<1>1. \A v \in Worker : work'[v] = IF v = w THEN k ELSE [work[v] EXCEPT !.quiet = FALSE]
  BY DEF CommitEvent
<1>t. /\ truth' \in Seq(State \cup {Absent}) /\ DOMAIN truth = 1 .. Len(truth)
      /\ Len(truth) \in Nat /\ Len(truth) <= Len(events)
      /\ work[w].quiet => /\ Len(truth) = Len(events) /\ Len(truth') = n /\ truth'[n] = row'
      /\ ~work[w].quiet => truth' = truth
      /\ \A i \in DOMAIN truth : truth'[i] = truth[i]
      /\ Len(truth') <= n
  <2>1. /\ truth \in Seq(State \cup {Absent}) /\ Len(truth) <= Len(events)
        /\ work[w].quiet => Len(truth) = Len(events)
    BY DEF TrailIInv, TrailTypeOK, WorkSound, Sound, Current, QuietSoFar
  <2>2. CASE work[w].quiet
    <3>1. truth' = Append(truth, row')
      BY <2>2 DEF CommitEvent
    <3> QED  BY <1>0, <2>1, <2>2, <3>1
  <2>3. CASE ~work[w].quiet
    <3>1. truth' = truth
      BY <2>3 DEF CommitEvent
    <3> QED  BY <1>0, <2>1, <2>3, <3>1
  <2> QED  BY <2>2, <2>3
<1>2. TrailTypeOK'
  <2>1. \A v \in Worker : [work[v] EXCEPT !.quiet = FALSE] \in Work
    BY DEF TrailIInv, TrailTypeOK, Work
  <2>2. work' \in [Worker -> Work]
    BY <2>1 DEF CommitEvent
  <2> QED  BY <1>0, <1>t, <2>2 DEF TrailTypeOK
<1>a. /\ \A i \in 1 .. Len(events) : events[i] \in HistoryEvent
      /\ \A i \in 1 .. Len(events) : events[i].parent \in Nat /\ events[i].version \in Nat
      /\ e.parent \in Nat /\ e.version \in Nat
  <2>1. \A i \in 1 .. Len(events) : events[i] \in HistoryEvent
    BY <1>0 DEF TrailIInv, TrailTypeOK
  <2> QED  BY <2>1 DEF HistoryEvent
<1>3. WorkSound'
  <2> SUFFICES ASSUME NEW v \in Worker, v # w PROVE Sound(work[v])'
    BY <1>1 DEF WorkSound
  <2>1. work[v] \in Work /\ Sound(work[v])
    BY DEF TrailIInv, TrailTypeOK, WorkSound
  <2>b. PICK b : b = work[v]
    OBVIOUS
  <2>d. PICK d : d = work'[v]
    OBVIOUS
  <2>2. /\ d.at = b.at /\ d.op = b.op /\ d.cols = b.cols /\ d.inst = b.inst /\ d.pre = b.pre
        /\ d.last = b.last /\ d.parent = b.parent /\ d.then = b.then /\ d.holds = b.holds
        /\ d.quiet = FALSE
        /\ b.last \in Nat /\ b.parent \in Nat
    BY <1>1, <2>1, <2>b, <2>d DEF Work
  <2>3. Shape(b) /\ Placed(b) /\ Ahead(b)
    BY <2>1, <2>b DEF Sound
  <2>4. Shape(d)
    BY <2>2, <2>3 DEF Shape
  <2>5. Placed(d)'
    BY <1>0, <2>2, <2>3 DEF Placed
  <2>6. Ahead(d)'
    <3> SUFFICES ASSUME b.op \in SaveTypes, b.cols # {}, b.at \in {"chosen", "locked"}
                 PROVE  \A j \in 1 .. n : events'[j].type \in SaveTypes /\ events'[j].wrote =>
                          events'[j].version < VersionAfter(b.last)'
      BY <1>0, <2>2 DEF Ahead
    <3>1. HoldsRow(v)
      BY <2>3, <2>b DEF HoldsRow, Shape
    <3>2. ~(e.type \in SaveTypes /\ e.wrote)
      BY <3>1 DEF TrailIInv, RowExclusive
    <3>3. VersionAfter(b.last)' = VersionAfter(b.last)
      BY <1>0, <2>2, <2>3 DEF Placed, VersionAfter
    <3> QED  BY <1>0, <2>3, <3>2, <3>3 DEF Ahead
  <2>7. Current(d)'
    BY <2>2 DEF Current
  <2>8. Sound(d)'
    BY <2>4, <2>5, <2>6, <2>7 DEF Sound, Shape
  <2> QED  BY <2>8, <2>d DEF Sound, Shape, Placed, Ahead, Current, Agrees
<1>4. RowExclusive'
  <2>1. k.holds = FALSE
    BY DEF Sound, Shape
  <2>2. \A v \in Worker : HoldsRow(v)' => v # w /\ HoldsRow(v)
    <3> SUFFICES ASSUME NEW v \in Worker, HoldsRow(v)' PROVE v # w /\ HoldsRow(v)
      OBVIOUS
    <3>1. work[v] \in Work
      BY DEF TrailIInv, TrailTypeOK
    <3> QED  BY <1>1, <2>1, <3>1 DEF HoldsRow, Work
  <2> QED  BY <2>2 DEF TrailIInv, RowExclusive
<1>5. HistoryIsConnected'
  <2> SUFFICES ASSUME NEW i \in 1 .. n
               PROVE  /\ events'[i].version > 1 =>
                           \E j \in 1 .. i - 1 : events'[j].version = events'[i].version - 1
                      /\ events'[i].parent < i
                      /\ events'[i].parent = 0 => events'[i].version = 1
                      /\ events'[i].parent # 0 /\ events'[i].type \in Compensation =>
                           events'[events'[i].parent].version < events'[i].version
                      /\ events'[i].parent # 0 /\ events'[i].type \notin Compensation =>
                           events'[events'[i].parent].version = events'[i].version - 1
    BY <1>0 DEF HistoryIsConnected
  <2>1. CASE i = n
    BY <1>0, <1>a, <2>1
  <2>2. CASE i \in 1 .. Len(events)
    <3>1. /\ events[i].version > 1 =>
               \E j \in 1 .. i - 1 : events[j].version = events[i].version - 1
          /\ events[i].parent < i
          /\ IF events[i].parent = 0 THEN events[i].version = 1
             ELSE IF events[i].type \in Compensation
             THEN events[events[i].parent].version < events[i].version
             ELSE events[events[i].parent].version = events[i].version - 1
      BY <1>0, <2>2 DEF TrailIInv, HistoryIsConnected
    <3>2. 1 .. i - 1 \subseteq 1 .. Len(events) /\ events'[i] = events[i]
      BY <1>0, <2>2
    <3>3. events[i].parent # 0 => events[i].parent \in 1 .. Len(events)
      BY <1>0, <1>a, <2>2, <3>1
    <3>4. events[i].parent # 0 => events'[events[i].parent] = events[events[i].parent]
      BY <1>0, <3>3
    <3>5. \A j \in 1 .. i - 1 : events'[j] = events[j]
      BY <1>0, <3>2
    <3>6. /\ events'[i].version = events[i].version /\ events'[i].parent = events[i].parent
          /\ events'[i].type = events[i].type
      BY <3>2
    <3>7. events[i].version > 1 =>
            \E j \in 1 .. i - 1 : events'[j].version = events[i].version - 1
      BY <3>1, <3>5
    <3> QED  BY <3>1, <3>4, <3>6, <3>7
  <2>3. i = n \/ i \in 1 .. Len(events)
    BY <1>0
  <2> QED  BY <2>1, <2>2, <2>3
<1>6. SavesNeverShareVersion'
  <2> SUFFICES ASSUME NEW i \in 1 .. n, NEW j \in 1 .. n, i # j,
                      events'[i].type \in SaveTypes, events'[j].type \in SaveTypes,
                      events'[i].wrote, events'[j].wrote
               PROVE  events'[i].version # events'[j].version
    BY <1>0 DEF SavesNeverShareVersion, SaveTypes
  <2>1. CASE i # n /\ j # n
    <3>1. i \in 1 .. Len(events) /\ j \in 1 .. Len(events)
      BY <1>0, <2>1
    <3> QED  BY <1>0, <3>1 DEF TrailIInv, SavesNeverShareVersion, SaveTypes
  <2>2. CASE i = n
    <3>1. j \in 1 .. Len(events)
      BY <1>0, <2>2
    <3> QED  BY <1>0, <1>a, <2>2, <3>1
  <2>3. CASE j = n
    <3>1. i \in 1 .. Len(events)
      BY <1>0, <2>3
    <3> QED  BY <1>0, <1>a, <2>3, <3>1
  <2> QED  BY <2>1, <2>2, <2>3
<1>q. \/ Len(truth) = Len(events) /\ Len(truth') = n /\ truth'[n] = row'
      \/ truth' = truth
  BY <1>t
<1>l. PICK m \in Nat : m = Len(truth) /\ m <= Len(events) /\ m < n /\ DOMAIN truth = 1 .. m
  <2>1. Len(truth) \in Nat /\ Len(truth) <= Len(events) /\ DOMAIN truth = 1 .. Len(truth)
    BY <1>t
  <2>2. Len(truth) < n
    BY <1>0, <2>1
  <2> QED  BY <2>1, <2>2
<1>7. LastTruth'
  <2>1. CASE Len(truth) = Len(events) /\ Len(truth') = n /\ truth'[n] = row'
    BY <1>0, <2>1 DEF LastTruth
  <2>2. CASE truth' = truth
    <3>1. Len(truth') = m /\ Len(events') = n
      BY <1>0, <1>l, <2>2
    <3>2. Len(truth') # Len(events')
      BY <1>l, <3>1
    <3> QED  BY <3>2 DEF LastTruth, QuietSoFar
  <2> QED  BY <1>q, <2>1, <2>2
<1>8. EventsTrue'
  <2> SUFFICES ASSUME NEW i \in DOMAIN truth' PROVE TrueEvent(i)'
    BY DEF EventsTrue
  <2>0. i \in DOMAIN truth \/ (work[w].quiet /\ i = n)
    <3>1. i \in 1 .. Len(truth')
      BY <1>t
    <3>2. CASE work[w].quiet
      <4>1. Len(truth) = Len(events) /\ Len(truth') = n
        BY <1>t, <3>2
      <4> QED  BY <1>0, <1>t, <3>1, <3>2, <4>1
    <3>3. CASE ~work[w].quiet
      <4>1. truth' = truth
        BY <1>t, <3>3
      <4> QED  BY <1>t, <3>1, <4>1
    <3> QED  BY <3>2, <3>3
  <2>1. CASE i \in DOMAIN truth
    <3>1. /\ events'[i] = events[i] /\ truth'[i] = truth[i]
          /\ (i > 1 => truth'[i - 1] = truth[i - 1])
      <4>1. i \in 1 .. m /\ i \in 1 .. Len(events)
        BY <1>0, <1>l, <2>1
      <4>2. i > 1 => i - 1 \in DOMAIN truth
        BY <1>l, <4>1
      <4>3. \A j \in DOMAIN truth : truth'[j] = truth[j]
        BY <1>t
      <4>4. events'[i] = events[i]
        BY <1>0, <4>1
      <4> QED  BY <2>1, <4>2, <4>3, <4>4
    <3>2. TrueEvent(i)
      BY <2>1 DEF TrailIInv, EventsTrue
    <3> QED  BY <3>1, <3>2 DEF TrueEvent
  <2> QED  BY <2>0, <2>1
<1> QED  BY <1>2, <1>3, <1>4, <1>5, <1>6, <1>7, <1>8 DEF TrailIInv

LEMMA EmptyDelta ==
  ASSUME Deltas # {}
  PROVE  <<>> \in Deltas /\ DOMAIN <<>> = {}
<1>1. PICK d : d = <<>>
  OBVIOUS
<1>2. PICK D \in SUBSET Field, s \in State : TRUE
  BY DEF Deltas
<1>3. d = [f \in {} |-> s[f]]
  BY <1>1
<1>4. d \in Deltas
  <2>1. \E T \in SUBSET Field, t \in State : d = [f \in T |-> t[f]]
    <3> WITNESS {} \in SUBSET Field, s \in State
    <3> QED  BY <1>3
  <2> QED  BY <2>1 DEF Deltas
<1> QED  BY <1>1, <1>4

\* What a commit writes, and the row it leaves.
LEMMA CommitFacts ==
  ASSUME TrailIInv, NEW w \in Worker, CommitOperation(w)
  PROVE  /\ work[w].op \in EventType \ Compensation /\ work[w].inst \in State
         /\ work[w].last \in 0 .. Len(events) /\ work[w].pre \in State \cup {NoState}
         /\ row' \in State \cup {Absent}
         /\ NewEvent(work[w]) \in HistoryEvent
         /\ NewEvent(work[w]).type = work[w].op /\ NewEvent(work[w]).parent = work[w].last
         /\ NewEvent(work[w]).version = VersionAfter(work[w].last)
         /\ NewEvent(work[w]).wrote = (work[w].cols # {})
         /\ work[w].quiet /\ work[w].op = "update" => row' = work[w].inst
<1> DEFINE c == work[w]
           version == VersionAfter(c.last)
<1>1. /\ c \in Work /\ Sound(c) /\ c.at = "locked" /\ Len(events) \in Nat
      /\ row \in State \cup {Absent} /\ TrailTypeOK
  BY DEF TrailIInv, TrailTypeOK, WorkSound, CommitOperation
<1>2. c.op \in EventType \ Compensation /\ c.inst \in State
  BY <1>1 DEF Sound, Shape, Working, InTransaction, Work
<1>3. c.last \in 0 .. Len(events) /\ c.pre \in State \cup {NoState} /\ c.cols \in SUBSET Field
  BY <1>1 DEF Sound, Placed, Work
<1>4. Written(w) \in State
  BY <1>2, WrittenType
<1>5. row' \in State \cup {Absent}
  BY <1>1, <1>4 DEF CommitOperation
<1>6. ComputeDelta(c.pre, c.inst) \in Deltas
  BY <1>2, <1>3, DeltaType
<1>7. version \in Nat \ {0}
  BY <1>1, <1>3, VersionAfterType
<1>8. NewEvent(c) =
        [type |-> c.op, version |-> version, parent |-> c.last,
         snapshot |-> IF DecideSnapshot(c.op, version) THEN c.inst ELSE NoState,
         delta |-> ComputeDelta(c.pre, c.inst), wrote |-> c.cols # {}]
  BY DEF NewEvent
<1>9. (c.cols # {}) \in BOOLEAN /\ c.last \in Nat
  BY <1>3
<1>10. NewEvent(c) \in HistoryEvent
  BY <1>2, <1>6, <1>7, <1>8, <1>9 DEF HistoryEvent
<1>11. ASSUME c.quiet, c.op = "update" PROVE row' = c.inst
  <2>1. row \in State /\ \A f \in Field \ c.cols : c.inst[f] = row[f]
    BY <1>1, <1>11 DEF Sound, Current, Agrees, InTransaction
  <2>2. row # Absent
    BY <2>1, AbsentAssumption
  <2>3. Written(w) = c.inst
    BY <1>2, <1>4, <2>1, <2>2, SameRow DEF Written
  <2>4. c.cols = {} => row = c.inst
    BY <1>2, <2>1, SameRow
  <2> QED  BY <1>11, <2>2, <2>3, <2>4 DEF CommitOperation
<1> QED  BY <1>2, <1>3, <1>5, <1>8, <1>10, <1>11

LEMMA CommitTrue ==
  ASSUME TrailIInv, NEW w \in Worker, CommitOperation(w), work[w].quiet,
         NEW n, n = Len(events) + 1
  PROVE  TrueEvent(n)'
<1> DEFINE c == work[w]
           e == NewEvent(c)
<1>1. /\ c \in Work /\ Sound(c) /\ c.at = "locked" /\ QuietSoFar /\ c.op # "bulk_update"
      /\ Len(events) \in Nat /\ events' = Append(events, e)
      /\ truth' = Append(truth, row')
  BY DEF TrailIInv, TrailTypeOK, WorkSound, CommitOperation, CommitEvent, Sound, Current
<1>2. /\ c.op \in EventType \ Compensation /\ c.inst \in State /\ row' \in State \cup {Absent}
      /\ e \in HistoryEvent /\ e.type = c.op
      /\ c.pre \in State \cup {NoState}
      /\ c.op = "update" => row' = c.inst
  BY CommitFacts
<1>3. /\ e.snapshot \in {c.inst, NoState}
      /\ c.op = "delete" => e.snapshot = c.inst
      /\ e.delta = ComputeDelta(c.pre, c.inst)
  BY DEF NewEvent, DecideSnapshot
<1> HIDE DEF e
<1>4. /\ events'[n] = e /\ truth'[n] = row'
      /\ n > 1 => truth'[n - 1] = truth[n - 1] /\ truth[n - 1] = row
  <2>1. events'[n] = e
    BY <1>1, <1>2, Appended DEF TrailIInv
  <2>2. truth \in Seq(State \cup {Absent}) /\ Len(truth) = Len(events) /\ n = Len(truth) + 1
    BY <1>1 DEF TrailIInv, TrailTypeOK, QuietSoFar
  <2>3. truth'[n] = row' /\ (n > 1 => truth'[n - 1] = truth[n - 1])
    BY <1>1, <1>2, <2>2
  <2>4. n > 1 => events # <<>> /\ n - 1 = Len(events)
    BY <1>1
  <2> QED  BY <1>1, <2>1, <2>3, <2>4 DEF TrailIInv, LastTruth
<1>5. CASE c.op = "update"
  <2>1. c.pre = row /\ row \in State /\ c.pre # NoState
    BY <1>1, <1>5, AbsentAssumption DEF Sound, Current, Agrees, InTransaction
  <2>2. c.inst = [f \in Field |-> IF f \in DOMAIN e.delta THEN e.delta[f] ELSE row[f]]
    BY <1>2, <1>3, <2>1, DeltaType
  <2> QED  BY <1>2, <1>3, <1>4, <1>5, <2>1, <2>2, AbsentAssumption DEF TrueEvent
<1>6. CASE c.op \in {"create", "bulk_create"}
  <2>1. events = <<>> /\ row = Absent
    BY <1>1, <1>6 DEF Sound, Current, InTransaction
  <2>2. Len(events) = 0
    BY <2>1
  <2>3. row' = c.inst
    <3>1. c.cols # {}
      BY <1>1, <1>6, FieldAssumption DEF Sound, Current, InTransaction
    <3> QED  BY <1>6, <2>1, <3>1 DEF CommitOperation, Written
  <2> QED  BY <1>2, <1>3, <1>4, <1>6, <2>2, <2>3, AbsentAssumption DEF TrueEvent
<1>7. CASE c.op \in {"delete", "restore"}
  <2>1. c.inst = row /\ c.pre = NoState /\ c.cols = {}
    BY <1>1, <1>7 DEF Sound, Current, InTransaction
  <2>2. DOMAIN e.delta = {} /\ row = [f \in Field |-> row[f]] /\ row \in State
    BY <1>2, <1>3, <2>1, DeltaType, StateAssumption
  <2>3. row' = IF c.op = "delete" THEN Absent ELSE row
    BY <2>1 DEF CommitOperation
  <2> QED
    BY <1>2, <1>3, <1>4, <1>7, <2>1, <2>2, <2>3, AbsentAssumption DEF TrueEvent
<1> QED  BY <1>1, <1>2, <1>5, <1>6, <1>7 DEF EventType, Compensation

LEMMA TrailCommitIInv ==
  ASSUME TrailIInv, NEW w \in Worker, CommitOperation(w)
  PROVE  TrailIInv'
<1>c. PICK c : c = work[w]
  OBVIOUS
<1>e. PICK e : e = NewEvent(c)
  OBVIOUS
<1>k. PICK k : k = IF c.then = "end" THEN Idle
                   ELSE [c EXCEPT !.at = "restored", !.cols = {}, !.pre = NoState, !.last = 0,
                                  !.holds = FALSE]
  OBVIOUS
<1>1. /\ c \in Work /\ Sound(c) /\ c.at = "locked"
      /\ Len(events) \in Nat /\ DOMAIN events = 1 .. Len(events)
      /\ CommitEvent(w, k, e) /\ TrailTypeOK
  BY <1>c, <1>e, <1>k DEF TrailIInv, TrailTypeOK, WorkSound, CommitOperation
<1>3. /\ c.op \in EventType \ Compensation /\ row' \in State \cup {Absent}
      /\ c.last \in 0 .. Len(events)
      /\ e \in HistoryEvent /\ e.type = c.op /\ e.parent = c.last
      /\ e.version = VersionAfter(c.last) /\ e.wrote = (c.cols # {})
      /\ c.quiet /\ c.op = "update" => row' = c.inst
  BY <1>c, <1>e, CommitFacts
<1>4. k \in Work /\ k.at \in {"idle", "restored"}
  <2>1. CASE c.then = "end"
    BY <1>k, <2>1, IdleWork DEF Idle
  <2>2. CASE c.then # "end"
    BY <1>1, <1>k, <2>2 DEF Work
  <2> QED  BY <2>1, <2>2
<1>5. Sound(k)'
  <2>1. Len(events') = Len(events) + 1
    BY <1>1, <1>3, Appended DEF CommitEvent
  <2>2. CASE c.then = "end"
    BY <1>1, <1>k, <2>1, <2>2
    DEF Sound, Shape, Placed, Ahead, Current, Idle, Working, InTransaction, Compensation, SaveTypes
  <2>3. CASE c.then # "end"
    <3>1. c.op = "update" /\ c.parent # 0 /\ c.parent <= Len(events)
      BY <1>1, <2>3 DEF Sound, Shape, Placed
    <3>2. /\ k.at = "restored" /\ k.op = c.op /\ k.last = 0 /\ k.parent = c.parent
          /\ k.then = c.then /\ k.inst = c.inst /\ k.holds = FALSE /\ k.quiet = c.quiet
      BY <1>1, <1>k, <2>3 DEF Work
    <3>3. c.parent \in Nat
      BY <1>1 DEF Work
    <3>4. Shape(k)' /\ Ahead(k)'
      BY <1>3, <2>3, <3>1, <3>2 DEF Shape, Ahead, Working, InTransaction, SaveTypes
    <3>5. Placed(k)'
      BY <1>1, <2>1, <3>1, <3>2, <3>3 DEF Placed
    <3>6. Current(k)'
      <4> SUFFICES ASSUME c.quiet PROVE Current(k)'
        BY <3>2 DEF Current
      <4>1. truth \in Seq(State \cup {Absent}) /\ Len(truth) = Len(events)
        BY <1>1 DEF TrailTypeOK, Sound, Current, QuietSoFar
      <4>2. Len(truth') = Len(events')
        BY <1>1, <1>3, <1>c, <2>1, <4>1 DEF CommitEvent
      <4> QED  BY <1>3, <3>1, <3>2, <4>2 DEF Current, InTransaction, QuietSoFar
    <3> QED  BY <3>4, <3>5, <3>6 DEF Sound
  <2> QED  BY <2>2, <2>3
<1>6. /\ e.version > 1 => \E j \in 1 .. Len(events) : events[j].version = e.version - 1
      /\ e.parent = 0 => e.version = 1
      /\ e.parent # 0 => events[e.parent].version = e.version - 1
  <2>1. c.last # 0 => events[c.last] \in HistoryEvent
    BY <1>1, <1>3 DEF TrailTypeOK
  <2>2. c.last # 0 => events[c.last].version \in Nat
    BY <2>1 DEF HistoryEvent
  <2> QED  BY <1>1, <1>3, <2>2 DEF VersionAfter
<1>7. e.type \in SaveTypes /\ e.wrote => HoldsRow(w) /\ \A j \in DOMAIN events :
           events[j].type \in SaveTypes /\ events[j].wrote => events[j].version < e.version
  BY <1>1, <1>3, <1>c DEF Sound, Shape, Ahead, HoldsRow
<1>8. PICK n : n = Len(events) + 1
  OBVIOUS
<1>9. work[w].quiet => TrueEvent(n)'
  BY <1>8, CommitTrue
<1>10. e.parent <= Len(events)
  BY <1>1, <1>3
<1>11. e.type \notin Compensation
  BY <1>3
<1> QED
  BY <1>1, <1>3, <1>4, <1>5, <1>6, <1>7, <1>8, <1>9, <1>10, <1>11, AppendIInv

LEMMA InsertCompensationIInv ==
  ASSUME TrailIInv, NEW w \in Worker, InsertCompensation(w)
  PROVE  TrailIInv'
<1> DEFINE c == work[w]
<1>e. PICK e : e = [type |-> c.then, version |-> VersionAfter(c.last), parent |-> c.parent,
                    snapshot |-> c.inst, delta |-> <<>>, wrote |-> FALSE]
  OBVIOUS
<1>1. /\ c \in Work /\ Sound(c) /\ c.at = "numbered"
      /\ Len(events) \in Nat /\ DOMAIN events = 1 .. Len(events) /\ TrailTypeOK
      /\ row \in State \cup {Absent}
  BY DEF TrailIInv, TrailTypeOK, WorkSound, InsertCompensation
<1>2. /\ CommitEvent(w, Idle, e) /\ row' = row /\ events' = Append(events, e)
      /\ c.quiet => truth' = Append(truth, row)
  BY <1>e DEF InsertCompensation, CommitEvent
<1>3. /\ c.then \in Compensation /\ c.last \in 1 .. Len(events) /\ c.parent \in 1 .. Len(events)
      /\ events[c.parent].version <= events[c.last].version
      /\ c.inst \in State \cup {NoState}
  BY <1>1 DEF Sound, Shape, Placed, Work, Compensation
<1>4. /\ events[c.last] \in HistoryEvent /\ events[c.parent] \in HistoryEvent
  BY <1>1, <1>3 DEF TrailTypeOK
<1>5. /\ events[c.last].version \in Nat \ {0} /\ events[c.parent].version \in Nat
      /\ VersionAfter(c.last) = events[c.last].version + 1
      /\ events[c.last].delta \in Deltas
  BY <1>3, <1>4 DEF HistoryEvent, VersionAfter
<1>6. <<>> \in Deltas /\ DOMAIN <<>> = {}
  <2>1. Deltas # {}
    BY <1>5
  <2> QED  BY <2>1, EmptyDelta
<1>7. e \in HistoryEvent
  <2>1. VersionAfter(c.last) \in Nat \ {0} /\ c.parent \in Nat
    BY <1>1, <1>3, <1>5
  <2>2. c.then \in EventType
    BY <1>3 DEF Compensation, EventType
  <2> QED  BY <1>1, <1>3, <1>6, <1>e, <2>1, <2>2 DEF HistoryEvent
<1>8. Sound(Idle)'
  <2>1. Len(events') \in Nat
    BY <1>1, <1>2, <1>7, Appended
  <2> QED
    BY <2>1
    DEF Sound, Shape, Placed, Ahead, Current, Idle, Working, InTransaction, Compensation, SaveTypes
<1>9. /\ \E j \in 1 .. Len(events) : events[j].version = e.version - 1
      /\ e.parent # 0 /\ e.parent <= Len(events) /\ events[e.parent].version < e.version
  BY <1>1, <1>3, <1>5, <1>e
<1>10. PICK n : n = Len(events) + 1
  OBVIOUS
<1>11. ASSUME c.quiet PROVE TrueEvent(n)'
  <2>1. (row = Absent \/ c.inst \in {NoState, row}) /\ QuietSoFar
    BY <1>1, <1>11 DEF Sound, Current
  <2>2. /\ events'[n] = e /\ truth'[n] = row /\ truth'[n - 1] = truth[n - 1]
        /\ truth[n - 1] = row
    <3>1. events # <<>> /\ n - 1 = Len(events) /\ n - 1 \in 1 .. Len(events)
      BY <1>1, <1>3, <1>10
    <3>2. truth \in Seq(State \cup {Absent}) /\ Len(truth) = Len(events)
      BY <1>1, <2>1 DEF TrailTypeOK, QuietSoFar
    <3>3. truth'[n] = row /\ truth'[n - 1] = truth[n - 1]
      BY <1>1, <1>2, <1>10, <1>11, <3>1, <3>2
    <3>4. events'[n] = e
      BY <1>1, <1>2, <1>7, <1>10, Appended
    <3> QED  BY <2>1, <3>1, <3>3, <3>4 DEF TrailIInv, LastTruth
  <2>3. row \in State => row = [f \in Field |-> row[f]]
    BY StateAssumption
  <2>4. c.then # "delete"
    BY <1>3 DEF Compensation
  <2> QED  BY <1>1, <1>3, <1>6, <1>e, <2>1, <2>2, <2>3, <2>4 DEF TrueEvent
<1>12. e.type \in Compensation /\ ~e.wrote /\ row' \in State \cup {Absent}
  BY <1>1, <1>2, <1>3, <1>e DEF Compensation
<1>13. Idle \in Work /\ Idle.at = "idle"
  BY IdleWork DEF Idle
<1> QED  BY <1>2, <1>7, <1>8, <1>9, <1>10, <1>11, <1>12, <1>13, AppendIInv

LEMMA TrailNextIInv == TrailIInv /\ [TrailNext]_trail => TrailIInv'
<1> SUFFICES ASSUME TrailIInv, [TrailNext]_trail PROVE TrailIInv'
  OBVIOUS
<1>1. ASSUME NEW w \in Worker, Call(w) PROVE TrailIInv'
  BY <1>1, OperationIInv, UndoIInv DEF Call
<1>2. ASSUME NEW w \in Worker, Step(w) PROVE TrailIInv'
  BY <1>2, StepIInv, TrailCommitIInv, InsertCompensationIInv DEF Step
<1>3. ASSUME NEW w \in Worker, Interrupt(w) PROVE TrailIInv'
  BY <1>3, StopIInv DEF Interrupt
<1>4. CASE UNCHANGED trail
  <2>1. \A c : Sound(c)' <=> Sound(c)
    BY <1>4 DEF trail, Sound, Shape, Placed, Ahead, Current, Agrees, VersionAfter, QuietSoFar
  <2>2. \A i : TrueEvent(i)' <=> TrueEvent(i)
    BY <1>4 DEF trail, TrueEvent
  <2>3. TrailTypeOK' /\ WorkSound'
    BY <1>4, <2>1 DEF trail, TrailIInv, TrailTypeOK, WorkSound
  <2>4. RowExclusive' /\ LastTruth' /\ EventsTrue'
    BY <1>4, <2>2 DEF trail, TrailIInv, RowExclusive, HoldsRow, LastTruth, EventsTrue, QuietSoFar
  <2>5. HistoryIsConnected'
    BY <1>4 DEF trail, TrailIInv, HistoryIsConnected
  <2>6. SavesNeverShareVersion'
    BY <1>4 DEF trail, TrailIInv, SavesNeverShareVersion
  <2> QED  BY <2>3, <2>4, <2>5, <2>6 DEF TrailIInv
<1> QED  BY <1>1, <1>2, <1>3, <1>4 DEF TrailNext

LEMMA TrailInvariance == TrailSpec => []TrailIInv
BY TrailInitIInv, TrailNextIInv, PTL DEF TrailSpec

\* Its types hold, the versions of an object begin at 1 and leave none out, and each
\* event comes after its parent.
THEOREM TrailTypeCorrect == TrailSpec => []TrailTypeOK
<1>1. TrailIInv => TrailTypeOK
  BY DEF TrailIInv
<1> QED  BY <1>1, TrailInvariance, PTL

THEOREM HistoryConnects == TrailSpec => []HistoryIsConnected
<1>1. TrailIInv => HistoryIsConnected
  BY DEF TrailIInv
<1> QED  BY <1>1, TrailInvariance, PTL

\* The lock of the row keeps the versions of two saves apart.
THEOREM SavesAreNumberedApart == TrailSpec => []SavesNeverShareVersion
<1>1. TrailIInv => SavesNeverShareVersion
  BY DEF TrailIInv
<1> QED  BY <1>1, TrailInvariance, PTL

-----------------------------------------------------------------------------
(* get_version().                                                            *)

\* The least-number principle, for sets.
LEMMA LeastNumber ==
  ASSUME NEW S \in SUBSET Nat, S # {}
  PROVE  \E m \in S : \A n \in S : m <= n
<1> DEFINE R == {p \in Nat \X Nat : p[1] < p[2]}
<1>1. IsWellFoundedOn(R, Nat)
  BY NatLessThanWellFounded DEF OpToRel
<1> HIDE DEF R
<1>2. PICK m \in S : \A n \in S : <<n, m>> \notin R
  BY <1>1, WFMin
<1>3. ASSUME NEW n \in S PROVE m <= n
  <2>1. <<n, m>> \notin R
    BY <1>2
  <2> QED  BY <2>1 DEF R
<1> QED  BY <1>3

LEMMA GreatestNumber ==
  ASSUME NEW v \in Nat, NEW S \in SUBSET (1 .. v), S # {}
  PROVE  Max(S) \in S /\ \A n \in S : Max(S) >= n
<1> DEFINE D == {v - n : n \in S}
<1>1. D \in SUBSET Nat /\ D # {}
  <2>1. \A n \in S : v - n \in Nat
    OBVIOUS
  <2> QED  BY <2>1
<1>2. PICK d \in D : \A c \in D : d <= c
  BY <1>1, LeastNumber
<1>3. PICK m \in S : d = v - m
  OBVIOUS
<1>4. \A n \in S : m >= n
  <2> SUFFICES ASSUME NEW n \in S PROVE m >= n
    OBVIOUS
  <2>1. v - m <= v - n
    BY <1>2, <1>3
  <2> QED  BY <2>1
<1> QED  BY <1>4 DEF Max

\* The events first .. v are of the quiet history, and the rows they left are rows.
Replayable(first, v) ==
  /\ first \in 1 .. v /\ v \in DOMAIN truth /\ v \in DOMAIN events
  /\ \A i \in first .. v : TrueEvent(i) /\ truth[i] \in State

\* A column that no delta names has not changed.
LEMMA ColumnKept ==
  ASSUME TrailTypeOK, NEW m, NEW v, Replayable(m, v), NEW f \in Field,
         \A k \in m + 1 .. v : f \notin DOMAIN events[k].delta
  PROVE  truth[v][f] = truth[m][f]
<1> SUFFICES ASSUME truth[v][f] # truth[m][f] PROVE FALSE
  OBVIOUS
<1> DEFINE S == {k \in m .. v : truth[k][f] # truth[m][f]}
<1>1. m \in Nat /\ v \in Nat /\ m >= 1 /\ v >= m
  BY DEF Replayable, TrailTypeOK
<1>2. S \in SUBSET Nat /\ S # {}
  BY <1>1
<1>3. PICK k \in S : \A j \in S : k <= j
  BY <1>2, LeastNumber
<1>4. k \in m + 1 .. v /\ k \in m .. v /\ k - 1 \in m .. v /\ k > 1
  BY <1>1
<1>5. truth[k - 1][f] = truth[m][f]
  BY <1>1, <1>3, <1>4
<1>6. truth[k] = [g \in Field |-> IF g \in DOMAIN events[k].delta THEN events[k].delta[g]
                                        ELSE truth[k - 1][g]]
  BY <1>4, AbsentAssumption DEF Replayable, TrueEvent
<1> QED  BY <1>4, <1>5, <1>6

\* A snapshot with the deltas of the events after it over it is the row that the last
\* of them left.
LEMMA ReplayIsTrue ==
  ASSUME TrailTypeOK, NEW base, NEW v, Replayable(base, v),
         events[base].snapshot = truth[base]
  PROVE  Reconstructed(base, v) = truth[v]
<1> DEFINE changed(f) == {k \in base + 1 .. v : f \in DOMAIN events[k].delta}
           column(f) == IF changed(f) = {} THEN events[base].snapshot[f]
                        ELSE events[Max(changed(f))].delta[f]
<1>1. base \in Nat /\ v \in Nat /\ base >= 1 /\ v >= base
  BY DEF Replayable, TrailTypeOK
<1>2. Reconstructed(base, v) = [f \in Field |-> column(f)]
  BY DEF Reconstructed, Replayed
<1>3. ASSUME NEW f \in Field PROVE column(f) = truth[v][f]
  <2>1. CASE changed(f) = {}
    <3>1. \A k \in base + 1 .. v : f \notin DOMAIN events[k].delta
      BY <2>1
    <3> QED  BY <2>1, <3>1, ColumnKept
  <2>2. CASE changed(f) # {}
    <3> DEFINE m == Max(changed(f))
    <3>1. changed(f) \in SUBSET (1 .. v)
      BY <1>1
    <3>2. m \in changed(f) /\ \A k \in changed(f) : m >= k
      BY <1>1, <2>2, <3>1, GreatestNumber
    <3> HIDE DEF m
    <3>3. m \in base + 1 .. v /\ f \in DOMAIN events[m].delta
      BY <3>2
    <3>4. \A k \in m + 1 .. v : f \notin DOMAIN events[k].delta
      BY <1>1, <3>2, <3>3
    <3>5. Replayable(m, v)
      BY <1>1, <3>3 DEF Replayable
    <3>6. truth[v][f] = truth[m][f]
      BY <3>4, <3>5, ColumnKept
    <3>7. m > 1 /\ TrueEvent(m) /\ truth[m] \in State
      BY <1>1, <3>3, <3>5 DEF Replayable
    <3>8. truth[m] = [g \in Field |-> IF g \in DOMAIN events[m].delta
                                            THEN events[m].delta[g]
                                            ELSE truth[m - 1][g]]
      BY <3>7, AbsentAssumption DEF TrueEvent
    <3>9. truth[m][f] = events[m].delta[f]
      BY <3>3, <3>8
    <3> QED  BY <2>2, <3>6, <3>9 DEF m
  <2> QED  BY <2>1, <2>2
<1>4. truth[v] = [f \in Field |-> truth[v][f]]
  BY <1>1, StateAssumption DEF Replayable
<1> HIDE DEF column
<1> QED  BY <1>2, <1>3, <1>4

\* A row that is there after some events that nothing overlapped was there before each.
LEMMA RowWasThere ==
  ASSUME TrailTypeOK, NEW v \in DOMAIN truth, \A i \in 1 .. v : TrueEvent(i),
         truth[v] # Absent
  PROVE  Replayable(1, v)
<1>1. /\ v \in Nat /\ v >= 1 /\ v \in DOMAIN events
      /\ \A i \in 1 .. v : truth[i] \in State \cup {Absent}
  BY DEF TrailTypeOK
<1> DEFINE S == {i \in 1 .. v : truth[i] = Absent}
<1>2. ASSUME S # {} PROVE FALSE
  <2> DEFINE i == Max(S)
  <2>1. i \in S /\ \A j \in S : i >= j
    BY <1>1, <1>2, GreatestNumber
  <2> HIDE DEF i
  <2>2. i \in 1 .. v /\ i # v /\ truth[i] = Absent
    BY <2>1
  <2>3. i + 1 \in 1 .. v /\ i + 1 > 1 /\ (i + 1) - 1 = i /\ i + 1 \notin S
    BY <1>1, <2>1, <2>2
  <2>4. TrueEvent(i + 1) /\ truth[i + 1] # Absent
    BY <2>3
  <2>5. truth[i] \in State
    BY <2>3, <2>4 DEF TrueEvent
  <2> QED  BY <2>2, <2>5, AbsentAssumption
<1>3. \A i \in 1 .. v : truth[i] \in State
  BY <1>1, <1>2
<1> QED  BY <1>1, <1>3 DEF Replayable

LEMMA QuietIsTrue == TrailIInv => QuietHistoryIsTrue
<1> SUFFICES ASSUME TrailIInv, NEW v \in DOMAIN truth,
                    events[v].type \in Compensation => truth[v] # Absent
             PROVE  \/ GetVersion(v) \in {NoState, truth[v]}
                    \/ events[v].type = "delete" /\ (v > 1 => GetVersion(v) = truth[v - 1])
  BY DEF QuietHistoryIsTrue
<1> DEFINE full == {k \in 1 .. v : events[k].snapshot # NoState}
           base == Max(full)
<1>1. /\ TrailTypeOK /\ v \in Nat /\ v >= 1 /\ 1 .. v \subseteq DOMAIN truth
      /\ events[v].snapshot \in State \cup {NoState}
      /\ truth[v] \in State \cup {Absent}
  <2>1. /\ DOMAIN events = 1 .. Len(events) /\ Len(events) \in Nat /\ TrailTypeOK
        /\ DOMAIN truth = 1 .. Len(truth) /\ Len(truth) \in Nat /\ Len(truth) <= Len(events)
        /\ truth[v] \in State \cup {Absent}
    BY DEF TrailIInv, TrailTypeOK
  <2>2. events[v] \in HistoryEvent
    BY <2>1 DEF TrailTypeOK
  <2>3. events[v].snapshot \in State \cup {NoState}
    BY <2>2 DEF HistoryEvent
  <2> QED  BY <2>1, <2>3
<1>2. \A i \in 1 .. v : TrueEvent(i)
  BY <1>1 DEF TrailIInv, EventsTrue
<1>3. CASE full = {}
  BY <1>3 DEF GetVersion
<1>4. CASE full # {}
  <2>1. base \in full /\ \A k \in full : base >= k
    BY <1>1, <1>4, GreatestNumber
  <2>2. GetVersion(v) = Reconstructed(base, v)
    BY <1>4 DEF GetVersion
  <2> HIDE DEF base
  <2>3. CASE truth[v] # Absent
    <3>1. Replayable(1, v)
      BY <1>1, <1>2, <2>3, RowWasThere
    <3>2. base \in 1 .. v /\ events[base].snapshot # NoState
      BY <2>1
    <3>3. Replayable(base, v)
      BY <1>1, <3>1, <3>2 DEF Replayable
    <3>4. TrueEvent(base) /\ truth[base] \in State
      BY <3>1, <3>2 DEF Replayable
    <3>5. events[base].snapshot = truth[base]
      BY <3>2, <3>4, AbsentAssumption DEF TrueEvent
    <3> QED  BY <1>1, <2>2, <3>3, <3>5, ReplayIsTrue
  <2>4. CASE truth[v] = Absent
    <3>1. TrueEvent(v)
      BY <1>1, <1>2
    <3>2. events[v].type = "delete" /\ events[v].snapshot # NoState
      BY <2>4, <3>1 DEF TrueEvent
    <3>3. v > 1 => events[v].snapshot = truth[v - 1]
      BY <3>1, <3>2 DEF TrueEvent
    <3>4. base = v
      <4>1. v \in full
        BY <1>1, <3>2
      <4> QED  BY <1>1, <2>1, <4>1
    <3>5. \A f : {k \in v + 1 .. v : f \in DOMAIN events[k].delta} = {}
      BY <1>1
    <3>6. Reconstructed(v, v) = [f \in Field |-> events[v].snapshot[f]]
      BY <3>5 DEF Reconstructed, Replayed
    <3>7. events[v].snapshot = [f \in Field |-> events[v].snapshot[f]]
      BY <1>1, <3>2, StateAssumption
    <3> QED  BY <2>2, <3>2, <3>3, <3>4, <3>6, <3>7
  <2> QED  BY <2>3, <2>4
<1> QED  BY <1>3, <1>4

\* In a quiet history, get_version() returns the row as that version left it, whatever
\* the interval of the snapshots.
THEOREM VersionsAreTrue == TrailSpec => []QuietHistoryIsTrue
BY QuietIsTrue, TrailInvariance, PTL

-----------------------------------------------------------------------------
(* The locks.                                                                *)

\* What has locked an event waits for the row at most, and is a delete then.
LEMMA EventHolderWaits ==
  ASSUME TrailIInv, NEW d \in Worker, NEW v \in Worker, work[d].at = "locked", WaitsFor(d, v)
  PROVE  WantsRow(d) /\ HoldsRow(v) /\ work[d].op = "delete"
<1>1. Shape(work[d])
  BY DEF TrailIInv, WorkSound, Sound
<1>2. WantsRow(d) /\ HoldsRow(v)
  BY DEF WaitsFor
<1>3. work[d].cols = {}
  BY <1>1, <1>2 DEF Shape, WantsRow, HoldsRow
<1> QED  BY <1>2, <1>3 DEF WantsRow

\* What has the row waits for an event at most.
LEMMA RowHolderWaits ==
  ASSUME TrailIInv, NEW v \in Worker, NEW d \in Worker, HoldsRow(v), WaitsFor(v, d)
  PROVE  work[d].at = "locked" /\ work[v].op # "delete"
<1>1. Shape(work[v])
  BY DEF TrailIInv, WorkSound, Sound
<1>2. work[v].at \in {"written", "chosen", "locked"} /\ work[v].cols # {} /\ ~WantsRow(v)
  BY <1>1 DEF Shape, HoldsRow, WantsRow
<1>3. HoldsEvent(d, work[v].last)
  BY <1>2 DEF WaitsFor
<1> QED  BY <1>1, <1>2, <1>3 DEF HoldsEvent, Shape

LEMMA LockOrder == TrailIInv => DeadlocksTakeADelete
<1> SUFFICES ASSUME TrailIInv, NEW S \in SUBSET Worker, Deadlock(S)
             PROVE  \E d, v \in S : /\ S = {d, v} /\ work[d].op = "delete"
                                   /\ work[v].op # "delete" /\ HoldsRow(v)
  BY DEF DeadlocksTakeADelete
<1>1. S # {} /\ \A w \in S : \E v \in S : WaitsFor(w, v)
  BY DEF Deadlock, Waiting
<1>2. PICK w \in S : TRUE
  BY <1>1
<1>3. PICK u \in S : WaitsFor(w, u)
  BY <1>1
\* Somebody in the circle has the row.
<1>4. PICK v \in S : HoldsRow(v)
  <2>1. HoldsRow(u) \/ work[u].at = "locked"
    BY <1>3 DEF WaitsFor, HoldsEvent
  <2>2. CASE work[u].at = "locked"
    <3>1. PICK y \in S : WaitsFor(u, y)
      BY <1>1
    <3> QED  BY <2>2, <3>1, EventHolderWaits
  <2> QED  BY <2>1, <2>2
<1>5. PICK d \in S : WaitsFor(v, d)
  BY <1>1
<1>6. work[d].at = "locked" /\ work[v].op # "delete"
  BY <1>4, <1>5, RowHolderWaits
<1>7. PICK y \in S : WaitsFor(d, y)
  BY <1>1
<1>8. HoldsRow(y) /\ work[d].op = "delete"
  BY <1>6, <1>7, EventHolderWaits
<1>9. y = v
  BY <1>4, <1>8 DEF TrailIInv, RowExclusive
<1>10. Waiting({d, v})
  BY <1>5, <1>7, <1>9 DEF Waiting
<1>11. S = {d, v}
  BY <1>10 DEF Deadlock
<1> QED  BY <1>4, <1>6, <1>8, <1>11

\* Whatever the operations that meet on an object, they wait for each other in a circle
\* only as a delete, which audits first, and one that has written the row.
THEOREM DeadlocksAreWithDeletes == TrailSpec => []DeadlocksTakeADelete
BY LockOrder, TrailInvariance, PTL
=============================================================================
