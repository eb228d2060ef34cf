-------------------------- MODULE NotificationCursor --------------------------
(***************************************************************************)
(* notification/service.py and worker/notifications.py: the phase of the   *)
(* tick that tells the holders of breach.review about every alarm of one   *)
(* tenant's audit trail, run by several workers at once.                   *)
(*                                                                         *)
(* There is no queue: the cursor is MAX(source_sequence_no) over the rows  *)
(* already recorded, so an alarm below it without a row is never looked at *)
(* again.  Each alarm is a transaction of its own: resolve the recipients, *)
(* deliver to all of them, then record a row and a NOTIFY.DISPATCH event   *)
(* for each; the first event takes the chain's advisory lock.              *)
(*                                                                         *)
(* The audit trail is the abstract log of AuditLog, which AuditChain       *)
(* implements.  PostgreSQL aborts one transaction of a deadlock.           *)
(***************************************************************************)
EXTENDS Naturals, FiniteSets, Sequences, FiniteSetsExt

CONSTANTS
  Workers,       \* the worker processes that tick
  Nobody,        \* nobody holds the advisory lock
  Reviewers,     \* ids of the users who may hold breach.review, in their order: positive numbers
  MaxAlarms,     \* bound: alarms raised
  MaxChanges,    \* bound: grants and revocations
  MaxFaults      \* bound: failed or killed notification transactions

ASSUME CursorAssumption ==
  /\ Nobody \notin Workers
  /\ Reviewers \subseteq Nat \ {0}
  /\ MaxAlarms \in Nat /\ MaxChanges \in Nat /\ MaxFaults \in Nat

VARIABLES
  log,        \* the types of the committed audit events, by sequence number
  rows,       \* the committed rows of breach_notification
  holders,    \* who holds breach.review now
  permanent,  \* those who hold it all along
  lock,       \* the holder of the chain's advisory lock
  pc,         \* pc[w]: where worker w is in its phase
  cursor,     \* cursor[w]: the high water w read
  queue,      \* queue[w]: the alarms w has still to process, oldest first: the least is under way
  todo,       \* todo[w]: the recipients still to deliver to, by id: the least is next
  outcomes,   \* outcomes[w]: who has been told how and has no row yet, in the same order
  mine,       \* mine[w]: the rows of the transaction under way, uncommitted
  changes, faults

people == <<holders, permanent>>
local == <<pc, cursor, queue, todo, outcomes, mine>>
cursorVars == <<log, rows, people, lock, local, changes, faults>>

EventTypes == {"ALARM", "DISPATCH"}
Trail == INSTANCE AuditLog

Sentinel == 0     \* NO_RECIPIENT_SENTINEL
Key(r) == <<r.seq, r.who>>     \* uq_breach_notification_event_recipient

Alarms == {n \in DOMAIN log : log[n] = "ALARM"}

\* _current_high_water
HighWater(rs) == IF rs = {} THEN 0 ELSE Max({r.seq : r \in rs})

-----------------------------------------------------------------------------
CursorInit ==
  /\ Trail!Init
  /\ holders \in SUBSET Reviewers /\ permanent \in SUBSET holders
  /\ rows = {} /\ lock = Nobody
  /\ pc = [w \in Workers |-> "idle"]
  /\ cursor = [w \in Workers |-> 0]
  /\ queue = [w \in Workers |-> {}]
  /\ todo = [w \in Workers |-> {}]
  /\ outcomes = [w \in Workers |-> {}]
  /\ mine = [w \in Workers |-> {}]
  /\ changes = 0 /\ faults = 0

\* A breach is detected or escalated: record_event needs the advisory lock.
RaiseAlarm ==
  /\ lock = Nobody
  /\ Cardinality(Alarms) < MaxAlarms
  /\ Trail!Publish(<<"ALARM">>)
  /\ UNCHANGED <<rows, people, lock, local, changes, faults>>

\* Somebody is granted or loses breach.review.
ChangeHolders ==
  /\ changes < MaxChanges
  /\ \E u \in Reviewers \ permanent :
       holders' = IF u \in holders THEN holders \ {u} ELSE holders \cup {u}
  /\ changes' = changes + 1
  /\ UNCHANGED <<log, rows, permanent, lock, local, faults>>

\* pending_alarm_events is two statements: the cursor, then the alarms above it.
ReadCursor(w) ==
  /\ pc[w] = "idle" /\ Alarms # {}
  /\ cursor' = [cursor EXCEPT ![w] = HighWater(rows)]
  /\ pc' = [pc EXCEPT ![w] = "polling"]
  /\ UNCHANGED <<log, rows, people, lock, queue, todo, outcomes, mine, changes, faults>>

ReadQueue(w) ==
  /\ pc[w] = "polling"
  /\ queue' = [queue EXCEPT ![w] = {n \in Alarms : n > cursor[w]}]
  /\ cursor' = [cursor EXCEPT ![w] = 0]
  /\ pc' = [pc EXCEPT ![w] = "next"]
  /\ UNCHANGED <<log, rows, people, lock, todo, outcomes, mine, changes, faults>>

Event(w) == Min(queue[w])
Later(w) == queue[w] \ {Event(w)}

\* Nothing is left of the queue: the phase is over.
Finish(w) ==
  /\ pc[w] = "next" /\ queue[w] = {}
  /\ pc' = [pc EXCEPT ![w] = "idle"]
  /\ UNCHANGED <<log, rows, people, lock, cursor, queue, todo, outcomes, mine, changes, faults>>

\* notify_for_event: holders_of_permission, ordered by id.
Resolve(w) ==
  /\ pc[w] = "next" /\ queue[w] # {}
  /\ pc' = [pc EXCEPT ![w] = "notifying"]
  /\ IF holders = {}
       THEN /\ outcomes' = [outcomes EXCEPT ![w] = {[who |-> Sentinel, outcome |-> "SUPPRESSED"]}]
            /\ UNCHANGED todo
       ELSE /\ todo' = [todo EXCEPT ![w] = holders]
            /\ UNCHANGED outcomes
  /\ UNCHANGED <<log, rows, people, lock, cursor, queue, mine, changes, faults>>

\* Phase A delivers to everybody before phase B records anybody.
MayDeliver(w) == todo[w] # {}

\* The sink accepts the message, refuses it or raises.
Deliver(w) ==
  /\ pc[w] = "notifying" /\ MayDeliver(w)
  /\ \E outcome \in {"SENT", "FAILED"} :
       outcomes' = [outcomes EXCEPT ![w] = @ \cup {[who |-> Min(todo[w]), outcome |-> outcome]}]
  /\ todo' = [todo EXCEPT ![w] = @ \ {Min(@)}]
  /\ UNCHANGED <<log, rows, people, lock, pc, cursor, queue, mine, changes, faults>>

NextOutcome(w) == CHOOSE o \in outcomes[w] : \A other \in outcomes[w] : o.who <= other.who
RowFor(n, o) == [seq |-> n, who |-> o.who, outcome |-> o.outcome]
NextRow(w) == RowFor(Event(w), NextOutcome(w))

RecordingTurn(w) == pc[w] = "notifying" /\ ~MayDeliver(w) /\ outcomes[w] # {}

\* Another worker has the same key in flight: the INSERT waits for its end.
WaitsForRow(w, other) ==
  /\ other # w /\ RecordingTurn(w)
  /\ Key(NextRow(w)) \in {Key(r) : r \in mine[other]}

WaitsForLock(w, other) == pc[w] = "emitting" /\ lock = other /\ other # w

\* _record_notification: the row ...
InsertRow(w) ==
  /\ RecordingTurn(w)
  /\ Key(NextRow(w)) \notin {Key(r) : r \in rows}
  /\ \A other \in Workers : ~WaitsForRow(w, other)
  /\ mine' = [mine EXCEPT ![w] = @ \cup {NextRow(w)}]
  /\ outcomes' = [outcomes EXCEPT ![w] = @ \ {NextOutcome(w)}]
  /\ pc' = [pc EXCEPT ![w] = "emitting"]
  /\ UNCHANGED <<log, rows, people, lock, cursor, queue, todo, changes, faults>>

\* ... and its NOTIFY.DISPATCH event.
Emit(w) ==
  /\ pc[w] = "emitting" /\ lock \in {Nobody, w}
  /\ lock' = w
  /\ pc' = [pc EXCEPT ![w] = "notifying"]
  /\ UNCHANGED <<log, rows, people, cursor, queue, todo, outcomes, mine, changes, faults>>

\* Mutant: the rows of a transaction survive it.
EndKeepingRows(w, where, left) ==
  /\ pc' = [pc EXCEPT ![w] = where]
  /\ queue' = [queue EXCEPT ![w] = left]
  /\ todo' = [todo EXCEPT ![w] = {}]
  /\ outcomes' = [outcomes EXCEPT ![w] = {}]
  /\ lock' = IF lock = w THEN Nobody ELSE lock
  /\ UNCHANGED <<people, cursor, changes, mine>>

\* The transaction of w ends, committed or not; w goes on as "where" says, with
\* what is left of its queue.
End(w, where, left) ==
  /\ pc' = [pc EXCEPT ![w] = where]
  /\ queue' = [queue EXCEPT ![w] = left]
  /\ todo' = [todo EXCEPT ![w] = {}]
  /\ outcomes' = [outcomes EXCEPT ![w] = {}]
  /\ mine' = [mine EXCEPT ![w] = {}]
  /\ lock' = IF lock = w THEN Nobody ELSE lock
  /\ UNCHANGED <<people, cursor, changes>>

\* Mutant: the first row is committed on its own.
CommitFirstRow(w) ==
  /\ pc[w] = "notifying" /\ mine[w] # {}
  /\ rows' = rows \cup mine[w]
  /\ Trail!Publish([i \in 1..Cardinality(mine[w]) |-> "DISPATCH"])
  /\ End(w, "next", Later(w))
  /\ UNCHANGED faults

\* Every outcome is recorded: the rows and their events become visible at once.
Commit(w) ==
  /\ pc[w] = "notifying" /\ todo[w] = {} /\ outcomes[w] = {}
  /\ rows' = rows \cup mine[w]
  /\ Trail!Publish([i \in 1..Cardinality(mine[w]) |-> "DISPATCH"])
  /\ End(w, "next", Later(w))
  /\ UNCHANGED faults

\* The key is committed already: somebody else handled this alarm, go on.
Dedup(w) ==
  /\ RecordingTurn(w)
  /\ Key(NextRow(w)) \in {Key(r) : r \in rows}
  /\ End(w, "next", Later(w))
  /\ UNCHANGED <<log, rows, faults>>

\* Mutant: the batch goes on after a failed alarm.
ContinueAfterFailure(w) == End(w, "next", Later(w))

\* The batch stops at a failed alarm, for the next tick to start at it again.
StopBatch(w) == End(w, "idle", {})

\* Any other failure, or the death of the worker, anywhere before the commit.
Fail(w) ==
  /\ pc[w] \in {"notifying", "emitting"}
  /\ faults < MaxFaults
  /\ faults' = faults + 1
  /\ StopBatch(w)
  /\ UNCHANGED <<log, rows>>

\* w has a row another worker waits for and waits for that worker's advisory
\* lock: PostgreSQL aborts either.
Deadlocked(w) ==
  \E other \in Workers :
    \/ WaitsForLock(w, other) /\ WaitsForRow(other, w)
    \/ WaitsForRow(w, other) /\ WaitsForLock(other, w)

DeadlockVictim(w) ==
  /\ Deadlocked(w)
  /\ StopBatch(w)
  /\ UNCHANGED <<log, rows, faults>>

Step(w) ==
  \/ ReadCursor(w) \/ ReadQueue(w) \/ Finish(w) \/ Resolve(w) \/ Deliver(w)
  \/ InsertRow(w) \/ Emit(w) \/ Commit(w) \/ Dedup(w) \/ DeadlockVictim(w)

CursorNext ==
  \/ RaiseAlarm
  \/ ChangeHolders
  \/ \E w \in Workers : Step(w) \/ Fail(w)

CursorSpec == CursorInit /\ [][CursorNext]_cursorVars

\* run_supervisor ticks for ever and PostgreSQL grants locks in order of arrival.
CursorFairSpec == CursorSpec /\ \A w \in Workers : WF_cursorVars(Step(w)) /\ SF_cursorVars(Emit(w))

-----------------------------------------------------------------------------
Outcomes == [who : Reviewers \cup {Sentinel}, outcome : {"SENT", "FAILED", "SUPPRESSED"}]
NoticeRows == [seq : Alarms, who : Reviewers \cup {Sentinel}, outcome : {"SENT", "FAILED", "SUPPRESSED"}]

\* Types; a row is about an alarm of the trail, an uncommitted one about the alarm under way.
CursorTypeOK ==
  /\ log \in Seq(EventTypes)
  /\ holders \subseteq Reviewers /\ permanent \subseteq holders
  /\ rows \subseteq NoticeRows
  /\ lock \in Workers \cup {Nobody}
  /\ pc \in [Workers -> {"idle", "polling", "next", "notifying", "emitting"}]
  /\ cursor \in [Workers -> 0 .. Len(log)]
  /\ queue \in [Workers -> SUBSET Alarms]
  /\ todo \in [Workers -> SUBSET Reviewers]
  /\ outcomes \in [Workers -> SUBSET Outcomes]
  /\ mine \in [Workers -> SUBSET NoticeRows]
  /\ changes \in 0 .. MaxChanges /\ faults \in 0 .. MaxFaults
  /\ \A w \in Workers : \A r \in mine[w] : queue[w] # {} /\ r.seq = Event(w)

\* The cursor never passes an alarm that has no row: what lies below it will
\* never be looked at again (the docstring's "a silent permanent no-notify").
NoAlarmSkipped ==
  \A n \in Alarms : n <= HighWater(rows) => \E r \in rows : r.seq = n

\* An alarm is recorded for all its recipients or for none: somebody who held
\* the permission all along has a row for every alarm the cursor has passed.
NobodyOverlooked ==
  \A n \in Alarms, u \in permanent :
    n <= HighWater(rows) => \E r \in rows : r.seq = n /\ r.who = u

\* Whatever fails on the way and however the recipients change, nothing stays
\* unhandled: again and again every alarm raised so far has a row.
EveryAlarmHandled == []<>(\A n \in Alarms : \E r \in rows : r.seq = n)
=============================================================================
