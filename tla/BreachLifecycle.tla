--------------------------- MODULE BreachLifecycle ---------------------------
(***************************************************************************)
(* limit/lifecycle.py: the append-only remediation timeline of one breach, *)
(* written by API calls of the two lines of defence and by the deadline    *)
(* phase of the worker's tick (worker/deadlines.py), each in a transaction *)
(* of its own.                                                             *)
(*                                                                         *)
(* A call reads its clock and the timeline (a page the user has open, the  *)
(* tick's candidate query), and only then waits for the row lock on the    *)
(* breach.  Under the lock everything is read again and one row is         *)
(* appended or the call is refused.  Locks end with the transaction.       *)
(*                                                                         *)
(* The text of narratives and evidence is left out, so are their refusals. *)
(***************************************************************************)
EXTENDS Naturals, FiniteSets, Sequences, FiniteSetsExt

CONSTANTS
  Users,        \* the people
  FirstLine,    \* those who hold breach.respond
  SecondLine,   \* those who hold breach.review (one may hold both)
  Callers,      \* API requests that may be in flight at once
  UserOf,       \* UserOf[p]: whose request p is
  Workers,      \* worker processes ticking at once
  Assignable,   \* those _resolve_assignee accepts: active users of the tenant
  NoUser,
  SLA,          \* the response deadline, in ticks of the clock
  MaxTime,      \* bound: the clock
  MaxActions,   \* bound: rows on the timeline
  MaxCrashes    \* bound: transactions that die on their own

ASSUME LifecycleAssumption ==
  /\ FirstLine \subseteq Users /\ SecondLine \subseteq Users
  /\ Assignable \subseteq Users /\ NoUser \notin Users
  /\ Callers \cap Workers = {} /\ UserOf \in [Callers -> Users]
  /\ SLA \in Nat /\ MaxTime \in Nat \ {0} /\ MaxActions \in Nat /\ MaxCrashes \in Nat

VARIABLES
  actions,   \* the committed rows of breach_action, in the order of their commits
  pc,        \* pc[p]: "idle", "waiting" (for the lock), "reading", "inserted", "failed"
  req,       \* req[p]: what p was called with
  seen,      \* seen[p]: how many rows p sees under the lock
  row,       \* row[p]: the row p has flushed and not committed
  lock,      \* the process holding the breach row FOR UPDATE, if any
  now,       \* the clock
  crashes

vars == <<actions, pc, req, seen, row, lock, now, crashes>>

Processes == Callers \cup Workers
SYSTEM == "SYSTEM"     \* the actor of an escalation
NoDue == 0             \* response_due is NULL
NoEpoch == 0           \* epoch_seq is NULL

\* expected is {n} for a call conditioned on expected_seq = n, {} for one that is not.
NoRequest == [verb |-> "NONE", actor |-> NoUser, assigned |-> NoUser,
              expected |-> {}, time |-> 0]
NoRow == [seq |-> 0, verb |-> "NONE", from |-> "NONE", to |-> "NONE", actor |-> NoUser,
          assigned |-> NoUser, due |-> NoDue, epoch |-> NoEpoch]

-----------------------------------------------------------------------------
\* What is derived from a timeline.

\* Mutant: the escalations of the tick do not count as states.
StateOfHumans(rows) ==
  LET last == Max({0} \cup {i \in DOMAIN rows : rows[i].verb # "ESCALATE"})
  IN  IF last = 0 THEN "DETECTED" ELSE rows[last].to

\* current_breach_state
StateOf(rows) == IF rows = <<>> THEN "DETECTED" ELSE rows[Len(rows)].to

\* _governing_assign: the row that opened the current epoch, 0 when there is none.
GoverningAssign(rows) == Max({0} \cup {i \in DOMAIN rows : rows[i].to = "ASSIGNED"})

\* Mutant: an epoch is known by its deadline.
EpochDue(rows) == rows[GoverningAssign(rows)].due

EpochSeq(rows) == rows[GoverningAssign(rows)].seq

\* _prior_1l_responders
Responders(rows) == {rows[i].actor : i \in {j \in DOMAIN rows : rows[j].verb = "1L_RESPONSE"}}

NextSeq(rows) == Len(rows) + 1

\* _require_current_epoch_response
CurrentEpochResponse(rows) ==
  \E i \in DOMAIN rows : rows[i].verb = "1L_RESPONSE" /\ i > GoverningAssign(rows)

\* _resolve_to_state: the allowed transitions.
ToState(from, verb) ==
  CASE verb = "ASSIGN" /\ from = "DETECTED" -> "ASSIGNED"
    [] verb = "1L_RESPONSE" /\ from \in {"ASSIGNED", "ESCALATED"} -> "RESPONDED"
    [] verb = "ESCALATE" /\ from \in {"ASSIGNED", "RESPONDED"} -> "ESCALATED"
    [] verb = "ACCEPT" /\ from \in {"RESPONDED", "ESCALATED"} -> "REVIEWED"
    [] verb = "REJECT" /\ from \in {"RESPONDED", "ESCALATED"} -> "ASSIGNED"
    [] verb = "CLOSE" /\ from = "REVIEWED" -> "CLOSED"
    [] OTHER -> "ILLEGAL"

\* select_overdue_breaches, and what escalate_overdue_breach checks again.
Overdue(rows, time) ==
  /\ StateOf(rows) \in {"ASSIGNED", "RESPONDED"}
  /\ GoverningAssign(rows) # 0
  /\ rows[GoverningAssign(rows)].due < time

-----------------------------------------------------------------------------
Init ==
  /\ actions = <<>>
  /\ pc = [p \in Processes |-> "idle"]
  /\ req = [p \in Processes |-> NoRequest]
  /\ seen = [p \in Processes |-> 0]
  /\ row = [p \in Processes |-> NoRow]
  /\ lock = {}
  /\ now = 1
  /\ crashes = 0

Submit(p, q) ==
  /\ pc[p] = "idle"
  /\ pc' = [pc EXCEPT ![p] = "waiting"]
  /\ req' = [req EXCEPT ![p] = q]
  /\ UNCHANGED <<actions, seen, row, lock, now, crashes>>

\* A request arrives, unconditioned or conditioned on the timeline as it is now:
\* its caller may have read an older one, but then it is stale already.  The
\* clock is read before the lock is waited for (it matters to deadlines only).
Request(p, verb, o, expected, time) ==
  Submit(p, [verb |-> verb, actor |-> UserOf[p], assigned |-> o,
             expected |-> expected, time |-> time])

Call(p) ==
  \E expected \in {{}, {Len(actions)}} :
    \/ /\ UserOf[p] \in FirstLine
       /\ Request(p, "1L_RESPONSE", NoUser, expected, 0)
    \/ /\ UserOf[p] \in SecondLine
       /\ \/ \E o \in Users : Request(p, "ASSIGN", o, expected, now)
          \/ \E o \in Users \cup {NoUser} : Request(p, "REJECT", o, expected, now)
          \/ \E verb \in {"ACCEPT", "CLOSE"} : Request(p, verb, NoUser, expected, 0)

\* A tick finds the breach overdue.
Select(p) ==
  /\ Overdue(actions, now)
  /\ Submit(p, [verb |-> "ESCALATE", actor |-> SYSTEM, assigned |-> NoUser,
                expected |-> {}, time |-> now])

\* _lock_breach: SELECT ... FOR UPDATE waits for the holder's transaction to end;
\* the statements after it see what is committed by then.
LockBreach(p) ==
  /\ pc[p] = "waiting" /\ lock = {}
  /\ lock' = {p}
  /\ pc' = [pc EXCEPT ![p] = "reading"]
  /\ seen' = [seen EXCEPT ![p] = Len(actions)]
  /\ UNCHANGED <<actions, req, row, now, crashes>>

Seen(p) == SubSeq(actions, 1, seen[p])

\* Mutant: expected_seq only has to be a number the timeline reached.
ReachedSeq(q, rows) == \A n \in q.expected : n <= Len(rows)

\* _check_expected_seq
ExpectedSeq(q, rows) == \A n \in q.expected : n = Len(rows)

Permitted(q, rows) ==
  /\ ExpectedSeq(q, rows)
  /\ q.verb \in {"ACCEPT", "REJECT", "CLOSE"} => q.actor \notin Responders(rows)
  /\ q.verb \in {"ACCEPT", "REJECT"} => CurrentEpochResponse(rows)
  /\ q.verb = "ESCALATE" => Overdue(rows, q.time)
  /\ ToState(StateOf(rows), q.verb) # "ILLEGAL"
  /\ q.verb = "ASSIGN" \/ q.assigned # NoUser => q.assigned \in Assignable

\* The owner stamped on the row that opens an epoch.
Owner(q, rows) ==
  IF q.verb = "REJECT" /\ q.assigned = NoUser
    THEN rows[GoverningAssign(rows)].assigned
    ELSE q.assigned

\* _insert_action
NewRow(q, rows) ==
  LET to == ToState(StateOf(rows), q.verb)
  IN  [seq |-> NextSeq(rows), verb |-> q.verb, from |-> StateOf(rows), to |-> to,
       actor |-> q.actor, assigned |-> Owner(q, rows),
       due |-> CASE to = "ASSIGNED" -> q.time + SLA
                 [] q.verb = "ESCALATE" -> rows[GoverningAssign(rows)].due
                 [] OTHER -> NoDue,
       epoch |-> IF q.verb = "ESCALATE" THEN EpochSeq(rows) ELSE NoEpoch]

\* uq_breach_action_seq
SameSeq(r, s) == r.seq = s.seq

\* Mutant: no partial unique index.
NeverSameEscalation(r, s) == FALSE

\* uq_breach_escalation
SameEscalation(r, s) == r.verb = "ESCALATE" /\ s.verb = "ESCALATE" /\ r.epoch = s.epoch

\* The transaction of p ends; its lock and its uncommitted row go with it.
End(p) ==
  /\ pc' = [pc EXCEPT ![p] = "idle"]
  /\ req' = [req EXCEPT ![p] = NoRequest]
  /\ seen' = [seen EXCEPT ![p] = 0]
  /\ row' = [row EXCEPT ![p] = NoRow]
  /\ lock' = lock \ {p}
  /\ UNCHANGED now

\* The row is inserted, unless the timeline has it already: then the statement
\* fails.  Against an uncommitted row the INSERT waits for its transaction.
Insert(p) ==
  LET r == NewRow(req[p], Seen(p))
      Clashes == {i \in DOMAIN actions : SameSeq(r, actions[i]) \/ SameEscalation(r, actions[i])}
  IN  /\ pc[p] = "reading"
      /\ Permitted(req[p], Seen(p)) /\ Len(actions) < MaxActions
      /\ \A other \in Processes \ {p} :
           pc[other] = "inserted" => ~SameSeq(r, row[other]) /\ ~SameEscalation(r, row[other])
      /\ IF Clashes = {}
           THEN pc' = [pc EXCEPT ![p] = "inserted"] /\ row' = [row EXCEPT ![p] = r]
           ELSE pc' = [pc EXCEPT ![p] = "failed"] /\ UNCHANGED row
      /\ UNCHANGED <<actions, req, seen, lock, now, crashes>>

\* A rule refuses the call, or the tick finds nothing left to do.
Refuse(p) ==
  /\ pc[p] = "reading"
  /\ ~Permitted(req[p], Seen(p)) \/ Len(actions) >= MaxActions
  /\ End(p) /\ UNCHANGED <<actions, crashes>>

\* An IntegrityError: the tick takes uq_breach_escalation for "done already".
Fail(p) == pc[p] = "failed" /\ End(p) /\ UNCHANGED <<actions, crashes>>

Commit(p) ==
  /\ pc[p] = "inserted"
  /\ actions' = Append(actions, row[p])
  /\ End(p) /\ UNCHANGED crashes

\* The process or its connection dies before the commit.
Crash(p) ==
  /\ pc[p] # "idle" /\ crashes < MaxCrashes
  /\ crashes' = crashes + 1
  /\ End(p) /\ UNCHANGED actions

Tick ==
  /\ now < MaxTime
  /\ now' = now + 1
  /\ UNCHANGED <<actions, pc, req, seen, row, lock, crashes>>

Handle(p) == Insert(p) \/ Refuse(p) \/ Fail(p) \/ Commit(p)

Next ==
  \/ \E p \in Callers : Call(p)
  \/ \E p \in Workers : Select(p)
  \/ \E p \in Processes : LockBreach(p) \/ Handle(p) \/ Crash(p)
  \/ Tick

Spec == Init /\ [][Next]_vars

\* run_supervisor ticks for ever; a transaction under way goes on; PostgreSQL
\* grants a contended row lock in the order of arrival.
Fairness ==
  /\ \A p \in Workers : WF_vars(Select(p))
  /\ \A p \in Processes : WF_vars(Handle(p)) /\ SF_vars(LockBreach(p))

FairSpec == Spec /\ Fairness

-----------------------------------------------------------------------------
States == {"DETECTED", "ASSIGNED", "RESPONDED", "ESCALATED", "REVIEWED", "CLOSED"}
Verbs == {"ASSIGN", "1L_RESPONSE", "ESCALATE", "ACCEPT", "REJECT", "CLOSE"}
Requests ==
  [verb : Verbs, actor : Users \cup {SYSTEM}, assigned : Users \cup {NoUser}, expected : SUBSET Nat, time : Nat]
Rows ==
  [seq : Nat, verb : Verbs, from : States, to : States, actor : Users \cup {SYSTEM},
   assigned : Users \cup {NoUser}, due : Nat, epoch : Nat]

\* Types of the state; the tick alone escalates, and an escalation names an earlier row as its epoch.
TypeOK ==
  /\ actions \in Seq(Rows) /\ Len(actions) <= MaxActions
  /\ \A i \in DOMAIN actions : actions[i].epoch < i /\ (actions[i].verb # "ESCALATE" => actions[i].actor \in Users)
  /\ pc \in [Processes -> {"idle", "waiting", "reading", "inserted", "failed"}]
  /\ req \in [Processes -> Requests \cup {NoRequest}]
  /\ seen \in [Processes -> 0..MaxActions]
  /\ row \in [Processes -> Rows \cup {NoRow}]
  /\ lock \subseteq Processes
  /\ now \in 1..MaxTime /\ crashes \in 0..MaxCrashes

\* The timeline is one legal history, whoever wrote its rows: numbered 1, 2, 3...
\* in commit order, each row starting from the state the previous one ended in.
TimelineChained ==
  \A i \in DOMAIN actions :
    /\ actions[i].seq = i
    /\ actions[i].from = IF i = 1 THEN "DETECTED" ELSE actions[i - 1].to
    /\ actions[i].to = ToState(actions[i].from, actions[i].verb)

\* A call conditioned on the timeline its caller read takes effect only on that
\* timeline (a retry after a tick's escalation does not answer it unseen).
ConditionedCallsAreFresh ==
  [][\A p \in Callers :
       pc[p] = "inserted" /\ actions' # actions /\ pc'[p] = "idle" =>
         \A n \in req[p].expected : Len(actions) = n]_vars

\* The deadline of the assignment in force has passed and the tick has not acted on it.
Unescalated ==
  /\ Overdue(actions, now)
  /\ \A j \in GoverningAssign(actions)..Len(actions) : actions[j].verb # "ESCALATE"

\* No missed deadline stays unescalated, whatever fails or collides on the way: somebody
\* moves the breach on or a tick does.
EveryDeadlineActedOn == []<>(~Unescalated \/ Len(actions) = MaxActions)

\* The timeline implements the machine the two lines of defence rely on.
state == StateOf(actions)
owner == LET g == GoverningAssign(actions) IN IF g = 0 THEN NoUser ELSE actions[g].assigned
responders == Responders(actions)
signers == {actions[i].actor : i \in {j \in DOMAIN actions : actions[j].verb \in {"ACCEPT", "CLOSE"}}}
answered == CurrentEpochResponse(actions)
escalated == \E j \in DOMAIN actions : actions[j].verb = "ESCALATE" /\ j > GoverningAssign(actions)
Machine == INSTANCE BreachMachine WITH
  state <- state, owner <- owner, responders <- responders,
  signers <- signers, answered <- answered, escalated <- escalated
ImplementsMachine == Machine!Spec
=============================================================================
